----------------------------- MODULE NaturalLemmas -----------------------------
(***************************************************************************)
(* Sets of natural numbers: what the proofs need of the order of times, and *)
(* induction stated with a set in place of a predicate.                     *)
(***************************************************************************)
EXTENDS Integers, FiniteSetTheorems, WellFoundedInduction, TLAPS

Smaller == {ss \in Nat \X Nat : ss[1] < ss[2]}

LEMMA LeastNatural ==
    ASSUME NEW T, T \subseteq Nat, T # {}
    PROVE  \E x \in T : \A y \in T : x <= y
<1>1. IsWellFoundedOn(Smaller, Nat)
  BY NatLessThanWellFounded DEF OpToRel, Smaller
<1>2. PICK x \in T : \A y \in T : ~(<<y, x>> \in Smaller)
  BY <1>1, WFMin
<1>3. ASSUME NEW y \in T PROVE x <= y
  <2>1. x \in Nat /\ y \in Nat
    OBVIOUS
  <2>2. ~(<<y, x>> \in Smaller)
    BY <1>2
  <2>3. ~(y < x)
    BY <2>1, <2>2 DEF Smaller
  <2> QED
    BY <2>1, <2>3
<1> QED
  BY <1>3

\* Induction: the predicate is the set of numbers that satisfy it.
LEMMA NaturalsByInduction ==
    ASSUME NEW S, 0 \in S, \A n \in Nat : n \in S => n + 1 \in S
    PROVE  \A n \in Nat : n \in S
<1> DEFINE T == Nat \ S
<1>1. SUFFICES ASSUME T # {} PROVE FALSE
  OBVIOUS
<1>2. PICK x \in T : \A y \in T : x <= y
  BY <1>1, LeastNatural
<1>3. x \in Nat /\ x \notin S
  OBVIOUS
<1> HIDE DEF T
<1>4. x - 1 \in Nat
  BY <1>3
<1>5. x - 1 \notin T
  BY <1>2, <1>3, <1>4
<1>6. x - 1 \in S
  BY <1>4, <1>5 DEF T
<1>7. (x - 1) + 1 = x
  BY <1>3
<1> QED
  BY <1>3, <1>4, <1>6, <1>7

LEMMA GreatestNatural ==
    ASSUME NEW T, T \subseteq Nat, T # {}, NEW n \in Nat, \A x \in T : x <= n
    PROVE  \E x \in T : \A y \in T : y <= x
<1> DEFINE U == {n - x : x \in T}
<1>1. \A x \in T : n - x \in Nat
  OBVIOUS
<1>2. U \subseteq Nat /\ U # {}
  BY <1>1
<1>3. PICK u \in U : \A y \in U : u <= y
  BY <1>2, LeastNatural
<1>4. PICK x \in T : u = n - x
  OBVIOUS
<1>5. ASSUME NEW y \in T PROVE y <= x
  <2>1. n - y \in U
    OBVIOUS
  <2>2. n - x <= n - y
    BY <1>3, <1>4, <2>1
  <2> HIDE DEF U
  <2>3. x \in Nat /\ y \in Nat
    OBVIOUS
  <2> QED
    BY <2>2, <2>3
<1> QED
  BY <1>5

\* Finitely many events have a last time: a bound along an enumeration.
LEMMA FinitelyManyTimes ==
    ASSUME NEW T, IsFiniteSet(T), NEW at \in [T -> Nat]
    PROVE  \E n \in Nat : \A x \in T : at[x] <= n
<1>1. PICK size \in Nat : ExistsSurjection(1 .. size, T)
  BY FS_NatSurjection
<1>2. PICK f \in [1 .. size -> T] : \A x \in T : \E i \in 1 .. size : f[i] = x
  BY <1>1 DEF ExistsSurjection, Surjection
<1> DEFINE Bounded(k) == \E n \in Nat : \A i \in 1 .. size : i <= k => at[f[i]] <= n
           S == {k \in Nat : Bounded(k)}
<1>3. 0 \in S
  OBVIOUS
<1>4. ASSUME NEW k \in Nat, k \in S
      PROVE  k + 1 \in S
  <2>1. PICK n \in Nat : \A i \in 1 .. size : i <= k => at[f[i]] <= n
    BY <1>4
  <2>2. CASE k + 1 \in 1 .. size
    <3>1. at[f[k + 1]] \in Nat
      BY <2>2
    <3>2. PICK b \in Nat : n <= b /\ at[f[k + 1]] <= b
      BY <3>1
    <3>3. ASSUME NEW i \in 1 .. size, i <= k + 1
          PROVE  at[f[i]] <= b
      <4>1. i <= k \/ i = k + 1
        BY <3>3
      <4>2. at[f[i]] \in Nat
        OBVIOUS
      <4>3. QED
        BY <2>1, <3>2, <4>1, <4>2
    <3>4. QED
      BY <3>3
  <2>3. CASE k + 1 \notin 1 .. size
    BY <2>1, <2>3
  <2>4. QED
    BY <2>2, <2>3
<1>5. size \in S
  <2> HIDE DEF S
  <2>1. QED
    BY <1>3, <1>4, NaturalsByInduction
<1>6. PICK n \in Nat : \A i \in 1 .. size : at[f[i]] <= n
  BY <1>5
<1>7. QED
  BY <1>2, <1>6

\* The library's theorem on images needs an operator; this one, a function.
LEMMA ImagesAreFinite ==
    ASSUME NEW S, IsFiniteSet(S), NEW f
    PROVE  IsFiniteSet({f[x] : x \in S})
<1> DEFINE T == {f[x] : x \in S}
           g == [x \in S |-> f[x]]
<1>1. g \in [S -> T] /\ \A t \in T : \E x \in S : g[x] = t
  OBVIOUS
<1> HIDE DEF T, g
<1>2. g \in Surjection(S, T)
  BY <1>1 DEF Surjection
<1>3. IsFiniteSet(T)
  BY <1>2, FS_Surjection
<1> QED
  BY <1>3 DEF T
=============================================================================
