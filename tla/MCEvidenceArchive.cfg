SPECIFICATION FairSpec
CONSTANTS
    Runs = {r1, r2}
    Keys = {k1, k2}
    Contents = {c1, c2}
    Provenance = {p1}
    None = None
INVARIANTS
    TypeOK
    ParserBoundary
PROPERTIES
    WriteOnce
    ImplementsEvidence
    RetriesConverge
