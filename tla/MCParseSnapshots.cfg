SPECIFICATION Spec
CONSTANTS
    Sessions = {s1, s2}
    Attempts <- MCRevisions
    Outputs = {o1, o2}
    None = None
    ContentOf <- MCScalarContents
    listed = listed
    applicants = applicants
    listedAgain = listedAgain
    applicantsAgain = applicantsAgain
    single = single
    page = page
    reviewed = reviewed
    frozen = frozen
    v1 = v1
    v2 = v2
SYMMETRY Symmetry
INVARIANTS
    TypeOK
    OneOutputPerInterpretation
    ReportsStand
    RefusalsJustified
PROPERTIES
    InterpretationsAreKept
