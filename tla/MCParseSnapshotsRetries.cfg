SPECIFICATION FairSpec
CONSTANTS
    Sessions = {s1, s2}
    Attempts <- MCChecks
    Outputs = {o1}
    None = None
    ContentOf <- MCBundleContents
    listed = listed
    applicants = applicants
    listedAgain = listedAgain
    applicantsAgain = applicantsAgain
    single = single
    page = page
    reviewed = reviewed
    frozen = frozen
    v1 = v1
    v2 = v2
PROPERTIES
    AttemptsAreReported
    ImplementsInterpretationTable
INVARIANTS
    NoWaitCycle
