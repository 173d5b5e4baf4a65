SPECIFICATION Spec
CONSTANTS
    Order <- MCOrder
    Resources <- MCResources
    Captures = {one, two, three, four}
    About <- MCAbout
    Bytes <- MCBytes
    Semantics <- MCSemantics
    Releases <- MCReleases
    Selections <- MCSelections
    Jobs = {job1}
    Limit = 1
    MaxLost = 1
    None = None
    alone = alone
    bundle = bundle
    p = p
    q = q
    meaning = meaning
    other = other
    old = old
    new = new
    page = page
    one = one
    two = two
    three = three
    four = four
    job1 = job1
INVARIANTS
    CandidatesArePinned
    CandidatesAreApproved
    OneCapturePerResource
    PersistedBeforeAccepted
CHECK_DEADLOCK FALSE
