SPECIFICATION Spec
CONSTANTS
    landing = landing
    page = page
    first = first
    dead = dead
    alive = alive
    single = single
    pair = pair
    old = old
    new = new
    text = text
    Html = Html
    Discovery = Discovery
    None = None
    Landing <- MCLanding
    KeysAt <- MCKeysAt
    Links <- MCLinks
    ReverseUrls <- MCReverseUrls
    MaxDepth = 1
    MaxRequests = 4
    Editions <- MCEditions
    Flaky = {dead}
    Legacy = {first}
    MaxDisturbances = 1
    SourceOrder <- MCSourceOrder
    LabelOrder <- MCLabelOrder
    UrlOf <- MCUrlOf
    ApprovedBytes <- MCApprovedBytes
    EditionBound = {single}
    Unreadable = {Html}
INVARIANTS
    StatesTellTheTruth
    InterpretationsAreComplete
PROPERTIES
    DocumentsAreRevisited
    ChangesAreReported
