SPECIFICATION FairSpec
CONSTANTS
    Editions = {first, second, third}
    SourceOf <- MCTwoSources
    DateOf <- MCDated
    ParserOf <- MCParsers
    Readings <- MCSteadyTwo
    Seed <- MCSeed
    None = None
    MaxBuilds = 2
    MaxAttempts = 3
    MaxDisturbances = 1
    first = first
    second = second
    third = third
    ordinary = ordinary
    special = special
    parser = parser
    described = described
    moved = moved
    rows1 = rows1
    rows2 = rows2
    rows3 = rows3
INVARIANTS
    NothingIsRefused
CHECK_DEADLOCK FALSE
PROPERTIES
    CandidatesArePreserved
