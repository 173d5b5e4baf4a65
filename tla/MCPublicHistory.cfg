SPECIFICATION Spec
CONSTANTS
    Editions = {first, second}
    SourceOf <- MCSourceOf
    DateOf <- MCSameDate
    ParserOf <- MCParser
    Readings <- MCReadings
    Seed <- MCSeed
    None = None
    MaxBuilds = 3
    MaxAttempts = 2
    MaxDisturbances = 1
    first = first
    second = second
    third = third
    ordinary = ordinary
    special = special
    parser = parser
    described = described
    moved = moved
    rows1 = rows1
    rows2 = rows2
    rows3 = rows3
PROPERTIES
    LedgerGrows
INVARIANTS
    EvidenceSurvives
    GateAgrees
    RefusalsAreExplained
    ComparisonsReadTheirEditions
CHECK_DEADLOCK FALSE
