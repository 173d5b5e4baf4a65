SPECIFICATION Spec
CONSTANTS
    Parsers <- MCParsers
    Documents <- MCDocuments
    None = None
CHECK_DEADLOCK FALSE
INVARIANTS
    AcceptedAsReviewed
    
    CellLossIsLocal
    TextFitsItsRow
