CONSTANTS
    Values <- MCValues
    nesting <- MCNesting
    Nodes <- MCNodes
    height <- MCHeight
    Documents <- MCDocuments
    Queries <- MCQueries
    NoPolicy = NoPolicy
    TooLong = {}
    MaxRules = 2
    MaxDepth = 3
    MaxNodes = 10
SPECIFICATION ESpec
INVARIANTS NeverCrashes
CHECK_DEADLOCK FALSE
