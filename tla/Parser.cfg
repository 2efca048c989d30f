CONSTANTS
    Documents <- MCDocuments
    TooLong <- MCTooLong
    Values <- MCValues
    nesting <- MCNesting
    MaxRules = 2
    MaxDepth = 3
    MaxNodes = 7
SPECIFICATION Spec
INVARIANTS WorkIsBounded AcceptsLanguage
CHECK_DEADLOCK FALSE
