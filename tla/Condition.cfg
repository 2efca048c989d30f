CONSTANTS
    Nodes <- MCNodes
    height <- MCHeight
    Trees <- MCTrees
    Queries <- MCQueries
    Guesses <- MCGuesses
SPECIFICATION Spec
INVARIANTS TraceMirrorsDecision MatchesIsKleene AbsenceNeverMatches UnknownShowsAbsent
CHECK_DEADLOCK FALSE
