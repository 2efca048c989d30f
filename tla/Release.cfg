CONSTANTS
    Beginnings <- MCBeginnings
    MaxEvents = 3
SPECIFICATION Spec
INVARIANTS TagsAreLinear TagMatchesModule HoldsEarlierMerges
CHECK_DEADLOCK FALSE
