CONSTANTS
    r1 = r1
    Writers = {r1}
    Readers = {}
    Bytes <- MCBytes
    Ids <- MCIds
    WellFormed <- MCWellFormed
    Documents <- MCDocuments
    Oversized <- MCOversized
    Limit = 2
    Bundles <- MCBundles
    contentVersion <- MCContentVersion
    NoDocument = NoDocument
    Verifiers <- MCVerifiers
    Option = NoVerifier
    InPlace = TRUE
    MaxWrites = 3
    MaxPublished = 12
    Rejected = Rejected
    NoVerifier = NoVerifier
    NoSnapshot = NoSnapshot
    NoTask = NoTask
    NoRules = NoRules
    NoOne = NoOne
SPECIFICATION RSpec
INVARIANTS FileNeverMixed
