CONSTANTS
    r1 = r1  r2 = r2  d1 = d1
    read = read  write = write  junk = junk
    readSealed = readSealed  writeSealed = writeSealed
    forged = forged  junkSealed = junkSealed  huge = huge  touched = touched
    Writers = {r1, r2}
    Readers = {d1}
    Bundles <- MCBundles
    Ids <- MCIds
    Bytes <- MCBytes
    WellFormed = {read, write}
    Oversized = {huge}
    Verifiers <- MCVerifiers
    Option <- SignatureVerifier
    MaxPublished = 3
    Rejected = Rejected
    NoVerifier = NoVerifier
    NoSnapshot = NoSnapshot
    NoTask = NoTask
    NoRules = NoRules
    NoOne = NoOne
SPECIFICATION Spec
SYMMETRY Symmetry
INVARIANTS ServesPublished Acknowledged NoReparseOfServed DecisionIsRecent
PROPERTIES NoRollback IsGoodRegister HSpec
