CONSTANTS
    w1 = w1  w2 = w2  d1 = d1  v1 = v1  v2 = v2
    read = read  write = write  junk = junk  sealed = sealed
    Writers = {w1, w2}
    Readers = {d1}
    Ids = {v1, v2}
    Bytes <- MCBytes
    WellFormed = {read, write}
    Verifiers <- MCVerifiers
    Rejected = Rejected
    NoVerifier = NoVerifier
    NoSnapshot = NoSnapshot
    NoTask = NoTask
    NoRules = NoRules
SPECIFICATION HSpec
SYMMETRY Symmetry
INVARIANTS HTypeOK VerifiedBeforeParsed Pinned
PROPERTIES LastKnownGood IsRegister
