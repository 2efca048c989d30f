CONSTANTS
    r1 = r1  r2 = r2  d1 = d1
    read = read  write = write  junk = junk
    readSealed = readSealed  writeSealed = writeSealed
    forged = forged  junkSealed = junkSealed  huge = huge  touched = touched
    Writers = {r1, r2}
    Readers = {d1}
    Bundles <- MCDocumentBundles
    Ids <- MCDocuments
    Bytes <- MCDocuments
    WellFormed = {read, write}
    Oversized = {}
    Verifiers <- MCDefaultVerifiers
    Option = NoVerifier
    MaxPublished = 3
    Rejected = Rejected
    NoVerifier = NoVerifier
    NoSnapshot = NoSnapshot
    NoTask = NoTask
    NoRules = NoRules
    NoOne = NoOne
SPECIFICATION ReadersSpec
PROPERTIES DecideReturns RefreshReturns Converges
