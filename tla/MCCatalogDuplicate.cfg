\* A file with two entries for one msgid, with libstdc++.
CONSTANTS
    Cat = {c1}
    Atom <- MCAtom
    EOT <- MCEOT
    NoContext = NoContext
    Undefined = Undefined
    Counts <- MCCounts
    Ids <- MCIds
    Contexts <- MCContexts
    Headers <- LoadHeaders
    Messages <- LoadMessages
    MaxEntries = 2
    MaxLoads = 1
    NoExceptions = FALSE
    EmplaceConsumes = TRUE
SPECIFICATION Spec
SYMMETRY CatSymmetry
INVARIANTS
    StoredWellFormed
\* The client may stop making calls.
CHECK_DEADLOCK FALSE
