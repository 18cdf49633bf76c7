\* A header with a msgctxt.
CONSTANTS
    Cat = {c1}
    Atom <- MCAtom
    EOT <- MCEOT
    NoContext = NoContext
    Undefined = Undefined
    Counts <- MCCounts
    Ids <- MCIds
    Contexts <- MCContexts
    Headers <- ContextHeaders
    Messages <- LoadMessages
    MaxEntries = 1
    MaxLoads = 1
    NoExceptions = FALSE
    EmplaceConsumes = FALSE
SPECIFICATION Spec
SYMMETRY CatSymmetry
INVARIANTS
    SizeExcludesHeader
\* The client may stop making calls.
CHECK_DEADLOCK FALSE
