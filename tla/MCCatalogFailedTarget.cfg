\* A merge into a catalog whose load failed.
CONSTANTS
    Cat = {c1, c2}
    Atom <- MCAtom
    EOT <- MCEOT
    NoContext = NoContext
    Undefined = Undefined
    Counts <- MCCounts
    Ids <- MCIds
    Contexts <- MCContexts
    Headers <- MergeHeaders
    Messages <- MergeMessages
    MaxEntries = 1
    MaxLoads = 2
    NoExceptions = TRUE
    EmplaceConsumes = FALSE
SPECIFICATION Spec
SYMMETRY CatSymmetry
INVARIANTS
    GettextDefined
\* The client may stop making calls.
CHECK_DEADLOCK FALSE
