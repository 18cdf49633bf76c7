\* One file of up to three entries of every kind, or two of up to two entries and
\* a merge, in the default build.
CONSTANTS
    Cat = {c1, c2}
    Atom <- MCAtom
    EOT <- MCEOT
    NoContext = NoContext
    Undefined = Undefined
    Counts <- MCCounts
    Ids <- MCIds
    Contexts <- MCContexts
    Headers <- LoadHeaders
    Messages <- LoadMessages
    MaxEntries = 3
    MaxLoads = 2
    NoExceptions = FALSE
    EmplaceConsumes = FALSE
SPECIFICATION Spec
SYMMETRY CatSymmetry
CONSTRAINT SecondFileIsShort
INVARIANTS
    StoredWellFormed
    GettextDefined
    AnswersItsQuery
    SizeExcludesHeader
    LastUsableEntryWins
PROPERTIES
    MergeIsUnion
    ImplementsDictionary
    NoSilentClobber
\* The client may stop making calls.
CHECK_DEADLOCK FALSE
