\* Failed loads that leave a catalog behind, merged into others.
CONSTANTS
    Cat = {c1, c2}
    Atom <- MCAtom
    EOT <- MCEOT
    NoContext = NoContext
    Undefined = Undefined
    Counts <- MCCounts
    Ids <- MCIds
    Contexts <- MCContexts
    Headers <- MergeHeaders
    Messages <- MergeMessages
    MaxEntries = 2
    MaxLoads = 2
    NoExceptions = TRUE
    EmplaceConsumes = FALSE
SPECIFICATION Spec
SYMMETRY CatSymmetry
INVARIANTS
    TypeOK
    PluralLookupDefined
    SingularIsFormOfOne
    LastUsableEntryWins
PROPERTIES
    MergeIsUnion
    ImplementsDictionary
\* The client may stop making calls.
CHECK_DEADLOCK FALSE
