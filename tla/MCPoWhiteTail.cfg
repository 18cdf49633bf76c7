SPECIFICATION PoSpec
CONSTANTS
    Cat = {a}
    Atom <- MCAtom
    EOT = "EOT"
    NoContext = NoContext
    Undefined = Undefined
    Counts <- MCCounts
    Ids <- MCIds
    Contexts <- MCContexts
    Headers = {}
    Messages = {}
    MaxEntries = 9
    MaxLoads = 1
    NoExceptions = FALSE
    EmplaceConsumes = FALSE
    Meaning <- MCMeaning
    StrKeys <- MCStrKeys
    Files <- LayoutFiles
PROPERTY
    WhiteRestIsConsumed
