\* A user plane that the SMF knows by a name, which moves or fails to resolve once,
\* and that answers with its address; the two requests differ in what they ask.
SPECIFICATION AssocSpec
CONSTANTS
    Handlers = {h1, h2}
    Goroutines = {g1}
    Names = {n}
    Addrs = {a, b}
    NoAddr = NoAddr
    MaxMoves = 1
    SmfNodeIds = {n}
    UpfNames = {}
    Seqs = {1, 2}
    Retaining = {2}
CHECK_DEADLOCK FALSE
INVARIANTS
    AssocTypeOK
    CopyAnswersThisRequest
PROPERTIES
    EntriesStay
    CacheConverges
    SetupsGoOn
    AssociatedGetsResponse
