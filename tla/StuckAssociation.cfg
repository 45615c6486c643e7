\* Two set-ups for one user plane, whose name never moves.
SPECIFICATION AssocSpec
CONSTANTS
    Handlers = {h1, h2}
    Goroutines = {g1}
    Names = {n}
    Addrs = {a, b}
    NoAddr = NoAddr
    MaxMoves = 0
    SmfNodeIds = {n}
    UpfNames = {}
    Seqs = {1, 2}
    Retaining = {2}
CHECK_DEADLOCK FALSE
PROPERTIES
    AssociatedIsAnswerable
