\* One peer and one number, so that every message meets the same transactions; a
\* number may be held by a successor while its released predecessor winds down.
SPECIFICATION LifeSpec
CONSTANTS
    Self = Self
    Hosts = {h1}
    Ports = {p1}
    Seqs = {1}
    TxIds = {t1, t2}
    NumOfResend = 2
INVARIANTS
    HeldNumbersAreRunning
    RunningIsFindable
    LifeTypeOK
    CopiesAreAbsorbed
    ExitLeavesNothingOpen
    NothingBeforeTheSocket
CHECK_DEADLOCK FALSE
PROPERTIES
    HeldMessagesArePosted
    ShutdownCompletes
    ReadLoopGoesOn
    EveryTransactionEnds
