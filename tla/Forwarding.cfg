\* Two requests, of one number or two, to a user plane named by address or by name,
\* with two answers on their way at once.  The model stops when both have ended.
SPECIFICATION FairSpec
CONSTANTS
    Requests = {r1, r2}
    Goroutines = {g1, g2}
    Seqs = {1, 2}
    Self = self
    TxIds = {t1, t2}
    NumOfResend = 1
CHECK_DEADLOCK FALSE
INVARIANTS
    TypeOK
    RegistrationsAreWaitedOn
    DeliveryNeverBlocks
PROPERTIES
    EveryRequestEnds
