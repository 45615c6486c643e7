\* Two requests of one number.
SPECIFICATION Spec
CONSTANTS
    Requests = {r1, r2}
    Goroutines = {g1}
    Seqs = {1}
    Self = self
    TxIds = {t1, t2}
    NumOfResend = 1
CHECK_DEADLOCK FALSE
INVARIANTS
    AnswerFindsSomethingWaiting
