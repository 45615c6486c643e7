\* A response looked up while its transaction ends.
SPECIFICATION LifeSpec
CONSTANTS
    Self = Self
    Hosts = {h1}
    Ports = {p1}
    Seqs = {1}
    TxIds = {t1}
    NumOfResend = 3
INVARIANTS
    ReadErrorsAreSurvived
CHECK_DEADLOCK FALSE
