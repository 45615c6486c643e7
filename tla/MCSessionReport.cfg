\* One report, copies of it, its SMF and a request of the SMF's under the same
\* number; the address is released once and named again.  Two goroutines and two
\* transactions are alive at once.  The model stops where its bounds are reached.
SPECIFICATION Spec
CONSTANTS
    Hosts = {h1}
    Ports = {p1}
    UpfSeqs = {q1}
    RelaySequenceFloor = 2
    RelaySequenceCeil = 3
    ReportRelayLifetime = 0
    RelaySweepInterval = 1
    MaxNow = 0
    MaxReleases = 1
    Self = Self
    TxIds = {t1, t2}
    NumOfResend = 1
    Handlers = {g1, g2}
    RelaySendAttempts = 2
    LateResponses = FALSE
SYMMETRY GoroutineSymmetry
VIEW LiveState
INVARIANTS
    TypeOK
    ClaimsAreCurrent
    ClaimOutlivesExchange
    OneAnswerer
    NoStrandedClaim
CHECK_DEADLOCK FALSE
