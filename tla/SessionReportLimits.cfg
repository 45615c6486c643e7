\* Two reports and one number between them, which a request of the SMF's may hold
\* too.  User planes answer late, and the claims that strands grow old.
SPECIFICATION Spec
CONSTANTS
    Hosts = {h1}
    Ports = {p1}
    UpfSeqs = {q1, q2}
    RelaySequenceFloor = 2
    RelaySequenceCeil = 2
    ReportRelayLifetime = 0
    RelaySweepInterval = 1
    MaxNow = 1
    MaxReleases = 0
    Self = Self
    TxIds = {t1, t2}
    NumOfResend = 1
    Handlers = {g1, g2}
    RelaySendAttempts = 2
    LateResponses = TRUE
SYMMETRY GoroutineSymmetry
VIEW LiveState
INVARIANTS
    ClaimOutlivesExchange
    OneAnswerer
    NoStrandedClaim
CHECK_DEADLOCK FALSE
