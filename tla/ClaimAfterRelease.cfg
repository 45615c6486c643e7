\* A release count old enough to be swept, and two handlers that have read it.
SPECIFICATION Spec
CONSTANTS
    Hosts = {h1}
    Ports = {p1}
    UpfSeqs = {q1}
    RelaySequenceFloor = 2
    RelaySequenceCeil = 2
    ReportRelayLifetime = 0
    RelaySweepInterval = 1
    MaxNow = 1
    MaxReleases = 2
    Self = Self
    TxIds = {t1}
    NumOfResend = 1
    Handlers = {g1, g2}
    RelaySendAttempts = 1
    LateResponses = FALSE
SYMMETRY GoroutineSymmetry
VIEW LiveState
INVARIANTS
    NoClaimForReleasedPeer
CHECK_DEADLOCK FALSE
