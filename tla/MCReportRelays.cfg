\* Three numbers for two hosts' reports: the search wraps and the range fills.
\* The sweep interval exceeds the lifetime, so an outlived entry is still in the
\* table when a retransmission is looked for.
SPECIFICATION Spec
CONSTANTS
    Hosts = {h1, h2}
    Ports = {p1}
    UpfSeqs = {q1}
    RelaySequenceFloor = 2
    RelaySequenceCeil = 4
    ReportRelayLifetime = 1
    RelaySweepInterval = 2
    MaxNow = 3
    MaxReleases = 1
SYMMETRY HostSymmetry
INVARIANTS
    TypeOK
    IndexCoherent
    OneLiveClaim
PROPERTIES
    NumberNeverChangesHands
