\* A name that moves between two addresses and an identity that may share one
\* with it; two handlers at once, and enough messages and time for an identity
\* to be placed, fall silent, expire and be named again.
SPECIFICATION Spec
CONSTANTS
    Nodes = {fqdn, ip}
    Fqdns = {fqdn}
    Addrs = {a1, a2}
    NoAddr = NoAddr
    Callers = {c1, c2}
    UpfAddrLifetime = 1
    MaxNow = 3
    MaxMessages = 4
SYMMETRY GateSymmetry
INVARIANTS
    TypeOK
    AddrsCoherent
    NamedIsKnown
PROPERTIES
    ReleaseJustified
    ImplementsGate
CHECK_DEADLOCK FALSE
