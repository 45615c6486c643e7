------------------------------ MODULE UpfAddrs ------------------------------
(***************************************************************************)
(* The user planes the SMF names (config.go): which node identity is       *)
(* reached at which address, learned from the messages the SMF forwards.   *)
(*                                                                         *)
(* RecordUpfAddr is called by concurrent HTTP handlers.  Each reads the    *)
(* clock, resolves the identity with no lock held, and then applies what   *)
(* it resolved under upfAddrMutex: three actions of one caller.            *)
(***************************************************************************)
EXTENDS Integers, Maps

CONSTANTS
    Nodes,              \* node identities (nodeKey)
    Fqdns,              \* those whose address DNS decides
    Addrs,
    NoAddr,             \* "", and what an unresolvable name yields
    Callers,            \* HTTP handlers in RecordUpfAddr at once
    UpfAddrLifetime,
    MaxNow,             \* bound: the clock stops here
    MaxMessages         \* bound: messages the SMF forwards

ASSUME NodeAssumption == Nodes # {} /\ Fqdns \subseteq Nodes /\ NoAddr \notin Addrs

ASSUME LifetimeAssumption ==
    UpfAddrLifetime \in Nat /\ MaxNow \in Nat /\ MaxMessages \in Nat

VARIABLES
    upfAddrs,           \* address -> the identities reachable at it
    upfNodeAddrs,       \* identity -> where it is, and when the SMF last named it
    callers,            \* the call each HTTP handler is in
    dns,                \* external: what resolving an identity yields now
    now,
    messages,           \* messages forwarded so far
    releases,           \* address -> calls of the upfAddrReleased hook
    lastNamed,          \* history: when the SMF last named each identity
    placed              \* history: where its last message in time put it

gateVars == <<upfAddrs, upfNodeAddrs, releases>>
historyVars == <<lastNamed, placed>>
vars == <<gateVars, callers, dns, now, messages, historyVars>>

NodeRecord == [addr: Addrs \cup {NoAddr}, seen: Nat]

\* The zero upfNodeRecord of an identity that has none.
NoRecord == [addr |-> NoAddr, seen |-> 0]

Call == [pc: {"idle", "resolve", "commit"}, node: Nodes, stamp: Nat,
         ip: Addrs \cup {NoAddr}]

Idle == [pc |-> "idle", node |-> CHOOSE n \in Nodes : TRUE, stamp |-> 0,
         ip |-> NoAddr]

Init ==
    /\ upfAddrs = EmptyMap
    /\ upfNodeAddrs = EmptyMap
    /\ callers = [c \in Callers |-> Idle]
    /\ dns \in [Nodes -> Addrs]
    /\ now = 0
    /\ messages = 0
    /\ releases = [a \in Addrs |-> 0]
    /\ lastNamed = [n \in Nodes |-> 0]
    /\ placed = [n \in Nodes |-> NoAddr]

-----------------------------------------------------------------------------
(* RecordUpfAddr.                                                          *)

\* The handler reads the clock before it resolves.
Arrive(c, node) ==
    /\ callers[c].pc = "idle"
    /\ messages < MaxMessages
    /\ messages' = messages + 1
    /\ callers' = [callers EXCEPT ![c] =
         [pc |-> "resolve", node |-> node, stamp |-> now, ip |-> NoAddr]]
    /\ UNCHANGED <<gateVars, dns, now, historyVars>>

ResolveNodeIdToIp(c) ==
    /\ callers[c].pc = "resolve"
    /\ callers' = [callers EXCEPT ![c].pc = "commit", ![c].ip = dns[callers[c].node]]
    /\ UNCHANGED <<gateVars, dns, now, messages, historyVars>>

Record(node) == At(upfNodeAddrs, node, NoRecord)

\* Mutant: an older message is applied over a newer one.
NeverSuperseded(call) == FALSE

Superseded(call) == Record(call.node).seen > call.stamp

\* The record of the named identity, dated before anything is swept.
Noted(call) ==
    IF Superseded(call)
    THEN upfNodeAddrs
    ELSE Store(upfNodeAddrs, call.node, [Record(call.node) EXCEPT !.seen = call.stamp])

\* Mutant: the sweep comes before the message is taken into account.
ExpiredFirst(call) ==
    {n \in DOMAIN Noted(call) :
        call.stamp - At(upfNodeAddrs, n, Noted(call)[n]).seen > UpfAddrLifetime}

Expired(call) == {n \in DOMAIN Noted(call) : call.stamp - Noted(call)[n].seen > UpfAddrLifetime}

\* Mutant: what an unresolvable name yields is taken for an address.
AppliesUnresolved(call) == ~Superseded(call)

\* Whether the resolution is applied.
Applies(call) == call.ip # NoAddr /\ ~Superseded(call)

\* Mutant: a node that moved goes on authorising the address it left.
LeaversExpired(call) == {<<n, Noted(call)[n].addr>> : n \in Expired(call)}

\* The identities that leave an address: those expired, and the one that moved.
Leavers(call) ==
    {<<n, Noted(call)[n].addr>> : n \in Expired(call)} \cup
    (IF Applies(call) /\ Record(call.node).addr # call.ip
     THEN {<<call.node, Record(call.node).addr>>}
     ELSE {})

\* Mutant: an address goes with the first identity that leaves it.
LeftByAny(call, a) ==
    IF \E n \in Nodes : <<n, a>> \in Leavers(call) THEN {} ELSE upfAddrs[a]

\* The identities left at an address.
Left(call, a) == upfAddrs[a] \ {n \in Nodes : <<n, a>> \in Leavers(call)}

\* forgetUpfAddrLocked: an address with no identity left is released.
Released(call) == {a \in DOMAIN upfAddrs : Left(call, a) = {}}

\* Mutant: the hook is not called.
HookForgotten(call) == releases

HookCalled(call) ==
    [a \in Addrs |-> IF a \in Released(call) THEN releases[a] + 1 ELSE releases[a]]

Commit(c) ==
    LET call    == callers[c]
        addrs   == [a \in DOMAIN upfAddrs \ Released(call) |-> Left(call, a)]
        records == Without(Noted(call), Expired(call))
    IN  /\ call.pc = "commit"
        /\ upfAddrs' = IF Applies(call)
                       THEN Store(addrs, call.ip, At(addrs, call.ip, {}) \cup {call.node})
                       ELSE addrs
        /\ upfNodeAddrs' = IF Applies(call)
                           THEN Store(records, call.node, [addr |-> call.ip, seen |-> call.stamp])
                           ELSE records
        /\ releases' = HookCalled(call)
        /\ callers' = [callers EXCEPT ![c] = Idle]
        /\ lastNamed' = [lastNamed EXCEPT ![call.node] =
             IF call.stamp > @ THEN call.stamp ELSE @]
        /\ placed' = [placed EXCEPT ![call.node] =
             IF call.ip # NoAddr /\ call.stamp >= lastNamed[call.node]
                /\ now - call.stamp <= UpfAddrLifetime
             THEN call.ip ELSE @]
        /\ UNCHANGED <<dns, now, messages>>

(* The environment.                                                        *)

\* A name comes to resolve elsewhere, or not at all.
Move(node, addr) ==
    /\ dns[node] # addr
    /\ dns' = [dns EXCEPT ![node] = addr]
    /\ UNCHANGED <<gateVars, callers, now, messages, historyVars>>

\* An identity that has been silent for too long is no longer placed anywhere.
Tick ==
    /\ now < MaxNow
    /\ now' = now + 1
    /\ placed' = [n \in Nodes |->
         IF now' - lastNamed[n] > UpfAddrLifetime THEN NoAddr ELSE placed[n]]
    /\ UNCHANGED <<gateVars, callers, dns, messages, lastNamed>>

Next ==
    \/ \E c \in Callers, node \in Nodes : Arrive(c, node)
    \/ \E c \in Callers : ResolveNodeIdToIp(c)
    \/ \E c \in Callers : Commit(c)
    \/ \E node \in Fqdns, addr \in Addrs \cup {NoAddr} : Move(node, addr)
    \/ Tick

Spec == Init /\ [][Next]_vars

-----------------------------------------------------------------------------
(* Properties.                                                             *)

\* IsKnownUpfAddr, asked of a report's source at this moment.
IsKnownUpfAddr(a) ==
    \E n \in At(upfAddrs, a, {}) : now - upfNodeAddrs[n].seen <= UpfAddrLifetime

\* Types of the two maps and the calls: nothing but an address is ever
\* authorised, an unresolved name included (RecordUpfAddr).
TypeOK ==
    /\ DOMAIN upfAddrs \subseteq Addrs
    /\ \A a \in DOMAIN upfAddrs : upfAddrs[a] \subseteq Nodes
    /\ DOMAIN upfNodeAddrs \subseteq Nodes
    /\ \A n \in DOMAIN upfNodeAddrs : upfNodeAddrs[n] \in NodeRecord
    /\ callers \in [Callers -> Call]
    /\ dns \in [Nodes -> Addrs \cup {NoAddr}]
    /\ releases \in [Addrs -> Nat]
    /\ now \in Nat

\* The two maps are each other's reverse, and no address is kept with nobody at
\* it: an identity left behind in one of them would authorise an address for the
\* life of the process.
AddrsCoherent ==
    /\ DOMAIN upfAddrs = {upfNodeAddrs[n].addr : n \in DOMAIN upfNodeAddrs} \ {NoAddr}
    /\ \A a \in DOMAIN upfAddrs :
         upfAddrs[a] = {n \in DOMAIN upfNodeAddrs : upfNodeAddrs[n].addr = a}

\* A user plane the SMF goes on naming is known at the address its last message
\* put it, however its name fails to resolve in between, whoever else comes to
\* that address or leaves it, and however late an older message is applied.
NamedIsKnown ==
    \A n \in Nodes :
        placed[n] # NoAddr /\ now - lastNamed[n] <= UpfAddrLifetime => IsKnownUpfAddr(placed[n])

\* An address is released only if every identity at it has moved elsewhere or
\* has not been named for the whole lifetime, the message being applied included.
ReleaseJustified ==
    [][\A a \in Addrs : releases'[a] > releases[a] =>
         \A n \in At(upfAddrs, a, {}) :
           \/ n \in DOMAIN upfNodeAddrs' /\ upfNodeAddrs'[n].addr # a
           \/ now - lastNamed'[n] > UpfAddrLifetime]_vars

Gate == INSTANCE AddrGate WITH authorised <- DOMAIN upfAddrs

\* What the holders of per-peer state rely on: an address stops being authorised
\* only in a step that releases it.
ImplementsGate == Gate!Spec

=============================================================================
