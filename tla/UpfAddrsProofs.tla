--------------------------- MODULE UpfAddrsProofs ---------------------------
(***************************************************************************)
(* The source gate for any number of user planes, addresses and concurrent *)
(* HTTP handlers: its two maps stay each other's reverse, and it keeps its *)
(* promise to the holders of per-peer state (AddrGate).                    *)
(***************************************************************************)
EXTENDS UpfAddrs, TLAPS

\* The two maps read pointwise.
Listed(n, a) == a \in DOMAIN upfAddrs /\ n \in upfAddrs[a]
Stands(n, a) == n \in DOMAIN upfNodeAddrs /\ upfNodeAddrs[n].addr = a

\* AddrsCoherent with its two set equalities taken apart.
Pointwise ==
    /\ \A a \in Addrs, n \in Nodes : Listed(n, a) <=> Stands(n, a)
    /\ \A a \in DOMAIN upfAddrs : upfAddrs[a] # {}

\* The inductive invariant.
GateInv == TypeOK /\ Pointwise

\* The pointwise form says what AddrsCoherent says of the two maps.
LEMMA PointwiseIsCoherent == GateInv => AddrsCoherent
<1> SUFFICES ASSUME GateInv PROVE AddrsCoherent
  OBVIOUS
<1>1. ASSUME NEW a \in DOMAIN upfAddrs
      PROVE  upfAddrs[a] = {n \in DOMAIN upfNodeAddrs : upfNodeAddrs[n].addr = a}
  BY <1>1 DEF GateInv, TypeOK, Pointwise, Listed, Stands
<1>2. ASSUME NEW a \in DOMAIN upfAddrs
      PROVE  a \in {upfNodeAddrs[n].addr : n \in DOMAIN upfNodeAddrs} \ {NoAddr}
  <2>1. PICK n \in upfAddrs[a] : TRUE
    BY <1>2 DEF GateInv, Pointwise
  <2>2. n \in DOMAIN upfNodeAddrs /\ upfNodeAddrs[n].addr = a
    BY <1>1, <1>2, <2>1
  <2>3. a # NoAddr
    BY <1>2, NodeAssumption DEF GateInv, TypeOK
  <2> QED
    BY <2>2, <2>3
<1>3. ASSUME NEW n \in DOMAIN upfNodeAddrs, upfNodeAddrs[n].addr # NoAddr
      PROVE  upfNodeAddrs[n].addr \in DOMAIN upfAddrs
  BY <1>3 DEF GateInv, TypeOK, NodeRecord, Pointwise, Listed, Stands
<1> DEFINE places == {upfNodeAddrs[n].addr : n \in DOMAIN upfNodeAddrs} \ {NoAddr}
<1>4. places \subseteq DOMAIN upfAddrs
  BY <1>3
<1>5. DOMAIN upfAddrs \subseteq places
  BY <1>2
<1>6. DOMAIN upfAddrs = places
  BY <1>4, <1>5
<1> QED
  BY <1>1, <1>6 DEF AddrsCoherent

-----------------------------------------------------------------------------
(* What one application of a message computes.                             *)

\* An identity without a call in progress has a well-typed call.
LEMMA IdleIsCall == Idle \in Call
BY NodeAssumption DEF Idle, Call

\* The record of a named identity, present or zero, is a record.
LEMMA RecordIsTyped ==
    ASSUME TypeOK, NEW n \in Nodes
    PROVE  Record(n) \in NodeRecord
BY DEF TypeOK, Record, At, NoRecord, NodeRecord

\* Dating the named identity's record moves nobody: it only adds that identity,
\* at no address, when it was unknown.
LEMMA NotedIs ==
    ASSUME TypeOK, NEW call \in Call
    PROVE  /\ DOMAIN Noted(call) \subseteq Nodes
           /\ DOMAIN upfNodeAddrs \subseteq DOMAIN Noted(call)
           /\ \A n \in DOMAIN Noted(call) :
                /\ Noted(call)[n] \in NodeRecord
                /\ Noted(call)[n].addr = Record(n).addr
           /\ call.node \in DOMAIN Noted(call)
                => Noted(call)[call.node].seen >= call.stamp
           /\ DOMAIN Noted(call) \subseteq DOMAIN upfNodeAddrs \cup {call.node}
<1>1. call.node \in Nodes /\ call.stamp \in Nat
  BY DEF Call
<1>2. Record(call.node) \in NodeRecord
  BY <1>1, RecordIsTyped
<1>3. \A n \in DOMAIN upfNodeAddrs : upfNodeAddrs[n] = Record(n)
  BY DEF Record, At
<1>4. CASE Superseded(call)
  <2>1. Noted(call) = upfNodeAddrs
    BY <1>4 DEF Noted
  <2>2. Record(call.node).seen >= call.stamp
    BY <1>1, <1>2, <1>4 DEF Superseded, NodeRecord
  <2> QED
    BY <1>1, <1>3, <2>1, <2>2 DEF TypeOK
<1>5. CASE ~Superseded(call)
  <2> DEFINE r == [Record(call.node) EXCEPT !.seen = call.stamp]
  <2>1. Noted(call) = Store(upfNodeAddrs, call.node, r)
    BY <1>5 DEF Noted
  <2>2. r \in NodeRecord /\ r.addr = Record(call.node).addr /\ r.seen = call.stamp
    BY <1>1, <1>2 DEF NodeRecord
  <2> HIDE DEF r
  <2>3. DOMAIN Noted(call) = DOMAIN upfNodeAddrs \cup {call.node}
    BY <2>1 DEF Store
  <2>4. Noted(call)[call.node] = r
    BY <2>1 DEF Store
  <2>5. \A n \in DOMAIN Noted(call) : n # call.node =>
           n \in DOMAIN upfNodeAddrs /\ Noted(call)[n] = upfNodeAddrs[n]
    BY <2>1, <2>3 DEF Store
  <2>6. ASSUME NEW n \in DOMAIN Noted(call)
        PROVE  Noted(call)[n] \in NodeRecord /\ Noted(call)[n].addr = Record(n).addr
    <3>1. CASE n = call.node
      BY <3>1, <2>2, <2>4
    <3>2. CASE n # call.node
      BY <3>2, <1>3, <2>5 DEF TypeOK
    <3> QED
      BY <3>1, <3>2
  <2>7. Noted(call)[call.node].seen >= call.stamp
    BY <1>1, <2>2, <2>4
  <2>8. DOMAIN Noted(call) \subseteq Nodes
    BY <1>1, <2>3 DEF TypeOK
  <2> QED
    BY <2>3, <2>6, <2>7, <2>8
<1> QED
  BY <1>4, <1>5

\* The identity a message names is never swept by it.
LEMMA NamedNotExpired ==
    ASSUME TypeOK, NEW call \in Call
    PROVE  call.node \notin Expired(call)
<1> SUFFICES ASSUME call.node \in DOMAIN Noted(call)
             PROVE  ~(call.stamp - Noted(call)[call.node].seen > UpfAddrLifetime)
  BY DEF Expired
<1>1. /\ Noted(call)[call.node].seen \in Nat
      /\ Noted(call)[call.node].seen >= call.stamp
  BY NotedIs DEF NodeRecord
<1>2. call.stamp \in Nat
  BY DEF Call
<1> QED
  BY <1>1, <1>2, LifetimeAssumption

\* Who leaves an address: what is expired there, and the identity that moved.
LEMMA LeaversAre ==
    ASSUME TypeOK, NEW call \in Call, NEW n \in Nodes, NEW a
    PROVE  <<n, a>> \in Leavers(call) <=>
             \/ n \in Expired(call) /\ Record(n).addr = a
             \/ Applies(call) /\ n = call.node /\ a = Record(n).addr /\ a # call.ip
<1>1. \A x \in Expired(call) : Noted(call)[x].addr = Record(x).addr
  BY NotedIs DEF Expired
<1> QED
  BY <1>1 DEF Leavers

\* The map of addresses before the named identity is placed: everybody who does
\* not leave.
Kept(call) == [a \in DOMAIN upfAddrs \ Released(call) |-> Left(call, a)]

\* The records that survive the sweep.
Fresh(call) == Without(Noted(call), Expired(call))

\* Nobody is lost from an address but its leavers, and no address stays empty.
LEMMA KeptIs ==
    ASSUME TypeOK, NEW call \in Call
    PROVE  /\ DOMAIN Kept(call) = DOMAIN upfAddrs \ Released(call)
           /\ \A a \in DOMAIN Kept(call) : Kept(call)[a] \subseteq Nodes /\ Kept(call)[a] # {}
           /\ \A a \in Addrs, n \in Nodes :
                (a \in DOMAIN Kept(call) /\ n \in Kept(call)[a]) <=>
                  Listed(n, a) /\ <<n, a>> \notin Leavers(call)
<1>1. DOMAIN Kept(call) = DOMAIN upfAddrs \ Released(call)
  BY DEF Kept
<1>2. \A a \in DOMAIN Kept(call) : Kept(call)[a] = Left(call, a)
  BY DEF Kept
<1>3. \A a \in DOMAIN upfAddrs : a \in Released(call) <=> Left(call, a) = {}
  BY DEF Released
<1>4. \A a \in DOMAIN upfAddrs : Left(call, a) \subseteq Nodes
  BY DEF Left, TypeOK
<1>5. \A a, n : n \in Left(call, a) /\ n \in Nodes <=>
                  n \in upfAddrs[a] /\ n \in Nodes /\ <<n, a>> \notin Leavers(call)
  BY DEF Left
<1> QED
  BY <1>1, <1>2, <1>3, <1>4, <1>5 DEF Listed

\* The sweep takes the expired identities and moves nobody else.
LEMMA FreshIs ==
    ASSUME TypeOK, NEW call \in Call
    PROVE  /\ DOMAIN Fresh(call) \subseteq Nodes
           /\ \A n \in DOMAIN Fresh(call) : Fresh(call)[n] \in NodeRecord
           /\ \A a \in Addrs, n \in Nodes :
                (n \in DOMAIN Fresh(call) /\ Fresh(call)[n].addr = a) <=>
                  Stands(n, a) /\ n \notin Expired(call)
<1>1. DOMAIN Fresh(call) = DOMAIN Noted(call) \ Expired(call)
  BY DEF Fresh, Without
<1>2. \A n \in DOMAIN Fresh(call) : Fresh(call)[n] = Noted(call)[n]
  BY DEF Fresh, Without
<1>3. \A n \in DOMAIN upfNodeAddrs : Record(n) = upfNodeAddrs[n]
  BY DEF Record, At
<1>4. \A n \in Nodes \ DOMAIN upfNodeAddrs : Record(n).addr = NoAddr
  BY DEF Record, At, NoRecord
<1> QED
  BY <1>1, <1>2, <1>3, <1>4, NotedIs, NodeAssumption DEF Stands

\* Applying a message keeps the two maps typed and each other's reverse.
LEMMA CommitKeepsInv ==
    ASSUME GateInv, NEW c \in Callers, Commit(c)
    PROVE  GateInv'
<1> DEFINE call == callers[c]
<1>0. TypeOK /\ Pointwise
  BY DEF GateInv
<1>1. call \in Call
  BY <1>0 DEF TypeOK
<1>2. call.node \in Nodes /\ call.stamp \in Nat /\ (Applies(call) => call.ip \in Addrs)
  BY <1>1 DEF Call, Applies
<1>3. /\ upfAddrs' = IF Applies(call)
                     THEN Store(Kept(call), call.ip, At(Kept(call), call.ip, {}) \cup {call.node})
                     ELSE Kept(call)
      /\ upfNodeAddrs' = IF Applies(call)
                         THEN Store(Fresh(call), call.node,
                                    [addr |-> call.ip, seen |-> call.stamp])
                         ELSE Fresh(call)
  BY DEF Commit, Kept, Fresh
<1>4. /\ callers' = [callers EXCEPT ![c] = Idle]
      /\ releases' = HookCalled(call)
      /\ UNCHANGED <<dns, now>>
  BY DEF Commit
<1>5. callers' \in [Callers -> Call] /\ dns' \in [Nodes -> Addrs \cup {NoAddr}] /\ now' \in Nat
  BY <1>0, <1>4, IdleIsCall DEF TypeOK
<1>6. releases' \in [Addrs -> Nat]
  BY <1>0, <1>4 DEF TypeOK, HookCalled
<1>7. /\ DOMAIN Kept(call) \subseteq Addrs
      /\ \A a \in DOMAIN Kept(call) : Kept(call)[a] \subseteq Nodes /\ Kept(call)[a] # {}
  BY <1>0, <1>1, KeptIs DEF TypeOK
<1>8. /\ DOMAIN Fresh(call) \subseteq Nodes
      /\ \A n \in DOMAIN Fresh(call) : Fresh(call)[n] \in NodeRecord
  BY <1>0, <1>1, FreshIs
<1>9. call.node \notin Expired(call)
  BY <1>0, <1>1, NamedNotExpired
<1>10. \A a \in Addrs, n \in Nodes : Stands(n, a) => Record(n).addr = a
  BY DEF Stands, Record, At
<1>11. \A a \in Addrs, n \in Nodes :
         (a \in DOMAIN Kept(call) /\ n \in Kept(call)[a]) <=>
           /\ Stands(n, a)
           /\ n \notin Expired(call)
           /\ ~(Applies(call) /\ n = call.node /\ a # call.ip)
  <2> SUFFICES ASSUME NEW a \in Addrs, NEW n \in Nodes
               PROVE  (a \in DOMAIN Kept(call) /\ n \in Kept(call)[a]) <=>
                        /\ Stands(n, a)
                        /\ n \notin Expired(call)
                        /\ ~(Applies(call) /\ n = call.node /\ a # call.ip)
    OBVIOUS
  <2> HIDE DEF call
  <2>1. (a \in DOMAIN Kept(call) /\ n \in Kept(call)[a]) <=>
          Stands(n, a) /\ <<n, a>> \notin Leavers(call)
    BY <1>0, <1>1, KeptIs DEF Pointwise
  <2>2. <<n, a>> \in Leavers(call) <=>
          \/ n \in Expired(call) /\ Record(n).addr = a
          \/ Applies(call) /\ n = call.node /\ a = Record(n).addr /\ a # call.ip
    BY <1>0, <1>1, LeaversAre
  <2> QED
    BY <1>10, <2>1, <2>2
<1>12. \A a \in Addrs, n \in Nodes :
         (n \in DOMAIN Fresh(call) /\ Fresh(call)[n].addr = a) <=>
           Stands(n, a) /\ n \notin Expired(call)
  BY <1>0, <1>1, FreshIs
<1> HIDE DEF call
<1>13. CASE ~Applies(call)
  <2>1. upfAddrs' = Kept(call) /\ upfNodeAddrs' = Fresh(call)
    BY <1>3, <1>13
  <2>2. TypeOK'
    BY <1>5, <1>6, <1>7, <1>8, <2>1 DEF TypeOK
  <2>3. Pointwise'
    BY <1>7, <1>11, <1>12, <1>13, <2>1 DEF Pointwise, Listed, Stands
  <2> QED
    BY <2>2, <2>3 DEF GateInv
<1>14. CASE Applies(call)
  <2> DEFINE there == At(Kept(call), call.ip, {}) \cup {call.node}
             rec == [addr |-> call.ip, seen |-> call.stamp]
  <2>1. upfAddrs' = Store(Kept(call), call.ip, there)
    BY <1>3, <1>14
  <2>2. upfNodeAddrs' = Store(Fresh(call), call.node, rec)
    BY <1>3, <1>14
  <2>3. rec \in NodeRecord /\ rec.addr = call.ip
    BY <1>2, <1>14 DEF NodeRecord
  <2>4. there \subseteq Nodes /\ there # {}
    BY <1>2, <1>7 DEF At
  <2>5. \A n : n \in there <=>
           n = call.node \/ (call.ip \in DOMAIN Kept(call) /\ n \in Kept(call)[call.ip])
    BY DEF At
  <2> HIDE DEF there, rec
  <2>6. /\ DOMAIN upfAddrs' = DOMAIN Kept(call) \cup {call.ip}
        /\ upfAddrs'[call.ip] = there
        /\ \A a \in DOMAIN upfAddrs' : a # call.ip =>
             a \in DOMAIN Kept(call) /\ upfAddrs'[a] = Kept(call)[a]
    BY <2>1 DEF Store
  <2>7. /\ DOMAIN upfNodeAddrs' = DOMAIN Fresh(call) \cup {call.node}
        /\ upfNodeAddrs'[call.node] = rec
        /\ \A n \in DOMAIN upfNodeAddrs' : n # call.node =>
             n \in DOMAIN Fresh(call) /\ upfNodeAddrs'[n] = Fresh(call)[n]
    BY <2>2 DEF Store
  <2>8. TypeOK'
    <3>1. \A a \in DOMAIN upfAddrs' : upfAddrs'[a] \subseteq Nodes
      BY <1>7, <2>4, <2>6
    <3>2. \A n \in DOMAIN upfNodeAddrs' : upfNodeAddrs'[n] \in NodeRecord
      BY <1>8, <2>3, <2>7
    <3>3. DOMAIN upfAddrs' \subseteq Addrs /\ DOMAIN upfNodeAddrs' \subseteq Nodes
      BY <1>2, <1>7, <1>8, <1>14, <2>6, <2>7
    <3> QED
      BY <1>5, <1>6, <3>1, <3>2, <3>3 DEF TypeOK
  <2>9. \A a \in DOMAIN upfAddrs' : upfAddrs'[a] # {}
    BY <1>7, <2>4, <2>6
  <2>10. ASSUME NEW a \in Addrs, NEW n \in Nodes
         PROVE  (a \in DOMAIN upfAddrs' /\ n \in upfAddrs'[a]) <=>
                  (n \in DOMAIN upfNodeAddrs' /\ upfNodeAddrs'[n].addr = a)
    <3>1. CASE n = call.node /\ a = call.ip
      BY <3>1, <2>3, <2>5, <2>6, <2>7
    <3>2. CASE n = call.node /\ a # call.ip
      BY <3>2, <1>11, <1>14, <2>3, <2>6, <2>7
    <3>3. CASE n # call.node
      BY <3>3, <1>11, <1>12, <2>5, <2>6, <2>7
    <3> QED
      BY <3>1, <3>2, <3>3
  <2> QED
    BY <2>8, <2>9, <2>10 DEF GateInv, Pointwise, Listed, Stands
<1> QED
  BY <1>13, <1>14

\* Every other step leaves the gate alone and the calls typed.
LEMMA NextKeepsInv ==
    ASSUME GateInv, [Next]_vars
    PROVE  GateInv'
<1>0. TypeOK /\ Pointwise
  BY DEF GateInv
<1>1. ASSUME UNCHANGED gateVars, callers' \in [Callers -> Call],
             dns' \in [Nodes -> Addrs \cup {NoAddr}], now' \in Nat
      PROVE  GateInv'
  BY <1>0, <1>1 DEF gateVars, GateInv, TypeOK, Pointwise, Listed, Stands
<1>2. ASSUME NEW c \in Callers, NEW node \in Nodes, Arrive(c, node)
      PROVE  GateInv'
  <2>1. [pc |-> "resolve", node |-> node, stamp |-> now, ip |-> NoAddr] \in Call
    BY <1>0 DEF Call, TypeOK
  <2> QED
    BY <1>0, <1>1, <1>2, <2>1 DEF Arrive, TypeOK
<1>3. ASSUME NEW c \in Callers, ResolveNodeIdToIp(c)
      PROVE  GateInv'
  <2>1. callers[c] \in Call
    BY <1>0 DEF TypeOK
  <2>2. [callers[c] EXCEPT !.pc = "commit", !.ip = dns[callers[c].node]] \in Call
    BY <1>0, <2>1 DEF Call, TypeOK
  <2>3. callers' = [callers EXCEPT ![c] =
          [callers[c] EXCEPT !.pc = "commit", !.ip = dns[callers[c].node]]]
    BY <1>0, <1>3, <2>1 DEF ResolveNodeIdToIp, TypeOK, Call
  <2> QED
    BY <1>0, <1>1, <1>3, <2>2, <2>3 DEF ResolveNodeIdToIp, TypeOK
<1>4. ASSUME NEW node \in Fqdns, NEW addr \in Addrs \cup {NoAddr}, Move(node, addr)
      PROVE  GateInv'
  BY <1>0, <1>1, <1>4 DEF Move, TypeOK
<1>5. CASE Tick
  BY <1>0, <1>1, <1>5 DEF Tick, TypeOK
<1>6. CASE UNCHANGED vars
  BY <1>0, <1>1, <1>6 DEF vars, TypeOK
<1> QED
  BY <1>2, <1>3, <1>4, <1>5, <1>6, CommitKeepsInv DEF Next

-----------------------------------------------------------------------------
(* The invariant, and what the gate promises.                              *)

\* The maps are empty and every handler idle when the process starts.
LEMMA InitInv == Init => GateInv
<1> SUFFICES ASSUME Init PROVE GateInv
  OBVIOUS
<1>1. DOMAIN upfAddrs = {} /\ DOMAIN upfNodeAddrs = {}
  BY DEF Init, EmptyMap
<1>2. callers \in [Callers -> Call]
  BY IdleIsCall DEF Init
<1>3. dns \in [Nodes -> Addrs \cup {NoAddr}] /\ releases \in [Addrs -> Nat] /\ now \in Nat
  BY DEF Init
<1> QED
  BY <1>1, <1>2, <1>3 DEF GateInv, TypeOK, Pointwise, Listed, Stands

\* The inductive invariant holds of every behaviour.
THEOREM GateInvariance == Spec => []GateInv
<1>1. GateInv /\ [Next]_vars => GateInv'
  BY NextKeepsInv
<1> QED
  BY InitInv, <1>1, PTL DEF Spec

\* However many handlers apply the SMF's messages, in whatever order, nothing
\* but an address is authorised (RecordUpfAddr).
THEOREM GateTypeCorrect == Spec => []TypeOK
<1>1. GateInv => TypeOK
  BY DEF GateInv
<1> QED
  BY GateInvariance, <1>1, PTL

\* upfAddrs and upfNodeAddrs are each other's reverse at every moment
\* (RecordUpfAddr, forgetUpfAddrLocked).
THEOREM MapsStayCoherent == Spec => []AddrsCoherent
BY GateInvariance, PointwiseIsCoherent, PTL

\* A message applied is one step of the gate: what nobody is left at goes, the
\* address the identity was resolved to comes.
LEMMA CommitChangesGate ==
    ASSUME GateInv, NEW c \in Callers, Commit(c)
    PROVE  Gate!Next
<1> DEFINE call == callers[c]
           gone == Released(call)
           come == IF Applies(call) THEN {call.ip} ELSE {}
<1>1. TypeOK /\ call \in Call
  BY DEF GateInv, TypeOK
<1>2. come \in SUBSET Addrs
  BY <1>1 DEF Call, Applies
<1>3. gone \subseteq DOMAIN upfAddrs /\ gone \in SUBSET Addrs
  BY <1>1 DEF Released, TypeOK
<1>4. upfAddrs' = IF Applies(call)
                  THEN Store(Kept(call), call.ip, At(Kept(call), call.ip, {}) \cup {call.node})
                  ELSE Kept(call)
  BY DEF Commit, Kept
<1>5. DOMAIN upfAddrs' = (DOMAIN upfAddrs \ gone) \cup come
  BY <1>4 DEF Store, Kept
<1>6. releases' = [a \in Addrs |-> IF a \in gone THEN releases[a] + 1 ELSE releases[a]]
  BY DEF Commit, HookCalled
<1> HIDE DEF gone, come
<1>7. Gate!Change(gone, come)
  BY <1>3, <1>5, <1>6 DEF Gate!Change
<1> QED
  BY <1>2, <1>3, <1>7 DEF Gate!Next

\* An address stops being authorised only in a step that calls the release hook
\* for it, once (SetUpfAddrReleaseHook): for every number of user planes,
\* addresses and handlers, RecordUpfAddr implements the abstract gate.
THEOREM GateKeepsItsPromise == Spec => ImplementsGate
<1>1. Init => Gate!Init
  BY DEF Init, EmptyMap, Gate!Init
<1>2. GateInv /\ [Next]_vars => [Gate!Next]_(Gate!vars)
  <2> SUFFICES ASSUME GateInv, [Next]_vars
               PROVE  Gate!Next \/ UNCHANGED Gate!vars
    OBVIOUS
  <2>1. ASSUME UNCHANGED gateVars PROVE UNCHANGED Gate!vars
    BY <2>1 DEF gateVars, Gate!vars
  <2>2. ASSUME NEW c \in Callers, Commit(c) PROVE Gate!Next
    BY <2>2, CommitChangesGate
  <2>3. CASE UNCHANGED vars
    BY <2>1, <2>3 DEF vars
  <2>4. ASSUME NEW c \in Callers, NEW node \in Nodes, Arrive(c, node)
        PROVE  UNCHANGED gateVars
    BY <2>4 DEF Arrive
  <2>5. ASSUME NEW c \in Callers, ResolveNodeIdToIp(c) PROVE UNCHANGED gateVars
    BY <2>5 DEF ResolveNodeIdToIp
  <2>6. ASSUME NEW node \in Fqdns, NEW addr \in Addrs \cup {NoAddr}, Move(node, addr)
        PROVE  UNCHANGED gateVars
    BY <2>6 DEF Move
  <2>7. CASE Tick
    BY <2>1, <2>7 DEF Tick
  <2> QED
    BY <2>1, <2>2, <2>3, <2>4, <2>5, <2>6, <2>7 DEF Next
<1> QED
  BY <1>1, <1>2, GateInvariance, PTL DEF Spec, ImplementsGate, Gate!Spec

-----------------------------------------------------------------------------
(* The gate against the history of what the SMF named.                     *)

Fresher(n) == now - lastNamed[n] <= UpfAddrLifetime

\* A record is dated by the last message that named its identity, unless that
\* was too long ago, when it may have been swept and begun anew by an older
\* message; and it holds the address that message put the identity at.
HistoryInv ==
    /\ lastNamed \in [Nodes -> Nat]
    /\ placed \in [Nodes -> Addrs \cup {NoAddr}]
    /\ \A c \in Callers : callers[c].stamp <= now
    /\ \A n \in Nodes :
         /\ lastNamed[n] <= now
         /\ Record(n).seen <= lastNamed[n]
         /\ Fresher(n) => Record(n).seen = lastNamed[n]
         /\ placed[n] # NoAddr => Fresher(n) /\ Record(n).addr = placed[n]

\* What a message does to each identity's record: it dates and places the one it
\* names, and sweeps of the others those not named for the whole lifetime.
LEMMA RecordAfterCommit ==
    ASSUME GateInv, NEW c \in Callers, Commit(c), NEW n \in Nodes
    PROVE  /\ Superseded(callers[c]) /\ n = callers[c].node => Record(n)' = Record(n)
           /\ ~Superseded(callers[c]) /\ n = callers[c].node =>
                /\ Record(n)'.seen = callers[c].stamp
                /\ Record(n)'.addr = IF callers[c].ip # NoAddr
                                     THEN callers[c].ip ELSE Record(n).addr
           /\ n # callers[c].node /\ n \notin Expired(callers[c]) => Record(n)' = Record(n)
           /\ n # callers[c].node /\ n \in Expired(callers[c]) =>
                /\ callers[c].stamp - Record(n).seen > UpfAddrLifetime
                /\ Record(n)' = NoRecord
<1> DEFINE call == callers[c]
<1>1. TypeOK /\ call \in Call
  BY DEF GateInv, TypeOK
<1>2. upfNodeAddrs' = IF Applies(call)
                      THEN Store(Fresh(call), call.node,
                                 [addr |-> call.ip, seen |-> call.stamp])
                      ELSE Fresh(call)
  BY DEF Commit, Fresh
<1>3. Record(n)' = At(upfNodeAddrs', n, NoRecord)
  BY DEF Record
<1>4. call.node \notin Expired(call)
  BY <1>1, NamedNotExpired
<1>5. n \in Expired(call) <=>
        n \in DOMAIN Noted(call) /\ call.stamp - Noted(call)[n].seen > UpfAddrLifetime
  BY DEF Expired
<1> HIDE DEF call
<1>6. Noted(call) = IF Superseded(call) THEN upfNodeAddrs
                    ELSE Store(upfNodeAddrs, call.node,
                               [Record(call.node) EXCEPT !.seen = call.stamp])
  BY DEF Noted
<1>7. DOMAIN Fresh(call) = DOMAIN Noted(call) \ Expired(call)
  BY DEF Fresh, Without
<1>8. \A x \in DOMAIN Fresh(call) : Fresh(call)[x] = Noted(call)[x]
  BY DEF Fresh, Without
<1>9. ASSUME n # call.node
      PROVE  /\ n \in DOMAIN Noted(call) <=> n \in DOMAIN upfNodeAddrs
             /\ n \in DOMAIN Noted(call) => Noted(call)[n] = Record(n)
             /\ Record(n)' = IF n \in DOMAIN Fresh(call) THEN Fresh(call)[n] ELSE NoRecord
  <2>1. /\ n \in DOMAIN Noted(call) <=> n \in DOMAIN upfNodeAddrs
        /\ n \in DOMAIN upfNodeAddrs => Noted(call)[n] = upfNodeAddrs[n]
    BY <1>6, <1>9 DEF Store
  <2>2. n \in DOMAIN upfNodeAddrs => Record(n) = upfNodeAddrs[n]
    BY DEF Record, At
  <2>3. Record(n)' = IF n \in DOMAIN Fresh(call) THEN Fresh(call)[n] ELSE NoRecord
    BY <1>2, <1>3, <1>9 DEF Store, At
  <2> QED
    BY <2>1, <2>2, <2>3
<1>10. ASSUME n # call.node, n \notin Expired(call) PROVE Record(n)' = Record(n)
  <2>1. n \notin DOMAIN upfNodeAddrs => Record(n) = NoRecord
    BY DEF Record, At
  <2> QED
    BY <1>7, <1>8, <1>9, <1>10, <2>1
<1>11. ASSUME n # call.node, n \in Expired(call)
       PROVE  call.stamp - Record(n).seen > UpfAddrLifetime /\ Record(n)' = NoRecord
  BY <1>5, <1>7, <1>9, <1>11
<1>12. ASSUME n = call.node, Superseded(call) PROVE Record(n)' = Record(n)
  <2>1. upfNodeAddrs' = Fresh(call) /\ Noted(call) = upfNodeAddrs
    BY <1>2, <1>6, <1>12 DEF Applies
  <2> QED
    BY <1>3, <1>4, <1>7, <1>8, <1>12, <2>1 DEF Record, At
<1>13. ASSUME n = call.node, ~Superseded(call)
       PROVE  /\ Record(n)'.seen = call.stamp
              /\ Record(n)'.addr = IF call.ip # NoAddr THEN call.ip ELSE Record(n).addr
  <2>1. CASE call.ip # NoAddr
    <3>1. Applies(call)
      BY <1>13, <2>1 DEF Applies
    <3>2. Record(n)' = [addr |-> call.ip, seen |-> call.stamp]
      BY <1>2, <1>3, <1>13, <3>1 DEF Store, At
    <3> QED
      BY <2>1, <3>2
  <2>2. CASE call.ip = NoAddr
    <3>1. ~Applies(call)
      BY <2>2 DEF Applies
    <3>2. n \in DOMAIN Noted(call) /\ Noted(call)[n] = [Record(n) EXCEPT !.seen = call.stamp]
      BY <1>6, <1>13 DEF Store
    <3>3. Record(n)' = [Record(n) EXCEPT !.seen = call.stamp]
      BY <1>2, <1>3, <1>4, <1>7, <1>8, <1>13, <3>1, <3>2 DEF At
    <3>4. Record(n) \in NodeRecord
      BY <1>1, RecordIsTyped
    <3> QED
      BY <2>2, <3>3, <3>4 DEF NodeRecord
  <2> QED
    BY <2>1, <2>2
<1> QED
  BY <1>10, <1>11, <1>12, <1>13 DEF call

\* What a message does to the history.
LEMMA HistoryAfterCommit ==
    ASSUME HistoryInv, NEW c \in Callers, callers[c] \in Call, Commit(c), NEW n \in Nodes
    PROVE  /\ n # callers[c].node => lastNamed'[n] = lastNamed[n] /\ placed'[n] = placed[n]
           /\ n = callers[c].node =>
                /\ lastNamed'[n] = IF callers[c].stamp > lastNamed[n]
                                   THEN callers[c].stamp ELSE lastNamed[n]
                /\ placed'[n] = IF /\ callers[c].ip # NoAddr
                                   /\ callers[c].stamp >= lastNamed[n]
                                   /\ now - callers[c].stamp <= UpfAddrLifetime
                                THEN callers[c].ip ELSE placed[n]
           /\ lastNamed' \in [Nodes -> Nat]
           /\ placed' \in [Nodes -> Addrs \cup {NoAddr}]
           /\ now' = now
BY DEF HistoryInv, Commit, Call

\* Applying a message, however late, keeps the records true to the history.
LEMMA CommitKeepsHistory ==
    ASSUME GateInv, HistoryInv, NEW c \in Callers, Commit(c)
    PROVE  HistoryInv'
<1> DEFINE call == callers[c]
<1>1. TypeOK /\ call \in Call /\ now \in Nat
  BY DEF GateInv, TypeOK
<1>2. call.stamp \in Nat /\ call.stamp <= now /\ call.node \in Nodes
  BY <1>1 DEF Call, HistoryInv
<1>3. now' = now /\ lastNamed' \in [Nodes -> Nat] /\ placed' \in [Nodes -> Addrs \cup {NoAddr}]
  BY <1>1, <1>2, HistoryAfterCommit
<1>4. \A d \in Callers : callers'[d].stamp <= now'
  <2>1. callers' = [callers EXCEPT ![c] = Idle]
    BY DEF Commit
  <2>2. Idle.stamp = 0
    BY DEF Idle
  <2>3. \A d \in Callers : callers'[d] = IF d = c THEN Idle ELSE callers[d]
    BY <1>1, <2>1 DEF TypeOK
  <2> QED
    BY <1>1, <1>3, <2>2, <2>3 DEF HistoryInv
<1>5. ASSUME NEW n \in Nodes
      PROVE  /\ lastNamed'[n] <= now'
             /\ Record(n)'.seen <= lastNamed'[n]
             /\ now' - lastNamed'[n] <= UpfAddrLifetime => Record(n)'.seen = lastNamed'[n]
             /\ placed'[n] # NoAddr =>
                  now' - lastNamed'[n] <= UpfAddrLifetime /\ Record(n)'.addr = placed'[n]
  <2>1. /\ lastNamed[n] \in Nat
        /\ lastNamed[n] <= now
        /\ Record(n).seen <= lastNamed[n]
        /\ now - lastNamed[n] <= UpfAddrLifetime => Record(n).seen = lastNamed[n]
        /\ placed[n] # NoAddr =>
             now - lastNamed[n] <= UpfAddrLifetime /\ Record(n).addr = placed[n]
    BY DEF HistoryInv, Fresher
  <2>2. Record(n).seen \in Nat
    BY <1>1, RecordIsTyped DEF NodeRecord
  <2> DEFINE seen == Record(n).seen
             addr == Record(n).addr
             seen1 == Record(n)'.seen
             addr1 == Record(n)'.addr
             last == lastNamed[n]
             last1 == lastNamed'[n]
  <2>3. CASE n = call.node /\ Superseded(call)
    <3>1. Record(n)' = Record(n)
      BY <1>1, <2>3, RecordAfterCommit
    <3>2. Record(n).seen > call.stamp
      BY <2>3 DEF Superseded
    <3>3. ~(call.stamp > lastNamed[n]) /\ ~(call.stamp >= lastNamed[n])
      BY <1>2, <2>1, <2>2, <3>2
    <3>4. lastNamed'[n] = lastNamed[n] /\ placed'[n] = placed[n]
      BY <1>1, <2>3, <3>3, HistoryAfterCommit
    <3> QED
      BY <1>3, <2>1, <3>1, <3>4
  <2>4. CASE n = call.node /\ ~Superseded(call)
    <3>1. /\ seen1 = call.stamp
          /\ addr1 = IF call.ip # NoAddr THEN call.ip ELSE addr
      BY <1>1, <2>4, RecordAfterCommit
    <3>2. seen <= call.stamp
      BY <1>2, <2>2, <2>4 DEF Superseded
    <3>3. /\ last1 = IF call.stamp > last THEN call.stamp ELSE last
          /\ placed'[n] = IF /\ call.ip # NoAddr
                             /\ call.stamp >= last
                             /\ now - call.stamp <= UpfAddrLifetime
                          THEN call.ip ELSE placed[n]
      BY <1>1, <2>4, HistoryAfterCommit
    <3> HIDE DEF seen, addr, seen1, addr1, last, last1
    <3>4. last \in Nat /\ seen \in Nat /\ last <= now
      BY <2>1, <2>2 DEF seen, last
    <3>5. last1 \in Nat /\ last1 <= now /\ seen1 <= last1
      BY <1>2, <3>1, <3>3, <3>4
    <3>6. now - last <= UpfAddrLifetime => seen = last
      BY <2>1 DEF seen, last
    <3>7. now - last1 <= UpfAddrLifetime => seen1 = last1
      <4>1. CASE call.stamp > last
        BY <3>1, <3>3, <4>1
      <4>2. CASE ~(call.stamp > last)
        BY <1>2, <3>1, <3>2, <3>3, <3>4, <3>6, <4>2
      <4> QED
        BY <4>1, <4>2
    <3>8. placed'[n] # NoAddr => now - last1 <= UpfAddrLifetime /\ addr1 = placed'[n]
      <4>1. CASE call.ip # NoAddr /\ call.stamp >= last /\ now - call.stamp <= UpfAddrLifetime
        <5>1. last1 = call.stamp
          BY <1>2, <3>3, <3>4, <4>1
        <5> QED
          BY <3>1, <3>3, <4>1, <5>1
      <4>2. CASE ~(call.ip # NoAddr /\ call.stamp >= last
                   /\ now - call.stamp <= UpfAddrLifetime)
        <5> SUFFICES ASSUME placed[n] # NoAddr
                     PROVE  now - last1 <= UpfAddrLifetime /\ addr1 = placed[n]
          BY <3>3, <4>2
        <5>1. now - last <= UpfAddrLifetime /\ addr = placed[n]
          BY <2>1 DEF last, addr
        <5>2. call.stamp >= last
          BY <3>2, <3>6, <5>1
        <5>3. last1 = call.stamp /\ now - last1 <= UpfAddrLifetime
          BY <1>1, <1>2, <3>3, <3>4, <5>1, <5>2, LifetimeAssumption
        <5>4. call.ip = NoAddr
          BY <4>2, <5>2, <5>3
        <5> QED
          BY <3>1, <5>1, <5>3, <5>4
      <4> QED
        BY <4>1, <4>2
    <3> QED
      BY <1>3, <3>5, <3>7, <3>8 DEF seen1, addr1, last1
  <2>5. CASE n # call.node
    <3>1. lastNamed'[n] = lastNamed[n] /\ placed'[n] = placed[n]
      BY <1>1, <2>5, HistoryAfterCommit
    <3>2. CASE n \notin Expired(call)
      <4>1. Record(n)' = Record(n)
        BY <1>1, <2>5, <3>2, RecordAfterCommit
      <4> QED
        BY <1>3, <2>1, <3>1, <4>1
    <3>3. CASE n \in Expired(call)
      <4>1. call.stamp - Record(n).seen > UpfAddrLifetime /\ Record(n)' = NoRecord
        BY <1>1, <2>5, <3>3, RecordAfterCommit
      <4>2. Record(n)'.seen = 0
        BY <4>1 DEF NoRecord
      <4>3. ~(now - lastNamed[n] <= UpfAddrLifetime)
        <5>1. CASE Record(n).seen = lastNamed[n]
          BY <1>1, <1>2, <2>1, <2>2, <4>1, <5>1, LifetimeAssumption
        <5>2. CASE Record(n).seen # lastNamed[n]
          BY <2>1, <5>2
        <5> QED
          BY <5>1, <5>2
      <4> QED
        BY <1>3, <2>1, <3>1, <4>2, <4>3
    <3> QED
      BY <3>2, <3>3
  <2> QED
    BY <2>3, <2>4, <2>5
<1> QED
  BY <1>3, <1>4, <1>5 DEF HistoryInv, Fresher

\* Every other step: handlers take their stamps from the clock, and the clock
\* forgets where an identity was once it has been silent for the lifetime.
LEMMA NextKeepsHistory ==
    ASSUME GateInv, HistoryInv, [Next]_vars
    PROVE  HistoryInv'
<1>0. TypeOK
  BY DEF GateInv
<1>1. ASSUME UNCHANGED <<upfNodeAddrs, now, lastNamed, placed>>,
             \A c \in Callers : callers'[c].stamp <= now
      PROVE  HistoryInv'
  BY <1>1 DEF HistoryInv, Fresher, Record
<1>2. ASSUME NEW c \in Callers, NEW node \in Nodes, Arrive(c, node)
      PROVE  HistoryInv'
  <2>1. \A d \in Callers : callers'[d] = IF d = c
          THEN [pc |-> "resolve", node |-> node, stamp |-> now, ip |-> NoAddr]
          ELSE callers[d]
    BY <1>0, <1>2 DEF Arrive, TypeOK
  <2>2. \A d \in Callers : callers'[d].stamp <= now
    BY <1>0, <2>1 DEF HistoryInv, TypeOK
  <2> QED
    BY <1>1, <1>2, <2>2 DEF Arrive, gateVars, historyVars
<1>3. ASSUME NEW c \in Callers, ResolveNodeIdToIp(c)
      PROVE  HistoryInv'
  <2>1. \A d \in Callers : callers[d] \in Call
    BY <1>0 DEF TypeOK
  <2>2. \A d \in Callers : callers'[d].stamp = callers[d].stamp
    BY <1>0, <1>3, <2>1 DEF ResolveNodeIdToIp, TypeOK, Call
  <2> QED
    BY <1>1, <1>3, <2>2 DEF ResolveNodeIdToIp, gateVars, historyVars, HistoryInv
<1>4. ASSUME NEW node \in Fqdns, NEW addr \in Addrs \cup {NoAddr}, Move(node, addr)
      PROVE  HistoryInv'
  BY <1>1, <1>4 DEF Move, gateVars, historyVars, HistoryInv
<1>5. CASE Tick
  <2>1. /\ now \in Nat /\ now' = now + 1
        /\ UNCHANGED <<upfNodeAddrs, callers, lastNamed>>
        /\ placed' = [n \in Nodes |->
             IF now' - lastNamed[n] > UpfAddrLifetime THEN NoAddr ELSE placed[n]]
    BY <1>0, <1>5 DEF Tick, TypeOK, gateVars
  <2>2. \A n \in Nodes : Record(n)' = Record(n) /\ Record(n).seen \in Nat
    BY <1>0, <2>1, RecordIsTyped DEF Record, NodeRecord
  <2>3. \A c \in Callers : callers[c].stamp \in Nat /\ callers[c].stamp <= now
    BY <1>0 DEF TypeOK, Call, HistoryInv
  <2>4. placed' \in [Nodes -> Addrs \cup {NoAddr}]
    BY <2>1 DEF HistoryInv
  <2>5. ASSUME NEW n \in Nodes
        PROVE  /\ lastNamed[n] <= now'
               /\ Record(n).seen <= lastNamed[n]
               /\ now' - lastNamed[n] <= UpfAddrLifetime => Record(n).seen = lastNamed[n]
               /\ placed'[n] # NoAddr =>
                    now' - lastNamed[n] <= UpfAddrLifetime /\ Record(n).addr = placed'[n]
    <3>1. /\ lastNamed[n] \in Nat /\ lastNamed[n] <= now
          /\ Record(n).seen <= lastNamed[n]
          /\ now - lastNamed[n] <= UpfAddrLifetime => Record(n).seen = lastNamed[n]
          /\ placed[n] # NoAddr => Record(n).addr = placed[n]
      BY DEF HistoryInv, Fresher
    <3>2. placed'[n] # NoAddr =>
            placed'[n] = placed[n] /\ ~(now' - lastNamed[n] > UpfAddrLifetime)
      BY <2>1
    <3>3. now' - lastNamed[n] <= UpfAddrLifetime => now - lastNamed[n] <= UpfAddrLifetime
      BY <2>1, <3>1, LifetimeAssumption
    <3>4. ~(now' - lastNamed[n] > UpfAddrLifetime) => now' - lastNamed[n] <= UpfAddrLifetime
      BY <2>1, <3>1, LifetimeAssumption
    <3>5. lastNamed[n] <= now'
      BY <2>1, <3>1
    <3> QED
      BY <3>1, <3>2, <3>3, <3>4, <3>5
  <2>6. \A c \in Callers : callers'[c].stamp <= now'
    BY <2>1, <2>3
  <2> QED
    BY <2>1, <2>2, <2>4, <2>5, <2>6 DEF HistoryInv, Fresher
<1>6. CASE UNCHANGED vars
  BY <1>1, <1>6 DEF vars, gateVars, historyVars, HistoryInv
<1> QED
  BY <1>2, <1>3, <1>4, <1>5, <1>6, CommitKeepsHistory DEF Next

\* The records are true to the history in every behaviour.
THEOREM HistoryInvariance == Spec => [](GateInv /\ HistoryInv)
<1>1. Init => HistoryInv
  <2> SUFFICES ASSUME Init PROVE HistoryInv
    OBVIOUS
  <2>1. \A n \in Nodes : Record(n) = NoRecord
    BY DEF Init, EmptyMap, Record, At
  <2>2. NoRecord.seen = 0 /\ Idle.stamp = 0
    BY DEF NoRecord, Idle
  <2> QED
    BY <2>1, <2>2 DEF Init, HistoryInv, Fresher
<1>2. GateInv /\ HistoryInv /\ [Next]_vars => HistoryInv'
  BY NextKeepsHistory
<1> QED
  BY <1>1, <1>2, GateInvariance, PTL DEF Spec

\* A user plane the SMF goes on naming is known at the address its last message
\* put it (IsKnownUpfAddr), for every number of identities and handlers, and
\* whatever order their messages are applied in.
THEOREM NamedUserPlanesAreKnown == Spec => []NamedIsKnown
<1>1. GateInv /\ HistoryInv => NamedIsKnown
  <2> SUFFICES ASSUME GateInv, HistoryInv, NEW n \in Nodes, placed[n] # NoAddr,
                      now - lastNamed[n] <= UpfAddrLifetime
               PROVE  IsKnownUpfAddr(placed[n])
    BY DEF NamedIsKnown
  <2>1. Record(n).addr = placed[n] /\ Record(n).seen = lastNamed[n] /\ placed[n] \in Addrs
    BY DEF HistoryInv, Fresher
  <2>2. n \in DOMAIN upfNodeAddrs /\ Record(n) = upfNodeAddrs[n]
    BY <2>1 DEF Record, At, NoRecord
  <2>3. Listed(n, placed[n])
    BY <2>1, <2>2 DEF GateInv, Pointwise, Stands
  <2>4. n \in At(upfAddrs, placed[n], {})
    BY <2>3 DEF Listed, At
  <2> QED
    BY <2>1, <2>2, <2>4 DEF IsKnownUpfAddr
<1> QED
  BY <1>1, HistoryInvariance, PTL

\* An identity that leaves an address with the message applied has been named at
\* another one by it, or was silent for the whole lifetime.
LEMMA LeaverIsJustified ==
    ASSUME GateInv, HistoryInv, NEW c \in Callers, Commit(c), NEW a \in Addrs, NEW n \in Nodes,
           <<n, a>> \in Leavers(callers[c])
    PROVE  \/ n \in DOMAIN upfNodeAddrs' /\ upfNodeAddrs'[n].addr # a
           \/ now - lastNamed'[n] > UpfAddrLifetime
<1> DEFINE call == callers[c]
<1>1. TypeOK /\ call \in Call /\ now \in Nat
  BY DEF GateInv, TypeOK
<1>2. \/ n \in Expired(call) /\ Record(n).addr = a
      \/ Applies(call) /\ n = call.node /\ a = Record(n).addr /\ a # call.ip
  BY <1>1, LeaversAre
<1>3. CASE n \in Expired(call)
  <2>1. n # call.node
    BY <1>1, <1>3, NamedNotExpired
  <2>2. call.stamp - Record(n).seen > UpfAddrLifetime
    BY <1>1, <1>3, <2>1, RecordAfterCommit
  <2>3. lastNamed'[n] = lastNamed[n]
    BY <1>1, <2>1, HistoryAfterCommit
  <2>4. /\ lastNamed[n] \in Nat /\ call.stamp \in Nat /\ call.stamp <= now
        /\ now - lastNamed[n] <= UpfAddrLifetime => Record(n).seen = lastNamed[n]
    BY <1>1 DEF HistoryInv, Fresher, Call
  <2>5. now - lastNamed[n] > UpfAddrLifetime
    <3>1. CASE Record(n).seen = lastNamed[n]
      BY <1>1, <2>2, <2>4, <3>1, LifetimeAssumption
    <3>2. CASE Record(n).seen # lastNamed[n]
      BY <1>1, <2>4, <3>2, LifetimeAssumption
    <3> QED
      BY <3>1, <3>2
  <2> QED
    BY <2>3, <2>5
<1>4. CASE Applies(call) /\ n = call.node /\ a # call.ip
  <2>1. upfNodeAddrs' = Store(Fresh(call), call.node, [addr |-> call.ip, seen |-> call.stamp])
    BY <1>4 DEF Commit, Fresh
  <2>2. n \in DOMAIN upfNodeAddrs' /\ upfNodeAddrs'[n].addr = call.ip
    BY <1>4, <2>1 DEF Store
  <2> QED
    BY <1>4, <2>2
<1> QED
  BY <1>2, <1>3, <1>4

\* forgetUpfAddrLocked calls the hook for an address only when every identity at
\* it has moved elsewhere or fallen silent for upfAddrLifetime.
THEOREM ReleasesAreJustified == Spec => ReleaseJustified
<1> DEFINE Justified ==
      \A a \in Addrs : releases'[a] > releases[a] =>
        \A n \in At(upfAddrs, a, {}) :
          \/ n \in DOMAIN upfNodeAddrs' /\ upfNodeAddrs'[n].addr # a
          \/ now - lastNamed'[n] > UpfAddrLifetime
<1>1. GateInv /\ HistoryInv /\ [Next]_vars => [Justified]_vars
  <2> SUFFICES ASSUME GateInv, HistoryInv, Next,
                      NEW a \in Addrs, releases'[a] > releases[a],
                      NEW n \in At(upfAddrs, a, {})
               PROVE  \/ n \in DOMAIN upfNodeAddrs' /\ upfNodeAddrs'[n].addr # a
                      \/ now - lastNamed'[n] > UpfAddrLifetime
    OBVIOUS
  <2>1. releases[a] \in Nat
    BY DEF GateInv, TypeOK
  <2>2. releases' # releases
    BY <2>1
  <2>3. PICK c \in Callers : Commit(c)
    BY <2>2 DEF Next, Arrive, ResolveNodeIdToIp, Move, Tick, gateVars
  <2>4. a \in Released(callers[c])
    BY <2>1, <2>3 DEF Commit, HookCalled
  <2>5. a \in DOMAIN upfAddrs /\ n \in upfAddrs[a] /\ Left(callers[c], a) = {}
    BY <2>4 DEF Released, At
  <2>6. n \in Nodes
    BY <2>5 DEF GateInv, TypeOK
  <2>7. <<n, a>> \in Leavers(callers[c])
    BY <2>5, <2>6 DEF Left
  <2> QED
    BY <2>3, <2>6, <2>7, LeaverIsJustified
<1>2. [](GateInv /\ HistoryInv) /\ [][Next]_vars => [][Justified]_vars
  BY <1>1, PTL
<1> QED
  BY <1>2, HistoryInvariance, PTL DEF Spec, ReleaseJustified

=============================================================================
