------------------------- MODULE ReportRelaysProofs -------------------------
(***************************************************************************)
(* What holds of the relay table for every set of hosts, ports and numbers *)
(* and every lifetime.                                                     *)
(***************************************************************************)
EXTENDS ReportRelays, TLAPS

\* The inductive invariant.  OneLiveClaim needs IndexCoherent, because a claim
\* looks for its report through the index only, and RecordedInThePast, because
\* a claim is stamped by a clock read that may be older than the step.
RelayInv == TypeOK /\ IndexCoherent /\ RecordedInThePast /\ OneLiveClaim

-----------------------------------------------------------------------------
(* What the operations that write both tables do to each.                  *)

\* A drop leaves the table's other entries as they were and keeps the index
\* coherent with it.
LEMMA DropKeepsIndex ==
    ASSUME NEW S, S \subseteq DOMAIN reportRelays,
           TypeOK, IndexCoherent, dropRelaysLocked(S)
    PROVE  /\ DOMAIN reportRelays' = DOMAIN reportRelays \ S
           /\ \A s \in DOMAIN reportRelays' : reportRelays'[s] = reportRelays[s]
           /\ DOMAIN relaysByHost' \subseteq Hosts
           /\ \A h \in DOMAIN relaysByHost' : relaysByHost'[h] \subseteq RelaySeqs
           /\ IndexCoherent'
<1>1. /\ DOMAIN reportRelays' = DOMAIN reportRelays \ S
      /\ \A s \in DOMAIN reportRelays' : reportRelays'[s] = reportRelays[s]
  BY DEF dropRelaysLocked, Without
<1> DEFINE left(h) == relaysByHost[h] \ {s \in S : reportRelays[s].upfAddr.host = h}
<1>2. /\ DOMAIN relaysByHost' = {h \in DOMAIN relaysByHost : left(h) # {}}
      /\ \A h \in DOMAIN relaysByHost' : relaysByHost'[h] = left(h)
  BY DEF dropRelaysLocked, IndexWithout
<1>3. \A h \in DOMAIN relaysByHost :
        left(h) = {s \in DOMAIN reportRelays' : reportRelays'[s].upfAddr.host = h}
  BY <1>1 DEF IndexCoherent
<1>4. DOMAIN relaysByHost' = {reportRelays'[s].upfAddr.host : s \in DOMAIN reportRelays'}
  BY <1>1, <1>2, <1>3 DEF IndexCoherent
<1>5. QED
  BY <1>1, <1>2, <1>3, <1>4 DEF IndexCoherent, TypeOK

\* Recording an entry under a number that is not kept for another does the same.
LEMMA RecordKeepsIndex ==
    ASSUME NEW S, S \subseteq DOMAIN reportRelays,
           NEW s \in RelaySeqs \ (DOMAIN reportRelays \ S),
           NEW relay \in Relay,
           TypeOK, IndexCoherent, recordRelayLocked(S, s, relay)
    PROVE  /\ DOMAIN reportRelays' = (DOMAIN reportRelays \ S) \cup {s}
           /\ reportRelays'[s] = relay
           /\ \A r \in DOMAIN reportRelays \ S : reportRelays'[r] = reportRelays[r]
           /\ DOMAIN relaysByHost' \subseteq Hosts
           /\ \A h \in DOMAIN relaysByHost' : relaysByHost'[h] \subseteq RelaySeqs
           /\ IndexCoherent'
<1> DEFINE host == relay.upfAddr.host
           left(h) == relaysByHost[h] \ {r \in S : reportRelays[r].upfAddr.host = h}
           idx == IndexWithout(S)
<1>0. host \in Hosts
  BY DEF Relay, Peer
<1>1. /\ DOMAIN reportRelays' = (DOMAIN reportRelays \ S) \cup {s}
      /\ reportRelays'[s] = relay
      /\ \A r \in DOMAIN reportRelays \ S : reportRelays'[r] = reportRelays[r]
  BY DEF recordRelayLocked, Without, Store
<1>2. /\ DOMAIN idx = {h \in DOMAIN relaysByHost : left(h) # {}}
      /\ \A h \in DOMAIN idx : idx[h] = left(h)
  BY DEF IndexWithout
<1>3. /\ DOMAIN relaysByHost' = DOMAIN idx \cup {host}
      /\ relaysByHost'[host] = At(idx, host, {}) \cup {s}
      /\ \A h \in DOMAIN idx \ {host} : relaysByHost'[h] = idx[h]
  BY DEF recordRelayLocked, Store
<1> HIDE DEF idx, host
<1>4. \A h \in DOMAIN relaysByHost :
        left(h) = {r \in DOMAIN reportRelays \ S : reportRelays[r].upfAddr.host = h}
  BY DEF IndexCoherent
<1>5. At(idx, host, {}) = {r \in DOMAIN reportRelays \ S : reportRelays[r].upfAddr.host = host}
  BY <1>2, <1>4 DEF At, IndexCoherent
<1>6. DOMAIN relaysByHost' = {reportRelays'[r].upfAddr.host : r \in DOMAIN reportRelays'}
  <2>1. DOMAIN idx = {reportRelays[r].upfAddr.host : r \in DOMAIN reportRelays \ S}
    BY <1>2, <1>4 DEF IndexCoherent
  <2>2. QED
    BY <2>1, <1>1, <1>3 DEF host
<1>7. \A h \in DOMAIN relaysByHost' :
        relaysByHost'[h] = {r \in DOMAIN reportRelays' : reportRelays'[r].upfAddr.host = h}
  <2>1. relaysByHost'[host] = {r \in DOMAIN reportRelays' : reportRelays'[r].upfAddr.host = host}
    BY <1>1, <1>3, <1>5 DEF host
  <2>2. \A h \in DOMAIN idx \ {host} :
          relaysByHost'[h] = {r \in DOMAIN reportRelays' : reportRelays'[r].upfAddr.host = h}
    BY <1>1, <1>2, <1>3, <1>4 DEF host
  <2>3. QED
    BY <2>1, <2>2, <1>3
<1>8. IndexCoherent'
  BY <1>6, <1>7 DEF IndexCoherent
<1>9. DOMAIN relaysByHost' \subseteq Hosts
  BY <1>0, <1>2, <1>3 DEF TypeOK, host
<1>10. \A h \in DOMAIN relaysByHost' : relaysByHost'[h] \subseteq RelaySeqs
  BY <1>1, <1>7 DEF TypeOK
<1>11. QED
  BY <1>1, <1>8, <1>9, <1>10

-----------------------------------------------------------------------------
(* Facts about the helpers a claim uses.                                   *)

\* A number handed out is one of the adapter's own and nothing waits on it.
LEMMA FreeNumberIsFree ==
    ASSUME NEW outstanding, NEW from, NEW c \in NextFreeRelaySequence(outstanding, from)
    PROVE  c \in RelaySeqs \ outstanding
BY DEF NextFreeRelaySequence

\* What a sweep takes has outlived the lifetime, by the caller's clock read.
LEMMA SweptIsOutlived ==
    ASSUME NEW t
    PROVE  /\ SweptRelays(t) \subseteq DOMAIN reportRelays
           /\ \A s \in SweptRelays(t) : Outlived(reportRelays[s], t)
BY DEF SweptRelays

\* Age only grows: what had outlived the lifetime earlier still has.
LEMMA OutlivedIsStable ==
    ASSUME NEW relay \in Relay, NEW t \in Nat, NEW u \in Nat, t <= u, Outlived(relay, t)
    PROVE  Outlived(relay, u)
BY TimeAssumption DEF Outlived, Relay

\* Release counts stay well-typed under a sweep and under one more release.
LEMMA GenerationsTyped ==
    ASSUME TypeOK
    PROVE  /\ \A t : sweepRelaysLocked(t) =>
                /\ DOMAIN relayGenerations' \subseteq Hosts
                /\ \A h \in DOMAIN relayGenerations' : relayGenerations'[h] \in Generation
           /\ \A host : RelayGeneration(host) \in Nat
<1>1. \A host : RelayGeneration(host) \in Nat
  BY DEF RelayGeneration, At, NeverReleased, TypeOK, Generation
<1>2. ASSUME NEW t, sweepRelaysLocked(t)
      PROVE  /\ DOMAIN relayGenerations' \subseteq Hosts
             /\ \A h \in DOMAIN relayGenerations' : relayGenerations'[h] \in Generation
  BY <1>2 DEF sweepRelaysLocked, Without, TypeOK
<1>3. QED
  BY <1>1, <1>2

\* A step that only drops entries preserves what is said of each and each pair.
LEMMA DropKeepsClaims ==
    ASSUME NEW S, S \subseteq DOMAIN reportRelays,
           RelayInv, dropRelaysLocked(S), now' = now
    PROVE  /\ DOMAIN reportRelays' \subseteq RelaySeqs
           /\ \A s \in DOMAIN reportRelays' : reportRelays'[s] \in Relay
           /\ RecordedInThePast'
           /\ OneLiveClaim'
<1>1. /\ DOMAIN reportRelays' = DOMAIN reportRelays \ S
      /\ \A s \in DOMAIN reportRelays' : reportRelays'[s] = reportRelays[s]
  BY DropKeepsIndex DEF RelayInv
<1>2. OneLiveClaim'
  BY <1>1 DEF RelayInv, OneLiveClaim, Outlived, SameReport
<1>3. QED
  BY <1>1, <1>2 DEF RelayInv, TypeOK, RecordedInThePast

-----------------------------------------------------------------------------
(* The invariant is inductive.                                             *)

\* The invariant holds of the empty tables the process starts with.
LEMMA InitEstablishesInv == Init => RelayInv
BY TimeAssumption
   DEF Init, RelayInv, TypeOK, IndexCoherent, RecordedInThePast, OneLiveClaim,
       EmptyMap, LongAgo

\* A call that changes nothing keeps it: ErrPeerReleased, ErrRelayNotHeld, a range
\* that is full, a relay another path has taken.
LEMMA StutterKeepsInv ==
    ASSUME RelayInv, UNCHANGED vars
    PROVE  RelayInv'
<1>1. UNCHANGED <<reportRelays, relaysByHost, relayGenerations, reportRelaySeq, lastRelaySweep, now>>
  BY DEF vars, relayVars
<1>2. TypeOK' /\ IndexCoherent'
  BY <1>1 DEF RelayInv, TypeOK, IndexCoherent
<1>3. OneLiveClaim' /\ RecordedInThePast'
  BY <1>1 DEF RelayInv, OneLiveClaim, RecordedInThePast, Outlived, SameReport
<1>4. QED
  BY <1>2, <1>3 DEF RelayInv

\* RelayReportSequence keeps it, whenever its caller read the clock.
LEMMA ClaimKeepsInv ==
    ASSUME RelayInv,
           NEW peer \in Peer, NEW upfSeq \in UpfSeqs, NEW t \in 0..now, NEW g,
           Claim(peer, upfSeq, t, g)
    PROVE  RelayInv'
<1> USE DEF RelayInv
<1>0. t \in Nat /\ now \in Nat /\ t <= now
  BY DEF TypeOK
<1>1. CASE ClaimReleased(peer, g)
  BY <1>1, StutterKeepsInv DEF ClaimReleased
<1>2. CASE ClaimRetransmission(peer, upfSeq, t, g) \/ ClaimExhausted(peer, upfSeq, t, g)
  <2>1. /\ dropRelaysLocked(SweptRelays(t))
        /\ sweepRelaysLocked(t)
        /\ reportRelaySeq' = reportRelaySeq
        /\ now' = now
    BY <1>2 DEF ClaimRetransmission, ClaimExhausted
  <2>2. lastRelaySweep' \in Int
    BY <1>0, <2>1 DEF sweepRelaysLocked, TypeOK
  <2>3. QED
    BY <2>1, <2>2, SweptIsOutlived, DropKeepsIndex, DropKeepsClaims, GenerationsTyped DEF TypeOK
<1>3. ASSUME NEW s \in RelaySeqs, ClaimFresh(peer, upfSeq, t, g, s)
      PROVE  RelayInv'
  <2> DEFINE relay == [upfAddr |-> peer, upfSeq |-> upfSeq, recorded |-> t, answered |-> FALSE]
             S == SweptRelays(t)
  <2>1. relay \in Relay
    BY <1>0 DEF Relay
  <2>2. /\ recordRelayLocked(S, s, relay)
        /\ sweepRelaysLocked(t)
        /\ reportRelaySeq' = s
        /\ now' = now
        /\ RelayFrom(peer, upfSeq, t) = {}
    BY <1>3 DEF ClaimFresh
  <2>3. s \in RelaySeqs \ (DOMAIN reportRelays \ S)
    BY <1>3, FreeNumberIsFree DEF ClaimFresh
  <2>4. S \subseteq DOMAIN reportRelays
    BY SweptIsOutlived
  <2>5. relay.upfAddr = peer /\ relay.upfSeq = upfSeq /\ relay.recorded = t
    OBVIOUS
  <2> HIDE DEF relay, S
  <2>6. /\ DOMAIN reportRelays' = (DOMAIN reportRelays \ S) \cup {s}
        /\ reportRelays'[s] = relay
        /\ \A r \in DOMAIN reportRelays \ S : reportRelays'[r] = reportRelays[r]
        /\ DOMAIN relaysByHost' \subseteq Hosts
        /\ \A h \in DOMAIN relaysByHost' : relaysByHost'[h] \subseteq RelaySeqs
        /\ IndexCoherent'
    BY <2>1, <2>2, <2>3, <2>4, RecordKeepsIndex
  \* Every entry that is kept and is for the same report has outlived the lifetime.
  <2>7. ASSUME NEW r \in DOMAIN reportRelays \ S, SameReport(reportRelays[r], relay)
        PROVE  Outlived(reportRelays[r], now)
    <3>1. reportRelays[r].upfAddr = peer /\ reportRelays[r].upfSeq = upfSeq
      BY <2>5, <2>7 DEF SameReport
    <3>2. r \in At(relaysByHost, peer.host, {})
      BY <3>1 DEF IndexCoherent, At
    <3>3. Outlived(reportRelays[r], t)
      BY <2>2, <3>1, <3>2 DEF RelayFrom, S
    <3>4. QED
      BY <1>0, <3>3, OutlivedIsStable DEF TypeOK
  <2>8. OneLiveClaim'
    BY <2>2, <2>6, <2>7 DEF OneLiveClaim, SameReport, Outlived
  <2>9. RecordedInThePast'
    BY <1>0, <2>2, <2>5, <2>6 DEF RecordedInThePast
  <2>10. lastRelaySweep' \in Int /\ reportRelaySeq' \in Nat
    BY <1>0, <2>2, RangeAssumption DEF sweepRelaysLocked, TypeOK, RelaySeqs
  <2>11. TypeOK'
    BY <2>1, <2>2, <2>6, <2>10, GenerationsTyped DEF TypeOK
  <2>12. QED
    BY <2>6, <2>8, <2>9, <2>11
<1>4. QED
  BY <1>1, <1>2, <1>3 DEF Claim

\* RenumberReportRelay keeps it: the claim moves, with its report and its date.
LEMMA RenumberKeepsInv ==
    ASSUME RelayInv, NEW s \in RelaySeqs, RenumberReportRelay(s)
    PROVE  RelayInv'
<1> USE DEF RelayInv
<1>1. CASE RenumberNotHeld(s) \/ RenumberExhausted(s)
  BY <1>1, StutterKeepsInv DEF RenumberNotHeld, RenumberExhausted
<1>2. ASSUME NEW candidate \in RelaySeqs, Renumber(s, candidate)
      PROVE  RelayInv'
  <2>1. /\ s \in DOMAIN reportRelays
        /\ candidate \in RelaySeqs \ DOMAIN reportRelays
        /\ recordRelayLocked({s}, candidate, reportRelays[s])
        /\ reportRelaySeq' = candidate
        /\ UNCHANGED <<relayGenerations, lastRelaySweep, now>>
    BY <1>2, FreeNumberIsFree DEF Renumber
  <2>2. reportRelays[s] \in Relay
    BY <2>1 DEF TypeOK
  <2>3. /\ DOMAIN reportRelays' = (DOMAIN reportRelays \ {s}) \cup {candidate}
        /\ reportRelays'[candidate] = reportRelays[s]
        /\ \A r \in DOMAIN reportRelays \ {s} : reportRelays'[r] = reportRelays[r]
        /\ DOMAIN relaysByHost' \subseteq Hosts
        /\ \A h \in DOMAIN relaysByHost' : relaysByHost'[h] \subseteq RelaySeqs
        /\ IndexCoherent'
    <3>1. {s} \subseteq DOMAIN reportRelays /\ candidate \in RelaySeqs \ (DOMAIN reportRelays \ {s})
      BY <2>1
    <3>2. QED
      BY <2>1, <2>2, <3>1, RecordKeepsIndex
  <2>4. OneLiveClaim'
    BY <2>1, <2>3 DEF OneLiveClaim, SameReport, Outlived
  <2>5. RecordedInThePast'
    BY <2>1, <2>3 DEF RecordedInThePast
  <2>6. TypeOK'
    BY <2>1, <2>2, <2>3, RangeAssumption DEF TypeOK, RelaySeqs
  <2>7. QED
    BY <2>3, <2>4, <2>5, <2>6
<1>3. QED
  BY <1>1, <1>2 DEF RenumberReportRelay

\* TakeReportRelay keeps it: only the answered mark changes.
LEMMA TakeKeepsInv ==
    ASSUME RelayInv, NEW s \in RelaySeqs, TakeReportRelay(s)
    PROVE  RelayInv'
<1> USE DEF RelayInv
<1>1. CASE TakeNothing(s)
  BY <1>1, StutterKeepsInv DEF TakeNothing
<1>2. CASE Take(s)
  <2>1. /\ s \in DOMAIN reportRelays
        /\ reportRelays' = [reportRelays EXCEPT ![s].answered = TRUE]
        /\ UNCHANGED <<relaysByHost, relayGenerations, reportRelaySeq, lastRelaySweep, now>>
    BY <1>2 DEF Take, Takeable
  <2>2. DOMAIN reportRelays' = DOMAIN reportRelays
    BY <2>1
  <2>3. \A r \in DOMAIN reportRelays :
          /\ reportRelays'[r] \in Relay
          /\ reportRelays'[r].upfAddr = reportRelays[r].upfAddr
          /\ reportRelays'[r].upfSeq = reportRelays[r].upfSeq
          /\ reportRelays'[r].recorded = reportRelays[r].recorded
    BY <2>1 DEF TypeOK, Relay
  <2>4. IndexCoherent'
    BY <2>1, <2>2, <2>3 DEF IndexCoherent
  <2>5. OneLiveClaim'
    BY <2>1, <2>2, <2>3 DEF OneLiveClaim, SameReport, Outlived
  <2>6. QED
    BY <2>1, <2>2, <2>3, <2>4, <2>5 DEF TypeOK, RecordedInThePast
<1>3. QED
  BY <1>1, <1>2 DEF TakeReportRelay

\* ForgetReportRelay keeps it.
LEMMA ForgetKeepsInv ==
    ASSUME RelayInv, NEW s \in RelaySeqs, ForgetReportRelay(s)
    PROVE  RelayInv'
<1>1. /\ dropRelaysLocked({s} \cap DOMAIN reportRelays)
      /\ UNCHANGED <<relayGenerations, reportRelaySeq, lastRelaySweep, now>>
  BY DEF ForgetReportRelay
<1>2. {s} \cap DOMAIN reportRelays \subseteq DOMAIN reportRelays
  OBVIOUS
<1>3. QED
  BY <1>1, <1>2, DropKeepsIndex, DropKeepsClaims DEF RelayInv, TypeOK

\* ForgetRelaysForHost keeps it: the index names every claim of the host.
LEMMA ReleaseKeepsInv ==
    ASSUME RelayInv, NEW host \in Hosts, ForgetRelaysForHost(host)
    PROVE  RelayInv'
<1> USE DEF RelayInv
<1>1. /\ relayGenerations' = Store(relayGenerations, host,
           [count |-> RelayGeneration(host) + 1, releasedAt |-> now])
      /\ dropRelaysLocked(At(relaysByHost, host, {}))
      /\ UNCHANGED <<reportRelaySeq, lastRelaySweep, now>>
  BY DEF ForgetRelaysForHost
<1>2. At(relaysByHost, host, {}) \subseteq DOMAIN reportRelays
  BY DEF At, IndexCoherent
<1>3. /\ DOMAIN relayGenerations' \subseteq Hosts
      /\ \A h \in DOMAIN relayGenerations' : relayGenerations'[h] \in Generation
  <2>1. [count |-> RelayGeneration(host) + 1, releasedAt |-> now] \in Generation
    BY GenerationsTyped DEF Generation, TypeOK
  <2>2. QED
    BY <1>1, <2>1 DEF Store, TypeOK
<1>4. QED
  BY <1>1, <1>2, <1>3, DropKeepsIndex, DropKeepsClaims DEF TypeOK

\* The passing of time keeps it: claims only grow older.
LEMMA TickKeepsInv ==
    ASSUME RelayInv, Tick
    PROVE  RelayInv'
<1> USE DEF RelayInv
<1>1. /\ UNCHANGED relayVars
      /\ now \in Nat /\ now' = now + 1
  BY DEF Tick, TypeOK
<1>2. \A s \in DOMAIN reportRelays : Outlived(reportRelays[s], now) => Outlived(reportRelays[s], now')
  BY <1>1, OutlivedIsStable DEF TypeOK
<1>3. OneLiveClaim'
  BY <1>1, <1>2 DEF OneLiveClaim, Outlived, SameReport, relayVars
<1>4. RecordedInThePast'
  BY <1>1 DEF RecordedInThePast, relayVars, TypeOK, Relay
<1>5. QED
  BY <1>1, <1>3, <1>4 DEF TypeOK, IndexCoherent, relayVars

\* Every step keeps it.
LEMMA NextKeepsInv == RelayInv /\ [Next]_vars => RelayInv'
<1> SUFFICES ASSUME RelayInv, [Next]_vars PROVE RelayInv'
  OBVIOUS
<1>1. CASE UNCHANGED vars
  BY <1>1, StutterKeepsInv
<1>2. CASE Next
  BY <1>2, ClaimKeepsInv, RenumberKeepsInv, TakeKeepsInv, ForgetKeepsInv, ReleaseKeepsInv,
     TickKeepsInv DEF Next, Release
<1>3. QED
  BY <1>1, <1>2

\* What a step does to a claim that keeps its number (NumberNeverChangesHands).
LEMMA NextKeepsClaims == RelayInv /\ [Next]_vars => [ClaimKept]_vars
<1> SUFFICES ASSUME RelayInv, Next PROVE ClaimKept
  OBVIOUS
<1> USE DEF RelayInv
<1>1. ASSUME NEW peer \in Peer, NEW upfSeq \in UpfSeqs, NEW t \in 0..now, NEW g,
             Claim(peer, upfSeq, t, g)
      PROVE  ClaimKept
  <2>0. t \in Nat /\ now \in Nat /\ t <= now
    BY DEF TypeOK
  <2>1. CASE ClaimReleased(peer, g)
    BY <2>1 DEF ClaimReleased, vars, relayVars, ClaimKept, SameReport
  <2>2. CASE ClaimRetransmission(peer, upfSeq, t, g) \/ ClaimExhausted(peer, upfSeq, t, g)
    <3>1. dropRelaysLocked(SweptRelays(t))
      BY <2>2 DEF ClaimRetransmission, ClaimExhausted
    <3>2. QED
      BY <3>1, SweptIsOutlived, DropKeepsIndex DEF ClaimKept, SameReport
  <2>3. ASSUME NEW s \in RelaySeqs, ClaimFresh(peer, upfSeq, t, g, s)
        PROVE  ClaimKept
    <3> DEFINE relay == [upfAddr |-> peer, upfSeq |-> upfSeq, recorded |-> t, answered |-> FALSE]
    <3>1. \A r \in DOMAIN reportRelays \ SweptRelays(t) : reportRelays'[r] = reportRelays[r]
      <4>1. recordRelayLocked(SweptRelays(t), s, relay)
        BY <2>3 DEF ClaimFresh
      <4>2. s \in RelaySeqs \ (DOMAIN reportRelays \ SweptRelays(t))
        BY <2>3, FreeNumberIsFree DEF ClaimFresh
      <4>3. relay \in Relay
        BY <2>0 DEF Relay
      <4> HIDE DEF relay
      <4>4. QED
        BY <4>1, <4>2, <4>3, SweptIsOutlived, RecordKeepsIndex
    <3>2. \A r \in SweptRelays(t) : Outlived(reportRelays[r], now)
      BY <2>0, SweptIsOutlived, OutlivedIsStable DEF TypeOK
    <3>3. QED
      BY <3>1, <3>2 DEF ClaimKept, SameReport
  <2>4. QED
    BY <1>1, <2>1, <2>2, <2>3 DEF Claim
<1>2. ASSUME NEW s \in RelaySeqs, RenumberReportRelay(s)
      PROVE  ClaimKept
  <2>1. CASE RenumberNotHeld(s) \/ RenumberExhausted(s)
    BY <2>1 DEF RenumberNotHeld, RenumberExhausted, vars, relayVars, ClaimKept, SameReport
  <2>2. ASSUME NEW candidate \in RelaySeqs, Renumber(s, candidate)
        PROVE  ClaimKept
    <3>1. candidate \notin DOMAIN reportRelays
      BY <2>2, FreeNumberIsFree DEF Renumber
    <3>2. QED
      BY <2>2, <3>1 DEF Renumber, recordRelayLocked, Store, Without, ClaimKept, SameReport
  <2>3. QED
    BY <1>2, <2>1, <2>2 DEF RenumberReportRelay
<1>3. ASSUME NEW s \in RelaySeqs, TakeReportRelay(s)
      PROVE  ClaimKept
  <2>1. CASE TakeNothing(s)
    BY <2>1 DEF TakeNothing, vars, relayVars, ClaimKept, SameReport
  <2>2. CASE Take(s)
    BY <2>2 DEF Take, Takeable, ClaimKept, SameReport, TypeOK, Relay
  <2>3. QED
    BY <1>3, <2>1, <2>2 DEF TakeReportRelay
<1>4. ASSUME NEW s \in RelaySeqs, ForgetReportRelay(s)
      PROVE  ClaimKept
  BY <1>4 DEF ForgetReportRelay, dropRelaysLocked, Without, ClaimKept, SameReport
<1>5. ASSUME NEW host \in Hosts, Release(host)
      PROVE  ClaimKept
  BY <1>5 DEF Release, ForgetRelaysForHost, dropRelaysLocked, Without, ClaimKept, SameReport
<1>6. CASE Tick
  BY <1>6 DEF Tick, relayVars, ClaimKept, SameReport
<1>7. QED
  BY <1>1, <1>2, <1>3, <1>4, <1>5, <1>6 DEF Next

-----------------------------------------------------------------------------
(* The theorems.                                                           *)

\* The inductive invariant holds in every reachable state of the relay table.
THEOREM Invariance == Spec => []RelayInv
BY InitEstablishesInv, NextKeepsInv, PTL DEF Spec

\* The tables hold what the code declares them to hold.
THEOREM TypeCorrect == Spec => []TypeOK
<1>1. RelayInv => TypeOK
  BY DEF RelayInv
<1>2. QED
  BY <1>1, Invariance, PTL

\* The host index never drifts from the relay table.
THEOREM IndexNeverDrifts == Spec => []IndexCoherent
<1>1. RelayInv => IndexCoherent
  BY DEF RelayInv
<1>2. QED
  BY <1>1, Invariance, PTL

\* A report is never relayed under two numbers at once, however stale the clock
\* reads of the claims and however throttled the sweep.
THEOREM NoReportRelayedTwice == Spec => []OneLiveClaim
<1>1. RelayInv => OneLiveClaim
  BY DEF RelayInv
<1>2. QED
  BY <1>1, Invariance, PTL

\* A number is never taken over while an exchange waits on it: a claim only goes
\* out under a number that is free, or one whose claim has outlived the lifetime.
THEOREM NumbersAreNotReused == Spec => NumberNeverChangesHands
BY NextKeepsClaims, Invariance, PTL DEF Spec, NumberNeverChangesHands

=============================================================================
