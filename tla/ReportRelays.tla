---------------------------- MODULE ReportRelays ----------------------------
(***************************************************************************)
(* The table of session reports being relayed to the SMF (config.go).      *)
(*                                                                         *)
(* A report a user plane raises is claimed under a sequence number of the  *)
(* adapter's own.  The claim remembers where the report came from, absorbs *)
(* retransmissions while the report is being relayed, and is dropped once  *)
(* the report has been answered, when it outlives reportRelayLifetime, or  *)
(* when its peer stops being one the SMF names.                            *)
(*                                                                         *)
(* Every operation holds reportRelayMutex from beginning to end, so each is*)
(* one action.  Callers are arbitrary here: SessionReport composes this    *)
(* table with the handlers that use it.                                    *)
(***************************************************************************)
EXTENDS Maps, RelayNumbers

CONSTANTS
    Hosts,                  \* addresses reports come from (upfAddr.IP.String())
    Ports,                  \* source ports
    UpfSeqs,                \* sequence numbers user planes give their reports
    ReportRelayLifetime,
    RelaySweepInterval,
    MaxNow,                 \* bound: the clock stops here
    MaxReleases             \* bound: releases of one address

ASSUME TimeAssumption ==
    /\ ReportRelayLifetime \in Nat
    /\ RelaySweepInterval \in Nat
    /\ MaxNow \in Nat
    /\ MaxReleases \in Nat

VARIABLES
    reportRelays,       \* relay sequence number -> reportRelay
    relaysByHost,       \* host -> the keys of reportRelays raised by it
    relayGenerations,   \* host -> how often, and when last, it was released
    reportRelaySeq,     \* the number handed out last
    lastRelaySweep,
    now                 \* the wall clock

relayVars == <<reportRelays, relaysByHost, relayGenerations, reportRelaySeq, lastRelaySweep>>

vars == <<relayVars, now>>

Peer == [host: Hosts, port: Ports]

Relay == [upfAddr: Peer, upfSeq: UpfSeqs, recorded: Nat, answered: BOOLEAN]

Generation == [count: Nat, releasedAt: Nat]

NeverReleased == [count |-> 0, releasedAt |-> 0]

\* lastRelaySweep starts as the zero time, so the first sweep is never throttled.
LongAgo == -RelaySweepInterval

Init ==
    /\ reportRelays = EmptyMap
    /\ relaysByHost = EmptyMap
    /\ relayGenerations = EmptyMap
    /\ reportRelaySeq = 0
    /\ lastRelaySweep = LongAgo
    /\ now = 0

-----------------------------------------------------------------------------
(* Reading the tables.                                                     *)

\* How many times the address has been released.
RelayGeneration(host) == At(relayGenerations, host, NeverReleased).count

Outlived(relay, t) == t - relay.recorded > ReportRelayLifetime

SweepDue(t) == t - lastRelaySweep >= RelaySweepInterval

\* The entries and the release counts a call made at time t sweeps away.
SweptRelays(t) ==
    IF SweepDue(t) THEN {s \in DOMAIN reportRelays : Outlived(reportRelays[s], t)} ELSE {}

SweptGenerations(t) ==
    IF SweepDue(t)
    THEN {h \in DOMAIN relayGenerations :
            t - relayGenerations[h].releasedAt > ReportRelayLifetime}
    ELSE {}

\* Mutant: a report that is being answered is no longer matched.
RelayFromUnanswered(peer, upfSeq, t) ==
    {s \in At(relaysByHost, peer.host, {}) \ SweptRelays(t) :
        /\ reportRelays[s].upfSeq = upfSeq
        /\ reportRelays[s].upfAddr.port = peer.port
        /\ ~reportRelays[s].answered
        /\ ~Outlived(reportRelays[s], t)}

\* The numbers a report from this peer is already being relayed under.  The
\* age is tested here and not left to the throttled sweep.
RelayFrom(peer, upfSeq, t) ==
    {s \in At(relaysByHost, peer.host, {}) \ SweptRelays(t) :
        /\ reportRelays[s].upfSeq = upfSeq
        /\ reportRelays[s].upfAddr.port = peer.port
        /\ ~Outlived(reportRelays[s], t)}

-----------------------------------------------------------------------------
(* Writing the tables.                                                     *)

\* relaysByHost once the entries in S are dropped: each leaves the bucket of the
\* host that raised it, and a bucket goes with its last entry.
IndexWithout(S) ==
    LET left(h) == relaysByHost[h] \ {s \in S : reportRelays[s].upfAddr.host = h}
    IN  [h \in {g \in DOMAIN relaysByHost : left(g) # {}} |-> left(h)]

\* Mutant: the index keeps what the table has dropped.
dropFromTableOnly(S) ==
    /\ reportRelays' = Without(reportRelays, S)
    /\ UNCHANGED relaysByHost

dropRelaysLocked(S) ==
    /\ reportRelays' = Without(reportRelays, S)
    /\ relaysByHost' = IndexWithout(S)

\* Drops the entries in S, then records relay under s.
recordRelayLocked(S, s, relay) ==
    LET host == relay.upfAddr.host
    IN  /\ reportRelays' = Store(Without(reportRelays, S), s, relay)
        /\ relaysByHost' = Store(IndexWithout(S), host, At(IndexWithout(S), host, {}) \cup {s})

\* The part of the sweep that does not touch the two tables.
sweepRelaysLocked(t) ==
    /\ lastRelaySweep' = IF SweepDue(t) THEN t ELSE lastRelaySweep
    /\ relayGenerations' = Without(relayGenerations, SweptGenerations(t))

-----------------------------------------------------------------------------
(* RelayReportSequence, one action per outcome.  t is the time the caller  *)
(* read before it got the mutex, so it may lag behind the clock.           *)

\* ErrPeerReleased: nothing is read or swept.
ClaimReleased(peer, authorisedUnder) ==
    /\ RelayGeneration(peer.host) # authorisedUnder
    /\ UNCHANGED vars

\* A retransmission of a report being relayed (fresh = false).
ClaimRetransmission(peer, upfSeq, t, authorisedUnder) ==
    /\ RelayGeneration(peer.host) = authorisedUnder
    /\ RelayFrom(peer, upfSeq, t) # {}
    /\ dropRelaysLocked(SweptRelays(t))
    /\ sweepRelaysLocked(t)
    /\ UNCHANGED <<reportRelaySeq, now>>

\* ErrRelaySequenceExhausted.
ClaimExhausted(peer, upfSeq, t, authorisedUnder) ==
    /\ RelayGeneration(peer.host) = authorisedUnder
    /\ RelayFrom(peer, upfSeq, t) = {}
    /\ NextFreeRelaySequence(DOMAIN reportRelays \ SweptRelays(t), reportRelaySeq) = {}
    /\ dropRelaysLocked(SweptRelays(t))
    /\ sweepRelaysLocked(t)
    /\ UNCHANGED <<reportRelaySeq, now>>

\* Mutant: a peer released since its report was let through claims all the same.
ClaimUnchecked(peer, upfSeq, t, authorisedUnder, s) ==
    /\ RelayFrom(peer, upfSeq, t) = {}
    /\ s \in NextFreeRelaySequence(DOMAIN reportRelays \ SweptRelays(t), reportRelaySeq)
    /\ recordRelayLocked(SweptRelays(t), s,
         [upfAddr |-> peer, upfSeq |-> upfSeq, recorded |-> t, answered |-> FALSE])
    /\ sweepRelaysLocked(t)
    /\ reportRelaySeq' = s
    /\ UNCHANGED now

\* Mutant: the counter is moved past the number handed out.
ClaimAndAdvance(peer, upfSeq, t, authorisedUnder, s) ==
    /\ RelayGeneration(peer.host) = authorisedUnder
    /\ RelayFrom(peer, upfSeq, t) = {}
    /\ s \in NextFreeRelaySequence(DOMAIN reportRelays \ SweptRelays(t), reportRelaySeq)
    /\ recordRelayLocked(SweptRelays(t), s,
         [upfAddr |-> peer, upfSeq |-> upfSeq, recorded |-> t, answered |-> FALSE])
    /\ sweepRelaysLocked(t)
    /\ reportRelaySeq' = s + 1
    /\ UNCHANGED now

\* A fresh report, claimed under s.
ClaimFresh(peer, upfSeq, t, authorisedUnder, s) ==
    /\ RelayGeneration(peer.host) = authorisedUnder
    /\ RelayFrom(peer, upfSeq, t) = {}
    /\ s \in NextFreeRelaySequence(DOMAIN reportRelays \ SweptRelays(t), reportRelaySeq)
    /\ recordRelayLocked(SweptRelays(t), s,
         [upfAddr |-> peer, upfSeq |-> upfSeq, recorded |-> t, answered |-> FALSE])
    /\ sweepRelaysLocked(t)
    /\ reportRelaySeq' = s
    /\ UNCHANGED now

(* RenumberReportRelay, one action per outcome.                            *)

RenumberNotHeld(s) ==
    /\ s \notin DOMAIN reportRelays
    /\ UNCHANGED vars

\* Mutant: the claim is released before the caller has answered.
RenumberExhaustedDrops(s) ==
    /\ s \in DOMAIN reportRelays
    /\ NextFreeRelaySequence(DOMAIN reportRelays, reportRelaySeq) = {}
    /\ dropRelaysLocked({s})
    /\ UNCHANGED <<relayGenerations, reportRelaySeq, lastRelaySweep, now>>

\* The claim stays: the caller ends it after its refusal is registered.
RenumberExhausted(s) ==
    /\ s \in DOMAIN reportRelays
    /\ NextFreeRelaySequence(DOMAIN reportRelays, reportRelaySeq) = {}
    /\ UNCHANGED vars

Renumber(s, candidate) ==
    /\ s \in DOMAIN reportRelays
    /\ candidate \in NextFreeRelaySequence(DOMAIN reportRelays, reportRelaySeq)
    /\ recordRelayLocked({s}, candidate, reportRelays[s])
    /\ reportRelaySeq' = candidate
    /\ UNCHANGED <<relayGenerations, lastRelaySweep, now>>

(* TakeReportRelay: claimed for answering, and kept until it is forgotten. *)

Takeable(s) ==
    /\ s \in DOMAIN reportRelays
    /\ ~reportRelays[s].answered
    /\ ~Outlived(reportRelays[s], now)

TakeNothing(s) ==
    /\ ~Takeable(s)
    /\ UNCHANGED vars

\* Mutant: the first taker does not keep the second away.
TakeShared(s) ==
    /\ Takeable(s)
    /\ UNCHANGED vars

Take(s) ==
    /\ Takeable(s)
    /\ reportRelays' = [reportRelays EXCEPT ![s].answered = TRUE]
    /\ UNCHANGED <<relaysByHost, relayGenerations, reportRelaySeq, lastRelaySweep, now>>

ForgetReportRelay(s) ==
    /\ dropRelaysLocked({s} \cap DOMAIN reportRelays)
    /\ UNCHANGED <<relayGenerations, reportRelaySeq, lastRelaySweep, now>>

\* The release of an address takes every claim it holds, and is counted
\* whether or not it held any.
ForgetRelaysForHost(host) ==
    /\ relayGenerations' = Store(relayGenerations, host,
         [count |-> RelayGeneration(host) + 1, releasedAt |-> now])
    /\ dropRelaysLocked(At(relaysByHost, host, {}))
    /\ UNCHANGED <<reportRelaySeq, lastRelaySweep, now>>

Tick ==
    /\ now < MaxNow
    /\ now' = now + 1
    /\ UNCHANGED relayVars

Release(host) ==
    /\ RelayGeneration(host) < MaxReleases
    /\ ForgetRelaysForHost(host)

Claim(peer, upfSeq, t, authorisedUnder) ==
    \/ ClaimReleased(peer, authorisedUnder)
    \/ ClaimRetransmission(peer, upfSeq, t, authorisedUnder)
    \/ ClaimExhausted(peer, upfSeq, t, authorisedUnder)
    \/ \E s \in RelaySeqs : ClaimFresh(peer, upfSeq, t, authorisedUnder, s)

RenumberReportRelay(s) ==
    \/ RenumberNotHeld(s)
    \/ RenumberExhausted(s)
    \/ \E candidate \in RelaySeqs : Renumber(s, candidate)

TakeReportRelay(s) == TakeNothing(s) \/ Take(s)

Next ==
    \/ \E peer \in Peer, upfSeq \in UpfSeqs, t \in 0..now, g \in 0..MaxReleases :
         Claim(peer, upfSeq, t, g)
    \/ \E s \in RelaySeqs :
         RenumberReportRelay(s) \/ TakeReportRelay(s) \/ ForgetReportRelay(s)
    \/ \E host \in Hosts : Release(host)
    \/ Tick

Spec == Init /\ [][Next]_vars

-----------------------------------------------------------------------------
(* Properties.                                                             *)

\* Types of the tables, and the counter: zero until the first claim, a number of
\* the adapter's own half from then on (config.go, reportRelaySeq).
TypeOK ==
    /\ DOMAIN reportRelays \subseteq RelaySeqs
    /\ \A s \in DOMAIN reportRelays : reportRelays[s] \in Relay
    /\ DOMAIN relaysByHost \subseteq Hosts
    /\ \A h \in DOMAIN relaysByHost : relaysByHost[h] \subseteq RelaySeqs
    /\ DOMAIN relayGenerations \subseteq Hosts
    /\ \A h \in DOMAIN relayGenerations : relayGenerations[h] \in Generation
    /\ reportRelaySeq \in {0} \cup RelaySeqs
    /\ lastRelaySweep \in Int
    /\ now \in Nat

\* The index never drifts from the table it indexes: a bucket holds exactly the
\* numbers its host's reports are relayed under, and none is left empty
\* (config.go: "the index cannot drift from what it indexes").
IndexCoherent ==
    /\ DOMAIN relaysByHost = {reportRelays[s].upfAddr.host : s \in DOMAIN reportRelays}
    /\ \A h \in DOMAIN relaysByHost :
         relaysByHost[h] = {s \in DOMAIN reportRelays : reportRelays[s].upfAddr.host = h}

SameReport(r1, r2) == r1.upfAddr = r2.upfAddr /\ r1.upfSeq = r2.upfSeq

\* A report is never being relayed under two numbers at once: of two entries for
\* one report, at least one has outlived the lifetime.  This is what keeps a
\* retransmission from raising a second downlink data notification.
OneLiveClaim ==
    \A s1, s2 \in DOMAIN reportRelays :
        /\ s1 # s2
        /\ SameReport(reportRelays[s1], reportRelays[s2])
        => Outlived(reportRelays[s1], now) \/ Outlived(reportRelays[s2], now)

\* Claims are recorded at times that have already come.
RecordedInThePast == \A s \in DOMAIN reportRelays : reportRelays[s].recorded <= now

\* What a step does to a claim that keeps its number and has not outlived it.
ClaimKept ==
    \A s \in DOMAIN reportRelays \cap DOMAIN reportRelays' :
        ~Outlived(reportRelays[s], now) =>
          /\ SameReport(reportRelays[s], reportRelays'[s])
          /\ reportRelays[s].recorded = reportRelays'[s].recorded
          /\ reportRelays[s].answered => reportRelays'[s].answered

\* No step hands a number an exchange is still waiting on to another report, nor
\* takes back that it is being answered: the SMF's answer to the first would be
\* returned to the user plane that raised the second.
NumberNeverChangesHands == [][ClaimKept]_vars

=============================================================================
