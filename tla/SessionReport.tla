---------------------------- MODULE SessionReport ----------------------------
(***************************************************************************)
(* A session report from the datagram a user plane sends to the answer it  *)
(* gets back (pfcp/handler/handler.go): the handler goroutines, run        *)
(* against the relay table, the transactions and the source gate.          *)
(*                                                                         *)
(* The read loop starts a goroutine per message, so any number of copies   *)
(* of one report, the SMF's answer to it and the give-up path of its relay *)
(* are in progress at once; every call they make into the tables is one    *)
(* action, because each takes and drops its lock.                          *)
(***************************************************************************)
EXTENDS Integers, Maps

CONSTANTS
    Hosts, Ports, UpfSeqs,
    RelaySequenceFloor, RelaySequenceCeil, ReportRelayLifetime, RelaySweepInterval,
    MaxNow, MaxReleases,
    Self, TxIds, NumOfResend,
    Handlers,               \* goroutines at work at once
    RelaySendAttempts,
    LateResponses           \* whether user planes answer the SMF's requests late

ASSUME AttemptsAssumption == RelaySendAttempts \in Nat \ {0} /\ LateResponses \in BOOLEAN

ASSUME ReportsAssumption == Hosts # {} /\ Ports # {} /\ UpfSeqs # {}

ASSUME TablesAssumption ==
    /\ RelaySequenceFloor \in Nat \ {0} /\ RelaySequenceCeil \in Nat
    /\ RelaySequenceFloor <= RelaySequenceCeil
    /\ ReportRelayLifetime \in Nat /\ RelaySweepInterval \in Nat
    /\ MaxNow \in Nat /\ MaxReleases \in Nat
    /\ NumOfResend \in Nat \ {0} /\ Self \notin [host: Hosts, port: Ports]

VARIABLES
    reportRelays, relaysByHost, relayGenerations, reportRelaySeq, lastRelaySweep, now,
    consumerTable, txs, detached,
    authorised,     \* the hosts the SMF names
    releases,       \* host -> how often it was released
    releasing,      \* the host whose release holds upfAddrMutex, if any
    smfKnown,       \* an SMF has addressed the adapter (SmfAddr() # nil)
    handlers,       \* the goroutines
    forwards,       \* the transactions that carry a request the SMF numbered
    forwarded,      \* history: the numbers a late response can still come for
    cutShort,       \* history: numbers whose relay, or the last, a late response has reached
    claimEpoch,     \* history: number -> the occupancy its claim was authorised under
    recounted       \* history: numbers claimed by quoting a count a sweep had forgotten

Relays == INSTANCE ReportRelays
Txs    == INSTANCE Transactions WITH Seqs <- UpfSeqs \cup RelaySequenceFloor..RelaySequenceCeil
Gate   == INSTANCE AddrGate WITH Addrs <- Hosts

relayVars   == <<reportRelays, relaysByHost, relayGenerations, reportRelaySeq, lastRelaySweep>>
txVars      == <<consumerTable, txs, detached>>
gateVars    == <<authorised, releases, releasing, smfKnown>>
historyVars == <<forwarded, cutShort, claimEpoch, recounted>>
vars == <<relayVars, now, txVars, gateVars, handlers, forwards, historyVars>>

Peer == [host: Hosts, port: Ports]
RelaySeqs == RelaySequenceFloor..RelaySequenceCeil

\* No number: the handler holds no claim.
NoSeq == 0

Pcs == {"idle", "generation", "gate", "smf", "claim", "send", "renumber",
        "take", "answer", "forget"}

\* upfSeq and peer are the report's; authorisedUnder is the release count read
\* for it.  Two fields are history: forgot, how many releases of the address that
\* count left out, and epoch, the occupancy of the address the gate let it through
\* under.
Handler == [pc: Pcs, peer: Peer, upfSeq: UpfSeqs, authorisedUnder: Nat, forgot: Nat, epoch: Nat,
            relaySeq: RelaySeqs \cup {NoSeq}, attempts: 0..RelaySendAttempts]

Idle == [pc |-> "idle", peer |-> CHOOSE p \in Peer : TRUE, upfSeq |-> CHOOSE q \in UpfSeqs : TRUE,
         authorisedUnder |-> 0, forgot |-> 0, epoch |-> 0, relaySeq |-> NoSeq, attempts |-> 0]

Init ==
    /\ Relays!Init
    /\ Txs!Init
    /\ Gate!Init
    /\ releasing = {}
    /\ smfKnown = FALSE
    /\ handlers = [h \in Handlers |-> Idle]
    /\ forwards = {}
    /\ forwarded = {}
    /\ cutShort = {}
    /\ claimEpoch = [s \in RelaySeqs |-> 0]
    /\ recounted = {}

-----------------------------------------------------------------------------
(* The read loop.                                                          *)

\* A copy of a report that is being answered goes to the answer; any other is
\* handed to a goroutine of its own.
ReadReport(h, peer, upfSeq) ==
    /\ handlers[h].pc = "idle"
    /\ ~Txs!Held(peer, upfSeq)
    /\ handlers' = [handlers EXCEPT ![h] =
         [Idle EXCEPT !.pc = "generation", !.peer = peer, !.upfSeq = upfSeq]]
    /\ UNCHANGED <<relayVars, now, txVars, gateVars, forwards, historyVars>>

AbsorbReport(peer, upfSeq) ==
    /\ Txs!AbsorbResend(peer, upfSeq)
    /\ UNCHANGED <<relayVars, now, gateVars, handlers, forwards, historyVars>>

\* The request has been on the wire, so its receiver may answer.
Written(id) ==
    \/ txs[id].phase = "wait"
    \/ txs[id].iter > 0
    \/ txs[id].phase = "remove" /\ ~txs[id].failed

\* The SMF answers a report that has been written to it.  The answer is matched by
\* its number: once the relay has been given up, to a request of the SMF's that has
\* taken the number.
ReadAnswer(h, s) ==
    /\ handlers[h].pc = "idle"
    /\ Txs!AcceptResponse(s)
    /\ \E id \in DOMAIN txs \ forwards : Txs!IsRequest(id) /\ txs[id].seq = s /\ Written(id)
    /\ handlers' = [handlers EXCEPT ![h] = [Idle EXCEPT !.pc = "take", !.relaySeq = s]]
    /\ UNCHANGED <<relayVars, now, gateVars, forwards, historyVars>>

-----------------------------------------------------------------------------
(* HandlePfcpSessionReportRequest, call by call.                           *)

\* The releases of an address its count has forgotten: a count that is swept starts
\* again at zero.
Forgotten(host) == releases[host] - Relays!RelayGeneration(host)

ReadGeneration(h) ==
    LET host == handlers[h].peer.host
    IN  /\ handlers[h].pc = "generation"
        /\ handlers' = [handlers EXCEPT ![h].pc = "gate", ![h].forgot = Forgotten(host),
             ![h].authorisedUnder = Relays!RelayGeneration(host)]
        /\ UNCHANGED <<relayVars, now, txVars, gateVars, forwards, historyVars>>

\* IsKnownUpfAddr waits for upfAddrMutex.
PassGate(h) ==
    /\ handlers[h].pc = "gate"
    /\ releasing = {}
    /\ handlers[h].peer.host \in authorised
    /\ handlers' = [handlers EXCEPT ![h].pc = "smf", ![h].epoch = releases[handlers[h].peer.host]]
    /\ UNCHANGED <<relayVars, now, txVars, gateVars, forwards, historyVars>>

\* An unknown source, or one the SMF has not named for the whole lifetime.
RefuseAtGate(h) ==
    /\ handlers[h].pc = "gate"
    /\ releasing = {}
    /\ handlers' = [handlers EXCEPT ![h] = Idle]
    /\ UNCHANGED <<relayVars, now, txVars, gateVars, forwards, historyVars>>

\* With no SMF to relay to the report is rejected, holding no claim.
ReadSmfAddr(h) ==
    /\ handlers[h].pc = "smf"
    /\ handlers' = [handlers EXCEPT ![h].pc = IF smfKnown THEN "claim" ELSE "answer"]
    /\ UNCHANGED <<relayVars, now, txVars, gateVars, forwards, historyVars>>

\* The counter comes round, but not while an exchange it numbered is in progress:
\* that takes eight million others.
NotInProgress(s) ==
    /\ \A h \in Handlers : handlers[h].relaySeq # s
    /\ \A id \in DOMAIN txs \ forwards : Txs!IsRequest(id) => txs[id].seq # s

ClaimFresh(h, s) ==
    LET handler == handlers[h]
    IN  /\ handler.pc = "claim"
        /\ NotInProgress(s)
        /\ Relays!ClaimFresh(handler.peer, handler.upfSeq, now, handler.authorisedUnder, s)
        /\ handlers' = [handlers EXCEPT ![h].pc = "send", ![h].relaySeq = s]
        /\ claimEpoch' = [claimEpoch EXCEPT ![s] = handler.epoch]
        /\ recounted' = IF handler.forgot = Forgotten(handler.peer.host)
                        THEN recounted \ {s} ELSE recounted \cup {s}
        /\ cutShort' = cutShort \ {s}
        /\ UNCHANGED <<txVars, gateVars, forwards, forwarded>>

\* ErrPeerReleased, or a copy of a report already being relayed: dropped.
ClaimNothing(h) ==
    LET handler == handlers[h]
    IN  /\ handler.pc = "claim"
        /\ \/ Relays!ClaimReleased(handler.peer, handler.authorisedUnder)
           \/ Relays!ClaimRetransmission(handler.peer, handler.upfSeq, now, handler.authorisedUnder)
        /\ handlers' = [handlers EXCEPT ![h] = Idle]
        /\ UNCHANGED <<txVars, gateVars, forwards, historyVars>>

\* ErrRelaySequenceExhausted: rejected, holding no claim.
ClaimExhausted(h) ==
    LET handler == handlers[h]
    IN  /\ handler.pc = "claim"
        /\ Relays!ClaimExhausted(handler.peer, handler.upfSeq, now, handler.authorisedUnder)
        /\ handlers' = [handlers EXCEPT ![h].pc = "answer"]
        /\ UNCHANGED <<txVars, gateVars, forwards, historyVars>>

\* The relay is registered and on its way; the goroutine is done with it.
SendRelay(h, id) ==
    /\ handlers[h].pc = "send"
    /\ Txs!PutTransaction(Self, handlers[h].relaySeq, id)
    /\ handlers' = [handlers EXCEPT ![h] = Idle]
    /\ UNCHANGED <<relayVars, now, gateVars, forwards, historyVars>>

\* The SMF has a request in flight under the number.
SendDuplicate(h) ==
    /\ handlers[h].pc = "send"
    /\ Txs!PutDuplicate(Self, handlers[h].relaySeq)
    /\ handlers' = [handlers EXCEPT ![h].pc = "renumber"]
    /\ UNCHANGED <<relayVars, now, gateVars, forwards, historyVars>>

\* Any other send error: the report is refused.
SendFails(h) ==
    /\ handlers[h].pc = "send"
    /\ handlers' = [handlers EXCEPT ![h].pc = "answer"]
    /\ UNCHANGED <<relayVars, now, txVars, gateVars, forwards, historyVars>>

\* The next number is tried, or the report is refused under it after the last
\* attempt.
RenumberRelay(h, s) ==
    LET handler == handlers[h]
        tried   == handler.attempts + 1
    IN  /\ handler.pc = "renumber"
        /\ NotInProgress(s)
        /\ Relays!Renumber(handler.relaySeq, s)
        /\ handlers' = [handlers EXCEPT ![h].relaySeq = s, ![h].attempts = tried,
             ![h].pc = IF tried < RelaySendAttempts THEN "send" ELSE "answer"]
        /\ claimEpoch' = [claimEpoch EXCEPT ![s] = claimEpoch[handler.relaySeq]]
        /\ recounted' = IF handler.relaySeq \in recounted
                        THEN recounted \cup {s} ELSE recounted \ {s}
        /\ cutShort' = cutShort \ {s}
        /\ UNCHANGED <<txVars, gateVars, forwards, forwarded>>

\* The claim went with its peer: dropped.
RenumberNotHeld(h) ==
    /\ handlers[h].pc = "renumber"
    /\ Relays!RenumberNotHeld(handlers[h].relaySeq)
    /\ handlers' = [handlers EXCEPT ![h] = Idle]
    /\ UNCHANGED <<txVars, gateVars, forwards, historyVars>>

\* Mutant: the report is dropped and its claim left behind.
RenumberExhaustedSilently(h) ==
    /\ handlers[h].pc = "renumber"
    /\ Relays!RenumberExhausted(handlers[h].relaySeq)
    /\ handlers' = [handlers EXCEPT ![h] = Idle]
    /\ UNCHANGED <<txVars, gateVars, forwards, historyVars>>

RenumberExhausted(h) ==
    /\ handlers[h].pc = "renumber"
    /\ Relays!RenumberExhausted(handlers[h].relaySeq)
    /\ handlers' = [handlers EXCEPT ![h].pc = "answer"]
    /\ UNCHANGED <<txVars, gateVars, forwards, historyVars>>

-----------------------------------------------------------------------------
(* The paths that end the exchange: HandlePfcpSessionReportResponse and    *)
(* the ErrHandler of the relay, then refuseAndRelease.                     *)

\* Mutant: the relay is sent without an ErrHandler.
GiveUpSilently(h, id) ==
    /\ handlers[h].pc = "idle"
    /\ Txs!ErrHandler(id)
    /\ Txs!IsRequest(id)
    /\ id \notin forwards
    /\ UNCHANGED <<relayVars, now, gateVars, handlers, forwards, historyVars>>

\* A relay that was not answered calls its ErrHandler in its own goroutine.
GiveUp(h, id) ==
    /\ handlers[h].pc = "idle"
    /\ Txs!ErrHandler(id)
    /\ Txs!IsRequest(id)
    /\ id \notin forwards
    /\ handlers' = [handlers EXCEPT ![h] = [Idle EXCEPT !.pc = "take", !.relaySeq = txs[id].seq]]
    /\ UNCHANGED <<relayVars, now, gateVars, forwards, historyVars>>

TakeRelay(h) ==
    LET s == handlers[h].relaySeq
    IN  /\ handlers[h].pc = "take"
        /\ Relays!Take(s)
        /\ handlers' = [handlers EXCEPT ![h].pc = "answer", ![h].peer = reportRelays[s].upfAddr,
             ![h].upfSeq = reportRelays[s].upfSeq, ![h].epoch = claimEpoch[s]]
        /\ UNCHANGED <<txVars, gateVars, forwards, historyVars>>

\* Mutant: a path that claimed nothing forgets the relay all the same.
ForgetUntaken(h) ==
    /\ handlers[h].pc = "take"
    /\ ~Relays!Takeable(handlers[h].relaySeq)
    /\ Relays!ForgetReportRelay(handlers[h].relaySeq)
    /\ handlers' = [handlers EXCEPT ![h] = Idle]
    /\ UNCHANGED <<txVars, gateVars, forwards, historyVars>>

\* The other path has it, or it is gone.
TakeNothing(h) ==
    /\ handlers[h].pc = "take"
    /\ Relays!TakeNothing(handlers[h].relaySeq)
    /\ handlers' = [handlers EXCEPT ![h] = Idle]
    /\ UNCHANGED <<txVars, gateVars, forwards, historyVars>>

\* The answer, or the refusal, is registered for the user plane under its own
\* number -- or cannot be, and the claim ends all the same.
Answered(h) == IF handlers[h].relaySeq = NoSeq THEN Idle ELSE [handlers[h] EXCEPT !.pc = "forget"]

SendAnswer(h, id) ==
    /\ handlers[h].pc = "answer"
    /\ Txs!PutTransaction(handlers[h].peer, handlers[h].upfSeq, id)
    /\ handlers' = [handlers EXCEPT ![h] = Answered(h)]
    /\ UNCHANGED <<relayVars, now, gateVars, forwards, historyVars>>

AnswerFails(h) ==
    /\ handlers[h].pc = "answer"
    /\ handlers' = [handlers EXCEPT ![h] = Answered(h)]
    /\ UNCHANGED <<relayVars, now, txVars, gateVars, forwards, historyVars>>

Forget(h) ==
    /\ handlers[h].pc = "forget"
    /\ Relays!ForgetReportRelay(handlers[h].relaySeq)
    /\ handlers' = [handlers EXCEPT ![h] = Idle]
    /\ UNCHANGED <<txVars, gateVars, forwards, historyVars>>

-----------------------------------------------------------------------------
(* Everything else that touches the same tables.                           *)

\* A message of the SMF's gives an address of its own, unless what it gives is not
\* one.
SetSmfAddr ==
    /\ ~smfKnown
    /\ smfKnown' = TRUE
    /\ UNCHANGED <<relayVars, now, txVars, authorised, releases, releasing, handlers, forwards,
                   historyVars>>

\* It names a user plane (UpfAddrs shows that RecordUpfAddr changes the gate in
\* steps like these).
Authorise(host) ==
    /\ releasing = {}
    /\ host \notin authorised
    /\ Gate!Change({}, {host})
    /\ UNCHANGED <<relayVars, now, txVars, releasing, smfKnown, handlers, forwards, historyVars>>

\* forgetUpfAddrLocked drops the claims, then calls the hook, all of it under
\* upfAddrMutex.
Release(host) ==
    /\ releasing = {}
    /\ releases[host] < MaxReleases
    /\ Gate!Change({host}, {})
    /\ Relays!ForgetRelaysForHost(host)
    /\ releasing' = {host}
    /\ UNCHANGED <<txVars, smfKnown, handlers, forwards, historyVars>>

ForgetConsumer(host) ==
    /\ host \in releasing
    /\ Txs!DeleteByHost(host)
    /\ releasing' = {}
    /\ UNCHANGED <<relayVars, now, authorised, releases, smfKnown, handlers, forwards, historyVars>>

\* The SMF's counter has reached the adapter's half of the numbers.
Forward(s, id) ==
    /\ smfKnown
    /\ Txs!PutTransaction(Self, s, id)
    /\ forwards' = forwards \cup {id}
    /\ UNCHANGED <<relayVars, now, gateVars, handlers, historyVars>>

\* The user plane answers it in time, or (LateResponses) when the number has
\* gone to another exchange.
ForwardAnswered(s) ==
    /\ Txs!AcceptResponse(s)
    /\ LET id == consumerTable[Self][s]
       IN  /\ (id \in forwards /\ Written(id)) \/ s \in forwarded
           /\ cutShort' = IF id \notin forwards /\ txs[id].event = Txs!NoEvent
                          THEN cutShort \cup {s} ELSE cutShort
    /\ UNCHANGED <<relayVars, now, gateVars, handlers, forwards, forwarded, claimEpoch, recounted>>

TxStep(id) ==
    /\ \/ Txs!Write(id)
       \/ Txs!WriteFails(id)
       \/ Txs!TakeResponse(id)
       \/ Txs!TakeResend(id)
       \/ Txs!RequestTimeout(id)
       \/ Txs!ResponseTimeout(id)
       \/ Txs!removeTransaction(id)
       \/ Txs!ErrHandler(id) /\ (Txs!IsRequest(id) => id \in forwards)
    /\ forwards' = forwards \cap DOMAIN txs'
    /\ forwarded' = IF LateResponses /\ id \in forwards /\ txs[id].phase = "wait"
                    THEN forwarded \cup {txs[id].seq}
                    ELSE forwarded
    /\ UNCHANGED <<relayVars, now, gateVars, handlers, cutShort, claimEpoch, recounted>>

\* A tick is a relay lifetime.  A handler's work and a request's three tries
\* (nine seconds) are shorter, so none is in progress across one.
Tick ==
    /\ \A h \in Handlers : handlers[h].pc = "idle"
    /\ releasing = {}
    /\ \A id \in DOMAIN txs : ~Txs!IsRequest(id)
    /\ Relays!Tick
    /\ UNCHANGED <<txVars, gateVars, handlers, forwards, historyVars>>

HandlerStep(h) ==
    \/ ReadGeneration(h)
    \/ PassGate(h)
    \/ RefuseAtGate(h)
    \/ ReadSmfAddr(h)
    \/ \E s \in RelaySeqs : ClaimFresh(h, s)
    \/ ClaimNothing(h)
    \/ ClaimExhausted(h)
    \/ \E id \in TxIds : SendRelay(h, id)
    \/ SendDuplicate(h)
    \/ SendFails(h)
    \/ \E s \in RelaySeqs : RenumberRelay(h, s)
    \/ RenumberNotHeld(h)
    \/ RenumberExhausted(h)
    \/ TakeRelay(h)
    \/ TakeNothing(h)
    \/ \E id \in TxIds : SendAnswer(h, id)
    \/ AnswerFails(h)
    \/ Forget(h)

Next ==
    \/ \E h \in Handlers, peer \in Peer, upfSeq \in UpfSeqs : ReadReport(h, peer, upfSeq)
    \/ \E peer \in Peer, upfSeq \in UpfSeqs : AbsorbReport(peer, upfSeq)
    \/ \E h \in Handlers, s \in RelaySeqs : ReadAnswer(h, s)
    \/ \E h \in Handlers, id \in TxIds : GiveUp(h, id)
    \/ \E h \in Handlers : HandlerStep(h)
    \/ SetSmfAddr
    \/ \E host \in Hosts : Authorise(host) \/ Release(host) \/ ForgetConsumer(host)
    \/ \E s \in RelaySeqs, id \in TxIds : Forward(s, id)
    \/ \E s \in RelaySeqs : ForwardAnswered(s)
    \/ \E id \in TxIds : TxStep(id)
    \/ Tick

Spec == Init /\ [][Next]_vars

-----------------------------------------------------------------------------
(* Properties.                                                             *)

\* Types of the tables and of the goroutines: no report tries more numbers than
\* relaySendAttempts, and no transaction is written more than NumOfResend times.
TypeOK ==
    /\ Relays!TypeOK
    /\ Txs!TypeOK
    /\ authorised \subseteq Hosts
    /\ releases \in [Hosts -> Nat]
    /\ handlers \in [Handlers -> Handler]
    /\ forwards \subseteq DOMAIN txs

Current(host, epoch) == host \in authorised /\ epoch = releases[host]

\* A claim never outlives the authorisation it was made under: every claim is for
\* an address that is authorised and has not been released since the gate let the
\* report through.  Otherwise the next occupant's report is taken for a copy of
\* the last one's and answered with its answer.  The one exception is a claim whose
\* handler quoted a release count that was swept, and counted up again, before the
\* claim was made (sweepRelaysLocked).
ClaimsAreCurrent ==
    \A s \in DOMAIN reportRelays \ recounted :
        Current(reportRelays[s].upfAddr.host, claimEpoch[s])

\* What RelayReportSequence says its check of the release count prevents, without
\* the exception: "a claim for a peer the adapter no longer relays for".
NoClaimForReleasedPeer ==
    \A s \in DOMAIN reportRelays : Current(reportRelays[s].upfAddr.host, claimEpoch[s])

\* From the claim to the end of the exchange a report is always recognisable: a
\* goroutine that is relaying or answering it finds its claim still in the table
\* -- the other path, a retry under another number and an answer that could not
\* be sent included -- unless the peer has been released meanwhile.
ClaimOutlivesExchange ==
    \A h \in Handlers :
        LET handler == handlers[h]
        IN  /\ handler.pc \in {"send", "renumber", "answer", "forget"}
            /\ handler.relaySeq # NoSeq
            /\ Current(handler.peer.host, handler.epoch)
            => /\ handler.relaySeq \in DOMAIN reportRelays
               /\ reportRelays[handler.relaySeq].upfAddr = handler.peer
               /\ reportRelays[handler.relaySeq].upfSeq = handler.upfSeq

\* Only one path ends an exchange: the SMF's answer, the give-up path and the
\* refusal of a relay that could not be sent never answer the same claim.
OneAnswerer ==
    \A h1, h2 \in Handlers :
        /\ h1 # h2
        /\ handlers[h1].pc \in {"answer", "forget"}
        /\ handlers[h2].pc \in {"answer", "forget"}
        /\ handlers[h1].relaySeq # NoSeq
        => handlers[h1].relaySeq # handlers[h2].relaySeq

\* Whatever is claimed is on its way to being answered: a goroutine is working on
\* it, or its relay is in flight and will be answered or given up.  A claim with
\* neither absorbs every copy of the report until it ages, and none is answered.
\* The one exception is a number whose relay a late response of a user plane has
\* reached: responses are matched by their number alone (findTransaction), and that
\* one ends the relay without an answer to the report.
NoStrandedClaim ==
    \A s \in DOMAIN reportRelays \ cutShort :
        \/ \E h \in Handlers : handlers[h].pc # "idle" /\ handlers[h].relaySeq = s
        \/ \E id \in DOMAIN txs :
             /\ Txs!IsRequest(id) /\ txs[id].seq = s /\ id \notin forwards
             /\ txs[id].phase = "remove" => txs[id].failed

=============================================================================
