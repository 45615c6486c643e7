------------------------ MODULE SessionReportProofs ------------------------
(***************************************************************************)
(* What holds of a session report's way through the adapter for any number *)
(* of user planes, reports, goroutines, transactions and relay numbers.    *)
(***************************************************************************)
EXTENDS SessionReport, TLAPS

\* The proofs about the two tables, for the tables of this specification.
RelayProofs == INSTANCE ReportRelaysProofs
TxProofs    == INSTANCE TransactionsProofs
                 WITH Seqs <- UpfSeqs \cup RelaySequenceFloor..RelaySequenceCeil

-----------------------------------------------------------------------------
(* The tables.                                                             *)

\* The operations of the relay table are those its proofs are about.
LEMMA SameRelayOperations ==
    /\ RelayProofs!RelaySeqs = RelaySeqs /\ RelayProofs!Peer = Peer
    /\ RelayProofs!TypeOK <=> Relays!TypeOK
    /\ \A peer, q, t, g, s :
         Relays!ClaimFresh(peer, q, t, g, s) => RelayProofs!ClaimFresh(peer, q, t, g, s)
    /\ \A peer, g : Relays!ClaimReleased(peer, g) => RelayProofs!ClaimReleased(peer, g)
    /\ \A peer, q, t, g :
         /\ Relays!ClaimRetransmission(peer, q, t, g) =>
              RelayProofs!ClaimRetransmission(peer, q, t, g)
         /\ Relays!ClaimExhausted(peer, q, t, g) => RelayProofs!ClaimExhausted(peer, q, t, g)
    /\ \A s, c : Relays!Renumber(s, c) => RelayProofs!Renumber(s, c)
    /\ \A s : Relays!Take(s) => RelayProofs!Take(s)
    /\ \A s : Relays!ForgetReportRelay(s) => RelayProofs!ForgetReportRelay(s)
    /\ \A host : Relays!ForgetRelaysForHost(host) => RelayProofs!ForgetRelaysForHost(host)
    /\ Relays!Tick => RelayProofs!Tick
<1> USE DEF Relays!RelayGeneration, RelayProofs!RelayGeneration, Relays!At, RelayProofs!At,
            Relays!NeverReleased, RelayProofs!NeverReleased, Relays!Store, RelayProofs!Store,
            Relays!Without, RelayProofs!Without, Relays!IndexWithout, RelayProofs!IndexWithout,
            Relays!RelaySeqs, RelayProofs!RelaySeqs, Relays!vars, RelayProofs!vars,
            Relays!relayVars, RelayProofs!relayVars
<1> USE DEF Relays!SweptRelays, RelayProofs!SweptRelays, Relays!SweepDue, RelayProofs!SweepDue,
            Relays!Outlived, RelayProofs!Outlived, Relays!RelayFrom, RelayProofs!RelayFrom,
            Relays!SweptGenerations, RelayProofs!SweptGenerations,
            Relays!sweepRelaysLocked, RelayProofs!sweepRelaysLocked,
            Relays!dropRelaysLocked, RelayProofs!dropRelaysLocked,
            Relays!recordRelayLocked, RelayProofs!recordRelayLocked,
            Relays!NextFreeRelaySequence, RelayProofs!NextFreeRelaySequence,
            Relays!SearchDistance, RelayProofs!SearchDistance,
            Relays!Successor, RelayProofs!Successor
<1>1. RelayProofs!RelaySeqs = RelaySeqs /\ RelayProofs!Peer = Peer
  BY DEF RelaySeqs, RelayProofs!Peer, Peer
<1>2. RelayProofs!TypeOK <=> Relays!TypeOK
  BY DEF RelayProofs!TypeOK, Relays!TypeOK, Relays!Relay, RelayProofs!Relay, Relays!Peer,
         RelayProofs!Peer, Relays!Generation, RelayProofs!Generation
<1>3. ASSUME NEW peer, NEW q, NEW t, NEW g, NEW s
      PROVE  Relays!ClaimFresh(peer, q, t, g, s) => RelayProofs!ClaimFresh(peer, q, t, g, s)
  BY DEF Relays!ClaimFresh, RelayProofs!ClaimFresh
<1>4. ASSUME NEW peer, NEW g
      PROVE  Relays!ClaimReleased(peer, g) => RelayProofs!ClaimReleased(peer, g)
  BY DEF Relays!ClaimReleased, RelayProofs!ClaimReleased
<1>5. ASSUME NEW peer, NEW q, NEW t, NEW g
      PROVE  Relays!ClaimRetransmission(peer, q, t, g) =>
               RelayProofs!ClaimRetransmission(peer, q, t, g)
  BY DEF Relays!ClaimRetransmission, RelayProofs!ClaimRetransmission
<1>6. ASSUME NEW peer, NEW q, NEW t, NEW g
      PROVE  Relays!ClaimExhausted(peer, q, t, g) => RelayProofs!ClaimExhausted(peer, q, t, g)
  BY DEF Relays!ClaimExhausted, RelayProofs!ClaimExhausted
<1>7. ASSUME NEW s, NEW c PROVE Relays!Renumber(s, c) => RelayProofs!Renumber(s, c)
  BY DEF Relays!Renumber, RelayProofs!Renumber
<1>8. ASSUME NEW s PROVE Relays!Take(s) => RelayProofs!Take(s)
  BY DEF Relays!Take, RelayProofs!Take, Relays!Takeable, RelayProofs!Takeable
<1>9. ASSUME NEW s PROVE Relays!ForgetReportRelay(s) => RelayProofs!ForgetReportRelay(s)
  BY DEF Relays!ForgetReportRelay, RelayProofs!ForgetReportRelay
<1>10. ASSUME NEW host
       PROVE  Relays!ForgetRelaysForHost(host) => RelayProofs!ForgetRelaysForHost(host)
  BY DEF Relays!ForgetRelaysForHost, RelayProofs!ForgetRelaysForHost
<1>11. Relays!Tick => RelayProofs!Tick
  BY DEF Relays!Tick, RelayProofs!Tick
<1> QED
  BY <1>1, <1>2, <1>3, <1>4, <1>5, <1>6, <1>7, <1>8, <1>9, <1>10, <1>11

\* So are those of the transaction table.
LEMMA SameTxOperations ==
    /\ TxProofs!TypeOK <=> Txs!TypeOK
    /\ \A c, s, id : Txs!PutTransaction(c, s, id) => TxProofs!PutTransaction(c, s, id)
    /\ \A host : Txs!DeleteByHost(host) => TxProofs!DeleteByHost(host)
    /\ \A id, event : Txs!PostEvent(id, event) => TxProofs!PostEvent(id, event)
    /\ \A id :
         /\ Txs!Write(id) => TxProofs!Write(id)
         /\ Txs!WriteFails(id) => TxProofs!WriteFails(id)
         /\ Txs!TakeResponse(id) => TxProofs!TakeResponse(id)
         /\ Txs!TakeResend(id) => TxProofs!TakeResend(id)
         /\ Txs!RequestTimeout(id) => TxProofs!RequestTimeout(id)
         /\ Txs!ResponseTimeout(id) => TxProofs!ResponseTimeout(id)
         /\ Txs!removeTransaction(id) => TxProofs!removeTransaction(id)
         /\ Txs!ErrHandler(id) => TxProofs!ErrHandler(id)
<1> USE DEF Txs!At, TxProofs!At, Txs!Store, TxProofs!Store, Txs!Without, TxProofs!Without,
            Txs!EmptyMap, TxProofs!EmptyMap, Txs!TxTable, TxProofs!TxTable, Txs!Held, TxProofs!Held,
            Txs!IsRequest, TxProofs!IsRequest, Txs!NoEvent, TxProofs!NoEvent,
            Txs!ReceiveResendRequest, TxProofs!ReceiveResendRequest,
            Txs!ReceiveValidResponse, TxProofs!ReceiveValidResponse
<1>1. TxProofs!TypeOK <=> Txs!TypeOK
  BY DEF TxProofs!TypeOK, Txs!TypeOK, TxProofs!Transaction, Txs!Transaction, TxProofs!Phases,
         Txs!Phases, TxProofs!Consumers, Txs!Consumers, TxProofs!Peer, Txs!Peer
<1>2. ASSUME NEW c, NEW s, NEW id
      PROVE  Txs!PutTransaction(c, s, id) => TxProofs!PutTransaction(c, s, id)
  BY DEF Txs!PutTransaction, TxProofs!PutTransaction, Txs!NewTransaction, TxProofs!NewTransaction
<1>3. ASSUME NEW host PROVE Txs!DeleteByHost(host) => TxProofs!DeleteByHost(host)
  BY DEF Txs!DeleteByHost, TxProofs!DeleteByHost
<1>4. ASSUME NEW id, NEW event PROVE Txs!PostEvent(id, event) => TxProofs!PostEvent(id, event)
  BY DEF Txs!PostEvent, TxProofs!PostEvent, Txs!Posted, TxProofs!Posted
<1>5. ASSUME NEW id
      PROVE  /\ Txs!Write(id) => TxProofs!Write(id)
             /\ Txs!WriteFails(id) => TxProofs!WriteFails(id)
             /\ Txs!TakeResponse(id) => TxProofs!TakeResponse(id)
             /\ Txs!TakeResend(id) => TxProofs!TakeResend(id)
  BY DEF Txs!Write, TxProofs!Write, Txs!WriteFails, TxProofs!WriteFails, Txs!TakeResponse,
         TxProofs!TakeResponse, Txs!TakeResend, TxProofs!TakeResend
<1>6. ASSUME NEW id
      PROVE  /\ Txs!RequestTimeout(id) => TxProofs!RequestTimeout(id)
             /\ Txs!ResponseTimeout(id) => TxProofs!ResponseTimeout(id)
             /\ Txs!removeTransaction(id) => TxProofs!removeTransaction(id)
             /\ Txs!ErrHandler(id) => TxProofs!ErrHandler(id)
  BY DEF Txs!RequestTimeout, TxProofs!RequestTimeout, Txs!ResponseTimeout,
         TxProofs!ResponseTimeout, Txs!removeTransaction, TxProofs!removeTransaction,
         Txs!DeleteIf, TxProofs!DeleteIf, Txs!ErrHandler, TxProofs!ErrHandler
<1> QED
  BY <1>1, <1>2, <1>3, <1>4, <1>5, <1>6

-----------------------------------------------------------------------------
(* The inductive invariant.                                                *)

\* The relays in flight: the requests that carry a number of the adapter's.
Relaying == {id \in DOMAIN txs \ forwards : Txs!IsRequest(id)}

\* The numbers of the relays in flight, and of those a response has reached.
Flying == {txs[id].seq : id \in Relaying}

Delivered == {txs[id].seq : id \in {i \in Relaying :
                \/ txs[i].event = Txs!ReceiveValidResponse
                \/ txs[i].phase = "remove" /\ ~txs[i].failed}}

\* The numbers goroutines hold.
Attended == {handlers[h].relaySeq : h \in Handlers}

Sending(handler) == handler.pc \in {"send", "renumber"}

Answering(handler) == handler.pc \in {"answer", "forget"} /\ handler.relaySeq # NoSeq

Unanswered(s) == s \in DOMAIN reportRelays /\ ~reportRelays[s].answered

\* A goroutine holds a number from its claim on, or from its answer's arrival.
Numbered(handler) ==
    /\ handler.pc \in {"idle", "generation", "gate", "smf", "claim"} =>
         handler.relaySeq = NoSeq /\ handler.attempts = 0
    /\ handler.pc \in {"send", "renumber", "take", "forget"} => handler.relaySeq # NoSeq
    /\ Sending(handler) => handler.attempts < RelaySendAttempts

\* Requests are numbered from the adapter's half, and none is asked to be resent.
RequestsNumbered ==
    \A id \in DOMAIN txs : Txs!IsRequest(id) =>
        txs[id].seq \in RelaySeqs /\ txs[id].event # Txs!ReceiveResendRequest

HistoryTyped == claimEpoch \in [RelaySeqs -> Nat] /\ recounted \subseteq RelaySeqs

Typed ==
    /\ TypeOK
    /\ HistoryTyped
    /\ RequestsNumbered
    /\ \A h \in Handlers : Numbered(handlers[h])

\* Until its relay is sent, a report is nobody's but its handler's.
SenderAlone ==
    \A h \in Handlers : Sending(handlers[h]) =>
        /\ handlers[h].relaySeq \notin Flying
        /\ \A other \in Handlers \ {h} : handlers[other].relaySeq # handlers[h].relaySeq
        /\ handlers[h].relaySeq \in DOMAIN reportRelays => Unanswered(handlers[h].relaySeq)

\* Whoever answers a report has marked its claim, unless nobody else can.
AnswererAlone ==
    \A h \in Handlers : Answering(handlers[h]) =>
        /\ \A other \in Handlers \ {h} :
             handlers[other].relaySeq = handlers[h].relaySeq =>
               handlers[other].pc = "take" /\ ~Unanswered(handlers[h].relaySeq)
        /\ handlers[h].relaySeq \in Flying => ~Unanswered(handlers[h].relaySeq)

\* A mark is there for a goroutine that is answering.
AnsweredHasAnswerer ==
    \A s \in DOMAIN reportRelays :
        reportRelays[s].answered =>
          \E h \in Handlers : Answering(handlers[h]) /\ handlers[h].relaySeq = s

\* No exchange outlives its claim's lifetime.
InProgressIsFresh ==
    \A s \in DOMAIN reportRelays : s \in Flying \cup Attended => reportRelays[s].recorded = now

\* A response comes with a goroutine that takes the claim it answers.
ResponseHasTaker == Delivered \cap (DOMAIN reportRelays \ cutShort) \subseteq Attended

\* A claim is in the hands of a goroutine, or its relay is in flight.
ClaimsInProgress == DOMAIN reportRelays \ cutShort \subseteq Flying \cup Attended

Exchanges ==
    /\ SenderAlone
    /\ AnswererAlone
    /\ AnsweredHasAnswerer
    /\ InProgressIsFresh
    /\ ResponseHasTaker
    /\ ClaimsInProgress

\* An occupancy of the address up to the present one, and that one only while it lasts.
Admitted(host, epoch) ==
    epoch <= releases[host] /\ (epoch = releases[host] => host \in authorised)

\* What a goroutine knows of its peer's occupancy: the releases it has read of are
\* no more than there were, when it read them and when the gate let it through.
HandlerAdmitted(handler) ==
    LET host == handler.peer.host
        read == handler.authorisedUnder + handler.forgot
    IN  /\ handler.pc \in {"gate", "smf", "claim"} => read <= releases[host]
        /\ handler.pc \in {"smf", "claim"} => read <= handler.epoch
        /\ handler.pc \in {"smf", "claim", "send", "renumber", "answer", "forget"} =>
             Admitted(host, handler.epoch)

\* A count never runs ahead of the releases it counts.
CountsLag == \A host \in Hosts : Relays!RelayGeneration(host) <= releases[host]

ClaimsAdmitted ==
    \A s \in DOMAIN reportRelays : Admitted(reportRelays[s].upfAddr.host, claimEpoch[s])

Occupancies ==
    /\ CountsLag
    /\ \A h \in Handlers : HandlerAdmitted(handlers[h])
    /\ ClaimsAdmitted
    /\ ClaimsAreCurrent
    /\ ClaimOutlivesExchange

\* The tables' own invariants, the types, who may do what to an exchange, and whose
\* authorisation it stands on.
SessInv ==
    /\ RelayProofs!RelayInv
    /\ TxProofs!TxInv
    /\ Typed
    /\ Exchanges
    /\ Occupancies

-----------------------------------------------------------------------------
(* What the operations on transactions do to the relays in flight.         *)

\* What the transactions of this specification inherit from the table's proofs.
LEMMA TxFacts ==
    ASSUME TxProofs!TxInv
    PROVE  /\ Txs!TypeOK
           /\ \A id \in DOMAIN txs : id \in TxIds /\ txs[id] \in Txs!Transaction
           /\ \A c, s : Txs!Held(c, s) =>
                /\ Txs!TxTable(c)[s] \in DOMAIN txs
                /\ txs[Txs!TxTable(c)[s]].consumer = c
                /\ txs[Txs!TxTable(c)[s]].seq = s
<1>1. Txs!TypeOK
  BY SameTxOperations DEF TxProofs!TxInv
<1>2. ASSUME NEW c, NEW s, Txs!Held(c, s)
      PROVE  /\ Txs!TxTable(c)[s] \in DOMAIN txs
             /\ txs[Txs!TxTable(c)[s]].consumer = c
             /\ txs[Txs!TxTable(c)[s]].seq = s
  <2>1. c \in DOMAIN consumerTable /\ s \in DOMAIN consumerTable[c]
        /\ Txs!TxTable(c)[s] = consumerTable[c][s]
    BY <1>2 DEF Txs!Held, Txs!TxTable, Txs!At, Txs!EmptyMap
  <2>2. QED
    BY <2>1 DEF TxProofs!TxInv, TxProofs!HeldNumbersAreRunning
<1>3. QED
  BY <1>1, <1>2 DEF Txs!TypeOK

\* A relay in flight has its number in Flying, and in Delivered once answered.
LEMMA FlyingMembers ==
    /\ \A s : s \in Flying <=>
         \E id \in DOMAIN txs \ forwards : txs[id].consumer = Self /\ txs[id].seq = s
    /\ \A s : s \in Delivered <=>
         \E id \in DOMAIN txs \ forwards :
           /\ txs[id].consumer = Self /\ txs[id].seq = s
           /\ txs[id].event = "valid" \/ (txs[id].phase = "remove" /\ ~txs[id].failed)
BY DEF Flying, Delivered, Relaying, Txs!IsRequest, Txs!ReceiveValidResponse

\* The same in the next state.
LEMMA FlyingMembersNext ==
    /\ \A s : s \in Flying' <=>
         \E id \in DOMAIN txs' \ forwards' : txs'[id].consumer = Self /\ txs'[id].seq = s
    /\ \A s : s \in Delivered' <=>
         \E id \in DOMAIN txs' \ forwards' :
           /\ txs'[id].consumer = Self /\ txs'[id].seq = s
           /\ txs'[id].event = "valid" \/ (txs'[id].phase = "remove" /\ ~txs'[id].failed)
BY DEF Flying, Delivered, Relaying, Txs!IsRequest, Txs!ReceiveValidResponse

\* What is said of requests in the two states.
LEMMA RequestMembers ==
    /\ RequestsNumbered <=>
         \A id \in DOMAIN txs : txs[id].consumer = Self =>
           txs[id].seq \in RelaySeqs /\ txs[id].event # "resend"
    /\ RequestsNumbered' <=>
         \A id \in DOMAIN txs' : txs'[id].consumer = Self =>
           txs'[id].seq \in RelaySeqs /\ txs'[id].event # "resend"
BY DEF RequestsNumbered, Txs!IsRequest, Txs!ReceiveResendRequest

\* A transaction that keeps its name and number keeps the relays in flight.
LEMMA TxChanges ==
    ASSUME RequestsNumbered, forwards \subseteq DOMAIN txs,
           NEW id \in DOMAIN txs, NEW tx,
           txs' = [txs EXCEPT ![id] = tx], forwards' = forwards,
           tx.consumer = txs[id].consumer, tx.seq = txs[id].seq,
           tx.consumer = Self => tx.event # "resend"
    PROVE  /\ RequestsNumbered' /\ forwards' \subseteq DOMAIN txs'
           /\ Flying' = Flying
           /\ Delivered \cup Delivered' \subseteq Delivered \cup (Flying \cap {txs[id].seq})
           /\ \/ tx.consumer # Self
              \/ id \in forwards
              \/ /\ tx.event = "valid" => txs[id].event = "valid"
                 /\ tx.phase = "remove" /\ ~tx.failed =>
                      txs[id].event = "valid" \/ (txs[id].phase = "remove" /\ ~txs[id].failed)
              => Delivered' \subseteq Delivered
<1>1. /\ DOMAIN txs' = DOMAIN txs /\ txs'[id] = tx
      /\ \A other \in DOMAIN txs \ {id} : txs'[other] = txs[other]
  OBVIOUS
<1>2. RequestsNumbered' /\ forwards' \subseteq DOMAIN txs'
  BY <1>1, RequestMembers
<1>3. ASSUME NEW s PROVE s \in Flying' <=> s \in Flying
  BY <1>1, FlyingMembers, FlyingMembersNext
<1>4. Delivered' \subseteq Delivered \cup (Flying \cap {txs[id].seq})
  <2> SUFFICES ASSUME NEW s \in Delivered' PROVE s \in Delivered \cup (Flying \cap {txs[id].seq})
    OBVIOUS
  <2> QED
    BY <1>1, FlyingMembers, FlyingMembersNext
<1>5. ASSUME \/ tx.consumer # Self
             \/ id \in forwards
             \/ /\ tx.event = "valid" => txs[id].event = "valid"
                /\ tx.phase = "remove" /\ ~tx.failed =>
                     txs[id].event = "valid" \/ (txs[id].phase = "remove" /\ ~txs[id].failed),
             NEW s \in Delivered'
      PROVE  s \in Delivered
  BY <1>1, <1>5, FlyingMembers, FlyingMembersNext
<1>6. QED
  BY <1>2, <1>3, <1>4, <1>5

\* A transaction that ends takes its own number out of flight, if any.
LEMMA TxEnds ==
    ASSUME RequestsNumbered, forwards \subseteq DOMAIN txs, NEW id \in DOMAIN txs,
           txs' = Txs!Without(txs, {id}), forwards' = forwards \cap DOMAIN txs'
    PROVE  /\ RequestsNumbered' /\ forwards' \subseteq DOMAIN txs'
           /\ Flying' \subseteq Flying /\ Delivered' \subseteq Delivered
           /\ Flying \subseteq Flying' \cup {txs[id].seq}
           /\ txs[id].consumer # Self \/ id \in forwards => Flying' = Flying
<1>1. /\ DOMAIN txs' = DOMAIN txs \ {id}
      /\ \A other \in DOMAIN txs' : txs'[other] = txs[other]
  BY DEF Txs!Without
<1>2. RequestsNumbered' /\ forwards' \subseteq DOMAIN txs'
  BY <1>1, RequestMembers
<1>3. /\ DOMAIN txs' \ forwards' = (DOMAIN txs \ forwards) \ {id}
      /\ \A other \in (DOMAIN txs \ forwards) \ {id} : txs'[other] = txs[other]
  BY <1>1
<1>4. ASSUME NEW s \in Flying' PROVE s \in Flying
  <2>1. PICK other \in DOMAIN txs' \ forwards' : txs'[other].consumer = Self /\ txs'[other].seq = s
    BY FlyingMembersNext, Zenon
  <2>2. other \in DOMAIN txs \ forwards /\ txs[other] = txs'[other]
    BY <1>3
  <2>3. QED
    BY <2>1, <2>2, FlyingMembers, Zenon
<1>5. ASSUME NEW s \in Delivered' PROVE s \in Delivered
  <2>1. PICK other \in Relaying' :
          /\ txs'[other].seq = s
          /\ txs'[other].event = Txs!ReceiveValidResponse
             \/ (txs'[other].phase = "remove" /\ ~txs'[other].failed)
    BY DEF Delivered
  <2>2. other \in Relaying /\ txs[other] = txs'[other]
    BY <1>3 DEF Relaying, Txs!IsRequest
  <2>3. QED
    BY <2>1, <2>2 DEF Delivered
<1>6. ASSUME NEW s \in Flying
      PROVE  /\ s \in Flying' \cup {txs[id].seq}
             /\ txs[id].consumer # Self \/ id \in forwards => s \in Flying'
  <2>1. PICK other \in DOMAIN txs \ forwards : txs[other].consumer = Self /\ txs[other].seq = s
    BY FlyingMembers, Zenon
  <2>2. CASE other = id
    BY <2>1, <2>2
  <2>3. CASE other # id
    <3>1. other \in DOMAIN txs' \ forwards' /\ txs'[other] = txs[other]
      BY <1>3, <2>3
    <3>2. QED
      BY <2>1, <3>1, FlyingMembersNext, Zenon
  <2>4. QED
    BY <2>2, <2>3
<1>7. QED
  BY <1>2, <1>4, <1>5, <1>6

\* A new transaction is in flight under its number if it carries a relay.
LEMMA TxBegins ==
    ASSUME TxProofs!TxInv, RequestsNumbered, forwards \subseteq DOMAIN txs,
           NEW c \in Txs!Consumers, NEW s \in UpfSeqs \cup RelaySeqs, NEW id \in TxIds,
           Txs!PutTransaction(c, s, id), c = Self => s \in RelaySeqs
    PROVE  /\ TxProofs!TxInv' /\ RequestsNumbered'
           /\ DOMAIN txs' = DOMAIN txs \cup {id} /\ id \notin DOMAIN txs
           /\ forwards' \in {forwards, forwards \cup {id}} => forwards' \subseteq DOMAIN txs'
           /\ forwards' = forwards /\ c # Self => Flying' = Flying /\ Delivered' = Delivered
           /\ forwards' = forwards \cup {id} => Flying' = Flying /\ Delivered' = Delivered
           /\ forwards' = forwards /\ c = Self =>
                Flying' = Flying \cup {s} /\ Delivered' = Delivered
<1>1. TxProofs!TxInv'
  <2>1. TxProofs!PutTransaction(c, s, id)
    BY SameTxOperations
  <2>2. c \in TxProofs!Consumers
    BY DEF Txs!Consumers, TxProofs!Consumers, Txs!Peer, TxProofs!Peer
  <2>3. QED
    BY <2>1, <2>2, TxProofs!PutKeepsInv, TablesAssumption
       DEF TxProofs!PutKeepsInv, TxProofs!ResendAssumption, TxProofs!SelfAssumption, RelaySeqs
<1>2. /\ id \notin DOMAIN txs /\ DOMAIN txs' = DOMAIN txs \cup {id}
      /\ txs'[id].consumer = c /\ txs'[id].seq = s /\ txs'[id].event = "none"
      /\ txs'[id].phase = "write"
      /\ \A other \in DOMAIN txs : txs'[other] = txs[other]
  BY DEF Txs!PutTransaction, Txs!Store, Txs!NewTransaction, Txs!NoEvent
<1>3. RequestsNumbered'
  BY <1>2, RequestMembers
<1>4. ASSUME NEW n, forwards' = forwards \/ forwards' = forwards \cup {id}
      PROVE  /\ n \in Flying' <=> n \in Flying \/ (forwards' = forwards /\ c = Self /\ n = s)
             /\ n \in Delivered' <=> n \in Delivered
  <2>1. n \in Flying' <=> n \in Flying \/ (forwards' = forwards /\ c = Self /\ n = s)
    BY <1>2, <1>4, FlyingMembers, FlyingMembersNext
  <2>2. n \in Delivered' <=> n \in Delivered
    BY <1>2, <1>4, FlyingMembers, FlyingMembersNext
  <2>3. QED
    BY <2>1, <2>2
<1>5. forwards' \in {forwards, forwards \cup {id}} => forwards' \subseteq DOMAIN txs'
  BY <1>2
<1>6. forwards' = forwards \cup {id} => forwards' # forwards
  BY <1>2
<1>7. QED
  BY <1>1, <1>2, <1>3, <1>4, <1>5, <1>6

\* The goroutine of a transaction takes no relay out of flight but one that a response
\* has reached.
LEMMA TxStepEffect ==
    ASSUME TxProofs!TxInv, RequestsNumbered, forwards \subseteq DOMAIN txs,
           NEW id \in TxIds, TxStep(id)
    PROVE  /\ TxProofs!TxInv' /\ RequestsNumbered' /\ forwards' \subseteq DOMAIN txs'
           /\ Flying' \subseteq Flying
           /\ Flying \subseteq Flying' \cup Delivered
           /\ Delivered' \subseteq Delivered
<1>1. \/ Txs!Write(id) \/ Txs!WriteFails(id) \/ Txs!TakeResponse(id) \/ Txs!TakeResend(id)
      \/ Txs!RequestTimeout(id) \/ Txs!ResponseTimeout(id)
      \/ Txs!removeTransaction(id)
      \/ Txs!ErrHandler(id) /\ (txs[id].consumer = Self => id \in forwards)
  BY DEF TxStep, Txs!IsRequest
<1>2. id \in DOMAIN txs /\ forwards' = forwards \cap DOMAIN txs'
  BY <1>1 DEF TxStep, Txs!Write, Txs!WriteFails, Txs!TakeResponse, Txs!TakeResend,
              Txs!RequestTimeout, Txs!ResponseTimeout, Txs!removeTransaction, Txs!ErrHandler
<1>3. txs[id] \in Txs!Transaction
  BY <1>2, TxFacts
<1>4. TxProofs!TxInv'
  <2> USE TablesAssumption, SameTxOperations
  <2>1. CASE \/ Txs!Write(id) \/ Txs!WriteFails(id) \/ Txs!TakeResponse(id) \/ Txs!TakeResend(id)
             \/ Txs!RequestTimeout(id) \/ Txs!ResponseTimeout(id)
    BY <2>1, TxProofs!RoundKeepsInv
       DEF TxProofs!RoundKeepsInv, TxProofs!ResendAssumption, TxProofs!SelfAssumption
  <2>2. CASE Txs!removeTransaction(id)
    BY <2>2, TxProofs!RemoveKeepsInv
       DEF TxProofs!RemoveKeepsInv, TxProofs!ResendAssumption, TxProofs!SelfAssumption
  <2>3. CASE Txs!ErrHandler(id)
    BY <2>3, TxProofs!EndKeepsInv
       DEF TxProofs!EndKeepsInv, TxProofs!ResendAssumption, TxProofs!SelfAssumption
  <2>4. QED
    BY <1>1, <2>1, <2>2, <2>3
<1>5. SUFFICES /\ RequestsNumbered' /\ forwards' \subseteq DOMAIN txs'
               /\ Flying' \subseteq Flying /\ Flying \subseteq Flying' \cup Delivered
               /\ Delivered' \subseteq Delivered
  BY <1>4
<1>6. ASSUME NEW tx, txs' = [txs EXCEPT ![id] = tx],
             tx.consumer = txs[id].consumer, tx.seq = txs[id].seq,
             tx.consumer = Self => tx.event # "resend",
             \/ tx.consumer # Self
             \/ /\ tx.event = "valid" => txs[id].event = "valid"
                /\ tx.phase = "remove" /\ ~tx.failed =>
                     txs[id].event = "valid" \/ (txs[id].phase = "remove" /\ ~txs[id].failed)
      PROVE  /\ RequestsNumbered' /\ forwards' \subseteq DOMAIN txs'
             /\ Flying' \subseteq Flying /\ Flying \subseteq Flying' \cup Delivered
             /\ Delivered' \subseteq Delivered
  <2>1. forwards' = forwards
    BY <1>2, <1>6
  <2>2. QED
    BY <1>2, <1>6, <2>1, TxChanges
<1>7. txs[id].consumer = Self => txs[id].event # "resend"
  BY <1>2, RequestMembers
<1>8. CASE Txs!Write(id)
  <2>1. txs' = [txs EXCEPT ![id] = [txs[id] EXCEPT !.phase = "wait"]]
    BY <1>8 DEF Txs!Write
  <2>2. QED
    BY <1>3, <1>6, <1>7, <2>1 DEF Txs!Transaction
<1>9. CASE Txs!WriteFails(id)
  <2>1. txs' = [txs EXCEPT ![id] = [txs[id] EXCEPT !.phase = "remove", !.failed = TRUE]]
    BY <1>9 DEF Txs!WriteFails
  <2>2. QED
    BY <1>3, <1>6, <1>7, <2>1 DEF Txs!Transaction
<1>10. CASE Txs!TakeResponse(id)
  <2>1. /\ txs' = [txs EXCEPT ![id] = [txs[id] EXCEPT !.phase = "remove", !.event = "none"]]
        /\ txs[id].event = "valid"
    BY <1>10 DEF Txs!TakeResponse, Txs!NoEvent, Txs!ReceiveValidResponse
  <2>2. QED
    BY <1>3, <1>6, <1>7, <2>1 DEF Txs!Transaction
<1>11. CASE Txs!TakeResend(id)
  <2>1. /\ txs' = [txs EXCEPT ![id] = [txs[id] EXCEPT !.iter = @ + 1, !.event = "none",
             !.phase = IF txs[id].iter + 1 < NumOfResend THEN "write" ELSE "remove"]]
        /\ txs[id].event = "resend"
    BY <1>11 DEF Txs!TakeResend, Txs!NoEvent, Txs!ReceiveResendRequest
  <2>2. QED
    BY <1>3, <1>6, <1>7, <2>1 DEF Txs!Transaction
<1>12. CASE Txs!RequestTimeout(id)
  <2> DEFINE again == txs[id].iter + 1 < NumOfResend
             tx == [txs[id] EXCEPT !.iter = @ + 1, !.failed = ~again,
                                   !.phase = IF again THEN "write" ELSE "remove"]
  <2>1. txs' = [txs EXCEPT ![id] = tx]
    BY <1>12 DEF Txs!RequestTimeout
  <2>2. /\ tx.consumer = txs[id].consumer /\ tx.seq = txs[id].seq /\ tx.event = txs[id].event
        /\ tx.phase = "remove" => tx.failed
    BY <1>3 DEF Txs!Transaction
  <2> HIDE DEF tx
  <2>3. QED
    BY <1>6, <1>7, <2>1, <2>2
<1>13. CASE Txs!ResponseTimeout(id)
  <2>1. /\ txs' = [txs EXCEPT ![id] = [txs[id] EXCEPT !.phase = "remove", !.failed = TRUE]]
        /\ txs[id].consumer # Self
    BY <1>13 DEF Txs!ResponseTimeout, Txs!IsRequest
  <2>2. QED
    BY <1>3, <1>6, <1>7, <2>1 DEF Txs!Transaction
<1>14. CASE Txs!removeTransaction(id) /\ txs[id].failed
  <2>1. txs' = [txs EXCEPT ![id] = [txs[id] EXCEPT !.phase = "failed"]]
    BY <1>14 DEF Txs!removeTransaction
  <2>2. QED
    BY <1>3, <1>6, <1>7, <2>1 DEF Txs!Transaction
<1>15. CASE Txs!removeTransaction(id) /\ ~txs[id].failed
  <2>1. txs' = Txs!Without(txs, {id}) /\ txs[id].phase = "remove"
    BY <1>15 DEF Txs!removeTransaction
  <2>2. txs[id].consumer = Self /\ id \notin forwards => txs[id].seq \in Delivered
    BY <1>2, <1>15, <2>1, FlyingMembers
  <2>3. QED
    BY <1>2, <2>1, <2>2, TxEnds
<1>16. CASE Txs!ErrHandler(id) /\ (txs[id].consumer = Self => id \in forwards)
  <2>1. txs' = Txs!Without(txs, {id})
    BY <1>16 DEF Txs!ErrHandler
  <2>2. QED
    BY <1>2, <1>16, <2>1, TxEnds
<1>17. QED
  BY <1>1, <1>8, <1>9, <1>10, <1>11, <1>12, <1>13, <1>14, <1>15, <1>16

\* An event posted to a transaction leaves the relays in flight; one posted to a relay
\* delivers its number.
LEMMA PostEffect ==
    ASSUME TxProofs!TxInv, RequestsNumbered, forwards \subseteq DOMAIN txs, forwards' = forwards,
           NEW id \in DOMAIN txs, NEW event \in {"resend", "valid"}, Txs!PostEvent(id, event),
           txs[id].consumer = Self => event = "valid"
    PROVE  /\ TxProofs!TxInv' /\ RequestsNumbered' /\ forwards' \subseteq DOMAIN txs'
           /\ Flying' = Flying
           /\ Delivered' \subseteq Delivered \cup (Flying \cap {txs[id].seq})
           /\ txs[id].consumer # Self \/ id \in forwards => Delivered' \subseteq Delivered
<1>1. id \in TxIds /\ txs[id] \in Txs!Transaction
  BY TxFacts
<1>2. TxProofs!TxInv'
  <2>1. TxProofs!PostEvent(id, event)
    BY SameTxOperations
  <2>2. event \in {TxProofs!ReceiveResendRequest, TxProofs!ReceiveValidResponse}
    BY DEF TxProofs!ReceiveResendRequest, TxProofs!ReceiveValidResponse
  <2>3. QED
    BY <1>1, <2>1, <2>2, TxProofs!PostKeepsInv, TablesAssumption
       DEF TxProofs!PostKeepsInv, TxProofs!ResendAssumption, TxProofs!SelfAssumption
<1>3. CASE txs[id].event = "none"
  <2>1. txs' = [txs EXCEPT ![id] = [txs[id] EXCEPT !.event = event]]
    BY <1>3 DEF Txs!PostEvent, Txs!Posted, Txs!NoEvent
  <2>2. /\ [txs[id] EXCEPT !.event = event].consumer = txs[id].consumer
        /\ [txs[id] EXCEPT !.event = event].seq = txs[id].seq
        /\ [txs[id] EXCEPT !.event = event].event = event
    BY <1>1 DEF Txs!Transaction
  <2>3. QED
    BY <1>2, <2>1, <2>2, TxChanges
<1>4. CASE txs[id].event # "none"
  <2>1. txs' = txs
    BY <1>4 DEF Txs!PostEvent, Txs!Posted, Txs!NoEvent
  <2>2. RequestsNumbered' /\ Flying' = Flying /\ Delivered' = Delivered
    BY <2>1 DEF RequestsNumbered, Flying, Delivered, Relaying, Txs!IsRequest
  <2>3. QED
    BY <1>2, <2>1, <2>2
<1>5. QED
  BY <1>3, <1>4

\* The release of a peer ends no transaction.
LEMMA DeleteEffect ==
    ASSUME TxProofs!TxInv, NEW host \in Hosts, Txs!DeleteByHost(host)
    PROVE  TxProofs!TxInv' /\ txs' = txs
BY SameTxOperations, TxProofs!ReleaseKeepsInv, TablesAssumption
   DEF TxProofs!ReleaseKeepsInv, TxProofs!ResendAssumption, TxProofs!SelfAssumption,
       Txs!DeleteByHost

\* A step that leaves the transactions alone.
LEMMA TxUnchanged ==
    ASSUME TxProofs!TxInv, RequestsNumbered, txs' = txs, forwards' = forwards
    PROVE  /\ RequestsNumbered' /\ Flying' = Flying /\ Delivered' = Delivered
           /\ UNCHANGED <<consumerTable, detached>> => TxProofs!TxInv'
<1>1. RequestsNumbered' /\ Flying' = Flying /\ Delivered' = Delivered
  BY DEF RequestsNumbered, Flying, Delivered, Relaying, Txs!IsRequest
<1>2. UNCHANGED <<consumerTable, detached>> => TxProofs!TxInv'
  BY TxProofs!StutterKeepsInv, TablesAssumption
     DEF TxProofs!StutterKeepsInv, TxProofs!ResendAssumption, TxProofs!SelfAssumption, TxProofs!vars
<1>3. QED
  BY <1>1, <1>2

-----------------------------------------------------------------------------
(* What the operations on the relay table do to the claims in it.          *)

\* The step only takes claims away.
ClaimsOnlyGo ==
    /\ DOMAIN reportRelays' \subseteq DOMAIN reportRelays
    /\ \A s \in DOMAIN reportRelays' : reportRelays'[s] = reportRelays[s]
    /\ now' = now

\* Claims made in the present lifetime are kept.
FreshClaimsStay ==
    \A s \in DOMAIN reportRelays : reportRelays[s].recorded = now => s \in DOMAIN reportRelays'

\* No count grows.
CountsOnlyFall ==
    \A host \in Hosts : Relays!RelayGeneration(host)' \in 0..Relays!RelayGeneration(host)

\* What the relay table of this specification inherits from its proofs.
LEMMA RelayFacts ==
    ASSUME RelayProofs!RelayInv
    PROVE  /\ Relays!TypeOK /\ now \in Nat /\ DOMAIN reportRelays \subseteq RelaySeqs
           /\ \A s \in DOMAIN reportRelays :
                /\ reportRelays[s].upfAddr \in Peer /\ reportRelays[s].upfSeq \in UpfSeqs
                /\ reportRelays[s].recorded \in Nat /\ reportRelays[s].answered \in BOOLEAN
                /\ reportRelays[s] =
                     [upfAddr |-> reportRelays[s].upfAddr, upfSeq |-> reportRelays[s].upfSeq,
                      recorded |-> reportRelays[s].recorded, answered |-> reportRelays[s].answered]
           /\ \A host \in Hosts : Relays!RelayGeneration(host) \in Nat
<1>1. Relays!TypeOK
  BY SameRelayOperations DEF RelayProofs!RelayInv
<1>2. /\ now \in Nat /\ DOMAIN reportRelays \subseteq RelaySeqs
      /\ \A s \in DOMAIN reportRelays : reportRelays[s] \in Relays!Relay
  BY <1>1 DEF Relays!TypeOK, Relays!RelaySeqs, RelaySeqs
<1>3. ASSUME NEW host \in Hosts PROVE Relays!RelayGeneration(host) \in Nat
  BY <1>1 DEF Relays!TypeOK, Relays!RelayGeneration, Relays!At, Relays!Generation,
              Relays!NeverReleased
<1>4. QED
  BY <1>1, <1>2, <1>3 DEF Relays!Relay, Relays!Peer, Peer

\* The sweep spares the claims of the present lifetime and forgets old counts.
LEMMA SweepFacts ==
    ASSUME RelayProofs!RelayInv
    PROVE  /\ Relays!SweptRelays(now) \subseteq DOMAIN reportRelays
           /\ \A s \in Relays!SweptRelays(now) : reportRelays[s].recorded # now
           /\ Relays!sweepRelaysLocked(now) => CountsOnlyFall
<1>1. /\ Relays!SweptRelays(now) \subseteq DOMAIN reportRelays
      /\ \A s \in Relays!SweptRelays(now) : reportRelays[s].recorded # now
  BY RelayFacts, TablesAssumption DEF Relays!SweptRelays, Relays!Outlived
<1>2. ASSUME Relays!sweepRelaysLocked(now), NEW host \in Hosts
      PROVE  Relays!RelayGeneration(host)' \in 0..Relays!RelayGeneration(host)
  <2>1. /\ DOMAIN relayGenerations' \subseteq DOMAIN relayGenerations
        /\ \A x \in DOMAIN relayGenerations' : relayGenerations'[x] = relayGenerations[x]
    BY <1>2 DEF Relays!sweepRelaysLocked, Relays!Without
  <2>2. Relays!RelayGeneration(host) \in Nat
    BY RelayFacts
  <2>3. \/ Relays!RelayGeneration(host)' = Relays!RelayGeneration(host)
        \/ Relays!RelayGeneration(host)' = 0
    BY <2>1 DEF Relays!RelayGeneration, Relays!At, Relays!NeverReleased
  <2>4. QED
    BY <2>2, <2>3
<1>3. QED
  BY <1>1, <1>2 DEF CountsOnlyFall

\* RelayReportSequence without a claim, having swept.
LEMMA SweepEffect ==
    ASSUME RelayProofs!RelayInv, NEW peer \in Peer, NEW q \in UpfSeqs, NEW g,
           \/ Relays!ClaimRetransmission(peer, q, now, g)
           \/ Relays!ClaimExhausted(peer, q, now, g)
    PROVE  RelayProofs!RelayInv' /\ ClaimsOnlyGo /\ FreshClaimsStay /\ CountsOnlyFall
<1>1. RelayProofs!RelayInv'
  <2>1. RelayProofs!Claim(peer, q, now, g) /\ now \in 0..now /\ peer \in RelayProofs!Peer
    BY SameRelayOperations, RelayFacts DEF RelayProofs!Claim
  <2>2. QED
    BY <2>1, RelayProofs!ClaimKeepsInv, TablesAssumption
       DEF RelayProofs!ClaimKeepsInv, RelayProofs!TimeAssumption, RelayProofs!RangeAssumption
<1>2. /\ reportRelays' = Relays!Without(reportRelays, Relays!SweptRelays(now))
      /\ now' = now /\ Relays!sweepRelaysLocked(now)
  BY DEF Relays!ClaimRetransmission, Relays!ClaimExhausted, Relays!dropRelaysLocked
<1>3. QED
  BY <1>1, <1>2, SweepFacts DEF Relays!Without, ClaimsOnlyGo, FreshClaimsStay

\* RelayReportSequence with a claim.
LEMMA ClaimEffect ==
    ASSUME RelayProofs!RelayInv, NEW peer \in Peer, NEW q \in UpfSeqs, NEW g,
           NEW s \in RelaySeqs, Relays!ClaimFresh(peer, q, now, g, s)
    PROVE  /\ RelayProofs!RelayInv' /\ now' = now
           /\ s \in DOMAIN reportRelays'
           /\ reportRelays'[s] = [upfAddr |-> peer, upfSeq |-> q, recorded |-> now, answered |-> FALSE]
           /\ DOMAIN reportRelays' \subseteq DOMAIN reportRelays \cup {s}
           /\ \A r \in DOMAIN reportRelays' \ {s} : reportRelays'[r] = reportRelays[r]
           /\ FreshClaimsStay /\ CountsOnlyFall
           /\ Relays!RelayGeneration(peer.host) = g
<1>1. RelayProofs!RelayInv'
  <2>1. RelayProofs!Claim(peer, q, now, g) /\ now \in 0..now /\ peer \in RelayProofs!Peer
    BY SameRelayOperations, RelayFacts DEF RelayProofs!Claim
  <2>2. QED
    BY <2>1, RelayProofs!ClaimKeepsInv, TablesAssumption
       DEF RelayProofs!ClaimKeepsInv, RelayProofs!TimeAssumption, RelayProofs!RangeAssumption
<1>2. /\ reportRelays' = Relays!Store(Relays!Without(reportRelays, Relays!SweptRelays(now)), s,
           [upfAddr |-> peer, upfSeq |-> q, recorded |-> now, answered |-> FALSE])
      /\ now' = now /\ Relays!sweepRelaysLocked(now) /\ Relays!RelayGeneration(peer.host) = g
  BY DEF Relays!ClaimFresh, Relays!recordRelayLocked
<1>3. QED
  BY <1>1, <1>2, SweepFacts DEF Relays!Without, Relays!Store, FreshClaimsStay

\* RenumberReportRelay: the claim moves.
LEMMA RenumberEffect ==
    ASSUME RelayProofs!RelayInv, NEW old \in RelaySeqs, NEW s \in RelaySeqs,
           Relays!Renumber(old, s)
    PROVE  /\ RelayProofs!RelayInv' /\ now' = now /\ CountsOnlyFall
           /\ old \in DOMAIN reportRelays /\ s \notin DOMAIN reportRelays
           /\ DOMAIN reportRelays' = (DOMAIN reportRelays \ {old}) \cup {s}
           /\ reportRelays'[s] = reportRelays[old]
           /\ \A r \in DOMAIN reportRelays' \ {s} : reportRelays'[r] = reportRelays[r]
<1>1. RelayProofs!RelayInv'
  <2>1. RelayProofs!RenumberReportRelay(old) /\ old \in RelayProofs!RelaySeqs
    BY SameRelayOperations DEF RelayProofs!RenumberReportRelay
  <2>2. QED
    BY <2>1, RelayProofs!RenumberKeepsInv, TablesAssumption
       DEF RelayProofs!RenumberKeepsInv, RelayProofs!TimeAssumption, RelayProofs!RangeAssumption
<1>2. /\ reportRelays' = Relays!Store(Relays!Without(reportRelays, {old}), s, reportRelays[old])
      /\ old \in DOMAIN reportRelays /\ s \notin DOMAIN reportRelays
      /\ now' = now /\ relayGenerations' = relayGenerations
  BY DEF Relays!Renumber, Relays!recordRelayLocked, Relays!NextFreeRelaySequence
<1>3. CountsOnlyFall
  BY <1>2, RelayFacts DEF CountsOnlyFall, Relays!RelayGeneration
<1>4. QED
  BY <1>1, <1>2, <1>3 DEF Relays!Without, Relays!Store

\* TakeReportRelay: only the mark changes.
LEMMA TakeEffect ==
    ASSUME RelayProofs!RelayInv, NEW s \in RelaySeqs, Relays!Take(s)
    PROVE  /\ RelayProofs!RelayInv' /\ now' = now /\ CountsOnlyFall
           /\ s \in DOMAIN reportRelays /\ ~reportRelays[s].answered
           /\ DOMAIN reportRelays' = DOMAIN reportRelays
           /\ reportRelays'[s] = [reportRelays[s] EXCEPT !.answered = TRUE]
           /\ \A r \in DOMAIN reportRelays \ {s} : reportRelays'[r] = reportRelays[r]
<1>1. RelayProofs!RelayInv'
  <2>1. RelayProofs!TakeReportRelay(s) /\ s \in RelayProofs!RelaySeqs
    BY SameRelayOperations DEF RelayProofs!TakeReportRelay
  <2>2. QED
    BY <2>1, RelayProofs!TakeKeepsInv, TablesAssumption
       DEF RelayProofs!TakeKeepsInv, RelayProofs!TimeAssumption, RelayProofs!RangeAssumption
<1>2. /\ reportRelays' = [reportRelays EXCEPT ![s] = [reportRelays[s] EXCEPT !.answered = TRUE]]
      /\ s \in DOMAIN reportRelays /\ ~reportRelays[s].answered
      /\ now' = now /\ relayGenerations' = relayGenerations
  BY DEF Relays!Take, Relays!Takeable
<1>3. CountsOnlyFall
  BY <1>2, RelayFacts DEF CountsOnlyFall, Relays!RelayGeneration
<1>4. QED
  BY <1>1, <1>2, <1>3

\* ForgetReportRelay: the claim goes, if it is there.
LEMMA ForgetEffect ==
    ASSUME RelayProofs!RelayInv, NEW s \in RelaySeqs, Relays!ForgetReportRelay(s)
    PROVE  /\ RelayProofs!RelayInv' /\ ClaimsOnlyGo /\ CountsOnlyFall
           /\ DOMAIN reportRelays' = DOMAIN reportRelays \ {s}
<1>1. RelayProofs!RelayInv'
  <2>1. RelayProofs!ForgetReportRelay(s) /\ s \in RelayProofs!RelaySeqs
    BY SameRelayOperations
  <2>2. QED
    BY <2>1, RelayProofs!ForgetKeepsInv, TablesAssumption
       DEF RelayProofs!ForgetKeepsInv, RelayProofs!TimeAssumption, RelayProofs!RangeAssumption
<1>2. /\ reportRelays' = Relays!Without(reportRelays, {s} \cap DOMAIN reportRelays)
      /\ now' = now /\ relayGenerations' = relayGenerations
  BY DEF Relays!ForgetReportRelay, Relays!dropRelaysLocked
<1>3. CountsOnlyFall
  BY <1>2, RelayFacts DEF CountsOnlyFall, Relays!RelayGeneration
<1>4. QED
  BY <1>1, <1>2, <1>3 DEF Relays!Without, ClaimsOnlyGo

\* ForgetRelaysForHost: exactly the host's claims go, and the count grows by one.
LEMMA ReleaseEffect ==
    ASSUME RelayProofs!RelayInv, NEW host \in Hosts, Relays!ForgetRelaysForHost(host)
    PROVE  /\ RelayProofs!RelayInv' /\ ClaimsOnlyGo
           /\ DOMAIN reportRelays' =
                {s \in DOMAIN reportRelays : reportRelays[s].upfAddr.host # host}
           /\ Relays!RelayGeneration(host)' = Relays!RelayGeneration(host) + 1
           /\ \A other \in Hosts \ {host} :
                Relays!RelayGeneration(other)' = Relays!RelayGeneration(other)
<1>1. RelayProofs!RelayInv'
  <2>1. RelayProofs!ForgetRelaysForHost(host)
    BY SameRelayOperations
  <2>2. QED
    BY <2>1, RelayProofs!ReleaseKeepsInv, TablesAssumption
       DEF RelayProofs!ReleaseKeepsInv, RelayProofs!TimeAssumption, RelayProofs!RangeAssumption
<1>2. /\ reportRelays' = Relays!Without(reportRelays, Relays!At(relaysByHost, host, {}))
      /\ relayGenerations' = Relays!Store(relayGenerations, host,
           [count |-> Relays!RelayGeneration(host) + 1, releasedAt |-> now])
      /\ now' = now
  BY DEF Relays!ForgetRelaysForHost, Relays!dropRelaysLocked
<1>3. Relays!At(relaysByHost, host, {}) =
        {s \in DOMAIN reportRelays : reportRelays[s].upfAddr.host = host}
  <2>1. /\ DOMAIN relaysByHost = {reportRelays[s].upfAddr.host : s \in DOMAIN reportRelays}
        /\ \A h \in DOMAIN relaysByHost :
             relaysByHost[h] = {s \in DOMAIN reportRelays : reportRelays[s].upfAddr.host = h}
    BY DEF RelayProofs!RelayInv, RelayProofs!IndexCoherent
  <2>2. QED
    BY <2>1 DEF Relays!At
<1>4. /\ Relays!RelayGeneration(host)' = Relays!RelayGeneration(host) + 1
      /\ \A other \in Hosts \ {host} :
           Relays!RelayGeneration(other)' = Relays!RelayGeneration(other)
  <2>1. /\ host \in DOMAIN relayGenerations'
        /\ relayGenerations'[host] =
             [count |-> Relays!RelayGeneration(host) + 1, releasedAt |-> now]
        /\ \A other : other # host =>
             /\ other \in DOMAIN relayGenerations' <=> other \in DOMAIN relayGenerations
             /\ other \in DOMAIN relayGenerations' =>
                  relayGenerations'[other] = relayGenerations[other]
    BY <1>2 DEF Relays!Store
  <2>2. Relays!RelayGeneration(host)' = relayGenerations'[host].count
    BY <2>1 DEF Relays!RelayGeneration, Relays!At
  <2>3. ASSUME NEW other \in Hosts \ {host}
        PROVE  Relays!RelayGeneration(other)' = Relays!RelayGeneration(other)
    BY <2>1 DEF Relays!RelayGeneration, Relays!At, Relays!NeverReleased
  <2>4. QED
    BY <2>1, <2>2, <2>3
<1>5. QED
  BY <1>1, <1>2, <1>3, <1>4 DEF Relays!Without, ClaimsOnlyGo

\* Time passes.
LEMMA TickEffect ==
    ASSUME RelayProofs!RelayInv, Relays!Tick
    PROVE  RelayProofs!RelayInv' /\ UNCHANGED <<reportRelays, relayGenerations>>
BY SameRelayOperations, RelayProofs!TickKeepsInv, TablesAssumption
   DEF RelayProofs!TickKeepsInv, RelayProofs!TimeAssumption, RelayProofs!RangeAssumption,
       Relays!Tick, Relays!relayVars

\* A step that leaves the table alone.
LEMMA RelaysUnchanged ==
    ASSUME RelayProofs!RelayInv, UNCHANGED <<relayVars, now>>
    PROVE  RelayProofs!RelayInv' /\ ClaimsOnlyGo /\ FreshClaimsStay /\ CountsOnlyFall
<1>1. RelayProofs!RelayInv'
  BY RelayProofs!StutterKeepsInv, TablesAssumption
     DEF RelayProofs!StutterKeepsInv, RelayProofs!TimeAssumption, RelayProofs!RangeAssumption,
         RelayProofs!vars, RelayProofs!relayVars, relayVars
<1>2. QED
  BY <1>1, RelayFacts DEF ClaimsOnlyGo, FreshClaimsStay, CountsOnlyFall, relayVars,
                          Relays!RelayGeneration

-----------------------------------------------------------------------------
(* The exchanges.                                                          *)

\* What a goroutine may do to the number it holds without claiming, taking or sending:
\* keep it, let go of it once its claim is gone or another answers it, or come to take
\* one that is in flight.
QuietMove(x, y) ==
    /\ y.relaySeq \in {x.relaySeq, NoSeq} \/ (y.pc = "take" /\ y.relaySeq \in Flying)
    /\ Sending(y) => Sending(x) /\ y.relaySeq = x.relaySeq
    /\ Answering(y) => (Sending(x) \/ Answering(x)) /\ y.relaySeq = x.relaySeq
    /\ x.pc = "take" /\ y.relaySeq = x.relaySeq => y.pc = "take"
    /\ x.relaySeq \in DOMAIN reportRelays' =>
         y.relaySeq = x.relaySeq \/ (x.pc = "take" /\ reportRelays[x.relaySeq].answered)
    /\ Answering(x) =>
         (Answering(y) /\ y.relaySeq = x.relaySeq) \/ x.relaySeq \notin DOMAIN reportRelays'

\* Zero numbers no exchange.
LEMMA NoSeqIsNone == NoSeq \notin RelaySeqs
BY TablesAssumption DEF NoSeq, RelaySeqs

\* A number a goroutine holds is attended to.
LEMMA AttendedMembers ==
    /\ \A s : s \in Attended <=> \E h \in Handlers : handlers[h].relaySeq = s
    /\ \A s : s \in Attended' <=> \E h \in Handlers : handlers'[h].relaySeq = s
BY DEF Attended

\* What a response has reached was in flight.
LEMMA DeliveredFlies == Delivered \subseteq Flying
BY DEF Delivered, Flying

\* A step in which every goroutine moves quietly keeps the exchanges in order.
LEMMA QuietKeepsExchanges ==
    ASSUME Exchanges, DOMAIN reportRelays \subseteq RelaySeqs,
           \A h \in Handlers : Numbered(handlers[h]),
           ClaimsOnlyGo, cutShort \subseteq cutShort',
           Flying' \subseteq Flying,
           Flying \cap (DOMAIN reportRelays' \ cutShort') \subseteq Flying' \cup Attended',
           Delivered' \cap (DOMAIN reportRelays' \ cutShort') \subseteq Delivered \cup Attended',
           \A h \in Handlers : QuietMove(handlers[h], handlers'[h])
    PROVE  Exchanges'
<1> USE DEF ClaimsOnlyGo
<1> DEFINE H(h) == handlers[h]
           K(h) == handlers'[h]
           Open(s) == s \in DOMAIN reportRelays' /\ ~reportRelays'[s].answered
<1>1. \A h \in Handlers : QuietMove(H(h), K(h))
  OBVIOUS
<1>2. SenderAlone'
  <2> SUFFICES ASSUME NEW h \in Handlers, Sending(handlers'[h])
               PROVE  /\ K(h).relaySeq \notin Flying'
                      /\ \A other \in Handlers \ {h} : K(other).relaySeq # K(h).relaySeq
                      /\ K(h).relaySeq \in DOMAIN reportRelays' => ~reportRelays'[K(h).relaySeq].answered
    BY DEF SenderAlone, Unanswered, Sending
  <2>1. Sending(H(h)) /\ K(h).relaySeq = H(h).relaySeq
    BY <1>1 DEF QuietMove
  <2>2. /\ H(h).relaySeq \notin Flying
        /\ \A other \in Handlers \ {h} : H(other).relaySeq # H(h).relaySeq
        /\ H(h).relaySeq \in DOMAIN reportRelays => ~reportRelays[H(h).relaySeq].answered
    BY <2>1 DEF Exchanges, SenderAlone, Unanswered
  <2>3. H(h).relaySeq # NoSeq
    BY <2>1 DEF Numbered, Sending
  <2>4. QED
    BY <1>1, <2>1, <2>2, <2>3 DEF QuietMove
<1>3. AnsweredHasAnswerer'
  <2> SUFFICES ASSUME NEW s \in DOMAIN reportRelays', reportRelays'[s].answered
               PROVE  \E h \in Handlers : Answering(K(h)) /\ K(h).relaySeq = s
    BY DEF AnsweredHasAnswerer, Answering
  <2>1. PICK h \in Handlers : Answering(H(h)) /\ H(h).relaySeq = s
    BY DEF Exchanges, AnsweredHasAnswerer
  <2>2. QED
    BY <1>1, <2>1 DEF QuietMove
<1>4. AnswererAlone'
  <2> SUFFICES ASSUME NEW h \in Handlers, Answering(K(h))
               PROVE  /\ \A other \in Handlers \ {h} :
                           K(other).relaySeq = K(h).relaySeq =>
                             K(other).pc = "take" /\ ~Open(K(h).relaySeq)
                      /\ K(h).relaySeq \in Flying' => ~Open(K(h).relaySeq)
    BY DEF AnswererAlone, Answering, Unanswered
  <2>1. /\ Sending(H(h)) \/ Answering(H(h))
        /\ K(h).relaySeq = H(h).relaySeq /\ H(h).relaySeq # NoSeq
    BY <1>1 DEF QuietMove, Answering
  <2>2. Open(K(h).relaySeq) => Unanswered(H(h).relaySeq)
    BY <2>1 DEF Unanswered
  <2>3. CASE Sending(H(h))
    <3>1. /\ H(h).relaySeq \notin Flying
          /\ \A other \in Handlers \ {h} : H(other).relaySeq # H(h).relaySeq
      BY <2>3 DEF Exchanges, SenderAlone
    <3>2. QED
      BY <1>1, <2>1, <3>1 DEF QuietMove
  <2>4. CASE Answering(H(h))
    <3>1. /\ \A other \in Handlers \ {h} :
               H(other).relaySeq = H(h).relaySeq =>
                 H(other).pc = "take" /\ ~Unanswered(H(h).relaySeq)
          /\ H(h).relaySeq \in Flying => ~Unanswered(H(h).relaySeq)
      BY <2>4 DEF Exchanges, AnswererAlone
    <3>2. QED
      BY <1>1, <2>1, <2>2, <3>1 DEF QuietMove
  <2>5. QED
    BY <2>1, <2>3, <2>4
<1>5. ASSUME NEW s \in DOMAIN reportRelays', s \in Attended PROVE s \in Attended'
  <2>1. PICK h \in Handlers : H(h).relaySeq = s
    BY <1>5, AttendedMembers
  <2>2. CASE K(h).relaySeq = s
    BY <2>2, AttendedMembers
  <2>3. CASE reportRelays[s].answered
    BY <1>3, <2>3, AttendedMembers DEF AnsweredHasAnswerer
  <2>4. QED
    BY <1>1, <2>1, <2>2, <2>3 DEF QuietMove
<1>6. ASSUME NEW s \in DOMAIN reportRelays', s \in Attended' PROVE s \in Attended \cup Flying
  <2>1. PICK h \in Handlers : K(h).relaySeq = s
    BY <1>6, AttendedMembers
  <2>2. s # NoSeq
    BY NoSeqIsNone
  <2>3. QED
    BY <1>1, <2>1, <2>2, AttendedMembers DEF QuietMove
<1>7. InProgressIsFresh'
  BY <1>6 DEF Exchanges, InProgressIsFresh
<1>8. ResponseHasTaker'
  BY <1>5 DEF Exchanges, ResponseHasTaker
<1>9. ClaimsInProgress'
  BY <1>5 DEF Exchanges, ClaimsInProgress
<1>10. QED
  BY <1>2, <1>3, <1>4, <1>7, <1>8, <1>9 DEF Exchanges

\* A claim made, or moved, under a number no exchange uses keeps them in order.
LEMMA EnterKeepsExchanges ==
    ASSUME Exchanges, NEW h \in Handlers, NEW s \in RelaySeqs, NEW y,
           handlers \in [Handlers -> Handler], handlers' = [handlers EXCEPT ![h] = y],
           \A g \in Handlers : Numbered(handlers[g]),
           y.relaySeq = s, Sending(y) \/ Answering(y), ~Answering(handlers[h]),
           s \notin Flying \cup Attended, handlers[h].relaySeq \notin DOMAIN reportRelays',
           UNCHANGED <<Flying, Delivered, now>>, cutShort' = cutShort \ {s},
           s \in DOMAIN reportRelays', reportRelays'[s].recorded = now, ~reportRelays'[s].answered,
           DOMAIN reportRelays' \subseteq DOMAIN reportRelays \cup {s},
           \A r \in DOMAIN reportRelays' \ {s} : reportRelays'[r] = reportRelays[r]
    PROVE  Exchanges'
<1>1. handlers'[h] = y /\ \A g \in Handlers \ {h} : handlers'[g] = handlers[g]
  OBVIOUS
<1>2. \A g \in Handlers : handlers[g].relaySeq # s
  BY AttendedMembers
<1>3. SenderAlone'
  <2> SUFFICES ASSUME NEW g \in Handlers, Sending(handlers'[g])
               PROVE  LET n == handlers'[g].relaySeq
                      IN  /\ n \notin Flying'
                          /\ \A other \in Handlers \ {g} : handlers'[other].relaySeq # n
                          /\ n \in DOMAIN reportRelays' => ~reportRelays'[n].answered
    BY DEF SenderAlone, Unanswered, Sending
  <2>1. CASE g = h
    BY <1>1, <1>2, <2>1
  <2>2. CASE g # h
    BY <1>1, <1>2, <2>2 DEF Exchanges, SenderAlone, Unanswered
  <2>3. QED
    BY <2>1, <2>2
<1>4. AnswererAlone'
  <2> SUFFICES ASSUME NEW g \in Handlers, Answering(handlers'[g])
               PROVE  LET n == handlers'[g].relaySeq
                          open == n \in DOMAIN reportRelays' /\ ~reportRelays'[n].answered
                      IN  /\ \A other \in Handlers \ {g} :
                               handlers'[other].relaySeq = n => handlers'[other].pc = "take" /\ ~open
                          /\ n \in Flying' => ~open
    BY DEF AnswererAlone, Unanswered, Answering
  <2>1. CASE g = h
    BY <1>1, <1>2, <2>1
  <2>2. CASE g # h
    BY <1>1, <1>2, <2>2 DEF Exchanges, AnswererAlone, Unanswered
  <2>3. QED
    BY <2>1, <2>2
<1>5. AnsweredHasAnswerer'
  <2> SUFFICES ASSUME NEW r \in DOMAIN reportRelays', reportRelays'[r].answered
               PROVE  \E g \in Handlers : Answering(handlers'[g]) /\ handlers'[g].relaySeq = r
    BY DEF AnsweredHasAnswerer, Answering
  <2>1. PICK g \in Handlers : Answering(handlers[g]) /\ handlers[g].relaySeq = r
    BY DEF Exchanges, AnsweredHasAnswerer
  <2>2. QED
    BY <1>1, <2>1
<1>6. \A r \in DOMAIN reportRelays' \ {s} : r \in Attended' <=> r \in Attended
  BY <1>1, AttendedMembers
<1>7. s \in Attended'
  BY <1>1, AttendedMembers
<1>8. InProgressIsFresh'
  BY <1>6 DEF Exchanges, InProgressIsFresh
<1>9. ResponseHasTaker' /\ ClaimsInProgress'
  BY <1>6, <1>7 DEF Exchanges, ResponseHasTaker, ClaimsInProgress
<1>10. QED
  BY <1>3, <1>4, <1>5, <1>8, <1>9 DEF Exchanges

\* TakeReportRelay makes its caller the one answerer.
LEMMA TakeKeepsExchanges ==
    ASSUME Exchanges, NEW h \in Handlers, NEW y,
           handlers \in [Handlers -> Handler], handlers' = [handlers EXCEPT ![h] = y],
           \A g \in Handlers : Numbered(handlers[g]),
           handlers[h].pc = "take", Answering(y), ~Sending(y), y.relaySeq = handlers[h].relaySeq,
           UNCHANGED <<Flying, Delivered, cutShort, now>>,
           Unanswered(y.relaySeq), DOMAIN reportRelays' = DOMAIN reportRelays,
           reportRelays'[y.relaySeq].answered,
           reportRelays'[y.relaySeq].recorded = reportRelays[y.relaySeq].recorded,
           \A r \in DOMAIN reportRelays \ {y.relaySeq} : reportRelays'[r] = reportRelays[r]
    PROVE  Exchanges'
<1>1. handlers'[h] = y /\ \A g \in Handlers \ {h} : handlers'[g] = handlers[g]
  OBVIOUS
<1>2. \A g \in Handlers : handlers[g].pc \in Pcs
  BY DEF Handler
<1>3. \A g \in Handlers \ {h} : handlers[g].relaySeq = y.relaySeq => handlers[g].pc = "take"
  <2> SUFFICES ASSUME NEW g \in Handlers \ {h}, handlers[g].relaySeq = y.relaySeq
               PROVE  handlers[g].pc = "take"
    OBVIOUS
  <2>1. ~Sending(handlers[g])
    BY DEF Exchanges, SenderAlone
  <2>2. ~Answering(handlers[g])
    BY DEF Exchanges, AnswererAlone
  <2>3. QED
    BY <1>2, <2>1, <2>2 DEF Numbered, Answering, Sending, Pcs
<1>4. SenderAlone'
  <2> SUFFICES ASSUME NEW g \in Handlers, Sending(handlers'[g])
               PROVE  LET n == handlers'[g].relaySeq
                      IN  /\ n \notin Flying'
                          /\ \A other \in Handlers \ {g} : handlers'[other].relaySeq # n
                          /\ n \in DOMAIN reportRelays' => ~reportRelays'[n].answered
    BY DEF SenderAlone, Unanswered, Sending
  <2>1. g # h /\ handlers[g].relaySeq # y.relaySeq
    BY <1>1, <1>3 DEF Sending
  <2>2. QED
    BY <1>1, <2>1 DEF Exchanges, SenderAlone, Unanswered
<1>5. AnswererAlone'
  <2> SUFFICES ASSUME NEW g \in Handlers, Answering(handlers'[g])
               PROVE  LET n == handlers'[g].relaySeq
                          open == n \in DOMAIN reportRelays' /\ ~reportRelays'[n].answered
                      IN  /\ \A other \in Handlers \ {g} :
                               handlers'[other].relaySeq = n => handlers'[other].pc = "take" /\ ~open
                          /\ n \in Flying' => ~open
    BY DEF AnswererAlone, Unanswered, Answering
  <2>1. CASE g = h
    BY <1>1, <1>3, <2>1
  <2>2. CASE g # h
    <3>1. Answering(handlers[g]) /\ handlers[g].relaySeq # y.relaySeq
      BY <1>1, <1>3, <2>2 DEF Answering
    <3>2. QED
      BY <1>1, <2>2, <3>1 DEF Exchanges, AnswererAlone, Unanswered
  <2>3. QED
    BY <2>1, <2>2
<1>6. AnsweredHasAnswerer'
  <2> SUFFICES ASSUME NEW r \in DOMAIN reportRelays', reportRelays'[r].answered
               PROVE  \E g \in Handlers : Answering(handlers'[g]) /\ handlers'[g].relaySeq = r
    BY DEF AnsweredHasAnswerer, Answering
  <2>1. CASE r = y.relaySeq
    BY <1>1, <2>1
  <2>2. CASE r # y.relaySeq
    <3>1. PICK g \in Handlers : Answering(handlers[g]) /\ handlers[g].relaySeq = r
      BY <2>2 DEF Exchanges, AnsweredHasAnswerer
    <3>2. QED
      BY <1>1, <2>2, <3>1
  <2>3. QED
    BY <2>1, <2>2
<1>7. \A r : r \in Attended' <=> r \in Attended
  BY <1>1, AttendedMembers
<1>8. InProgressIsFresh'
  BY <1>7 DEF Exchanges, InProgressIsFresh
<1>9. ResponseHasTaker' /\ ClaimsInProgress'
  BY <1>7 DEF Exchanges, ResponseHasTaker, ClaimsInProgress
<1>10. QED
  BY <1>4, <1>5, <1>6, <1>8, <1>9 DEF Exchanges

\* Sending a relay puts its number in flight as its handler lets go of it.
LEMMA SendKeepsExchanges ==
    ASSUME Exchanges, NEW h \in Handlers, NEW y,
           handlers \in [Handlers -> Handler], handlers' = [handlers EXCEPT ![h] = y],
           \A g \in Handlers : Numbered(handlers[g]),
           DOMAIN reportRelays \subseteq RelaySeqs,
           Sending(handlers[h]), ~Sending(y), ~Answering(y), y.relaySeq = NoSeq,
           UNCHANGED <<reportRelays, Delivered, cutShort, now>>,
           Flying' = Flying \cup {handlers[h].relaySeq}
    PROVE  Exchanges'
<1> DEFINE s == handlers[h].relaySeq
<1>1. handlers'[h] = y /\ \A g \in Handlers \ {h} : handlers'[g] = handlers[g]
  OBVIOUS
<1>2. /\ s # NoSeq /\ s \notin Flying
      /\ \A g \in Handlers \ {h} : handlers[g].relaySeq # s
      /\ s \in DOMAIN reportRelays => ~reportRelays[s].answered
  BY DEF Exchanges, SenderAlone, Numbered, Unanswered, Sending
<1> HIDE DEF s
<1>3. Flying' = Flying \cup {s}
  BY DEF s
<1>4. SenderAlone'
  <2> SUFFICES ASSUME NEW g \in Handlers, Sending(handlers'[g])
               PROVE  LET n == handlers'[g].relaySeq
                      IN  /\ n \notin Flying'
                          /\ \A other \in Handlers \ {g} : handlers'[other].relaySeq # n
                          /\ n \in DOMAIN reportRelays' => ~reportRelays'[n].answered
    BY DEF SenderAlone, Unanswered, Sending
  <2>1. g # h /\ handlers'[g] = handlers[g] /\ handlers[g].relaySeq # NoSeq
    BY <1>1 DEF Numbered, Sending
  <2>2. QED
    BY <1>1, <1>2, <1>3, <2>1 DEF Exchanges, SenderAlone, Unanswered
<1>5. AnswererAlone'
  <2> SUFFICES ASSUME NEW g \in Handlers, Answering(handlers'[g])
               PROVE  LET n == handlers'[g].relaySeq
                          open == n \in DOMAIN reportRelays' /\ ~reportRelays'[n].answered
                      IN  /\ \A other \in Handlers \ {g} :
                               handlers'[other].relaySeq = n => handlers'[other].pc = "take" /\ ~open
                          /\ n \in Flying' => ~open
    BY DEF AnswererAlone, Unanswered, Answering
  <2>1. g # h /\ handlers'[g] = handlers[g] /\ handlers[g].relaySeq # NoSeq
    BY <1>1 DEF Answering
  <2>2. QED
    BY <1>1, <1>2, <1>3, <2>1 DEF Exchanges, AnswererAlone, Unanswered
<1>6. AnsweredHasAnswerer'
  <2> SUFFICES ASSUME NEW r \in DOMAIN reportRelays, reportRelays[r].answered
               PROVE  \E g \in Handlers : Answering(handlers'[g]) /\ handlers'[g].relaySeq = r
    BY DEF AnsweredHasAnswerer, Answering
  <2>1. PICK g \in Handlers : Answering(handlers[g]) /\ handlers[g].relaySeq = r
    BY DEF Exchanges, AnsweredHasAnswerer
  <2>2. g # h
    BY <2>1 DEF Answering, Sending
  <2>3. QED
    BY <1>1, <2>1, <2>2
<1>7. \A r \in DOMAIN reportRelays :
        /\ r \in Attended => r \in Attended' \cup {s}
        /\ r \in Attended' => r \in Attended
  <2>1. NoSeq \notin DOMAIN reportRelays
    BY NoSeqIsNone
  <2>2. QED
    BY <1>1, <2>1, AttendedMembers DEF s
<1>8. InProgressIsFresh'
  <2>1. s \in Attended
    BY AttendedMembers DEF s
  <2>2. QED
    BY <1>3, <1>7, <2>1 DEF Exchanges, InProgressIsFresh
<1>9. ResponseHasTaker' /\ ClaimsInProgress'
  BY <1>2, <1>3, <1>7, DeliveredFlies DEF Exchanges, ResponseHasTaker, ClaimsInProgress
<1>10. QED
  BY <1>4, <1>5, <1>6, <1>8, <1>9 DEF Exchanges

\* Time passes between exchanges only.
LEMMA TickKeepsExchanges ==
    ASSUME Exchanges, UNCHANGED <<handlers, reportRelays, Flying, Delivered, cutShort>>,
           \A h \in Handlers : handlers[h].relaySeq = NoSeq, Flying = {},
           DOMAIN reportRelays \subseteq RelaySeqs
    PROVE  Exchanges'
<1>1. SenderAlone' /\ AnswererAlone' /\ AnsweredHasAnswerer'
  BY DEF Exchanges, SenderAlone, AnswererAlone, AnsweredHasAnswerer, Unanswered
<1>2. /\ Attended' = Attended
      /\ \A s \in DOMAIN reportRelays : s \notin Flying \cup Attended
  BY AttendedMembers, NoSeqIsNone DEF Attended
<1>3. InProgressIsFresh' /\ ResponseHasTaker' /\ ClaimsInProgress'
  BY <1>2 DEF Exchanges, InProgressIsFresh, ResponseHasTaker, ClaimsInProgress
<1>4. QED
  BY <1>1, <1>3 DEF Exchanges

-----------------------------------------------------------------------------
(* The occupancies.                                                        *)

\* The goroutine is relaying or answering a report it has claimed.
Engaged(handler) == Sending(handler) \/ Answering(handler)

\* The claim in the next state is the one the goroutine works on.
HoldsNext(y) ==
    Engaged(y) /\ Current(y.peer.host, y.epoch) =>
      /\ y.relaySeq \in DOMAIN reportRelays'
      /\ reportRelays'[y.relaySeq].upfAddr = y.peer
      /\ reportRelays'[y.relaySeq].upfSeq = y.upfSeq

\* ClaimOutlivesExchange, of goroutines that are engaged.
LEMMA HoldsClaims ==
    ASSUME \A h \in Handlers : Numbered(handlers[h])
    PROVE  ClaimOutlivesExchange <=>
             \A h \in Handlers :
               LET y == handlers[h]
               IN  Engaged(y) /\ Current(y.peer.host, y.epoch) =>
                     /\ y.relaySeq \in DOMAIN reportRelays
                     /\ reportRelays[y.relaySeq].upfAddr = y.peer
                     /\ reportRelays[y.relaySeq].upfSeq = y.upfSeq
<1>1. \A h \in Handlers : Engaged(handlers[h]) <=>
        /\ handlers[h].pc \in {"send", "renumber", "answer", "forget"}
        /\ handlers[h].relaySeq # NoSeq
  BY DEF Engaged, Sending, Answering, Numbered
<1>2. QED
  BY <1>1 DEF ClaimOutlivesExchange

\* The same in the next state.
LEMMA HoldsClaimsNext ==
    ASSUME \A h \in Handlers :
             LET y == handlers'[h]
             IN  Engaged(y) /\ y.peer.host \in authorised' /\ y.epoch = releases'[y.peer.host] =>
                   /\ y.relaySeq \in DOMAIN reportRelays'
                   /\ reportRelays'[y.relaySeq].upfAddr = y.peer
                   /\ reportRelays'[y.relaySeq].upfSeq = y.upfSeq
    PROVE  ClaimOutlivesExchange'
BY DEF ClaimOutlivesExchange, Engaged, Sending, Answering, Current

\* What a step that leaves the gate alone must show of each claim and of each goroutine
\* that it changes.
ClaimStands(r) ==
    \/ /\ r \in DOMAIN reportRelays
       /\ reportRelays'[r].upfAddr = reportRelays[r].upfAddr
       /\ claimEpoch'[r] = claimEpoch[r]
       /\ r \in recounted => r \in recounted'
    \/ /\ Admitted(reportRelays'[r].upfAddr.host, claimEpoch'[r])
       /\ r \in recounted' \/ Current(reportRelays'[r].upfAddr.host, claimEpoch'[r])

HandlerStands(x, y) ==
    \/ /\ y = x
       /\ Engaged(x) /\ x.relaySeq \in DOMAIN reportRelays =>
            /\ x.relaySeq \in DOMAIN reportRelays'
            /\ reportRelays'[x.relaySeq].upfAddr = reportRelays[x.relaySeq].upfAddr
            /\ reportRelays'[x.relaySeq].upfSeq = reportRelays[x.relaySeq].upfSeq
    \/ HandlerAdmitted(y) /\ HoldsNext(y)

\* With all of them standing, the occupancies stay in order.
LEMMA StandingKeepsOccupancies ==
    ASSUME Occupancies, releases \in [Hosts -> Nat], UNCHANGED <<authorised, releases>>,
           \A h \in Handlers : Numbered(handlers[h]),
           \A host \in Hosts : Relays!RelayGeneration(host) \in Nat,
           CountsOnlyFall,
           \A r \in DOMAIN reportRelays' : ClaimStands(r),
           \A h \in Handlers : HandlerStands(handlers[h], handlers'[h])
    PROVE  Occupancies'
<1>1. CountsLag'
  <2> SUFFICES ASSUME NEW host \in Hosts
               PROVE  Relays!RelayGeneration(host)' <= releases[host]
    BY DEF CountsLag
  <2>1. /\ Relays!RelayGeneration(host) \in Nat /\ releases[host] \in Nat
        /\ Relays!RelayGeneration(host) <= releases[host]
        /\ Relays!RelayGeneration(host)' \in 0..Relays!RelayGeneration(host)
    BY DEF Occupancies, CountsLag, CountsOnlyFall
  <2>2. QED
    BY <2>1
<1>2. \A h \in Handlers : HandlerAdmitted(handlers[h])'
  <2> SUFFICES ASSUME NEW h \in Handlers PROVE HandlerAdmitted(handlers[h])'
    OBVIOUS
  <2>1. HandlerAdmitted(handlers'[h])
    BY DEF Occupancies, HandlerStands
  <2>2. QED
    BY <2>1 DEF HandlerAdmitted, Admitted
<1>3. ClaimsAdmitted' /\ ClaimsAreCurrent'
  BY DEF Occupancies, ClaimsAdmitted, ClaimsAreCurrent, ClaimStands, Admitted, Current
<1>4. ClaimOutlivesExchange'
  <2>1. ASSUME NEW h \in Handlers PROVE HoldsNext(handlers'[h])
    BY HoldsClaims DEF Occupancies, HandlerStands, HoldsNext
  <2>2. QED
    BY <2>1, HoldsClaimsNext DEF HoldsNext, Current
<1>5. QED
  BY <1>1, <1>2, <1>3, <1>4 DEF Occupancies

\* The gate opens for an address nobody is relaying for.
LEMMA AuthoriseKeepsOccupancies ==
    ASSUME Occupancies, releases \in [Hosts -> Nat], NEW host \in Hosts, host \notin authorised,
           authorised' = authorised \cup {host}, releases' = releases,
           \A h \in Handlers : Numbered(handlers[h]),
           UNCHANGED <<reportRelays, relayGenerations, claimEpoch, recounted, handlers>>
    PROVE  Occupancies'
<1>1. CountsLag' /\ ClaimsAdmitted' /\ ClaimsAreCurrent'
  BY DEF Occupancies, CountsLag, Relays!RelayGeneration, ClaimsAdmitted, ClaimsAreCurrent, Admitted,
         Current
<1>2. \A h \in Handlers : HandlerAdmitted(handlers[h])'
  BY DEF Occupancies, HandlerAdmitted, Admitted
<1>3. ClaimOutlivesExchange'
  <2> SUFFICES ASSUME NEW h \in Handlers, Engaged(handlers[h]),
                      handlers[h].peer.host \in authorised',
                      handlers[h].epoch = releases[handlers[h].peer.host]
               PROVE  /\ handlers[h].relaySeq \in DOMAIN reportRelays
                      /\ reportRelays[handlers[h].relaySeq].upfAddr = handlers[h].peer
                      /\ reportRelays[handlers[h].relaySeq].upfSeq = handlers[h].upfSeq
    BY HoldsClaimsNext
  <2>1. Admitted(handlers[h].peer.host, handlers[h].epoch)
    BY DEF Occupancies, HandlerAdmitted, Engaged, Sending, Answering
  <2>2. Current(handlers[h].peer.host, handlers[h].epoch)
    BY <2>1 DEF Admitted, Current
  <2>3. QED
    BY <2>2, HoldsClaims DEF Occupancies
<1>4. QED
  BY <1>1, <1>2, <1>3 DEF Occupancies

\* A release takes the address's claims with it, and ends the occupancy that goroutines
\* still at work for it were let through under.
LEMMA ReleaseKeepsOccupancies ==
    ASSUME Occupancies, releases \in [Hosts -> Nat], handlers \in [Handlers -> Handler],
           HistoryTyped, DOMAIN reportRelays \subseteq RelaySeqs,
           \A s \in DOMAIN reportRelays : reportRelays[s].upfAddr \in Peer,
           NEW host \in Hosts, authorised' = authorised \ {host},
           releases' = [a \in Hosts |-> IF a = host THEN releases[a] + 1 ELSE releases[a]],
           \A h \in Handlers : Numbered(handlers[h]),
           ClaimsOnlyGo,
           DOMAIN reportRelays' = {s \in DOMAIN reportRelays : reportRelays[s].upfAddr.host # host},
           \A other \in Hosts : Relays!RelayGeneration(other) \in Nat,
           Relays!RelayGeneration(host)' = Relays!RelayGeneration(host) + 1,
           \A other \in Hosts \ {host} :
             Relays!RelayGeneration(other)' = Relays!RelayGeneration(other),
           UNCHANGED <<claimEpoch, recounted, handlers>>
    PROVE  Occupancies'
<1>1. /\ releases'[host] = releases[host] + 1 /\ releases[host] \in Nat
      /\ \A other \in Hosts \ {host} : releases'[other] = releases[other] /\ releases[other] \in Nat
  OBVIOUS
<1>2. CountsLag'
  <2> SUFFICES ASSUME NEW other \in Hosts
               PROVE  Relays!RelayGeneration(other)' <= releases'[other]
    BY DEF CountsLag
  <2>1. Relays!RelayGeneration(other) <= releases[other] /\ Relays!RelayGeneration(other) \in Nat
    BY DEF Occupancies, CountsLag
  <2>2. CASE other = host
    BY <1>1, <2>1, <2>2
  <2>3. CASE other # host
    BY <1>1, <2>1, <2>3
  <2>4. QED
    BY <2>2, <2>3
<1>3. ASSUME NEW other \in Hosts, NEW epoch \in Nat, Admitted(other, epoch)
      PROVE  Admitted(other, epoch)'
  <2>1. CASE other = host
    BY <1>1, <1>3, <2>1 DEF Admitted
  <2>2. CASE other # host
    BY <1>1, <1>3, <2>2 DEF Admitted
  <2>3. QED
    BY <2>1, <2>2
<1>4. ASSUME NEW h \in Handlers PROVE HandlerAdmitted(handlers[h])'
  <2> DEFINE x == handlers[h]
  <2>1. /\ x.peer.host \in Hosts /\ x.epoch \in Nat /\ x.authorisedUnder \in Nat /\ x.forgot \in Nat
        /\ handlers'[h] = x
    BY DEF Handler, Peer
  <2>2. HandlerAdmitted(x)
    BY DEF Occupancies
  <2>3. releases[x.peer.host] \in Nat /\ releases'[x.peer.host] \in Nat
        /\ releases[x.peer.host] <= releases'[x.peer.host]
    BY <1>1, <2>1
  <2> HIDE DEF x
  <2>4. LET read == x.authorisedUnder + x.forgot
        IN  /\ x.pc \in {"gate", "smf", "claim"} => read <= releases'[x.peer.host]
            /\ x.pc \in {"smf", "claim"} => read <= x.epoch
    BY <2>1, <2>2, <2>3 DEF HandlerAdmitted
  <2>5. ASSUME x.pc \in {"smf", "claim", "send", "renumber", "answer", "forget"}
        PROVE  Admitted(x.peer.host, x.epoch)
    BY <2>2, <2>5 DEF HandlerAdmitted
  <2>6. ASSUME x.pc \in {"smf", "claim", "send", "renumber", "answer", "forget"}
        PROVE  /\ x.epoch <= releases'[x.peer.host]
               /\ x.epoch = releases'[x.peer.host] => x.peer.host \in authorised'
    BY <1>3, <2>1, <2>5, <2>6 DEF Admitted
  <2>7. QED
    BY <2>1, <2>4, <2>6 DEF HandlerAdmitted, Admitted
<1>5. ClaimsAdmitted'
  <2> SUFFICES ASSUME NEW s \in DOMAIN reportRelays'
               PROVE  LET o == reportRelays[s].upfAddr.host e == claimEpoch[s]
                      IN  e <= releases'[o] /\ (e = releases'[o] => o \in authorised')
    BY DEF ClaimsAdmitted, Admitted, ClaimsOnlyGo
  <2>1. reportRelays[s].upfAddr.host \in Hosts \ {host} /\ claimEpoch[s] \in Nat
    BY DEF HistoryTyped, Peer
  <2>2. QED
    BY <1>1, <2>1 DEF Occupancies, ClaimsAdmitted, Admitted
<1>6. ClaimsAreCurrent'
  <2> SUFFICES ASSUME NEW s \in DOMAIN reportRelays' \ recounted
               PROVE  LET o == reportRelays[s].upfAddr.host
                      IN  o \in authorised' /\ claimEpoch[s] = releases'[o]
    BY DEF ClaimsAreCurrent, Current, ClaimsOnlyGo
  <2>1. reportRelays[s].upfAddr.host \in Hosts \ {host}
    BY DEF Peer
  <2>2. QED
    BY <1>1, <2>1 DEF Occupancies, ClaimsAreCurrent, Current
<1>7. ClaimOutlivesExchange'
  <2> SUFFICES ASSUME NEW h \in Handlers, Engaged(handlers[h]),
                      handlers[h].peer.host \in authorised',
                      handlers[h].epoch = releases'[handlers[h].peer.host]
               PROVE  /\ handlers[h].relaySeq \in DOMAIN reportRelays'
                      /\ reportRelays'[handlers[h].relaySeq].upfAddr = handlers[h].peer
                      /\ reportRelays'[handlers[h].relaySeq].upfSeq = handlers[h].upfSeq
    BY HoldsClaimsNext
  <2>1. handlers[h].peer.host \in Hosts \ {host}
    BY DEF Handler, Peer
  <2>2. Current(handlers[h].peer.host, handlers[h].epoch)
    BY <1>1, <2>1 DEF Current
  <2>3. QED
    BY <2>1, <2>2, HoldsClaims DEF Occupancies, ClaimsOnlyGo
<1>8. QED
  BY <1>2, <1>4, <1>5, <1>6, <1>7 DEF Occupancies

-----------------------------------------------------------------------------
(* The steps.                                                              *)

\* A goroutine that has ended holds nothing.
LEMMA IdleFacts ==
    /\ Idle \in Handler /\ Numbered(Idle) /\ Idle.pc = "idle" /\ Idle.relaySeq = NoSeq
    /\ ~Sending(Idle) /\ ~Answering(Idle) /\ HandlerAdmitted(Idle) /\ HoldsNext(Idle)
<1>1. (CHOOSE p \in Peer : TRUE) \in Peer
  <2>1. PICK host \in Hosts, port \in Ports : TRUE
    BY ReportsAssumption
  <2>2. [host |-> host, port |-> port] \in Peer
    BY DEF Peer
  <2>3. QED
    BY <2>2
<1>2. (CHOOSE q \in UpfSeqs : TRUE) \in UpfSeqs
  BY ReportsAssumption
<1>3. Idle \in Handler
  BY <1>1, <1>2, AttemptsAssumption DEF Idle, Handler, Pcs
<1>4. /\ Idle.pc = "idle" /\ Idle.relaySeq = NoSeq /\ Idle.attempts = 0
  BY DEF Idle
<1>5. QED
  BY <1>3, <1>4 DEF Numbered, Sending, Answering, HandlerAdmitted, HoldsNext, Engaged

\* What the invariant says of one goroutine.
LEMMA HandlerFacts ==
    ASSUME SessInv, NEW h \in Handlers
    PROVE  /\ handlers \in [Handlers -> Handler] /\ handlers[h] \in Handler
           /\ Numbered(handlers[h]) /\ HandlerAdmitted(handlers[h])
           /\ handlers[h].pc \in Pcs /\ handlers[h].peer \in Peer /\ handlers[h].peer.host \in Hosts
           /\ handlers[h].upfSeq \in UpfSeqs
           /\ handlers[h].authorisedUnder \in Nat /\ handlers[h].forgot \in Nat
           /\ handlers[h].epoch \in Nat /\ handlers[h].relaySeq \in RelaySeqs \cup {NoSeq}
           /\ handlers[h].attempts \in 0..RelaySendAttempts
           /\ Engaged(handlers[h]) /\ Current(handlers[h].peer.host, handlers[h].epoch) =>
                /\ handlers[h].relaySeq \in DOMAIN reportRelays
                /\ reportRelays[handlers[h].relaySeq].upfAddr = handlers[h].peer
                /\ reportRelays[handlers[h].relaySeq].upfSeq = handlers[h].upfSeq
<1>1. handlers \in [Handlers -> Handler] /\ Numbered(handlers[h]) /\ HandlerAdmitted(handlers[h])
  BY DEF SessInv, Typed, TypeOK, Occupancies
<1>2. Engaged(handlers[h]) /\ Current(handlers[h].peer.host, handlers[h].epoch) =>
        /\ handlers[h].relaySeq \in DOMAIN reportRelays
        /\ reportRelays[handlers[h].relaySeq].upfAddr = handlers[h].peer
        /\ reportRelays[handlers[h].relaySeq].upfSeq = handlers[h].upfSeq
  BY HoldsClaims DEF SessInv, Typed, Occupancies
<1>3. QED
  BY <1>1, <1>2 DEF Handler, Peer

\* The types, after a step in which the tables keep their invariants.
LEMMA TablesKeepTyped ==
    ASSUME Typed, RelayProofs!RelayInv', TxProofs!TxInv', RequestsNumbered',
           forwards' \subseteq DOMAIN txs', HistoryTyped',
           authorised' \subseteq Hosts, releases' \in [Hosts -> Nat],
           handlers' \in [Handlers -> Handler], \A h \in Handlers : Numbered(handlers'[h])
    PROVE  Typed'
<1>1. Relays!TypeOK'
  <2>1. RelayProofs!TypeOK'
    BY DEF RelayProofs!RelayInv
  <2>2. RelayProofs!TypeOK' <=> Relays!TypeOK'
    BY SameRelayOperations, PTL
  <2>3. QED
    BY <2>1, <2>2
<1>2. Txs!TypeOK'
  <2>1. TxProofs!TypeOK'
    BY DEF TxProofs!TxInv
  <2>2. TxProofs!TypeOK' <=> Txs!TypeOK'
    BY SameTxOperations, PTL
  <2>3. QED
    BY <2>1, <2>2
<1>3. QED
  BY <1>1, <1>2 DEF Typed, TypeOK, Numbered, Sending

\* A step of one goroutine that neither claims, takes nor sends.
LEMMA HandlerMoves ==
    ASSUME SessInv, NEW h \in Handlers, NEW y \in Handler, Numbered(y),
           handlers' = [handlers EXCEPT ![h] = y],
           UNCHANGED <<authorised, releases, claimEpoch, recounted, cutShort>>,
           RelayProofs!RelayInv', ClaimsOnlyGo, CountsOnlyFall,
           TxProofs!TxInv', RequestsNumbered', forwards' \subseteq DOMAIN txs',
           Flying' \subseteq Flying, Flying \subseteq Flying' \cup {y.relaySeq},
           Delivered' \subseteq Delivered \cup {y.relaySeq},
           QuietMove(handlers[h], y), HandlerAdmitted(y), HoldsNext(y),
           \A g \in Handlers \ {h} :
             Engaged(handlers[g]) /\ handlers[g].relaySeq \in DOMAIN reportRelays =>
               handlers[g].relaySeq \in DOMAIN reportRelays'
    PROVE  SessInv'
<1>1. /\ handlers \in [Handlers -> Handler] /\ DOMAIN reportRelays \subseteq RelaySeqs
      /\ \A g \in Handlers : Numbered(handlers[g])
      /\ releases \in [Hosts -> Nat] /\ authorised \subseteq Hosts /\ HistoryTyped
      /\ \A host \in Hosts : Relays!RelayGeneration(host) \in Nat
  BY RelayFacts DEF SessInv, Typed, TypeOK
<1>2. /\ handlers'[h] = y /\ \A g \in Handlers \ {h} : handlers'[g] = handlers[g]
      /\ handlers' \in [Handlers -> Handler] /\ \A g \in Handlers : Numbered(handlers'[g])
  BY <1>1
<1>3. Typed'
  <2>1. HistoryTyped' /\ authorised' \subseteq Hosts /\ releases' \in [Hosts -> Nat]
    BY <1>1 DEF HistoryTyped
  <2>2. QED
    BY <1>2, <2>1, TablesKeepTyped DEF SessInv
<1>4. Exchanges'
  <2>1. y.relaySeq \in Attended'
    BY <1>2, AttendedMembers
  <2>2. ASSUME NEW g \in Handlers \ {h} PROVE QuietMove(handlers[g], handlers'[g])
    BY <1>2 DEF QuietMove
  <2>3. \A g \in Handlers : QuietMove(handlers[g], handlers'[g])
    BY <1>2, <2>2
  <2>4. QED
    BY <1>1, <2>1, <2>3, QuietKeepsExchanges DEF SessInv
<1>5. Occupancies'
  <2>1. \A r \in DOMAIN reportRelays' : ClaimStands(r)
    BY DEF ClaimStands, ClaimsOnlyGo
  <2>2. \A g \in Handlers : HandlerStands(handlers[g], handlers'[g])
    BY <1>2 DEF HandlerStands, ClaimsOnlyGo
  <2>3. QED
    BY <1>1, <2>1, <2>2, StandingKeepsOccupancies DEF SessInv
<1>6. QED
  BY <1>3, <1>4, <1>5 DEF SessInv

\* A step of one goroutine that leaves the tables alone.
LEMMA LocalMove ==
    ASSUME SessInv, NEW h \in Handlers, NEW y \in Handler, Numbered(y),
           handlers' = [handlers EXCEPT ![h] = y],
           UNCHANGED <<relayVars, now, txVars, gateVars, forwards, historyVars>>,
           QuietMove(handlers[h], y), HandlerAdmitted(y),
           Engaged(y) => /\ Engaged(handlers[h]) /\ y.peer = handlers[h].peer
                         /\ y.upfSeq = handlers[h].upfSeq /\ y.epoch = handlers[h].epoch
                         /\ y.relaySeq = handlers[h].relaySeq
    PROVE  SessInv'
<1>1. RelayProofs!RelayInv' /\ ClaimsOnlyGo /\ FreshClaimsStay /\ CountsOnlyFall
  BY RelaysUnchanged DEF SessInv
<1>2. /\ UNCHANGED <<reportRelays, authorised, releases, claimEpoch, recounted, cutShort>>
      /\ UNCHANGED <<txs, forwards, consumerTable, detached>>
  BY DEF relayVars, gateVars, historyVars, txVars
<1>3. TxProofs!TxInv' /\ RequestsNumbered' /\ Flying' = Flying /\ Delivered' = Delivered
  BY <1>2, TxUnchanged DEF SessInv, Typed
<1>4. forwards' \subseteq DOMAIN txs'
  BY <1>2 DEF SessInv, Typed, TypeOK
<1>5. HoldsNext(y)
  BY <1>2, HandlerFacts DEF HoldsNext
<1>6. QED
  BY <1>1, <1>2, <1>3, <1>4, <1>5, HandlerMoves

\* A report is handed to a goroutine.
LEMMA ReadReportKeepsInv ==
    ASSUME SessInv, NEW h \in Handlers, NEW peer \in Peer, NEW upfSeq \in UpfSeqs,
           ReadReport(h, peer, upfSeq)
    PROVE  SessInv'
<1> DEFINE y == [Idle EXCEPT !.pc = "generation", !.peer = peer, !.upfSeq = upfSeq]
<1>1. /\ handlers[h].pc = "idle" /\ handlers' = [handlers EXCEPT ![h] = y]
      /\ UNCHANGED <<relayVars, now, txVars, gateVars, forwards, historyVars>>
  BY DEF ReadReport
<1>2. y \in Handler
  BY IdleFacts DEF Handler, Pcs
<1>3. y.pc = "generation" /\ y.relaySeq = NoSeq /\ y.attempts = 0
  BY DEF Idle
<1>4. handlers[h].relaySeq = NoSeq
  BY <1>1, HandlerFacts DEF Numbered
<1> HIDE DEF y
<1>5. Numbered(y) /\ ~Engaged(y) /\ HandlerAdmitted(y)
  BY <1>3 DEF Numbered, Engaged, Sending, Answering, HandlerAdmitted
<1>6. QuietMove(handlers[h], y)
  BY <1>1, <1>3, <1>4 DEF QuietMove, Sending, Answering
<1>7. QED
  BY <1>1, <1>2, <1>5, <1>6, LocalMove

\* A goroutine that holds no claim ends.
LEMMA UnclaimedEnds ==
    ASSUME SessInv, NEW h \in Handlers, handlers' = [handlers EXCEPT ![h] = Idle],
           UNCHANGED <<relayVars, now, txVars, gateVars, forwards, historyVars>>,
           ~Answering(handlers[h]),
           handlers[h].relaySeq \in DOMAIN reportRelays =>
             handlers[h].pc = "take" /\ reportRelays[handlers[h].relaySeq].answered
    PROVE  SessInv'
<1>1. reportRelays' = reportRelays
  BY DEF relayVars
<1>2. handlers[h].relaySeq = Idle.relaySeq => handlers[h].pc # "take"
  BY IdleFacts, HandlerFacts DEF Numbered
<1>3. QuietMove(handlers[h], Idle)
  BY <1>1, <1>2, IdleFacts DEF QuietMove
<1>4. QED
  BY <1>3, IdleFacts, LocalMove DEF Engaged

\* The gate's turn: the count is read, the source is let through or refused, the SMF's
\* address is read.
LEMMA GateKeepsInv ==
    ASSUME SessInv, NEW h \in Handlers,
           ReadGeneration(h) \/ PassGate(h) \/ RefuseAtGate(h) \/ ReadSmfAddr(h)
    PROVE  SessInv'
<1> DEFINE x == handlers[h]
           host == x.peer.host
<1>0. /\ x \in Handler /\ host \in Hosts /\ Numbered(x) /\ HandlerAdmitted(x)
      /\ releases[host] \in Nat /\ Relays!RelayGeneration(host) \in Nat
      /\ Relays!RelayGeneration(host) <= releases[host]
      /\ x.authorisedUnder \in Nat /\ x.forgot \in Nat /\ x.epoch \in Nat
  BY HandlerFacts, RelayFacts DEF SessInv, Occupancies, CountsLag, Typed, TypeOK
<1>a. /\ UNCHANGED <<relayVars, now, txVars, gateVars, forwards, historyVars>>
      /\ x.pc \in {"generation", "gate", "smf"}
  BY DEF ReadGeneration, PassGate, RefuseAtGate, ReadSmfAddr
<1>b. x.relaySeq = NoSeq /\ x.attempts = 0 /\ ~Answering(x) /\ ~Sending(x)
  BY <1>0, <1>a DEF Numbered, Answering, Sending
<1>c. ASSUME NEW y \in Handler, handlers' = [handlers EXCEPT ![h] = y],
             y.relaySeq = NoSeq, y.attempts = 0, y.pc \in {"gate", "smf", "claim", "answer"},
             HandlerAdmitted(y)
      PROVE  SessInv'
  <2>1. Numbered(y) /\ ~Engaged(y)
    BY <1>c DEF Numbered, Engaged, Sending, Answering
  <2>2. QuietMove(handlers[h], y)
    BY <1>a, <1>b, <1>c, <2>1 DEF QuietMove, Engaged
  <2>3. QED
    BY <1>a, <1>c, <2>1, <2>2, LocalMove
<1>1. CASE ReadGeneration(h)
  <2> DEFINE y == [x EXCEPT !.pc = "gate", !.forgot = releases[host] - Relays!RelayGeneration(host),
                            !.authorisedUnder = Relays!RelayGeneration(host)]
  <2>1. handlers' = [handlers EXCEPT ![h] = y]
    BY <1>1 DEF ReadGeneration, Forgotten
  <2>2. releases[host] - Relays!RelayGeneration(host) \in Nat
    BY <1>0
  <2>3. /\ y \in Handler /\ y.pc = "gate" /\ y.relaySeq = NoSeq /\ y.attempts = 0
        /\ y.peer.host = host
        /\ y.authorisedUnder = Relays!RelayGeneration(host)
        /\ y.forgot = releases[host] - Relays!RelayGeneration(host)
    BY <1>0, <1>b, <2>2 DEF Handler, Pcs
  <2> HIDE DEF y
  <2>4. y.authorisedUnder + y.forgot = releases[host]
    BY <1>0, <2>3
  <2>5. HandlerAdmitted(y)
    BY <1>0, <2>3, <2>4 DEF HandlerAdmitted
  <2>6. QED
    BY <1>c, <2>1, <2>3, <2>5
<1>2. CASE PassGate(h)
  <2> DEFINE y == [x EXCEPT !.pc = "smf", !.epoch = releases[host]]
  <2>1. handlers' = [handlers EXCEPT ![h] = y] /\ x.pc = "gate" /\ host \in authorised
    BY <1>2 DEF PassGate
  <2>2. /\ y \in Handler /\ y.pc = "smf" /\ y.relaySeq = NoSeq /\ y.attempts = 0
        /\ y.peer.host = host /\ y.epoch = releases[host]
        /\ y.authorisedUnder = x.authorisedUnder /\ y.forgot = x.forgot
    BY <1>0, <1>b DEF Handler, Pcs
  <2> HIDE DEF y
  <2>3. HandlerAdmitted(y)
    BY <1>0, <2>1, <2>2 DEF HandlerAdmitted, Admitted
  <2>4. QED
    BY <1>c, <2>1, <2>2, <2>3
<1>3. CASE RefuseAtGate(h)
  <2>1. handlers' = [handlers EXCEPT ![h] = Idle]
    BY <1>3 DEF RefuseAtGate
  <2>2. NoSeq \notin DOMAIN reportRelays
    BY RelayFacts, NoSeqIsNone DEF SessInv
  <2>3. QED
    BY <1>a, <1>b, <2>1, <2>2, UnclaimedEnds
<1>4. CASE ReadSmfAddr(h)
  <2> DEFINE p == IF smfKnown THEN "claim" ELSE "answer"
             y == [x EXCEPT !.pc = p]
  <2>1. handlers' = [handlers EXCEPT ![h] = y] /\ x.pc = "smf" /\ p \in {"claim", "answer"}
    BY <1>4 DEF ReadSmfAddr
  <2> HIDE DEF p
  <2>2. /\ y \in Handler /\ y.pc = p /\ y.relaySeq = NoSeq /\ y.attempts = 0
        /\ y.peer = x.peer /\ y.epoch = x.epoch
        /\ y.authorisedUnder = x.authorisedUnder /\ y.forgot = x.forgot
    BY <1>0, <1>b, <2>1 DEF Handler, Pcs
  <2> HIDE DEF y
  <2>3. HandlerAdmitted(y)
    BY <1>0, <2>1, <2>2 DEF HandlerAdmitted
  <2>4. QED
    BY <1>c, <2>1, <2>2, <2>3
<1>5. QED
  BY <1>1, <1>2, <1>3, <1>4

\* Claims of exchanges in progress are of the present lifetime: a sweep spares them, and
\* none is too old to be taken.
LEMMA EngagedIsFresh ==
    ASSUME SessInv, NEW g \in Handlers, handlers[g].relaySeq \in DOMAIN reportRelays
    PROVE  /\ reportRelays[handlers[g].relaySeq].recorded = now
           /\ ~Relays!Outlived(reportRelays[handlers[g].relaySeq], now)
<1>1. reportRelays[handlers[g].relaySeq].recorded = now
  BY AttendedMembers DEF SessInv, Exchanges, InProgressIsFresh
<1>2. QED
  BY <1>1, RelayFacts, TablesAssumption DEF Relays!Outlived, SessInv

\* RelayReportSequence claims nothing: the peer was released, the report is a copy of
\* one being relayed, or no number is free.
LEMMA NoClaimKeepsInv ==
    ASSUME SessInv, NEW h \in Handlers, ClaimNothing(h) \/ ClaimExhausted(h)
    PROVE  SessInv'
<1> DEFINE x == handlers[h]
<1>1. /\ x \in Handler /\ x.pc = "claim" /\ Numbered(x) /\ HandlerAdmitted(x)
      /\ x.peer \in Peer /\ x.upfSeq \in UpfSeqs
      /\ x.relaySeq = NoSeq /\ x.attempts = 0 /\ ~Sending(x) /\ ~Answering(x)
  BY HandlerFacts DEF ClaimNothing, ClaimExhausted, Numbered, Sending, Answering
<1>2. UNCHANGED <<txVars, gateVars, forwards, historyVars>>
  BY DEF ClaimNothing, ClaimExhausted
<1>3. NoSeq \notin DOMAIN reportRelays /\ RelayProofs!RelayInv
  BY RelayFacts, NoSeqIsNone DEF SessInv
<1>4. CASE Relays!ClaimReleased(x.peer, x.authorisedUnder) /\ ClaimNothing(h)
  <2>1. UNCHANGED <<relayVars, now>> /\ handlers' = [handlers EXCEPT ![h] = Idle]
    BY <1>4 DEF Relays!ClaimReleased, Relays!vars, Relays!relayVars, relayVars, ClaimNothing
  <2>2. QED
    BY <1>1, <1>2, <1>3, <2>1, UnclaimedEnds
<1>5. ASSUME \/ Relays!ClaimRetransmission(x.peer, x.upfSeq, now, x.authorisedUnder)
             \/ Relays!ClaimExhausted(x.peer, x.upfSeq, now, x.authorisedUnder),
             NEW y \in Handler, handlers' = [handlers EXCEPT ![h] = y],
             y.relaySeq = NoSeq, y.pc \in {"idle", "answer"}, Numbered(y), HandlerAdmitted(y)
      PROVE  SessInv'
  <2>1. RelayProofs!RelayInv' /\ ClaimsOnlyGo /\ FreshClaimsStay /\ CountsOnlyFall
    BY <1>1, <1>3, <1>5, SweepEffect
  <2>2. /\ UNCHANGED <<authorised, releases, claimEpoch, recounted, cutShort>>
        /\ UNCHANGED <<txs, forwards, consumerTable, detached>>
    BY <1>2 DEF gateVars, historyVars, txVars
  <2>3. TxProofs!TxInv' /\ RequestsNumbered' /\ Flying' = Flying /\ Delivered' = Delivered
        /\ forwards' \subseteq DOMAIN txs'
    BY <2>2, TxUnchanged DEF SessInv, Typed, TypeOK
  <2>4. QuietMove(x, y) /\ HoldsNext(y)
    BY <1>1, <1>5 DEF QuietMove, Sending, Answering, HoldsNext, Engaged
  <2>5. \A g \in Handlers : handlers[g].relaySeq \in DOMAIN reportRelays =>
          handlers[g].relaySeq \in DOMAIN reportRelays'
    BY <2>1, EngagedIsFresh DEF FreshClaimsStay
  <2>6. QED
    BY <1>5, <2>1, <2>2, <2>3, <2>4, <2>5, HandlerMoves
<1>6. CASE /\ Relays!ClaimRetransmission(x.peer, x.upfSeq, now, x.authorisedUnder)
           /\ ClaimNothing(h)
  <2>1. handlers' = [handlers EXCEPT ![h] = Idle]
    BY <1>6 DEF ClaimNothing
  <2>2. QED
    BY <1>5, <1>6, <2>1, IdleFacts
<1>7. CASE ClaimExhausted(h)
  <2> DEFINE y == [x EXCEPT !.pc = "answer"]
  <2>1. /\ handlers' = [handlers EXCEPT ![h] = y]
        /\ Relays!ClaimExhausted(x.peer, x.upfSeq, now, x.authorisedUnder)
    BY <1>7 DEF ClaimExhausted
  <2>2. /\ y \in Handler /\ y.pc = "answer" /\ y.relaySeq = NoSeq /\ y.attempts = 0
        /\ y.peer = x.peer /\ y.epoch = x.epoch
    BY <1>1 DEF Handler, Pcs
  <2> HIDE DEF y
  <2>3. Numbered(y) /\ HandlerAdmitted(y)
    BY <1>1, <2>2 DEF Numbered, Sending, HandlerAdmitted
  <2>4. QED
    BY <1>5, <2>1, <2>2, <2>3
<1>8. QED
  BY <1>4, <1>6, <1>7 DEF ClaimNothing

\* A relay that cannot be sent under its number: another is tried, or the report is
\* refused.
LEMMA UnsentKeepsInv ==
    ASSUME SessInv, NEW h \in Handlers, SendDuplicate(h) \/ SendFails(h) \/ RenumberExhausted(h)
    PROVE  SessInv'
<1> DEFINE x == handlers[h]
<1>1. PICK p \in {"renumber", "answer"} : handlers' = [handlers EXCEPT ![h] = [x EXCEPT !.pc = p]]
  BY DEF SendDuplicate, SendFails, RenumberExhausted
<1>2. UNCHANGED <<relayVars, now, txVars, gateVars, forwards, historyVars>>
  BY DEF SendDuplicate, SendFails, RenumberExhausted, Txs!PutDuplicate, Txs!vars, txVars,
         Relays!RenumberExhausted, Relays!vars, Relays!relayVars, relayVars
<1>3. x \in Handler /\ x.pc \in {"send", "renumber"} /\ Numbered(x) /\ HandlerAdmitted(x)
  BY HandlerFacts DEF SendDuplicate, SendFails, RenumberExhausted
<1> DEFINE y == [x EXCEPT !.pc = p]
<1>4. /\ y \in Handler /\ y.pc = p /\ y.relaySeq = x.relaySeq /\ y.attempts = x.attempts
      /\ y.peer = x.peer /\ y.epoch = x.epoch /\ y.upfSeq = x.upfSeq
  BY <1>3 DEF Handler, Pcs
<1>5. handlers' = [handlers EXCEPT ![h] = y]
  BY <1>1
<1> HIDE DEF y
<1>6. Numbered(y) /\ HandlerAdmitted(y) /\ Engaged(x)
  BY <1>3, <1>4 DEF Numbered, Sending, Answering, HandlerAdmitted, Engaged
<1>7. QuietMove(x, y)
  BY <1>3, <1>4 DEF QuietMove, Sending, Answering
<1>8. QED
  BY <1>2, <1>4, <1>5, <1>6, <1>7, LocalMove

\* The claim is not there to be renumbered or taken.
LEMMA NothingHeldKeepsInv ==
    ASSUME SessInv, NEW h \in Handlers, RenumberNotHeld(h) \/ TakeNothing(h)
    PROVE  SessInv'
<1>1. /\ handlers' = [handlers EXCEPT ![h] = Idle]
      /\ UNCHANGED <<relayVars, now, txVars, gateVars, forwards, historyVars>>
      /\ ~Answering(handlers[h])
  BY DEF RenumberNotHeld, TakeNothing, Relays!RenumberNotHeld, Relays!TakeNothing, Relays!vars,
         Relays!relayVars, relayVars, Answering
<1>2. CASE RenumberNotHeld(h)
  BY <1>1, <1>2, UnclaimedEnds DEF RenumberNotHeld, Relays!RenumberNotHeld
<1>3. CASE TakeNothing(h)
  <2>1. handlers[h].pc = "take" /\ ~Relays!Takeable(handlers[h].relaySeq)
    BY <1>3 DEF TakeNothing, Relays!TakeNothing
  <2>2. handlers[h].relaySeq \in DOMAIN reportRelays => reportRelays[handlers[h].relaySeq].answered
    BY <2>1, EngagedIsFresh DEF Relays!Takeable
  <2>3. QED
    BY <1>1, <2>1, <2>2, UnclaimedEnds
<1>4. QED
  BY <1>2, <1>3

\* The answer, or the refusal, is registered or cannot be.
LEMMA AnswerKeepsInv ==
    ASSUME SessInv, NEW h \in Handlers,
           AnswerFails(h) \/ \E id \in TxIds : SendAnswer(h, id)
    PROVE  SessInv'
<1> DEFINE x == handlers[h]
           y == Answered(h)
<1>1. /\ x \in Handler /\ x.pc = "answer" /\ Numbered(x) /\ HandlerAdmitted(x)
      /\ x.peer \in Peer /\ x.upfSeq \in UpfSeqs
      /\ handlers' = [handlers EXCEPT ![h] = y]
      /\ UNCHANGED <<relayVars, now, gateVars, forwards, historyVars>>
  BY HandlerFacts DEF AnswerFails, SendAnswer
<1>2. /\ y \in Handler /\ y.relaySeq = x.relaySeq
      /\ x.relaySeq = NoSeq => y = Idle
      /\ x.relaySeq # NoSeq => y.pc = "forget" /\ y.peer = x.peer /\ y.upfSeq = x.upfSeq
                               /\ y.epoch = x.epoch
  BY <1>1, IdleFacts DEF Answered, Handler, Pcs
<1> HIDE DEF y
<1>3. Numbered(y) /\ HandlerAdmitted(y)
  <2>1. CASE x.relaySeq = NoSeq
    BY <1>2, <2>1, IdleFacts
  <2>2. CASE x.relaySeq # NoSeq
    BY <1>1, <1>2, <2>2 DEF Numbered, Sending, HandlerAdmitted
  <2>3. QED
    BY <2>1, <2>2
<1>4. /\ Engaged(y) => Engaged(x) /\ y.peer = x.peer /\ y.upfSeq = x.upfSeq /\ y.epoch = x.epoch
      /\ reportRelays' = reportRelays
  BY <1>1, <1>2, IdleFacts DEF Engaged, Sending, Answering, relayVars
<1>5. QuietMove(x, y)
  BY <1>1, <1>2, <1>4, IdleFacts DEF QuietMove, Sending, Answering
<1>6. CASE AnswerFails(h)
  <2>1. UNCHANGED txVars
    BY <1>6 DEF AnswerFails
  <2>2. QED
    BY <1>1, <1>2, <1>3, <1>4, <1>5, <2>1, LocalMove
<1>7. ASSUME NEW id \in TxIds, SendAnswer(h, id) PROVE SessInv'
  <2>1. /\ x.peer \in Txs!Consumers /\ x.peer # Self /\ forwards' = forwards
        /\ Txs!PutTransaction(x.peer, x.upfSeq, id)
    BY <1>1, <1>7, TablesAssumption DEF SendAnswer, Txs!Consumers, Txs!Peer, Peer
  <2>2. TxProofs!TxInv /\ RequestsNumbered /\ forwards \subseteq DOMAIN txs
    BY DEF SessInv, Typed, TypeOK
  <2>3. /\ TxProofs!TxInv' /\ RequestsNumbered' /\ forwards' \subseteq DOMAIN txs'
        /\ Flying' = Flying /\ Delivered' = Delivered
    BY <1>1, <2>1, <2>2, TxBegins
  <2>4. RelayProofs!RelayInv' /\ ClaimsOnlyGo /\ FreshClaimsStay /\ CountsOnlyFall
    BY <1>1, RelaysUnchanged DEF SessInv
  <2>5. UNCHANGED <<authorised, releases, claimEpoch, recounted, cutShort>>
    BY <1>1 DEF gateVars, historyVars
  <2>6. HoldsNext(y)
    BY <1>2, <1>4, HandlerFacts DEF HoldsNext
  <2>7. QED
    BY <1>1, <1>2, <1>3, <1>4, <1>5, <2>3, <2>4, <2>5, <2>6, HandlerMoves
<1>8. QED
  BY <1>6, <1>7

\* The claim is forgotten once the answer is registered.
LEMMA ForgottenKeepsInv ==
    ASSUME SessInv, NEW h \in Handlers, Forget(h)
    PROVE  SessInv'
<1> DEFINE s == handlers[h].relaySeq
<1>1. /\ handlers[h].pc = "forget" /\ Relays!ForgetReportRelay(s)
      /\ handlers' = [handlers EXCEPT ![h] = Idle]
      /\ UNCHANGED <<txVars, gateVars, forwards, historyVars>>
  BY DEF Forget
<1>2. s \in RelaySeqs /\ Answering(handlers[h])
  BY <1>1, HandlerFacts DEF Numbered, Answering
<1>3. /\ RelayProofs!RelayInv' /\ ClaimsOnlyGo /\ CountsOnlyFall
      /\ DOMAIN reportRelays' = DOMAIN reportRelays \ {s}
  BY <1>1, <1>2, ForgetEffect DEF SessInv
<1>4. /\ UNCHANGED <<authorised, releases, claimEpoch, recounted, cutShort>>
      /\ UNCHANGED <<txs, forwards, consumerTable, detached>>
  BY <1>1 DEF gateVars, historyVars, txVars
<1>5. /\ TxProofs!TxInv' /\ RequestsNumbered' /\ Flying' = Flying /\ Delivered' = Delivered
      /\ forwards' \subseteq DOMAIN txs'
  BY <1>4, TxUnchanged DEF SessInv, Typed, TypeOK
<1>6. QuietMove(handlers[h], Idle)
  BY <1>1, <1>3, IdleFacts DEF QuietMove
<1>7. ASSUME NEW g \in Handlers \ {h}, Engaged(handlers[g]) PROVE handlers[g].relaySeq # s
  <2>1. handlers[g].pc # "take"
    BY <1>7 DEF Engaged, Sending, Answering
  <2>2. QED
    BY <1>2, <2>1 DEF SessInv, Exchanges, AnswererAlone
<1>8. QED
  BY <1>1, <1>3, <1>4, <1>5, <1>6, <1>7, IdleFacts, HandlerMoves

\* An answer of the SMF's, or a relay that is given up, brings a goroutine to the claim.
LEMMA TakerKeepsInv ==
    ASSUME SessInv, NEW h \in Handlers,
           \/ \E s \in RelaySeqs : ReadAnswer(h, s)
           \/ \E id \in TxIds : GiveUp(h, id)
    PROVE  SessInv'
<1>1. /\ handlers[h].pc = "idle"
      /\ UNCHANGED <<relayVars, now, gateVars, forwards, historyVars>>
  BY DEF ReadAnswer, GiveUp
<1>2. handlers[h].relaySeq = NoSeq /\ ~Sending(handlers[h]) /\ ~Answering(handlers[h])
  BY <1>1, HandlerFacts DEF Numbered, Sending, Answering
<1>3. TxProofs!TxInv /\ RequestsNumbered /\ forwards \subseteq DOMAIN txs
  BY DEF SessInv, Typed, TypeOK
<1>4. ASSUME NEW s \in RelaySeqs, s \in Flying,
             handlers' = [handlers EXCEPT ![h] = [Idle EXCEPT !.pc = "take", !.relaySeq = s]],
             TxProofs!TxInv', RequestsNumbered', forwards' \subseteq DOMAIN txs',
             Flying' \subseteq Flying, Flying \subseteq Flying' \cup {s},
             Delivered' \subseteq Delivered \cup {s}
      PROVE  SessInv'
  <2> DEFINE y == [Idle EXCEPT !.pc = "take", !.relaySeq = s]
  <2>1. y \in Handler /\ y.pc = "take" /\ y.relaySeq = s
    BY IdleFacts DEF Handler, Pcs
  <2>2. handlers' = [handlers EXCEPT ![h] = y]
    BY <1>4
  <2> HIDE DEF y
  <2>3. s # NoSeq /\ NoSeq \notin DOMAIN reportRelays
    BY NoSeqIsNone, RelayFacts DEF SessInv
  <2>4. Numbered(y) /\ HandlerAdmitted(y) /\ HoldsNext(y)
    BY <2>1, <2>3 DEF Numbered, HandlerAdmitted, HoldsNext, Engaged, Sending, Answering
  <2>5. /\ RelayProofs!RelayInv' /\ ClaimsOnlyGo /\ FreshClaimsStay /\ CountsOnlyFall
        /\ UNCHANGED <<reportRelays, authorised, releases, claimEpoch, recounted, cutShort>>
    BY <1>1, RelaysUnchanged DEF SessInv, gateVars, historyVars, relayVars
  <2>6. QuietMove(handlers[h], y)
    BY <1>1, <1>2, <1>4, <2>1, <2>3, <2>5 DEF QuietMove, Sending, Answering
  <2>7. QED
    BY <1>4, <2>1, <2>2, <2>4, <2>5, <2>6, HandlerMoves
<1>5. ASSUME NEW s \in RelaySeqs, ReadAnswer(h, s) PROVE SessInv'
  <2> DEFINE id == Txs!TxTable(Self)[s]
  <2>1. /\ Txs!Held(Self, s) /\ Txs!PostEvent(id, "valid") /\ id = consumerTable[Self][s]
    BY <1>5 DEF ReadAnswer, Txs!AcceptResponse, Txs!ReceiveValidResponse, Txs!Held, Txs!TxTable,
                Txs!At, Txs!EmptyMap
  <2>2. id \in DOMAIN txs /\ txs[id].consumer = Self /\ txs[id].seq = s
    BY <1>3, <2>1, TxFacts
  <2>3. handlers' = [handlers EXCEPT ![h] = [Idle EXCEPT !.pc = "take", !.relaySeq = s]]
    BY <1>5 DEF ReadAnswer
  <2> HIDE DEF id
  <2>4. s \in Flying
    BY <1>5, FlyingMembers DEF ReadAnswer, Txs!IsRequest
  <2>5. /\ TxProofs!TxInv' /\ RequestsNumbered' /\ forwards' \subseteq DOMAIN txs'
        /\ Flying' = Flying /\ Delivered' \subseteq Delivered \cup {s}
    BY <1>1, <1>3, <2>1, <2>2, PostEffect
  <2>6. QED
    BY <1>4, <2>3, <2>4, <2>5
<1>6. ASSUME NEW id \in TxIds, GiveUp(h, id) PROVE SessInv'
  <2>1. /\ Txs!ErrHandler(id) /\ id \in DOMAIN txs /\ txs' = Txs!Without(txs, {id})
        /\ txs[id].consumer = Self /\ id \notin forwards
        /\ handlers' = [handlers EXCEPT ![h] = [Idle EXCEPT !.pc = "take", !.relaySeq = txs[id].seq]]
    BY <1>6 DEF GiveUp, Txs!ErrHandler, Txs!IsRequest
  <2>2. txs[id].seq \in RelaySeqs /\ txs[id].seq \in Flying
    BY <1>3, <2>1, FlyingMembers, RequestMembers
  <2>3. forwards' = forwards \cap DOMAIN txs'
    BY <1>1, <1>3, <2>1 DEF Txs!Without
  <2>4. /\ RequestsNumbered' /\ forwards' \subseteq DOMAIN txs'
        /\ Flying' \subseteq Flying /\ Delivered' \subseteq Delivered
        /\ Flying \subseteq Flying' \cup {txs[id].seq}
    BY <1>3, <2>1, <2>3, TxEnds
  <2>5. TxProofs!TxInv'
    BY <1>3, <2>1, SameTxOperations, TxProofs!EndKeepsInv, TablesAssumption
       DEF TxProofs!EndKeepsInv, TxProofs!ResendAssumption, TxProofs!SelfAssumption
  <2>6. QED
    BY <1>4, <2>1, <2>2, <2>4, <2>5
<1>7. QED
  BY <1>5, <1>6

\* An exchange in progress is one a fresh number must not be taken from.
LEMMA NotInProgressFacts ==
    ASSUME NEW s, NotInProgress(s)
    PROVE  s \notin Flying \cup Attended
BY FlyingMembers, AttendedMembers DEF NotInProgress, Txs!IsRequest

\* A fresh claim keeps the invariant.  That it is current unless the count it quotes
\* was forgotten is where the count, the gate and the releases meet: the releases the
\* handler read of are those there are now, and the gate let it through in between.
LEMMA ClaimFreshKeepsInv ==
    ASSUME SessInv, NEW h \in Handlers, NEW s \in RelaySeqs, ClaimFresh(h, s)
    PROVE  SessInv'
<1> DEFINE x == handlers[h]
           host == x.peer.host
           y == [x EXCEPT !.pc = "send", !.relaySeq = s]
<1>1. /\ x.pc = "claim" /\ s \notin Flying \cup Attended
      /\ Relays!ClaimFresh(x.peer, x.upfSeq, now, x.authorisedUnder, s)
      /\ handlers' = [handlers EXCEPT ![h] = y]
      /\ claimEpoch' = [claimEpoch EXCEPT ![s] = x.epoch]
      /\ recounted' = IF x.forgot = Forgotten(host) THEN recounted \ {s} ELSE recounted \cup {s}
      /\ cutShort' = cutShort \ {s}
      /\ UNCHANGED <<txVars, gateVars, forwards>>
  BY NotInProgressFacts DEF ClaimFresh
<1>2. /\ x \in Handler /\ Numbered(x) /\ HandlerAdmitted(x) /\ handlers \in [Handlers -> Handler]
      /\ x.peer \in Peer /\ host \in Hosts /\ x.upfSeq \in UpfSeqs /\ x.epoch \in Nat
      /\ x.authorisedUnder \in Nat /\ x.forgot \in Nat
      /\ x.relaySeq = NoSeq /\ x.attempts = 0 /\ ~Answering(x)
  BY <1>1, HandlerFacts DEF Numbered, Answering
<1>3. /\ y \in Handler /\ y.pc = "send" /\ y.relaySeq = s /\ y.attempts = 0
      /\ y.peer = x.peer /\ y.upfSeq = x.upfSeq /\ y.epoch = x.epoch
  BY <1>2 DEF Handler, Pcs
<1> HIDE DEF y
<1>4. /\ RelayProofs!RelayInv' /\ now' = now
      /\ s \in DOMAIN reportRelays'
      /\ reportRelays'[s] =
           [upfAddr |-> x.peer, upfSeq |-> x.upfSeq, recorded |-> now, answered |-> FALSE]
      /\ DOMAIN reportRelays' \subseteq DOMAIN reportRelays \cup {s}
      /\ \A r \in DOMAIN reportRelays' \ {s} : reportRelays'[r] = reportRelays[r]
      /\ FreshClaimsStay /\ CountsOnlyFall
      /\ Relays!RelayGeneration(host) = x.authorisedUnder
  BY <1>1, <1>2, ClaimEffect DEF SessInv
<1>5. /\ reportRelays'[s].upfAddr = x.peer /\ reportRelays'[s].upfSeq = x.upfSeq
      /\ reportRelays'[s].recorded = now /\ ~reportRelays'[s].answered
  BY <1>4
<1>6. /\ UNCHANGED <<authorised, releases>>
      /\ UNCHANGED <<txs, forwards, consumerTable, detached>>
  BY <1>1 DEF gateVars, txVars
<1>7. /\ TxProofs!TxInv' /\ RequestsNumbered' /\ Flying' = Flying /\ Delivered' = Delivered
      /\ forwards' \subseteq DOMAIN txs'
  BY <1>6, TxUnchanged DEF SessInv, Typed, TypeOK
<1>8. /\ releases \in [Hosts -> Nat] /\ authorised \subseteq Hosts /\ HistoryTyped
      /\ \A g \in Handlers : Numbered(handlers[g])
      /\ \A o \in Hosts : Relays!RelayGeneration(o) \in Nat
      /\ DOMAIN reportRelays \subseteq RelaySeqs
  BY RelayFacts DEF SessInv, Typed, TypeOK
<1>9. s # NoSeq /\ NoSeq \notin DOMAIN reportRelays
  BY <1>8, NoSeqIsNone
<1>10. Numbered(y) /\ Sending(y)
  BY <1>3, <1>9, AttemptsAssumption DEF Numbered, Sending
<1>11. Typed'
  <2>1. /\ handlers' \in [Handlers -> Handler]
        /\ \A g \in Handlers : Numbered(handlers'[g])
    BY <1>1, <1>2, <1>3, <1>8, <1>10
  <2>2. HistoryTyped'
    BY <1>1, <1>2, <1>8 DEF HistoryTyped
  <2>3. QED
    BY <1>4, <1>6, <1>7, <1>8, <2>1, <2>2, TablesKeepTyped DEF SessInv
<1>12. Exchanges'
  <2>1. handlers[h].relaySeq \notin DOMAIN reportRelays'
    BY <1>2, <1>4, <1>9
  <2>2. QED
    BY <1>1, <1>2, <1>3, <1>4, <1>5, <1>6, <1>7, <1>8, <1>10, <2>1, EnterKeepsExchanges DEF SessInv
<1>13. Admitted(host, x.epoch) /\ x.authorisedUnder + x.forgot <= x.epoch
  BY <1>1, <1>2 DEF HandlerAdmitted
<1>14. x.forgot = Forgotten(host) => Current(host, x.epoch)
  <2>1. releases[host] \in Nat
    BY <1>2, <1>8
  <2>2. x.forgot = Forgotten(host) => x.authorisedUnder + x.forgot = releases[host]
    BY <1>2, <1>4, <2>1 DEF Forgotten
  <2>3. QED
    BY <1>2, <1>13, <2>1, <2>2 DEF Admitted, Current
<1>15. Occupancies'
  <2>1. ClaimStands(s)
    <3>1. claimEpoch'[s] = x.epoch
      BY <1>1, <1>8 DEF HistoryTyped
    <3>2. s \in recounted' \/ x.forgot = Forgotten(host)
      BY <1>1
    <3>3. QED
      BY <1>5, <1>13, <1>14, <3>1, <3>2 DEF ClaimStands
  <2>2. ASSUME NEW r \in DOMAIN reportRelays' \ {s} PROVE ClaimStands(r)
    <3>1. /\ claimEpoch'[r] = claimEpoch[r]
          /\ r \in recounted => r \in recounted'
      BY <1>1, <1>4, <1>8 DEF HistoryTyped
    <3>2. QED
      BY <1>4, <3>1 DEF ClaimStands
  <2>3. HandlerAdmitted(y) /\ HoldsNext(y)
    BY <1>3, <1>4, <1>5, <1>13 DEF HandlerAdmitted, HoldsNext
  <2>4. ASSUME NEW g \in Handlers \ {h} PROVE HandlerStands(handlers[g], handlers'[g])
    <3>1. handlers'[g] = handlers[g] /\ handlers[g].relaySeq # s
      BY <1>1, <1>2, AttendedMembers
    <3>2. handlers[g].relaySeq \in DOMAIN reportRelays =>
            handlers[g].relaySeq \in DOMAIN reportRelays'
      BY <1>4, EngagedIsFresh DEF FreshClaimsStay
    <3>3. QED
      BY <1>4, <3>1, <3>2 DEF HandlerStands
  <2>5. handlers'[h] = y
    BY <1>1, <1>2
  <2>6. \A g \in Handlers : HandlerStands(handlers[g], handlers'[g])
    BY <2>3, <2>4, <2>5 DEF HandlerStands
  <2>7. QED
    BY <1>4, <1>6, <1>8, <2>1, <2>2, <2>6, StandingKeepsOccupancies DEF SessInv
<1>16. QED
  BY <1>4, <1>7, <1>11, <1>12, <1>15 DEF SessInv

\* A claim moved to another number takes its report, its date and its occupancy along.
LEMMA RenumberRelayKeepsInv ==
    ASSUME SessInv, NEW h \in Handlers, NEW s \in RelaySeqs, RenumberRelay(h, s)
    PROVE  SessInv'
<1> DEFINE x == handlers[h]
           old == x.relaySeq
           tried == x.attempts + 1
           p == IF tried < RelaySendAttempts THEN "send" ELSE "answer"
           y == [x EXCEPT !.relaySeq = s, !.attempts = tried, !.pc = p]
<1>1. /\ x.pc = "renumber" /\ s \notin Flying \cup Attended
      /\ Relays!Renumber(old, s)
      /\ handlers' = [handlers EXCEPT ![h] = y]
      /\ claimEpoch' = [claimEpoch EXCEPT ![s] = claimEpoch[old]]
      /\ recounted' = IF old \in recounted THEN recounted \cup {s} ELSE recounted \ {s}
      /\ cutShort' = cutShort \ {s}
      /\ UNCHANGED <<txVars, gateVars, forwards>>
  BY NotInProgressFacts DEF RenumberRelay
<1>2. /\ x \in Handler /\ Numbered(x) /\ HandlerAdmitted(x) /\ handlers \in [Handlers -> Handler]
      /\ old \in RelaySeqs /\ Sending(x) /\ ~Answering(x)
      /\ x.attempts \in Nat /\ x.attempts < RelaySendAttempts
  BY <1>1, HandlerFacts, AttemptsAssumption DEF Numbered, Answering, Sending
<1>3. tried \in 0..RelaySendAttempts /\ p \in {"send", "answer"}
      /\ (p = "send" => tried < RelaySendAttempts)
  BY <1>2, AttemptsAssumption
<1> HIDE DEF p, tried
<1>4. /\ y \in Handler /\ y.pc = p /\ y.relaySeq = s /\ y.attempts = tried
      /\ y.peer = x.peer /\ y.upfSeq = x.upfSeq /\ y.epoch = x.epoch
  BY <1>2, <1>3 DEF Handler, Pcs
<1> HIDE DEF y
<1>5. /\ RelayProofs!RelayInv' /\ now' = now /\ CountsOnlyFall
      /\ old \in DOMAIN reportRelays /\ s \notin DOMAIN reportRelays
      /\ DOMAIN reportRelays' = (DOMAIN reportRelays \ {old}) \cup {s}
      /\ reportRelays'[s] = reportRelays[old]
      /\ \A r \in DOMAIN reportRelays' \ {s} : reportRelays'[r] = reportRelays[r]
  BY <1>1, <1>2, RenumberEffect DEF SessInv
<1>6. /\ UNCHANGED <<authorised, releases>>
      /\ UNCHANGED <<txs, forwards, consumerTable, detached>>
  BY <1>1 DEF gateVars, txVars
<1>7. /\ TxProofs!TxInv' /\ RequestsNumbered' /\ Flying' = Flying /\ Delivered' = Delivered
      /\ forwards' \subseteq DOMAIN txs'
  BY <1>6, TxUnchanged DEF SessInv, Typed, TypeOK
<1>8. /\ releases \in [Hosts -> Nat] /\ authorised \subseteq Hosts /\ HistoryTyped
      /\ \A g \in Handlers : Numbered(handlers[g])
      /\ \A o \in Hosts : Relays!RelayGeneration(o) \in Nat
      /\ DOMAIN reportRelays \subseteq RelaySeqs
  BY RelayFacts DEF SessInv, Typed, TypeOK
<1>9. /\ s # NoSeq
      /\ \A g \in Handlers \ {h} : handlers[g].relaySeq # old
      /\ reportRelays[old].recorded = now /\ ~reportRelays[old].answered
  BY <1>2, <1>5, NoSeqIsNone, EngagedIsFresh DEF SessInv, Exchanges, SenderAlone, Unanswered
<1>10. Numbered(y) /\ (Sending(y) \/ Answering(y))
  BY <1>3, <1>4, <1>9 DEF Numbered, Sending, Answering
<1>11. Typed'
  <2>1. /\ handlers' \in [Handlers -> Handler]
        /\ \A g \in Handlers : Numbered(handlers'[g])
    BY <1>1, <1>2, <1>4, <1>8, <1>10
  <2>2. HistoryTyped'
    BY <1>1, <1>2, <1>8 DEF HistoryTyped
  <2>3. QED
    BY <1>5, <1>6, <1>7, <1>8, <2>1, <2>2, TablesKeepTyped DEF SessInv
<1>12. Exchanges'
  <2>1. handlers[h].relaySeq \notin DOMAIN reportRelays'
    BY <1>5
  <2>2. QED
    BY <1>1, <1>2, <1>4, <1>5, <1>6, <1>7, <1>8, <1>9, <1>10, <2>1, EnterKeepsExchanges DEF SessInv
<1>13. Occupancies'
  <2>1. ClaimStands(s)
    <3>1. claimEpoch'[s] = claimEpoch[old] /\ (s \in recounted' \/ old \notin recounted)
      BY <1>1, <1>8 DEF HistoryTyped
    <3>2. /\ Admitted(reportRelays[old].upfAddr.host, claimEpoch[old])
          /\ old \notin recounted => Current(reportRelays[old].upfAddr.host, claimEpoch[old])
      BY <1>5 DEF SessInv, Occupancies, ClaimsAdmitted, ClaimsAreCurrent
    <3>3. QED
      BY <1>5, <3>1, <3>2 DEF ClaimStands
  <2>2. ASSUME NEW r \in DOMAIN reportRelays' \ {s} PROVE ClaimStands(r)
    <3>1. /\ claimEpoch'[r] = claimEpoch[r]
          /\ r \in recounted => r \in recounted'
      BY <1>1, <1>5, <1>8 DEF HistoryTyped
    <3>2. QED
      BY <1>5, <3>1 DEF ClaimStands
  <2>3. HandlerAdmitted(y)
    BY <1>1, <1>2, <1>3, <1>4 DEF HandlerAdmitted
  <2>4. HoldsNext(y)
    BY <1>2, <1>4, <1>5, HandlerFacts DEF HoldsNext, Engaged
  <2>5. ASSUME NEW g \in Handlers \ {h} PROVE HandlerStands(handlers[g], handlers'[g])
    <3>1. handlers'[g] = handlers[g] /\ handlers[g].relaySeq # s /\ handlers[g].relaySeq # old
      BY <1>1, <1>2, <1>9, AttendedMembers
    <3>2. QED
      BY <1>5, <3>1 DEF HandlerStands
  <2>6. handlers'[h] = y
    BY <1>1, <1>2
  <2>7. \A g \in Handlers : HandlerStands(handlers[g], handlers'[g])
    BY <2>3, <2>4, <2>5, <2>6 DEF HandlerStands
  <2>8. QED
    BY <1>5, <1>6, <1>8, <2>1, <2>2, <2>7, StandingKeepsOccupancies DEF SessInv
<1>14. QED
  BY <1>5, <1>7, <1>11, <1>12, <1>13 DEF SessInv

\* The claim is taken for answering.
LEMMA TakeRelayKeepsInv ==
    ASSUME SessInv, NEW h \in Handlers, TakeRelay(h)
    PROVE  SessInv'
<1> DEFINE x == handlers[h]
           s == x.relaySeq
           y == [x EXCEPT !.pc = "answer", !.peer = reportRelays[s].upfAddr,
                          !.upfSeq = reportRelays[s].upfSeq, !.epoch = claimEpoch[s]]
<1>1. /\ x.pc = "take" /\ Relays!Take(s)
      /\ handlers' = [handlers EXCEPT ![h] = y]
      /\ UNCHANGED <<txVars, gateVars, forwards, historyVars>>
  BY DEF TakeRelay
<1>2. x \in Handler /\ Numbered(x) /\ handlers \in [Handlers -> Handler] /\ s \in RelaySeqs
  BY <1>1, HandlerFacts DEF Numbered
<1>3. /\ RelayProofs!RelayInv' /\ now' = now /\ CountsOnlyFall
      /\ s \in DOMAIN reportRelays /\ ~reportRelays[s].answered
      /\ DOMAIN reportRelays' = DOMAIN reportRelays
      /\ reportRelays'[s] = [reportRelays[s] EXCEPT !.answered = TRUE]
      /\ \A r \in DOMAIN reportRelays \ {s} : reportRelays'[r] = reportRelays[r]
  BY <1>1, <1>2, TakeEffect DEF SessInv
<1>4. /\ reportRelays[s].upfAddr \in Peer /\ reportRelays[s].upfSeq \in UpfSeqs
      /\ reportRelays'[s].upfAddr = reportRelays[s].upfAddr
      /\ reportRelays'[s].upfSeq = reportRelays[s].upfSeq
      /\ reportRelays'[s].recorded = reportRelays[s].recorded
      /\ reportRelays'[s].answered
  <2>1. /\ reportRelays[s].upfAddr \in Peer /\ reportRelays[s].upfSeq \in UpfSeqs
        /\ reportRelays[s] = [upfAddr |-> reportRelays[s].upfAddr, upfSeq |-> reportRelays[s].upfSeq,
             recorded |-> reportRelays[s].recorded, answered |-> reportRelays[s].answered]
    BY <1>3, RelayFacts DEF SessInv
  <2>2. QED
    BY <1>3, <2>1
<1>5. /\ releases \in [Hosts -> Nat] /\ authorised \subseteq Hosts /\ HistoryTyped
      /\ \A g \in Handlers : Numbered(handlers[g])
      /\ \A o \in Hosts : Relays!RelayGeneration(o) \in Nat
  BY RelayFacts DEF SessInv, Typed, TypeOK
<1>6. /\ y \in Handler /\ y.pc = "answer" /\ y.relaySeq = s
      /\ y.peer = reportRelays[s].upfAddr /\ y.upfSeq = reportRelays[s].upfSeq
      /\ y.epoch = claimEpoch[s]
  <2>1. claimEpoch[s] \in Nat
    BY <1>2, <1>5 DEF HistoryTyped
  <2>2. QED
    BY <1>2, <1>4, <2>1 DEF Handler, Pcs
<1> HIDE DEF y
<1>7. /\ UNCHANGED <<authorised, releases, claimEpoch, recounted, cutShort>>
      /\ UNCHANGED <<txs, forwards, consumerTable, detached>>
  BY <1>1 DEF gateVars, historyVars, txVars
<1>8. /\ TxProofs!TxInv' /\ RequestsNumbered' /\ Flying' = Flying /\ Delivered' = Delivered
      /\ forwards' \subseteq DOMAIN txs'
  BY <1>7, TxUnchanged DEF SessInv, Typed, TypeOK
<1>9. Numbered(y) /\ Answering(y) /\ ~Sending(y)
  BY <1>2, <1>6, NoSeqIsNone DEF Numbered, Sending, Answering
<1>10. Typed'
  <2>1. /\ handlers' \in [Handlers -> Handler]
        /\ \A g \in Handlers : Numbered(handlers'[g])
    BY <1>1, <1>2, <1>5, <1>6, <1>9
  <2>2. HistoryTyped' /\ authorised' \subseteq Hosts /\ releases' \in [Hosts -> Nat]
    BY <1>5, <1>7 DEF HistoryTyped
  <2>3. QED
    BY <1>3, <1>8, <2>1, <2>2, TablesKeepTyped DEF SessInv
<1>11. Exchanges'
  <2>1. Unanswered(y.relaySeq)
    BY <1>3, <1>6 DEF Unanswered
  <2>2. QED
    BY <1>1, <1>2, <1>3, <1>4, <1>5, <1>6, <1>7, <1>8, <1>9, <2>1, TakeKeepsExchanges DEF SessInv
<1>12. Occupancies'
  <2>1. \A r \in DOMAIN reportRelays' : ClaimStands(r)
    BY <1>3, <1>4, <1>7 DEF ClaimStands
  <2>2. HandlerAdmitted(y) /\ HoldsNext(y)
    <3>1. Admitted(y.peer.host, y.epoch)
      BY <1>3, <1>6 DEF SessInv, Occupancies, ClaimsAdmitted
    <3>2. QED
      BY <1>3, <1>4, <1>6, <3>1 DEF HandlerAdmitted, HoldsNext
  <2>3. handlers'[h] = y /\ \A g \in Handlers \ {h} : handlers'[g] = handlers[g]
    BY <1>1, <1>2
  <2>4. ASSUME NEW g \in Handlers \ {h} PROVE HandlerStands(handlers[g], handlers'[g])
    BY <1>3, <1>4, <2>3 DEF HandlerStands
  <2>5. \A g \in Handlers : HandlerStands(handlers[g], handlers'[g])
    BY <2>2, <2>3, <2>4 DEF HandlerStands
  <2>6. QED
    BY <1>3, <1>5, <1>7, <2>1, <2>5, StandingKeepsOccupancies DEF SessInv
<1>13. QED
  BY <1>3, <1>8, <1>10, <1>11, <1>12 DEF SessInv

\* The relay is sent.
LEMMA SendRelayKeepsInv ==
    ASSUME SessInv, NEW h \in Handlers, NEW id \in TxIds, SendRelay(h, id)
    PROVE  SessInv'
<1> DEFINE s == handlers[h].relaySeq
<1>1. /\ handlers[h].pc = "send" /\ Txs!PutTransaction(Self, s, id)
      /\ handlers' = [handlers EXCEPT ![h] = Idle]
      /\ UNCHANGED <<relayVars, now, gateVars, forwards, historyVars>>
  BY DEF SendRelay
<1>2. /\ handlers \in [Handlers -> Handler] /\ s \in RelaySeqs /\ Sending(handlers[h])
      /\ \A g \in Handlers : Numbered(handlers[g])
      /\ releases \in [Hosts -> Nat] /\ authorised \subseteq Hosts /\ HistoryTyped
      /\ \A o \in Hosts : Relays!RelayGeneration(o) \in Nat
      /\ DOMAIN reportRelays \subseteq RelaySeqs
  BY <1>1, HandlerFacts, RelayFacts DEF Numbered, Sending, SessInv, Typed, TypeOK
<1>3. TxProofs!TxInv /\ RequestsNumbered /\ forwards \subseteq DOMAIN txs /\ Self \in Txs!Consumers
  BY DEF SessInv, Typed, TypeOK, Txs!Consumers
<1>4. /\ TxProofs!TxInv' /\ RequestsNumbered' /\ forwards' \subseteq DOMAIN txs'
      /\ Flying' = Flying \cup {s} /\ Delivered' = Delivered
  BY <1>1, <1>2, <1>3, TxBegins
<1>5. /\ RelayProofs!RelayInv' /\ ClaimsOnlyGo /\ FreshClaimsStay /\ CountsOnlyFall
      /\ UNCHANGED <<reportRelays, now, authorised, releases, claimEpoch, recounted, cutShort>>
  BY <1>1, RelaysUnchanged DEF SessInv, gateVars, historyVars, relayVars
<1>6. Typed'
  <2>1. /\ handlers' \in [Handlers -> Handler]
        /\ \A g \in Handlers : Numbered(handlers'[g])
    BY <1>1, <1>2, IdleFacts
  <2>2. HistoryTyped' /\ authorised' \subseteq Hosts /\ releases' \in [Hosts -> Nat]
    BY <1>2, <1>5 DEF HistoryTyped
  <2>3. QED
    BY <1>4, <1>5, <2>1, <2>2, TablesKeepTyped DEF SessInv
<1>7. Exchanges'
  BY <1>1, <1>2, <1>4, <1>5, IdleFacts, SendKeepsExchanges DEF SessInv
<1>8. Occupancies'
  <2>1. \A r \in DOMAIN reportRelays' : ClaimStands(r)
    BY <1>5 DEF ClaimStands
  <2>2. handlers'[h] = Idle /\ \A g \in Handlers \ {h} : handlers'[g] = handlers[g]
    BY <1>1, <1>2
  <2>3. \A g \in Handlers : HandlerStands(handlers[g], handlers'[g])
    BY <1>5, <2>2, IdleFacts DEF HandlerStands
  <2>4. QED
    BY <1>2, <1>5, <2>1, <2>3, StandingKeepsOccupancies DEF SessInv
<1>9. QED
  BY <1>4, <1>5, <1>6, <1>7, <1>8 DEF SessInv

\* A step of the transactions alone.  A late response may end a relay whose claim then
\* waits for nothing: its number is in cutShort.
LEMMA TxMoves ==
    ASSUME SessInv,
           UNCHANGED <<relayVars, now, authorised, releases, handlers, claimEpoch, recounted>>,
           cutShort \subseteq cutShort',
           TxProofs!TxInv', RequestsNumbered', forwards' \subseteq DOMAIN txs',
           Flying' \subseteq Flying, Flying \subseteq Flying' \cup Delivered,
           Delivered' \subseteq Delivered \cup cutShort'
    PROVE  SessInv'
<1>1. /\ RelayProofs!RelayInv' /\ ClaimsOnlyGo /\ FreshClaimsStay /\ CountsOnlyFall
      /\ UNCHANGED <<reportRelays, handlers>>
  BY RelaysUnchanged DEF SessInv, relayVars
<1>2. /\ releases \in [Hosts -> Nat] /\ authorised \subseteq Hosts /\ HistoryTyped
      /\ \A g \in Handlers : Numbered(handlers[g])
      /\ \A o \in Hosts : Relays!RelayGeneration(o) \in Nat
      /\ DOMAIN reportRelays \subseteq RelaySeqs /\ handlers \in [Handlers -> Handler]
  BY RelayFacts DEF SessInv, Typed, TypeOK
<1>3. Typed'
  <2>1. HistoryTyped'
    BY <1>2 DEF HistoryTyped
  <2>2. QED
    BY <1>1, <1>2, <2>1, TablesKeepTyped DEF SessInv
<1>4. Exchanges'
  <2>1. \A g \in Handlers : QuietMove(handlers[g], handlers'[g])
    BY <1>1 DEF QuietMove
  <2>2. Attended' = Attended
    BY <1>1 DEF Attended
  <2>3. Flying \cap (DOMAIN reportRelays' \ cutShort') \subseteq Flying' \cup Attended'
    BY <1>1, <2>2 DEF SessInv, Exchanges, ResponseHasTaker
  <2>4. QED
    BY <1>1, <1>2, <2>1, <2>3, QuietKeepsExchanges DEF SessInv
<1>5. Occupancies'
  <2>1. \A r \in DOMAIN reportRelays' : ClaimStands(r)
    BY <1>1 DEF ClaimStands
  <2>2. \A g \in Handlers : HandlerStands(handlers[g], handlers'[g])
    BY <1>1 DEF HandlerStands
  <2>3. QED
    BY <1>1, <1>2, <2>1, <2>2, StandingKeepsOccupancies DEF SessInv
<1>6. QED
  BY <1>1, <1>3, <1>4, <1>5 DEF SessInv

\* A step that leaves the transactions alone too.
LEMMA NothingMoves ==
    ASSUME SessInv,
           UNCHANGED <<relayVars, now, authorised, releases, handlers, historyVars, txVars, forwards>>
    PROVE  SessInv'
<1>1. UNCHANGED <<txs, consumerTable, detached, cutShort, claimEpoch, recounted>>
  BY DEF txVars, historyVars
<1>2. /\ TxProofs!TxInv' /\ RequestsNumbered' /\ Flying' = Flying /\ Delivered' = Delivered
      /\ forwards' \subseteq DOMAIN txs'
  BY <1>1, TxUnchanged DEF SessInv, Typed, TypeOK
<1>3. QED
  BY <1>1, <1>2, TxMoves

\* The read loop and the SMF's own requests touch the transactions.
LEMMA ReadLoopKeepsInv ==
    ASSUME SessInv,
           \/ \E peer \in Peer, upfSeq \in UpfSeqs : AbsorbReport(peer, upfSeq)
           \/ \E s \in RelaySeqs, id \in TxIds : Forward(s, id)
           \/ \E s \in RelaySeqs : ForwardAnswered(s)
    PROVE  SessInv'
<1>1. TxProofs!TxInv /\ RequestsNumbered /\ forwards \subseteq DOMAIN txs /\ Self \in Txs!Consumers
  BY DEF SessInv, Typed, TypeOK, Txs!Consumers
<1>2. /\ UNCHANGED <<relayVars, now, authorised, releases, handlers, claimEpoch, recounted>>
      /\ cutShort \subseteq cutShort'
  BY DEF AbsorbReport, Forward, ForwardAnswered, gateVars, historyVars
<1>3. ASSUME NEW peer \in Peer, NEW upfSeq \in UpfSeqs, AbsorbReport(peer, upfSeq) PROVE SessInv'
  <2> DEFINE id == Txs!TxTable(peer)[upfSeq]
  <2>1. Txs!Held(peer, upfSeq) /\ Txs!PostEvent(id, "resend") /\ forwards' = forwards
    BY <1>3 DEF AbsorbReport, Txs!AbsorbResend, Txs!ReceiveResendRequest
  <2>2. id \in DOMAIN txs /\ txs[id].consumer # Self
    BY <1>1, <2>1, TxFacts, TablesAssumption DEF Peer
  <2> HIDE DEF id
  <2>3. /\ TxProofs!TxInv' /\ RequestsNumbered' /\ forwards' \subseteq DOMAIN txs'
        /\ Flying' = Flying /\ Delivered' \subseteq Delivered
    BY <1>1, <2>1, <2>2, PostEffect
  <2>4. QED
    BY <1>2, <2>3, TxMoves
<1>4. ASSUME NEW s \in RelaySeqs, NEW id \in TxIds, Forward(s, id) PROVE SessInv'
  <2>1. Txs!PutTransaction(Self, s, id) /\ forwards' = forwards \cup {id}
    BY <1>4 DEF Forward
  <2>2. /\ TxProofs!TxInv' /\ RequestsNumbered' /\ forwards' \subseteq DOMAIN txs'
        /\ Flying' = Flying /\ Delivered' = Delivered
    BY <1>1, <2>1, TxBegins
  <2>3. QED
    BY <1>2, <2>2, TxMoves
<1>5. ASSUME NEW s \in RelaySeqs, ForwardAnswered(s) PROVE SessInv'
  <2> DEFINE id == Txs!TxTable(Self)[s]
  <2>1. /\ Txs!Held(Self, s) /\ Txs!PostEvent(id, "valid") /\ forwards' = forwards
        /\ id = consumerTable[Self][s]
    BY <1>5 DEF ForwardAnswered, Txs!AcceptResponse, Txs!ReceiveValidResponse, Txs!Held,
                Txs!TxTable, Txs!At, Txs!EmptyMap
  <2>2. /\ id \in DOMAIN txs /\ txs[id].seq = s
        /\ id \in forwards \/ s \in cutShort' \/ txs[id].event # Txs!NoEvent
    BY <1>1, <1>5, <2>1, TxFacts DEF ForwardAnswered
  <2> HIDE DEF id
  <2>3. /\ TxProofs!TxInv' /\ RequestsNumbered' /\ forwards' \subseteq DOMAIN txs'
        /\ Flying' = Flying
        /\ Delivered' \subseteq Delivered \cup (Flying \cap {s})
        /\ id \in forwards => Delivered' \subseteq Delivered
    BY <1>1, <2>1, <2>2, PostEffect
  <2>4. txs[id].event # Txs!NoEvent => Delivered' = Delivered
    BY <2>1, TxUnchanged DEF Txs!PostEvent, Txs!Posted, Delivered, Relaying, Txs!IsRequest
  <2>5. Delivered' \subseteq Delivered \cup cutShort'
    BY <2>2, <2>3, <2>4
  <2>6. QED
    BY <1>2, <2>3, <2>5, TxMoves
<1>6. QED
  BY <1>3, <1>4, <1>5

\* So does the goroutine of a transaction.
LEMMA TxStepKeepsInv ==
    ASSUME SessInv, NEW id \in TxIds, TxStep(id)
    PROVE  SessInv'
<1>1. TxProofs!TxInv /\ RequestsNumbered /\ forwards \subseteq DOMAIN txs
  BY DEF SessInv, Typed, TypeOK
<1>2. /\ UNCHANGED <<relayVars, now, authorised, releases, handlers, claimEpoch, recounted>>
      /\ cutShort \subseteq cutShort'
  BY DEF TxStep, gateVars
<1>3. QED
  BY <1>1, <1>2, TxStepEffect, TxMoves

\* The gate opens and closes.
LEMMA GateChangesKeepInv ==
    ASSUME SessInv, NEW host \in Hosts, Authorise(host) \/ Release(host) \/ ForgetConsumer(host)
    PROVE  SessInv'
<1>1. /\ releases \in [Hosts -> Nat] /\ authorised \subseteq Hosts /\ HistoryTyped
      /\ \A g \in Handlers : Numbered(handlers[g])
      /\ \A o \in Hosts : Relays!RelayGeneration(o) \in Nat
      /\ \A s \in DOMAIN reportRelays : reportRelays[s].upfAddr \in Peer
      /\ DOMAIN reportRelays \subseteq RelaySeqs /\ handlers \in [Handlers -> Handler]
      /\ TxProofs!TxInv /\ RequestsNumbered /\ forwards \subseteq DOMAIN txs
  BY RelayFacts DEF SessInv, Typed, TypeOK
<1>2. UNCHANGED <<handlers, forwards, claimEpoch, recounted, cutShort>>
  BY DEF Authorise, Release, ForgetConsumer, historyVars
<1>3. HistoryTyped'
  BY <1>1, <1>2 DEF HistoryTyped
<1>4. ASSUME UNCHANGED txVars
      PROVE  /\ TxProofs!TxInv' /\ RequestsNumbered' /\ Flying' = Flying /\ Delivered' = Delivered
             /\ forwards' \subseteq DOMAIN txs'
  BY <1>1, <1>2, <1>4, TxUnchanged DEF txVars
<1>5. ASSUME ClaimsOnlyGo, UNCHANGED txVars PROVE Exchanges'
  <2>1. \A g \in Handlers : QuietMove(handlers[g], handlers'[g])
    BY <1>2 DEF QuietMove
  <2>2. QED
    BY <1>1, <1>2, <1>4, <1>5, <2>1, QuietKeepsExchanges DEF SessInv
<1>6. CASE Authorise(host)
  <2>1. /\ host \notin authorised /\ authorised' = authorised \cup {host}
        /\ releases' = [a \in Hosts |-> releases[a]]
        /\ UNCHANGED <<relayVars, now, txVars>>
    BY <1>6 DEF Authorise, Gate!Change
  <2>2. releases' = releases
    BY <1>1, <2>1
  <2>3. RelayProofs!RelayInv' /\ ClaimsOnlyGo /\ UNCHANGED <<reportRelays, relayGenerations>>
    BY <2>1, RelaysUnchanged DEF SessInv, relayVars
  <2>4. Occupancies'
    BY <1>1, <1>2, <2>1, <2>2, <2>3, AuthoriseKeepsOccupancies DEF SessInv
  <2>5. Typed'
    BY <1>1, <1>2, <1>3, <1>4, <2>1, <2>2, <2>3, TablesKeepTyped DEF SessInv
  <2>6. QED
    BY <1>4, <1>5, <2>1, <2>3, <2>4, <2>5 DEF SessInv
<1>7. CASE Release(host)
  <2>1. /\ authorised' = authorised \ {host}
        /\ releases' = [a \in Hosts |-> IF a = host THEN releases[a] + 1 ELSE releases[a]]
        /\ Relays!ForgetRelaysForHost(host) /\ UNCHANGED txVars
    BY <1>7 DEF Release, Gate!Change
  <2>2. /\ RelayProofs!RelayInv' /\ ClaimsOnlyGo
        /\ DOMAIN reportRelays' =
             {s \in DOMAIN reportRelays : reportRelays[s].upfAddr.host # host}
        /\ Relays!RelayGeneration(host)' = Relays!RelayGeneration(host) + 1
        /\ \A other \in Hosts \ {host} :
             Relays!RelayGeneration(other)' = Relays!RelayGeneration(other)
    BY <2>1, ReleaseEffect DEF SessInv
  <2>3. Occupancies'
    BY <1>1, <1>2, <2>1, <2>2, ReleaseKeepsOccupancies DEF SessInv
  <2>4. authorised' \subseteq Hosts /\ releases' \in [Hosts -> Nat]
    BY <1>1, <2>1
  <2>5. Typed'
    BY <1>1, <1>2, <1>3, <1>4, <2>1, <2>2, <2>4, TablesKeepTyped DEF SessInv
  <2>6. QED
    BY <1>4, <1>5, <2>1, <2>2, <2>3, <2>5 DEF SessInv
<1>8. CASE ForgetConsumer(host)
  <2>1. UNCHANGED <<relayVars, now, authorised, releases>> /\ Txs!DeleteByHost(host)
    BY <1>8 DEF ForgetConsumer
  <2>2. TxProofs!TxInv' /\ txs' = txs
    BY <1>1, <2>1, DeleteEffect
  <2>3. RequestsNumbered' /\ Flying' = Flying /\ Delivered' = Delivered
    BY <1>1, <1>2, <2>2, TxUnchanged
  <2>4. QED
    BY <1>1, <1>2, <2>1, <2>2, <2>3, TxMoves
<1>9. QED
  BY <1>6, <1>7, <1>8

\* Time passes.
LEMMA TickKeepsInv ==
    ASSUME SessInv, Tick
    PROVE  SessInv'
<1>1. /\ \A h \in Handlers : handlers[h].pc = "idle"
      /\ \A id \in DOMAIN txs : txs[id].consumer # Self
      /\ Relays!Tick
      /\ UNCHANGED <<txs, consumerTable, detached, authorised, releases, handlers, forwards>>
      /\ UNCHANGED <<cutShort, claimEpoch, recounted>>
  BY DEF Tick, Txs!IsRequest, txVars, gateVars, historyVars
<1>2. RelayProofs!RelayInv' /\ UNCHANGED <<reportRelays, relayGenerations>>
  BY <1>1, TickEffect DEF SessInv
<1>3. /\ releases \in [Hosts -> Nat] /\ authorised \subseteq Hosts /\ HistoryTyped
      /\ \A g \in Handlers : Numbered(handlers[g])
      /\ \A o \in Hosts : Relays!RelayGeneration(o) \in Nat
      /\ DOMAIN reportRelays \subseteq RelaySeqs /\ handlers \in [Handlers -> Handler]
  BY RelayFacts DEF SessInv, Typed, TypeOK
<1>4. /\ TxProofs!TxInv' /\ RequestsNumbered' /\ Flying' = Flying /\ Delivered' = Delivered
      /\ forwards' \subseteq DOMAIN txs'
  BY <1>1, TxUnchanged DEF SessInv, Typed, TypeOK
<1>5. Typed'
  <2>1. HistoryTyped'
    BY <1>1, <1>3 DEF HistoryTyped
  <2>2. QED
    BY <1>1, <1>2, <1>3, <1>4, <2>1, TablesKeepTyped DEF SessInv
<1>6. Exchanges'
  <2>1. Flying = {}
    BY <1>1, FlyingMembers
  <2>2. \A h \in Handlers : handlers[h].relaySeq = NoSeq
    BY <1>1, <1>3 DEF Numbered
  <2>3. QED
    BY <1>1, <1>2, <1>3, <1>4, <2>1, <2>2, TickKeepsExchanges DEF SessInv
<1>7. Occupancies'
  <2>1. CountsOnlyFall
    BY <1>2, <1>3 DEF CountsOnlyFall, Relays!RelayGeneration
  <2>2. \A r \in DOMAIN reportRelays' : ClaimStands(r)
    BY <1>1, <1>2 DEF ClaimStands
  <2>3. \A g \in Handlers : HandlerStands(handlers[g], handlers'[g])
    BY <1>1, <1>2 DEF HandlerStands
  <2>4. QED
    BY <1>1, <1>3, <2>1, <2>2, <2>3, StandingKeepsOccupancies DEF SessInv
<1>8. QED
  BY <1>2, <1>4, <1>5, <1>6, <1>7 DEF SessInv

-----------------------------------------------------------------------------
(* The invariant is inductive.                                             *)

\* It holds when the process starts.
LEMMA InitEstablishesInv == Init => SessInv
<1> SUFFICES ASSUME Init PROVE SessInv
  OBVIOUS
<1>1. RelayProofs!RelayInv
  <2>1. RelayProofs!Init
    BY DEF Init, Relays!Init, RelayProofs!Init, Relays!EmptyMap, RelayProofs!EmptyMap,
           Relays!LongAgo, RelayProofs!LongAgo
  <2>2. QED
    BY <2>1, RelayProofs!InitEstablishesInv, TablesAssumption
       DEF RelayProofs!InitEstablishesInv, RelayProofs!TimeAssumption, RelayProofs!RangeAssumption
<1>2. TxProofs!TxInv
  <2>1. TxProofs!Init
    BY DEF Init, Txs!Init, TxProofs!Init, Txs!EmptyMap, TxProofs!EmptyMap
  <2>2. QED
    BY <2>1, TxProofs!InitEstablishesInv, TablesAssumption
       DEF TxProofs!InitEstablishesInv, TxProofs!ResendAssumption, TxProofs!SelfAssumption
<1>3. /\ DOMAIN reportRelays = {} /\ DOMAIN txs = {} /\ DOMAIN relayGenerations = {}
      /\ forwards = {} /\ cutShort = {} /\ recounted = {} /\ authorised = {}
      /\ claimEpoch = [s \in RelaySeqs |-> 0]
      /\ releases = [a \in Hosts |-> 0] /\ handlers = [h \in Handlers |-> Idle]
  BY DEF Init, Relays!Init, Txs!Init, Gate!Init, Relays!EmptyMap, Txs!EmptyMap
<1>4. Typed
  <2>1. TypeOK
    BY <1>1, <1>2, <1>3, RelayFacts, TxFacts, IdleFacts DEF TypeOK
  <2>2. QED
    BY <1>3, <2>1, IdleFacts DEF Typed, HistoryTyped, RequestsNumbered
<1>5. Exchanges
  <2>1. Flying = {} /\ Delivered = {}
    BY <1>3 DEF Flying, Delivered, Relaying
  <2>2. QED
    BY <1>3, <2>1, IdleFacts DEF Exchanges, SenderAlone, AnswererAlone, AnsweredHasAnswerer,
          InProgressIsFresh, ResponseHasTaker, ClaimsInProgress
<1>6. Occupancies
  <2>1. CountsLag
    BY <1>3 DEF CountsLag, Relays!RelayGeneration, Relays!At, Relays!NeverReleased
  <2>2. ClaimOutlivesExchange
    BY <1>3, IdleFacts DEF ClaimOutlivesExchange
  <2>3. QED
    BY <1>3, <2>1, <2>2, IdleFacts DEF Occupancies, ClaimsAdmitted, ClaimsAreCurrent
<1>7. QED
  BY <1>1, <1>2, <1>4, <1>5, <1>6 DEF SessInv

\* Every call of a handler keeps it.
LEMMA HandlerStepKeepsInv ==
    ASSUME SessInv, NEW h \in Handlers, HandlerStep(h)
    PROVE  SessInv'
BY GateKeepsInv, NoClaimKeepsInv, UnsentKeepsInv, NothingHeldKeepsInv, AnswerKeepsInv,
   ForgottenKeepsInv, ClaimFreshKeepsInv, RenumberRelayKeepsInv, TakeRelayKeepsInv,
   SendRelayKeepsInv
   DEF HandlerStep

\* Every step keeps it.
LEMMA NextKeepsInv == SessInv /\ [Next]_vars => SessInv'
<1> SUFFICES ASSUME SessInv, [Next]_vars PROVE SessInv'
  OBVIOUS
<1>1. CASE SetSmfAddr
  BY <1>1, NothingMoves DEF SetSmfAddr
<1>2. CASE UNCHANGED vars
  <2>1. UNCHANGED <<relayVars, now, authorised, releases, handlers, historyVars, txVars, forwards>>
    BY <1>2 DEF vars, gateVars
  <2>2. QED
    BY <2>1, NothingMoves
<1>3. QED
  BY <1>1, <1>2, ReadReportKeepsInv, ReadLoopKeepsInv, TakerKeepsInv, HandlerStepKeepsInv,
     GateChangesKeepInv, TxStepKeepsInv, TickKeepsInv
     DEF Next

-----------------------------------------------------------------------------
(* The theorems.                                                           *)

\* The inductive invariant holds in every reachable state.
THEOREM Invariance == Spec => []SessInv
BY InitEstablishesInv, NextKeepsInv, PTL DEF Spec

\* The tables and the goroutines hold what the code declares them to hold: no report
\* tries more numbers than relaySendAttempts.
THEOREM TypeCorrect == Spec => []TypeOK
<1>1. SessInv => TypeOK
  BY DEF SessInv, Typed
<1>2. QED
  BY <1>1, Invariance, PTL

\* Unless its handler quoted a count that had been swept and counted up again, a claim
\* is for an address that is authorised and has not been released since the gate let
\* the report through (RelayReportSequence, ForgetRelaysForHost).
THEOREM ClaimsEndWithTheirPeer == Spec => []ClaimsAreCurrent
<1>1. SessInv => ClaimsAreCurrent
  BY DEF SessInv, Occupancies
<1>2. QED
  BY <1>1, Invariance, PTL

\* Whoever relays or answers a report finds its claim in the table, until the peer is
\* released: sweeps, renumbering and the other path never take it away.
THEOREM ReportsStayRecognisable == Spec => []ClaimOutlivesExchange
<1>1. SessInv => ClaimOutlivesExchange
  BY DEF SessInv, Occupancies
<1>2. QED
  BY <1>1, Invariance, PTL

\* The SMF's answer, the give-up path and the refusal never answer the same claim.
THEOREM NoReportAnsweredTwice == Spec => []OneAnswerer
<1>1. SessInv => OneAnswerer
  <2> SUFFICES ASSUME SessInv, NEW h1 \in Handlers, NEW h2 \in Handlers, h1 # h2,
                      handlers[h1].pc \in {"answer", "forget"},
                      handlers[h2].pc \in {"answer", "forget"},
                      handlers[h1].relaySeq # NoSeq,
                      handlers[h1].relaySeq = handlers[h2].relaySeq
               PROVE  FALSE
    BY DEF OneAnswerer
  <2>1. Answering(handlers[h1])
    BY DEF Answering
  <2>2. handlers[h2].pc = "take"
    BY <2>1 DEF SessInv, Exchanges, AnswererAlone
  <2>3. QED
    BY <2>2
<1>2. QED
  BY <1>1, Invariance, PTL

\* Every claim is in the hands of a goroutine or of a relay that will be answered or
\* given up, unless a late response of a user plane has ended its relay.
THEOREM NoClaimIsStranded == Spec => []NoStrandedClaim
<1>1. SessInv => NoStrandedClaim
  <2> SUFFICES ASSUME SessInv, NEW s \in DOMAIN reportRelays \ cutShort,
                      ~\E h \in Handlers : handlers[h].pc # "idle" /\ handlers[h].relaySeq = s
               PROVE  \E id \in DOMAIN txs :
                        /\ Txs!IsRequest(id) /\ txs[id].seq = s /\ id \notin forwards
                        /\ txs[id].phase = "remove" => txs[id].failed
    BY DEF NoStrandedClaim
  <2>1. s # NoSeq
    BY NoSeqIsNone, RelayFacts DEF SessInv
  <2>2. s \notin Attended
    <3>1. \A h \in Handlers : handlers[h].pc = "idle" => handlers[h].relaySeq = NoSeq
      BY DEF SessInv, Typed, Numbered
    <3>2. QED
      BY <2>1, <3>1, AttendedMembers
  <2>3. s \in Flying /\ s \notin Delivered
    BY <2>2 DEF SessInv, Exchanges, ClaimsInProgress, ResponseHasTaker
  <2>4. PICK id \in Relaying : txs[id].seq = s
    BY <2>3 DEF Flying
  <2>5. ~(txs[id].phase = "remove" /\ ~txs[id].failed)
    BY <2>3, <2>4 DEF Delivered
  <2>6. QED
    BY <2>4, <2>5 DEF Relaying
<1>2. QED
  BY <1>1, Invariance, PTL

-----------------------------------------------------------------------------
(* The handlers use the tables as their own specifications say.            *)

\* The bound on releases, which the two specifications share.
ReleasesBounded == \A host \in Hosts : releases[host] <= MaxReleases

\* Only a release below the bound counts one more.
LEMMA NextKeepsBound == SessInv /\ ReleasesBounded /\ [Next]_vars => ReleasesBounded'
<1> SUFFICES ASSUME SessInv, ReleasesBounded, [Next]_vars PROVE ReleasesBounded'
  OBVIOUS
<1>1. releases \in [Hosts -> Nat]
  BY DEF SessInv, Typed, TypeOK
<1>2. CASE UNCHANGED releases
  BY <1>2 DEF ReleasesBounded
<1>3. ASSUME NEW host \in Hosts, Authorise(host) PROVE ReleasesBounded'
  <2>1. releases' = [a \in Hosts |-> releases[a]]
    BY <1>3 DEF Authorise, Gate!Change
  <2>2. QED
    BY <1>1, <2>1 DEF ReleasesBounded
<1>4. ASSUME NEW host \in Hosts, Release(host) PROVE ReleasesBounded'
  <2>1. /\ releases' = [a \in Hosts |-> IF a = host THEN releases[a] + 1 ELSE releases[a]]
        /\ releases[host] < MaxReleases
    BY <1>4 DEF Release, Gate!Change
  <2>2. QED
    BY <1>1, <2>1, TablesAssumption DEF ReleasesBounded
<1>5. ASSUME NEW h \in Handlers, HandlerStep(h) PROVE UNCHANGED releases
  BY <1>5 DEF HandlerStep, gateVars, ReadGeneration, PassGate, RefuseAtGate, ReadSmfAddr, ClaimFresh,
     ClaimNothing, ClaimExhausted, SendRelay, SendDuplicate, SendFails, RenumberRelay,
     RenumberNotHeld, RenumberExhausted, TakeRelay, TakeNothing, SendAnswer, AnswerFails, Forget
<1>6. QED
  BY <1>2, <1>3, <1>4, <1>5 DEF Next, vars, gateVars, ReadReport, AbsorbReport, ReadAnswer, GiveUp,
     SetSmfAddr, ForgetConsumer, Forward, ForwardAnswered, TxStep, Tick

\* What a call of a handler does to the relay table is one operation of it, or nothing.
LEMMA HandlerRelayStep ==
    ASSUME SessInv, ReleasesBounded, NEW h \in Handlers, HandlerStep(h)
    PROVE  [Relays!Next]_(Relays!vars)
<1> DEFINE x == handlers[h]
<1>1. /\ x.peer \in Relays!Peer /\ x.upfSeq \in UpfSeqs /\ x.peer.host \in Hosts
      /\ x.relaySeq \in Relays!RelaySeqs \cup {NoSeq} /\ Numbered(x)
      /\ now \in 0..now /\ RelaySeqs = Relays!RelaySeqs
  BY HandlerFacts, RelayFacts DEF Relays!Peer, Peer, Relays!RelaySeqs, RelaySeqs, SessInv
<1>2. CASE UNCHANGED <<relayVars, now>>
  BY <1>2 DEF relayVars, Relays!vars, Relays!relayVars
<1>3. ASSUME Relays!RelayGeneration(x.peer.host) = x.authorisedUnder,
             Relays!Claim(x.peer, x.upfSeq, now, x.authorisedUnder)
      PROVE  Relays!Next
  <2>1. x.authorisedUnder \in 0..MaxReleases
    <3>1. /\ Relays!RelayGeneration(x.peer.host) \in Nat /\ releases[x.peer.host] \in Nat
          /\ Relays!RelayGeneration(x.peer.host) <= releases[x.peer.host]
          /\ releases[x.peer.host] <= MaxReleases
      BY <1>1, RelayFacts DEF SessInv, Typed, TypeOK, Occupancies, CountsLag, ReleasesBounded
    <3>2. QED
      BY <1>3, <3>1, TablesAssumption
  <2>2. QED
    BY <1>1, <1>3, <2>1 DEF Relays!Next
<1>4. ASSUME NEW s \in RelaySeqs, ClaimFresh(h, s) PROVE Relays!Next
  <2>1. Relays!ClaimFresh(x.peer, x.upfSeq, now, x.authorisedUnder, s)
    BY <1>4 DEF ClaimFresh
  <2>2. QED
    BY <1>1, <1>3, <2>1 DEF Relays!Claim, Relays!ClaimFresh
<1>5. CASE ClaimNothing(h) \/ ClaimExhausted(h)
  <2>1. CASE Relays!ClaimReleased(x.peer, x.authorisedUnder)
    BY <2>1 DEF Relays!ClaimReleased
  <2>2. CASE \/ Relays!ClaimRetransmission(x.peer, x.upfSeq, now, x.authorisedUnder)
             \/ Relays!ClaimExhausted(x.peer, x.upfSeq, now, x.authorisedUnder)
    BY <1>3, <2>2 DEF Relays!Claim, Relays!ClaimRetransmission, Relays!ClaimExhausted
  <2>3. QED
    BY <1>5, <2>1, <2>2 DEF ClaimNothing, ClaimExhausted
<1>6. ASSUME x.relaySeq # NoSeq,
             \/ Relays!RenumberReportRelay(x.relaySeq)
             \/ Relays!TakeReportRelay(x.relaySeq)
             \/ Relays!ForgetReportRelay(x.relaySeq)
      PROVE  Relays!Next
  BY <1>1, <1>6 DEF Relays!Next
<1>7. ASSUME NEW s \in RelaySeqs, RenumberRelay(h, s) PROVE Relays!Next
  BY <1>1, <1>6, <1>7 DEF RenumberRelay, Relays!RenumberReportRelay, Numbered
<1>8. CASE RenumberNotHeld(h) \/ RenumberExhausted(h)
  BY <1>1, <1>6, <1>8 DEF RenumberNotHeld, RenumberExhausted, Relays!RenumberReportRelay, Numbered
<1>9. CASE TakeRelay(h) \/ TakeNothing(h)
  BY <1>1, <1>6, <1>9 DEF TakeRelay, TakeNothing, Relays!TakeReportRelay, Numbered
<1>10. CASE Forget(h)
  BY <1>1, <1>6, <1>10 DEF Forget, Numbered
<1>11. QED
  BY <1>2, <1>4, <1>5, <1>7, <1>8, <1>9, <1>10 DEF HandlerStep, ReadGeneration, PassGate,
     RefuseAtGate, ReadSmfAddr, SendRelay, SendDuplicate, SendFails, SendAnswer, AnswerFails

\* Every step does one operation of the relay table, or leaves it alone.
LEMMA RelayStep == SessInv /\ ReleasesBounded /\ [Next]_vars => [Relays!Next]_(Relays!vars)
<1> SUFFICES ASSUME SessInv, ReleasesBounded, [Next]_vars PROVE [Relays!Next]_(Relays!vars)
  OBVIOUS
<1>1. CASE UNCHANGED <<relayVars, now>>
  BY <1>1 DEF relayVars, Relays!vars, Relays!relayVars
<1>2. ASSUME NEW host \in Hosts, Release(host) PROVE Relays!Next
  <2>1. Relays!RelayGeneration(host) < MaxReleases
    <3>1. /\ Relays!RelayGeneration(host) \in Nat /\ releases[host] \in Nat
          /\ Relays!RelayGeneration(host) <= releases[host] /\ releases[host] < MaxReleases
      BY <1>2, RelayFacts DEF SessInv, Typed, TypeOK, Occupancies, CountsLag, Release
    <3>2. QED
      BY <3>1, TablesAssumption
  <2>2. QED
    BY <1>2, <2>1 DEF Release, Relays!Release, Relays!Next
<1>3. CASE Tick
  BY <1>3 DEF Tick, Relays!Next
<1>4. QED
  BY <1>1, <1>2, <1>3, HandlerRelayStep DEF Next, vars, ReadReport, AbsorbReport, ReadAnswer, GiveUp,
     SetSmfAddr, Authorise, ForgetConsumer, Forward, ForwardAnswered, TxStep

\* The handlers are callers the relay table's own specification allows, so what is
\* proved of the table for arbitrary callers holds of it here.
THEOREM ImplementsRelayTable == Spec => Relays!Spec
<1>1. Init => Relays!Init /\ ReleasesBounded
  BY TablesAssumption DEF Init, Gate!Init, ReleasesBounded
<1>2. Spec => []ReleasesBounded
  BY <1>1, NextKeepsBound, Invariance, PTL DEF Spec
<1>3. QED
  BY <1>1, <1>2, RelayStep, Invariance, PTL DEF Spec, Relays!Spec

\* What a step does to the transactions is one operation of their table, or nothing.
LEMMA TxTableStep == SessInv /\ [Next]_vars => [Txs!Next]_(Txs!vars)
<1> SUFFICES ASSUME SessInv, [Next]_vars PROVE [Txs!Next]_(Txs!vars)
  OBVIOUS
<1>1. CASE UNCHANGED txVars
  BY <1>1 DEF txVars, Txs!vars
<1>2. /\ Self \in Txs!Consumers /\ Peer \subseteq Txs!Consumers /\ TxProofs!TxInv
      /\ RelaySeqs \subseteq UpfSeqs \cup RelaySequenceFloor..RelaySequenceCeil
  BY DEF Txs!Consumers, Txs!Peer, Peer, RelaySeqs, SessInv
<1>3. ASSUME NEW c \in Txs!Consumers, NEW s \in UpfSeqs \cup RelaySequenceFloor..RelaySequenceCeil,
             NEW id \in TxIds, Txs!PutTransaction(c, s, id)
      PROVE  Txs!Next
  BY <1>3 DEF Txs!Next
<1>4. ASSUME NEW h \in Handlers, NEW id \in TxIds, SendRelay(h, id) PROVE Txs!Next
  <2>1. handlers[h].relaySeq \in RelaySeqs /\ Txs!PutTransaction(Self, handlers[h].relaySeq, id)
    BY <1>4, HandlerFacts DEF SendRelay, Numbered
  <2>2. QED
    BY <1>2, <1>3, <2>1
<1>5. ASSUME NEW h \in Handlers, NEW id \in TxIds, SendAnswer(h, id) PROVE Txs!Next
  <2>1. /\ handlers[h].peer \in Peer /\ handlers[h].upfSeq \in UpfSeqs
        /\ Txs!PutTransaction(handlers[h].peer, handlers[h].upfSeq, id)
    BY <1>5, HandlerFacts DEF SendAnswer
  <2>2. QED
    BY <1>2, <1>3, <2>1
<1>6. ASSUME NEW s \in RelaySeqs, NEW id \in TxIds, Forward(s, id) PROVE Txs!Next
  BY <1>2, <1>3, <1>6 DEF Forward
<1>7. ASSUME NEW c, NEW s, Txs!Held(c, s),
             NEW event \in {Txs!ReceiveResendRequest, Txs!ReceiveValidResponse},
             Txs!PostEvent(Txs!TxTable(c)[s], event)
      PROVE  Txs!Next
  <2>1. Txs!TxTable(c)[s] \in TxIds
    BY <1>2, <1>7, TxFacts
  <2>2. QED
    BY <1>7, <2>1 DEF Txs!Next
<1>8. ASSUME NEW peer, NEW upfSeq, AbsorbReport(peer, upfSeq) PROVE Txs!Next
  BY <1>7, <1>8 DEF AbsorbReport, Txs!AbsorbResend
<1>9. ASSUME NEW s, Txs!AcceptResponse(s) PROVE Txs!Next
  BY <1>7, <1>9 DEF Txs!AcceptResponse
<1>10. ASSUME NEW id \in TxIds, TxStep(id) \/ \E h \in Handlers : GiveUp(h, id) PROVE Txs!Next
  BY <1>10 DEF TxStep, GiveUp, Txs!Step, Txs!Next
<1>11. ASSUME NEW host \in Hosts, ForgetConsumer(host) PROVE Txs!Next
  BY <1>11 DEF ForgetConsumer, Txs!Next
<1>12. ASSUME NEW h \in Handlers, HandlerStep(h) PROVE [Txs!Next]_(Txs!vars)
  BY <1>1, <1>4, <1>5, <1>12 DEF HandlerStep, ReadGeneration, PassGate, RefuseAtGate, ReadSmfAddr,
     ClaimFresh, ClaimNothing, ClaimExhausted, SendDuplicate, Txs!PutDuplicate, SendFails,
     RenumberRelay, RenumberNotHeld, RenumberExhausted, TakeRelay, TakeNothing, AnswerFails, Forget
<1>13. QED
  BY <1>1, <1>6, <1>8, <1>9, <1>10, <1>11, <1>12 DEF Next, vars, ReadReport, ReadAnswer,
     SetSmfAddr, Authorise, Release, ForwardAnswered, Tick

\* The same for the transactions.
THEOREM ImplementsTransactions == Spec => Txs!Spec
<1>1. Init => Txs!Init
  BY DEF Init
<1>2. QED
  BY <1>1, TxTableStep, Invariance, PTL DEF Spec, Txs!Spec

\* In the composed system too, a report is never being relayed under two numbers.
THEOREM NoReportRelayedTwice == Spec => []Relays!OneLiveClaim
<1>1. SessInv => Relays!OneLiveClaim
  BY DEF SessInv, RelayProofs!RelayInv, RelayProofs!OneLiveClaim, Relays!OneLiveClaim,
         RelayProofs!SameReport, Relays!SameReport, RelayProofs!Outlived, Relays!Outlived
<1>2. QED
  BY <1>1, Invariance, PTL

\* Nor does a number an exchange waits on go to another report.
THEOREM NumbersAreNotReused == Spec => Relays!NumberNeverChangesHands
<1>1. Relays!Next => RelayProofs!Next \/ UNCHANGED Relays!vars
  <2>1. ASSUME NEW peer, NEW q, NEW t, NEW g, Relays!Claim(peer, q, t, g)
        PROVE  RelayProofs!Claim(peer, q, t, g)
    BY <2>1, SameRelayOperations DEF Relays!Claim, RelayProofs!Claim, RelaySeqs, Relays!RelaySeqs
  <2>2. ASSUME NEW s, Relays!RenumberReportRelay(s)
        PROVE  RelayProofs!RenumberReportRelay(s) \/ UNCHANGED Relays!vars
    BY <2>2, SameRelayOperations DEF Relays!RenumberReportRelay, RelayProofs!RenumberReportRelay,
       Relays!RenumberNotHeld, Relays!RenumberExhausted, RelaySeqs, Relays!RelaySeqs
  <2>3. ASSUME NEW s, Relays!TakeReportRelay(s)
        PROVE  RelayProofs!TakeReportRelay(s) \/ UNCHANGED Relays!vars
    BY <2>3, SameRelayOperations DEF Relays!TakeReportRelay, RelayProofs!TakeReportRelay,
       Relays!TakeNothing
  <2>4. ASSUME NEW host, Relays!Release(host) PROVE RelayProofs!Release(host)
    BY <2>4, SameRelayOperations DEF Relays!Release, RelayProofs!Release, Relays!RelayGeneration,
       RelayProofs!RelayGeneration, Relays!At, RelayProofs!At, Relays!NeverReleased,
       RelayProofs!NeverReleased
  <2>5. Relays!Peer = RelayProofs!Peer /\ Relays!RelaySeqs = RelayProofs!RelaySeqs
    BY SameRelayOperations DEF Relays!Peer, Peer, RelaySeqs, Relays!RelaySeqs
  <2>6. QED
    BY <2>1, <2>2, <2>3, <2>4, <2>5, SameRelayOperations DEF Relays!Next, RelayProofs!Next
<1>2. RelayProofs!ClaimKept => Relays!ClaimKept
  BY DEF RelayProofs!ClaimKept, Relays!ClaimKept, RelayProofs!Outlived, Relays!Outlived,
         RelayProofs!SameReport, Relays!SameReport
<1>3. RelayProofs!vars = Relays!vars
  BY DEF RelayProofs!vars, Relays!vars, RelayProofs!relayVars, Relays!relayVars
<1>4. RelayProofs!RelayInv /\ [RelayProofs!Next]_(RelayProofs!vars) =>
        [RelayProofs!ClaimKept]_(RelayProofs!vars)
  BY RelayProofs!NextKeepsClaims, TablesAssumption
     DEF RelayProofs!NextKeepsClaims, RelayProofs!TimeAssumption, RelayProofs!RangeAssumption
<1>5. (RelayProofs!vars = Relays!vars)'
  BY DEF RelayProofs!vars, Relays!vars, RelayProofs!relayVars, Relays!relayVars
<1>6. SessInv /\ [Relays!Next]_(Relays!vars) => [Relays!ClaimKept]_(Relays!vars)
  BY <1>1, <1>2, <1>3, <1>4, <1>5 DEF SessInv
<1>7. QED
  BY <1>6, Invariance, ImplementsRelayTable, PTL DEF Spec, Relays!Spec, Relays!NumberNeverChangesHands

=============================================================================
