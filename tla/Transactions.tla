---------------------------- MODULE Transactions ----------------------------
(***************************************************************************)
(* PFCP transactions (pfcp/udp): the table of every message the adapter    *)
(* has sent and is still holding, and the goroutine that runs each one.    *)
(*                                                                         *)
(* A request is held under this socket's own address until it is answered  *)
(* or its retries are exhausted.  A response is held under the address of  *)
(* the peer it answers, so a retransmitted request is met with the same    *)
(* answer, until the peer has been quiet for the resend window.            *)
(*                                                                         *)
(* Registering a transaction and releasing a peer are serialised by        *)
(* registerMu; a lookup, a removal and a post are single sync.Map or       *)
(* channel operations.  Each is one action.                                *)
(***************************************************************************)
EXTENDS Integers, Maps

CONSTANTS
    Self,           \* the consumer address of requests: this socket's own
    Hosts, Ports,   \* where peers are
    Seqs,           \* PFCP sequence numbers
    TxIds,          \* identities (pointers) of the transactions alive at once
    NumOfResend

ASSUME ResendAssumption == NumOfResend \in Nat \ {0}

ASSUME SelfAssumption == Self \notin [host: Hosts, port: Ports]

VARIABLES
    consumerTable,  \* consumer address -> (sequence number -> transaction)
    txs,            \* the transactions whose goroutine is running
    detached        \* history: those whose table a release took away

vars == <<consumerTable, txs, detached>>

Peer == [host: Hosts, port: Ports]

Consumers == {Self} \cup Peer

NoEvent == "none"
ReceiveResendRequest == "resend"
ReceiveValidResponse == "valid"

\* Where the goroutine is: about to write the datagram, waiting on its event
\* channel and timer, done with Start, or about to call its ErrHandler.
Phases == {"write", "wait", "remove", "failed"}

Transaction ==
    [consumer: Consumers, seq: Seqs, phase: Phases, iter: 0..NumOfResend,
     event: {NoEvent, ReceiveResendRequest, ReceiveValidResponse}, failed: BOOLEAN]

NewTransaction(consumer, seq) ==
    [consumer |-> consumer, seq |-> seq, phase |-> "write", iter |-> 0,
     event |-> NoEvent, failed |-> FALSE]

TxTable(consumer) == At(consumerTable, consumer, EmptyMap)

Held(consumer, seq) == seq \in DOMAIN TxTable(consumer)

IsRequest(id) == txs[id].consumer = Self

Init ==
    /\ consumerTable = EmptyMap
    /\ txs = EmptyMap
    /\ detached = {}

-----------------------------------------------------------------------------
(* Registering and releasing.                                              *)

\* A table is created for the consumer if it has none, and the transaction is
\* stored under its number if nothing is there; its goroutine is then started.
PutTransaction(consumer, seq, id) ==
    /\ id \notin DOMAIN txs
    /\ ~Held(consumer, seq)
    /\ consumerTable' = Store(consumerTable, consumer, Store(TxTable(consumer), seq, id))
    /\ txs' = Store(txs, id, NewTransaction(consumer, seq))
    /\ UNCHANGED detached

\* ErrDuplicateSequence.
PutDuplicate(consumer, seq) ==
    /\ Held(consumer, seq)
    /\ UNCHANGED vars

\* The tables of every consumer at the address, whatever the port.
DeleteByHost(host) ==
    LET gone == {c \in DOMAIN consumerTable \ {Self} : c.host = host}
    IN  /\ consumerTable' = Without(consumerTable, gone)
        /\ detached' = detached \cup
             UNION {{consumerTable[c][s] : s \in DOMAIN consumerTable[c]} : c \in gone}
        /\ UNCHANGED txs

-----------------------------------------------------------------------------
(* The goroutine of one transaction: Start, then startTxLifeCycle.         *)

Write(id) ==
    /\ id \in DOMAIN txs
    /\ txs[id].phase = "write"
    /\ txs' = [txs EXCEPT ![id].phase = "wait"]
    /\ UNCHANGED <<consumerTable, detached>>

WriteFails(id) ==
    /\ id \in DOMAIN txs
    /\ txs[id].phase = "write"
    /\ txs' = [txs EXCEPT ![id].phase = "remove", ![id].failed = TRUE]
    /\ UNCHANGED <<consumerTable, detached>>

\* The request has been answered.
TakeResponse(id) ==
    /\ id \in DOMAIN txs
    /\ txs[id].phase = "wait"
    /\ txs[id].event = ReceiveValidResponse
    /\ txs' = [txs EXCEPT ![id].phase = "remove", ![id].event = NoEvent]
    /\ UNCHANGED <<consumerTable, detached>>

\* The peer asked again: the answer is written again, as long as there is an
\* iteration left to write it in.
TakeResend(id) ==
    /\ id \in DOMAIN txs
    /\ txs[id].phase = "wait"
    /\ txs[id].event = ReceiveResendRequest
    /\ txs' = [txs EXCEPT ![id].iter = @ + 1, ![id].event = NoEvent,
                          ![id].phase = IF txs[id].iter + 1 < NumOfResend THEN "write" ELSE "remove"]
    /\ UNCHANGED <<consumerTable, detached>>

\* Mutant: one try too many.
RequestTimeoutOneMore(id) ==
    /\ id \in DOMAIN txs
    /\ txs[id].phase = "wait"
    /\ IsRequest(id)
    /\ LET again == txs[id].iter + 1 <= NumOfResend
       IN  txs' = [txs EXCEPT ![id].iter = @ + 1, ![id].failed = ~again,
                              ![id].phase = IF again THEN "write" ELSE "remove"]
    /\ UNCHANGED <<consumerTable, detached>>

\* Mutant: a request is tried for ever.
RequestTimeoutForever(id) ==
    /\ id \in DOMAIN txs
    /\ txs[id].phase = "wait"
    /\ IsRequest(id)
    /\ txs' = [txs EXCEPT ![id].phase = "write"]
    /\ UNCHANGED <<consumerTable, detached>>

\* The timer fires.  An event may be waiting too: select takes either.
RequestTimeout(id) ==
    /\ id \in DOMAIN txs
    /\ txs[id].phase = "wait"
    /\ IsRequest(id)
    /\ LET again == txs[id].iter + 1 < NumOfResend
       IN  txs' = [txs EXCEPT ![id].iter = @ + 1, ![id].failed = ~again,
                              ![id].phase = IF again THEN "write" ELSE "remove"]
    /\ UNCHANGED <<consumerTable, detached>>

ResponseTimeout(id) ==
    /\ id \in DOMAIN txs
    /\ txs[id].phase = "wait"
    /\ ~IsRequest(id)
    /\ txs' = [txs EXCEPT ![id].phase = "remove", ![id].failed = TRUE]
    /\ UNCHANGED <<consumerTable, detached>>

\* Mutant: the number is cleared whoever holds it now (no CompareAndDelete).
DeleteByNumber(id) ==
    LET c == txs[id].consumer
    IN  IF c \in DOMAIN consumerTable
        THEN [consumerTable EXCEPT ![c] = Without(@, {txs[id].seq})]
        ELSE consumerTable

\* The number is cleared only while it is still held by this transaction.
DeleteIf(id) ==
    LET c == txs[id].consumer
    IN  IF Held(c, txs[id].seq) /\ TxTable(c)[txs[id].seq] = id
        THEN [consumerTable EXCEPT ![c] = Without(@, {txs[id].seq})]
        ELSE consumerTable

\* Mutant: a transaction that failed is left in the table.
removeIfDelivered(id) ==
    /\ id \in DOMAIN txs
    /\ txs[id].phase = "remove"
    /\ consumerTable' = IF txs[id].failed THEN consumerTable ELSE DeleteIf(id)
    /\ txs' = IF txs[id].failed THEN [txs EXCEPT ![id].phase = "failed"] ELSE Without(txs, {id})
    /\ detached' = detached \ {id}

\* The goroutine of a transaction that did not fail ends here.
removeTransaction(id) ==
    /\ id \in DOMAIN txs
    /\ txs[id].phase = "remove"
    /\ consumerTable' = DeleteIf(id)
    /\ txs' = IF txs[id].failed THEN [txs EXCEPT ![id].phase = "failed"] ELSE Without(txs, {id})
    /\ detached' = detached \ {id}

\* The call of ErrHandler, after which the goroutine ends.
ErrHandler(id) ==
    /\ id \in DOMAIN txs
    /\ txs[id].phase = "failed"
    /\ txs' = Without(txs, {id})
    /\ UNCHANGED <<consumerTable, detached>>

-----------------------------------------------------------------------------
(* What the read loop does to a transaction it found.  The channel holds   *)
(* one event and the send does not block, so a second one is dropped.      *)

Posted(id, event) ==
    IF id \in DOMAIN txs /\ txs[id].event = NoEvent
    THEN [txs EXCEPT ![id].event = event]
    ELSE txs

PostEvent(id, event) ==
    /\ txs' = Posted(id, event)
    /\ UNCHANGED <<consumerTable, detached>>

\* A retransmitted request, met by the answer held for the peer.
AbsorbResend(peer, seq) ==
    /\ Held(peer, seq)
    /\ PostEvent(TxTable(peer)[seq], ReceiveResendRequest)

\* A response, matched by its sequence number alone.
AcceptResponse(seq) ==
    /\ Held(Self, seq)
    /\ PostEvent(TxTable(Self)[seq], ReceiveValidResponse)

Step(id) ==
    \/ Write(id)
    \/ WriteFails(id)
    \/ TakeResponse(id)
    \/ TakeResend(id)
    \/ RequestTimeout(id)
    \/ ResponseTimeout(id)
    \/ removeTransaction(id)
    \/ ErrHandler(id)

\* The read loop finds a transaction under its number some time before it posts to
\* it, so the transaction may have been released since, or have ended.
Next ==
    \/ \E consumer \in Consumers, seq \in Seqs, id \in TxIds : PutTransaction(consumer, seq, id)
    \/ \E consumer \in Consumers, seq \in Seqs : PutDuplicate(consumer, seq)
    \/ \E host \in Hosts : DeleteByHost(host)
    \/ \E id \in TxIds, event \in {ReceiveResendRequest, ReceiveValidResponse} : PostEvent(id, event)
    \/ \E id \in TxIds : Step(id)

Spec == Init /\ [][Next]_vars

-----------------------------------------------------------------------------
(* Properties.                                                             *)

\* Types: no transaction is written more than NumOfResend times (Start).
TypeOK ==
    /\ DOMAIN consumerTable \subseteq Consumers
    /\ \A c \in DOMAIN consumerTable :
         /\ DOMAIN consumerTable[c] \subseteq Seqs
         /\ \A s \in DOMAIN consumerTable[c] : consumerTable[c][s] \in TxIds
    /\ DOMAIN txs \subseteq TxIds
    /\ \A id \in DOMAIN txs : txs[id] \in Transaction
    /\ detached \subseteq TxIds

\* A number in the table always belongs to a transaction whose goroutine will
\* still clear it: one left behind would refuse that number, or absorb that
\* peer's requests, for the life of the process.
HeldNumbersAreRunning ==
    \A c \in DOMAIN consumerTable : \A s \in DOMAIN consumerTable[c] :
        LET id == consumerTable[c][s]
        IN  /\ id \in DOMAIN txs
            /\ txs[id].consumer = c
            /\ txs[id].seq = s
            /\ txs[id].phase # "failed"

\* A transaction that is running is the one found under its number, unless the
\* release of its peer took its table away.  A removal by a predecessor the peer
\* was released from never takes the successor's registration with it.
RunningIsFindable ==
    \A id \in DOMAIN txs :
        txs[id].phase # "failed" /\ id \notin detached =>
          /\ Held(txs[id].consumer, txs[id].seq)
          /\ TxTable(txs[id].consumer)[txs[id].seq] = id

\* A goroutine that is to write or to wait has an iteration to do it in.
IterationsLeft ==
    \A id \in DOMAIN txs : txs[id].phase \in {"write", "wait"} => txs[id].iter < NumOfResend

=============================================================================
