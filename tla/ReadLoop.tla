------------------------------ MODULE ReadLoop ------------------------------
(***************************************************************************)
(* The one goroutine that reads PFCP (readLoop, readPfcpMessage and        *)
(* findTransaction in udp.go), run against the transactions it looks up.   *)
(*                                                                         *)
(* findTransaction loads the consumer's table twice and the transaction    *)
(* twice, with nothing held in between: transactions end and peers are     *)
(* released between any two of those loads, so each is an action.          *)
(***************************************************************************)
EXTENDS Transactions

ASSUME SeqsAssumption == Seqs # {}

VARIABLE reader

\* table says which table txTable points to: none, the one lookups go to, or one
\* a release has since detached, which keeps what it held (frozen) for as long as
\* this goroutine reads it.  heldSince is history: an answer was held for the
\* message from the moment it was read until now.
Reader ==
    [pc: {"read", "consumer", "table", "sequence", "transaction", "post", "dispatch", "crashed"},
     kind: {"request", "response"}, consumer: Consumers, seq: Seqs,
     table: {"none", "live", "detached"}, frozen: SUBSET TxIds, tx: SUBSET TxIds,
     heldSince: BOOLEAN]

loopVars == <<vars, reader>>

\* The transaction held under a number, as a set with at most one element.
Found(consumer, seq) == IF Held(consumer, seq) THEN {TxTable(consumer)[seq]} ELSE {}

\* Back at the top of the loop.
Reading ==
    [pc |-> "read", kind |-> "request", consumer |-> Self, seq |-> CHOOSE s \in Seqs : TRUE,
     table |-> "none", frozen |-> {}, tx |-> {}, heldSince |-> FALSE]

LoopInit == Init /\ reader = Reading

-----------------------------------------------------------------------------
(* readPfcpMessage.                                                        *)

\* The network delivers any message.  A request is looked up under its sender, a
\* response under this socket's own address.  What does not parse is dropped.
ReadFromUDP(kind, consumer, seq) ==
    /\ reader.pc = "read"
    /\ reader' = [reader EXCEPT !.pc = "consumer", !.kind = kind, !.consumer = consumer,
                                !.seq = seq, !.heldSince = Held(consumer, seq)]
    /\ UNCHANGED vars

\* Nothing is held for the message: a request is new and goes to its handler, a
\* response answers nothing and is dropped with an error.
NotFound ==
    IF reader.kind = "request"
    THEN [reader EXCEPT !.pc = "dispatch", !.table = "none", !.frozen = {}, !.tx = {}]
    ELSE Reading

ConsumerExists ==
    /\ reader.pc = "consumer"
    /\ reader' = IF reader.consumer \in DOMAIN consumerTable
                 THEN [reader EXCEPT !.pc = "table"]
                 ELSE NotFound
    /\ UNCHANGED vars

LoadConsumer ==
    /\ reader.pc = "table"
    /\ reader' = [reader EXCEPT !.pc = "sequence",
         !.table = IF reader.consumer \in DOMAIN consumerTable THEN "live" ELSE "none"]
    /\ UNCHANGED vars

\* txTable.Load, which finds nothing in a nil table.
Load ==
    CASE reader.table = "none"     -> {}
      [] reader.table = "live"     -> Found(reader.consumer, reader.seq)
      [] reader.table = "detached" -> reader.frozen

\* Mutant: a response is for a transaction that is waiting, and no other.
SequenceWaits ==
    LET waiting == {id \in Load : id \in DOMAIN txs /\ txs[id].phase = "wait"}
        found   == IF reader.kind = "response" THEN waiting ELSE Load
    IN  /\ reader.pc = "sequence"
        /\ reader' = IF found # {} THEN [reader EXCEPT !.pc = "transaction"] ELSE NotFound
        /\ UNCHANGED vars

SequenceExists ==
    /\ reader.pc = "sequence"
    /\ reader' = IF Load # {} THEN [reader EXCEPT !.pc = "transaction"] ELSE NotFound
    /\ UNCHANGED vars

LoadTransaction ==
    /\ reader.pc = "transaction"
    /\ reader' = [reader EXCEPT !.pc = "post", !.tx = Load]
    /\ UNCHANGED vars

Event == IF reader.kind = "request" THEN ReceiveResendRequest ELSE ReceiveValidResponse

\* Mutant: a send that waits for room in the channel.
PostBlocking ==
    /\ reader.pc = "post"
    /\ \E id \in reader.tx :
         /\ id \in DOMAIN txs
         /\ txs[id].event = NoEvent
         /\ PostEvent(id, Event)
    /\ reader' = Reading

\* Mutant: a copy that finds the channel full is passed on as a new request.
PostOrDispatch ==
    /\ reader.pc = "post"
    /\ \E id \in reader.tx : PostEvent(id, Event)
    /\ reader' = IF txs' = txs THEN NotFound ELSE Reading

\* The event is posted without waiting; a transaction that has one pending, or
\* has ended, is left as it is.  A request is absorbed either way; a response is
\* handled by a goroutine of its own, which is Forwarding's.
Post ==
    /\ reader.pc = "post"
    /\ \E id \in reader.tx : PostEvent(id, Event)
    /\ reader' = Reading

\* The second load found nothing.  A request is then new; a response goes on to
\* the event channel of a nil transaction, and the process dies.
PostNothing ==
    /\ reader.pc = "post"
    /\ reader.tx = {}
    /\ reader' = IF reader.kind = "request" THEN NotFound ELSE [reader EXCEPT !.pc = "crashed"]
    /\ UNCHANGED vars

\* A goroutine of its own handles the request.
Dispatch ==
    /\ reader.pc = "dispatch"
    /\ reader' = Reading
    /\ UNCHANGED vars

-----------------------------------------------------------------------------
(* The rest of the adapter, while a message is being looked up.            *)

\* History of the message being read, and of the table it loaded.
Watch ==
    LET after == At(consumerTable', reader.consumer, EmptyMap)
        releasing == /\ reader.consumer \notin DOMAIN consumerTable'
                     /\ reader.table = "live"
    IN  reader' = [reader EXCEPT
          !.heldSince = reader.heldSince /\ reader.seq \in DOMAIN after,
          !.table = IF releasing THEN "detached" ELSE reader.table,
          !.frozen = IF releasing THEN Found(reader.consumer, reader.seq) ELSE reader.frozen]

\* A new transaction is a new object: never one this goroutine still refers to.
\* Free ones are interchangeable, so it is any of them.
Put(consumer, seq) ==
    LET free == TxIds \ (DOMAIN txs \cup reader.tx \cup reader.frozen)
    IN  free # {} /\ PutTransaction(consumer, seq, CHOOSE id \in free : TRUE)

ReaderStep ==
    \/ ConsumerExists
    \/ LoadConsumer
    \/ SequenceExists
    \/ LoadTransaction
    \/ Post
    \/ PostNothing
    \/ Dispatch

-----------------------------------------------------------------------------
(* Properties.                                                             *)

\* A copy of a request is never passed to the handler as a new one when the
\* answer to it was held all the while it was being looked up, however often the
\* peer has asked and whatever other transactions do meanwhile.
CopiesAreAbsorbed == reader.pc = "dispatch" => ~reader.heldSince

\* readLoop says "Any other read error is logged and the loop goes on": only a
\* closed socket stops the adapter reading PFCP.
ReadErrorsAreSurvived == reader.pc # "crashed"

=============================================================================
