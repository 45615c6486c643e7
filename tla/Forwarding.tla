----------------------------- MODULE Forwarding -----------------------------
(***************************************************************************)
(* A request of the SMF's, from the HTTP handler that forwards it to the   *)
(* answer it returns (pfcp/util.go, pfcp/message, pfcp/handler): the       *)
(* handlers, the goroutines that bring them responses and failures, and    *)
(* the table of channels between the two (UpfTxns), run against the        *)
(* transactions.  Associations has what is particular to a set-up.         *)
(*                                                                         *)
(* Numbers are the SMF's.  It may use one for two requests at once (a      *)
(* retransmission does), and user planes may answer twice or late.         *)
(***************************************************************************)
EXTENDS Integers, Maps

CONSTANTS
    Requests,           \* HTTP requests, each with its own channel
    Goroutines,         \* goroutines that bring an answer, at once
    Seqs, Self, TxIds, NumOfResend

ASSUME SomeAssumption == Requests # {} /\ Seqs # {}

ASSUME ResendAssumption == NumOfResend \in Nat \ {0}

VARIABLES
    requests,       \* the HTTP handlers
    upfTxns,        \* UpfTxns: number -> the request whose channel it is
    channels,       \* the requests whose channel holds an answer: a response or a failure
    goroutines,
    carries,        \* transaction -> the request it carries, and its kind
    consumerTable, txs, detached,
    written,        \* the numbers user planes have seen
    unanswered      \* history: requests whose registration was replaced, or whose
                    \* response could not be used

Txs == INSTANCE Transactions WITH Hosts <- {}, Ports <- {}

txVars == <<consumerTable, txs, detached>>
wire   == <<txVars, carries, written>>
vars   == <<requests, upfTxns, channels, goroutines, wire, unanswered>>

\* An association set-up that is forwarded is like a session request here.
Kinds == {"heartbeat", "session"}

Request ==
    [pc: {"idle", "register", "send", "rollback", "wait", "done"}, kind: Kinds, seq: Seqs]

Goroutine == [pc: {"idle", "get", "deliver"}, seq: Seqs, channel: Requests]

AnySeq == CHOOSE s \in Seqs : TRUE

IdleRequest == [pc |-> "idle", kind |-> "session", seq |-> AnySeq]

IdleGoroutine == [pc |-> "idle", seq |-> AnySeq, channel |-> CHOOSE r \in Requests : TRUE]

Init ==
    /\ requests = [r \in Requests |-> IdleRequest]
    /\ upfTxns = EmptyMap
    /\ channels = {}
    /\ goroutines = [g \in Goroutines |-> IdleGoroutine]
    /\ carries = EmptyMap
    /\ Txs!Init
    /\ written = {}
    /\ unanswered = {}

-----------------------------------------------------------------------------
(* ForwardPfcpMsgToUpf, in the goroutine of the HTTP request.  Requests,   *)
(* transactions and goroutines are interchangeable, so a new one is any.   *)

ButRequests == <<upfTxns, channels, goroutines, wire>>

Goto(r, pc) == requests' = [requests EXCEPT ![r].pc = pc] /\ UNCHANGED unanswered

\* What a request was does not matter once it has ended.
Return(r) ==
    /\ requests' = [requests EXCEPT ![r] = [IdleRequest EXCEPT !.pc = "done"]]
    /\ unanswered' = unanswered \ {r}

\* A message of a kind the adapter forwards; any other is refused at once.
Arrive(kind, seq) ==
    LET r == CHOOSE q \in Requests : requests[q].pc = "idle"
    IN  /\ \E q \in Requests : requests[q].pc = "idle"
        /\ requests' = [requests EXCEPT ![r] =
             [IdleRequest EXCEPT !.pc = "register", !.kind = kind, !.seq = seq]]
        /\ UNCHANGED <<ButRequests, unanswered>>

\* Whatever channel was there is replaced.
InsertUpfPfcpTxn(r) ==
    LET seq == requests[r].seq
    IN  /\ requests[r].pc = "register"
        /\ requests' = [requests EXCEPT ![r].pc = "send"]
        /\ upfTxns' = Store(upfTxns, seq, r)
        /\ unanswered' = unanswered \cup (IF seq \in DOMAIN upfTxns THEN {upfTxns[seq]} ELSE {})
        /\ UNCHANGED <<channels, goroutines, wire>>

\* Sent, as far as this goroutine is concerned: another writes it.
SendPfcp(r) ==
    LET id == CHOOSE i \in TxIds : i \notin DOMAIN txs
    IN  /\ requests[r].pc = "send"
        /\ \E i \in TxIds : i \notin DOMAIN txs
        /\ Txs!PutTransaction(Self, requests[r].seq, id)
        /\ carries' = Store(carries, id, [request |-> r, kind |-> requests[r].kind])
        /\ Goto(r, "wait")
        /\ UNCHANGED <<upfTxns, channels, goroutines, written>>

\* The number is in flight, here or for a relay, or there is no socket yet.
SendFails(r) ==
    /\ requests[r].pc = "send"
    /\ Goto(r, "rollback")
    /\ UNCHANGED ButRequests

\* Mutant: the registration of a request that did not go out stays.
ForgetNothing(r) ==
    /\ requests[r].pc = "rollback"
    /\ Return(r)
    /\ UNCHANGED ButRequests

\* Its own registration and only its own.
ForgetUpfPfcpTxn(r) ==
    LET seq == requests[r].seq
    IN  /\ requests[r].pc = "rollback"
        /\ upfTxns' = IF seq \in DOMAIN upfTxns /\ upfTxns[seq] = r
                      THEN Without(upfTxns, {seq})
                      ELSE upfTxns
        /\ Return(r)
        /\ UNCHANGED <<channels, goroutines, wire>>

Receive(r) ==
    /\ requests[r].pc = "wait"
    /\ r \in channels
    /\ Return(r)
    /\ channels' = channels \ {r}
    /\ UNCHANGED <<upfTxns, goroutines, wire>>

RequestStep(r) ==
    \/ InsertUpfPfcpTxn(r)
    \/ SendPfcp(r)
    \/ SendFails(r)
    \/ ForgetUpfPfcpTxn(r)
    \/ Receive(r)

-----------------------------------------------------------------------------
(* The goroutines that end a request: Dispatch for a response, the         *)
(* transaction's own for a failure.                                        *)

Start(goroutine) ==
    LET g == CHOOSE h \in Goroutines : goroutines[h].pc = "idle"
    IN  /\ \E h \in Goroutines : goroutines[h].pc = "idle"
        /\ goroutines' = [goroutines EXCEPT ![g] = goroutine]

\* An answer on its way to whoever is registered under the number.
AnswerTo(seq) == [pc |-> "get", seq |-> seq, channel |-> IdleGoroutine.channel]

\* A response to a request that was written, perhaps late or once more, is matched
\* by its number and handed to its handler.
ReadResponse(seq) ==
    /\ seq \in written
    /\ Txs!AcceptResponse(seq)
    /\ Start(AnswerTo(seq))
    /\ UNCHANGED <<requests, upfTxns, channels, carries, written, unanswered>>

\* A response of a type no handler takes, or with elements that do not parse, ends
\* its transaction and nothing else.
ReadUnusable(seq) ==
    /\ seq \in written
    /\ Txs!AcceptResponse(seq)
    /\ unanswered' = unanswered \cup {carries[Txs!TxTable(Self)[seq]].request}
    /\ UNCHANGED <<requests, upfTxns, channels, goroutines, carries, written>>

\* Mutant: the registration stays for the next response to find.
GetAndKeep(g) ==
    LET seq == goroutines[g].seq
    IN  /\ goroutines[g].pc = "get"
        /\ goroutines' = [goroutines EXCEPT ![g] =
             IF seq \in DOMAIN upfTxns
             THEN [@ EXCEPT !.pc = "deliver", !.channel = upfTxns[seq]]
             ELSE IdleGoroutine]
        /\ UNCHANGED <<requests, upfTxns, channels, wire, unanswered>>

\* Whoever gets the channel takes the registration with it; with none there is
\* nothing to answer.
GetUpfPfcpTxn(g) ==
    LET seq == goroutines[g].seq
    IN  /\ goroutines[g].pc = "get"
        /\ goroutines' = [goroutines EXCEPT ![g] =
             IF seq \in DOMAIN upfTxns
             THEN [@ EXCEPT !.pc = "deliver", !.channel = upfTxns[seq]]
             ELSE IdleGoroutine]
        /\ upfTxns' = Without(upfTxns, {seq})
        /\ UNCHANGED <<requests, channels, wire, unanswered>>

\* The send blocks while the channel is full.
Deliver(g) ==
    LET r == goroutines[g].channel
    IN  /\ goroutines[g].pc = "deliver"
        /\ r \notin channels
        /\ channels' = channels \cup {r}
        /\ goroutines' = [goroutines EXCEPT ![g] = IdleGoroutine]
        /\ UNCHANGED <<requests, upfTxns, wire, unanswered>>

GoroutineStep(g) ==
    \/ GetUpfPfcpTxn(g)
    \/ Deliver(g)

\* A heartbeat is sent without an ErrHandler.
HasErrHandler(id) == carries[id].kind # "heartbeat"

\* Mutant: the failure is logged and goes nowhere.
SendErrorLogged(id) ==
    /\ Txs!ErrHandler(id)
    /\ HasErrHandler(id)
    /\ carries' = Without(carries, {id})
    /\ UNCHANGED <<requests, upfTxns, channels, goroutines, written, unanswered>>

\* A request that could not be written, or that nobody answered.
HandlePfcpSendError(id) ==
    /\ Txs!ErrHandler(id)
    /\ HasErrHandler(id)
    /\ Start(AnswerTo(txs[id].seq))
    /\ carries' = Without(carries, {id})
    /\ UNCHANGED <<requests, upfTxns, channels, written, unanswered>>

Write(id) ==
    /\ Txs!Write(id)
    /\ written' = written \cup {txs[id].seq}
    /\ UNCHANGED <<requests, upfTxns, channels, goroutines, carries, unanswered>>

TxStep(id) ==
    /\ \/ Txs!WriteFails(id)
       \/ Txs!TakeResponse(id)
       \/ Txs!RequestTimeout(id)
       \/ Txs!removeTransaction(id)
       \/ Txs!ErrHandler(id) /\ ~HasErrHandler(id)
    /\ carries' = Without(carries, {id} \ DOMAIN txs')
    /\ UNCHANGED <<requests, upfTxns, channels, goroutines, written, unanswered>>

-----------------------------------------------------------------------------

Next ==
    \/ \E kind \in Kinds, seq \in Seqs : Arrive(kind, seq)
    \/ \E r \in Requests : RequestStep(r)
    \/ \E seq \in Seqs : ReadResponse(seq)
    \/ \E seq \in Seqs : ReadUnusable(seq)
    \/ \E g \in Goroutines : GoroutineStep(g)
    \/ \E id \in TxIds : Write(id) \/ TxStep(id) \/ HandlePfcpSendError(id)

Spec == Init /\ [][Next]_vars

\* Every goroutine is scheduled, a write returns, and timers fire.
Fairness ==
    /\ \A r \in Requests : WF_vars(RequestStep(r))
    /\ \A g \in Goroutines : WF_vars(GoroutineStep(g))
    /\ \A id \in TxIds : WF_vars(Write(id) \/ TxStep(id) \/ HandlePfcpSendError(id))

FairSpec == Spec /\ Fairness

-----------------------------------------------------------------------------
(* Properties.                                                             *)

\* Types of the handlers, the goroutines and the tables between them.
TypeOK ==
    /\ requests \in [Requests -> Request]
    /\ DOMAIN upfTxns \subseteq Seqs
    /\ \A s \in DOMAIN upfTxns : upfTxns[s] \in Requests
    /\ channels \subseteq Requests
    /\ goroutines \in [Goroutines -> Goroutine]
    /\ Txs!TypeOK

\* No registration outlives the request it was made for: the next response under
\* the number would be handed to a requester that has gone (ForgetUpfPfcpTxn).  Two
\* requests of one number, failed sends and repeated responses included.
RegistrationsAreWaitedOn ==
    \A s \in DOMAIN upfTxns :
        LET r == upfTxns[s]
        IN  /\ requests[r].pc \in {"send", "rollback", "wait"}
            /\ requests[r].seq = s

\* Nobody ever waits for room in a channel: the one place it has is enough for
\* all the responses and failures a number can see (ForwardPfcpMsgToUpf).
DeliveryNeverBlocks ==
    \A g \in Goroutines :
        goroutines[g].pc = "deliver" =>
          /\ goroutines[g].channel \notin channels
          /\ \A h \in Goroutines \ {g} :
               goroutines[h].pc = "deliver" => goroutines[h].channel # goroutines[g].channel

\* Who waits for a failure that nobody reports, a response that could not be used,
\* or an answer that another request of the same number has taken.
NobodyAnswers(r) == requests[r].kind = "heartbeat" \/ r \in unanswered

\* Every HTTP request ends, though user planes answer late, twice or not at all
\* and writes fail -- those excepted that NobodyAnswers names.
EveryRequestEnds ==
    \A r \in Requests :
        requests[r].pc # "idle" ~> requests[r].pc = "done" \/ NobodyAnswers(r)

\* What ForgetUpfPfcpTxn says of a second request under a number in flight: it must
\* not happen to the first that "its answer arrives, finds nothing waiting, and is
\* dropped while it waits for one that was given away".  So while a request is on the
\* wire and its handler waits, something is registered under its number or has been
\* taken from there to answer it.
AnswerFindsSomethingWaiting ==
    \A id \in DOMAIN txs :
        LET r == carries[id].request
        IN  (txs[id].phase = "wait" /\ txs[id].event = Txs!NoEvent /\ requests[r].pc = "wait") =>
              \/ requests[r].seq \in DOMAIN upfTxns
              \/ r \in channels
              \/ \E g \in Goroutines : goroutines[g].pc = "deliver" /\ goroutines[g].channel = r

=============================================================================
