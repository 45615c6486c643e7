-------------------------- MODULE ForwardingProofs --------------------------
(***************************************************************************)
(* What holds of the table of waiting HTTP requests for every number of    *)
(* requests, numbers and goroutines, whatever transactions do meanwhile.   *)
(***************************************************************************)
EXTENDS Forwarding, TLAPS

\* The proofs about the transactions, for those of this specification.
TxProofs == INSTANCE TransactionsProofs WITH Hosts <- {}, Ports <- {}

\* A goroutine on its way to a request.  Its number is a transaction's, whose type is
\* not needed here.
Answering(goroutine) ==
    goroutine \in [pc: {"idle", "get", "deliver"}, seq: {goroutine.seq}, channel: Requests]

\* The types of what forwarding itself keeps.
TablesTyped ==
    /\ requests \in [Requests -> Request]
    /\ DOMAIN upfTxns \subseteq Seqs
    /\ \A s \in DOMAIN upfTxns : upfTxns[s] \in Requests
    /\ channels \subseteq Requests
    /\ DOMAIN goroutines = Goroutines
    /\ \A g \in Goroutines : Answering(goroutines[g])

\* A channel that holds an answer, or is about to, belongs to a request that has been
\* registered and is so no more: nothing else can find it.
AnsweredOnce ==
    /\ \A r \in channels :
         /\ requests[r].pc \notin {"idle", "register"}
         /\ \A s \in DOMAIN upfTxns : upfTxns[s] # r
    /\ \A g \in Goroutines :
         goroutines[g].pc = "deliver" =>
           /\ requests[goroutines[g].channel].pc \notin {"idle", "register"}
           /\ \A s \in DOMAIN upfTxns : upfTxns[s] # goroutines[g].channel

\* The inductive invariant: a request is registered once, under its own number, and
\* whoever gets its channel takes the registration, so that one answer at most is
\* ever on its way to it.
FwdInv == TablesTyped /\ RegistrationsAreWaitedOn /\ AnsweredOnce /\ DeliveryNeverBlocks

\* The number of an answer on its way may be a transaction's, so its type needs theirs.
WireInv ==
    /\ TxProofs!TxInv
    /\ goroutines \in [Goroutines -> Goroutine]

-----------------------------------------------------------------------------
(* Lemmas.                                                                 *)

\* The records of handlers and goroutines at rest.
LEMMA IdleTypes ==
    /\ IdleRequest \in Request /\ IdleRequest.pc = "idle"
    /\ Answering(IdleGoroutine) /\ IdleGoroutine.pc = "idle"
    /\ \A seq : Answering(AnswerTo(seq)) /\ AnswerTo(seq).pc = "get"
<1>1. IdleRequest \in Request /\ IdleRequest.pc = "idle"
  BY SomeAssumption DEF IdleRequest, Request, AnySeq, Kinds
<1>2. Answering(IdleGoroutine) /\ IdleGoroutine.pc = "idle"
  BY SomeAssumption DEF IdleGoroutine, Answering
<1>3. ASSUME NEW seq PROVE Answering(AnswerTo(seq)) /\ AnswerTo(seq).pc = "get"
  <2>1. IdleGoroutine.channel \in Requests
    BY SomeAssumption DEF IdleGoroutine
  <2>2. QED
    BY <2>1 DEF Answering, AnswerTo
<1>4. QED
  BY <1>1, <1>2, <1>3

\* A step that leaves the tables alone, and sets at most one goroutine off to look for
\* a registration, keeps the invariant.
LEMMA StartKeepsInv ==
    ASSUME FwdInv, UNCHANGED <<requests, upfTxns, channels>>,
           NEW g, NEW goroutine, Answering(goroutine), goroutine.pc # "deliver",
           goroutines' = [goroutines EXCEPT ![g] = goroutine]
    PROVE  FwdInv'
<1>1. /\ DOMAIN goroutines' = Goroutines
      /\ \A h \in Goroutines : Answering(goroutines'[h])
      /\ \A h \in Goroutines :
           goroutines'[h].pc = "deliver" => goroutines'[h] = goroutines[h]
  BY DEF FwdInv, TablesTyped
<1>2. TablesTyped' /\ RegistrationsAreWaitedOn'
  BY <1>1 DEF FwdInv, TablesTyped, RegistrationsAreWaitedOn
<1>3. AnsweredOnce'
  BY <1>1 DEF FwdInv, AnsweredOnce
<1>4. DeliveryNeverBlocks'
  BY <1>1 DEF FwdInv, DeliveryNeverBlocks
<1>5. QED
  BY <1>2, <1>3, <1>4 DEF FwdInv

\* So does one that changes nothing of what forwarding keeps.
LEMMA StutterKeepsInv ==
    ASSUME FwdInv, UNCHANGED <<requests, upfTxns, channels, goroutines>>
    PROVE  FwdInv'
BY DEF FwdInv, TablesTyped, RegistrationsAreWaitedOn, AnsweredOnce, DeliveryNeverBlocks

\* A step of one handler changes no other handler's record.
LEMMA OneHandler ==
    ASSUME TablesTyped, NEW r \in Requests, NEW request \in Request,
           requests' = [requests EXCEPT ![r] = request]
    PROVE  /\ requests' \in [Requests -> Request]
           /\ requests'[r] = request
           /\ \A q \in Requests \ {r} : requests'[q] = requests[q]
BY DEF TablesTyped

-----------------------------------------------------------------------------
(* The invariant is kept by every action.                                  *)

\* It holds when no request has arrived.
LEMMA FwdInitEstablishesInv == Init => FwdInv
BY IdleTypes
   DEF Init, FwdInv, TablesTyped, RegistrationsAreWaitedOn, AnsweredOnce, DeliveryNeverBlocks, EmptyMap

\* A request that arrives is registered nowhere and nothing is on its way to it.
LEMMA ArriveKeepsInv ==
    ASSUME FwdInv, NEW kind \in Kinds, NEW seq \in Seqs, Arrive(kind, seq)
    PROVE  FwdInv'
<1>1. PICK r \in Requests : /\ requests[r].pc = "idle"
                            /\ requests' = [requests EXCEPT ![r] =
                                 [IdleRequest EXCEPT !.pc = "register", !.kind = kind, !.seq = seq]]
  BY DEF Arrive
<1> DEFINE request == [IdleRequest EXCEPT !.pc = "register", !.kind = kind, !.seq = seq]
<1>2. request \in Request
  BY IdleTypes DEF Request
<1> HIDE DEF request
<1>3. /\ requests' \in [Requests -> Request]
      /\ \A q \in Requests \ {r} : requests'[q] = requests[q]
      /\ UNCHANGED <<upfTxns, channels, goroutines>>
  BY <1>1, <1>2, OneHandler DEF FwdInv, Arrive, ButRequests, request
<1>4. TablesTyped' /\ DeliveryNeverBlocks'
  BY <1>3 DEF FwdInv, TablesTyped, DeliveryNeverBlocks
<1>5. RegistrationsAreWaitedOn'
  BY <1>1, <1>3 DEF FwdInv, TablesTyped, RegistrationsAreWaitedOn
<1>6. AnsweredOnce'
  BY <1>1, <1>3 DEF FwdInv, TablesTyped, AnsweredOnce, Answering
<1>7. QED
  BY <1>4, <1>5, <1>6 DEF FwdInv

\* A handler that registers its request replaces whatever was there.
LEMMA InsertKeepsInv ==
    ASSUME FwdInv, NEW r \in Requests, InsertUpfPfcpTxn(r)
    PROVE  FwdInv'
<1> DEFINE request == [requests[r] EXCEPT !.pc = "send"]
           seq == requests[r].seq
<1>1. requests[r] \in Request /\ requests[r].pc = "register"
  BY DEF FwdInv, TablesTyped, InsertUpfPfcpTxn
<1>2. request \in Request /\ request.pc = "send" /\ request.seq = seq /\ seq \in Seqs
  BY <1>1 DEF Request
<1>3. requests' = [requests EXCEPT ![r] = request]
  BY DEF InsertUpfPfcpTxn
<1> HIDE DEF request
<1>4. /\ requests' \in [Requests -> Request]
      /\ requests'[r] = request
      /\ \A q \in Requests \ {r} : requests'[q] = requests[q]
      /\ UNCHANGED <<channels, goroutines>>
  BY <1>2, <1>3, OneHandler DEF FwdInv, InsertUpfPfcpTxn
<1>5. /\ DOMAIN upfTxns' = DOMAIN upfTxns \cup {seq}
      /\ upfTxns'[seq] = r
      /\ \A s \in DOMAIN upfTxns \ {seq} : upfTxns'[s] = upfTxns[s]
  BY DEF InsertUpfPfcpTxn, Store
<1> HIDE DEF seq
<1>6. TablesTyped' /\ DeliveryNeverBlocks'
  BY <1>2, <1>4, <1>5 DEF FwdInv, TablesTyped, DeliveryNeverBlocks
<1>7. RegistrationsAreWaitedOn'
  BY <1>1, <1>2, <1>4, <1>5 DEF FwdInv, TablesTyped, RegistrationsAreWaitedOn
<1>8. AnsweredOnce'
  BY <1>1, <1>2, <1>4, <1>5 DEF FwdInv, TablesTyped, AnsweredOnce, Answering
<1>9. QED
  BY <1>6, <1>7, <1>8 DEF FwdInv

\* A handler whose request went out, or did not, is registered as before.
LEMMA SendKeepsInv ==
    ASSUME FwdInv, NEW r \in Requests, SendPfcp(r) \/ SendFails(r)
    PROVE  FwdInv'
<1>1. PICK pc \in {"wait", "rollback"} : requests' = [requests EXCEPT ![r].pc = pc]
  BY DEF SendPfcp, SendFails, Goto
<1> DEFINE request == [requests[r] EXCEPT !.pc = pc]
<1>2. requests[r] \in Request /\ requests[r].pc = "send"
  BY DEF FwdInv, TablesTyped, SendPfcp, SendFails
<1>3. request \in Request /\ request.pc = pc /\ request.seq = requests[r].seq
  BY <1>2 DEF Request
<1>4. requests' = [requests EXCEPT ![r] = request]
  BY <1>1
<1> HIDE DEF request
<1>5. /\ requests' \in [Requests -> Request]
      /\ requests'[r] = request
      /\ \A q \in Requests \ {r} : requests'[q] = requests[q]
      /\ UNCHANGED <<upfTxns, channels, goroutines>>
  BY <1>3, <1>4, OneHandler DEF FwdInv, SendPfcp, SendFails, ButRequests
<1>6. TablesTyped' /\ DeliveryNeverBlocks'
  BY <1>5 DEF FwdInv, TablesTyped, DeliveryNeverBlocks
<1>7. RegistrationsAreWaitedOn'
  BY <1>3, <1>5 DEF FwdInv, TablesTyped, RegistrationsAreWaitedOn
<1>8. AnsweredOnce'
  BY <1>3, <1>5 DEF FwdInv, TablesTyped, AnsweredOnce, Answering
<1>9. QED
  BY <1>6, <1>7, <1>8 DEF FwdInv

\* A handler that returns leaves no registration: it has rolled its own back, or
\* whoever answered it has taken it.
LEMMA ReturnKeepsInv ==
    ASSUME FwdInv, NEW r \in Requests, ForgetUpfPfcpTxn(r) \/ Receive(r)
    PROVE  FwdInv'
<1> DEFINE request == [IdleRequest EXCEPT !.pc = "done"]
<1>1. request \in Request /\ request.pc = "done"
  BY IdleTypes DEF Request
<1>2. requests' = [requests EXCEPT ![r] = request]
  BY DEF ForgetUpfPfcpTxn, Receive, Return
<1> HIDE DEF request
<1>3. /\ requests' \in [Requests -> Request]
      /\ requests'[r].pc = "done"
      /\ \A q \in Requests \ {r} : requests'[q] = requests[q]
      /\ channels' \subseteq channels
      /\ UNCHANGED goroutines
  BY <1>1, <1>2, OneHandler DEF FwdInv, ForgetUpfPfcpTxn, Receive
<1>4. /\ DOMAIN upfTxns' \subseteq DOMAIN upfTxns
      /\ \A s \in DOMAIN upfTxns' : upfTxns'[s] = upfTxns[s] /\ upfTxns[s] # r
  <2>1. CASE ForgetUpfPfcpTxn(r)
    BY <2>1 DEF ForgetUpfPfcpTxn, Without, FwdInv, RegistrationsAreWaitedOn
  <2>2. CASE Receive(r)
    BY <2>2 DEF Receive, FwdInv, AnsweredOnce
  <2>3. QED
    BY <2>1, <2>2
<1>5. TablesTyped' /\ DeliveryNeverBlocks'
  BY <1>3, <1>4 DEF FwdInv, TablesTyped, DeliveryNeverBlocks
<1>6. RegistrationsAreWaitedOn'
  BY <1>3, <1>4 DEF FwdInv, TablesTyped, RegistrationsAreWaitedOn
<1>7. AnsweredOnce'
  BY <1>3, <1>4 DEF FwdInv, TablesTyped, AnsweredOnce, Answering
<1>8. QED
  BY <1>5, <1>6, <1>7 DEF FwdInv

\* Whoever gets a channel takes the registration, so nobody else can get it.
LEMMA GetKeepsInv ==
    ASSUME FwdInv, NEW g \in Goroutines, GetUpfPfcpTxn(g)
    PROVE  FwdInv'
<1> DEFINE seq == goroutines[g].seq
<1>1. CASE seq \in DOMAIN upfTxns
  <2> DEFINE r == upfTxns[seq]
             goroutine == [goroutines[g] EXCEPT !.pc = "deliver", !.channel = r]
  <2>1. r \in Requests /\ Answering(goroutines[g])
    BY <1>1 DEF FwdInv, TablesTyped
  <2>2. Answering(goroutine) /\ goroutine.channel = r
    BY <2>1 DEF Answering
  <2>3. goroutines' = [goroutines EXCEPT ![g] = goroutine]
    BY <1>1 DEF GetUpfPfcpTxn
  <2> HIDE DEF goroutine
  <2>4. /\ DOMAIN goroutines' = Goroutines
        /\ \A h \in Goroutines : Answering(goroutines'[h])
        /\ goroutines'[g].channel = r
        /\ \A h \in Goroutines \ {g} : goroutines'[h] = goroutines[h]
        /\ UNCHANGED <<requests, channels>>
    BY <2>2, <2>3 DEF FwdInv, TablesTyped, GetUpfPfcpTxn
  <2>5. /\ DOMAIN upfTxns' = DOMAIN upfTxns \ {seq}
        /\ \A s \in DOMAIN upfTxns' : upfTxns'[s] = upfTxns[s]
    BY DEF GetUpfPfcpTxn, Without
  <2>6. /\ requests[r].pc \in {"send", "rollback", "wait"}
        /\ \A s \in DOMAIN upfTxns' : upfTxns'[s] # r
    BY <1>1, <2>5 DEF FwdInv, RegistrationsAreWaitedOn
  <2>7. r \notin channels /\ \A h \in Goroutines : goroutines[h].pc = "deliver" => goroutines[h].channel # r
    BY <1>1 DEF FwdInv, AnsweredOnce
  <2> HIDE DEF r, seq
  <2>8. TablesTyped' /\ RegistrationsAreWaitedOn'
    BY <2>4, <2>5 DEF FwdInv, TablesTyped, RegistrationsAreWaitedOn
  <2>9. AnsweredOnce'
    BY <2>4, <2>5, <2>6 DEF FwdInv, AnsweredOnce
  <2>10. DeliveryNeverBlocks'
    BY <2>4, <2>7 DEF FwdInv, DeliveryNeverBlocks
  <2>11. QED
    BY <2>8, <2>9, <2>10 DEF FwdInv
<1>2. CASE seq \notin DOMAIN upfTxns
  <2>1. DOMAIN upfTxns' = DOMAIN upfTxns /\ \A s \in DOMAIN upfTxns : upfTxns'[s] = upfTxns[s]
    BY <1>2 DEF GetUpfPfcpTxn, Without
  <2>2. /\ UNCHANGED <<requests, channels>>
        /\ DOMAIN goroutines' = Goroutines
        /\ \A h \in Goroutines : Answering(goroutines'[h])
        /\ goroutines'[g].pc = "idle"
        /\ \A h \in Goroutines \ {g} : goroutines'[h] = goroutines[h]
    BY <1>2, IdleTypes DEF FwdInv, TablesTyped, GetUpfPfcpTxn
  <2>3. TablesTyped' /\ RegistrationsAreWaitedOn'
    BY <2>1, <2>2 DEF FwdInv, TablesTyped, RegistrationsAreWaitedOn
  <2>4. AnsweredOnce' /\ DeliveryNeverBlocks'
    BY <2>1, <2>2 DEF FwdInv, AnsweredOnce, DeliveryNeverBlocks
  <2>5. QED
    BY <2>3, <2>4 DEF FwdInv
<1>3. QED
  BY <1>1, <1>2

\* An answer that is delivered was the only one on its way to its channel.
LEMMA DeliverKeepsInv ==
    ASSUME FwdInv, NEW g \in Goroutines, Deliver(g)
    PROVE  FwdInv'
<1> DEFINE r == goroutines[g].channel
<1>1. goroutines[g].pc = "deliver" /\ r \in Requests
  BY DEF Deliver, FwdInv, TablesTyped, Answering
<1>2. /\ UNCHANGED <<requests, upfTxns>>
      /\ channels' = channels \cup {r}
      /\ DOMAIN goroutines' = Goroutines
      /\ \A h \in Goroutines : Answering(goroutines'[h])
      /\ goroutines'[g].pc = "idle"
      /\ \A h \in Goroutines \ {g} : goroutines'[h] = goroutines[h]
  BY IdleTypes DEF FwdInv, TablesTyped, Deliver
<1>3. \A h \in Goroutines \ {g} : goroutines[h].pc = "deliver" => goroutines[h].channel # r
  BY <1>1 DEF FwdInv, DeliveryNeverBlocks
<1>4. /\ requests[r].pc \notin {"idle", "register"}
      /\ \A s \in DOMAIN upfTxns : upfTxns[s] # r
  BY <1>1 DEF FwdInv, AnsweredOnce
<1> HIDE DEF r
<1>5. TablesTyped' /\ RegistrationsAreWaitedOn'
  BY <1>1, <1>2 DEF FwdInv, TablesTyped, RegistrationsAreWaitedOn
<1>6. AnsweredOnce'
  BY <1>2, <1>4 DEF FwdInv, AnsweredOnce
<1>7. DeliveryNeverBlocks'
  BY <1>2, <1>3 DEF FwdInv, DeliveryNeverBlocks
<1>8. QED
  BY <1>5, <1>6, <1>7 DEF FwdInv

\* Every step keeps it.
LEMMA FwdNextKeepsInv == FwdInv /\ [Next]_vars => FwdInv'
<1> SUFFICES ASSUME FwdInv, [Next]_vars PROVE FwdInv'
  OBVIOUS
<1>1. ASSUME NEW kind \in Kinds, NEW seq \in Seqs, Arrive(kind, seq) PROVE FwdInv'
  BY <1>1, ArriveKeepsInv
<1>2. ASSUME NEW r \in Requests, RequestStep(r) PROVE FwdInv'
  BY <1>2, InsertKeepsInv, SendKeepsInv, ReturnKeepsInv DEF RequestStep
<1>3. ASSUME NEW seq \in Seqs, ReadResponse(seq) PROVE FwdInv'
  BY <1>3, IdleTypes, StartKeepsInv DEF ReadResponse, Start
<1>4. ASSUME NEW seq \in Seqs, ReadUnusable(seq) PROVE FwdInv'
  BY <1>4, StutterKeepsInv DEF ReadUnusable
<1>5. ASSUME NEW g \in Goroutines, GoroutineStep(g) PROVE FwdInv'
  BY <1>5, GetKeepsInv, DeliverKeepsInv DEF GoroutineStep
<1>6. ASSUME NEW id \in TxIds, Write(id) \/ TxStep(id) PROVE FwdInv'
  BY <1>6, StutterKeepsInv DEF Write, TxStep
<1>7. ASSUME NEW id \in TxIds, HandlePfcpSendError(id) PROVE FwdInv'
  BY <1>7, IdleTypes, StartKeepsInv DEF HandlePfcpSendError, Start
<1>8. CASE UNCHANGED vars
  BY <1>8, StutterKeepsInv DEF vars
<1>9. QED
  BY <1>1, <1>2, <1>3, <1>4, <1>5, <1>6, <1>7, <1>8 DEF Next

-----------------------------------------------------------------------------
(* The transactions.                                                       *)

\* The operations of the transactions are those their proofs are about.
LEMMA SameTxOperations ==
    /\ TxProofs!TypeOK <=> Txs!TypeOK
    /\ \A c, s, id : Txs!PutTransaction(c, s, id) => TxProofs!PutTransaction(c, s, id)
    /\ \A id, event : Txs!PostEvent(id, event) => TxProofs!PostEvent(id, event)
    /\ \A id :
         /\ Txs!Write(id) => TxProofs!Write(id)
         /\ Txs!WriteFails(id) => TxProofs!WriteFails(id)
         /\ Txs!TakeResponse(id) => TxProofs!TakeResponse(id)
         /\ Txs!TakeResend(id) => TxProofs!TakeResend(id)
         /\ Txs!RequestTimeout(id) => TxProofs!RequestTimeout(id)
         /\ Txs!ResponseTimeout(id) => TxProofs!ResponseTimeout(id)
         /\ Txs!removeTransaction(id) => TxProofs!removeTransaction(id)
         /\ Txs!ErrHandler(id) => TxProofs!ErrHandler(id)
<1> USE DEF Txs!At, TxProofs!At, Txs!Store, TxProofs!Store, Txs!Without, TxProofs!Without,
            Txs!EmptyMap, TxProofs!EmptyMap, Txs!TxTable, TxProofs!TxTable, Txs!Held, TxProofs!Held,
            Txs!IsRequest, TxProofs!IsRequest, Txs!NoEvent, TxProofs!NoEvent,
            Txs!ReceiveResendRequest, TxProofs!ReceiveResendRequest,
            Txs!ReceiveValidResponse, TxProofs!ReceiveValidResponse
<1>1. TxProofs!TypeOK <=> Txs!TypeOK
  BY DEF TxProofs!TypeOK, Txs!TypeOK, TxProofs!Transaction, Txs!Transaction, TxProofs!Phases,
         Txs!Phases, TxProofs!Consumers, Txs!Consumers, TxProofs!Peer, Txs!Peer
<1>2. ASSUME NEW c, NEW s, NEW id
      PROVE  Txs!PutTransaction(c, s, id) => TxProofs!PutTransaction(c, s, id)
  BY DEF Txs!PutTransaction, TxProofs!PutTransaction, Txs!NewTransaction, TxProofs!NewTransaction
<1>3. ASSUME NEW id, NEW event PROVE Txs!PostEvent(id, event) => TxProofs!PostEvent(id, event)
  BY DEF Txs!PostEvent, TxProofs!PostEvent, Txs!Posted, TxProofs!Posted
<1>4. ASSUME NEW id
      PROVE  /\ Txs!Write(id) => TxProofs!Write(id)
             /\ Txs!WriteFails(id) => TxProofs!WriteFails(id)
             /\ Txs!TakeResponse(id) => TxProofs!TakeResponse(id)
             /\ Txs!TakeResend(id) => TxProofs!TakeResend(id)
  BY DEF Txs!Write, TxProofs!Write, Txs!WriteFails, TxProofs!WriteFails, Txs!TakeResponse,
         TxProofs!TakeResponse, Txs!TakeResend, TxProofs!TakeResend
<1>5. ASSUME NEW id
      PROVE  /\ Txs!RequestTimeout(id) => TxProofs!RequestTimeout(id)
             /\ Txs!ResponseTimeout(id) => TxProofs!ResponseTimeout(id)
             /\ Txs!removeTransaction(id) => TxProofs!removeTransaction(id)
             /\ Txs!ErrHandler(id) => TxProofs!ErrHandler(id)
  BY DEF Txs!RequestTimeout, TxProofs!RequestTimeout, Txs!ResponseTimeout,
         TxProofs!ResponseTimeout, Txs!removeTransaction, TxProofs!removeTransaction,
         Txs!DeleteIf, TxProofs!DeleteIf, Txs!ErrHandler, TxProofs!ErrHandler
<1> QED
  BY <1>1, <1>2, <1>3, <1>4, <1>5

\* A step of forwarding is a step of the transactions, or none.
LEMMA TransactionStep ==
    ASSUME FwdInv, WireInv, [Next]_vars
    PROVE  /\ [Txs!Next]_(Txs!vars) /\ TxProofs!TxInv'
           /\ goroutines' \in [Goroutines -> Goroutine]
<1>0. /\ TxProofs!ResendAssumption /\ TxProofs!SelfAssumption
      /\ TxProofs!TypeOK /\ Txs!TypeOK
  BY ResendAssumption, SameTxOperations DEF TxProofs!ResendAssumption, TxProofs!SelfAssumption,
     WireInv, TxProofs!TxInv
<1>1. ASSUME UNCHANGED txVars
      PROVE  UNCHANGED Txs!vars /\ TxProofs!TxInv'
  BY <1>0, <1>1, TxProofs!StutterKeepsInv
     DEF TxProofs!StutterKeepsInv, TxProofs!vars, Txs!vars, txVars, WireInv
<1>2. Self \in TxProofs!Consumers /\ Self \in Txs!Consumers
  BY DEF TxProofs!Consumers, Txs!Consumers
<1>3. ASSUME UNCHANGED goroutines
      PROVE  goroutines' \in [Goroutines -> Goroutine]
  BY <1>3 DEF WireInv
<1>4. ASSUME NEW seq \in Seqs, Start(AnswerTo(seq))
      PROVE  goroutines' \in [Goroutines -> Goroutine]
  <2>1. AnswerTo(seq) \in Goroutine
    BY SomeAssumption DEF AnswerTo, Goroutine, IdleGoroutine
  <2>2. QED
    BY <1>4, <2>1 DEF WireInv, Start
<1>5. ASSUME NEW r \in Requests, SendPfcp(r)
      PROVE  Txs!Next /\ TxProofs!TxInv'
  <2> DEFINE id == CHOOSE i \in TxIds : i \notin DOMAIN txs
  <2>1. id \in TxIds /\ requests[r].seq \in Seqs
    BY <1>5 DEF SendPfcp, FwdInv, TablesTyped, Request
  <2>2. Txs!PutTransaction(Self, requests[r].seq, id)
    BY <1>5 DEF SendPfcp
  <2> HIDE DEF id
  <2>3. Txs!Next
    BY <1>2, <2>1, <2>2 DEF Txs!Next
  <2>4. TxProofs!PutTransaction(Self, requests[r].seq, id)
    BY <2>2, SameTxOperations
  <2>5. TxProofs!TxInv'
    BY <1>0, <1>2, <2>1, <2>4, TxProofs!PutKeepsInv DEF TxProofs!PutKeepsInv, WireInv
  <2>6. QED
    BY <2>3, <2>5
<1>6. ASSUME NEW seq \in Seqs, Txs!AcceptResponse(seq)
      PROVE  Txs!Next /\ TxProofs!TxInv'
  <2> DEFINE id == Txs!TxTable(Self)[seq]
  <2>1. id \in TxIds /\ Txs!PostEvent(id, Txs!ReceiveValidResponse)
    BY <1>0, <1>6 DEF Txs!AcceptResponse, Txs!Held, Txs!TxTable, Txs!At, Txs!TypeOK, Txs!EmptyMap
  <2> HIDE DEF id
  <2>2. Txs!Next
    BY <2>1 DEF Txs!Next
  <2>3. /\ TxProofs!PostEvent(id, Txs!ReceiveValidResponse)
        /\ Txs!ReceiveValidResponse \in {TxProofs!ReceiveResendRequest, TxProofs!ReceiveValidResponse}
    BY <2>1, SameTxOperations DEF Txs!ReceiveValidResponse, TxProofs!ReceiveValidResponse
  <2>4. TxProofs!TxInv'
    BY <1>0, <2>1, <2>3, TxProofs!PostKeepsInv DEF TxProofs!PostKeepsInv, WireInv
  <2>5. QED
    BY <2>2, <2>4
<1>7. ASSUME NEW id \in TxIds, Write(id) \/ TxStep(id) \/ HandlePfcpSendError(id)
      PROVE  Txs!Next /\ TxProofs!TxInv'
  <2>1. \/ Txs!Write(id) \/ Txs!WriteFails(id) \/ Txs!TakeResponse(id) \/ Txs!RequestTimeout(id)
        \/ Txs!removeTransaction(id) \/ Txs!ErrHandler(id)
    BY <1>7 DEF Write, TxStep, HandlePfcpSendError
  <2>2. Txs!Next
    BY <2>1 DEF Txs!Next, Txs!Step
  <2>3. TxProofs!TxInv'
    BY <1>0, <2>1, SameTxOperations, TxProofs!RoundKeepsInv, TxProofs!RemoveKeepsInv,
       TxProofs!EndKeepsInv
       DEF TxProofs!RoundKeepsInv, TxProofs!RemoveKeepsInv, TxProofs!EndKeepsInv, WireInv
  <2>4. QED
    BY <2>2, <2>3
<1>8. ASSUME NEW id \in TxIds, HandlePfcpSendError(id)
      PROVE  goroutines' \in [Goroutines -> Goroutine]
  <2>1. txs[id].seq \in Seqs
    BY <1>0, <1>8 DEF HandlePfcpSendError, Txs!ErrHandler, Txs!TypeOK, Txs!Transaction
  <2>2. QED
    BY <1>4, <1>8, <2>1 DEF HandlePfcpSendError
<1>9. ASSUME NEW g \in Goroutines, GoroutineStep(g)
      PROVE  UNCHANGED txVars /\ goroutines' \in [Goroutines -> Goroutine]
  <2>1. UNCHANGED txVars
    BY <1>9 DEF GoroutineStep, GetUpfPfcpTxn, Deliver, wire
  <2>2. IdleGoroutine \in Goroutine /\ goroutines[g] \in Goroutine
    BY SomeAssumption DEF IdleGoroutine, AnySeq, Goroutine, WireInv
  <2>3. CASE GetUpfPfcpTxn(g) /\ goroutines[g].seq \in DOMAIN upfTxns
    <3> DEFINE goroutine == [goroutines[g] EXCEPT !.pc = "deliver",
                                                  !.channel = upfTxns[goroutines[g].seq]]
    <3>1. goroutine \in Goroutine
      BY <2>2, <2>3 DEF Goroutine, FwdInv, TablesTyped
    <3>2. goroutines' = [goroutines EXCEPT ![g] = goroutine]
      BY <2>3 DEF GetUpfPfcpTxn
    <3> HIDE DEF goroutine
    <3>3. QED
      BY <2>1, <3>1, <3>2 DEF WireInv
  <2>4. CASE GetUpfPfcpTxn(g) /\ goroutines[g].seq \notin DOMAIN upfTxns
    BY <2>1, <2>2, <2>4 DEF GetUpfPfcpTxn, WireInv
  <2>5. CASE Deliver(g)
    BY <2>1, <2>2, <2>5 DEF Deliver, WireInv
  <2>6. QED
    BY <1>9, <2>3, <2>4, <2>5 DEF GoroutineStep
<1>10. ASSUME NEW kind \in Kinds, NEW seq \in Seqs, Arrive(kind, seq)
       PROVE  UNCHANGED <<txVars, goroutines>>
  BY <1>10 DEF Arrive, ButRequests, wire
<1>11. ASSUME NEW r \in Requests, RequestStep(r)
       PROVE  UNCHANGED goroutines /\ (SendPfcp(r) \/ UNCHANGED txVars)
  BY <1>11 DEF RequestStep, InsertUpfPfcpTxn, SendPfcp, SendFails, ForgetUpfPfcpTxn, Receive,
     ButRequests, wire
<1>12. QED
  <2>1. CASE UNCHANGED vars
    BY <1>1, <1>3, <2>1 DEF vars, wire
  <2>2. ASSUME NEW kind \in Kinds, NEW seq \in Seqs, Arrive(kind, seq)
        PROVE  UNCHANGED <<txVars, goroutines>>
    BY <1>10, <2>2
  <2>3. ASSUME NEW r \in Requests, RequestStep(r)
        PROVE  /\ [Txs!Next]_(Txs!vars) /\ TxProofs!TxInv'
               /\ goroutines' \in [Goroutines -> Goroutine]
    BY <1>1, <1>3, <1>5, <1>11, <2>3
  <2>4. ASSUME NEW seq \in Seqs, ReadResponse(seq) \/ ReadUnusable(seq)
        PROVE  /\ [Txs!Next]_(Txs!vars) /\ TxProofs!TxInv'
               /\ goroutines' \in [Goroutines -> Goroutine]
    BY <1>3, <1>4, <1>6, <2>4 DEF ReadResponse, ReadUnusable
  <2>5. ASSUME NEW id \in TxIds, Write(id) \/ TxStep(id) \/ HandlePfcpSendError(id)
        PROVE  /\ [Txs!Next]_(Txs!vars) /\ TxProofs!TxInv'
               /\ goroutines' \in [Goroutines -> Goroutine]
    BY <1>3, <1>7, <1>8, <2>5 DEF Write, TxStep
  <2>6. QED
    BY <1>1, <1>3, <1>9, <2>1, <2>2, <2>3, <2>4, <2>5 DEF Next

\* The transactions' invariant and the types of numbers hold to begin with.
LEMMA WireInitially == Init => WireInv
<1> SUFFICES ASSUME Init PROVE WireInv
  OBVIOUS
<1>1. TxProofs!Init
  BY DEF Init, Txs!Init, TxProofs!Init, Txs!EmptyMap, TxProofs!EmptyMap
<1>2. TxProofs!TxInv
  BY <1>1, ResendAssumption, TxProofs!InitEstablishesInv
     DEF TxProofs!InitEstablishesInv, TxProofs!ResendAssumption, TxProofs!SelfAssumption
<1>3. QED
  BY <1>2, SomeAssumption DEF WireInv, Init, IdleGoroutine, AnySeq, Goroutine

-----------------------------------------------------------------------------
(* Theorems.                                                               *)

\* The inductive invariant holds in every reachable state of forwarding.
THEOREM FwdInvariance == Spec => []FwdInv
BY FwdInitEstablishesInv, FwdNextKeepsInv, PTL DEF Spec

\* No registration in UpfTxns outlives the request it was made for.
THEOREM NoRegistrationOutlivesItsRequest == Spec => []RegistrationsAreWaitedOn
<1>1. FwdInv => RegistrationsAreWaitedOn
  BY DEF FwdInv
<1>2. QED
  BY <1>1, FwdInvariance, PTL

\* Nobody ever waits for room in the channel of a request, however many requests share
\* a number and however many responses and failures there are.
THEOREM NoDeliveryBlocks == Spec => []DeliveryNeverBlocks
<1>1. FwdInv => DeliveryNeverBlocks
  BY DEF FwdInv
<1>2. QED
  BY <1>1, FwdInvariance, PTL

\* The transactions of forwarded requests keep their invariant.
THEOREM WireInvariance == Spec => []WireInv
<1>1. FwdInv /\ WireInv /\ [Next]_vars => WireInv'
  BY TransactionStep DEF WireInv
<1>2. QED
  BY <1>1, WireInitially, FwdInvariance, PTL DEF Spec

\* Types of the handlers, the goroutines and the tables between them: an answer is on
\* its way under a number that was some request's.
THEOREM TypeCorrect == Spec => []TypeOK
<1>1. FwdInv /\ WireInv => TypeOK
  <2> SUFFICES ASSUME FwdInv, WireInv PROVE TypeOK
    OBVIOUS
  <2>1. Txs!TypeOK
    BY SameTxOperations DEF WireInv, TxProofs!TxInv
  <2>2. QED
    BY <2>1 DEF FwdInv, TablesTyped, WireInv, TypeOK
<1>2. QED
  BY <1>1, FwdInvariance, WireInvariance, PTL

\* Forwarding uses the transactions as they are specified, so what is proved of them
\* holds of the requests it sends.
THEOREM ImplementsTransactions == Spec => Txs!Spec
<1>1. Init => Txs!Init
  BY DEF Init
<1>2. FwdInv /\ WireInv /\ [Next]_vars => [Txs!Next]_(Txs!vars)
  BY TransactionStep
<1>3. QED
  BY <1>1, <1>2, FwdInvariance, WireInvariance, PTL DEF Spec, Txs!Spec

=============================================================================
