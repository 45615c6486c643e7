------------------------- MODULE TransactionsProofs -------------------------
(***************************************************************************)
(* What holds of the transaction table for every set of peers, numbers and *)
(* transactions and every number of resends.                               *)
(***************************************************************************)
EXTENDS Transactions, TLAPS

\* The inductive invariant.  The two table properties need each other: an entry
\* is cleared by the one goroutine it names, which only knows where to look
\* because the entry and the transaction name the same consumer and number.
TxInv == TypeOK /\ IterationsLeft /\ HeldNumbersAreRunning /\ RunningIsFindable

-----------------------------------------------------------------------------
(* Lemmas.                                                                 *)

\* A number is held when its consumer has a table with that number in it.
LEMMA HeldInTable ==
    ASSUME NEW c, NEW s
    PROVE  /\ Held(c, s) <=> c \in DOMAIN consumerTable /\ s \in DOMAIN consumerTable[c]
           /\ Held(c, s) => TxTable(c)[s] = consumerTable[c][s]
BY DEF Held, TxTable, At, EmptyMap

\* RunningIsFindable in terms of the table itself.
LEMMA FindableInTable ==
    RunningIsFindable <=>
      \A id \in DOMAIN txs :
        txs[id].phase # "failed" /\ id \notin detached =>
          /\ txs[id].consumer \in DOMAIN consumerTable
          /\ txs[id].seq \in DOMAIN consumerTable[txs[id].consumer]
          /\ consumerTable[txs[id].consumer][txs[id].seq] = id
BY HeldInTable DEF RunningIsFindable

\* The same in the next state.
LEMMA FindableInTableNext ==
    RunningIsFindable' <=>
      \A id \in DOMAIN txs' :
        txs'[id].phase # "failed" /\ id \notin detached' =>
          /\ txs'[id].consumer \in DOMAIN consumerTable'
          /\ txs'[id].seq \in DOMAIN consumerTable'[txs'[id].consumer]
          /\ consumerTable'[txs'[id].consumer][txs'[id].seq] = id
BY DEF RunningIsFindable, Held, TxTable, At, EmptyMap

\* A step of one goroutine that leaves its transaction registered under its name keeps
\* the invariant.
LEMMA AdvanceKeepsInv ==
    ASSUME TxInv, NEW id \in DOMAIN txs, NEW tx \in Transaction,
           txs' = [txs EXCEPT ![id] = tx],
           tx.consumer = txs[id].consumer, tx.seq = txs[id].seq,
           txs[id].phase # "failed", tx.phase # "failed",
           tx.phase \in {"write", "wait"} => tx.iter < NumOfResend,
           UNCHANGED <<consumerTable, detached>>
    PROVE  TxInv'
<1>1. /\ DOMAIN txs' = DOMAIN txs
      /\ txs'[id] = tx
      /\ \A other \in DOMAIN txs \ {id} : txs'[other] = txs[other]
  OBVIOUS
<1>2. TypeOK' /\ IterationsLeft'
  BY <1>1 DEF TxInv, TypeOK, IterationsLeft
<1>3. HeldNumbersAreRunning'
  BY <1>1 DEF TxInv, HeldNumbersAreRunning
<1>4. RunningIsFindable'
  BY <1>1, FindableInTable, FindableInTableNext DEF TxInv
<1>5. QED
  BY <1>2, <1>3, <1>4 DEF TxInv

-----------------------------------------------------------------------------
(* The invariant is kept by every action.                                  *)

\* It holds of the empty table the socket is opened with.
LEMMA InitEstablishesInv == Init => TxInv
BY FindableInTable DEF Init, TxInv, TypeOK, IterationsLeft, HeldNumbersAreRunning, EmptyMap

\* A step that changes no variable keeps it: ErrDuplicateSequence among others.
LEMMA StutterKeepsInv == TxInv /\ UNCHANGED vars => TxInv'
<1> SUFFICES ASSUME TxInv, UNCHANGED vars PROVE TxInv'
  OBVIOUS
<1>1. TypeOK' /\ IterationsLeft' /\ HeldNumbersAreRunning'
  BY DEF TxInv, vars, TypeOK, IterationsLeft, HeldNumbersAreRunning
<1>2. RunningIsFindable'
  BY FindableInTable, FindableInTableNext DEF TxInv, vars
<1>3. QED
  BY <1>1, <1>2 DEF TxInv

\* PutTransaction keeps it: the number was free, and every other stays where it was.
LEMMA PutKeepsInv ==
    ASSUME TxInv, NEW consumer \in Consumers, NEW seq \in Seqs, NEW id \in TxIds,
           PutTransaction(consumer, seq, id)
    PROVE  TxInv'
<1> DEFINE new == NewTransaction(consumer, seq)
<1>1. new \in Transaction /\ new.consumer = consumer /\ new.seq = seq
      /\ new.phase = "write" /\ new.iter < NumOfResend
  BY ResendAssumption DEF NewTransaction, Transaction, Phases
<1>2. /\ id \notin DOMAIN txs
      /\ DOMAIN txs' = DOMAIN txs \cup {id}
      /\ txs'[id] = new
      /\ \A other \in DOMAIN txs : txs'[other] = txs[other]
      /\ detached' = detached
  BY DEF PutTransaction, Store
<1> HIDE DEF new
<1>3. /\ DOMAIN consumerTable' = DOMAIN consumerTable \cup {consumer}
      /\ \A c \in DOMAIN consumerTable \ {consumer} : consumerTable'[c] = consumerTable[c]
      /\ consumerTable'[consumer] = Store(TxTable(consumer), seq, id)
  BY DEF PutTransaction, Store
<1>4. /\ DOMAIN consumerTable'[consumer] = DOMAIN TxTable(consumer) \cup {seq}
      /\ consumerTable'[consumer][seq] = id
      /\ \A s \in DOMAIN TxTable(consumer) \ {seq} :
           consumerTable'[consumer][s] = TxTable(consumer)[s]
  BY <1>3 DEF Store
<1>5. /\ consumer \in DOMAIN consumerTable =>
           TxTable(consumer) = consumerTable[consumer] /\ seq \notin DOMAIN consumerTable[consumer]
      /\ consumer \notin DOMAIN consumerTable => DOMAIN TxTable(consumer) = {}
  BY DEF PutTransaction, Held, TxTable, At, EmptyMap
<1>6. TypeOK' /\ IterationsLeft'
  BY <1>1, <1>2, <1>3, <1>4, <1>5 DEF TxInv, TypeOK, IterationsLeft
<1>7. HeldNumbersAreRunning'
  BY <1>1, <1>2, <1>3, <1>4, <1>5 DEF TxInv, HeldNumbersAreRunning
<1>8. RunningIsFindable'
  BY <1>1, <1>2, <1>3, <1>4, <1>5, FindableInTable, FindableInTableNext DEF TxInv
<1>9. QED
  BY <1>6, <1>7, <1>8 DEF TxInv

\* DeleteByHost keeps it: what the dropped tables held is accounted for as detached.
LEMMA ReleaseKeepsInv ==
    ASSUME TxInv, NEW host \in Hosts, DeleteByHost(host)
    PROVE  TxInv'
<1> DEFINE gone == {c \in DOMAIN consumerTable \ {Self} : c.host = host}
<1>1. /\ DOMAIN consumerTable' = DOMAIN consumerTable \ gone
      /\ \A c \in DOMAIN consumerTable' : consumerTable'[c] = consumerTable[c]
      /\ txs' = txs
  BY DEF DeleteByHost, Without
<1>2. \A id : id \in detached' <=>
        \/ id \in detached
        \/ \E c \in gone : \E s \in DOMAIN consumerTable[c] : id = consumerTable[c][s]
  BY DEF DeleteByHost
<1>3. gone \subseteq DOMAIN consumerTable
  OBVIOUS
<1> HIDE DEF gone
<1>4. TypeOK' /\ IterationsLeft'
  BY <1>1, <1>2, <1>3 DEF TxInv, TypeOK, IterationsLeft
<1>5. HeldNumbersAreRunning'
  BY <1>1 DEF TxInv, HeldNumbersAreRunning
<1>6. RunningIsFindable'
  BY <1>1, <1>2, <1>3, FindableInTable, FindableInTableNext DEF TxInv
<1>7. QED
  BY <1>4, <1>5, <1>6 DEF TxInv

\* One round of Start keeps it, whichever way it goes.
LEMMA RoundKeepsInv ==
    ASSUME TxInv, NEW id \in TxIds,
           \/ Write(id) \/ WriteFails(id) \/ TakeResponse(id) \/ TakeResend(id)
           \/ RequestTimeout(id) \/ ResponseTimeout(id)
    PROVE  TxInv'
<1>1. /\ id \in DOMAIN txs
      /\ txs[id].phase \in {"write", "wait"}
      /\ UNCHANGED <<consumerTable, detached>>
  BY DEF Write, WriteFails, TakeResponse, TakeResend, RequestTimeout, ResponseTimeout
<1>2. txs[id] \in Transaction /\ txs[id].iter < NumOfResend
  BY <1>1 DEF TxInv, TypeOK, IterationsLeft
<1>3. SUFFICES ASSUME NEW tx \in Transaction,
                      txs' = [txs EXCEPT ![id] = tx],
                      tx.consumer = txs[id].consumer, tx.seq = txs[id].seq,
                      tx.phase # "failed",
                      tx.phase \in {"write", "wait"} => tx.iter < NumOfResend
               PROVE  TxInv'
  <2>1. CASE Write(id)
    <3> DEFINE tx == [txs[id] EXCEPT !.phase = "wait"]
    <3>1. txs' = [txs EXCEPT ![id] = tx]
      BY <2>1 DEF Write
    <3>2. tx \in Transaction /\ tx.phase = "wait" /\ tx.iter < NumOfResend
      BY <1>2 DEF Transaction, Phases
    <3>3. QED
      BY <1>2, <1>3, <3>1, <3>2 DEF Transaction
  <2>2. CASE WriteFails(id)
    <3> DEFINE tx == [txs[id] EXCEPT !.phase = "remove", !.failed = TRUE]
    <3>1. txs' = [txs EXCEPT ![id] = tx]
      BY <2>2 DEF WriteFails
    <3>2. tx \in Transaction /\ tx.phase = "remove"
      BY <1>2 DEF Transaction, Phases
    <3>3. QED
      BY <1>2, <1>3, <3>1, <3>2 DEF Transaction
  <2>3. CASE TakeResponse(id)
    <3> DEFINE tx == [txs[id] EXCEPT !.phase = "remove", !.event = NoEvent]
    <3>1. txs' = [txs EXCEPT ![id] = tx]
      BY <2>3 DEF TakeResponse
    <3>2. tx \in Transaction /\ tx.phase = "remove"
      BY <1>2 DEF Transaction, Phases
    <3>3. QED
      BY <1>2, <1>3, <3>1, <3>2 DEF Transaction
  <2>4. CASE TakeResend(id)
    <3>1. txs[id].iter \in 0..NumOfResend /\ txs[id].iter + 1 \in 0..NumOfResend
      BY <1>2, ResendAssumption DEF Transaction
    <3>2. CASE txs[id].iter + 1 < NumOfResend
      <4> DEFINE tx == [txs[id] EXCEPT !.iter = @ + 1, !.event = NoEvent, !.phase = "write"]
      <4>1. txs' = [txs EXCEPT ![id] = tx]
        BY <2>4, <3>2 DEF TakeResend
      <4>2. tx \in Transaction /\ tx.phase = "write" /\ tx.iter < NumOfResend
        BY <1>2, <3>1, <3>2 DEF Transaction, Phases
      <4>3. QED
        BY <1>2, <1>3, <4>1, <4>2 DEF Transaction
    <3>3. CASE ~(txs[id].iter + 1 < NumOfResend)
      <4> DEFINE tx == [txs[id] EXCEPT !.iter = @ + 1, !.event = NoEvent, !.phase = "remove"]
      <4>1. txs' = [txs EXCEPT ![id] = tx]
        BY <2>4, <3>3 DEF TakeResend
      <4>2. tx \in Transaction /\ tx.phase = "remove"
        BY <1>2, <3>1 DEF Transaction, Phases
      <4>3. QED
        BY <1>2, <1>3, <4>1, <4>2 DEF Transaction
    <3>4. QED
      BY <3>2, <3>3
  <2>5. CASE RequestTimeout(id)
    <3>1. txs[id].iter \in 0..NumOfResend /\ txs[id].iter + 1 \in 0..NumOfResend
      BY <1>2, ResendAssumption DEF Transaction
    <3>2. CASE txs[id].iter + 1 < NumOfResend
      <4> DEFINE tx == [txs[id] EXCEPT !.iter = @ + 1, !.failed = FALSE, !.phase = "write"]
      <4>1. txs' = [txs EXCEPT ![id] = tx]
        BY <2>5, <3>2 DEF RequestTimeout
      <4>2. tx \in Transaction /\ tx.phase = "write" /\ tx.iter < NumOfResend
        BY <1>2, <3>1, <3>2 DEF Transaction, Phases
      <4>3. QED
        BY <1>2, <1>3, <4>1, <4>2 DEF Transaction
    <3>3. CASE ~(txs[id].iter + 1 < NumOfResend)
      <4> DEFINE tx == [txs[id] EXCEPT !.iter = @ + 1, !.failed = TRUE, !.phase = "remove"]
      <4>1. txs' = [txs EXCEPT ![id] = tx]
        BY <2>5, <3>3 DEF RequestTimeout
      <4>2. tx \in Transaction /\ tx.phase = "remove"
        BY <1>2, <3>1 DEF Transaction, Phases
      <4>3. QED
        BY <1>2, <1>3, <4>1, <4>2 DEF Transaction
    <3>4. QED
      BY <3>2, <3>3
  <2>6. CASE ResponseTimeout(id)
    <3> DEFINE tx == [txs[id] EXCEPT !.phase = "remove", !.failed = TRUE]
    <3>1. txs' = [txs EXCEPT ![id] = tx]
      BY <2>6 DEF ResponseTimeout
    <3>2. tx \in Transaction /\ tx.phase = "remove"
      BY <1>2 DEF Transaction, Phases
    <3>3. QED
      BY <1>2, <1>3, <3>1, <3>2 DEF Transaction
  <2>7. QED
    BY <2>1, <2>2, <2>3, <2>4, <2>5, <2>6
<1>4. QED
  BY <1>1, <1>3, AdvanceKeepsInv

\* removeTransaction keeps it: the entry it clears is its own, and is the only one
\* that names it.
LEMMA RemoveKeepsInv ==
    ASSUME TxInv, NEW id \in TxIds, removeTransaction(id)
    PROVE  TxInv'
<1> DEFINE c == txs[id].consumer
           s == txs[id].seq
           own == c \in DOMAIN consumerTable /\ s \in DOMAIN consumerTable[c]
                  /\ consumerTable[c][s] = id
<1>1. /\ id \in DOMAIN txs
      /\ txs[id] \in Transaction
      /\ txs[id].phase = "remove"
      /\ detached' = detached \ {id}
  BY DEF removeTransaction, TxInv, TypeOK
<1>2. /\ DOMAIN txs' \subseteq DOMAIN txs
      /\ DOMAIN txs \ {id} \subseteq DOMAIN txs'
      /\ \A other \in DOMAIN txs' \ {id} : txs'[other] = txs[other]
      /\ id \in DOMAIN txs' => txs'[id] = [txs[id] EXCEPT !.phase = "failed"]
  BY <1>1 DEF removeTransaction, Without
<1>3. /\ DOMAIN consumerTable' = DOMAIN consumerTable
      /\ \A k \in DOMAIN consumerTable :
           consumerTable'[k] = IF own /\ k = c THEN Without(consumerTable[k], {s})
                                               ELSE consumerTable[k]
  BY HeldInTable DEF removeTransaction, DeleteIf
<1>4. \A k \in DOMAIN consumerTable : \A q :
        /\ q \in DOMAIN consumerTable'[k] <=>
             q \in DOMAIN consumerTable[k] /\ ~(own /\ k = c /\ q = s)
        /\ q \in DOMAIN consumerTable'[k] => consumerTable'[k][q] = consumerTable[k][q]
  BY <1>3 DEF Without
<1>5. \A k \in DOMAIN consumerTable' : \A q \in DOMAIN consumerTable'[k] :
        consumerTable'[k][q] # id
  BY <1>1, <1>3, <1>4 DEF TxInv, HeldNumbersAreRunning
<1> HIDE DEF own
<1>6. id \in DOMAIN txs' => txs'[id] \in Transaction /\ txs'[id].phase = "failed"
  BY <1>1, <1>2 DEF Transaction, Phases
<1>7. TypeOK' /\ IterationsLeft'
  BY <1>1, <1>2, <1>3, <1>4, <1>6 DEF TxInv, TypeOK, IterationsLeft
<1>8. HeldNumbersAreRunning'
  BY <1>2, <1>3, <1>4, <1>5 DEF TxInv, HeldNumbersAreRunning
<1>9. RunningIsFindable'
  BY <1>1, <1>2, <1>3, <1>4, <1>6, FindableInTable, FindableInTableNext DEF TxInv, own
<1>10. QED
  BY <1>7, <1>8, <1>9 DEF TxInv

\* The end of a goroutine keeps it: a transaction that failed holds no number.
LEMMA EndKeepsInv ==
    ASSUME TxInv, NEW id \in TxIds, ErrHandler(id)
    PROVE  TxInv'
<1>1. /\ id \in DOMAIN txs /\ txs[id].phase = "failed"
      /\ DOMAIN txs' = DOMAIN txs \ {id}
      /\ \A other \in DOMAIN txs' : txs'[other] = txs[other]
      /\ UNCHANGED <<consumerTable, detached>>
  BY DEF ErrHandler, Without
<1>2. TypeOK' /\ IterationsLeft'
  BY <1>1 DEF TxInv, TypeOK, IterationsLeft
<1>3. HeldNumbersAreRunning'
  BY <1>1 DEF TxInv, HeldNumbersAreRunning
<1>4. RunningIsFindable'
  BY <1>1, FindableInTable, FindableInTableNext DEF TxInv
<1>5. QED
  BY <1>2, <1>3, <1>4 DEF TxInv

\* An event of the read loop keeps it, whether or not its transaction is still held.
LEMMA PostKeepsInv ==
    ASSUME TxInv, NEW id \in TxIds,
           NEW event \in {ReceiveResendRequest, ReceiveValidResponse},
           PostEvent(id, event)
    PROVE  TxInv'
<1>1. UNCHANGED <<consumerTable, detached>>
  BY DEF PostEvent
<1>2. CASE ~(id \in DOMAIN txs /\ txs[id].event = NoEvent)
  BY <1>1, <1>2, StutterKeepsInv DEF PostEvent, Posted, vars
<1>3. CASE id \in DOMAIN txs /\ txs[id].event = NoEvent
  <2> DEFINE tx == [txs[id] EXCEPT !.event = event]
  <2>1. /\ DOMAIN txs' = DOMAIN txs
        /\ txs'[id] = tx
        /\ \A other \in DOMAIN txs \ {id} : txs'[other] = txs[other]
    BY <1>3 DEF PostEvent, Posted
  <2>2. txs[id] \in Transaction
    BY <1>3 DEF TxInv, TypeOK
  <2>3. /\ tx \in Transaction
        /\ tx.consumer = txs[id].consumer /\ tx.seq = txs[id].seq
        /\ tx.phase = txs[id].phase /\ tx.iter = txs[id].iter
    BY <2>2 DEF Transaction
  <2> HIDE DEF tx
  <2>4. TypeOK' /\ IterationsLeft'
    BY <1>1, <1>3, <2>1, <2>3 DEF TxInv, TypeOK, IterationsLeft
  <2>5. HeldNumbersAreRunning'
    BY <1>1, <1>3, <2>1, <2>3 DEF TxInv, HeldNumbersAreRunning
  <2>6. RunningIsFindable'
    BY <1>1, <1>3, <2>1, <2>3, FindableInTable, FindableInTableNext DEF TxInv
  <2>7. QED
    BY <2>4, <2>5, <2>6 DEF TxInv
<1>4. QED
  BY <1>2, <1>3

\* Every step keeps it.
LEMMA NextKeepsInv == TxInv /\ [Next]_vars => TxInv'
<1> SUFFICES ASSUME TxInv, [Next]_vars PROVE TxInv'
  OBVIOUS
<1>1. ASSUME NEW consumer \in Consumers, NEW seq \in Seqs, NEW id \in TxIds,
             PutTransaction(consumer, seq, id)
      PROVE  TxInv'
  BY <1>1, PutKeepsInv
<1>2. ASSUME NEW consumer \in Consumers, NEW seq \in Seqs, PutDuplicate(consumer, seq)
      PROVE  TxInv'
  BY <1>2, StutterKeepsInv DEF PutDuplicate
<1>3. ASSUME NEW host \in Hosts, DeleteByHost(host) PROVE TxInv'
  BY <1>3, ReleaseKeepsInv
<1>4. ASSUME NEW id \in TxIds, NEW event \in {ReceiveResendRequest, ReceiveValidResponse},
             PostEvent(id, event)
      PROVE  TxInv'
  BY <1>4, PostKeepsInv
<1>5. ASSUME NEW id \in TxIds, Step(id) PROVE TxInv'
  BY <1>5, RoundKeepsInv, RemoveKeepsInv, EndKeepsInv DEF Step
<1>6. CASE UNCHANGED vars
  BY <1>6, StutterKeepsInv
<1>7. QED
  BY <1>1, <1>2, <1>3, <1>4, <1>5, <1>6 DEF Next

-----------------------------------------------------------------------------
(* Theorems.                                                               *)

\* The inductive invariant holds in every reachable state of the transaction table.
THEOREM Invariance == Spec => []TxInv
BY InitEstablishesInv, NextKeepsInv, PTL DEF Spec

\* No transaction is written more than NumOfResend times, and the tables hold
\* transactions under sequence numbers of consumers (Start, PutTransaction).
THEOREM TypeCorrect == Spec => []TypeOK
<1>1. TxInv => TypeOK
  BY DEF TxInv
<1>2. QED
  BY <1>1, Invariance, PTL

\* Every number in the table belongs to a running transaction, whose goroutine will
\* clear it, whether it is answered, given up or cannot be written.
THEOREM NoNumberIsLeftBehind == Spec => []HeldNumbersAreRunning
<1>1. TxInv => HeldNumbersAreRunning
  BY DEF TxInv
<1>2. QED
  BY <1>1, Invariance, PTL

\* A running transaction is found under its number until its peer is released: the
\* removal of a released predecessor never takes its successor's registration
\* (DeleteIf), and no registration replaces another (LoadOrStore).
THEOREM RemovalSparesSuccessors == Spec => []RunningIsFindable
<1>1. TxInv => RunningIsFindable
  BY DEF TxInv
<1>2. QED
  BY <1>1, Invariance, PTL

=============================================================================
