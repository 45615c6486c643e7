-------------------------- MODULE LifecycleProofs ---------------------------
(***************************************************************************)
(* What holds of the running adapter, from start to exit, for every set of *)
(* peers, numbers and transactions: the transaction tables under the read  *)
(* loop, the read loop's look-ups, and the order of the shutdown.          *)
(***************************************************************************)
EXTENDS Lifecycle, TransactionsProofs

\* What the read loop knows of the message it is looking up.  While an answer has
\* been held all along it is held now, so a table that was loaded is the live one
\* and the transaction that was loaded is the one held.
LookupSound ==
    /\ reader.heldSince => Held(reader.consumer, reader.seq)
    /\ reader.pc \in {"sequence", "transaction", "post"} /\ reader.table # "live" => ~reader.heldSince
    /\ reader.pc = "post" /\ reader.heldSince => reader.tx = Found(reader.consumer, reader.seq)
    /\ reader.pc = "dispatch" => ~reader.heldSince

\* How far the socket, the read loop and main are when Run is where it is.
ShutdownOrder ==
    /\ run \in {"listen", "publish", "start"} => loop = "none"
    /\ run = "listen" => socket = "none"
    /\ run \in {"publish", "start", "serve"} => socket = "open"
    /\ run \in {"start", "serve"} => published = TRUE
    /\ published = TRUE => socket # "none"
    /\ run = "join" => socket = "closed"
    /\ run = "done" => socket # "open" /\ loop # "running"
    /\ loop # "running" => reader.pc = "read"
    /\ main = "exited" => run = "done"

\* The inductive invariant.  The tables need nothing of the process, but the read
\* loop posts to a transaction it loaded, which its type says is one.
LifeInv == LifeTypeOK /\ TxInv /\ LookupSound /\ ShutdownOrder /\ NothingBeforeTheSocket

-----------------------------------------------------------------------------
(* The tables.                                                             *)

\* Handlers and transactions take steps of the tables.
LEMMA OthersStepTables ==
    ASSUME Register \/ Release \/ \E id \in TxIds : TxStep(id)
    PROVE  Next
<1>1. CASE Register
  <2>1. PICK consumer \in Consumers, seq \in Seqs : Put(consumer, seq)
    BY <1>1 DEF Register
  <2>2. PICK id \in TxIds : PutTransaction(consumer, seq, id)
    BY <2>1 DEF Put
  <2>3. QED
    BY <2>2 DEF Next
<1>2. CASE Release
  BY <1>2 DEF Release, Next
<1>3. ASSUME NEW id \in TxIds, TxStep(id) PROVE Next
  <2>1. Step(id)
    BY <1>3 DEF TxStep, Step
  <2>2. QED
    BY <2>1 DEF Next
<1>4. QED
  BY <1>1, <1>2, <1>3

\* Every step of the process is one of the tables, leaves them alone, or ends the
\* process with nothing left in them.
LEMMA StepOfTables ==
    ASSUME LifeTypeOK, LifeNext
    PROVE  Next \/ UNCHANGED vars \/ (Ended' /\ Init')
<1>1. CASE Signal \/ RunStep \/ Terminate \/ ReadClosed
  BY <1>1 DEF Signal, RunStep, ListenUDP, Publish, StartLoop, Close, Join, Terminate, ReadClosed,
              loopVars, vars
<1>2. CASE ListenAndServeFails
  BY <1>2 DEF ListenAndServeFails, Ended, Init
<1>3. CASE Read
  BY <1>3 DEF Read, ReadFromUDP
<1>4. CASE LoopStep
  <2>1. CASE Post
    <3>1. PICK id \in reader.tx : PostEvent(id, Event)
      BY <2>1 DEF Post
    <3>2. id \in TxIds /\ Event \in {ReceiveResendRequest, ReceiveValidResponse}
      BY DEF LifeTypeOK, Reader, Event
    <3>3. QED
      BY <3>1, <3>2 DEF Next
  <2>2. CASE ~Post
    BY <1>4, <2>2 DEF LoopStep, ReaderStep, ConsumerExists, LoadConsumer, SequenceExists,
                      LoadTransaction, PostNothing, Dispatch
  <2>3. QED
    BY <2>1, <2>2
<1>5. CASE Register \/ Release \/ \E id \in TxIds : TxStep(id)
  BY <1>5, OthersStepTables
<1>6. QED
  BY <1>1, <1>2, <1>3, <1>4, <1>5 DEF LifeNext

\* No step puts one transaction in the place of another: a number that is held before
\* and after is held by the same one.
LEMMA HolderStays ==
    ASSUME Next,
           NEW c \in DOMAIN consumerTable, NEW s \in DOMAIN consumerTable[c],
           c \in DOMAIN consumerTable', s \in DOMAIN consumerTable'[c]
    PROVE  consumerTable'[c][s] = consumerTable[c][s]
<1>1. ASSUME NEW consumer \in Consumers, NEW seq \in Seqs, NEW id \in TxIds,
             PutTransaction(consumer, seq, id)
      PROVE  consumerTable'[c][s] = consumerTable[c][s]
  <2>1. /\ consumerTable'[c] = IF c = consumer THEN Store(TxTable(consumer), seq, id)
                                              ELSE consumerTable[c]
        /\ ~(c = consumer /\ s = seq)
    BY <1>1, HeldInTable DEF PutTransaction, Store
  <2>2. c = consumer => TxTable(consumer) = consumerTable[c]
    BY DEF TxTable, At
  <2>3. QED
    BY <2>1, <2>2 DEF Store
<1>2. ASSUME NEW host \in Hosts, DeleteByHost(host)
      PROVE  consumerTable'[c][s] = consumerTable[c][s]
  BY <1>2 DEF DeleteByHost, Without
<1>3. ASSUME NEW id \in TxIds, removeTransaction(id)
      PROVE  consumerTable'[c][s] = consumerTable[c][s]
  BY <1>3 DEF removeTransaction, DeleteIf, Without
<1>4. CASE UNCHANGED consumerTable
  BY <1>4
<1>5. QED
  BY <1>1, <1>2, <1>3, <1>4
     DEF Next, PutDuplicate, vars, PostEvent, Step, Write, WriteFails, TakeResponse, TakeResend,
         RequestTimeout, ResponseTimeout, ErrHandler

\* So the invariant of the tables is one of the process.
LEMMA TablesKeepInv ==
    ASSUME LifeTypeOK, TxInv, [LifeNext]_lifeVars
    PROVE  TxInv'
<1>1. CASE Next \/ UNCHANGED vars
  BY <1>1, NextKeepsInv
<1>2. CASE Init'
  BY <1>2, FindableInTableNext
     DEF Init, TxInv, TypeOK, IterationsLeft, HeldNumbersAreRunning, EmptyMap
<1>3. CASE UNCHANGED lifeVars
  BY <1>3, NextKeepsInv DEF lifeVars, loopVars
<1>4. QED
  BY <1>1, <1>2, <1>3, StepOfTables

-----------------------------------------------------------------------------
(* The read loop.                                                          *)

\* Back at the top of its loop the reader refers to nothing.
LEMMA ReadingType ==
    /\ Reading \in Reader
    /\ Reading.pc = "read"
    /\ Reading.heldSince = FALSE
BY SeqsAssumption DEF Reading, Reader, Consumers

\* What a look-up finds is a transaction.
LEMMA FoundType ==
    ASSUME TypeOK, NEW c, NEW s
    PROVE  /\ Found(c, s) \subseteq TxIds
           /\ Held(c, s) => Found(c, s) # {}
BY HeldInTable DEF Found, TypeOK

\* LookupSound in the next state, in terms of the table itself.
LEMMA LookupInTableNext ==
    LookupSound' <=>
      /\ reader'.heldSince =>
           /\ reader'.consumer \in DOMAIN consumerTable'
           /\ reader'.seq \in DOMAIN consumerTable'[reader'.consumer]
      /\ reader'.pc \in {"sequence", "transaction", "post"} /\ reader'.table # "live"
           => ~reader'.heldSince
      /\ reader'.pc = "post" /\ reader'.heldSince =>
           reader'.tx = {consumerTable'[reader'.consumer][reader'.seq]}
      /\ reader'.pc = "dispatch" => ~reader'.heldSince
BY DEF LookupSound, Found, Held, TxTable, At, EmptyMap

\* A reader back at the top of its loop has nothing to be sound about.
LEMMA ReadingIsSound ==
    ASSUME reader' = Reading
    PROVE  reader' \in Reader /\ LookupSound'
BY ReadingType, LookupInTableNext

\* What does not find a table or a transaction was not held all along.
LEMMA NotFoundIsSound ==
    ASSUME reader \in Reader, reader' = NotFound, ~reader.heldSince
    PROVE  reader' \in Reader /\ LookupSound'
<1>1. CASE reader.kind = "request"
  <2>1. /\ reader' \in Reader
        /\ reader'.pc = "dispatch"
        /\ reader'.heldSince = reader.heldSince
    BY <1>1 DEF NotFound, Reader
  <2>2. QED
    BY <2>1, LookupInTableNext
<1>2. CASE reader.kind # "request"
  BY <1>2, ReadingIsSound DEF NotFound
<1>3. QED
  BY <1>1, <1>2

\* The reader goes on to another place with the table unchanged.
LEMMA GoOnIsSound ==
    ASSUME reader \in Reader, LookupSound, UNCHANGED consumerTable,
           NEW next \in Reader, reader' = next,
           next.consumer = reader.consumer, next.seq = reader.seq,
           next.heldSince = reader.heldSince,
           next.pc \in {"sequence", "transaction", "post"} /\ next.table # "live"
             => ~reader.heldSince,
           next.pc = "post" /\ reader.heldSince => next.tx = Found(reader.consumer, reader.seq),
           next.pc # "dispatch"
    PROVE  LookupSound'
<1>1. reader.heldSince => /\ reader.consumer \in DOMAIN consumerTable
                          /\ reader.seq \in DOMAIN consumerTable[reader.consumer]
  BY HeldInTable DEF LookupSound
<1>2. reader.heldSince => Found(reader.consumer, reader.seq) =
                            {consumerTable[reader.consumer][reader.seq]}
  BY <1>1, HeldInTable DEF Found
<1>3. QED
  BY <1>1, <1>2, LookupInTableNext

\* Every load of findTransaction, and what follows it, keeps the reader sound.
LEMMA ReaderStepIsSound ==
    ASSUME LifeInv, ReaderStep
    PROVE  reader' \in Reader /\ LookupSound' /\ reader.pc # "read"
<1>1. reader \in Reader /\ TypeOK /\ LookupSound
  BY DEF LifeInv, LifeTypeOK
<1>2. reader.heldSince => /\ reader.consumer \in DOMAIN consumerTable
                          /\ Found(reader.consumer, reader.seq) # {}
  BY <1>1, HeldInTable, FoundType DEF LookupSound
<1>3. CASE ConsumerExists
  <2>1. CASE reader.consumer \in DOMAIN consumerTable
    <3> DEFINE next == [reader EXCEPT !.pc = "table"]
    <3>1. next \in Reader /\ next.consumer = reader.consumer /\ next.seq = reader.seq
          /\ next.heldSince = reader.heldSince /\ next.pc = "table"
      BY <1>1 DEF Reader
    <3>2. reader' = next /\ UNCHANGED consumerTable /\ reader.pc = "consumer"
      BY <1>3, <2>1 DEF ConsumerExists, vars
    <3> HIDE DEF next
    <3>3. QED
      BY <1>1, <3>1, <3>2, GoOnIsSound
  <2>2. CASE reader.consumer \notin DOMAIN consumerTable
    BY <1>1, <1>2, <1>3, <2>2, NotFoundIsSound DEF ConsumerExists
  <2>3. QED
    BY <2>1, <2>2
<1>4. CASE LoadConsumer
  <2> DEFINE table == IF reader.consumer \in DOMAIN consumerTable THEN "live" ELSE "none"
             next == [reader EXCEPT !.pc = "sequence", !.table = table]
  <2>1. next \in Reader /\ next.consumer = reader.consumer /\ next.seq = reader.seq
        /\ next.heldSince = reader.heldSince /\ next.pc = "sequence" /\ next.table = table
    BY <1>1 DEF Reader
  <2>2. reader' = next /\ UNCHANGED consumerTable /\ reader.pc = "table"
    BY <1>4 DEF LoadConsumer, vars
  <2>3. next.table # "live" => ~reader.heldSince
    BY <1>2, <2>1
  <2> HIDE DEF next
  <2>4. QED
    BY <1>1, <2>1, <2>2, <2>3, GoOnIsSound
<1>5. /\ Load \subseteq TxIds
      /\ reader.pc \in {"sequence", "transaction"} /\ reader.heldSince
           => Load # {} /\ reader.table = "live" /\ Load = Found(reader.consumer, reader.seq)
  <2>1. reader.table \in {"none", "live", "detached"} /\ reader.frozen \subseteq TxIds
    BY <1>1 DEF Reader
  <2>2. reader.pc \in {"sequence", "transaction"} /\ reader.heldSince => reader.table = "live"
    BY <1>1 DEF LookupSound
  <2>3. QED
    BY <1>1, <1>2, <2>1, <2>2, FoundType DEF Load
<1>6. CASE SequenceExists
  <2>1. CASE Load # {}
    <3> DEFINE next == [reader EXCEPT !.pc = "transaction"]
    <3>1. next \in Reader /\ next.consumer = reader.consumer /\ next.seq = reader.seq
          /\ next.heldSince = reader.heldSince /\ next.pc = "transaction"
          /\ next.table = reader.table
      BY <1>1 DEF Reader
    <3>2. reader' = next /\ UNCHANGED consumerTable /\ reader.pc = "sequence"
      BY <1>6, <2>1 DEF SequenceExists, vars
    <3> HIDE DEF next
    <3>3. QED
      BY <1>1, <1>5, <3>1, <3>2, GoOnIsSound
  <2>2. CASE Load = {}
    BY <1>1, <1>5, <1>6, <2>2, NotFoundIsSound DEF SequenceExists
  <2>3. QED
    BY <2>1, <2>2
<1>7. CASE LoadTransaction
  <2> DEFINE next == [reader EXCEPT !.pc = "post", !.tx = Load]
  <2>1. next \in Reader /\ next.consumer = reader.consumer /\ next.seq = reader.seq
        /\ next.heldSince = reader.heldSince /\ next.pc = "post" /\ next.tx = Load
        /\ next.table = reader.table
    BY <1>1, <1>5 DEF Reader
  <2>2. reader' = next /\ UNCHANGED consumerTable /\ reader.pc = "transaction"
    BY <1>7 DEF LoadTransaction, vars
  <2> HIDE DEF next
  <2>3. QED
    BY <1>1, <1>5, <2>1, <2>2, GoOnIsSound
<1>8. CASE Post \/ Dispatch
  BY <1>8, ReadingIsSound DEF Post, Dispatch
<1>9. CASE PostNothing
  <2>1. reader.pc = "post" /\ ~reader.heldSince
    BY <1>1, <1>2, <1>9 DEF PostNothing, LookupSound
  <2>2. CASE reader.kind = "request"
    BY <1>1, <1>9, <2>1, <2>2, NotFoundIsSound DEF PostNothing
  <2>3. CASE reader.kind # "request"
    <3> DEFINE next == [reader EXCEPT !.pc = "crashed"]
    <3>1. next \in Reader /\ next.consumer = reader.consumer /\ next.seq = reader.seq
          /\ next.heldSince = reader.heldSince /\ next.pc = "crashed"
      BY <1>1 DEF Reader
    <3>2. reader' = next /\ UNCHANGED consumerTable
      BY <1>9, <2>3 DEF PostNothing, vars
    <3> HIDE DEF next
    <3>3. QED
      BY <1>1, <2>1, <3>1, <3>2, GoOnIsSound
  <2>4. QED
    BY <2>2, <2>3
<1>10. QED
  BY <1>3, <1>4, <1>6, <1>7, <1>8, <1>9 DEF ReaderStep

\* A message that is read is sound from the start.
LEMMA ReadIsSound ==
    ASSUME reader \in Reader, NEW kind \in {"request", "response"},
           NEW consumer \in Consumers, NEW seq \in Seqs, ReadFromUDP(kind, consumer, seq)
    PROVE  reader' \in Reader /\ LookupSound'
<1>1. Held(consumer, seq) \in BOOLEAN
  BY DEF Held
<1>2. /\ reader' \in Reader
      /\ reader'.pc = "consumer"
      /\ reader'.consumer = consumer /\ reader'.seq = seq
      /\ reader'.heldSince = Held(consumer, seq)
  BY <1>1 DEF ReadFromUDP, Reader
<1>3. UNCHANGED consumerTable
  BY DEF ReadFromUDP, vars
<1>4. QED
  BY <1>2, <1>3, HeldInTable, LookupInTableNext

\* Whatever others do to the tables meanwhile leaves it sound.
LEMMA WatchIsSound ==
    ASSUME reader \in Reader, TypeOK, LookupSound, Watch, Next
    PROVE  reader' \in Reader /\ LookupSound' /\ reader'.pc = reader.pc
<1> DEFINE after == At(consumerTable', reader.consumer, EmptyMap)
           releasing == /\ reader.consumer \notin DOMAIN consumerTable'
                        /\ reader.table = "live"
           held == reader.heldSince /\ reader.seq \in DOMAIN after
           table == IF releasing THEN "detached" ELSE reader.table
           frozen == IF releasing THEN Found(reader.consumer, reader.seq) ELSE reader.frozen
<1>1. /\ held \in BOOLEAN
      /\ table \in {"none", "live", "detached"}
      /\ frozen \subseteq TxIds
  BY FoundType DEF Reader
<1>2. reader' = [reader EXCEPT !.heldSince = held, !.table = table, !.frozen = frozen]
  BY DEF Watch
<1>3. /\ held => /\ reader.heldSince
                 /\ reader.consumer \in DOMAIN consumerTable'
                 /\ reader.seq \in DOMAIN consumerTable'[reader.consumer]
      /\ table # "live" => reader.table # "live" \/ ~held
  BY DEF At, EmptyMap
<1> HIDE DEF held, table, frozen
<1>4. /\ reader' \in Reader
      /\ reader'.pc = reader.pc /\ reader'.tx = reader.tx
      /\ reader'.consumer = reader.consumer /\ reader'.seq = reader.seq
      /\ reader'.heldSince = held /\ reader'.table = table
  BY <1>1, <1>2 DEF Reader
<1>5. held /\ reader.pc = "post" =>
        reader.tx = {consumerTable'[reader.consumer][reader.seq]}
  BY <1>3, HolderStays, HeldInTable DEF LookupSound, Found
<1>6. QED
  BY <1>3, <1>4, <1>5, LookupInTableNext DEF LookupSound

-----------------------------------------------------------------------------
(* The process.                                                            *)

\* The invariant holds when main has started Run and the HTTP server.
LEMMA LifeInitEstablishesInv == LifeInit => LifeInv
<1> SUFFICES ASSUME LifeInit PROVE LifeInv
  OBVIOUS
<1>1. TxInv
  BY InitEstablishesInv DEF LifeInit, LoopInit
<1>2. reader \in Reader /\ reader.pc = "read" /\ reader.heldSince = FALSE
  BY ReadingType DEF LifeInit, LoopInit
<1>3. LifeTypeOK
  BY <1>1, <1>2 DEF TxInv, LifeInit, LifeTypeOK
<1>4. LookupSound /\ ShutdownOrder /\ NothingBeforeTheSocket
  BY <1>2 DEF LifeInit, LoopInit, Init, EmptyMap, LookupSound, ShutdownOrder, NothingBeforeTheSocket
<1>5. QED
  BY <1>1, <1>3, <1>4 DEF LifeInv

\* Every step of main, Run, the read loop and the transactions keeps the reader sound.
LEMMA LookupKept ==
    ASSUME LifeInv, LifeNext
    PROVE  reader' \in Reader /\ LookupSound'
<1>1. reader \in Reader /\ TypeOK /\ LookupSound
  BY DEF LifeInv, LifeTypeOK
<1>2. CASE UNCHANGED loopVars
  <2>1. UNCHANGED <<reader, consumerTable>>
    BY <1>2 DEF loopVars, vars
  <2>2. QED
    BY <1>1, <2>1, HeldInTable, LookupInTableNext DEF LookupSound, Found
<1>3. CASE ListenAndServeFails
  BY <1>3, ReadingIsSound DEF ListenAndServeFails
<1>4. CASE Read
  <2>1. Peer \subseteq Consumers /\ Self \in Consumers
    BY DEF Consumers
  <2>2. QED
    BY <1>1, <1>4, <2>1, ReadIsSound DEF Read
<1>5. CASE LoopStep
  BY <1>5, ReaderStepIsSound DEF LoopStep
<1>6. CASE Register \/ Release \/ \E id \in TxIds : TxStep(id)
  BY <1>1, <1>6, OthersStepTables, WatchIsSound DEF Register, Release, TxStep
<1>7. QED
  BY <1>2, <1>3, <1>4, <1>5, <1>6
     DEF LifeNext, Signal, RunStep, ListenUDP, Publish, StartLoop, Close, Join, Terminate, ReadClosed

\* Every step keeps the order in which the process comes up and goes down.
LEMMA OrderKept ==
    ASSUME LifeInv, LifeNext
    PROVE  ShutdownOrder' /\ <<signalled, run, socket, published, loop, main>>' \in
             BOOLEAN \X {"listen", "publish", "start", "serve", "join", "done"} \X
             {"none", "open", "closed"} \X BOOLEAN \X {"none", "running", "stopped"} \X
             {"serving", "exited", "failed"}
<1> USE DEF LifeInv, LifeTypeOK, ShutdownOrder
<1>1. CASE Signal \/ RunStep \/ Terminate \/ ReadClosed
  <2>1. CASE Signal \/ Terminate \/ ReadClosed
    BY <2>1 DEF Signal, Terminate, ReadClosed, loopVars
  <2>2. CASE ListenUDP \/ Publish \/ StartLoop
    BY <2>2 DEF ListenUDP, Publish, StartLoop, loopVars, LifeNext, Ended
  <2>3. CASE Close \/ Join
    BY <2>3 DEF Close, Join, loopVars, LifeNext, Ended
  <2>4. QED
    BY <1>1, <2>1, <2>2, <2>3 DEF RunStep
<1>2. CASE ListenAndServeFails
  BY <1>2, ReadingType DEF ListenAndServeFails
<1>3. CASE Read
  BY <1>3 DEF Read, procVars
<1>4. CASE LoopStep
  <2>1. reader.pc # "read"
    BY <1>4, ReaderStepIsSound DEF LoopStep
  <2>2. QED
    BY <1>4, <2>1 DEF LoopStep, procVars
<1>5. CASE Register \/ Release \/ \E id \in TxIds : TxStep(id)
  <2>1. reader'.pc = reader.pc /\ UNCHANGED procVars
    BY <1>5, OthersStepTables, WatchIsSound DEF Register, Release, TxStep
  <2>2. QED
    BY <2>1 DEF procVars
<1>6. QED
  BY <1>1, <1>2, <1>3, <1>4, <1>5 DEF LifeNext

\* Every step leaves the socket before whatever is to use it.
LEMMA SocketFirstKept ==
    ASSUME LifeInv, LifeNext
    PROVE  NothingBeforeTheSocket'
<1> USE DEF LifeInv, ShutdownOrder, NothingBeforeTheSocket
<1>1. CASE Signal \/ RunStep \/ Terminate \/ ReadClosed
  BY <1>1 DEF Signal, RunStep, ListenUDP, Publish, StartLoop, Close, Join, Terminate, ReadClosed,
              loopVars, vars
<1>2. CASE ListenAndServeFails
  BY <1>2 DEF ListenAndServeFails, EmptyMap
<1>3. CASE Read
  BY <1>3 DEF Read, ReadFromUDP, procVars, vars
<1>4. CASE LoopStep
  <2>1. DOMAIN txs' = DOMAIN txs
    BY <1>4 DEF LoopStep, ReaderStep, ConsumerExists, LoadConsumer, SequenceExists, LoadTransaction,
                Post, PostEvent, Posted, PostNothing, Dispatch, vars
  <2>2. QED
    BY <1>4, <2>1 DEF LoopStep, procVars
<1>5. CASE Register
  BY <1>5 DEF Register, procVars
<1>6. CASE Release
  BY <1>6 DEF Release, DeleteByHost, procVars
<1>7. ASSUME NEW id \in TxIds, TxStep(id) PROVE NothingBeforeTheSocket'
  <2>1. id \in DOMAIN txs
    BY <1>7 DEF TxStep, Write, WriteFails, TakeResponse, TakeResend, RequestTimeout,
                ResponseTimeout, removeTransaction, ErrHandler
  <2>2. QED
    BY <1>7, <2>1 DEF TxStep, procVars
<1>8. QED
  BY <1>1, <1>2, <1>3, <1>4, <1>5, <1>6, <1>7 DEF LifeNext

\* Every step keeps the invariant.
LEMMA LifeNextKeepsInv == LifeInv /\ [LifeNext]_lifeVars => LifeInv'
<1> SUFFICES ASSUME LifeInv, [LifeNext]_lifeVars PROVE LifeInv'
  OBVIOUS
<1>1. TxInv'
  BY TablesKeepInv DEF LifeInv
<1>2. CASE LifeNext
  <2>1. LifeTypeOK'
    BY <1>1, <1>2, LookupKept, OrderKept DEF TxInv, LifeTypeOK
  <2>2. QED
    BY <1>1, <1>2, <2>1, LookupKept, OrderKept, SocketFirstKept DEF LifeInv
<1>3. CASE UNCHANGED lifeVars
  <2>1. UNCHANGED <<reader, txs, consumerTable, signalled, run, socket, published, loop, main>>
    BY <1>3 DEF lifeVars, loopVars, vars, procVars
  <2>2. LookupSound'
    BY <2>1, HeldInTable, LookupInTableNext DEF LifeInv, LookupSound, Found
  <2>3. LifeTypeOK' /\ ShutdownOrder' /\ NothingBeforeTheSocket'
    BY <1>1, <2>1 DEF LifeInv, LifeTypeOK, ShutdownOrder, NothingBeforeTheSocket, TxInv
  <2>4. QED
    BY <1>1, <2>2, <2>3 DEF LifeInv
<1>4. QED
  BY <1>2, <1>3

-----------------------------------------------------------------------------
(* Theorems.                                                               *)

\* The inductive invariant holds in every state of the process.
THEOREM LifeInvariance == LifeSpec => []LifeInv
BY LifeInitEstablishesInv, LifeNextKeepsInv, PTL DEF LifeSpec

\* The process, the read loop and the tables hold what the code declares; no
\* transaction is written more than NumOfResend times, on a closed socket either.
THEOREM LifeTypeCorrect == LifeSpec => []LifeTypeOK
<1>1. LifeInv => LifeTypeOK
  BY DEF LifeInv
<1>2. QED
  BY <1>1, LifeInvariance, PTL

\* In the running adapter too every number in the table belongs to a transaction
\* whose goroutine will clear it, and a running transaction is found under its number
\* until its peer is released.
THEOREM TablesStaySound == LifeSpec => [](HeldNumbersAreRunning /\ RunningIsFindable)
<1>1. LifeInv => HeldNumbersAreRunning /\ RunningIsFindable
  BY DEF LifeInv, TxInv
<1>2. QED
  BY <1>1, LifeInvariance, PTL

\* findTransaction, its four loads interleaved with everything else: a copy of a
\* request whose answer was held all the while is never dispatched as a new one.
THEOREM NoHeldCopyIsDispatched == LifeSpec => []CopiesAreAbsorbed
<1>1. LifeInv => CopiesAreAbsorbed
  BY DEF LifeInv, LookupSound, CopiesAreAbsorbed
<1>2. QED
  BY <1>1, LifeInvariance, PTL

\* The same for whatever is looked up: a message whose transaction was there all the
\* while reaches that transaction, before the reader comes back to reading.
THEOREM HeldMessagesReachTheirHolder == LifeSpec => HeldMessagesArePosted
<1>1. LifeInv /\ [LifeNext]_lifeVars =>
        [/\ reader.heldSince
         /\ reader.pc # reader'.pc
         /\ reader'.pc \in {"read", "dispatch", "crashed"}
         /\ ~(main' = "failed")
         => \E id \in Found(reader.consumer, reader.seq) : PostEvent(id, Event)]_lifeVars
  <2> SUFFICES ASSUME LifeInv, LifeNext, reader.heldSince, reader.pc # reader'.pc,
                      reader'.pc \in {"read", "dispatch", "crashed"}, main' # "failed"
               PROVE  \E id \in Found(reader.consumer, reader.seq) : PostEvent(id, Event)
    OBVIOUS
  <2>1. reader \in Reader /\ TypeOK /\ LookupSound
    BY DEF LifeInv, LifeTypeOK
  <2>2. /\ reader.consumer \in DOMAIN consumerTable
        /\ Found(reader.consumer, reader.seq) # {}
    BY <2>1, HeldInTable, FoundType DEF LookupSound
  <2>3. CASE LoopStep
    <3>1. CASE ConsumerExists \/ LoadConsumer \/ SequenceExists \/ LoadTransaction
      <4>1. reader.table = "live" => Load # {}
        BY <2>2 DEF Load
      <4>2. reader'.pc \in {"table", "sequence", "transaction", "post"}
        BY <2>1, <2>2, <3>1, <4>1
           DEF ConsumerExists, LoadConsumer, SequenceExists, LoadTransaction, LookupSound, Reader
      <4>3. QED
        BY <4>2
    <3>2. CASE Post
      BY <2>1, <3>2 DEF Post, LookupSound
    <3>3. CASE PostNothing \/ Dispatch
      BY <2>1, <2>2, <3>3 DEF PostNothing, Dispatch, LookupSound
    <3>4. QED
      BY <2>3, <3>1, <3>2, <3>3 DEF LoopStep, ReaderStep
  <2>4. CASE Read
    BY <2>1, <2>4 DEF Read, ReadFromUDP, Reader
  <2>5. CASE Register \/ Release \/ \E id \in TxIds : TxStep(id)
    BY <2>1, <2>5, OthersStepTables, WatchIsSound DEF Register, Release, TxStep
  <2>6. QED
    BY <2>3, <2>4, <2>5 DEF LifeNext, Signal, RunStep, ListenUDP, Publish, StartLoop, Close, Join,
       Terminate, ReadClosed, ListenAndServeFails, loopVars
<1>2. QED
  BY <1>1, LifeInvariance, PTL DEF LifeSpec, HeldMessagesArePosted

\* No transaction is registered, and the read loop is not started, before there is a
\* socket and the server that holds it is published.
THEOREM SocketComesFirst == LifeSpec => []NothingBeforeTheSocket
<1>1. LifeInv => NothingBeforeTheSocket
  BY DEF LifeInv
<1>2. QED
  BY <1>1, LifeInvariance, PTL

\* main returns after a signal only with the socket closed and the read loop at rest.
THEOREM ExitIsOrderly == LifeSpec => []ExitLeavesNothingOpen
<1>1. LifeInv => ExitLeavesNothingOpen
  BY DEF LifeInv, ShutdownOrder, ExitLeavesNothingOpen
<1>2. QED
  BY <1>1, LifeInvariance, PTL

=============================================================================
