----------------------------- MODULE Lifecycle ------------------------------
(***************************************************************************)
(* The process from start to exit: main and serve in upfadapter.go, Run    *)
(* and serve in udp.go, around the read loop and the transactions.         *)
(*                                                                         *)
(* The PFCP socket is opened by one goroutine while another already        *)
(* accepts HTTP requests; a signal makes the one close the socket and the  *)
(* other stop accepting; main returns when both have ended.                *)
(***************************************************************************)
EXTENDS ReadLoop

VARIABLES
    signalled,  \* ctx is cancelled
    run,        \* the goroutine of udp.Run
    socket,     \* the PFCP socket
    published,  \* Server is set
    loop,       \* the goroutine of readLoop
    main        \* main, in serve and after it

procVars == <<signalled, run, socket, published, loop, main>>
lifeVars == <<loopVars, procVars>>

LifeInit ==
    /\ LoopInit
    /\ signalled = FALSE
    /\ run = "listen"
    /\ socket = "none"
    /\ published = FALSE
    /\ loop = "none"
    /\ main = "serving"

\* os.Interrupt or SIGTERM.
Signal ==
    /\ ~signalled
    /\ signalled' = TRUE
    /\ UNCHANGED <<loopVars, run, socket, published, loop, main>>

-----------------------------------------------------------------------------
(* udp.Run.                                                                *)

\* Mutant: the server is published before its socket is known to be open.
ListenUDPPublished ==
    /\ run = "listen"
    /\ \/ run' = "publish" /\ socket' = "open"
       \/ run' = "done" /\ UNCHANGED socket
    /\ published' = TRUE
    /\ UNCHANGED <<loopVars, signalled, loop, main>>

ListenUDP ==
    /\ run = "listen"
    /\ \/ run' = "publish" /\ socket' = "open"
       \/ run' = "done" /\ UNCHANGED socket
    /\ UNCHANGED <<loopVars, signalled, published, loop, main>>

\* Until now whatever is to be sent is refused.
Publish ==
    /\ run = "publish"
    /\ run' = "start"
    /\ published' = TRUE
    /\ UNCHANGED <<loopVars, signalled, socket, loop, main>>

\* Requests may have been sent already: what answers them waits in the socket.
StartLoop ==
    /\ run = "start"
    /\ run' = "serve"
    /\ loop' = "running"
    /\ UNCHANGED <<loopVars, signalled, socket, published, main>>

Close ==
    /\ run = "serve"
    /\ signalled
    /\ socket' = "closed"
    /\ run' = "join"
    /\ UNCHANGED <<loopVars, signalled, published, loop, main>>

\* Mutant: Run returns without waiting for the read loop.
JoinAtOnce ==
    /\ run = "join"
    /\ run' = "done"
    /\ UNCHANGED <<loopVars, signalled, socket, published, loop, main>>

Join ==
    /\ run = "join"
    /\ loop = "stopped"
    /\ run' = "done"
    /\ UNCHANGED <<loopVars, signalled, socket, published, loop, main>>

RunStep == ListenUDP \/ Publish \/ StartLoop \/ Close \/ Join

-----------------------------------------------------------------------------
(* main, and the HTTP server.                                              *)

\* ListenAndServe fails, and main returns without waiting for Run.  Nothing is left.
\* A signal may have come too: select takes either.
ListenAndServeFails ==
    /\ main = "serving"
    /\ main' = "failed"
    /\ consumerTable' = EmptyMap
    /\ txs' = EmptyMap
    /\ detached' = {}
    /\ reader' = Reading
    /\ run' = "done"
    /\ socket' = "none"
    /\ published' = FALSE
    /\ loop' = "none"
    /\ UNCHANGED signalled

\* ctx.Done is taken: the select may come to it as late as this, and nothing but a
\* failure of ListenAndServe can tell when.  Shutdown returns when no HTTP request is
\* in flight or its timeout has passed, so that main waits for nothing but Run.
Terminate ==
    /\ main = "serving"
    /\ signalled
    /\ run = "done"
    /\ main' = "exited"
    /\ UNCHANGED <<loopVars, signalled, run, socket, published, loop>>

-----------------------------------------------------------------------------
(* The read loop and the transactions, on the socket.                      *)

\* The loop reads what arrives while the socket is open.
Read ==
    /\ loop = "running"
    /\ socket = "open"
    /\ \/ \E peer \in Peer, seq \in Seqs : ReadFromUDP("request", peer, seq)
       \/ \E seq \in Seqs : ReadFromUDP("response", Self, seq)
    /\ UNCHANGED procVars

\* Mutant: a read error of any kind is survived.
ReadOn ==
    /\ loop = "running"
    /\ socket = "closed"
    /\ reader.pc = "read"
    /\ UNCHANGED lifeVars

\* Every read fails from now on, and the loop ends.
ReadClosed ==
    /\ loop = "running"
    /\ socket = "closed"
    /\ reader.pc = "read"
    /\ loop' = "stopped"
    /\ UNCHANGED <<loopVars, signalled, run, socket, published, main>>

LoopStep == ReaderStep /\ UNCHANGED procVars

\* SendPfcp, by a handler of either kind.
Register ==
    /\ published
    /\ \E consumer \in Consumers, seq \in Seqs : Put(consumer, seq)
    /\ Watch
    /\ UNCHANGED procVars

Release ==
    /\ published
    /\ \E host \in Hosts : DeleteByHost(host)
    /\ Watch
    /\ UNCHANGED procVars

\* A closed socket fails every write.
TxStep(id) ==
    /\ \/ Write(id) /\ socket = "open"
       \/ WriteFails(id)
       \/ TakeResponse(id)
       \/ TakeResend(id)
       \/ RequestTimeout(id)
       \/ ResponseTimeout(id)
       \/ removeTransaction(id)
       \/ ErrHandler(id)
    /\ Watch
    /\ UNCHANGED procVars

\* The process has ended, by returning from main or by the panic of the read loop.
Ended == main \in {"exited", "failed"} \/ reader.pc = "crashed"

LifeNext ==
    /\ ~Ended
    /\ \/ Signal
       \/ RunStep
       \/ ListenAndServeFails
       \/ Terminate
       \/ Read
       \/ ReadClosed
       \/ LoopStep
       \/ Register
       \/ Release
       \/ \E id \in TxIds : TxStep(id)

\* Every goroutine is scheduled and timers fire: the one of Shutdown too.
LifeFairness ==
    /\ WF_lifeVars(~Ended /\ RunStep)
    /\ WF_lifeVars(~Ended /\ Terminate)
    /\ WF_lifeVars(~Ended /\ (LoopStep \/ ReadClosed))
    /\ \A id \in TxIds : WF_lifeVars(~Ended /\ TxStep(id))

LifeSpec == LifeInit /\ [][LifeNext]_lifeVars /\ LifeFairness

-----------------------------------------------------------------------------
(* Properties.                                                             *)

\* Types of the process, of the read loop and of the transactions.
LifeTypeOK ==
    /\ TypeOK
    /\ reader \in Reader
    /\ signalled \in BOOLEAN
    /\ run \in {"listen", "publish", "start", "serve", "join", "done"}
    /\ socket \in {"none", "open", "closed"}
    /\ published \in BOOLEAN
    /\ loop \in {"none", "running", "stopped"}
    /\ main \in {"serving", "exited", "failed"}

\* Nothing is registered before there is a socket to write it to: SendPfcp reads the
\* plain global Server while Run may still be opening the socket, or has failed to,
\* and what it lets through would be written to no socket.  Nor does the read loop
\* start before the server it reads from is published.
NothingBeforeTheSocket ==
    /\ DOMAIN txs # {} => published /\ socket # "none"
    /\ loop # "none" => published /\ socket # "none"

\* A message whose transaction was there from the moment it was read is posted to
\* that transaction and to no other, and neither dropped nor passed on as new: while
\* it was looked up, the transaction may have timed out and be writing again, and
\* others have come and gone.  The end of the process is the one exception.
HeldMessagesArePosted ==
    [][/\ reader.heldSince
       /\ reader.pc # reader'.pc
       /\ reader'.pc \in {"read", "dispatch", "crashed"}
       /\ ~(main' = "failed")
       => \E id \in Found(reader.consumer, reader.seq) : PostEvent(id, Event)]_lifeVars

\* main says "Return only once the PFCP socket is closed", and Run that it "returns
\* once the socket is closed and the read loop has stopped": a terminated process
\* leaves nobody in the middle of a datagram.
ExitLeavesNothingOpen ==
    main = "exited" => socket # "open" /\ loop # "running" /\ reader.pc = "read"

\* A signal ends the process, though requests are in flight, peers go on sending and
\* the read loop may be anywhere.
ShutdownCompletes == signalled ~> Ended

\* The loop every session depends on always comes back to reading: no pending event
\* and no transaction that has ended can hold it at the event channel.
ReadLoopGoesOn == reader.pc # "read" ~> reader.pc = "read" \/ Ended

\* Every transaction ends: a request is answered or given up, and the answer to a
\* peer is held only so long, however often the peer asks again, and on a closed
\* socket too.
EveryTransactionEnds ==
    \A id \in TxIds : id \in DOMAIN txs ~> id \notin DOMAIN txs \/ Ended

=============================================================================
