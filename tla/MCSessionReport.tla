-------------------------- MODULE MCSessionReport --------------------------
(***************************************************************************)
(* One report from one user plane, with everything that can meet it.       *)
(***************************************************************************)
EXTENDS SessionReport, TLC

\* Goroutines and transactions are only ever compared.
GoroutineSymmetry == Permutations(Handlers) \cup Permutations(TxIds)

\* A goroutine without the release count it has compared, and without the occupancy of a
\* report it holds no claim for.
LiveHandler(handler) ==
    [handler EXCEPT
       !.authorisedUnder = IF handler.pc \in {"gate", "smf", "claim"} THEN @ ELSE 0,
       !.forgot = IF handler.pc \in {"gate", "smf", "claim"} THEN @ ELSE 0,
       !.epoch = IF handler.pc = "answer" /\ handler.relaySeq = NoSeq THEN 0 ELSE @]

\* A transaction without what was posted to it, or counted, after its last round.  What
\* was posted to a relay decides whether a late response cuts it short.
LiveTx(id) ==
    IF txs[id].phase \in {"remove", "failed"} /\ (id \in forwards \/ ~Txs!IsRequest(id))
    THEN [txs[id] EXCEPT !.event = Txs!NoEvent, !.iter = 0]
    ELSE txs[id]

\* The tables that hold something: an empty one is as good as none.
LiveTables == [c \in {d \in DOMAIN consumerTable : DOMAIN consumerTable[d] # {}} |-> consumerTable[c]]

\* A state without what no step and no property reads again, and without the history of
\* numbers that are not claimed, which a claim overwrites.
LiveState ==
    LET claimed == DOMAIN reportRelays
    IN  <<relayVars, now, LiveTables, gateVars, forwards, forwarded,
          [id \in DOMAIN txs |-> LiveTx(id)], [h \in Handlers |-> LiveHandler(handlers[h])],
          [s \in claimed |-> claimEpoch[s]], cutShort \cap claimed, recounted \cap claimed>>

=============================================================================
