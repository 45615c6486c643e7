---------------------------- MODULE Associations ----------------------------
(***************************************************************************)
(* The user planes the SMF has set up an association with (UpfCfg in       *)
(* config.go), the HTTP handlers of its set-up requests and the goroutines *)
(* of the responses that accept one, run against the name cache.           *)
(*                                                                         *)
(* A user plane is entered under the identity the SMF names it by and      *)
(* found again by the identity it gives itself.  Entries are never         *)
(* removed, so a look-up and the assignment after it are one step.  The    *)
(* table's lock is held while a new entry's address is looked up; an       *)
(* entry's own lock guards its stored response.                            *)
(*                                                                         *)
(* How a request is sent and its response is matched is Forwarding's.      *)
(***************************************************************************)
EXTENDS NameCache

CONSTANTS
    Goroutines,     \* goroutines that handle an acceptance, at once
    SmfNodeIds,     \* the identities the SMF names user planes by
    UpfNames,       \* the names user planes give themselves, if not their address
    Seqs,           \* PFCP sequence numbers
    Retaining       \* those of requests that ask for sessions to be retained

ASSUME IdentityAssumption ==
    /\ Names \cap Addrs = {}
    /\ NoAddr \notin NodeIds
    /\ SmfNodeIds \subseteq NodeIds
    /\ UpfNames \subseteq Names
    /\ Seqs # {}
    /\ Retaining \subseteq Seqs

VARIABLES
    upfs,           \* UPFs: identity -> UPNode
    upfListLock,    \* the handler that holds UpfListLock, if any
    abandoned,      \* entries whose UpfLock a panic has left held for reading
    setups,         \* the HTTP handlers
    goroutines,
    crashed         \* a panic outside the HTTP handlers has ended the process

tableVars == <<upfs, upfListLock, abandoned>>
assocVars == <<vars, tableVars, setups, goroutines, crashed>>

\* PSREI says that sessions were retained; what else a response says is passed on as
\* it is.
PSREI == "psrei"

Response == [seq: Seqs, flags: SUBSET {PSREI}]

\* The zero LastAssoRsp, which has no header.
NoResponse == [header |-> "nil"]

UPNode == [associated: BOOLEAN, ANIP: Addrs \cup {NoAddr}, LastAssoRsp: Response \cup {NoResponse}]

\* copy is the stored response a handler answers with.
Setup ==
    [pc: {"idle", "associated", "build", "lock", "insert", "send", "wait", "copied"},
     node: NodeIds, seq: Seqs, copy: Response \cup {NoResponse}]

\* node is the identity the accepting user plane gives, then the entry it activated.
Goroutine ==
    [pc: {"idle", "activate", "preserve", "blocked"}, node: NodeIds, rsp: Response]

IdleSetup ==
    [pc |-> "idle", node |-> CHOOSE n \in NodeIds : TRUE, seq |-> CHOOSE s \in Seqs : TRUE,
     copy |-> NoResponse]

IdleGoroutine ==
    [pc |-> "idle", node |-> CHOOSE n \in NodeIds : TRUE,
     rsp |-> [seq |-> CHOOSE s \in Seqs : TRUE, flags |-> {}]]

AssocInit ==
    /\ Init
    /\ upfs = EmptyMap
    /\ upfListLock = {}
    /\ abandoned = {}
    /\ setups = [h \in Handlers |-> IdleSetup]
    /\ goroutines = [g \in Goroutines |-> IdleGoroutine]
    /\ crashed = FALSE

Associated(node) == node \in DOMAIN upfs /\ upfs[node].associated

HasResponse(node) == node \in DOMAIN upfs /\ upfs[node].LastAssoRsp # NoResponse

\* An address finds any entry that was at it when it was entered, a name only its
\* own entry; with several the order of a map range decides.
GetUpfFromNodeId(node) ==
    IF node \in Addrs
    THEN {n \in DOMAIN upfs : upfs[n].ANIP = node}
    ELSE {node} \cap DOMAIN upfs

-----------------------------------------------------------------------------
(* ForwardPfcpMsgToUpf for a set-up request, in the goroutine of the HTTP  *)
(* request.  A handler goes on when its call of ResolveNodeIdToIp is done. *)
(* Handlers and goroutines are interchangeable, so a new one is any.       *)

Ready(h, pc) == setups[h].pc = pc /\ resolvers[h].pc = "done"

Goto(h, pc) == setups' = [setups EXCEPT ![h].pc = pc]

Arrive(node, seq) ==
    LET h == CHOOSE i \in Handlers : setups[i].pc = "idle"
    IN  /\ \E i \in Handlers : setups[i].pc = "idle"
        /\ setups' = [setups EXCEPT ![h] =
             [IdleSetup EXCEPT !.pc = "associated", !.node = node, !.seq = seq]]
        /\ UNCHANGED <<vars, tableVars, goroutines, crashed>>

IsUpfAssociated(h) ==
    /\ Ready(h, "associated")
    /\ upfListLock = {}
    /\ Goto(h, IF Associated(setups[h].node) THEN "build" ELSE "lock")
    /\ UNCHANGED <<vars, tableVars, goroutines, crashed>>

\* Mutant: the flag the stored response has for an earlier request is passed on.
RetentionPassedOn(rsp, asked) ==
    [rsp EXCEPT !.flags = IF asked THEN @ \cup {PSREI} ELSE @]

\* PSREI answers the request at hand, not the one the stored response was for.
answerRetention(rsp, asked) ==
    [rsp EXCEPT !.flags = (@ \ {PSREI}) \cup (IF asked THEN {PSREI} ELSE {})]

\* The stored response under this request's number, and with the answer to what it
\* asked.  An associated user plane is found, if not always under the identity it was
\* asked by.  The entry found may have no response: its header is then nil and the
\* handler panics, which net/http recovers, with the entry's lock held.
BuildPfcpAssociationResponse(h) ==
    /\ Ready(h, "build")
    /\ upfListLock = {}
    /\ \E upf \in GetUpfFromNodeId(setups[h].node) :
         LET rsp == upfs[upf].LastAssoRsp
         IN  /\ \A g \in Goroutines : goroutines[g].pc = "blocked" => goroutines[g].node # upf
             /\ IF rsp = NoResponse
                THEN /\ setups' = [setups EXCEPT ![h] = IdleSetup]
                     /\ abandoned' = abandoned \cup {upf}
                ELSE /\ setups' = [setups EXCEPT ![h].pc = "copied",
                          ![h].copy = answerRetention([rsp EXCEPT !.seq = setups[h].seq],
                                                      setups[h].seq \in Retaining)]
                     /\ UNCHANGED abandoned
    /\ UNCHANGED <<vars, upfs, upfListLock, goroutines, crashed>>

\* Mutant: the lock is given up while the name is looked up.
LookUpUnlocked(h) ==
    /\ Ready(h, "lock")
    /\ upfListLock = {}
    /\ ResolveNodeIdToIp(h, setups[h].node)
    /\ Goto(h, IF setups[h].node \in DOMAIN upfs THEN "send" ELSE "insert")
    /\ UNCHANGED <<cache, refresher, dns, moves, tableVars, goroutines, crashed>>

\* A new entry's address is looked up with the lock held.  Either way the address is
\* resolved again to send to it.
LockUpfList(h) ==
    /\ Ready(h, "lock")
    /\ upfListLock = {}
    /\ ResolveNodeIdToIp(h, setups[h].node)
    /\ IF setups[h].node \in DOMAIN upfs
       THEN Goto(h, "send") /\ UNCHANGED upfListLock
       ELSE Goto(h, "insert") /\ upfListLock' = {h}
    /\ UNCHANGED <<cache, refresher, dns, moves, upfs, abandoned, goroutines, crashed>>

\* Mutant: the lock is not released when the name did not resolve.
InsertResolved(h) ==
    /\ Ready(h, "insert")
    /\ upfs' = Store(upfs, setups[h].node,
         [associated |-> FALSE, ANIP |-> resolvers[h].ip, LastAssoRsp |-> NoResponse])
    /\ upfListLock' = IF resolvers[h].ip = NoAddr THEN upfListLock ELSE {}
    /\ Goto(h, "send")
    /\ ResolveNodeIdToIp(h, setups[h].node)
    /\ UNCHANGED <<cache, refresher, dns, moves, abandoned, goroutines, crashed>>

InsertUpfNode(h) ==
    /\ Ready(h, "insert")
    /\ upfs' = Store(upfs, setups[h].node,
         [associated |-> FALSE, ANIP |-> resolvers[h].ip, LastAssoRsp |-> NoResponse])
    /\ upfListLock' = {}
    /\ Goto(h, "send")
    /\ ResolveNodeIdToIp(h, setups[h].node)
    /\ UNCHANGED <<cache, refresher, dns, moves, abandoned, goroutines, crashed>>

Send(h) ==
    /\ Ready(h, "send")
    /\ setups' = [setups EXCEPT ![h].pc = "wait", ![h].node = IdleSetup.node]
    /\ UNCHANGED <<vars, tableVars, goroutines, crashed>>

\* The handler returns: with the copy, with the answer or the failure of its request.
Return(h) ==
    /\ setups[h].pc \in {"wait", "copied"}
    /\ setups' = [setups EXCEPT ![h] = IdleSetup]
    /\ resolvers' = [resolvers EXCEPT ![h] = Resolved(NoAddr)]
    /\ UNCHANGED <<cache, refresher, dns, moves, tableVars, goroutines, crashed>>

SetupStep(h) ==
    \/ IsUpfAssociated(h)
    \/ BuildPfcpAssociationResponse(h)
    \/ LockUpfList(h)
    \/ InsertUpfNode(h)
    \/ Send(h)

-----------------------------------------------------------------------------
(* HandlePfcpAssociationSetupResponse, for a response that accepts.        *)

\* The user plane at the address a request went to accepts it, perhaps twice, and
\* gives its address or a name for its identity.  It may have retained the sessions
\* if it was asked to.
Accept(h, node, flags) ==
    LET g == CHOOSE i \in Goroutines : goroutines[i].pc = "idle"
    IN  /\ \E i \in Goroutines : goroutines[i].pc = "idle"
        /\ setups[h].pc = "wait"
        /\ resolvers[h].ip # NoAddr
        /\ node \in {resolvers[h].ip} \cup UpfNames
        /\ flags # {} => setups[h].seq \in Retaining
        /\ goroutines' = [goroutines EXCEPT ![g] =
             [pc |-> "activate", node |-> node, rsp |-> [seq |-> setups[h].seq, flags |-> flags]]]
        /\ UNCHANGED <<vars, tableVars, setups, crashed>>

\* A user plane whose identity matches no entry yields a nil entry, whose lock the
\* handler then takes: nothing recovers that panic.
ActivateUpfNode(g) ==
    LET found == GetUpfFromNodeId(goroutines[g].node)
    IN  /\ goroutines[g].pc = "activate"
        /\ upfListLock = {}
        /\ IF found = {}
           THEN crashed' = TRUE /\ UNCHANGED <<goroutines, upfs>>
           ELSE \E upf \in found :
                  /\ upfs' = [upfs EXCEPT ![upf].associated = TRUE]
                  /\ goroutines' = [goroutines EXCEPT ![g].pc = "preserve", ![g].node = upf]
                  /\ UNCHANGED crashed
        /\ UNCHANGED <<vars, upfListLock, abandoned, setups>>

\* Mutant: the response is not kept.
PreserveNothing(g) ==
    /\ goroutines[g].pc = "preserve"
    /\ goroutines' = [goroutines EXCEPT ![g] = IdleGoroutine]
    /\ UNCHANGED <<vars, tableVars, setups, crashed>>

\* Whoever waits for the entry's lock keeps out those who would read after it.
PreservePfcpAssociationRsp(g) ==
    LET upf == goroutines[g].node
    IN  /\ goroutines[g].pc = "preserve"
        /\ IF upf \in abandoned
           THEN goroutines' = [goroutines EXCEPT ![g].pc = "blocked"] /\ UNCHANGED upfs
           ELSE /\ upfs' = [upfs EXCEPT ![upf].LastAssoRsp = goroutines[g].rsp]
                /\ goroutines' = [goroutines EXCEPT ![g] = IdleGoroutine]
        /\ UNCHANGED <<vars, upfListLock, abandoned, setups, crashed>>

GoroutineStep(g) == ActivateUpfNode(g) \/ PreservePfcpAssociationRsp(g)

-----------------------------------------------------------------------------

\* The runtime notices the race on the cache and ends the process.
CacheRace ==
    /\ Racing
    /\ crashed' = TRUE
    /\ UNCHANGED <<vars, tableVars, setups, goroutines>>

CacheStep(A) == A /\ UNCHANGED <<tableVars, setups, goroutines, crashed>>

AssocNext ==
    /\ ~crashed
    /\ \/ \E node \in SmfNodeIds, seq \in Seqs : Arrive(node, seq)
       \/ \E h \in Handlers : SetupStep(h) \/ Return(h) \/ CacheStep(ResolverStep(h))
       \/ \E h \in Handlers, node \in NodeIds, flags \in SUBSET {PSREI} : Accept(h, node, flags)
       \/ \E g \in Goroutines : GoroutineStep(g)
       \/ CacheStep(RefresherStep)
       \/ \E name \in Names, ip \in Addrs \cup {NoAddr} : CacheStep(Move(name, ip))
       \/ CacheRace

\* Every goroutine is scheduled, a look-up returns, and the ticker ticks.  Nothing is
\* assumed of user planes, of DNS or of the SMF.
AssocFairness ==
    /\ \A h \in Handlers : WF_assocVars(~crashed /\ (SetupStep(h) \/ CacheStep(ResolverStep(h))))
    /\ \A g \in Goroutines : WF_assocVars(~crashed /\ GoroutineStep(g))
    /\ WF_assocVars(~crashed /\ CacheStep(RefresherStep))

AssocSpec == AssocInit /\ [][AssocNext]_assocVars /\ AssocFairness

-----------------------------------------------------------------------------
(* Properties.                                                             *)

\* Types of the table, the handlers and the cache.
AssocTypeOK ==
    /\ TypeOK
    /\ DOMAIN upfs \subseteq NodeIds
    /\ \A node \in DOMAIN upfs : upfs[node] \in UPNode
    /\ upfListLock \subseteq Handlers
    /\ abandoned \subseteq DOMAIN upfs
    /\ setups \in [Handlers -> Setup]
    /\ goroutines \in [Goroutines -> Goroutine]
    /\ crashed \in BOOLEAN

\* An answer given from the stored response is one to the request at hand: it has
\* its number, and says that sessions were retained exactly if it asked, whatever
\* the stored response says (BuildPfcpAssociationResponse, answerRetention).
CopyAnswersThisRequest ==
    \A h \in Handlers :
        setups[h].pc = "copied" =>
          /\ setups[h].copy.seq = setups[h].seq
          /\ PSREI \in setups[h].copy.flags <=> setups[h].seq \in Retaining

\* A goroutine that has activated the entry is about to store the response in it.
Accepted(node, rsp) ==
    \E g \in Goroutines :
        goroutines[g].pc = "preserve" /\ goroutines[g].node = node /\ goroutines[g].rsp = rsp

\* What a step leaves of an entry: where it is, that it is associated, that it has a
\* response, and which, unless a user plane has accepted again.
EntryKept ==
    \A node \in DOMAIN upfs :
        /\ node \in DOMAIN upfs'
        /\ upfs'[node].ANIP = upfs[node].ANIP
        /\ upfs[node].associated => upfs'[node].associated
        /\ HasResponse(node) => HasResponse(node)'
        /\ \/ upfs'[node].LastAssoRsp = upfs[node].LastAssoRsp
           \/ Accepted(node, upfs'[node].LastAssoRsp)

\* No entry is ever replaced: of two handlers that both find a user plane missing, the
\* second does not put a fresh entry over one that has been associated and answered
\* meanwhile, though its name is looked up in between (InsertUpfNode: "if UPF is
\* already not added").  And what an entry has stored is only ever what a user plane
\* sent: an answer made from it is made of a copy (BuildPfcpAssociationResponse).
EntriesStay == [][EntryKept]_assocVars

\* Once DNS is quiet the cache agrees with it for good, though names are cached and
\* refreshed from look-ups made before it changed (RefreshDnsHostIpCache).
CacheConverges == <>[](crashed \/ Fresh)

\* No handler waits for the table for ever: the lock that is held while a name is
\* looked up is released whatever becomes of the look-up.  Only the panic of
\* BuildPfcpAssociationResponse leaves a lock that a later handler waits for.
SetupsGoOn ==
    \A h \in Handlers :
        setups[h].pc # "idle" ~> \/ setups[h].pc \in {"idle", "wait", "copied"}
                                 \/ crashed
                                 \/ abandoned # {}

\* A user plane that is associated has the response it is answered with, or is about
\* to, unless a handler came in between and panicked with the lock held.
AssociatedGetsResponse ==
    \A node \in SmfNodeIds :
        Associated(node) ~> crashed \/ node \in abandoned \/ HasResponse(node)

\* What ForwardPfcpMsgToUpf says of a set-up: "if UPF is already associated then send
\* Asso rsp".  So a set-up for an associated user plane is answered with its response
\* sooner or later, or the response it has to be answered with is still to come.
AssociatedIsAnswerable ==
    \A node \in SmfNodeIds :
        Associated(node) ~> crashed \/ HasResponse(node)

=============================================================================
