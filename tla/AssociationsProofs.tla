------------------------- MODULE AssociationsProofs -------------------------
(***************************************************************************)
(* What holds of the association table and of the name cache for every     *)
(* number of handlers, goroutines, identities and addresses, whatever DNS  *)
(* and the user planes do.                                                 *)
(***************************************************************************)
EXTENDS Associations, TLAPS

\* A resolution under way is of a name, and what it is about to cache is an address.
Resolving(resolver) ==
    /\ resolver.pc # "done" => resolver.node \in Names
    /\ resolver.pc = "insert" => resolver.ip \in Addrs

\* The same of the refresh, which may also find that its name is gone.
Refreshing(r) ==
    /\ r.pc \notin {"idle", "range"} => r.name \in Names
    /\ r.pc \in {"compare", "store"} => r.ip \in Addrs

\* The cache and whoever is at it.
CacheInv ==
    /\ TypeOK
    /\ \A h \in Handlers : Resolving(resolvers[h])
    /\ Refreshing(refresher)

\* The table's lock is held exactly by the handler that has found its user plane
\* missing and looks its name up; there is one at most, and the user plane is missing
\* still.
InsertsAlone ==
    /\ upfListLock = {h \in Handlers : setups[h].pc = "insert"}
    /\ \A h, i \in upfListLock : h = i
    /\ \A h \in upfListLock : setups[h].node \notin DOMAIN upfs

\* An entry whose lock a panic left held has no response: what it panicked on.
AbandonedHasNoResponse == \A node \in abandoned : ~HasResponse(node)

\* The entry an acceptance has activated is in the table when its response is stored.
ActivatedIsEntered ==
    \A g \in Goroutines :
        goroutines[g].pc \in {"preserve", "blocked"} => goroutines[g].node \in DOMAIN upfs

\* The types of what the association table itself keeps.
TableTyped ==
    /\ DOMAIN upfs \subseteq NodeIds
    /\ \A node \in DOMAIN upfs : upfs[node] \in UPNode
    /\ upfListLock \subseteq Handlers
    /\ abandoned \subseteq DOMAIN upfs
    /\ setups \in [Handlers -> Setup]
    /\ goroutines \in [Goroutines -> Goroutine]
    /\ crashed \in BOOLEAN

\* The inductive invariant.  That no entry is replaced needs the lock: what a handler
\* found under it must still hold when the look-up it waits for is done.
AssocInv ==
    /\ CacheInv
    /\ TableTyped
    /\ CopyAnswersThisRequest
    /\ InsertsAlone
    /\ AbandonedHasNoResponse
    /\ ActivatedIsEntered

-----------------------------------------------------------------------------
(* Lemmas.                                                                 *)

\* The records of handlers, goroutines and resolutions at rest.
LEMMA RestTypes ==
    /\ IdleSetup \in Setup /\ IdleSetup.pc = "idle"
    /\ IdleGoroutine \in Goroutine /\ IdleGoroutine.pc = "idle"
    /\ Idle \in Refresher /\ Idle.pc = "idle"
    /\ \A ip \in Addrs \cup {NoAddr} :
         Resolved(ip) \in Resolver /\ Resolved(ip).pc = "done" /\ Resolved(ip).ip = ip
    /\ NoResponse \notin Response
<1>1. (CHOOSE n \in NodeIds : TRUE) \in NodeIds /\ (CHOOSE s \in Seqs : TRUE) \in Seqs
  BY AddrAssumption, IdentityAssumption DEF NodeIds
<1>2. IdleSetup \in Setup /\ IdleSetup.pc = "idle"
  BY <1>1 DEF IdleSetup, Setup
<1>3. IdleGoroutine \in Goroutine /\ IdleGoroutine.pc = "idle"
  BY <1>1 DEF IdleGoroutine, Goroutine, Response
<1>4. Idle \in Refresher /\ Idle.pc = "idle"
  BY <1>1 DEF Idle, Refresher
<1>5. ASSUME NEW ip \in Addrs \cup {NoAddr}
      PROVE  Resolved(ip) \in Resolver /\ Resolved(ip).pc = "done" /\ Resolved(ip).ip = ip
  BY <1>1 DEF Resolved, Resolver
<1>6. NoResponse \notin Response
  BY DEF NoResponse, Response
<1>7. QED
  BY <1>2, <1>3, <1>4, <1>5, <1>6

\* One resolution goes on.
LEMMA OneResolver ==
    ASSUME CacheInv, NEW h \in Handlers, NEW r \in Resolver, Resolving(r),
           resolvers' = [resolvers EXCEPT ![h] = r], UNCHANGED <<cache, refresher, dns, moves>>
    PROVE  CacheInv'
BY DEF CacheInv, TypeOK

\* A call of ResolveNodeIdToIp.
LEMMA ResolveKeepsCacheInv ==
    ASSUME CacheInv, NEW h \in Handlers, NEW node \in NodeIds, ResolveNodeIdToIp(h, node),
           UNCHANGED <<cache, refresher, dns, moves>>
    PROVE  CacheInv'
<1> DEFINE r == IF node \in Addrs THEN Resolved(node) ELSE [pc |-> "get", node |-> node, ip |-> NoAddr]
<1>1. r \in Resolver /\ Resolving(r)
  <2>1. CASE node \in Addrs
    BY <2>1, RestTypes DEF Resolving
  <2>2. CASE node \notin Addrs
    BY <2>2 DEF Resolving, Resolver, NodeIds
  <2>3. QED
    BY <2>1, <2>2
<1>2. resolvers' = [resolvers EXCEPT ![h] = r]
  BY DEF ResolveNodeIdToIp
<1> HIDE DEF r
<1>3. QED
  BY <1>1, <1>2, OneResolver

\* A step of a resolution: only addresses are ever cached.
LEMMA ResolverKeepsCacheInv ==
    ASSUME CacheInv, NEW h \in Handlers, ResolverStep(h)
    PROVE  CacheInv'
<1>1. resolvers[h] \in Resolver /\ Resolving(resolvers[h])
  BY DEF CacheInv, TypeOK
<1>2. CASE getDnsHostIp(h)
  <2> DEFINE name == resolvers[h].node
  <2>1. CASE name \in DOMAIN cache
    <3>1. cache[name] \in Addrs
      BY <2>1 DEF CacheInv, TypeOK
    <3>2. Resolved(cache[name]) \in Resolver /\ Resolving(Resolved(cache[name]))
      BY <3>1, RestTypes DEF Resolving
    <3>3. QED
      BY <1>2, <2>1, <3>2, OneResolver DEF getDnsHostIp
  <2>2. CASE name \notin DOMAIN cache
    <3> DEFINE r == [resolvers[h] EXCEPT !.pc = "lookup"]
    <3>1. r \in Resolver /\ Resolving(r)
      BY <1>1, <1>2 DEF Resolver, Resolving, getDnsHostIp
    <3>2. resolvers' = [resolvers EXCEPT ![h] = r]
      BY <1>2, <2>2 DEF getDnsHostIp
    <3> HIDE DEF r
    <3>3. QED
      BY <1>2, <3>1, <3>2, OneResolver DEF getDnsHostIp
  <2>3. QED
    BY <2>1, <2>2
<1>3. CASE LookupHost(h)
  <2> DEFINE ip == dns[resolvers[h].node]
  <2>1. ip \in Addrs \cup {NoAddr}
    BY <1>1, <1>3 DEF LookupHost, Resolving, CacheInv, TypeOK
  <2>2. CASE ip = NoAddr
    <3>1. Resolved(NoAddr) \in Resolver /\ Resolving(Resolved(NoAddr))
      BY RestTypes DEF Resolving
    <3>2. QED
      BY <1>3, <2>2, <3>1, OneResolver DEF LookupHost
  <2>3. CASE ip # NoAddr
    <3> DEFINE r == [resolvers[h] EXCEPT !.pc = "insert", !.ip = ip]
    <3>1. r \in Resolver /\ Resolving(r)
      BY <1>1, <1>3, <2>1, <2>3 DEF Resolver, Resolving, LookupHost
    <3>2. resolvers' = [resolvers EXCEPT ![h] = r]
      BY <1>3, <2>3 DEF LookupHost
    <3> HIDE DEF r
    <3>3. QED
      BY <1>3, <3>1, <3>2, OneResolver DEF LookupHost
  <2>4. QED
    BY <2>2, <2>3
<1>4. CASE InsertDnsHostIp(h)
  <2>1. resolvers[h].node \in Names /\ resolvers[h].ip \in Addrs
    BY <1>1, <1>4 DEF InsertDnsHostIp, Resolving
  <2>2. /\ Resolved(resolvers[h].ip) \in Resolver
        /\ Resolving(Resolved(resolvers[h].ip))
    BY <2>1, RestTypes DEF Resolving
  <2>3. /\ resolvers' = [resolvers EXCEPT ![h] = Resolved(resolvers[h].ip)]
        /\ cache' = Store(cache, resolvers[h].node, resolvers[h].ip)
        /\ UNCHANGED <<refresher, dns, moves>>
    BY <1>4 DEF InsertDnsHostIp
  <2>4. QED
    BY <2>1, <2>2, <2>3 DEF CacheInv, TypeOK, Store
<1>5. QED
  BY <1>2, <1>3, <1>4 DEF ResolverStep

\* A step of the refresh: a name that no longer resolves is deleted, not stored.
LEMMA RefresherKeepsCacheInv ==
    ASSUME CacheInv, RefresherStep
    PROVE  CacheInv'
<1>1. refresher \in Refresher /\ Refreshing(refresher)
  BY DEF CacheInv, TypeOK
<1>2. ASSUME NEW r \in Refresher, Refreshing(r), refresher' = r,
             UNCHANGED <<cache, resolvers, dns, moves>>
      PROVE  CacheInv'
  BY <1>2 DEF CacheInv, TypeOK
<1>3. CASE Refresh
  <2> DEFINE r == [Idle EXCEPT !.pc = "range", !.left = DOMAIN cache]
  <2>1. r \in Refresher /\ Refreshing(r)
    BY RestTypes DEF Refresher, Refreshing, CacheInv, TypeOK
  <2>2. refresher' = r /\ UNCHANGED <<cache, resolvers, dns, moves>>
    BY <1>3 DEF Refresh
  <2> HIDE DEF r
  <2>3. QED
    BY <1>2, <2>1, <2>2
<1>4. CASE Range
  <2>1. ASSUME NEW name \in DOMAIN cache,
               refresher' = [refresher EXCEPT !.pc = "lookup", !.name = name,
                               !.left = @ \ {name}, !.seen = @ \cup {name}]
        PROVE  CacheInv'
    <3> DEFINE r == [refresher EXCEPT !.pc = "lookup", !.name = name,
                       !.left = @ \ {name}, !.seen = @ \cup {name}]
    <3>1. name \in Names
      BY DEF CacheInv, TypeOK
    <3>2. r \in Refresher /\ Refreshing(r)
      BY <1>1, <3>1 DEF Refresher, Refreshing, NodeIds
    <3>3. refresher' = r /\ UNCHANGED <<cache, resolvers, dns, moves>>
      BY <1>4, <2>1 DEF Range
    <3> HIDE DEF r
    <3>4. QED
      BY <1>2, <3>2, <3>3
  <2>2. ASSUME refresher' = Idle PROVE CacheInv'
    <3>1. Idle \in Refresher /\ Refreshing(Idle)
      BY RestTypes DEF Refreshing
    <3>2. QED
      BY <1>2, <1>4, <2>2, <3>1 DEF Range
  <2>3. QED
    BY <1>4, <2>1, <2>2 DEF Range
<1>5. CASE RefreshLookup
  <2> DEFINE ip == dns[refresher.name]
             r == [refresher EXCEPT !.ip = ip, !.pc = IF ip = NoAddr THEN "delete" ELSE "compare"]
  <2>1. ip \in Addrs \cup {NoAddr}
    BY <1>1, <1>5 DEF RefreshLookup, Refreshing, CacheInv, TypeOK
  <2>2. r \in Refresher /\ Refreshing(r)
    BY <1>1, <1>5, <2>1 DEF Refresher, Refreshing, RefreshLookup
  <2>3. refresher' = r /\ UNCHANGED <<cache, resolvers, dns, moves>>
    BY <1>5 DEF RefreshLookup
  <2> HIDE DEF r
  <2>4. QED
    BY <1>2, <2>2, <2>3
<1>6. CASE Compare
  <2> DEFINE r == [refresher EXCEPT
                     !.pc = IF At(cache, refresher.name, NoAddr) = refresher.ip THEN "range" ELSE "store"]
  <2>1. r \in Refresher /\ Refreshing(r)
    BY <1>1, <1>6 DEF Refresher, Refreshing, Compare
  <2>2. refresher' = r /\ UNCHANGED <<cache, resolvers, dns, moves>>
    BY <1>6 DEF Compare
  <2> HIDE DEF r
  <2>3. QED
    BY <1>2, <2>1, <2>2
<1>7. CASE RefreshStore \/ deleteDnsHost
  <2> DEFINE r == [refresher EXCEPT !.pc = "range"]
  <2>1. r \in Refresher /\ Refreshing(r)
    BY <1>1 DEF Refresher, Refreshing
  <2>2. refresher' = r /\ UNCHANGED <<resolvers, dns, moves>>
    BY <1>7 DEF RefreshStore, deleteDnsHost
  <2> HIDE DEF r
  <2>3. DOMAIN cache' \subseteq Names /\ \A name \in DOMAIN cache' : cache'[name] \in Addrs
    <3>1. CASE RefreshStore
      BY <1>1, <3>1 DEF RefreshStore, Refreshing, Store, CacheInv, TypeOK
    <3>2. CASE deleteDnsHost
      BY <3>2 DEF deleteDnsHost, Without, CacheInv, TypeOK
    <3>3. QED
      BY <1>7, <3>1, <3>2
  <2>4. QED
    BY <2>1, <2>2, <2>3 DEF CacheInv, TypeOK
<1>8. QED
  BY <1>3, <1>4, <1>5, <1>6, <1>7 DEF RefresherStep

\* A name moves, or stops resolving.
LEMMA MoveKeepsCacheInv ==
    ASSUME CacheInv, NEW name \in Names, NEW ip \in Addrs \cup {NoAddr}, Move(name, ip)
    PROVE  CacheInv'
BY AddrAssumption DEF CacheInv, TypeOK, Move

-----------------------------------------------------------------------------
(* The invariant is kept by every action.                                  *)

\* It holds of the empty table and the empty cache.
LEMMA InitEstablishesInv == AssocInit => AssocInv
<1> SUFFICES ASSUME AssocInit PROVE AssocInv
  OBVIOUS
<1>1. (CHOOSE ip \in Addrs : TRUE) \in Addrs
  BY AddrAssumption
<1>2. Resolved(NoAddr) \in Resolver /\ Resolving(Resolved(NoAddr)) /\ Refreshing(Idle)
  BY RestTypes DEF Resolving, Refreshing
<1>3. CacheInv
  BY <1>1, <1>2, RestTypes, AddrAssumption DEF AssocInit, Init, CacheInv, TypeOK, EmptyMap
<1>4. TableTyped
  BY RestTypes DEF AssocInit, TableTyped, EmptyMap
<1>5. CopyAnswersThisRequest /\ InsertsAlone /\ AbandonedHasNoResponse /\ ActivatedIsEntered
  BY RestTypes DEF AssocInit, CopyAnswersThisRequest, InsertsAlone, AbandonedHasNoResponse,
     ActivatedIsEntered
<1>6. QED
  BY <1>3, <1>4, <1>5 DEF AssocInv

\* A step of the cache alone, the runtime's end of a race included.
LEMMA CacheStepKeepsInv ==
    ASSUME AssocInv, CacheInv', UNCHANGED <<tableVars, setups, goroutines>>, crashed' \in BOOLEAN
    PROVE  AssocInv'
<1>1. TableTyped'
  BY DEF AssocInv, TableTyped, tableVars
<1>2. CopyAnswersThisRequest' /\ InsertsAlone' /\ AbandonedHasNoResponse' /\ ActivatedIsEntered'
  BY DEF AssocInv, CopyAnswersThisRequest, InsertsAlone, AbandonedHasNoResponse, HasResponse,
         ActivatedIsEntered, tableVars
<1>3. QED
  BY <1>1, <1>2 DEF AssocInv

\* What a copy says is about the request at hand.
Copied(setup) ==
    setup.pc = "copied" =>
      /\ setup.copy.seq = setup.seq
      /\ PSREI \in setup.copy.flags <=> setup.seq \in Retaining

\* A handler goes on without holding the table's lock.
LEMMA HandlerKeepsInv ==
    ASSUME AssocInv, CacheInv', NEW h \in Handlers, NEW setup \in Setup, Copied(setup),
           setups[h].pc # "insert", setup.pc # "insert",
           setups' = [setups EXCEPT ![h] = setup],
           UNCHANGED <<tableVars, goroutines, crashed>>
    PROVE  AssocInv'
<1>1. TableTyped'
  BY DEF AssocInv, TableTyped, tableVars
<1>2. /\ setups'[h] = setup
      /\ \A i \in Handlers \ {h} : setups'[i] = setups[i]
  BY DEF AssocInv, TableTyped
<1>3. CopyAnswersThisRequest'
  BY <1>2 DEF AssocInv, CopyAnswersThisRequest, Copied
<1>4. InsertsAlone' /\ AbandonedHasNoResponse' /\ ActivatedIsEntered'
  BY <1>2 DEF AssocInv, InsertsAlone, AbandonedHasNoResponse, HasResponse, ActivatedIsEntered,
              tableVars
<1>5. QED
  BY <1>1, <1>3, <1>4 DEF AssocInv

\* Steps of a handler that leave the table alone.
LEMMA QuietSetupKeepsInv ==
    ASSUME AssocInv, NEW h \in Handlers, IsUpfAssociated(h) \/ Send(h) \/ Return(h)
    PROVE  AssocInv'
<1>1. setups[h] \in Setup
  BY DEF AssocInv, TableTyped
<1>2. CASE IsUpfAssociated(h)
  <2> DEFINE setup == [setups[h] EXCEPT !.pc = IF Associated(setups[h].node) THEN "build" ELSE "lock"]
  <2>1. setup \in Setup /\ Copied(setup) /\ setup.pc # "insert" /\ setups[h].pc # "insert"
    BY <1>1, <1>2 DEF Setup, Copied, IsUpfAssociated, Ready
  <2>2. setups' = [setups EXCEPT ![h] = setup] /\ UNCHANGED <<vars, tableVars, goroutines, crashed>>
    BY <1>2 DEF IsUpfAssociated, Goto
  <2>3. CacheInv'
    BY <2>2 DEF AssocInv, CacheInv, TypeOK, vars
  <2> HIDE DEF setup
  <2>4. QED
    BY <2>1, <2>2, <2>3, HandlerKeepsInv
<1>3. CASE Send(h)
  <2> DEFINE setup == [setups[h] EXCEPT !.pc = "wait", !.node = IdleSetup.node]
  <2>1. IdleSetup.node \in NodeIds
    BY RestTypes DEF Setup
  <2>2. setup \in Setup /\ Copied(setup) /\ setup.pc # "insert" /\ setups[h].pc # "insert"
    BY <1>1, <1>3, <2>1 DEF Setup, Copied, Send, Ready
  <2>3. setups' = [setups EXCEPT ![h] = setup] /\ UNCHANGED <<vars, tableVars, goroutines, crashed>>
    BY <1>3 DEF Send
  <2>4. CacheInv'
    BY <2>3 DEF AssocInv, CacheInv, TypeOK, vars
  <2> HIDE DEF setup
  <2>5. QED
    BY <2>2, <2>3, <2>4, HandlerKeepsInv
<1>4. CASE Return(h)
  <2>1. CacheInv'
    BY <1>4, RestTypes, OneResolver DEF Return, AssocInv, Resolving
  <2>2. Copied(IdleSetup) /\ IdleSetup.pc # "insert" /\ setups[h].pc # "insert"
    BY <1>4, RestTypes DEF Copied, Return
  <2>3. QED
    BY <1>4, <2>1, <2>2, RestTypes, HandlerKeepsInv DEF Return
<1>5. QED
  BY <1>2, <1>3, <1>4

\* A request comes in.
LEMMA ArriveKeepsInv ==
    ASSUME AssocInv, NEW node \in SmfNodeIds, NEW seq \in Seqs, Arrive(node, seq)
    PROVE  AssocInv'
<1> DEFINE h == CHOOSE i \in Handlers : setups[i].pc = "idle"
           setup == [IdleSetup EXCEPT !.pc = "associated", !.node = node, !.seq = seq]
<1>1. h \in Handlers /\ setups[h].pc = "idle"
  BY DEF Arrive
<1>2. setup \in Setup /\ Copied(setup) /\ setup.pc # "insert"
  BY RestTypes, IdentityAssumption DEF Setup, Copied
<1>3. setups' = [setups EXCEPT ![h] = setup] /\ UNCHANGED <<vars, tableVars, goroutines, crashed>>
  BY DEF Arrive
<1>4. CacheInv'
  BY <1>3 DEF AssocInv, CacheInv, TypeOK, vars
<1> HIDE DEF h, setup
<1>5. QED
  BY <1>1, <1>2, <1>3, <1>4, HandlerKeepsInv

\* The answer from a stored response, or the panic where there is none.
LEMMA BuildKeepsInv ==
    ASSUME AssocInv, NEW h \in Handlers, BuildPfcpAssociationResponse(h)
    PROVE  AssocInv'
<1> DEFINE seq == setups[h].seq
           copyOf(rsp) == answerRetention([rsp EXCEPT !.seq = seq], seq \in Retaining)
           copied(rsp) == [setups[h] EXCEPT !.pc = "copied", !.copy = copyOf(rsp)]
<1>1. PICK upf \in GetUpfFromNodeId(setups[h].node) :
        LET rsp == upfs[upf].LastAssoRsp
        IN  IF rsp = NoResponse
            THEN /\ setups' = [setups EXCEPT ![h] = IdleSetup]
                 /\ abandoned' = abandoned \cup {upf}
            ELSE /\ setups' = [setups EXCEPT ![h].pc = "copied", ![h].copy = copyOf(rsp)]
                 /\ UNCHANGED abandoned
  BY DEF BuildPfcpAssociationResponse
<1>2. /\ upf \in DOMAIN upfs /\ upfs[upf] \in UPNode
      /\ setups[h] \in Setup /\ setups[h].pc = "build"
      /\ UNCHANGED <<vars, upfs, upfListLock, goroutines, crashed>>
  BY DEF GetUpfFromNodeId, BuildPfcpAssociationResponse, Ready, AssocInv, TableTyped
<1>3. CacheInv'
  BY <1>2 DEF AssocInv, CacheInv, TypeOK, vars
<1>4. CASE upfs[upf].LastAssoRsp = NoResponse
  <2>1. /\ setups' = [setups EXCEPT ![h] = IdleSetup]
        /\ abandoned' = abandoned \cup {upf}
    BY <1>1, <1>4
  <2>2. /\ setups'[h] = IdleSetup
        /\ \A i \in Handlers \ {h} : setups'[i] = setups[i]
    BY <2>1 DEF AssocInv, TableTyped
  <2>3. TableTyped'
    BY <1>2, <2>1, RestTypes DEF AssocInv, TableTyped
  <2>4. CopyAnswersThisRequest' /\ InsertsAlone'
    BY <1>2, <2>2, RestTypes DEF AssocInv, CopyAnswersThisRequest, InsertsAlone
  <2>5. AbandonedHasNoResponse' /\ ActivatedIsEntered'
    BY <1>2, <1>4, <2>1 DEF AssocInv, AbandonedHasNoResponse, HasResponse, ActivatedIsEntered
  <2>6. QED
    BY <1>3, <2>3, <2>4, <2>5 DEF AssocInv
<1>5. CASE upfs[upf].LastAssoRsp # NoResponse
  <2> DEFINE rsp == upfs[upf].LastAssoRsp
  <2>1. rsp \in Response /\ seq \in Seqs
    BY <1>2, <1>5 DEF UPNode, Setup
  <2>2. /\ copyOf(rsp) \in Response /\ copyOf(rsp).seq = seq
        /\ PSREI \in copyOf(rsp).flags <=> seq \in Retaining
    BY <2>1 DEF Response, answerRetention
  <2>3. setups' = [setups EXCEPT ![h] = copied(rsp)] /\ UNCHANGED abandoned
    BY <1>1, <1>5
  <2> HIDE DEF copyOf, rsp
  <2>4. copied(rsp) \in Setup /\ Copied(copied(rsp)) /\ copied(rsp).pc # "insert"
    BY <1>2, <2>2 DEF Setup, Copied
  <2> HIDE DEF copied
  <2>5. QED
    BY <1>2, <1>3, <2>3, <2>4, HandlerKeepsInv DEF tableVars
<1>6. QED
  BY <1>4, <1>5

\* A handler takes the lock if its user plane is missing; nobody else has it then.
LEMMA LockKeepsInv ==
    ASSUME AssocInv, NEW h \in Handlers, LockUpfList(h)
    PROVE  AssocInv'
<1>1. /\ setups[h] \in Setup /\ setups[h].pc = "lock" /\ upfListLock = {}
      /\ UNCHANGED <<upfs, abandoned, goroutines, crashed>>
  BY DEF AssocInv, TableTyped, LockUpfList, Ready
<1>2. CacheInv'
  BY <1>1, ResolveKeepsCacheInv DEF LockUpfList, AssocInv, Setup
<1>3. CASE setups[h].node \in DOMAIN upfs
  <2> DEFINE setup == [setups[h] EXCEPT !.pc = "send"]
  <2>1. setup \in Setup /\ Copied(setup) /\ setup.pc # "insert"
    BY <1>1 DEF Setup, Copied
  <2>2. setups' = [setups EXCEPT ![h] = setup] /\ UNCHANGED upfListLock
    BY <1>3 DEF LockUpfList, Goto
  <2> HIDE DEF setup
  <2>3. QED
    BY <1>1, <1>2, <2>1, <2>2, HandlerKeepsInv DEF tableVars
<1>4. CASE setups[h].node \notin DOMAIN upfs
  <2> DEFINE setup == [setups[h] EXCEPT !.pc = "insert"]
  <2>1. setup \in Setup /\ setup.pc = "insert" /\ setup.node = setups[h].node
    BY <1>1 DEF Setup
  <2>2. setups' = [setups EXCEPT ![h] = setup] /\ upfListLock' = {h}
    BY <1>4 DEF LockUpfList, Goto
  <2> HIDE DEF setup
  <2>3. /\ setups'[h] = setup
        /\ \A i \in Handlers \ {h} : setups'[i] = setups[i]
    BY <2>2 DEF AssocInv, TableTyped
  <2>4. TableTyped'
    BY <1>1, <2>1, <2>2 DEF AssocInv, TableTyped
  <2>5. CopyAnswersThisRequest' /\ AbandonedHasNoResponse' /\ ActivatedIsEntered'
    BY <1>1, <2>1, <2>3 DEF AssocInv, CopyAnswersThisRequest, AbandonedHasNoResponse, HasResponse,
                            ActivatedIsEntered
  <2>6. InsertsAlone'
    BY <1>1, <1>4, <2>1, <2>2, <2>3 DEF AssocInv, InsertsAlone
  <2>7. QED
    BY <1>2, <2>4, <2>5, <2>6 DEF AssocInv
<1>5. QED
  BY <1>3, <1>4

\* The entry is made by the one who holds the lock, where there was none.
LEMMA InsertKeepsInv ==
    ASSUME AssocInv, NEW h \in Handlers, InsertUpfNode(h)
    PROVE  AssocInv' /\ EntryKept
<1> DEFINE node == setups[h].node
           upf == [associated |-> FALSE, ANIP |-> resolvers[h].ip, LastAssoRsp |-> NoResponse]
           setup == [setups[h] EXCEPT !.pc = "send"]
<1>1. /\ setups[h] \in Setup /\ setups[h].pc = "insert" /\ resolvers[h] \in Resolver
      /\ UNCHANGED <<abandoned, goroutines, crashed>>
  BY DEF AssocInv, TableTyped, CacheInv, TypeOK, InsertUpfNode, Ready
<1>2. /\ node \in NodeIds /\ node \notin DOMAIN upfs
      /\ \A i \in Handlers \ {h} : setups[i].pc # "insert"
  BY <1>1 DEF Setup, AssocInv, InsertsAlone
<1>3. CacheInv'
  BY <1>2, ResolveKeepsCacheInv DEF InsertUpfNode, AssocInv
<1>4. upf \in UPNode /\ setup \in Setup /\ setup.pc = "send"
  BY <1>1 DEF UPNode, Setup, Resolver
<1>5. /\ upfs' = Store(upfs, node, upf) /\ upfListLock' = {}
      /\ setups' = [setups EXCEPT ![h] = setup]
  BY DEF InsertUpfNode, Goto
<1> HIDE DEF node, upf, setup
<1>6. /\ setups'[h] = setup
      /\ \A i \in Handlers \ {h} : setups'[i] = setups[i]
  BY <1>5 DEF AssocInv, TableTyped
<1>7. /\ DOMAIN upfs' = DOMAIN upfs \cup {node} /\ upfs'[node] = upf
      /\ \A n \in DOMAIN upfs : upfs'[n] = upfs[n]
  BY <1>2, <1>5 DEF Store
<1>8. TableTyped'
  BY <1>1, <1>2, <1>4, <1>5, <1>7 DEF AssocInv, TableTyped
<1>9. CopyAnswersThisRequest' /\ InsertsAlone'
  BY <1>2, <1>4, <1>5, <1>6 DEF AssocInv, CopyAnswersThisRequest, InsertsAlone
<1>10. AbandonedHasNoResponse' /\ ActivatedIsEntered'
  BY <1>1, <1>7 DEF AssocInv, TableTyped, AbandonedHasNoResponse, HasResponse, ActivatedIsEntered
<1>11. EntryKept
  BY <1>7 DEF EntryKept, HasResponse
<1>12. QED
  BY <1>3, <1>8, <1>9, <1>10, <1>11 DEF AssocInv

\* A user plane accepts.
LEMMA AcceptKeepsInv ==
    ASSUME AssocInv, NEW h \in Handlers, NEW node \in NodeIds, NEW flags \in SUBSET {PSREI},
           Accept(h, node, flags)
    PROVE  AssocInv'
<1> DEFINE g == CHOOSE i \in Goroutines : goroutines[i].pc = "idle"
           goroutine == [pc |-> "activate", node |-> node,
                         rsp |-> [seq |-> setups[h].seq, flags |-> flags]]
<1>1. setups[h] \in Setup /\ UNCHANGED <<vars, tableVars, setups, crashed>>
  BY DEF AssocInv, TableTyped, Accept
<1>2. goroutine \in Goroutine /\ goroutine.pc = "activate"
  BY <1>1 DEF Goroutine, Response, Setup
<1>3. goroutines' = [goroutines EXCEPT ![g] = goroutine]
  BY DEF Accept
<1> HIDE DEF g, goroutine
<1>4. CacheInv'
  BY <1>1 DEF AssocInv, CacheInv, TypeOK, vars
<1>5. TableTyped'
  BY <1>1, <1>2, <1>3 DEF AssocInv, TableTyped, tableVars
<1>6. CopyAnswersThisRequest' /\ InsertsAlone' /\ AbandonedHasNoResponse'
  BY <1>1 DEF AssocInv, CopyAnswersThisRequest, InsertsAlone, AbandonedHasNoResponse, HasResponse,
              tableVars
<1>7. ActivatedIsEntered'
  BY <1>1, <1>2, <1>3 DEF AssocInv, TableTyped, ActivatedIsEntered, tableVars
<1>8. QED
  BY <1>4, <1>5, <1>6, <1>7 DEF AssocInv

\* An entry changes in what an acceptance may change of it.
LEMMA EntryKeepsInv ==
    ASSUME AssocInv, NEW node \in DOMAIN upfs, NEW upf \in UPNode,
           upfs' = [upfs EXCEPT ![node] = upf],
           upf.ANIP = upfs[node].ANIP, upfs[node].associated => upf.associated,
           upf.LastAssoRsp = upfs[node].LastAssoRsp
             \/ /\ upf.LastAssoRsp # NoResponse /\ node \notin abandoned
                /\ Accepted(node, upf.LastAssoRsp),
           NEW g \in Goroutines, NEW goroutine \in Goroutine,
           goroutine.pc # "idle" => goroutine.node \in DOMAIN upfs,
           goroutines' = [goroutines EXCEPT ![g] = goroutine],
           UNCHANGED <<vars, upfListLock, abandoned, setups, crashed>>
    PROVE  AssocInv' /\ EntryKept
<1>1. /\ DOMAIN upfs' = DOMAIN upfs /\ upfs'[node] = upf
      /\ \A n \in DOMAIN upfs \ {node} : upfs'[n] = upfs[n]
  OBVIOUS
<1>2. CacheInv'
  BY DEF AssocInv, CacheInv, TypeOK, vars
<1>3. TableTyped'
  BY <1>1 DEF AssocInv, TableTyped
<1>4. CopyAnswersThisRequest' /\ InsertsAlone'
  BY <1>1 DEF AssocInv, CopyAnswersThisRequest, InsertsAlone
<1>5. AbandonedHasNoResponse'
  BY <1>1 DEF AssocInv, AbandonedHasNoResponse, HasResponse
<1>6. ActivatedIsEntered'
  BY <1>1 DEF AssocInv, TableTyped, ActivatedIsEntered
<1>7. EntryKept
  BY <1>1 DEF EntryKept, HasResponse
<1>8. QED
  BY <1>2, <1>3, <1>4, <1>5, <1>6, <1>7 DEF AssocInv

\* An acceptance is applied, in its two steps.
LEMMA GoroutineKeepsInv ==
    ASSUME AssocInv, NEW g \in Goroutines, GoroutineStep(g)
    PROVE  AssocInv' /\ EntryKept
<1>1. goroutines[g] \in Goroutine
  BY DEF AssocInv, TableTyped
<1>2. ASSUME NEW goroutine \in Goroutine,
             goroutine.pc \in {"preserve", "blocked"} => goroutine.node \in DOMAIN upfs,
             goroutines' = [goroutines EXCEPT ![g] = goroutine], crashed' \in BOOLEAN,
             UNCHANGED <<vars, tableVars, setups>>
      PROVE  AssocInv' /\ EntryKept
  <2>1. CacheInv'
    BY <1>2 DEF AssocInv, CacheInv, TypeOK, vars
  <2>2. TableTyped'
    BY <1>2 DEF AssocInv, TableTyped, tableVars
  <2>3. CopyAnswersThisRequest' /\ InsertsAlone' /\ AbandonedHasNoResponse'
    BY <1>2 DEF AssocInv, CopyAnswersThisRequest, InsertsAlone, AbandonedHasNoResponse, HasResponse,
                tableVars
  <2>4. ActivatedIsEntered'
    BY <1>2 DEF AssocInv, TableTyped, ActivatedIsEntered, tableVars
  <2>5. EntryKept
    BY <1>2 DEF EntryKept, HasResponse, tableVars
  <2>6. QED
    BY <2>1, <2>2, <2>3, <2>4, <2>5 DEF AssocInv
<1>3. CASE ActivateUpfNode(g)
  <2>1. CASE GetUpfFromNodeId(goroutines[g].node) = {}
    <3>1. /\ crashed' = TRUE /\ goroutines[g].pc = "activate"
          /\ UNCHANGED <<goroutines, upfs, vars, upfListLock, abandoned, setups>>
      BY <1>3, <2>1 DEF ActivateUpfNode
    <3>2. goroutines' = [goroutines EXCEPT ![g] = goroutines[g]]
      BY <3>1 DEF AssocInv, TableTyped
    <3>3. QED
      BY <1>1, <1>2, <3>1, <3>2 DEF tableVars
  <2>2. CASE GetUpfFromNodeId(goroutines[g].node) # {}
    <3>1. PICK node \in GetUpfFromNodeId(goroutines[g].node) :
            /\ upfs' = [upfs EXCEPT ![node].associated = TRUE]
            /\ goroutines' = [goroutines EXCEPT ![g].pc = "preserve", ![g].node = node]
            /\ UNCHANGED <<vars, upfListLock, abandoned, setups, crashed>>
      BY <1>3, <2>2 DEF ActivateUpfNode
    <3>2. node \in DOMAIN upfs /\ upfs[node] \in UPNode /\ node \in NodeIds
      BY DEF GetUpfFromNodeId, AssocInv, TableTyped
    <3> DEFINE upf == [upfs[node] EXCEPT !.associated = TRUE]
               goroutine == [goroutines[g] EXCEPT !.pc = "preserve", !.node = node]
    <3>3. /\ goroutine \in Goroutine /\ goroutine.node \in DOMAIN upfs
          /\ goroutines' = [goroutines EXCEPT ![g] = goroutine]
      BY <1>1, <3>1, <3>2 DEF Goroutine
    <3>4. /\ upf \in UPNode /\ upf.ANIP = upfs[node].ANIP /\ upf.associated
          /\ upf.LastAssoRsp = upfs[node].LastAssoRsp
          /\ upfs' = [upfs EXCEPT ![node] = upf]
      BY <3>1, <3>2 DEF UPNode
    <3> HIDE DEF upf, goroutine
    <3>5. QED
      BY <3>1, <3>2, <3>3, <3>4, EntryKeepsInv
  <2>3. QED
    BY <2>1, <2>2
<1>4. CASE PreservePfcpAssociationRsp(g)
  <2> DEFINE node == goroutines[g].node
  <2>1. /\ UNCHANGED <<vars, upfListLock, abandoned, setups, crashed>>
        /\ node \in DOMAIN upfs
    BY <1>4 DEF PreservePfcpAssociationRsp, AssocInv, ActivatedIsEntered
  <2>2. CASE node \in abandoned
    <3> DEFINE goroutine == [goroutines[g] EXCEPT !.pc = "blocked"]
    <3>1. goroutines' = [goroutines EXCEPT ![g] = goroutine] /\ UNCHANGED upfs
      BY <1>4, <2>2 DEF PreservePfcpAssociationRsp
    <3>2. goroutine \in Goroutine /\ goroutine.node = node
      BY <1>1 DEF Goroutine
    <3> HIDE DEF goroutine
    <3>3. QED
      BY <1>2, <2>1, <3>1, <3>2 DEF AssocInv, TableTyped, tableVars
  <2>3. CASE node \notin abandoned
    <3>1. /\ upfs' = [upfs EXCEPT ![node].LastAssoRsp = goroutines[g].rsp]
          /\ goroutines' = [goroutines EXCEPT ![g] = IdleGoroutine]
      BY <1>4, <2>3 DEF PreservePfcpAssociationRsp
    <3>2. goroutines[g].rsp \in Response
      BY <1>1 DEF Goroutine
    <3> DEFINE upf == [upfs[node] EXCEPT !.LastAssoRsp = goroutines[g].rsp]
    <3>3. upfs[node] \in UPNode
      BY <2>1 DEF AssocInv, TableTyped
    <3>4. /\ upf \in UPNode /\ upf.ANIP = upfs[node].ANIP
          /\ upfs[node].associated => upf.associated
          /\ upf.LastAssoRsp # NoResponse /\ Accepted(node, upf.LastAssoRsp)
          /\ upfs' = [upfs EXCEPT ![node] = upf]
      BY <1>4, <3>1, <3>2, <3>3, RestTypes DEF UPNode, Accepted, PreservePfcpAssociationRsp
    <3> HIDE DEF upf, node
    <3>5. QED
      BY <2>1, <2>3, <3>1, <3>4, RestTypes, EntryKeepsInv
  <2>4. QED
    BY <2>2, <2>3
<1>5. QED
  BY <1>3, <1>4 DEF GoroutineStep

\* Every step keeps the invariant, and every entry.
LEMMA NextKeepsInv == AssocInv /\ [AssocNext]_assocVars => AssocInv' /\ [EntryKept]_assocVars
<1> SUFFICES ASSUME AssocInv, [AssocNext]_assocVars PROVE AssocInv' /\ [EntryKept]_assocVars
  OBVIOUS
<1>1. UNCHANGED upfs => EntryKept
  BY DEF EntryKept, HasResponse
<1>2. CASE UNCHANGED assocVars
  <2>1. CacheInv'
    BY <1>2 DEF AssocInv, CacheInv, TypeOK, assocVars, vars
  <2>2. QED
    BY <1>2, <2>1, CacheStepKeepsInv DEF assocVars, AssocInv, TableTyped
<1>3. ASSUME NEW node \in SmfNodeIds, NEW seq \in Seqs, Arrive(node, seq)
      PROVE  AssocInv' /\ EntryKept
  BY <1>1, <1>3, ArriveKeepsInv DEF Arrive, tableVars
<1>4. ASSUME NEW h \in Handlers, SetupStep(h) \/ Return(h) PROVE AssocInv' /\ EntryKept
  <2>1. CASE IsUpfAssociated(h) \/ Send(h) \/ Return(h)
    BY <1>1, <2>1, QuietSetupKeepsInv DEF IsUpfAssociated, Send, Return, tableVars
  <2>2. CASE BuildPfcpAssociationResponse(h)
    BY <1>1, <2>2, BuildKeepsInv DEF BuildPfcpAssociationResponse
  <2>3. CASE LockUpfList(h)
    BY <1>1, <2>3, LockKeepsInv DEF LockUpfList
  <2>4. CASE InsertUpfNode(h)
    BY <2>4, InsertKeepsInv
  <2>5. QED
    BY <1>4, <2>1, <2>2, <2>3, <2>4 DEF SetupStep
<1>5. ASSUME CacheInv', UNCHANGED <<tableVars, setups, goroutines, crashed>>
      PROVE  AssocInv' /\ EntryKept
  BY <1>1, <1>5, CacheStepKeepsInv DEF AssocInv, TableTyped, tableVars
<1>6. ASSUME NEW h \in Handlers, CacheStep(ResolverStep(h)) PROVE AssocInv' /\ EntryKept
  BY <1>5, <1>6, ResolverKeepsCacheInv DEF CacheStep, AssocInv
<1>7. ASSUME NEW h \in Handlers, NEW node \in NodeIds, NEW flags \in SUBSET {PSREI},
             Accept(h, node, flags)
      PROVE  AssocInv' /\ EntryKept
  BY <1>1, <1>7, AcceptKeepsInv DEF Accept, tableVars
<1>8. ASSUME NEW g \in Goroutines, GoroutineStep(g) PROVE AssocInv' /\ EntryKept
  BY <1>8, GoroutineKeepsInv
<1>9. ASSUME CacheStep(RefresherStep) PROVE AssocInv' /\ EntryKept
  BY <1>5, <1>9, RefresherKeepsCacheInv DEF CacheStep, AssocInv
<1>10. ASSUME NEW name \in Names, NEW ip \in Addrs \cup {NoAddr}, CacheStep(Move(name, ip))
       PROVE  AssocInv' /\ EntryKept
  BY <1>5, <1>10, MoveKeepsCacheInv DEF CacheStep, AssocInv
<1>11. ASSUME CacheRace PROVE AssocInv' /\ EntryKept
  <2>1. CacheInv'
    BY <1>11 DEF CacheRace, AssocInv, CacheInv, TypeOK, vars
  <2>2. QED
    BY <1>1, <1>11, <2>1, CacheStepKeepsInv DEF CacheRace, tableVars
<1>12. QED
  BY <1>2, <1>3, <1>4, <1>6, <1>7, <1>8, <1>9, <1>10, <1>11 DEF AssocNext

\* What a step leaves of the entries a panic has left locked.
StaysAbandoned == \A node \in abandoned : node \in abandoned' /\ ~HasResponse(node)'

\* Nobody unlocks an entry whose lock a panic left held.
LEMMA AbandonedGrows == [AssocNext]_assocVars => abandoned \subseteq abandoned'
<1> USE DEF tableVars
<1>1. ASSUME NEW h \in Handlers, SetupStep(h) \/ Return(h) PROVE abandoned \subseteq abandoned'
  BY <1>1 DEF SetupStep, IsUpfAssociated, BuildPfcpAssociationResponse, LockUpfList, InsertUpfNode,
     Send, Return
<1>2. ASSUME NEW g \in Goroutines, GoroutineStep(g) PROVE abandoned \subseteq abandoned'
  BY <1>2 DEF GoroutineStep, ActivateUpfNode, PreservePfcpAssociationRsp
<1>3. QED
  BY <1>1, <1>2 DEF AssocNext, assocVars, Arrive, Accept, CacheStep, CacheRace

-----------------------------------------------------------------------------
(* Theorems.  Fairness is not used.                                        *)

\* The inductive invariant holds in every reachable state.
THEOREM Invariance == AssocSpec => []AssocInv
<1>1. AssocInv /\ [AssocNext]_assocVars => AssocInv'
  BY NextKeepsInv
<1>2. QED
  BY <1>1, InitEstablishesInv, PTL DEF AssocSpec

\* Types, and with them that a name which does not resolve is never cached: neither by
\* the handler that looked it up nor by a refresh from a look-up made before it failed.
THEOREM TypeCorrect == AssocSpec => []AssocTypeOK
<1>1. AssocInv => AssocTypeOK
  BY DEF AssocInv, CacheInv, TableTyped, AssocTypeOK
<1>2. QED
  BY <1>1, Invariance, PTL

\* The answer given from a stored response is one to the request at hand
\* (BuildPfcpAssociationResponse, answerRetention).
THEOREM CopiesAnswerTheirRequest == AssocSpec => []CopyAnswersThisRequest
<1>1. AssocInv => CopyAnswersThisRequest
  BY DEF AssocInv
<1>2. QED
  BY <1>1, Invariance, PTL

\* No entry is ever replaced, moved, or un-associated, however many handlers find it
\* missing at once (InsertUpfNode), and no answer made from its stored response changes
\* what is stored (BuildPfcpAssociationResponse).
THEOREM NoEntryIsReplaced == AssocSpec => EntriesStay
<1>1. AssocInv /\ [AssocNext]_assocVars => [EntryKept]_assocVars
  BY NextKeepsInv
<1>2. QED
  BY <1>1, Invariance, PTL DEF AssocSpec, EntriesStay

\* One handler at most holds the table's lock, and it is the one that looks a missing
\* user plane's name up (InsertUpfNode).
THEOREM LockIsExclusive == AssocSpec => []InsertsAlone
<1>1. AssocInv => InsertsAlone
  BY DEF AssocInv
<1>2. QED
  BY <1>1, Invariance, PTL

\* The panic of BuildPfcpAssociationResponse is final: the entry whose lock it left
\* held never gets a response, whatever the user plane sends.
THEOREM AbandonedForGood == AssocSpec => [][StaysAbandoned]_assocVars
<1>1. AssocInv' /\ [AssocNext]_assocVars => [StaysAbandoned]_assocVars
  BY AbandonedGrows DEF AssocInv, AbandonedHasNoResponse, StaysAbandoned
<1>2. QED
  BY <1>1, Invariance, PTL DEF AssocSpec

=============================================================================
