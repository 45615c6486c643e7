----------------------------- MODULE NameCache ------------------------------
(***************************************************************************)
(* Resolving the identity of a user plane (types/nodeid.go): a cache of    *)
(* names, filled by the HTTP handlers that resolve one and refreshed by a  *)
(* goroutine of its own.                                                   *)
(*                                                                         *)
(* The cache is a plain map and nobody locks it.  Accesses are one action  *)
(* each; two of them that are due at once, one of them a write, may also   *)
(* end the process, which is how the runtime answers the race it detects.  *)
(***************************************************************************)
EXTENDS Integers, Maps

CONSTANTS
    Handlers,   \* HTTP handlers, each resolving one identity at a time
    Names,      \* FQDN identities
    Addrs,      \* addresses, which are identities too
    NoAddr,     \* net.IPv4zero, what a name that does not resolve yields
    MaxMoves    \* bound on how often DNS changes

ASSUME AddrAssumption == Addrs # {} /\ MaxMoves \in Nat

VARIABLES
    cache,      \* dnsHostIpCache
    resolvers,  \* handler -> its call of ResolveNodeIdToIp
    refresher,  \* the goroutine of RefreshDnsHostIpCache
    dns,        \* what looking up a name yields: an address, or NoAddr if it fails
    moves

vars == <<cache, resolvers, refresher, dns, moves>>

NodeIds == Names \cup Addrs

\* pc is "done" when the call has its result, ip; in "insert", ip is to be cached.
Resolver == [pc: {"done", "get", "lookup", "insert"}, node: NodeIds, ip: Addrs \cup {NoAddr}]

\* left are the names that the range still has to visit if they stay in the map.
Refresher ==
    [pc: {"idle", "range", "lookup", "compare", "store", "delete"}, left: SUBSET Names,
     seen: SUBSET Names, name: NodeIds, ip: Addrs \cup {NoAddr}]

Idle == [pc |-> "idle", left |-> {}, seen |-> {}, name |-> CHOOSE n \in NodeIds : TRUE, ip |-> NoAddr]

Resolved(ip) == [pc |-> "done", node |-> CHOOSE n \in NodeIds : TRUE, ip |-> ip]

Init ==
    /\ cache = EmptyMap
    /\ resolvers = [h \in Handlers |-> Resolved(NoAddr)]
    /\ refresher = Idle
    /\ dns = [name \in Names |-> CHOOSE ip \in Addrs : TRUE]
    /\ moves = 0

-----------------------------------------------------------------------------
(* ResolveNodeIdToIp.                                                      *)

\* The call: an address is its own resolution.
ResolveNodeIdToIp(h, node) ==
    resolvers' = [resolvers EXCEPT ![h] =
      IF node \in Addrs THEN Resolved(node) ELSE [pc |-> "get", node |-> node, ip |-> NoAddr]]

getDnsHostIp(h) ==
    LET name == resolvers[h].node
    IN  /\ resolvers[h].pc = "get"
        /\ resolvers' = [resolvers EXCEPT ![h] =
             IF name \in DOMAIN cache THEN Resolved(cache[name]) ELSE [@ EXCEPT !.pc = "lookup"]]
        /\ UNCHANGED <<cache, refresher, dns, moves>>

LookupHost(h) ==
    LET ip == dns[resolvers[h].node]
    IN  /\ resolvers[h].pc = "lookup"
        /\ resolvers' = [resolvers EXCEPT ![h] =
             IF ip = NoAddr THEN Resolved(NoAddr) ELSE [@ EXCEPT !.pc = "insert", !.ip = ip]]
        /\ UNCHANGED <<cache, refresher, dns, moves>>

InsertDnsHostIp(h) ==
    /\ resolvers[h].pc = "insert"
    /\ cache' = Store(cache, resolvers[h].node, resolvers[h].ip)
    /\ resolvers' = [resolvers EXCEPT ![h] = Resolved(@.ip)]
    /\ UNCHANGED <<refresher, dns, moves>>

ResolverStep(h) == getDnsHostIp(h) \/ LookupHost(h) \/ InsertDnsHostIp(h)

-----------------------------------------------------------------------------
(* RefreshDnsHostIpCache.                                                  *)

\* The ticker fires.
Refresh ==
    /\ refresher.pc = "idle"
    /\ refresher' = [Idle EXCEPT !.pc = "range", !.left = DOMAIN cache]
    /\ UNCHANGED <<cache, resolvers, dns, moves>>

\* A range visits what was in the map and still is; what is added while it runs may
\* be visited or not.
Range ==
    /\ refresher.pc = "range"
    /\ \/ \E name \in DOMAIN cache \ refresher.seen :
            refresher' = [refresher EXCEPT !.pc = "lookup", !.name = name,
                            !.left = @ \ {name}, !.seen = @ \cup {name}]
       \/ /\ refresher.left \cap DOMAIN cache = {}
          /\ refresher' = Idle
    /\ UNCHANGED <<cache, resolvers, dns, moves>>

RefreshLookup ==
    LET ip == dns[refresher.name]
    IN  /\ refresher.pc = "lookup"
        /\ refresher' = [refresher EXCEPT !.ip = ip,
                           !.pc = IF ip = NoAddr THEN "delete" ELSE "compare"]
        /\ UNCHANGED <<cache, resolvers, dns, moves>>

\* Mutant: a name that is cached is never looked at again.
KeepCached ==
    /\ refresher.pc = "compare"
    /\ refresher' = [refresher EXCEPT !.pc = "range"]
    /\ UNCHANGED <<cache, resolvers, dns, moves>>

Compare ==
    /\ refresher.pc = "compare"
    /\ refresher' = [refresher EXCEPT
         !.pc = IF At(cache, refresher.name, NoAddr) = refresher.ip THEN "range" ELSE "store"]
    /\ UNCHANGED <<cache, resolvers, dns, moves>>

RefreshStore ==
    /\ refresher.pc = "store"
    /\ cache' = Store(cache, refresher.name, refresher.ip)
    /\ refresher' = [refresher EXCEPT !.pc = "range"]
    /\ UNCHANGED <<resolvers, dns, moves>>

\* Mutant: a name that fails to resolve is cached as unresolved.
CacheFailure ==
    /\ refresher.pc = "delete"
    /\ cache' = Store(cache, refresher.name, NoAddr)
    /\ refresher' = [refresher EXCEPT !.pc = "range"]
    /\ UNCHANGED <<resolvers, dns, moves>>

deleteDnsHost ==
    /\ refresher.pc = "delete"
    /\ cache' = Without(cache, {refresher.name})
    /\ refresher' = [refresher EXCEPT !.pc = "range"]
    /\ UNCHANGED <<resolvers, dns, moves>>

RefresherStep ==
    \/ Refresh
    \/ Range
    \/ RefreshLookup
    \/ Compare
    \/ RefreshStore
    \/ deleteDnsHost

Move(name, ip) ==
    /\ moves < MaxMoves
    /\ ip # dns[name]
    /\ dns' = [dns EXCEPT ![name] = ip]
    /\ moves' = moves + 1
    /\ UNCHANGED <<cache, resolvers, refresher>>

\* Two accesses of the map are due at once, and one of them is a write.
Racing ==
    LET readers == {h \in Handlers : resolvers[h].pc = "get"}
        writers == {h \in Handlers : resolvers[h].pc = "insert"}
        refresherReads == refresher.pc \in {"range", "compare"}
        refresherWrites == refresher.pc \in {"store", "delete"}
    IN  \/ \E h \in writers : refresherReads \/ refresherWrites \/ readers # {} \/ writers # {h}
        \/ refresherWrites /\ readers # {}

-----------------------------------------------------------------------------
(* Properties.                                                             *)

\* Types: a name that does not resolve is never cached (ResolveNodeIdToIp returns
\* net.IPv4zero without caching it, the refresh deletes the name).
TypeOK ==
    /\ DOMAIN cache \subseteq Names
    /\ \A name \in DOMAIN cache : cache[name] \in Addrs
    /\ resolvers \in [Handlers -> Resolver]
    /\ refresher \in Refresher
    /\ dns \in [Names -> Addrs \cup {NoAddr}]
    /\ moves \in 0..MaxMoves

\* Every cached name is at the address DNS gives for it.
Fresh == \A name \in DOMAIN cache : cache[name] = dns[name]

=============================================================================
