# A verification project for the UPF adapter

The UPF adapter stands between an SMF and its user planes on the PFCP (N4)
interface. Requests of the SMF arrive over HTTP and are forwarded over UDP;
session reports, the one message a user plane originates, arrive over UDP and
are relayed to the SMF, whose answer is returned. Everything the adapter knows
is in a handful of in-memory tables shared by HTTP handlers, one goroutine per
PFCP message, one goroutine per transaction, and the single goroutine that
reads the socket. Nothing is persisted.

The modules here model those tables and the goroutines that use them. TLC
checks them on small instances; TLAPS proves all it checks but liveness, for every
value of the constants. `PROJECT.json` lists the runs, the source lines behind
every definition, the hazards and the findings.

## The system

| part | state | operations | source |
|---|---|---|---|
| report relay table | `reportRelays`, `relaysByHost`, `relayGenerations`, `reportRelaySeq`, `lastRelaySweep`, under one mutex | claim, renumber, take, forget, release a host, sweep | `config/config.go` |
| relay number search | none | cyclic search for a free number | `config/config.go` |
| user-plane address gate | `upfAddrs`, `upfNodeAddrs`, under one lock; the release hook | record an identity, expire, ask whether a source is known | `config/config.go` |
| PFCP transactions | a table of tables: consumer address, then sequence number; one goroutine each | register, write, resend, time out, answer, remove, release a host | `pfcp/udp` |
| PFCP read loop | one goroutine | read, look up, post an event or start a handler | `pfcp/udp/udp.go` |
| session report handlers | one goroutine per message | gate, claim, send, renumber, take, answer, refuse, forget | `pfcp/handler/handler.go` |
| SMF address | one address | set, get | `config/config.go` |
| request forwarding | `UpfTxns`: sequence number to the channel an HTTP handler waits on | insert, send, roll back, deliver, wait | `pfcp/util.go`, `pfcp/message`, `pfcp/handler` |
| association table | `UpfCfg.UPFs`: status and stored response of each node | insert, activate, preserve, answer from the copy | `config`, `pfcp/handler`, `pfcp/util.go` |
| name cache | host name to address | resolve, insert, refresh every minute | `types/nodeid.go` |
| HTTP front end, start and shutdown | the server and the socket | serve, shut down | `upfadapter.go`, `pfcp/udp/udp.go` |

How they meet. The HTTP handler records the SMF's address and the user plane
it names, then forwards. Recording may release an address: under the lock of
the gate its claims are dropped from the relay table and, through a hook, its
tables from the transactions. The read loop looks each message up among the
transactions; a copy of a request that has been answered is absorbed there, any
other message gets a goroutine. A report's goroutine asks the gate, claims a
number in the relay table and registers a request under it. The answer, or the
failure of that request, starts another goroutine that takes the claim,
registers the answer for the user plane, and forgets the claim.

What is hard. One report exists as several copies, each with its own
goroutine, and the question "has this been seen?" is answered by two tables in
turn: the claim until the answer is registered, the answer after that. Every
lock is dropped between the calls a handler makes, so peers are released, claims
renumbered and transactions ended between any two of them. Clocks are read
before locks are taken. Numbers are shared with the SMF. A number, an address
or a table may have a new owner by the time its last one lets go of it.

Correctness, part by part: the relay table never holds a report under two live
numbers and never gives away a number in use; the gate's two maps agree, and an
address is released exactly when its last identity leaves or falls silent; a
transaction is found for as long as it runs and leaves nothing behind; the read
loop never stops; a claim lives as long as its exchange, no longer than its
authorisation, and is ended by one path only; a forwarded request is answered
once and leaves no registration behind; an associated user plane can be answered
for from its stored response; the name cache comes to agree with DNS; a signal
ends the process with the socket closed and nobody in the middle of a datagram.

## Modules

| module | models | state and actions |
|---|---|---|
| `Maps` | Go maps | functions with the present keys as domain |
| `RelayNumbers` | the number range | `NextFreeRelaySequence`: the number the search must find |
| `NextFreeSequence` | the search loop | one action per trip of the loop |
| `ReportRelays` | the relay table | one action per outcome of every operation; each holds the mutex throughout. Callers are arbitrary: any peer, any number, any release count, and a clock read at any past moment |
| `Transactions` | consumer table and transaction goroutines | registration, release and removal are atomic (`registerMu`, `CompareAndDelete`); a goroutine writes, waits, resends, times out, removes itself, calls its error handler |
| `ReadLoop` | `readLoop`, `readPfcpMessage`, `findTransaction` | extends `Transactions`; each of the four loads is an action. A table taken away by a release stays readable by a loop that had loaded it |
| `Lifecycle` | `main`, `serve` and `Run` | extends `ReadLoop`: opening the socket, publishing the server, starting the loop, the signal, closing, joining the loop, and the transactions on an open or a closed socket. `ListenAndServe` may fail at any moment, after a signal too |
| `Forwarding` | `ForwardPfcpMsgToUpf`, `UpfTxns`, the response and failure handlers | composes `Transactions`; each call of an HTTP handler or of a goroutine with an answer is an action: register, send, roll back, get the channel, deliver, receive |
| `NameCache` | `ResolveNodeIdToIp`, `RefreshDnsHostIpCache` | every access of the cache and every look-up is an action; two accesses that race may end the process, as the runtime does |
| `Associations` | `UpfCfg`, set-up requests and their acceptances | extends `NameCache`; the table's lock, the lock of an entry (held for ever by a handler that panicked), and the stored response |
| `AddrGate` | what the gate promises | the set of authorised addresses, and how often each was released |
| `UpfAddrs` | `RecordUpfAddr`, `IsKnownUpfAddr` | a call reads the clock, resolves, commits: three actions. DNS and the clock are the environment's. Implements `AddrGate` |
| `SessionReport` | the handlers | composes `ReportRelays`, `Transactions` and `AddrGate`; each call a handler makes into a table is an action. History only: `claimEpoch` and `epoch`, the occupancy of an address a claim or a handler was let through under; `forgot` and `recounted`, the release counts a sweep has made start again; `forwarded`, the numbers a late response can still come for, and `cutShort`, those whose relay one has reached |
| `MC...` | instances for TLC | symmetry sets, and the view of `SessionReport` |
| `NextFreeSequenceProofs`, `ReportRelaysProofs`, `TransactionsProofs`, `LifecycleProofs`, `ForwardingProofs`, `UpfAddrsProofs`, `SessionReportProofs`, `AssociationsProofs` | | theorems |

Definitions keep the names of the code. An operator whose comment starts with
"Mutant:" is a plausible mistake in the definition after it; no specification
uses it. Each property has one that breaks it, listed in `PROJECT.json`.

Abstractions. Addresses, identities and the numbers of user planes are model
values, message contents and destinations of writes are left out, and time is a
counter. `Transactions` does not model the seconds of its timers: a timer may
fire at any moment, which covers every duration. The second loop of
`PutTransaction` (`putAttempts`) can never turn, because releases take
`registerMu` too, and is not modelled; nor is the failure it ends in.
`SessionReport` and `Forwarding` look a message up in one step, `ReadLoop` in
four; what the four steps add is checked there. A removal loads its table and
clears its entry in one step: the only thing between the two that matters, the
release of that table, leaves an entry that nobody but a reader already in that
table can find. `Forwarding` tells heartbeats apart because they have no error
handler; session requests and forwarded set-ups are alike. `Associations` leaves
out how a request is sent and matched, and a user plane may accept a set-up twice.
Resolution in `UpfAddrs` is one step whose outcome, the cache's part in it
included, is the environment's choice. `SessionReport` takes every release through
`AddrGate`, which `UpfAddrs` is shown to implement, and splits it in two, since
the claims go before the transactions do. The SMF answers a report as long as its relay
exists, and the answer goes to whatever is found under the number, a request of the
SMF's that has taken it after a release included. An answer that comes later still
finds the claim taken by the give-up path and ends there (`TakeNothing`); it is left out.

## Runs

| run | checks | shows |
|---|---|---|
| `search_loop` | `FindsFirstFree` | the loop computes the definition the relay table uses |
| `relay_table` | `IndexCoherent`, `OneLiveClaim`, `NumberNeverChangesHands` | with stale clock reads, a throttled sweep, wrap and exhaustion |
| `lifecycle` | `HeldNumbersAreRunning`, `RunningIsFindable`, `CopiesAreAbsorbed`, `HeldMessagesArePosted`, `NothingBeforeTheSocket`, `ExitLeavesNothingOpen`, `ShutdownCompletes`, `ReadLoopGoesOn`, `EveryTransactionEnds` | from start to exit: look-ups interleaved with registrations, ends, releases and the closing of the socket. Nothing is left in the table, no removal hits a successor, nothing is registered or read before there is a socket, a message reaches the transaction that was there for it all along, a copy is absorbed while its answer is held, every transaction ends, and a signal ends the process in order |
| `forwarding` | `RegistrationsAreWaitedOn`, `DeliveryNeverBlocks`, `EveryRequestEnds` | two requests, of one number or two; failed sends, lost, late, repeated and unusable responses. Every request ends but a heartbeat nobody answers, one whose response could not be used, and one whose registration was replaced |
| `associations` | `CopyAnswersThisRequest`, `EntriesStay`, `CacheConverges`, `SetupsGoOn`, `AssociatedGetsResponse` | concurrent set-ups, acceptances, a name that moves or fails, and the refresh |
| `upf_addrs` | `AddrsCoherent`, `NamedIsKnown`, `ReleaseJustified`, `ImplementsGate` | concurrent records, moving names, silence |
| `session_report` | `ClaimsAreCurrent`, `ClaimOutlivesExchange`, `OneAnswerer`, `NoStrandedClaim` | copies, answer, give-up, collision, release |
| `session_report_limits` | `ClaimOutlivesExchange`, `OneAnswerer`, `NoStrandedClaim` | no number left to claim, or to move to; claims that age; late responses |

and one type invariant per module. Four more runs end in a violation; see
Findings.

### Bounds

- `search_loop`: five numbers, every subset of them taken, every counter. The
  theorem removes the bound.
- `relay_table`: two hosts, one report number each, three relay numbers, time 0
  to 3 with lifetime 1 and sweep interval 2, one release per host. Three numbers
  for two reports let a report, its outlived entry and another's claim coexist,
  so the range fills and the search wraps. An interval above the lifetime keeps
  outlived entries in the table, as the code's lifetime of thirty seconds and interval
  of one second do for up to a second, and longer while nothing is claimed. The
  theorems remove the bounds.
- `lifecycle`: one peer, one number, two transactions alive, so every look-up meets
  what is being registered, removed or released; a successor and its released
  predecessor are the worst case for a removal. `NumOfResend` is 2 where the code has
  3: a transaction writes, is asked again and gives up. The theorems remove these
  bounds for the invariants.
- `forwarding`: two requests, two numbers, two transactions, two goroutines with an
  answer. Two requests of one number, and a response racing a failure or another
  response, are the pairs that matter. One write per transaction: a retry changes
  nothing here. The theorems remove the bound on the invariants.
- `associations`: two set-ups at once, a name, two addresses, one acceptance at a
  time and one change of DNS (`MaxMoves`): an address to leave and one to go to, or
  a name that stops resolving. Requests come again, so the stored response of one is
  the answer to others. The theorems remove the bounds for the invariants and for
  `EntriesStay`.
- `upf_addrs`: a name and an address identity, two addresses, two concurrent
  calls, four messages, time 0 to 3 with lifetime 1: place, share, move, fall
  silent, expire, be named again.
- `session_report`: one report, two goroutines, two transactions, two numbers, one
  release. Two copies of a report, a copy and its answer, or an answer and a give-up
  are the pairs that matter. One write per transaction replaces three: retries
  change no table. The counter comes round, but not to a number whose exchange is
  still in progress (`NotInProgress`), which would take eight million other reports.
- `session_report_limits`: two reports and one number, so that a range is full both
  for a claim and for a retry. A tick is a whole relay lifetime (thirty seconds), and
  handlers and requests (nine seconds) do not span one. The theorems remove the bounds
  of both runs; `NotInProgress` and the length of a tick they keep, since both are
  assumptions of the model.
- `claim_after_release`: one report, one number, two goroutines, two releases and one
  tick, after which the count of the first release is old enough to be swept.

New HTTP requests, handlers, goroutines and transactions are interchangeable, so
an action that needs a new one takes a chosen one (`CHOOSE`) instead of any. The runs
of `SessionReport` tell states apart by a `VIEW` (`LiveState`) that leaves out what no
step and no property reads again: a release count that has been compared, what was
posted to a transaction after its last round, the difference between an empty table
and none, and the history of numbers that are not claimed.

Deadlock is checked for the relay table. The other models stop where a bound is
reached, where every request has been answered, or where the process ends.

### Fairness

Weak fairness, and only of goroutines: the Go scheduler runs each of them,
`WriteToUDP` and a DNS look-up return, timers and the refresh ticker fire. Nothing
is assumed of peers, of the SMF, of DNS or of signals.

- `lifecycle`: each transaction's goroutine, `Run`, `main`, and the read loop once it
  has a message or a closed socket. A read is not fair: peers may fall silent.
  `Shutdown` has a timeout, so that requests in flight cannot hold `main`.
- `forwarding`: each HTTP handler, each goroutine with an answer, each transaction.
- `associations`: each HTTP handler with its resolution, each goroutine of an
  acceptance, and the refresh. That a user plane answers, or that a waiting handler
  returns, is not assumed.

## Proofs

`NextFreeSequenceProofs` proves `SearchTypeCorrect` and `SearchIsCorrect`: for every range the loop of
`nextFreeRelaySequence` returns what `NextFreeRelaySequence` defines. The
inductive invariant adds `SearchedSoFar` to the property: after k trips the
candidate is at distance k - 1 in the cyclic order and every nearer number is
taken. Its lemmas say that the distance is injective, stays in the range and
grows by one with each trip. Only `RangeAssumption` is used (floor positive, not
above the ceiling).

`ReportRelaysProofs` proves, for all hosts, ports, numbers, lifetimes and
intervals, `TypeCorrect`, `IndexNeverDrifts`, `NoReportRelayedTwice` and the
action property `NumbersAreNotReused`. The inductive invariant `RelayInv` is the
conjunction of the type invariant, `IndexCoherent`, `RecordedInThePast` and
`OneLiveClaim`. `OneLiveClaim` alone is not inductive: a claim looks for its
report through the index only, so the index must be exact; and it dates the new
entry by a clock read that may be older than the step, so an entry that looked
outlived at that moment must still be so now, which needs entries dated in the
past. There is one lemma per operation, and two (`DropKeepsIndex`,
`RecordKeepsIndex`) for the only writers of the two tables. From
`RangeAssumption` and `TimeAssumption`.

`TransactionsProofs` proves, for every set of peers, numbers and transactions and
every number of resends, `TypeCorrect`, `NoNumberIsLeftBehind`
(`HeldNumbersAreRunning`) and `RemovalSparesSuccessors` (`RunningIsFindable`). The
inductive invariant `TxInv` is the conjunction of the type invariant,
`IterationsLeft` and the two table properties. `IterationsLeft` (a transaction that
is writing or waiting has an iteration left) is what keeps the iteration counter in
range when a timer fires. The table properties need each other: an entry is cleared
by the one goroutine it names, which finds it because both name the same consumer
and number. There is one lemma per operation; the steps of the write and wait
rounds share one, since they change neither the table nor what a transaction is
held under. From `ResendAssumption` alone.

`LifecycleProofs` carries that over to the running adapter. `StepOfTables` shows that
every step of the process is one of `Transactions`, leaves the tables alone, or ends
the process; with it come `TablesStaySound` and `LifeTypeCorrect`.
`HeldMessagesReachTheirHolder` (`HeldMessagesArePosted`), `NoHeldCopyIsDispatched`
(`CopiesAreAbsorbed`), `SocketComesFirst` (`NothingBeforeTheSocket`) and
`ExitIsOrderly` (`ExitLeavesNothingOpen`) rest on two more parts of the invariant
`LifeInv`. `LookupSound` says what the read loop may rely on between its loads: while a
transaction has held the number all along, it holds it now, the table that was loaded is
the live one, and the transaction that was loaded is that one (`HolderStays`: nobody
takes a number that is held). `ShutdownOrder` says how far the socket, the server, the
loop and `main` are when `Run` is where it is. From `ResendAssumption` and
`SeqsAssumption`.

`ForwardingProofs` proves, for any number of requests, numbers and goroutines,
`NoRegistrationOutlivesItsRequest` and `NoDeliveryBlocks`. Neither is inductive: a
handler that returns with its answer must have no registration left, and a channel
that holds an answer must not be found again. Both follow from `AnsweredOnce`: a
channel with an answer in it, or on its way to it, belongs to a request that has been
registered and is so no more. Transactions do not enter that argument, so they may do
what they like. `TypeCorrect` does need them, since the number of a failure is its
transaction's: `WireInv` adds `TxInv`, and the same lemma that keeps it
(`TransactionStep`) shows `ImplementsTransactions`, the refinement. From
`SomeAssumption` and `ResendAssumption`.

`UpfAddrsProofs` proves every property of `UpfAddrs` for any number of identities,
addresses and handlers: `GateTypeCorrect`, `MapsStayCoherent` (`AddrsCoherent`), the
refinement `GateKeepsItsPromise` (`ImplementsGate`), `NamedUserPlanesAreKnown`
(`NamedIsKnown`) and the action property `ReleasesAreJustified`. The first three rest
on `GateInv`, the type invariant with `AddrsCoherent` read pointwise: dating a record
moves nobody, the identity a message names is never swept by it, and who leaves an
address is exactly who loses the record there. The last two add `HistoryInv`: while an
identity was named within the lifetime its record bears the date of the last message
that named it and the address that message put it at. Beyond the lifetime that fails,
since a swept record may be begun anew by an older message, and the invariant says no
more there. From `NodeAssumption` and `LifetimeAssumption`.

`AssociationsProofs` proves, for any number of handlers, goroutines, identities and
addresses, `TypeCorrect`, `CopiesAnswerTheirRequest`, the action properties
`NoEntryIsReplaced` (`EntriesStay`) and `AbandonedForGood`, and `LockIsExclusive`. The
types need `CacheInv`: a resolution or a refresh that is about to store something has a
name and an address in hand, which is why a name that does not resolve is never cached.
`NoEntryIsReplaced` needs `InsertsAlone`: the lock is held by exactly the handler that
looks a missing user plane's name up, and the user plane is still missing when it stores
the entry. It says too that a stored response changes only into one a user plane sent,
so that no answer made from it changes it. From `AddrAssumption` and `IdentityAssumption`; fairness is not used.

`SessionReportProofs` proves every invariant of `SessionReport` for any number of user
planes, reports, goroutines, transactions, numbers and releases: `TypeCorrect`,
`ClaimsEndWithTheirPeer` (`ClaimsAreCurrent`), `ReportsStayRecognisable`
(`ClaimOutlivesExchange`), `NoReportAnsweredTwice` (`OneAnswerer`) and
`NoClaimIsStranded` (`NoStrandedClaim`). The inductive invariant `SessInv` has four
layers.

- The tables' own, `RelayInv` and `TxInv`, kept by the lemmas of `ReportRelaysProofs`
  and `TransactionsProofs`, which are instantiated here.
- `Typed`: when a goroutine holds a number, and how many it has tried.
- `Exchanges`: who may do what to a claim. Until its relay is sent it is its handler's
  alone (`SenderAlone`); after that two goroutines may go for it, and the mark that
  `TakeReportRelay` sets decides (`AnswererAlone`, `AnsweredHasAnswerer`); a response
  comes with a goroutine that goes for the claim (`ResponseHasTaker`); and a claim that is
  being worked on is too young to be swept (`InProgressIsFresh`). `OneAnswerer` and
  `NoStrandedClaim` need all of them: a refusal does not set the mark, and is alone only
  because its relay never went out.
- `Occupancies`: whose authorisation a claim stands on. The release count a goroutine
  has read, with the releases that count has forgotten, is no more than there were when
  the gate let its report through (`HandlerAdmitted`), so a claim that finds the count
  unchanged is under the present occupancy. The attempt to prove this without the
  forgotten releases is what found `claim_after_release`: counts come back, and so
  `ClaimsAreCurrent` excepts the claims in `recounted`.

`ImplementsRelayTable` and `ImplementsTransactions` are the refinements: every step of
the handlers is a step of `ReportRelays` and one of `Transactions`, or leaves the table
alone. With them `NoReportRelayedTwice` and `NumbersAreNotReused` carry over to the
composed system. From `AttemptsAssumption`, `ReportsAssumption` and `TablesAssumption`.

Only model-checked: liveness (`EveryTransactionEnds`, `ReadLoopGoesOn`,
`ShutdownCompletes`, `EveryRequestEnds`, `CacheConverges`, `SetupsGoOn`,
`AssociatedGetsResponse`), since the prover does not reason about fairness. Every
invariant and every action property of a passing run is proved.

## Findings

Each is a run whose expected result is a violation; the property states what a
comment of the code says.

1. `read_loop_panic`: a response whose transaction ends between the two loads of
   `findTransaction` dereferences a nil transaction.
2. `claim_after_release`: the check that refuses a claim for a released peer compares
   release counts, and a sweep deletes counts older than the relay lifetime. A handler
   reads an old count, one say; another handler's claim sweeps it; a release counts up to
   one again; the first handler's claim passes the check. No handler is slow: what is old
   is the count, not the read. The comment at `config.go:626-627` says that nobody can
   still be quoting a swept count.
3. `lost_registration`: a second request under a number in flight replaces the
   first one's registration, is refused, and deletes the registration on its way out.
   The first waits for an answer that finds nothing.
4. `stuck_association`: a set-up request that comes between the activation of a user
   plane and the storing of its response panics with the entry's lock held. The
   response is never stored, and no later set-up for that user plane is answered.

More disagreements are in the models but have no run of their own.

- A copy of a report that is read before its answer is registered, and claims after the
  claim has been forgotten, is relayed again: nothing looks for a held answer between
  the read loop (`udp.go:262`) and the claim (`handler.go:274`). The comment at
  `handler.go:435-439` says that the order of `refuseAndRelease` prevents that.
- The third resend request ends an answer's transaction (`transaction.go:138`), where
  the comment at `transaction.go:152-156` says that each resend asks for the window
  again.
- The clock read of `RecordUpfAddr` (`config.go:364`) dates a message's arrival, not
  its resolution, so of two overlapping calls the one with the older resolution may
  win, where the comment at `config.go:361-363` says the date prevents that.
- An answer registered after the release of its peer leaves a table for an address
  that is no longer authorised (`handler.go:407`).
- A response is matched by its number alone (`udp.go:287`), so a late response to a
  request of the SMF's ends the relay that has since taken the number, and nothing
  answers the report until its claim ages: the exception `NoStrandedClaim` makes, of the
  number whose relay was reached that way (`cutShort`) and until it is claimed again.
- A user plane is found by the address its name had when it was entered
  (`config.go:124`). When the name has moved, its acceptance matches no entry and the
  nil entry is dereferenced (`handler.go:146`), which ends the process.
- Heartbeats have no error handler (`send.go:35`) and unusable responses answer nobody
  (`handler.go:119`): their HTTP requests are the exceptions of `EveryRequestEnds`.

## Not modelled

Parsing and encoding, logging, and the contents of messages but for the number and
the retention flag of an association response. The value of the SMF's address, on
which only the destination of a write depends. `PreservePfcpHeartBeatRsp`, which
nothing calls. Identities of IPv6 user planes, which `GetUpfFromNodeId` matches with
nothing. A handler whose goroutine sleeps for longer than the relay lifetime is assumed
away (`Tick`), as the code's own comment does (`config.go:193-197`).

## Plan

1. `SessionReport` liveness: every report a known user plane goes on sending is
   answered, under the fairness of the goroutines.
2. `UpfAddrs` over `NameCache`: the resolution as the cache performs it, with the
   promise of the gate carried over.
