# Verification of the decentralized monitor

TLA+ modules, model-checking configurations and machine-checked proofs for the
decentralized monitor: a Spring service that measures calls of REST services, a
Node.js gateway to a Hyperledger Fabric network, and the chaincode that keeps the
measurements. Every definition follows the source; where this text names a line, it
is a line of that file at the commit this directory is kept beside.

Contents: 1 the system, 2 the modules, 3 the runs, 4 the proofs, 5 abstractions and
assumptions, 6 what was found, 7 what is not modelled and the plan.

Paths: `J/` is `src/monitor/src/main/java/springcloud/hellospringcloudalibabanacosmonitor/`,
`N/` is `src/fabric-nodejs/app/`, `G/` is `src/fabric-nodejs/artifacts/src/github.com/`.

## 1. The system

A client calls `/run` of the monitor with the address of a REST service. The monitor
forwards the call, measures it (success or exception, response time) in counters of
the last second and the last minute, and once a second files the totals in lists of
its own (for Grafana) and in lists that it sends to the ledger. The gateway signs
and submits transactions for users of the network; on top of them it runs
negotiations between requesters and providers of services, which end in an agreement
and a payment that is scheduled for its expiry.

| Component | State | Operations |
|---|---|---|
| Sliding window: `J/qps/LeapArray`, `BucketLeapArray`, `WindowWrap`, `ArrayMetric`, `TimeUtil` | array of wraps (start, bucket), `updateLock`, cached clock | `currentWindow`, `resetWindowTo`, `values`, adders, getters, tick of the clock |
| Response times: `J/qps/MetricBucket`, `QpsHelper` | counters per event, `minRt`, two windows (second, minute), the last totals | `incrSuccess`, `incrException`, `addRT`, `reset`, `avgRtInSec`, getters and setters of totals |
| Time series: `J/service/MonitorService`, `GrafanaService` | seven `LinkedList`s of one-entry maps, at most `MAX_SIZE` + 1 long | `collectXxx` (trim, merge, append), formatting |
| Collection and upload: `J/controller/MonitorController`, `J/executor/MyExecutor` | maps address -> helper and address -> service; `timestamp`, last totals, `LAST_UPDATE` | `/run` with `collectDataHighPerformance`, Grafana's `/query` with `collectDataNow`, the upload task |
| Blockchain client: `J/service/BlockchainService`, `HttpClient` | seven more lists, shared by all addresses; token | `collectXxx`, `UpdateChainData`, REST calls to the gateway |
| Registration: `J/controller/BlockchainInstanceMonitorController`, `MonitorController.search` | registered flags, tokens, records on the ledger | register, reset, look up |
| Producer: `J/service/ProviderService` | a RocketMQ producer | `sendOneway` |
| Gateway: `src/fabric-nodejs/app.js` | the maps it fills when it starts (`initialize`) | 57 routes; idle connections are closed after 240 s |
| Transactions: `N/invoke-transaction.js`, `N/query.js`, `commit` of `N/service/service.js` | event hubs and their timers | endorse, order, wait for the commit event; queries of one peer |
| Users and life cycle: `N/helper.js`, `create-channel`, `join-channel`, `install-chaincode`, `instantiate-chaincode` | user store on disk, event hubs | register, enrol, hand out tokens; create, join, install, instantiate |
| Negotiation: `N/service/request`, `response`, `negotiation-utils`, `strategy` | `taskMap`, `requestMap`, `taskJsonMap`, strategy maps, scheduled jobs | propose rounds, respond, check, new round, delete task, pay |
| Task listeners: `N/service/task-listener.js` | event emitter, `listenerMap` of positions | `add`, `remove`, emit |
| Service calls: `N/service/service.js` | `agreementMap` | call under an agreement, commit in the background, recovery |
| Monitoring chaincode: `G/monitor/monitor.go` (`nacos.go`, `weibo.go` are near copies) | key-value state | put, query per instance |
| Token chaincode: `G/ERC20/ERC20.go` | one value with all balances | transfer, mint, balance |

How they interact. Request threads call `QpsHelper`, which calls `ArrayMetric`, which
calls `LeapArray`; the helper of an address is shared by every thread that serves it,
without a lock outside `updateLock`. `MonitorController` reads the totals and
timestamp back from the helper and passes them to `MonitorService` (one per address)
and `BlockchainService` (one for all). An upload runs on a pool thread and reads the
helper and the lists while request threads change them. The gateway is a single
thread: what interleaves there are the awaits of its handlers.

What is hard in each part, and what makes it correct:

* *Sliding window*: many threads at the turn of a window; a slot is reused by
  whoever comes first; a thread delayed with a wrap it obtained; a clock that is set
  back. Correct: slots hold only their own windows; resets exclude each other; an
  event counts for its own window; totals contain what is recent; no call spins for
  ever.
* *Response times*: test-then-write of the minimum; two reads that make an average.
  Correct: the minimum was measured and lies in range; an average lies between the
  extremes.
* *Time series*: only the last point is compared, trimming precedes the append.
  Correct: bounded, one point per second, in order, current, only the oldest lost.
* *Collection*: timestamp and totals are shared and re-read for each list, while
  concurrent requests replace them; a request may take longer than a second; a
  Grafana query may come at any point, and its arguments may be old when it calls.
  Correct: each second is saved, with its own count or, as a comment says, one that is
  off by about a second; what is saved reaches the chain.
* *Upload*: the gate reads a timestamp that is about to change; test and mark are
  not atomic; copying a list that changes fails; the message is not acknowledged.
  Correct: nothing but the newest point stays behind; no upload is skipped for a
  second yet to come; the chain is updated once per second.
* *Registration*: check-then-act on shared maps; failures that are hidden in a
  result; a reset that does not reach the flags. Correct: one helper per address;
  whoever believes to be registered is, or registers again.
* *Transactions*: endorsements of lagging peers; events that come before, between or
  after the hubs connect; lost replies and timeouts of transactions that are ordered
  all the same; background commits. Correct: success means committed and visible on
  every peer; of two conflicting transactions one fails; nothing is sent without the
  endorsement of every target; every call is settled.
* *Negotiation*: maps read before an await and written after it; a task id read
  again after the timeout; several handlers on one task; deletion that clears the
  requests of others; answers that are lost after the ledger has changed; jobs in
  memory; payments that fail. Correct: the maps agree; an agreement is answered to one
  negotiation and has its payment tried when it is due; a payment belongs to an
  agreement; every negotiation ends.
* *Listeners*: positions that are noted when a listener is added and shifted when
  another is removed. Correct: the map and the list agree, the listener removed is
  the one asked for, a round calls exactly those who listen.
* *Users*: enrolled or not is read before two awaits and decides what is done after
  them. Correct: a user is written to the ledger once, a token belongs to a user who
  can use it.
* *Life cycle*: hubs of all peers, requests to some of them, a timer that any block
  clears. Correct: a join that succeeds means every peer, one instantiation succeeds,
  a handler ends.

## 2. The modules

| Module | What it models |
|---|---|
| `LeapArray` | The sliding window with any number of threads, step by step |
| `SlidingCount` | Abstract: what a sliding counter promises a single caller; `LeapArray` names the refinement |
| `MCLeapArray` | Clocks and symmetry for TLC |
| `LeapArrayProofs` | Theorems about `LeapArray`, and that it refines `SlidingCount` |
| `TimeSeries` | `collectXxx` as operators on sequences |
| `TimeSeriesProofs` | Lemmas about them |
| `MonitorSeries` | One list that is fed in the order of time |
| `MonitorSeriesProofs` | Theorems about `MonitorSeries` |
| `Collector` | `/run`, `/query` and uploads over helpers, lists and `LAST_UPDATE`; uses `TimeSeries` |
| `CollectorProofs` | Theorems about `Collector` |
| `MCCollector` | Symmetry for TLC: requests are interchangeable, so are uploads |
| `Transactions` | One invocation from proposal to answer over a network of peers and an orderer, with the queries |
| `TransactionsProofs` | Theorems about `Transactions` |
| `Subscriptions` | Abstract: who listens to which task |
| `TaskListener` | The emitter's lists and the map of positions; refines `Subscriptions` |
| `MCTaskListener` | Names for TLC |
| `TaskListenerProofs` | Theorems about `TaskListener`, and that it refines `Subscriptions` |
| `Negotiation` | From the proposal of a task to its payment, with recovery, deletion and restart |
| `NegotiationProofs` | Theorems about `Negotiation` |
| `Gateway` | Users and tokens, the channel, its peers and the chaincode |
| `GatewayProofs` | Theorems about `Gateway` |

**LeapArray.** A slot's wrap never changes once `compareAndSet` has stored it, so a
slot is `start[i]` (its `windowStart`, or `Null`) and `bucket[i]` (a counter; events
are counted alike, so one stands for all). A thread that calls an adder takes
`Begin` (reads the clock), then loops through `GetSlot`, `CompareAndSet`,
`CompareNewer`, `TryLock`, `ResetStart`, `ResetValue`, `Unlock`, `CompareOlder` as
`currentWindow` (104-149) does, each shared access a step of its own, and ends with
`AddToSlot`, or `AddToFresh` if it was given a bucket outside the array. A getter
calls `currentWindow` too, drops the wrap, and runs `values()` (`Scan`) and the
loop of `ArrayMetric` (`Accumulate`). `Tick` is the daemon of `TimeUtil`. `done` is
a history variable: what was recorded for each window.

**TimeSeries.** `Collect(list, point)` is the body of the fourteen `collectXxx`
methods: remove the first point of a list longer than `MAX_SIZE`, then replace the
last point if it has the same timestamp, else append.

**Collector.** A request thread goes through `Record` (the outcome is known),
`TestAge` and `TestFirst` (the two conditions at 197-198), `ReadChainKey`,
`ReadChainValue`, `CollectChain`, `ReadLocalKey`, `ReadLocalValue`, `CollectLocal` (the
arguments of `collectXxx` are read one after the other, then the call is made),
`Submit`, `ReadClock`, `SetTimestamp`, `ReadTotal`, `SetTotal`. A Grafana query does the
same in `Poll`, `ReadNow`, `CollectNow`, so a request may save the second between its
reading and its call. An upload has a thread of its own, as `MyExecutor.fun` gives each
a pool: `ReadGate` and `Gate` (the timestamp is read, then compared with `LAST_UPDATE`,
line 58), `ReadMark` and `Mark` (the read and the write of line 60), `BeginCopy`,
`EndCopy`; it fails in `EndCopy` if the list was structurally changed while it was
copied, as the iterators of a `LinkedList` do. `sent`, `died` and `overtaken` (the
addresses of which a query was overtaken) are history.

**Transactions.** A call of either `invokeChaincode` goes through `Start`
(`getClientForOrg`), `Endorse` for each target, `RejectProposal` or `Send` (hubs
first, the transaction last), and then waits: `Connect`, `Commit` (of a peer),
`HubFails` and `HubTimesOut` for each hub, `Reply` or `LoseReply` for the orderer,
and `Resolve` when all have reported, as `Promise.all` does. A call of `service.js`
takes `SendAndAnswer` instead and runs the rest (`commit`) in the background.
`CloseConnection` is the 240 seconds of the server (`app.js` 154), which end before
the 1000 of a hub. The network is external: a ledger, peers that commit it at their
own pace, and Fabric's validation, which compares the versions that were read. The
queries of `query.js` (transaction, key, number of blocks, block of a number) are
operators on what a peer has committed; the properties are stated with them.

**TaskListener.** `listeners` is the emitter's list of a task, `listenerMap` the
position of a provider in it. `Mentions` says which keys contain a task's name: the
shift after a removal (79-84) asks for a substring. `result` is what the last
operation answered, or whom a round called. `Subscriptions` is the set that all of
this implements, with `subscribed <- Subscribed`.

**Negotiation.** A handler of `/request_strategy` is at one of the awaits of
`request.js`: `addTask`, `added`, `writeRequest`, `wrote`, `emit` (1 s), `collect`
(the requester's timeout), `check`, `agreed`. An invocation is two steps: the ledger
changes, or not (`Invoke`), and the handler goes on with the answer, which may be
lost though the ledger has changed. `Respond` is `response.js`: the provider's
response to the task and request that the maps name when it is called;
`WriteResponse` is its invocation, which arrives at any later time. `Recover` and
`NewRoundRoute` go through `changeState` and `drop`; `Restart`, `QueryTask` and
`FillMaps` are the start of the gateway, while handlers run. The routes that write
by hand (`/writetask`, `/writerequest`, `/writeresponse`, `/check`, `/schedule`,
`/response_strategy`) are actions of their own. The time of a job is
`ConfirmPay`: the job is gone, and an invocation like any other, which may fail, pays
(`Pay`) the agreement that the task has by then. `told` (what requesters were answered)
and `fired` (the jobs whose time has come) are history; `paid` is on the chain.

**Gateway.** A handler that hands out a token goes through `Load` (is the user in
the store?), `Register`, `Enrol`, and for `/users` `Regist`. The others act for a
user, whose name is in the token: `Create`; `SetUpHubs`, then `PeerJoins`, `HubHears`, `HubTimesOut`,
`HubFails` in any order, and `JoinAnswer`; `Install`; `Endorse`, `Commit`,
`InstantiateAnswer`. A hub is `silent` when a block has cleared its timer without
reporting anything (`join-channel.js` 64-68). `tokens` and `instantiations` are
history.

How these four compose. An invocation in `Negotiation` and `Gateway` is one step of
`Transactions` seen from outside: it takes effect and is answered, or takes effect
and is not, or does neither; `Settles` is why it may be taken to end. `Negotiation`
takes a round to call who listens (`HeardOnce`, `ImplementsSubscriptions`).

Definitions whose comment begins with FAULT are deliberately wrong variants of the
operator after them (a dropped guard, an interval counted wrong, a missing reset).
No specification uses them. Put in the place of the correct one, each makes a
property fail: this shows that the property depends on the code it is about.

## 3. The runs

`tlc -config <cfg> <module>`. All runs that pass are exhaustive for their bounds.

| Run | Module, configuration | Shows |
|---|---|---|
| `leap_any` | `MCLeapArray`, `_any` | passes: `TypeOK`, `Aligned`, `ResetExclusive`, `OwnCounts`, `ObtainedIsWanted`, `Terminates`, whatever the delays, with a clock that may be set back |
| `leap_prompt` | `MCLeapArray`, `_prompt` | passes: `ExactAttribution`, `PickedStayRecent`, `StartNeverGoesBack`, if operations are delayed by at most `Interval - WindowLength` |
| `leap_sequential` | `MCLeapArray`, `_sequential` | passes: one thread implements `SlidingCount` |
| `series` | `MonitorSeries` | passes: `Bounded`, `Increasing`, `Current`, `Recent` |
| `collector_exact` | `MCCollector`, `_exact` | passes: `TypeOK`, `SecondsAreSaved`, `UploadsAreComplete`, requests one at a time and within their second, overlapping uploads |
| `collector_delayed` | `MCCollector`, `_delayed` | passes: `SavingRepairsQueries`, `MarkNotAhead`, `NeverBack`, a request that runs into the next second, a query, overlapping uploads |
| `transactions` | `Transactions`, `_safe` | passes: `AnsweredIsVisible`, `AnswersAreSerial`, `EndorsedByAll`, `Settles` |
| `listeners` | `MCTaskListener`, `_apart` | passes: `HeardOnce`, `PositionsAgree`, and the refinement `ImplementsSubscriptions` |
| `negotiation` | `Negotiation`, `_agree` | passes: `MapsAgree`, `JobsFollowAgreements`, `ToldOnce`, `DueIsScheduled`, `Terminates` |
| `negotiation_payment` | `Negotiation`, `_payment` | fails: `AgreementsArePaid` |
| `gateway` | `Gateway`, `_setup` | passes: `RegistOnce`, `TokensWork`, `JoinedMeansAll`, `InstantiatedOnce`, `HandlersEnd` |
| `gateway_ledger` | `Gateway`, `_ledger` | fails: `UsersAreOnLedger` |

Bounds, and why they are enough:

* `leap_any`: two slots, three windows, so slot 0 is reused while slot 1 is not; two
  threads, since every race of `currentWindow` is between one thread that resets and
  one that does not know; three operations, so that a thread comes back after a
  delay. The wall clock may go back by one window. `MaxLag = MaxTime`, so a delay is
  not limited at all.
* `leap_prompt`: windows of two ticks, so that an operation begins at either side of
  a turn, and time for every slot to be reused; three threads (symmetric), so that
  two race for a slot while the third holds it. `MaxLag` is exactly
  `Interval - WindowLength`; the theorems of section 4 need that bound too.
* `leap_sequential`: four windows over two slots, four operations.
* `series`: `MAX_SIZE = 3`, seven timestamps, two values: the list is trimmed, and a
  point replaced, in every order.
* `collector_exact`: five seconds and five requests, so that up to four seconds are saved
  one after the other; `MAX_SIZE = 3`, so that a second may only be missing once three others
  are there. An upload follows a saved second: with four upload threads no request ever
  waits for one, and all may be in flight at once, pass the gate (`MyExecutor` 58) before any
  of them marks, and mark (60) in any order.
* `collector_delayed`: three seconds and five requests and queries: two requests in one
  second, one in the next, a query that files the total of the former under the timestamp
  of the latter, and the request of the third second that repairs it. `MAX_SIZE = 1`, so
  that lists are trimmed. Two seconds are saved, so two upload threads are enough. An
  outcome may take one second more than its own.
* `transactions`: two calls, either waited for or not, on one key, so that they
  conflict; two peers, so that one lags behind the other, one hub reports and the
  other fails, and targets may be one of them or both. Each call happens once; no
  other bound.
* `listeners`: two names, so that one task's positions could disturb the other's,
  three providers, so that a listener in the middle is removed. No bound on the
  number of operations.
* `negotiation*`: two handlers, since every race is between one that has read a map
  and another that changes it or the ledger; one name, so that they collide, and two
  tasks, so that a name may have both; two rounds, two request ids (the last is given
  again, which only makes confusion easier), three calls from outside and one fault
  (failure, lost answer or restart).
* `gateway*`: two handlers, one user whose name they both want, two peers of which a
  request names one or both, one fault. Requests are not bounded.

Every bound is a constant of its module and named there as a bound; it is used only
in guards (`MaxOps`, `MaxTime`, `MaxLag`, `MaxCalls`, `MaxFaults`, `MaxTasks`), never in
what an operation does; `MaxRequests` makes the chaincode give the last id again.

Deadlock. In `LeapArray` and `MonitorSeries` deadlock is checked. (In
`LeapArray` a tick that does not move the clock is always possible, so it is
`Terminates` that shows that threads are never stuck.) In `Collector` and
`Negotiation` the system stops when its bounded operations have been made, in
`Transactions` when all calls are settled, and a `Gateway` without faults left may
wait for a hub that is silent for ever, so there `CHECK_DEADLOCK FALSE`.

Fairness. `FairSpec` of `LeapArray` assumes weak fairness of `Step(t)` for every
thread: the JVM runs every thread that can run, and no step of an operation blocks
(`tryLock`, not `lock`). Nothing is assumed of `Begin` (requests need not arrive) or
of `Tick`. `Terminates` holds because a loop of `currentWindow` goes round only when
another thread has created the slot, holds the lock or has moved the slot, which a
bounded number of operations can do only so often.

`FairSpec` of `Transactions` assumes weak fairness of `Progress(c)` for every call: Node
runs what is ready, a target that does not answer becomes an error of the SDK, a
broadcast has a timeout, and the timer of a hub fires. Nothing is assumed of the
orderer, the peers' commits or the connections: `Settles` holds if no event ever
comes. `FairSpec` of `Negotiation` assumes it of `Continue(n)`: an invocation ends
(`Settles`) and timers fire. `FairSpec` of `Gateway` assumes it of `Progress(n)`: calls
end, the peers that were asked answer, and the timers of hubs fire; nothing is
assumed of blocks that reach a hub. `HandlersEnd` excepts a hub that lost its timer.

## 4. The proofs

Each theorem is proved for all values of the constants that satisfy the assumption of its
module and the hypotheses it names: any number of threads, slots, requests, peers, users
or tasks, and any bounds. Between them the theorems state every invariant of the runs
that pass, every action property and both refinements. The hypotheses are those that the
run of the same property makes with its constants; beyond them nothing is claimed, and
some of the properties are false.

`LeapArrayProofs`, from `LeapArrayAssumption` alone:

* `TypeCorrect`: `Spec => []TypeOK`.
* `Alignment`: `Spec => []Aligned`, inductive with `TypeOK`; it rests on the
  arithmetic lemmas `Division`, `DivisionOfMultiple` and `WindowFacts` (the start of
  a window is a multiple of its length and has the index of the clock value).
* `Exclusion`: `Spec => []ResetExclusive`, inductive with `TypeOK`. The second
  conjunct needs the first: a start written under the lock stays because
  `CompareAndSet` leaves slots alone that are not null.
* `Obtained`: `Spec => ObtainedIsWanted`, from `ResetExclusive`.
* `NothingInvented`: `Spec => []OwnCounts`, inductive with `TypeOK`. The work is in the
  lemmas about sums (below).

From the hypothesis `Prompt` (the clock does not go back, and
`MaxLag + WindowLength <= Interval`):

* `Attribution`: `Spec => []ExactAttribution`.
* `NoGoingBack`: `Spec => StartNeverGoesBack`.
* `RecentPicks`: `Spec => []PickedStayRecent`, from `NoGoingBack`'s lemma `StartsGrow`.

`ExactAttribution` is not inductive: a thread that holds a wrap would count in
whatever window the slot has by then. `PromptInv` adds `Timely` (no slot is ahead of
the clock, no thread's time is behind it by more than `MaxLag`), `Holds` (who holds
a wrap still finds its window in it) and `NullIsEmpty`. The central lemmas are
`SameSlot` (two window starts with the same index that differ by less than the
interval are equal), from it `SameWanted` (two threads that work on the same slot
want the same window) and `NeverBehind` (a prompt thread never finds its slot
ahead). With them a reset can only move a slot to a window nobody holds.

From the hypothesis `Alone` (at most one thread, and the clock does not go back), for
every delay:

* `ExactCounter`: `Spec => ImplementsSlidingCount`. The invariant `AloneInv` adds to types
  and alignment: `Punctual` (no slot starts after the time the operation works with, so
  that `NotAhead` holds for a late thread too), `Ready` (what the slot holds at each point
  of `currentWindow`), `LatestHeld` (a window that has counted is still the slot's, or an
  older one than the slot's), `AllCounted` (a slot that is not being emptied counts all
  that was recorded for its window) and `Summing` (what is picked and what is added up
  are the live slots). `LiveSum` then compares the sum over the live slots with
  `SlidingCount`'s sum over windows: a recent window without a slot has counted nothing,
  since two windows of one slot are an interval apart; and the window that starts exactly
  one interval ago counts if a slot still holds it, which is why the abstract counter
  leaves that one open. `CounterStep` takes the steps: `AddToSlot` is `Record`, `EndTotal`
  is `Answer`, `Return` is `Return`, a tick that moves the clock is `Tick`, the others are
  not seen.

Sums are folds, which the community modules define by recursion over sets. What is needed
of them is proved without an induction rule: among the subsets of a finite set for which
a claim fails there is a smallest one (`Smallest`, from the well-foundedness of strict
inclusion), and taking an element out of it gives a contradiction. `SumsExist` and
`SumsAgree` show in this way that the recursion has one solution, `SumEquation` unfolds
it, `SumNat`, `SumSame`, `SumApart`, `SumCounts`, `SumWithout` and `SumMoved` are what the
theorems use.

`TimeSeriesProofs` has the lemmas `TrimShape`, `MergeShape` and `CollectShape`: what
`Collect` returns is the old list less at most its first point, with the new point at the
end, in the place of the last one if that has the same time.

`MonitorSeriesProofs`: `SeriesBounded`, `SeriesIncreases`, `SeriesCurrent`, `SeriesRecent`,
by one inductive invariant (`IInv`) from `CollectShape`.

`CollectorProofs`. `TypeCorrect` needs nothing. The others name what they need: one
request at a time (`OneRequester`), one query (`OnePoller`), one service (`OneAddress`),
outcomes collected within their second and no queries (`Immediate`). None limits the
uploads.

* `NeverGoesBack` (`OneRequester`): `NeverBack`, that no timestamp goes back. `InOrder`
  says that on the way from `TestFirst` to `SetTimestamp` the helper's timestamp is older
  than the one to be set, and no mark is newer than its timestamp. (Nothing is said of
  the marks going back: of two uploads the one that read the older timestamp may write
  last.)
* `MarksAreSet` (`OneRequester`): `MarkNotAhead`, from `InOrder` and `MarkIsSet`: what an
  upload has read and is about to mark is a timestamp that was set.
* `SkippedLeaveNothing` (`OneRequester`, `OneAddress`): `UploadsAreComplete`, any number of
  uploads. `ChainInOrder` (all points but the newest are older than the timestamp),
  `MarkedIsSent` (what is older than the mark is sent, or will be by the upload that
  marked) and `EarlierIsSent`; the last alone is not inductive, because a skipped upload
  is made up for only by the one that marked.
* `EverySecondIsSaved` (`OneRequester`, `Immediate`): `SecondsAreSaved`. `Exact` has the
  parts: totals that are up to date once the helper is settled, points of past seconds
  only, every earlier second filed, and the second of the timestamp filed just before the
  next is set.
* `SavingRepairs` (`OneRequester`, `OnePoller`): `SavingRepairsQueries`, for every delay,
  of the addresses of which no query was overtaken.
  `Repaired` says where a point may show too much: only at the end of the list, and only
  of the second of the timestamp (`OnlyLastUnbacked`), so that the request that saves this
  second replaces it (`CollectReplaces`).

`TaskListenerProofs`: `TypeCorrect`; `PositionsKept` (`PositionsAgree` is inductive with
`TypeOK`; `RemoveShape` says what `remove` does to list and positions); and, if no key
mentions another task's name (`NamesApart`, the hypothesis inside `PositionsAgree` too),
`RoundsCallOnce` and `ListenersAreSubscriptions`, the refinement of `Subscriptions` with
one simulation lemma per call.

`TransactionsProofs`, without hypotheses: `TypeCorrect`; `LedgerIsEndorsed` from
`SentWhole` (what is sent or ordered was endorsed by all targets, is in one of the two
places and once); `SuccessIsSerial` from `ValidReads` (a valid transaction read the
version of its key at its own place), where `VersionIsCount` and the monotonicity of
cardinalities replace an induction over the ledger; `SuccessIsVisible` from both with
`HubsTell` (a hub that has said "valid" is that of a peer that shows the call) and
`Answered` (an answered success had all hubs). The properties speak of answers, which
come long after the steps that make them true, so none of them is inductive alone.

`GatewayProofs`, without hypotheses: `TypeCorrect` and `WrittenOnce` by one invariant,
`WritersApart`: a name is registered once, so one handler has its secret; until it has
enrolled it nobody finds it in the store, and only that handler writes it. The types need
it (who is enrolled was registered). `TokensAlwaysWork` is inductive as it stands;
`SuccessMeansAll` needs `HubsTell` (a hub that reported is that of a joined peer),
`InstantiatedByOne` needs `OneValid` (one of those that wait was valid, and none was
answered yet).

`NegotiationProofs`, without hypotheses: `TypeCorrect`, inductive only with `LocalsFit`
(which locals a handler has at which await, so that it never writes a task it does not
have); `NamesAgree` from `NamesKnown` (who remembers, adds or deletes the task of a name
holds one that the chain knows under that name; so do the tasks that a starting gateway
is loading); `PaymentsWereAgreed` and `AnsweredToOne` from `AgreementsMade` (what is told,
about to be told or scheduled is an agreement of the chain, so the next one has a new
number); the former also from `PaidWhenDue` (what is paid for is what the task of a job
that fired had by then, which is that job's agreement or a later one); `ToldIsDue`, that
an agreement keeps its job until its time; and `OnlyRestartsDropJobs`, which says how far
the run that is expected to fail goes: no step but a restart drops a job that was not
tried. A payment that was tried and failed is not tried again, and nothing here says
that it succeeds.

What the modules assume of their constants, beside their kinds: `Users`, `Names` and
`Addresses` are not empty, since the locals of an idle handler have some value, and no
invocation names an empty set of targets (`TargetSets`). The bounds may be any numbers.

Only model-checked: `Terminates` of `LeapArray` and of `Negotiation`, `Settles` and
`HandlersEnd`. They are liveness under weak fairness, whose rules need `ENABLED`, which the
prover does not handle. The two runs that are expected to fail are counterexamples and
need no proof.

## 5. Abstractions and assumptions

* One counter stands for the events of a bucket, one total for the seven a helper
  keeps, one list for the seven of a service: the code treats them alike and one
  after the other. What differs between lists (a request may replace the timestamp
  between two of them) appears between the chain's list and the address's.
* A `collectXxx` call is one step, although it is not synchronized: the inner steps
  of `LinkedList` and `HashMap` under concurrent use are not modelled (their effect
  is not defined by the JDK), only the orders of whole calls, and the failure of an
  iterator.
* `windowStart` is a plain field, the cached clock volatile; reads and writes are
  taken in the order of the program. A stale read of `windowStart` would act as a
  longer delay, which `leap_any` allows, except for its coherence with the counters.
* In `Collector` counters are exact (`LeapArray` says when they are); time is in
  seconds, `timestamp` and the interval too; a query that comes in the very
  millisecond of the timestamp is not modelled. `MaxLag` limits how many seconds a
  request takes to collect its outcome; the runs name the limit they need.
* `TestAge` reads clock and timestamp in one step: with one request at a time nobody else
  sets the timestamp, and no property is claimed of more.
* The message of an upload is sent when it is copied; whether it arrives is not
  observable in this code (`sendOneway`).
* `Transactions`: a chaincode call reads and writes one key, a block holds one
  transaction, one organization. A hub that connects sees the newest block of its
  peer and those after it, as the SDK asks for; so an event may be missed, and the
  call ends with the timeout.
* `Negotiation`: one requester, one request per round, and providers that have a
  strategy. The chaincode of tasks is not in the repository: what it accepts
  (requests and responses to tasks in instantiation, an agreement if there is a
  response, a task for any name) is taken from the functions the gateway calls and
  the messages it logs. Expiry times lie in the future: a job for a time that has
  passed is not scheduled at all. Whether a call under an agreement failed or was
  late is left open. `ScheduledTransfer` asks for the agreement and makes the job in one
  step: what the query answers stays true, since agreements are not taken back. A second
  job for the same agreement and time counts as one, as `jobs` is a set. `FillMaps` takes
  the task's JSON to have one shape; the code does not: `app.js` 202-203 reads
  `taskName` and `requester` at its top level, `request.js` 127 and `service.js` 492 parse
  its `signString`.
* `Gateway`: one organization, channel and chaincode. A route that lets an exception
  go is at its end. The authority registers a name once and gives the secret only
  then; a peer joins once. `/newtoken` and `/admin_newtoken` take any name: their token is
  decoded and not verified (`app.js` 67-71, 90, 101), so a name that is not in the store is
  enrolled or refused like a new one. The users that ask for something other than a token
  have been given one, which `expressJWT` verifies.

## 6. What was found

Runs that are expected to fail, each against a statement of the code:

* `negotiation_payment`: "carry out the final transfer at the scheduled time"
  (`request.js` 201). The job is in memory; a restart forgets it, and `initialize`
  (`app.js` 156-218) fills the maps again but schedules nothing.
* `gateway_ledger`: "if it was not registered before, the user is written to the
  blockchain" (`app.js` 681). Whether it was is decided by the store: if `/users` is cut
  off between enrolment and `regist`, if `regist` fails, or if `/admins` or `/newtoken`
  enrolled the user, the next `/users` answers a token and writes nothing.

Seen in the models and while reading, not given a run. Where a model is named, it has these
behaviours, and its properties are what holds in spite of them.

In the monitor: an event recorded between the two lines of `resetWindowTo` is erased, and a
total read between them includes what the bucket held before, however old; two threads
that decided to reset the same bucket do so one after the other, since the start is not
compared again under the lock (`LeapArray` 132-133), and what was counted in between is
lost (all in `LeapArray`). Of two uploads both may pass the gate for one second and send it
twice, although the chain is to be updated once per `TIME_INTERVAL` (`BlockchainService`
46), and the one that read the older timestamp may put `LAST_UPDATE` back (`Collector`;
what holds is `MarkNotAhead`). A Grafana query that is overtaken between reading its
arguments and calling `collectXxx` overwrites a saved second for good (`Collector`,
`overtaken`). With two requests at a time one may read the timestamp, the other set the next
one, seconds later, and refresh the totals, and the first file the new total under the
second it has read, although the error is said to be about one second
(`MonitorController` 194; `Collector` with two `Requesters`). `ArrayMetric.minRt` (51-61)
starts from 0 and so always answers 1; `MetricBucket.reset` (38-43) leaves `minRt` from the
period before, and the race at 59-61 may store the larger of two minima; `avgRtInSec` reads
the count and then the sum; of two addresses that save the same second one is missing on
the chain.

In the gateway: a `confirmPay` that fails is not tried again, and one that is due after a new
negotiation pays the later agreement, since only the task is passed (`request.js` 202-208,
`Negotiation`); `getBlockByHash` turns the text of the hash into bytes without `'hex'`
(`query.js` 124, `app.js` 545), so the block is not found; `getBlockByNumber` passes the peer
to `parseInt` (`query.js` 74), so the default peer answers; `until.format`
(`instantiate-chaincode.js` 108) is an exception in a callback, which ends in the same
rejection; the route passes the type and the function in the other order than
`instantiateChaincode` takes them (`app.js` 434); a block of several transactions leaves a
joining hub without a timer (`Gateway`); a user that was registered and not enrolled can
never be enrolled (`Gateway`); a task whose deletion was carried out and not answered keeps
its name (`Negotiation`); names of which one contains another make `remove` shift the
positions of the wrong listeners (`task-listener.js` 81); two recoveries of one task at once
make two payment jobs (`Negotiation`); `agreementMap` belongs to a function that nobody
calls; a user who is no administrator gets no answer from `/query`, `/invoke`, `/schedule`
and `/delete_serviceTX`, which name a variable that does not exist.

## 7. Not modelled, and the plan

Left out for good: `LastData`, `Consistency`, `RunableInsert` (nobody calls them),
`request-strategy.js` (an older copy nobody requires), `invokeRestAPI` of `service.js`
(nobody calls it), `ProviderService` and `jmsConfig` (start a producer), the routes
and queries that only list or print, `/joinchaincode` and `/delete_serviceTX` (one
invocation each), scripts, configuration and third-party code. Of the response times
the minimum, which is answered as 1 whatever was recorded, and the average, a pair
of reads nothing depends on. The chaincode `monitor.go` (with its near copies
`nacos.go` and `weibo.go`) puts and gets keys, and `ERC20.go` adds and subtracts, in
one transaction at a time: what is concurrent about them is in `Transactions`. The
registration of a monitor is a chain of REST calls whose answers are hardly looked
at: its hazards are listed, no step of this code depends on its outcome.

Next. Every safety property of the runs is proved; their liveness stays with TLC. Left to
state and to prove: that `Transactions` implements an abstract ledger in which a call
takes effect at one instant, and `Gateway` an abstract registry of users.
