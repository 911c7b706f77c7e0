# A verification of the XKCD search system

TLA+ models of the microservices under `src/search-services`, the TLC runs that
check them on small instances, and TLAPS proofs of their main properties for
instances of any size. Paths below are relative to `src/search-services/` unless
they start with `src/`.

## 1. The system

| part | state it keeps | operations | talks to |
|---|---|---|---|
| **update service** (`update/`) | a latch `updateed` and a `status` under one mutex, one `WaitGroup` shared by all updates; per update: the ids found, the ids to fetch, a filled and closed channel of jobs, `concurrency` workers | gRPC `Update`, `Drop`, `Stats`, `Status`, `Ping` | PostgreSQL, xkcd.com (HTTP), words service (gRPC), NATS (publishes `xkcd.db.updated`, `xkcd.db.drop`) |
| **comics table** (PostgreSQL) | rows `(xkcd_id, url, words)` | insert on conflict do nothing, truncate, selects | written by update, read by search |
| **search service** (`search/`) | `index`: word to ids, under a mutex; two subscriptions, one channel of 4096 messages and one goroutine each | `BuildIndex`, `ResetIndex`; gRPC `Search` (table), `SearchIndex` (index), `Ping` | PostgreSQL, words service, NATS |
| **words service** (`words/`) | none | gRPC `Norm` (4 KiB limit), `Ping` | |
| **API gateway** (`api/`) | a semaphore for `/api/search`, a rate limiter for `/api/isearch`, metrics | REST handlers, login and token check | the three services |
| **frontend** (`src/frontend/app.js`) | what the page shows, the token, one polling interval, a flag that a poll is under way | buttons, polling every 500 ms | gateway |
| **start and stop** (`main.go` of search and update, `words/server.go`, `closers/`, `update/adapters/db/migrations.go`) | connections, the listener, the signal context, the schema's version | boot, migration, `GracefulStop`, deferred closing | Docker (signals, restarts), every system above |

The gRPC servers run every call in a goroutine of its own. The table and the NATS
subjects are all that the update and the search service share; an event carries no
data, it says only that the table changed.

### What is hard, and what makes each part correct

* **update**: concurrent `Update` calls, a pool of workers, a context that may be
  cancelled under all of them, `Drop` running alongside, calls to four systems that
  can fail, crashes. Correct means: one update at a time, and the latch comes back on
  every path; the event is published after the last row is stored; no comic is fetched
  twice or forgotten; a row that says "missing" is true; every change of the table is
  announced after it is made.
* **search, index**: the table is read without the lock and the result swapped in
  later; bursts of events are coalesced; two goroutines handle two subjects in any
  order; NATS keeps nothing for who is not subscribed. Correct means: once the table
  rests, the index comes to equal it, and until then a rebuild is on its way; a running
  service does not lose what it found.
* **search, queries**: several lookups and reads at different instants, a limit applied
  before dropped rows are skipped. Correct means: a query that nothing disturbs answers
  exactly the best comics in order; one that updates overtake still answers no fewer than
  it could at its start, with scores no lower; it fails only for a cause.
* **gateway**: refusals, cancelled waits, clients that go away, calls that fail, a shutdown
  that cancels what it then waits for and a `main` that does not wait. Correct means:
  every slot taken is given back on every path; the answer to an update is true although
  others run and calls are cut off; a token lives as long as login said.
* **start and stop**: boots that fail half-way, signals at any time, a graceful stop that
  waits for calls while deferred closes wait behind it, goroutines that panic on a closed
  connection, a restart policy. Correct means: no call is cut short or loses a connection
  because the service stops; a handled signal ends the process; what Docker keeps running
  ends up serving.
* **frontend**: handlers that give way at every `await`, answers that arrive in another
  order than the questions. Correct means: at most one interval runs, the page never shows
  something older than it did, a drop does not leave it still, and a page that polls ends
  up showing the truth.

`PROJECT.json` lists the hazards one by one, at their lines, with the properties that
watch each.

## 2. The modules

```
Comics                    the table, its statements, the subjects
 ├─ ComicsWriter          abstract: a writer that announces its changes
 │    └─ IndexSync        the search service's index, composed with that writer
 │         ├─ MCIndex     instances for TLC
 │         ├─ IndexSyncProofs
 │         └─ SearchQuery the queries, over the index and table that change under them
 │              ├─ MCQuery
 │              └─ SearchQueryProofs
 └─ UpdateService         the update service; Writer == INSTANCE ComicsWriter WITH ...
      │                                      Latch  == INSTANCE UpdateLatch WITH ...
      ├─ MCUpdate         instances for TLC
      └─ UpdateServiceProofs ─ UpdateDataProofs ─ UpdateRefinement
                              (UpdateService => ComicsWriter, UpdateService => UpdateLatch)

UpdateLatch               abstract: what the update service promises to the callers of Update
 └─ Gateway               the API gateway, on UpdateLatch's actions; of the other services only
      ├─ MCGateway        the replies
      └─ GatewayProofs

Lifecycle                 start, serving and stop of each gRPC service
 ├─ MCLifecycle
 └─ LifecycleProofs

Dashboard                 the administrator's page
 ├─ MCDashboard
 └─ DashboardProofs
```

### UpdateService

`core.Service` of `update/core/service.go` with its adapters. A call to another system
is one step, at the instant that system acts on it; what the goroutine does on its own
locals up to the next call belongs to the same step. Each system named in the constant
`Faults` may fail any of its calls; a cancelled context fails every call made from then on
(`CtxFails`), except the publication, which ignores it. An insert that was sent before the
context was cancelled, or whose connection is lost, may still be stored although `Add` returns
an error: to the worker, which only logs that error, `AddComic` is then the same step. One
called under a cancelled context is never sent (place `unsent`, operator `InsertPlace`).

| code | model |
|---|---|
| `Update`, 39-47: latch under `mx` | `Begin`, `Reject` |
| 49-54: deferred release | `Finish`, reached from every return through `upc = "defer"` |
| 56-63 `db.IDs`, 65-80 `xkcd.LastID` and the job channel | `ReadIDs`, `ReadLastID` and their `...Fails` |
| 81-128: workers | `WorkerStep(g)`: `Receive`, `GetComic(Fails)`, `Norm(Fails)`, `AddComic(Fails)`, `Exit` |
| 130 `wg.Wait()` | `WaitDone`, guarded by the shared counter `wg` |
| 131-135 publication | `PublishUpdated`, `PublishUpdatedFails` |
| `Drop`, 161-174 | `Truncate(Fails)`, `PublishDrop(Fails)` |
| `Stats`, 139-153 | `Stats`, `StatsFails` |
| `Status` and its gRPC reply | `StatusReply` |
| caller goes away / XKCD grows / process dies | `Cancel`, `NewComic`, `Crash` |

A row is one of three kinds: `full`, `wordless` (normalisation failed) and `missing`
(the fetch failed). `skipped` is a history variable: ids of an update whose insert
failed or whose stored row a drop removed.

### ComicsWriter

What the update service promises: rows appear only in a session, a session ends with
an `updated` event and a truncation with a `drop` event, each after the change it
announces; events get lost only where `MayLose` says so. `UpdateService` implements it
with `session` = some update has comics to fetch and is between spawning its workers
and its event, `dropsOwed` = the Drop calls between truncation and event, `MayLose` =
the database or the broker may fail a call, or the service may crash.

### UpdateLatch

The other promise of the update service, to those who call `Update`: one update runs at a time
(`Takes`), a call is refused only while one does (`Refuses`), every call hears at most once
(`Hears`), and the latch is free after the end of the update that took it (`Ends`), also of one
whose caller no longer waits (`Abandons`, `OrphanEnds`). `UpdateService` implements it: `running`
and `orphaned` are the updates in flight whose call is not, or is, cancelled, and `reply` is what
`Client.Update` of the gateway makes of the gRPC answer (`Told`, `Heard`). `Gateway` instantiates
it and takes its actions for the service's side of a request, so what Gateway assumes of the
update service is what the service is shown to do.

### IndexSync

The search service's side, composed with `ComicsWriter`.

| code | model |
|---|---|
| `main`, 74-95: `BuildIndex`, then the two subscriptions | `BootRead`, `BootSwap`, `BootSubscribe` |
| `subscribeTopic`, 40-64: receive, drain, handle | `Receive`, `Drain`, `Drained` |
| `BuildIndex`: `GetAll`, loop, swap under the lock | `HandlerRead` (or `ReadFails`), `HandlerSwap` |
| `ResetIndex` | `HandlerReset` |
| NATS server and client | `Deliver`: lost if the subject is not subscribed, dropped if the channel is full |
| the process dies and comes back | `Restart` |

`lost`, `raced` and `dropped` are history variables. `lost`: since the table was last read,
an announcement never reached the service (the writer lost it, the subject was not yet
subscribed, or the reading it caused failed). `raced`: since then, the table was truncated
behind a reading not yet swapped in, or the index was reset while the table had comics to
find, which is how finding 2 begins. `dropped`: the table was truncated at least once.

### SearchQuery

`Search` and `SearchIndex` of `search/core/service.go`, on top of IndexSync's state: every
step of IndexSync is a `SystemStep` here, and may come between any two steps of a query.

| code | model |
|---|---|
| 47-57, 94-100: keywords from the words service, an empty score map | `Start` |
| 58-70, 102-112: one statement, or one lock, per keyword | `LookUp`, `LookUpFails` |
| 72-77, 114-123: sort by score, cut at the limit | `Top`, in the last `LookUp` |
| 80-89, 125-134: one `Get` per comic | `Fetch`, `FetchFails` (`Search` fails, `SearchIndex` skips) |
| return | `Answer` |

One query process stands for any number: queries write nothing that others read. The
keywords are a set, one of `Phrases`; the stemming that leads from a phrase to it is the
words service's library's, and a phrase it refuses is no query. Equal scores come in any order (the code sorts a Go map's entries).
`atStart`, `truncated`, `disturbed` and `failed` are history variables.

### Gateway

A request is a connection that sends one request after the other: `Arrive` picks route,
token and whether its parameters, body or credentials are right; middleware and handler
are the following steps.

| code | model |
|---|---|
| `middleware.Concurrency`: try the semaphore, deferred release | `Concurrency`, `ReleaseSlot` in `Finish` |
| `middleware.Rate`: `l.Wait(r.Context())` | `Rate`: waiting, passing, or cancelled with nothing written |
| `middleware.Auth`, `aaa.Verify`, `aaa.Login` | `Auth`, `Accepts`, `Login`, `Expiry` |
| `NewSearchHandler...`: phrase and limit | `CheckParameters` |
| the clients in `adapters/search`, `adapters/update` | `ServiceReplies`, `UpdateBegins`, `UpdateEnds`, `CallFails` |
| `NewUpdateHandler` and the others' last lines | `StatusFor`, `AnswerReply` |
| client's connection ends; signal; `server.Shutdown`; `ListenAndServe` returns and `main` with it | `ClientLeaves`, `Interrupt`, `Shutdown`, `MainReturns` |

Of the update service Gateway has the latch alone, by the actions of UpdateLatch: `running` is the
request whose update holds it, `orphaned` says that one holds it whose caller stopped waiting.
`completed` and `overlapped` are history variables. The
clock counts ticks, `Second` of them per second; a token is the tick it was issued at.

### Lifecycle

The life of one service, `search`, `update` or `words`: its processes, one after the other.
The three share their actions and differ in tables: `Program` (the steps of the boot, in the
order of `main`), `Signals` (what `NotifyContext` is called with), `Deferred` (what is closed
on return) and `Needs` (what a call uses).

| code | model |
|---|---|
| `main`, `run` up to `Serve`: configuration, connections, clients, listener, subscriptions | `Boot`: `LoadConfig`, `Connect(c)`, `Make(s)`, `Listen`, `NotifyContext`, `Subscribe(t)`, each with its failure |
| `DB.Migrate` | `Migrate` (the version is marked dirty), `Apply` (the mark is cleared) |
| `Serve` and its return | `StartServing`, `ServeFails`, `ServeReturns` |
| the goroutine that waits for the context and calls `GracefulStop`; in words, its 60 s | `StopperWakes`, `Drained`, `StopperReturns`, `StopTimesOut` |
| `group.Wait` of words | `WaitReturns` |
| deferred `stop`, `CloseOrLog`, `nc.Close`, in reverse order; `main` returns | `StopNotify`, `CloseConnection(c)`, `Exit` |
| `subscribeTopic`'s goroutine: handle, unsubscribe on `ctx.Done`, panic | `Handle`, `Handled`, `Unsubscribe`, `UnsubscribePanics` |
| signals, `kill`, the NATS client giving up, `restart: unless-stopped` | `Signal`, `Kill`, `BrokerGone`, `Restart` |

`GracefulStop` refuses new calls and waits for those in progress, and `Serve` does not return
before it; an ordinary call ends by itself, a stream (gRPC reflection) when its client ends it.
`suffered` is a history variable: what broke under the present process.

### Dashboard

The browser runs one callback at a time, so an action is a handler's code from one `await` to
the next, and `at[h]` says what handler `h` awaits.

| code (`src/frontend/app.js`) | model |
|---|---|
| `startStatsPolling`, `stopStatsPolling`, the interval's callback | `StartPolling`, `StopPolling`, `Tick` |
| `fetchDbStatsAndStatus`: flag and requests, the answers, `finally` | `Fetch`, `PollAnswers`, `PollFails`, `PollOver` |
| the gateway looks at status and statistics | `IsAnswered(p, k)`, at any time between request and answer |
| the login form, the update and drop buttons, `logout`, tabs, refresh | `LoginSubmitted`, `LoginAnswers`; `UpdateClicked`, `InfoAnswers`, `UpdateAnswers`; `DropClicked`, `DropAnswers`, `DropTimeout`; `Click` |

What the services have to show is the number of their last change, so "older" has a meaning.
`full` is the set of changes after which every comic is stored; there a poll stops the polling
if an update was started from this page. The code also means to stop when the status was
`"updating"` (575), but the gateway answers `running` or `idle` (`api/core/models.go:7`), so
only `targetMaxComics` does.

## 3. The runs

| run | instance | what it shows |
|---|---|---|
| `update_safety` | 2 updates of 2 workers, 3 comics (comic 1 answered with 404, comic 2 too long for the words service), a drop, a crash; database and broker may fail | the six safety invariants of the service, and that to its callers it is the latch of UpdateLatch; 0.9 million states |
| `update_writer` | the same over 2 comics with a `Stats` call; XKCD and words may fail, nothing that loses events | the service implements `ComicsWriter` with nothing lost; `Stats` is consistent |
| `update_live` | every call may fail, a crash; 2 comics | each step of an update or its workers leaves it strictly less to do (`UpdateAdvances`); each update that takes the latch returns; the latch is always free again |
| `update_placeholder` | **violation**: one failed request to XKCD | finding 1 |
| `index` | 2 comics, a drop, a restart, events that get lost, database and broker may fail, a channel of 1, 0.75 million states | staleness is always attended to; dropped comics are found only while something that removes them is under way; a running service forgets nothing until a drop; the index ends equal to the table, unless an announcement was lost or a drop raced a rebuild |
| `index_drop` | **violation**: a booted service, nothing lost, nothing fails, one drop | finding 2 |
| `index_boot` | **violation**: from the boot on, no drop | finding 3 |
| `query_growth` | 3 comics of 1 or 2 words, limits 1 and 2, no drop, 2.1 million states | a query answers exactly if undisturbed; otherwise its scores lie between start and end and it answers no fewer comics than it could at its start |
| `query_drop` | 2 comics, a drop, a restart, a failing database | a query of the table fails only if the database did or the table was truncated meanwhile |
| `gateway` | 2 connections, a limit of 1, tokens of one second of two ticks, 3 ticks, a shutdown; 0.9 million states | slots neither leak nor are given back twice; update's answers are true; tokens live as long as they should |
| `lifecycle` | each of the three services, a call and a stream, three disturbances (failures, signals, kills, a broken broker or listener) | a stop cuts no call and takes no connection from one; a handled signal ends the process; a kept service ends up serving |
| `dashboard` | a login, an update and a drop handler with clicks on everything, two polls, two intervals, one change, one failed answer; 162,480 states | one interval at most; the view never goes back; polling resumes after a drop and catches up after a failure |

**Bounds.** `MaxID` bounds the comic numbers, `MaxCrashes` and `MaxRestarts` the
crashes, `MaxBacklog` the events in transit in IndexSync (1 in `index`, where a second event
then waits with the writer); each RPC is issued at most
once, so the sets of RPCs bound them. Two updates show every conflict over the latch
and an update after a failed or crashed one; two workers over three comics leave a
third job queued while both hold one, so that exits, receipts and inserts interleave
in every way. `ChanCap` is 4096 in the code: at 1, one event fills the channel while
another is handled, which is the case the limit is about. In `query_growth` comic 1 has
one of two words and the others both, so that there are ties, better and worse comics, and
more of them than the limit; `MaxLimit` bounds the limits asked for. In `query_drop`
`MaxBacklog` is 0, so that nothing is announced and the index stays as the boot built it:
what `Search` can fail on is the table, which changes all the same. In `gateway` a second connection
meets a taken slot or latch, and one that goes on after an answer meets what the first
request left behind; `MaxTime` lets a token be issued off a whole second, be accepted and
expire. In `lifecycle`, `MaxDisturbances` is 3: a signal during a stop that something else
brought about, and a restart that meets what an earlier failure left behind, need two; the
third lets an interrupted migration be met by a boot that fails for another reason. In
`dashboard`, two polls and two intervals are what a second one at a time would need to show;
`MaxChanges` is 1, which tells old from new, and `MaxFailures` bounds the answers without data;
handlers may be clicked again without bound. Deadlock checking is off in the runs whose
executions really end: when the RPCs of the instance are used up, or when Docker was asked to
stop the service. `dashboard` checks it.
Symmetry (of updates, of connections) is used in runs without temporal liveness properties.

**Fairness.** `update_live`: weak fairness of each update already begun and of each
worker. The Go scheduler runs every runnable goroutine; that each call ends, with an
answer or an error, is an assumption: the XKCD client has a timeout, calls to
PostgreSQL and the words service end only with the context or the connection. Nothing
is assumed of callers, of cancellation or of crashes. `index` and its violations: weak fairness of the
boot, of both goroutines and of the delivery; none of the writer. `lifecycle`: weak fairness of
what `main` and the stopper do, of the end of an ordinary call, and of Docker's restart; none of
streams, signals or failures, so `SignalStops` and `EventuallyServes` name the case of a stream
held open, and `EventuallyServes` those the code does not repair: a dirty migration, and a
words service whose `Serve` failed. `dashboard`: the interval ticks, the timeout of a drop ends,
and nginx, through which the page asks, answers every request, if only with an error; nobody
has to click.

## 4. The findings

1. `update_placeholder`: any error of `xkcd.Get`, not only a 404, stores an empty row
   for the comic. The row exists, so no later update fetches it again.
2. `index_drop`: rebuild and reset are handled by two goroutines. A rebuild that read
   the table before the drop swaps its index in after the reset (the index finds
   dropped comics), or a late reset empties an index rebuilt after the drop (the index
   finds nothing); neither is repaired before the next event.
3. `index_boot`: the service reads the table, then subscribes; an update announced in
   between is missed. `INDEX_TTL` would bound how long, but nothing reads it.

## 5. The proofs

All theorems hold for every value of the constants under the named assumptions of the
modules (`MaxIDAssumption`, `UpdateAssumption`, `MayLoseAssumption`, `SyncAssumption`,
`QueryAssumption`, `GatewayAssumption`, `LifecycleAssumption`, `DashboardAssumption`), so for any
number of comics, updates, workers, drops, crashes, keywords, limits, connections, calls, clicks
and failures.

**UpdateServiceProofs.** The latch, the wait group and the workers constrain each
other, and `SingleFlight` and `PublishAfterWorkers` alone are not inductive: that
`wg = 0` lets an update pass says nothing unless `wg` counts exactly the live workers,
and those are its own only if no other update is in flight. `IInv` adds
`LatchInv` (latch, status and in-flight updates agree), `WorkerInv` (a live worker's
owner is waiting), `JobsInv` (only a waiting update has jobs) and
`CountInv` (`wg` is the number of live workers). Theorems: `TypeCorrect`,
`OneUpdateAtATime`, `NoStoreAfterEvent`.

**UpdateDataProofs.** On `IInv`: `DataInv` (what the update in flight read of the table
is still there or dropped, never grown by others; jobs and comics in hand are among
`toFetch`) proves `FetchOnlyAbsent` (`NothingFetchedTwice`); `RangeInv` (no number above
`last` is stored, queued or held) proves `StatsWithinTotal`; the books of `toFetch`
prove `NothingForgotten` (`EveryComicAccountedFor`); `RowInv` (a row
that is about to be sent to the database is one its comic deserves, or the work of a failed
service; one that a cancelled context made is `unsent` and only fails) proves, with no assumption, `FalseRowsTraced`: a placeholder for a comic XKCD
serves is there only if XKCD failed a call, a row without words for a text the words service
takes only if that service did; no crash, cancellation, drop or database error makes either.
`RowsAreGenuine` follows if XKCD and the words service fail no call (`PlaceholdersGenuine`;
finding 1 is what happens otherwise).

That an update ends is a liveness property, but what would keep it from ending is not. `Left(c)`
is what update `c` has still to go through: stages, calls for its comics, workers that have to
exit. `UpdateOnlyAdvances`: every step of `c` or of its workers takes something out of it and no
step of anybody puts something back (`UpdateAdvances`), because an error path of a worker goes to
the next call or the next comic and never back, and each comic is in one place (`DataInv`).
Counted, that is `UpdateStepsBounded`: at most 5 + 4 `MaxID` + `Concurrency` steps. And
`NoUpdateStuck`: an update that waits has its wait group at zero or a live worker of its own
(`CountInv`, `WorkerInv`).

**UpdateRefinement.** Both promises, step by step. `UpdateImplementsWriter`: initial states map to initial states
and each step to a step of the writer or a stutter. It rests on `IInv` and `DataInv`: an
insert is a `StoreComic` because the comic is absent, an `updated` event is a
`CloseSession` because the workers are gone. `UpdateImplementsLatch`: each step is one of
UpdateLatch or unseen by the callers. `IInv` gives that the latch the code looks at is free exactly
if no update is in flight (`FreeMeansFree`); `ReplyInv` adds that an update has its answer when its
deferred function runs and not before, so that nobody hears of an end before it.

**IndexSyncProofs.** `TypeCorrect`; `EventKept`: an event is handed over from the bus to
the channel to the goroutine and stays pending until its handler acts, unless lost.
From it: `NoUpdateMissed` (`StaleMeansPending`), by `StaleInv`, which adds that a
snapshot not yet swapped in is itself fresh or attended to, and by `BootInv` (a goroutine
starts when `main` subscribes); `GhostsAreTransient`
(`GhostMeansPending`), by `GhostInv` (a snapshot has a ghost only if a drop raced it);
`IndexOnlyGrows` (`IndexNeverRegresses`), by `GrowthInv` (index, snapshot and table grow
in that order until a drop) and `NoDropInv` (until then no drop's event is pending).

`StaleMeansPending` has three exceptions; four theorems say when they cannot occur. Once every
event is handled the index is the table's, unless an announcement was lost or a drop raced a
rebuild: `SettledIndexAgrees`. Without drops nothing is ever raced (`NotRacedStep`), whatever fails
or restarts: `OnlyLossLeavesItStale`. A booted service that is not restarted, with a writer and
readings that do not fail (`Reliable`), loses nothing (`NotLostStep`), however small the channel:
`OnlyRaceLeavesItStale`. With both, an index out of date always has a rebuild on its way:
`NeverStaleForGood`. These hypotheses separate the two findings: under `Reliable`, `index_drop`
shows the race, and without drops `index_boot` shows the loss during the boot.

**SearchQueryProofs.** `BaseInv` takes over IndexSync's invariants. Without drops, what a
query looks words up in (`Now`: the table, or the index of a running service) only grows,
so `BetweenInv` bounds the score of each comic by what the words looked up so far gave at
the start and give now: `ScoresStayBetween`. `FailsInv`: as long as nothing truncates the
table, each comic found is stored until it is fetched: `FailsOnlyForCause`. `AnswerInv`:
what is fetched and still to fetch adds up to the comics found, cut at the limit; with
`BetweenInv`, `AnswersNoFewer`. `QueryTypeCorrect` needs that a query still looking up has
nothing to fetch (`QueryTypeInv`). `AnswersExactly` proves `Exact`: while nothing disturbs the
query, `ExactInv` keeps the score of each comic equal to what the table gives for the words
looked up so far, and what is fetched followed by what is still to fetch equal to the `Best` of
the comics found; that cutting a sorted list gives the best is `TopIsBest`, that fetching only
moves a comic from the one to the other is `FetchKeepsRanking`.

**GatewayProofs.** `SearchesBounded` and `RefusedOnlyIfFull` say nothing of the counter the
code looks at; `SlotInv` says that it counts exactly the searches let in and not answered,
for any limit and any number of connections: `SearchesStayBounded`, `RefusalsJustified`.
`PlaceInv` ties a request's place to its route, to the latch, and its reply to what the
update service did: `UpdateAnswersTruthful`. `TokensLive` is arithmetic on the whole seconds
an expiry is cut to (`ExpiryCut`).

**LifecycleProofs.** `CallsAreServed` and `CutOnlyForCause` follow from the order in which `main`
does things: it closes connections only after `Serve` has returned, and `Serve` returns only once
the server has stopped, that is with no call left, or has failed. `LInv` says so: `BootInv` (what
the boot's steps so far have opened) hands over to `ServeInv` (a process that serves has all a
call needs; after `Serve` has returned, a server that still has calls has suffered a failure).
Theorems: `TypeCorrect`, `CallsServed`, `CallsCutForCause`.

`StopHeldUpByCallsOnly`: a process whose context is done has a step of its own to take (`GoesOn`
lists their guards) or calls in progress to wait for, whatever failed before. `StopInv` adds to
`LInv` what hands the stop over from one goroutine to the next. `StopIsBounded`: `StepsLeft`, at most 40, gets
smaller with each step of main, the server and the stopper and larger with none in the life of a
process, and no call starts once the stopper is at work.

**DashboardProofs.** `TimerInv`: whoever starts an interval has cleared the one before, and losing
the token clears it, so `NoTimerLeaks`. `PollInv`: the flag admits one poll, whose samples lie
between what the page shows and the services' present; hence `ViewIsMonotone`. It also says that the flag is set exactly while a poll is under way
(`PollingNeverStuck`): none leaves it set behind, which would silence the page, and none clears
another's. All for any number of handlers under way together.

**Only model-checked:** `EveryUpdateReturns`, `LatchReleased`, `CatchesUpUnlessRaced`,
`SignalStops`, `EventuallyServes`, `DropResumes`, `ViewCatchesUp`: liveness under fairness is out
of the prover's reach. Of the first two and of `SignalStops` everything but the use of fairness is
proved: an update, or a stop, takes a bounded number of steps, never goes back, and never waits for
somebody who is not there; of the catching up, that what repairs the index is on its way and that
the index agrees when it is done; of `ViewCatchesUp`, that the flag never silences the page. That
those who can step do step is left to TLC.

## 6. What the models leave out

* A statement that takes effect although its call returns an error is modelled (an insert by
  `AddComic`, also after a cancellation; a truncation by `TruncateFails`), at the latest at the
  instant of that error. A statement that the database commits only after its call has returned,
  or after the process that sent it has died, is not.
* `Publish` succeeding and `Flush` failing is, for `Update`, the same as success (the
  error is only logged); for `Drop` it is modelled, since the RPC then fails.
* A context cancelled under `Drop` or `Stats` is a failed call of the database, the
  broker or XKCD.
* The XKCD client trusts the number in XKCD's answer to be the one it asked for.
* Subscriptions take effect at the NATS server's instant; reconnections of the NATS
  client, during which events are lost too, are not modelled.
* The word counts of `Stats`, urls and the contents of words. (`words_total` joins each comic with
  each of its words and adds the comic's word count each time; no document says what it should be.)
* A negative limit makes `Search` slice out of range and panic; the gateway passes none, the
  gRPC server replaces 0 by 10. Limits of the model start at 1.
* The gateway's routes for pings and metrics, the bodies of its answers, its request
  counters, `ReadTimeout`, and when the rate limiter's turn comes.
* A panic in a handler (net/http recovers it; the deferred release still runs).
* In Lifecycle, signals between two steps of a boot that neither open nor register anything are
  one case; the api gateway's own start and stop are in Gateway.
* Of the page: the search form and the ping page, which keep nothing from one answer to the next,
  messages, and all rendering.
* The rate limiter of `api/adapters/limiter`: nothing calls it (the gateway uses
  `golang.org/x/time/rate`).
* hello, fileserver and petname are named by the README of the repository but absent from it;
  examples, metrics and tests are not part of the system; the code under `proto/` is generated.

## 7. Plan

The modules were written in the order of section 2: the update service and its two promises, the
index that lives on that promise, the queries, the gateway, then the services' lives and the page.
All the plan named is done, except:

* **The update service composed with IndexSync itself**, instead of through `ComicsWriter`: since
  `UpdateImplementsWriter` is proved for every instance, and IndexSync shares
  with the writer only the variables of ComicsWriter, a composed run would repeat what the
  refinement already gives.
* **The words total of `Stats`**: see section 6.
* **A bound on the steps of a request in the gateway**, as `UpdateStepsBounded` is for an update.

Should the code change: a finding that gets repaired turns its violation run into a passing one
(`RowsAreGenuine` then needs no assumption on XKCD, `CatchesUp` replaces `CatchesUpUnlessRaced`).
