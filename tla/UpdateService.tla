----------------------------- MODULE UpdateService -----------------------------
(***************************************************************************)
(* The update microservice: core.Service of update/core/service.go with    *)
(* the adapters it calls (PostgreSQL, the XKCD client, the words client,   *)
(* the NATS publisher), as its gRPC server runs it: every RPC is a         *)
(* goroutine of its own, and an Update RPC starts Concurrency workers.     *)
(*                                                                         *)
(* Every call to another system is one step, at the instant that system    *)
(* acts on it, with its failure as an alternative step where the constants *)
(* allow the failure.  Code between two such calls that touches only the   *)
(* goroutine's own locals belongs to the step before it.                   *)
(***************************************************************************)
EXTENDS Comics, FiniteSets, Sequences

CONSTANTS
    UpdateCalls,    \* Update RPCs; each is issued at most once
    DropCalls,      \* Drop RPCs, likewise
    StatsCalls,     \* Stats RPCs, likewise
    Concurrency,    \* cfg.XKCD.Concurrency, the workers of one update
    Missing,        \* comics XKCD answers 404 for
    TooLong,        \* comics whose text exceeds the words service's 4 KiB
    Faults,         \* the systems that may fail a call: see FaultKinds
    MaxCrashes      \* bound on the crashes of the service

FaultKinds == {"db", "xkcd", "words", "nats"}

ASSUME UpdateAssumption ==
    /\ Concurrency \in Nat \ {0}        \* NewService refuses anything below 1
    /\ IsFiniteSet(UpdateCalls)
    /\ Missing \subseteq Ids
    /\ TooLong \subseteq Ids
    /\ Faults \subseteq FaultKinds
    /\ MaxCrashes \in Nat

VARIABLES
    \* core.Service
    updateed,       \* an update holds the latch
    status,         \* what Status answers; "unset" is the empty string
    wg,             \* the WaitGroup's counter
    \* the outside world
    comics,         \* the table
    last,           \* the newest comic's number
    bus,            \* events published
    crashes,
    \* each Update RPC: program counter, reply, context and locals
    upc, ureply, cancelled, existing, toFetch, jobs,
    \* each worker goroutine: program counter, comic in hand, row for it
    wpc, wid, wrow,
    \* Drop and Stats RPCs
    dpc, spc, sfetched, stotal,
    \* history: ids of an update whose row failed to be stored or was dropped
    skipped

svcVars  == <<updateed, status, wg>>
callVars == <<upc, ureply, cancelled, existing, toFetch, jobs>>
goVars   == <<wpc, wid, wrow>>
statVars == <<spc, sfetched, stotal>>
vars == <<svcVars, comics, last, bus, crashes, callVars, goVars, dpc, statVars,
          skipped>>

Goroutines == UpdateCalls \X (1 .. Concurrency)
Owner(g) == g[1]
WorkersOf(c) == {c} \X (1 .. Concurrency)

Live == {g \in Goroutines : wpc[g] \notin {"off", "done"}}
Holding == {g \in Goroutines : wpc[g] \in {"get", "norm", "add", "unsent"}}

InFlight(c) == upc[c] \in {"ids", "last", "wait", "publish", "defer"}

-----------------------------------------------------------------------------

TypeOK ==
    /\ updateed \in BOOLEAN
    /\ status \in {"unset", "running", "idle"}
    /\ wg \in Nat
    /\ comics \in Table
    /\ last \in 0 .. MaxID
    /\ bus \in Seq(Topics)
    /\ crashes \in 0 .. MaxCrashes
    /\ upc \in [UpdateCalls ->
                  {"idle", "ids", "last", "wait", "publish", "defer", "returned"}]
    /\ ureply \in [UpdateCalls -> {"none", "ok", "already", "error", "lost"}]
    /\ cancelled \in [UpdateCalls -> BOOLEAN]
    /\ existing \in [UpdateCalls -> SUBSET Ids]
    /\ toFetch \in [UpdateCalls -> SUBSET Ids]
    /\ jobs \in [UpdateCalls -> SUBSET Ids]
    /\ wpc \in [Goroutines ->
                  {"off", "recv", "get", "norm", "add", "unsent", "done"}]
    /\ wid \in [Goroutines -> 0 .. MaxID]
    /\ wrow \in [Goroutines -> Row \cup {NoRow}]
    /\ dpc \in [DropCalls -> {"idle", "publish", "ok", "error"}]
    /\ spc \in [StatsCalls -> {"idle", "last", "ok", "error"}]
    /\ sfetched \in [StatsCalls -> Nat]
    /\ stotal \in [StatsCalls -> 0 .. MaxID]
    /\ skipped \in [UpdateCalls -> SUBSET Ids]

Init ==
    /\ updateed = FALSE
    /\ status = "unset"
    /\ wg = 0
    /\ comics = EmptyTable
    /\ last \in 0 .. MaxID
    /\ bus = <<>>
    /\ crashes = 0
    /\ upc = [c \in UpdateCalls |-> "idle"]
    /\ ureply = [c \in UpdateCalls |-> "none"]
    /\ cancelled = [c \in UpdateCalls |-> FALSE]
    /\ existing = [c \in UpdateCalls |-> {}]
    /\ toFetch = [c \in UpdateCalls |-> {}]
    /\ jobs = [c \in UpdateCalls |-> {}]
    /\ wpc = [g \in Goroutines |-> "off"]
    /\ wid = [g \in Goroutines |-> 0]
    /\ wrow = [g \in Goroutines |-> NoRow]
    /\ dpc = [d \in DropCalls |-> "idle"]
    /\ spc = [s \in StatsCalls |-> "idle"]
    /\ sfetched = [s \in StatsCalls |-> 0]
    /\ stotal = [s \in StatsCalls |-> 0]
    /\ skipped = [c \in UpdateCalls |-> {}]

-----------------------------------------------------------------------------
(***************************************************************************)
(* The Update RPC.  The latch is taken and released under mx, so each      *)
(* critical section is one step.                                           *)
(***************************************************************************)

\* Every call of an update but the publication runs under the RPC's context; one that
\* is cancelled fails the calls it is passed to from then on, and those under way.
CtxFails(c, system) == cancelled[c] \/ system \in Faults

LatchIgnored == TRUE
LatchFree == ~updateed

Begin(c) ==
    /\ upc[c] = "idle"
    /\ LatchFree
    /\ updateed' = TRUE
    /\ status' = "running"
    /\ upc' = [upc EXCEPT ![c] = "ids"]
    /\ UNCHANGED <<wg, comics, last, bus, crashes, ureply, cancelled, existing,
                   toFetch, jobs, goVars, dpc, statVars, skipped>>

\* ErrAlreadyExists, which the gRPC server maps to codes.AlreadyExists.
Reject(c) ==
    /\ upc[c] = "idle"
    /\ ~LatchFree
    /\ upc' = [upc EXCEPT ![c] = "returned"]
    /\ ureply' = [ureply EXCEPT ![c] = "already"]
    /\ UNCHANGED <<svcVars, comics, last, bus, crashes, cancelled, existing,
                   toFetch, jobs, goVars, dpc, statVars, skipped>>

\* An early return with an error: only the deferred function is left to run.
Abort(c) ==
    /\ upc' = [upc EXCEPT ![c] = "defer"]
    /\ ureply' = [ureply EXCEPT ![c] = "error"]
    /\ UNCHANGED <<svcVars, comics, last, bus, crashes, cancelled, existing,
                   toFetch, jobs, goVars, dpc, statVars, skipped>>

ReadIDs(c) ==
    /\ upc[c] = "ids"
    /\ ~cancelled[c]
    /\ existing' = [existing EXCEPT ![c] = StoredIDs(comics)]
    /\ upc' = [upc EXCEPT ![c] = "last"]
    /\ UNCHANGED <<svcVars, comics, last, bus, crashes, ureply, cancelled,
                   toFetch, jobs, goVars, dpc, statVars, skipped>>

ReadIDsFails(c) ==
    /\ upc[c] = "ids"
    /\ CtxFails(c, "db")
    /\ Abort(c)

FetchEverything(known, total) == 1 .. total
ToFetch(known, total) == (1 .. total) \ known

\* LastID answers; the job channel is filled and closed and every worker is
\* counted in wg and started before Update waits for them.
ReadLastID(c) ==
    /\ upc[c] = "last"
    /\ ~cancelled[c]
    /\ toFetch' = [toFetch EXCEPT ![c] = ToFetch(existing[c], last)]
    /\ jobs' = [jobs EXCEPT ![c] = ToFetch(existing[c], last)]
    /\ wg' = wg + Concurrency
    /\ wpc' = [g \in Goroutines |-> IF Owner(g) = c THEN "recv" ELSE wpc[g]]
    /\ upc' = [upc EXCEPT ![c] = "wait"]
    /\ UNCHANGED <<updateed, status, comics, last, bus, crashes, ureply,
                   cancelled, existing, wid, wrow, dpc, statVars, skipped>>

ReadLastIDFails(c) ==
    /\ upc[c] = "last"
    /\ CtxFails(c, "xkcd")
    /\ Abort(c)

\* A publication is owed exactly when there was something to fetch.
SkipSmallUpdates(c) == Cardinality(toFetch[c]) > 1
NeedsEvent(c) == toFetch[c] # {}

WaitSkipped == TRUE
WaitOver == wg = 0

\* wg.Wait returns.
WaitDone(c) ==
    /\ upc[c] = "wait"
    /\ WaitOver
    /\ upc' = [upc EXCEPT ![c] = IF NeedsEvent(c) THEN "publish" ELSE "defer"]
    /\ ureply' = [ureply EXCEPT ![c] = "ok"]
    /\ UNCHANGED <<svcVars, comics, last, bus, crashes, cancelled, existing,
                   toFetch, jobs, goVars, dpc, statVars, skipped>>

\* Publish takes no notice of the context.
PublishUpdated(c) ==
    /\ upc[c] = "publish"
    /\ bus' = Append(bus, "updated")
    /\ upc' = [upc EXCEPT ![c] = "defer"]
    /\ UNCHANGED <<svcVars, comics, last, crashes, ureply, cancelled, existing,
                   toFetch, jobs, goVars, dpc, statVars, skipped>>

\* The event is not sent; the error is only logged.
PublishUpdatedFails(c) ==
    /\ upc[c] = "publish"
    /\ "nats" \in Faults
    /\ upc' = [upc EXCEPT ![c] = "defer"]
    /\ UNCHANGED <<svcVars, comics, last, bus, crashes, ureply, cancelled,
                   existing, toFetch, jobs, goVars, dpc, statVars, skipped>>

LeaveLatched(c) ==
    /\ upc[c] = "defer"
    /\ updateed' = (ureply[c] = "error")
    /\ status' = "idle"
    /\ upc' = [upc EXCEPT ![c] = "returned"]
    /\ existing' = [existing EXCEPT ![c] = {}]
    /\ toFetch' = [toFetch EXCEPT ![c] = {}]
    /\ UNCHANGED <<wg, comics, last, bus, crashes, ureply, cancelled, jobs,
                   goVars, dpc, statVars, skipped>>

\* The deferred function, and the return; the locals are gone.
Finish(c) ==
    /\ upc[c] = "defer"
    /\ updateed' = FALSE
    /\ status' = "idle"
    /\ upc' = [upc EXCEPT ![c] = "returned"]
    /\ existing' = [existing EXCEPT ![c] = {}]
    /\ toFetch' = [toFetch EXCEPT ![c] = {}]
    /\ UNCHANGED <<wg, comics, last, bus, crashes, ureply, cancelled, jobs,
                   goVars, dpc, statVars, skipped>>

-----------------------------------------------------------------------------
(***************************************************************************)
(* A worker of an update.                                                  *)
(***************************************************************************)

\* The worker goes on to w with comic i in hand and the row to store for it.
Step(g, w, i, row) ==
    /\ wpc' = [wpc EXCEPT ![g] = w]
    /\ wid' = [wid EXCEPT ![g] = i]
    /\ wrow' = [wrow EXCEPT ![g] = row]

\* The channel was filled in ascending order.
Receive(g) ==
    /\ wpc[g] = "recv"
    /\ \E i \in jobs[Owner(g)] :
        /\ \A j \in jobs[Owner(g)] : i <= j
        /\ Step(g, "get", i, NoRow)
        /\ jobs' = [jobs EXCEPT ![Owner(g)] = @ \ {i}]
    /\ UNCHANGED <<svcVars, comics, last, bus, crashes, upc, ureply, cancelled,
                   existing, toFetch, dpc, statVars, skipped>>

DoneForgotten == wg
DoneTwice == wg - 2
\* wg.Done(), deferred by the worker.
Done == wg - 1

\* The channel is closed and drained.
Exit(g) ==
    /\ wpc[g] = "recv"
    /\ jobs[Owner(g)] = {}
    /\ Step(g, "done", 0, NoRow)
    /\ wg' = Done
    /\ UNCHANGED <<updateed, status, comics, last, bus, crashes, callVars, dpc,
                   statVars, skipped>>

\* What a worker's calls leave alone.
Fetching == UNCHANGED <<svcVars, comics, last, bus, crashes, callVars, dpc,
                        statVars, skipped>>

GetComic(g) ==
    /\ wpc[g] = "get"
    /\ ~cancelled[Owner(g)]
    /\ wid[g] \notin Missing
    /\ Step(g, "norm", wid[g], NoRow)
    /\ Fetching

InsertDetached(g) == "add"
\* The insert runs under the RPC's context too: called when that is cancelled already,
\* it does not reach the database.
InsertPlace(g) == IF cancelled[Owner(g)] THEN "unsent" ELSE "add"

\* Any error, a 404 among them, makes the worker store a placeholder.
GetComicFails(g) ==
    /\ wpc[g] = "get"
    /\ CtxFails(Owner(g), "xkcd") \/ wid[g] \in Missing
    /\ Step(g, InsertPlace(g), wid[g], "missing")
    /\ Fetching

\* The words service refuses a text of more than 4 KiB.
TextFits(i) == i \notin TooLong

Norm(g) ==
    /\ wpc[g] = "norm"
    /\ ~cancelled[Owner(g)]
    /\ TextFits(wid[g])
    /\ Step(g, InsertPlace(g), wid[g], "full")
    /\ Fetching

NormForgets(g) ==
    /\ wpc[g] = "norm"
    /\ CtxFails(Owner(g), "words") \/ ~TextFits(wid[g])
    /\ Step(g, "recv", 0, NoRow)
    /\ Fetching

NormRetries(g) ==
    /\ wpc[g] = "norm"
    /\ CtxFails(Owner(g), "words") \/ ~TextFits(wid[g])
    /\ Step(g, "get", wid[g], NoRow)
    /\ Fetching

\* The comic is stored without words.
NormFails(g) ==
    /\ wpc[g] = "norm"
    /\ CtxFails(Owner(g), "words") \/ ~TextFits(wid[g])
    /\ Step(g, InsertPlace(g), wid[g], "wordless")
    /\ Fetching

\* The database stores the row.  Whether Add then returns nil, or an error because the
\* caller or the connection was lost after the statement was sent, the worker goes on.
AddComic(g) ==
    /\ wpc[g] = "add"
    /\ comics' = InsertRow(comics, wid[g], wrow[g])
    /\ Step(g, "recv", 0, NoRow)
    /\ UNCHANGED <<svcVars, last, bus, crashes, callVars, dpc, statVars, skipped>>

\* Nothing is stored, and the error is only logged.
AddComicFails(g) ==
    /\ wpc[g] \in {"add", "unsent"}
    /\ CtxFails(Owner(g), "db")
    /\ skipped' = [skipped EXCEPT ![Owner(g)] = @ \cup {wid[g]}]
    /\ Step(g, "recv", 0, NoRow)
    /\ UNCHANGED <<svcVars, comics, last, bus, crashes, callVars, dpc, statVars>>

-----------------------------------------------------------------------------
(***************************************************************************)
(* The Drop RPC.  It takes no notice of a running update.                  *)
(***************************************************************************)

EmptiesTable ==
    /\ comics' = EmptyTable
    /\ skipped' = [c \in UpdateCalls |->
                      skipped[c] \cup (toFetch[c] \cap StoredIDs(comics))]

Truncate(d) ==
    /\ dpc[d] = "idle"
    /\ EmptiesTable
    /\ dpc' = [dpc EXCEPT ![d] = "publish"]
    /\ UNCHANGED <<svcVars, last, bus, crashes, callVars, goVars, statVars>>

\* The error may reach the service after the table was truncated.
TruncateFails(d) ==
    /\ dpc[d] = "idle"
    /\ "db" \in Faults
    /\ dpc' = [dpc EXCEPT ![d] = "error"]
    /\ \/ UNCHANGED <<comics, skipped>>
       \/ EmptiesTable
    /\ UNCHANGED <<svcVars, last, bus, crashes, callVars, goVars, statVars>>

PublishDrop(d) ==
    /\ dpc[d] = "publish"
    /\ bus' = Append(bus, "drop")
    /\ dpc' = [dpc EXCEPT ![d] = "ok"]
    /\ UNCHANGED <<svcVars, comics, last, crashes, callVars, goVars, statVars,
                   skipped>>

\* Publish or Flush returns an error, the event sent or not; so does the RPC,
\* although the table is empty.
PublishDropFails(d) ==
    /\ dpc[d] = "publish"
    /\ "nats" \in Faults
    /\ bus' \in {bus, Append(bus, "drop")}
    /\ dpc' = [dpc EXCEPT ![d] = "error"]
    /\ UNCHANGED <<svcVars, comics, last, crashes, callVars, goVars, statVars,
                   skipped>>

-----------------------------------------------------------------------------
(***************************************************************************)
(* The Stats RPC reads the table first and XKCD's newest number second.    *)
(* Status only reads `status` under mx.                                    *)
(***************************************************************************)

CountRows(s) ==
    /\ sfetched' = [sfetched EXCEPT ![s] = Cardinality(StoredIDs(comics))]
    /\ UNCHANGED stotal

ReadTotal(s) ==
    /\ stotal' = [stotal EXCEPT ![s] = last]
    /\ UNCHANGED sfetched

StatsSwapped(s) ==
    \/ /\ spc[s] = "idle"
       /\ ReadTotal(s)
       /\ spc' = [spc EXCEPT ![s] = "last"]
    \/ /\ spc[s] = "last"
       /\ CountRows(s)
       /\ spc' = [spc EXCEPT ![s] = "ok"]

StatsReads(s) ==
    \/ /\ spc[s] = "idle"
       /\ CountRows(s)
       /\ spc' = [spc EXCEPT ![s] = "last"]
    \/ /\ spc[s] = "last"
       /\ ReadTotal(s)
       /\ spc' = [spc EXCEPT ![s] = "ok"]

Stats(s) ==
    /\ StatsReads(s)
    /\ UNCHANGED <<svcVars, comics, last, bus, crashes, callVars, goVars, dpc,
                   skipped>>

StatsFails(s) ==
    /\ \/ spc[s] = "idle" /\ "db" \in Faults
       \/ spc[s] = "last" /\ "xkcd" \in Faults
    /\ spc' = [spc EXCEPT ![s] = "error"]
    /\ UNCHANGED <<svcVars, comics, last, bus, crashes, callVars, goVars, dpc,
                   sfetched, stotal, skipped>>

\* The gRPC server's answer to Status.
StatusReply == IF status = "running" THEN "RUNNING" ELSE "IDLE"

-----------------------------------------------------------------------------
(***************************************************************************)
(* The environment.                                                        *)
(***************************************************************************)

\* The caller goes away, or the gateway in front of it shuts down.
Cancel(c) ==
    /\ InFlight(c)
    /\ ~cancelled[c]
    /\ cancelled' = [cancelled EXCEPT ![c] = TRUE]
    /\ UNCHANGED <<svcVars, comics, last, bus, crashes, upc, ureply, existing,
                   toFetch, jobs, goVars, dpc, statVars, skipped>>

NewComic ==
    /\ last < MaxID
    /\ last' = last + 1
    /\ UNCHANGED <<svcVars, comics, bus, crashes, callVars, goVars, dpc,
                   statVars, skipped>>

\* The process is killed and restarted: goroutines, latch and locals are gone,
\* the table and what was published stay.
Crash ==
    /\ crashes < MaxCrashes
    /\ crashes' = crashes + 1
    /\ updateed' = FALSE
    /\ status' = "unset"
    /\ wg' = 0
    /\ upc' = [c \in UpdateCalls |-> IF InFlight(c) THEN "returned" ELSE upc[c]]
    /\ ureply' = [c \in UpdateCalls |-> IF InFlight(c) THEN "lost" ELSE ureply[c]]
    /\ existing' = [c \in UpdateCalls |-> {}]
    /\ toFetch' = [c \in UpdateCalls |-> {}]
    /\ jobs' = [c \in UpdateCalls |-> {}]
    /\ wpc' = [g \in Goroutines |-> IF wpc[g] = "off" THEN "off" ELSE "done"]
    /\ wid' = [g \in Goroutines |-> 0]
    /\ wrow' = [g \in Goroutines |-> NoRow]
    /\ dpc' = [d \in DropCalls |-> IF dpc[d] = "publish" THEN "error" ELSE dpc[d]]
    /\ spc' = [s \in StatsCalls |-> IF spc[s] = "last" THEN "error" ELSE spc[s]]
    /\ UNCHANGED <<comics, last, bus, cancelled, sfetched, stotal, skipped>>

-----------------------------------------------------------------------------

UpdateStep(c) ==
    \/ Begin(c) \/ Reject(c)
    \/ ReadIDs(c) \/ ReadIDsFails(c)
    \/ ReadLastID(c) \/ ReadLastIDFails(c)
    \/ WaitDone(c)
    \/ PublishUpdated(c) \/ PublishUpdatedFails(c)
    \/ Finish(c)

WorkerStep(g) ==
    \/ Receive(g) \/ Exit(g)
    \/ GetComic(g) \/ GetComicFails(g)
    \/ Norm(g) \/ NormFails(g)
    \/ AddComic(g) \/ AddComicFails(g)

DropStep(d) ==
    \/ Truncate(d) \/ TruncateFails(d)
    \/ PublishDrop(d) \/ PublishDropFails(d)

StatsStep(s) == Stats(s) \/ StatsFails(s)

Next ==
    \/ \E c \in UpdateCalls : UpdateStep(c) \/ Cancel(c)
    \/ \E g \in Goroutines : WorkerStep(g)
    \/ \E d \in DropCalls : DropStep(d)
    \/ \E s \in StatsCalls : StatsStep(s)
    \/ NewComic
    \/ Crash

Spec == Init /\ [][Next]_vars

(***************************************************************************)
(* Goroutines are scheduled fairly and every call they make ends, with an  *)
(* answer or an error.  Nothing obliges a caller to issue an RPC or to     *)
(* cancel one, XKCD to publish a comic, or the process to crash.           *)
(***************************************************************************)
Fairness ==
    /\ \A c \in UpdateCalls : WF_vars(upc[c] # "idle" /\ UpdateStep(c))
    /\ \A g \in Goroutines : WF_vars(WorkerStep(g))

FairSpec == Spec /\ Fairness

-----------------------------------------------------------------------------
(***************************************************************************)
(* Properties.                                                             *)
(***************************************************************************)

\* At most one update is between taking the latch and its deferred release,
\* however RPCs, failures and crashes interleave; the latch and the reported
\* status say exactly whether there is one.
SingleFlight ==
    /\ \A c1, c2 \in UpdateCalls : InFlight(c1) /\ InFlight(c2) => c1 = c2
    /\ updateed <=> \E c \in UpdateCalls : InFlight(c)
    /\ StatusReply = "RUNNING" <=> updateed

\* When an update publishes its event or returns, all its workers have exited
\* and its job channel is empty: no comic is stored after the event that
\* announces it.
PublishAfterWorkers ==
    \A c \in UpdateCalls : upc[c] \in {"publish", "defer", "returned"} =>
        jobs[c] = {} /\ WorkersOf(c) \cap Live = {}

\* A comic an update has yet to store is in no row, in one place of the job
\* channel or one worker's hand: nothing is fetched twice, and the insert's ON
\* CONFLICT clause never discards a row.
FetchOnlyAbsent ==
    /\ \A c \in UpdateCalls : \A i \in jobs[c] : comics[i] = NoRow
    /\ \A g \in Holding :
        /\ comics[wid[g]] = NoRow
        /\ wid[g] \notin jobs[Owner(g)]
        /\ \A h \in Holding : wid[h] = wid[g] => h = g

\* A placeholder is stored only for a comic XKCD does not serve, and a comic
\* without words only for one the words service refuses.  Cancellation does not
\* disturb this, although it fails the calls whose errors lead to such rows.
RowsAreGenuine ==
    \A i \in Ids :
        /\ comics[i] = "missing" => i \in Missing
        /\ comics[i] = "wordless" => i \in TooLong

\* Each comic an update set out to fetch is queued, in a worker's hand, stored,
\* or was lost to a failed insert or, once stored, to a concurrent Drop: no error path
\* forgets one, and a Drop costs the update nothing it has not stored yet.
NothingForgotten ==
    \A c \in UpdateCalls : \A i \in toFetch[c] :
        \/ i \in jobs[c] \cup skipped[c]
        \/ comics[i] # NoRow
        \/ \E g \in Holding \cap WorkersOf(c) : wid[g] = i

\* Stats never reports more comics fetched than XKCD has, although it reads the
\* two numbers at different times while comics are published and stored.
StatsWithinTotal == \A s \in StatsCalls : spc[s] = "ok" => sfetched[s] <= stotal[s]

\* What an update has still to go through: stages of its own, calls for its comics,
\* workers that have to exit.
StagesLeft(c) ==
    CASE upc[c] = "ids" -> {"ids", "last", "wait", "publish", "defer"}
      [] upc[c] = "last" -> {"last", "wait", "publish", "defer"}
      [] upc[c] = "wait" -> {"wait", "publish", "defer"}
      [] upc[c] = "publish" -> {"publish", "defer"}
      [] upc[c] = "defer" -> {"defer"}
      [] upc[c] \in {"idle", "returned"} -> {}

PlacesOfComic == {"queue", "get", "norm", "add"}
PlacesFrom(place) ==
    CASE place = "get" -> {"get", "norm", "add"}
      [] place = "norm" -> {"norm", "add"}
      [] place \in {"add", "unsent"} -> {"add"}

CallsLeft(c) ==
    IF upc[c] \in {"ids", "last"} THEN Ids \X PlacesOfComic
    ELSE (jobs[c] \X PlacesOfComic)
         \cup UNION {{wid[g]} \X PlacesFrom(wpc[g]) : g \in Holding \cap WorkersOf(c)}

WorkersLeft(c) ==
    IF upc[c] \in {"ids", "last"} THEN WorkersOf(c) ELSE Live \cap WorkersOf(c)

Left(c) == <<StagesLeft(c), CallsLeft(c), WorkersLeft(c)>>

\* Nothing an update went through comes back: every step of it or of its workers
\* leaves it less to go through, whatever fails, and no step of anybody else, a drop
\* or a new comic among them, leaves it more.
UpdateAdvances ==
    [][\A c \in UpdateCalls : InFlight(c) =>
          /\ \A n \in 1 .. 3 : Left(c)'[n] \subseteq Left(c)[n]
          /\ upc'[c] # upc[c] \/ (\E g \in WorkersOf(c) : wpc'[g] # wpc[g])
                => Left(c)' # Left(c)]_vars

\* Every update that takes the latch returns, and the latch is free again.
EveryUpdateReturns ==
    \A c \in UpdateCalls : upc[c] = "ids" ~> upc[c] = "returned"

\* The latch does not stay taken: some update can always begin later.
LatchReleased == []<>(~updateed)

\* The service is a writer that announces what it writes.
Writer == INSTANCE ComicsWriter WITH
    MayLose <- (Faults \cap {"db", "nats"} # {} \/ MaxCrashes > 0),
    session <- \E c \in UpdateCalls :
                   upc[c] \in {"wait", "publish"} /\ toFetch[c] # {},
    dropsOwed <- {d \in DropCalls : dpc[d] = "publish"}

ImplementsWriter == Writer!WriterSpec

\* What the gateway's client makes of an answer; a dead service is an error to it.
Told(answer) ==
    CASE answer = "ok" -> "ok"
      [] answer = "already" -> "exists"
      [] answer \in {"error", "lost"} -> "error"
      [] answer = "none" -> "none"

\* What c's caller has heard; one that went away has an error of its own.
Heard(c) ==
    IF cancelled[c] THEN "error"
    ELSE IF upc[c] = "returned" THEN Told(ureply[c]) ELSE "none"

\* To its callers the service is a latch: it runs one update at a time, refuses a call
\* only while another update runs, whether or not anybody still waits for that one, and
\* is free again after every end of an update, an error's and a crash's included.
Latch == INSTANCE UpdateLatch WITH
    Calls <- UpdateCalls,
    running <- {c \in UpdateCalls : InFlight(c) /\ ~cancelled[c]},
    orphaned <- \E c \in UpdateCalls : InFlight(c) /\ cancelled[c],
    reply <- [c \in UpdateCalls |-> Heard(c)]

ImplementsLatch == Latch!LatchSpec
=============================================================================
