--------------------------- MODULE UpdateDataProofs ---------------------------
(***************************************************************************)
(* Theorems about what UpdateService stores: no comic is fetched twice or  *)
(* over an existing row, none is forgotten, Stats is consistent, rows are  *)
(* genuine, and the service implements ComicsWriter.                       *)
(*                                                                         *)
(* They rest on IInv of UpdateServiceProofs and on DataInv, which says     *)
(* where the comics of an update are: in its job channel, in the hand of   *)
(* one of its workers, or in the table.                                    *)
(***************************************************************************)
EXTENDS UpdateServiceProofs

-----------------------------------------------------------------------------
(***************************************************************************)
(* The inductive invariant.                                                *)
(***************************************************************************)

\* What an update read of the table still covers it when it computes its jobs.
SnapshotInv ==
    \A c \in UpdateCalls : upc[c] = "last" => StoredIDs(comics) \subseteq existing[c]

\* Jobs and comics in hand are among those the update set out to fetch; what is
\* inserted is a row; an event is owed only for something to fetch.
PurposeInv ==
    /\ \A c \in UpdateCalls :
        /\ jobs[c] \subseteq toFetch[c]
        /\ upc[c] = "publish" => toFetch[c] # {}
    /\ \A g \in Goroutines :
        /\ g \in Holding => wid[g] \in toFetch[Owner(g)]
        /\ wpc[g] = "add" => wrow[g] \in Row

DataInv == SnapshotInv /\ PurposeInv /\ FetchOnlyAbsent

-----------------------------------------------------------------------------

\* All live workers belong to the same update.
LEMMA OneOwner ==
    ASSUME IInv, NEW g \in Goroutines, NEW h \in Goroutines, g \in Live, h \in Live
    PROVE  Owner(g) = Owner(h)
BY OwnerOfGoroutine DEF IInv, LatchInv, WorkerInv, InFlight

LEMMA HoldingLive == Holding \subseteq Live /\ Holding \subseteq Goroutines
BY DEF Holding, Live

\* A busy worker's update is the one in flight, and the only one with jobs.
LEMMA BusyOwner ==
    ASSUME IInv, NEW g \in Live
    PROVE  /\ Owner(g) \in UpdateCalls
           /\ upc[Owner(g)] = "wait"
           /\ \A c \in UpdateCalls : c # Owner(g) => ~InFlight(c) /\ jobs[c] = {}
<1>1. g \in Goroutines /\ Owner(g) \in UpdateCalls /\ upc[Owner(g)] = "wait"
  BY OwnerOfGoroutine DEF Live, IInv, WorkerInv
<1> QED BY <1>1 DEF IInv, LatchInv, JobsInv, InFlight

dataVars == <<comics, upc, existing, toFetch, jobs, wpc, wid, wrow>>

LEMMA DataUnchanged ==
    ASSUME DataInv, UNCHANGED dataVars
    PROVE  DataInv'
BY DEF DataInv, SnapshotInv, PurposeInv, FetchOnlyAbsent, dataVars, StoredIDs,
       Holding

LEMMA DataInit == Init => DataInv
BY OwnerOfGoroutine DEF Init, DataInv, SnapshotInv, PurposeInv, FetchOnlyAbsent,
   Holding

\* Emptying the table makes every comic absent.
LEMMA EmptyTableData ==
    ASSUME IInv, DataInv, EmptiesTable,
           UNCHANGED <<upc, existing, toFetch, jobs, wpc, wid, wrow>>
    PROVE  DataInv'
<1>1. \A i \in Ids : comics'[i] = NoRow
  BY DEF EmptiesTable, EmptyTable
<1>2. StoredIDs(comics)' = {}
  BY <1>1 DEF StoredIDs
<1>3. \A c \in UpdateCalls : jobs[c] \subseteq Ids
  BY DEF IInv, TypeOK
<1>4. \A g \in Holding : wid[g] \in Ids
  BY HoldingLive DEF IInv, WorkerInv
<1>5. Holding' = Holding
  BY DEF Holding
<1> QED BY <1>1, <1>2, <1>3, <1>4, <1>5
        DEF DataInv, SnapshotInv, PurposeInv, FetchOnlyAbsent

LEMMA UpdateStepData ==
    ASSUME IInv, DataInv, NEW c \in UpdateCalls, UpdateStep(c)
    PROVE  DataInv'
<1> USE DEF svcVars, goVars
<1>1. CASE ReadLastID(c)
  <2>1. Live = {}
    BY <1>1, NobodyLive DEF ReadLastID, InFlight
  <2>2. \A g \in Goroutines : wpc'[g] = IF Owner(g) = c THEN "recv" ELSE wpc[g]
    BY <1>1 DEF ReadLastID
  <2>3. Holding' = {}
    BY <2>1, <2>2 DEF Holding, Live
  <2>4. /\ UNCHANGED <<comics, existing, wid, wrow>>
        /\ upc' = [upc EXCEPT ![c] = "wait"]
        /\ toFetch' = [toFetch EXCEPT ![c] = ToFetch(existing[c], last)]
        /\ jobs' = [jobs EXCEPT ![c] = ToFetch(existing[c], last)]
    BY <1>1 DEF ReadLastID
  <2>5. \A i \in ToFetch(existing[c], last) : i \in Ids /\ i \notin StoredIDs(comics)
    <3>1. StoredIDs(comics) \subseteq existing[c]
      BY <1>1 DEF ReadLastID, DataInv, SnapshotInv
    <3>2. ToFetch(existing[c], last) \subseteq Ids
      BY ToFetchType DEF IInv, TypeOK
    <3> QED BY <3>1, <3>2 DEF ToFetch
  <2>6. SnapshotInv'
    BY <2>4 DEF DataInv, SnapshotInv, StoredIDs, IInv, TypeOK
  <2>7. PurposeInv'
    <3>1. \A x \in UpdateCalls : jobs'[x] \subseteq toFetch'[x]
      BY <2>4 DEF DataInv, PurposeInv, IInv, TypeOK
    <3>2. \A x \in UpdateCalls : upc'[x] = "publish" => toFetch'[x] # {}
      BY <2>4 DEF DataInv, PurposeInv, IInv, TypeOK
    <3>3. \A g \in Goroutines : wpc'[g] # "add"
      BY <2>1, <2>2 DEF Live
    <3> QED BY <2>3, <3>1, <3>2, <3>3 DEF PurposeInv
  <2>8. FetchOnlyAbsent'
    <3>1. \A i \in jobs'[c] : comics[i] = NoRow
      BY <2>4, <2>5 DEF StoredIDs, IInv, TypeOK
    <3> QED BY <2>3, <2>4, <3>1 DEF DataInv, FetchOnlyAbsent, IInv, TypeOK
  <2> QED BY <2>6, <2>7, <2>8 DEF DataInv
<1>2. ASSUME UNCHANGED <<comics, jobs, wpc, wid, wrow>>,
             \A x \in UpdateCalls : upc'[x] = "last" =>
                 (StoredIDs(comics) \subseteq existing'[x]),
             \A x \in UpdateCalls : upc'[x] = "publish" => toFetch'[x] # {},
             \A x \in UpdateCalls : jobs[x] # {} \/ upc[x] = "wait" =>
                 toFetch'[x] = toFetch[x]
      PROVE  DataInv'
  <2>1. Holding' = Holding /\ StoredIDs(comics)' = StoredIDs(comics)
    BY <1>2 DEF Holding, StoredIDs
  <2>2. SnapshotInv'
    BY <1>2, <2>1 DEF SnapshotInv
  <2>3. \A g \in Holding : upc[Owner(g)] = "wait" /\ Owner(g) \in UpdateCalls
    BY HoldingLive, BusyOwner
  <2>4. PurposeInv'
    BY <1>2, <2>1, <2>3 DEF DataInv, PurposeInv
  <2>5. FetchOnlyAbsent'
    BY <1>2, <2>1 DEF DataInv, FetchOnlyAbsent
  <2> QED BY <2>2, <2>4, <2>5 DEF DataInv
<1>3. CASE ReadIDs(c)
  BY <1>2, <1>3 DEF ReadIDs, DataInv, SnapshotInv, PurposeInv, IInv, TypeOK
<1>4. CASE Begin(c)
  BY <1>2, <1>4 DEF Begin, DataInv, SnapshotInv, PurposeInv, IInv, TypeOK
<1>5. CASE Reject(c)
  BY <1>2, <1>5 DEF Reject, DataInv, SnapshotInv, PurposeInv, IInv, TypeOK
<1>6. CASE ReadIDsFails(c) \/ ReadLastIDFails(c)
  BY <1>2, <1>6 DEF ReadIDsFails, ReadLastIDFails, Abort, DataInv, SnapshotInv,
                    PurposeInv, IInv, TypeOK
<1>7. CASE WaitDone(c)
  BY <1>2, <1>7 DEF WaitDone, NeedsEvent, DataInv, SnapshotInv, PurposeInv, IInv,
                    TypeOK
<1>8. CASE PublishUpdated(c) \/ PublishUpdatedFails(c)
  BY <1>2, <1>8 DEF PublishUpdated, PublishUpdatedFails, DataInv, SnapshotInv,
                    PurposeInv, IInv, TypeOK
<1>9. CASE Finish(c)
  BY <1>2, <1>9 DEF Finish, DataInv, SnapshotInv, PurposeInv, IInv, TypeOK, JobsInv
<1> QED BY <1>1, <1>3, <1>4, <1>5, <1>6, <1>7, <1>8, <1>9 DEF UpdateStep

LEMMA ReceiveData ==
    ASSUME IInv, DataInv, NEW g \in Goroutines, Receive(g)
    PROVE  DataInv'
<1> DEFINE c == Owner(g)
<1> USE DEF svcVars, Step
<1>1. g \in Live /\ c \in UpdateCalls
  BY OwnerOfGoroutine DEF Receive, Live
<1>2. PICK i \in jobs[c] : Step(g, "get", i, NoRow) /\ jobs' = [jobs EXCEPT ![c] = @ \ {i}]
  BY DEF Receive
<1>3. UNCHANGED <<comics, upc, existing, toFetch>>
  BY DEF Receive
<1>4. /\ wpc' = [wpc EXCEPT ![g] = "get"]
      /\ wid' = [wid EXCEPT ![g] = i]
      /\ \A h \in Goroutines \ {g} : wrow'[h] = wrow[h]
  BY <1>2 DEF IInv, TypeOK
<1>5. Holding' = Holding \cup {g} /\ g \notin Holding
  BY <1>4 DEF Holding, Receive, IInv, TypeOK
<1>6. wid'[g] = i /\ \A h \in Goroutines \ {g} : wid'[h] = wid[h] /\ wpc'[h] = wpc[h]
  BY <1>4 DEF IInv, TypeOK
<1>7. jobs'[c] = jobs[c] \ {i} /\ \A x \in UpdateCalls \ {c} : jobs'[x] = jobs[x]
  BY <1>1, <1>2 DEF IInv, TypeOK
<1>8. SnapshotInv'
  BY <1>3 DEF DataInv, SnapshotInv, StoredIDs
<1>9. PurposeInv'
  <2>1. \A x \in UpdateCalls : jobs'[x] \subseteq toFetch'[x]
    BY <1>3, <1>7 DEF DataInv, PurposeInv
  <2>2. \A h \in Goroutines : h \in Holding' => wid'[h] \in toFetch'[Owner(h)]
    BY <1>1, <1>3, <1>5, <1>6 DEF DataInv, PurposeInv
  <2>3. \A h \in Goroutines : wpc'[h] = "add" => wrow'[h] \in Row
    BY <1>4 DEF DataInv, PurposeInv, IInv, TypeOK
  <2> QED BY <1>3, <2>1, <2>2, <2>3 DEF DataInv, PurposeInv
<1>10. FetchOnlyAbsent'
  <2>1. \A h \in Holding : Owner(h) = c /\ wid[h] # i /\ h # g /\ h \in Goroutines
    BY <1>1, <1>5, HoldingLive, OneOwner DEF DataInv, FetchOnlyAbsent
  <2>2. comics[i] = NoRow
    BY <1>1 DEF DataInv, FetchOnlyAbsent
  <2>3. \A x \in UpdateCalls : \A j \in jobs'[x] : comics'[j] = NoRow
    BY <1>3, <1>7 DEF DataInv, FetchOnlyAbsent
  <2>4. \A h \in Holding' : /\ comics'[wid'[h]] = NoRow
                            /\ wid'[h] \notin jobs'[Owner(h)]
    BY <1>1, <1>3, <1>5, <1>6, <1>7, <2>1, <2>2 DEF DataInv, FetchOnlyAbsent
  <2>5. \A h1, h2 \in Holding' : wid'[h1] = wid'[h2] => h1 = h2
    BY <1>5, <1>6, <2>1 DEF DataInv, FetchOnlyAbsent
  <2> QED BY <2>3, <2>4, <2>5 DEF FetchOnlyAbsent
<1> QED BY <1>8, <1>9, <1>10 DEF DataInv

\* A fetch or a normalisation changes what the worker does next, not its comic.
LEMMA FetchingData ==
    ASSUME IInv, DataInv, NEW g \in Goroutines,
           GetComic(g) \/ GetComicFails(g) \/ Norm(g) \/ NormFails(g)
    PROVE  DataInv'
<1> USE DEF svcVars, callVars, Step, Fetching
<1>1. /\ UNCHANGED <<comics, upc, existing, toFetch, jobs>>
      /\ g \in Holding
      /\ \A h \in Goroutines : wid'[h] = wid[h]
      /\ \A h \in Goroutines \ {g} : wpc'[h] = wpc[h] /\ wrow'[h] = wrow[h]
      /\ \/ wpc'[g] = "norm"
         \/ wpc'[g] \in {"add", "unsent"} /\ wrow'[g] \in Row
  BY DEF GetComic, InsertPlace, GetComicFails, Norm, NormFails, Holding, Row, IInv, TypeOK
<1>2. Holding' = Holding
  BY <1>1 DEF Holding
<1>3. SnapshotInv'
  BY <1>1 DEF DataInv, SnapshotInv, StoredIDs
<1>4. PurposeInv'
  BY <1>1, <1>2 DEF DataInv, PurposeInv
<1>5. FetchOnlyAbsent'
  BY <1>1, <1>2, HoldingLive DEF DataInv, FetchOnlyAbsent
<1> QED BY <1>3, <1>4, <1>5 DEF DataInv

\* A worker that lets go of its comic, stored or not, or exits.
LEMMA ReleaseData ==
    ASSUME IInv, DataInv, NEW g \in Goroutines,
           AddComic(g) \/ AddComicFails(g) \/ Exit(g)
    PROVE  DataInv'
<1> USE DEF svcVars, callVars, Step
<1>1. /\ UNCHANGED <<upc, existing, toFetch, jobs>>
      /\ g \in Live /\ wpc'[g] \in {"recv", "done"}
      /\ \A h \in Goroutines \ {g} :
            wpc'[h] = wpc[h] /\ wid'[h] = wid[h] /\ wrow'[h] = wrow[h]
  BY DEF AddComic, AddComicFails, Exit, Live, IInv, TypeOK
<1>2. \A i \in Ids : comics'[i] = comics[i] \/ (g \in Holding /\ i = wid[g])
  <2>1. CASE AddComic(g)
    <3>1. g \in Holding /\ comics' = InsertRow(comics, wid[g], wrow[g])
      BY <2>1 DEF AddComic, Holding
    <3>2. comics \in [Ids -> Row \cup {NoRow}]
      BY DEF IInv, TypeOK, Table
    <3> QED BY <3>1, <3>2 DEF InsertRow
  <2>2. CASE AddComicFails(g) \/ Exit(g)
    BY <2>2 DEF AddComicFails, Exit
  <2> QED BY <2>1, <2>2
<1>3. Holding' = Holding \ {g}
  BY <1>1 DEF Holding
<1>4. SnapshotInv'
  <2>1. \A c \in UpdateCalls : upc[c] # "last"
    BY <1>1, BusyOwner DEF InFlight
  <2> QED BY <1>1, <2>1 DEF SnapshotInv
<1>5. PurposeInv'
  BY <1>1, <1>3 DEF DataInv, PurposeInv
<1>6. FetchOnlyAbsent'
  <2>1. \A c \in UpdateCalls : \A i \in jobs[c] : comics'[i] = NoRow
    <3>1. SUFFICES ASSUME NEW c \in UpdateCalls, NEW i \in jobs[c]
                   PROVE  comics'[i] = NoRow
      OBVIOUS
    <3>2. i \in Ids /\ comics[i] = NoRow
      BY DEF IInv, TypeOK, DataInv, FetchOnlyAbsent
    <3>3. c = Owner(g)
      BY <1>1, BusyOwner
    <3>4. g \in Holding => i # wid[g]
      BY <3>3 DEF DataInv, FetchOnlyAbsent
    <3> QED BY <1>2, <3>2, <3>4
  <2>2. \A h \in Holding \ {g} :
            comics'[wid[h]] = NoRow /\ wid[h] \notin jobs[Owner(h)]
    <3>1. \A h \in Holding : wid[h] \in Ids
      BY HoldingLive DEF IInv, WorkerInv
    <3> QED BY <1>2, <3>1 DEF DataInv, FetchOnlyAbsent
  <2>3. \A h \in Holding' : h \in Goroutines \ {g}
    BY <1>3, HoldingLive
  <2> QED BY <1>1, <1>3, <2>1, <2>2, <2>3 DEF DataInv, FetchOnlyAbsent
<1> QED BY <1>4, <1>5, <1>6 DEF DataInv

LEMMA CrashData ==
    ASSUME IInv, Crash
    PROVE  DataInv'
<1>1. /\ \A c \in UpdateCalls : upc'[c] \in {"idle", "returned"} /\ jobs'[c] = {}
      /\ \A g \in Goroutines : wpc'[g] \in {"off", "done"}
  BY DEF Crash, IInv, TypeOK, InFlight
<1>2. Holding' = {}
  BY <1>1 DEF Holding
<1> QED BY <1>1, <1>2 DEF DataInv, SnapshotInv, PurposeInv, FetchOnlyAbsent

LEMMA DataStep == IInv /\ DataInv /\ [Next]_vars => DataInv'
<1> SUFFICES ASSUME IInv, DataInv, [Next]_vars PROVE DataInv'
  OBVIOUS
<1> USE DEF svcVars, callVars, goVars, statVars
<1>1. ASSUME NEW c \in UpdateCalls, UpdateStep(c) PROVE DataInv'
  BY <1>1, UpdateStepData
<1>2. ASSUME NEW c \in UpdateCalls, Cancel(c) PROVE DataInv'
  BY <1>2, DataUnchanged DEF Cancel, dataVars
<1>3. ASSUME NEW g \in Goroutines, WorkerStep(g) PROVE DataInv'
  BY <1>3, ReceiveData, FetchingData, ReleaseData DEF WorkerStep
<1>4. ASSUME NEW d \in DropCalls, DropStep(d) PROVE DataInv'
  <2>1. CASE Truncate(d)
    BY <2>1, EmptyTableData DEF Truncate
  <2>2. CASE TruncateFails(d)
    BY <2>2, EmptyTableData, DataUnchanged DEF TruncateFails, dataVars
  <2>3. CASE PublishDrop(d) \/ PublishDropFails(d)
    BY <2>3, DataUnchanged DEF PublishDrop, PublishDropFails, dataVars
  <2> QED BY <1>4, <2>1, <2>2, <2>3 DEF DropStep
<1>5. ASSUME NEW s \in StatsCalls, StatsStep(s) PROVE DataInv'
  BY <1>5, DataUnchanged DEF StatsStep, Stats, StatsFails, dataVars
<1>6. ASSUME NewComic PROVE DataInv'
  BY <1>6, DataUnchanged DEF NewComic, dataVars
<1>7. ASSUME Crash PROVE DataInv'
  BY <1>7, CrashData
<1>8. ASSUME UNCHANGED vars PROVE DataInv'
  BY <1>8, DataUnchanged DEF vars, dataVars
<1> QED BY <1>1, <1>2, <1>3, <1>4, <1>5, <1>6, <1>7, <1>8 DEF Next

THEOREM DataInvariant == Spec => [](IInv /\ DataInv)
BY InvInit, InvStep, DataInit, DataStep, PTL DEF Spec

\* No comic is fetched while the table has it or another worker has it, for any
\* number of workers and in spite of concurrent drops.
THEOREM NothingFetchedTwice == Spec => []FetchOnlyAbsent
<1>1. DataInv => FetchOnlyAbsent
  BY DEF DataInv
<1> QED BY <1>1, DataInvariant, PTL

-----------------------------------------------------------------------------
(***************************************************************************)
(* Stats: nothing above XKCD's newest number is ever queued or stored.     *)
(***************************************************************************)

RangeInv ==
    /\ StoredIDs(comics) \subseteq 1 .. last
    /\ \A c \in UpdateCalls : jobs[c] \subseteq 1 .. last
    /\ \A g \in Holding : wid[g] \in 1 .. last
    /\ \A s \in StatsCalls : spc[s] = "last" => sfetched[s] <= last
    /\ StatsWithinTotal

rangeVars == <<comics, last, jobs, wpc, wid, statVars>>

LEMMA RangeUnchanged ==
    ASSUME RangeInv, UNCHANGED rangeVars
    PROVE  RangeInv'
BY DEF RangeInv, rangeVars, statVars, StoredIDs, Holding, StatsWithinTotal

LEMMA RangeStep == IInv /\ RangeInv /\ [Next]_vars => RangeInv'
<1> SUFFICES ASSUME IInv, RangeInv, [Next]_vars PROVE RangeInv'
  OBVIOUS
<1> USE DEF svcVars, callVars, goVars, statVars
<1>1. last \in Nat
  BY DEF IInv, TypeOK
<1>2. ASSUME NEW c \in UpdateCalls, UpdateStep(c), ~ReadLastID(c) PROVE RangeInv'
  BY <1>2, RangeUnchanged
     DEF UpdateStep, Begin, Reject, ReadIDs, ReadIDsFails, ReadLastIDFails, Abort,
         WaitDone, PublishUpdated, PublishUpdatedFails, Finish, rangeVars
<1>3. ASSUME NEW c \in UpdateCalls, ReadLastID(c) PROVE RangeInv'
  <2>1. UNCHANGED <<comics, last, wid, statVars>>
    BY <1>3 DEF ReadLastID
  <2>2. Holding' = {}
    <3>1. Live = {}
      BY <1>3, NobodyLive DEF ReadLastID, InFlight
    <3> QED BY <1>3, <3>1 DEF ReadLastID, Holding, Live
  <2>3. \A x \in UpdateCalls : jobs'[x] \subseteq 1 .. last
    BY <1>3 DEF ReadLastID, ToFetch, RangeInv, IInv, TypeOK
  <2> QED BY <2>1, <2>2, <2>3 DEF RangeInv, StoredIDs, StatsWithinTotal
<1>4. ASSUME NEW g \in Goroutines, WorkerStep(g) PROVE RangeInv'
  <2> USE DEF Step, Fetching
  <2>1. UNCHANGED <<last, statVars>> /\ Owner(g) \in UpdateCalls
    BY <1>4, OwnerOfGoroutine
       DEF WorkerStep, Receive, Exit, GetComic, GetComicFails, Norm, NormFails,
           AddComic, AddComicFails
  <2>2. \A c \in UpdateCalls : jobs'[c] \subseteq jobs[c]
    <3>1. CASE Receive(g)
      BY <2>1, <3>1 DEF Receive, IInv, TypeOK
    <3>2. CASE ~Receive(g)
      BY <1>4, <3>2
         DEF WorkerStep, Exit, GetComic, GetComicFails, Norm, NormFails, AddComic,
             AddComicFails
    <3> QED BY <3>1, <3>2
  <2>3. \A h \in Holding' : wid'[h] \in 1 .. last
    <3>1. CASE Receive(g)
      BY <2>1, <3>1 DEF Receive, Holding, RangeInv, IInv, TypeOK
    <3>2. CASE AddComic(g) \/ AddComicFails(g) \/ Exit(g)
      BY <3>2 DEF AddComic, AddComicFails, Exit, Holding, RangeInv, IInv, TypeOK
    <3>3. CASE GetComic(g) \/ GetComicFails(g) \/ Norm(g) \/ NormFails(g)
      BY <3>3 DEF GetComic, GetComicFails, Norm, NormFails, Holding, RangeInv,
                  IInv, TypeOK
    <3> QED BY <1>4, <3>1, <3>2, <3>3 DEF WorkerStep
  <2>4. StoredIDs(comics)' \subseteq 1 .. last
    <3>1. CASE AddComic(g)
      <4>1. wid[g] \in 1 .. last /\ comics' = InsertRow(comics, wid[g], wrow[g])
        BY <3>1 DEF AddComic, Holding, RangeInv
      <4>2. comics \in [Ids -> Row \cup {NoRow}]
        BY DEF IInv, TypeOK, Table
      <4>3. \A i \in Ids : comics'[i] = comics[i] \/ i = wid[g]
        BY <4>1, <4>2 DEF InsertRow
      <4> QED BY <4>1, <4>3 DEF StoredIDs, RangeInv
    <3>2. CASE ~AddComic(g)
      <4>1. UNCHANGED comics
        BY <1>4, <3>2
           DEF WorkerStep, Receive, Exit, GetComic, GetComicFails, Norm,
               NormFails, AddComicFails
      <4> QED BY <4>1 DEF StoredIDs, RangeInv
    <3> QED BY <3>1, <3>2
  <2> QED BY <2>1, <2>2, <2>3, <2>4 DEF RangeInv, StatsWithinTotal
<1>5. ASSUME NEW d \in DropCalls, DropStep(d) PROVE RangeInv'
  <2>1. UNCHANGED <<last, jobs, wpc, wid, statVars>>
    BY <1>5 DEF DropStep, Truncate, TruncateFails, PublishDrop, PublishDropFails
  <2>2. comics' = comics \/ comics' = EmptyTable
    BY <1>5 DEF DropStep, Truncate, TruncateFails, PublishDrop, PublishDropFails,
                EmptiesTable
  <2>3. StoredIDs(comics)' \subseteq 1 .. last
    BY <2>2 DEF StoredIDs, EmptyTable, RangeInv
  <2> QED BY <2>1, <2>3 DEF RangeInv, Holding, StatsWithinTotal
<1>6. ASSUME NEW s \in StatsCalls, StatsStep(s) PROVE RangeInv'
  <2>1. UNCHANGED <<comics, last, jobs, wpc, wid>>
    BY <1>6 DEF StatsStep, Stats, StatsFails
  <2>2. Cardinality(StoredIDs(comics)) <= last
    <3>1. IsFiniteSet(1 .. last) /\ Cardinality(1 .. last) = last
      BY <1>1, FS_Interval
    <3>2. StoredIDs(comics) \subseteq 1 .. last
      BY DEF RangeInv
    <3> QED BY <3>1, <3>2, FS_Subset
  <2>3. \A r \in StatsCalls : spc'[r] = "last" => sfetched'[r] <= last
    BY <1>6, <2>2 DEF StatsStep, Stats, StatsFails, StatsReads, CountRows,
                      ReadTotal, RangeInv, IInv, TypeOK
  <2>4. StatsWithinTotal'
    BY <1>6, <2>1 DEF StatsStep, Stats, StatsFails, StatsReads, CountRows, ReadTotal,
               RangeInv, StatsWithinTotal, IInv, TypeOK
  <2> QED BY <2>1, <2>3, <2>4 DEF RangeInv, StoredIDs, Holding
<1>7. ASSUME NewComic PROVE RangeInv'
  <2>1. last' = last + 1 /\ UNCHANGED <<comics, jobs, wpc, wid, statVars>>
    BY <1>7 DEF NewComic
  <2>2. 1 .. last \subseteq 1 .. last'
    BY <1>1, <2>1
  <2>3. \A s \in StatsCalls : spc[s] = "last" => sfetched[s] <= last'
    BY <1>1, <2>1 DEF RangeInv, IInv, TypeOK
  <2> QED BY <2>1, <2>2, <2>3 DEF RangeInv, StoredIDs, Holding, StatsWithinTotal
<1>8. ASSUME Crash PROVE RangeInv'
  <2>1. /\ UNCHANGED <<comics, last, sfetched, stotal>>
        /\ \A c \in UpdateCalls : jobs'[c] = {}
        /\ \A g \in Goroutines : wpc'[g] \in {"off", "done"}
        /\ \A s \in StatsCalls : spc'[s] # "last" /\ (spc'[s] = "ok" => spc[s] = "ok")
    BY <1>8 DEF Crash, IInv, TypeOK
  <2> QED BY <2>1 DEF RangeInv, StoredIDs, Holding, StatsWithinTotal
<1>9. ASSUME UNCHANGED vars \/ \E c \in UpdateCalls : Cancel(c) PROVE RangeInv'
  BY <1>9, RangeUnchanged DEF vars, Cancel, rangeVars
<1> QED BY <1>2, <1>3, <1>4, <1>5, <1>6, <1>7, <1>8, <1>9 DEF Next

LEMMA RangeInit == Init => RangeInv
BY DEF Init, RangeInv, StoredIDs, EmptyTable, Holding, StatsWithinTotal

\* Stats never reports more fetched than there is, although its two readings are
\* not atomic.
THEOREM StatsConsistent == Spec => []StatsWithinTotal
<1>1. RangeInv => StatsWithinTotal
  BY DEF RangeInv
<1> QED BY <1>1, InvInit, InvStep, RangeInit, RangeStep, PTL DEF Spec

-----------------------------------------------------------------------------
(***************************************************************************)
(* NothingForgotten: a comic leaves the channel only into a worker's hand, *)
(* and a hand only into the table or among the skipped ones.               *)
(***************************************************************************)

\* What is missing from the job channel and the table, and was not skipped, is in
\* somebody's hand.
InHand(c, i) == \E g \in Holding \cap WorkersOf(c) : wid[g] = i

forgetVars == <<comics, toFetch, jobs, wpc, wid, skipped>>

LEMMA ForgottenUnchanged ==
    ASSUME NothingForgotten, UNCHANGED forgetVars
    PROVE  NothingForgotten'
BY DEF NothingForgotten, forgetVars, Holding

LEMMA WorkerForgetsNothing ==
    ASSUME IInv, DataInv, NothingForgotten, NEW g \in Goroutines, WorkerStep(g)
    PROVE  NothingForgotten'
<1> SUFFICES ASSUME NEW c \in UpdateCalls, NEW i \in toFetch[c],
                    i \notin jobs'[c] \cup skipped'[c], comics'[i] = NoRow
             PROVE  InHand(c, i)'
  <2>1. UNCHANGED toFetch
    BY DEF WorkerStep, Receive, Exit, GetComic, GetComicFails, Norm, NormFails,
           AddComic, AddComicFails, Fetching, callVars
  <2> QED BY <2>1 DEF NothingForgotten, InHand
<1> USE DEF svcVars, callVars, Step, Fetching
<1>0. i \in Ids /\ g \in WorkersOf(Owner(g)) /\ Owner(g) \in UpdateCalls
  BY OwnerOfGoroutine DEF IInv, TypeOK
<1>1. \A h \in WorkersOf(c) : h \in Goroutines /\ Owner(h) = c
  BY GoroutinesFinite DEF WorkersOf, Owner
<1>2. i \notin skipped[c]
  <2>1. CASE AddComicFails(g)
    BY <1>0, <2>1 DEF AddComicFails, IInv, TypeOK
  <2>2. CASE ~AddComicFails(g)
    BY <2>2 DEF WorkerStep, Receive, Exit, GetComic, GetComicFails, Norm, NormFails,
                AddComic
  <2> QED BY <2>1, <2>2
<1>3. comics[i] = NoRow
  <2>1. CASE AddComic(g)
    <3>1. comics \in [Ids -> Row \cup {NoRow}] /\ NoRow \notin Row
      BY DEF IInv, TypeOK, Table, NoRow, Row
    <3> QED BY <1>0, <2>1, <3>1 DEF AddComic, InsertRow
  <2>2. CASE ~AddComic(g)
    BY <2>2 DEF WorkerStep, Receive, Exit, GetComic, GetComicFails, Norm, NormFails,
                AddComicFails
  <2> QED BY <2>1, <2>2
<1>4. CASE i \in jobs[c]
  <2>1. Receive(g) /\ Owner(g) = c
    BY <1>0, <1>4 DEF WorkerStep, Receive, Exit, GetComic, GetComicFails, Norm,
                      NormFails, AddComic, AddComicFails, IInv, TypeOK
  <2>2. wpc'[g] = "get" /\ wid'[g] = i
    BY <1>4, <2>1 DEF Receive, IInv, TypeOK
  <2> QED BY <1>0, <2>1, <2>2 DEF InHand, Holding
<1>5. CASE i \notin jobs[c]
  <2>1. PICK h \in Holding \cap WorkersOf(c) : wid[h] = i
    BY <1>2, <1>3, <1>5 DEF NothingForgotten
  <2>2. CASE h = g
    <3>1. Owner(g) = c
      BY <1>1, <2>2
    <3>2. ~AddComicFails(g)
      BY <1>0, <2>1, <2>2, <3>1 DEF AddComicFails, IInv, TypeOK
    <3>3. ~AddComic(g)
      <4>1. ASSUME AddComic(g) PROVE wrow[g] = NoRow
        BY <1>0, <1>3, <2>1, <2>2, <4>1 DEF AddComic, InsertRow, IInv, TypeOK, Table
      <4>2. wpc[g] = "add" => wrow[g] \in Row
        BY DEF DataInv, PurposeInv
      <4> QED BY <4>1, <4>2 DEF AddComic, Row, NoRow
    <3>4. GetComic(g) \/ GetComicFails(g) \/ Norm(g) \/ NormFails(g)
      BY <2>1, <2>2, <3>2, <3>3 DEF WorkerStep, Receive, Exit, Holding
    <3>5. wpc'[g] \in {"norm", "add", "unsent"} /\ wid'[g] = i
      BY <2>1, <2>2, <3>4 DEF GetComic, InsertPlace, GetComicFails, Norm, NormFails, IInv, TypeOK
    <3> QED BY <2>1, <2>2, <3>5 DEF InHand, Holding
  <2>3. CASE h # g
    <3>1. wpc'[h] = wpc[h] /\ wid'[h] = wid[h]
      BY <1>1, <2>1, <2>3
         DEF WorkerStep, Receive, Exit, GetComic, GetComicFails, Norm, NormFails,
             AddComic, AddComicFails, IInv, TypeOK
    <3> QED BY <2>1, <3>1 DEF InHand, Holding
  <2> QED BY <2>2, <2>3
<1> QED BY <1>4, <1>5

LEMMA ForgetsNothing ==
    IInv /\ DataInv /\ NothingForgotten /\ [Next]_vars => NothingForgotten'
<1> SUFFICES ASSUME IInv, DataInv, NothingForgotten, [Next]_vars
             PROVE  NothingForgotten'
  OBVIOUS
<1> USE DEF svcVars, callVars, goVars, statVars
<1>1. ASSUME NEW c \in UpdateCalls, ReadLastID(c) PROVE NothingForgotten'
  <2>1. Live = {}
    BY <1>1, NobodyLive DEF ReadLastID, InFlight
  <2>2. Holding = {}
    BY <2>1, HoldingLive
  <2>3. toFetch'[c] = jobs'[c]
    BY <1>1 DEF ReadLastID, IInv, TypeOK
  <2>4. /\ UNCHANGED <<comics, skipped>>
        /\ \A x \in UpdateCalls \ {c} : toFetch'[x] = toFetch[x] /\ jobs'[x] = jobs[x]
    BY <1>1 DEF ReadLastID, IInv, TypeOK
  <2> QED BY <2>2, <2>3, <2>4 DEF NothingForgotten
<1>2. ASSUME NEW c \in UpdateCalls, Finish(c) PROVE NothingForgotten'
  <2>1. /\ UNCHANGED <<comics, skipped, jobs, wpc, wid>>
        /\ \A x \in UpdateCalls : toFetch'[x] \subseteq toFetch[x]
    BY <1>2 DEF Finish, IInv, TypeOK
  <2> QED BY <2>1 DEF NothingForgotten, Holding
<1>3. ASSUME NEW c \in UpdateCalls, UpdateStep(c), ~ReadLastID(c), ~Finish(c)
      PROVE  NothingForgotten'
  BY <1>3, ForgottenUnchanged
     DEF UpdateStep, Begin, Reject, ReadIDs, ReadIDsFails, ReadLastIDFails, Abort,
         WaitDone, PublishUpdated, PublishUpdatedFails, forgetVars
<1>4. ASSUME NEW g \in Goroutines, WorkerStep(g) PROVE NothingForgotten'
  BY <1>4, WorkerForgetsNothing
<1>5. ASSUME EmptiesTable, UNCHANGED <<toFetch, jobs, wpc, wid>> PROVE NothingForgotten'
  <2> SUFFICES ASSUME NEW c \in UpdateCalls, NEW i \in toFetch[c]
               PROVE  \/ i \in jobs[c] \cup skipped'[c]
                      \/ \E g \in Holding \cap WorkersOf(c) : wid[g] = i
    BY <1>5 DEF NothingForgotten, Holding
  <2>1. skipped'[c] = skipped[c] \cup (toFetch[c] \cap StoredIDs(comics))
    BY <1>5 DEF EmptiesTable
  <2>2. CASE comics[i] # NoRow
    <3>1. i \in StoredIDs(comics)
      BY <2>2 DEF StoredIDs, IInv, TypeOK
    <3> QED BY <2>1, <3>1
  <2>3. CASE comics[i] = NoRow
    BY <2>1, <2>3 DEF NothingForgotten
  <2> QED BY <2>2, <2>3
<1>6. ASSUME NEW d \in DropCalls, DropStep(d) PROVE NothingForgotten'
  BY <1>5, <1>6, ForgottenUnchanged
     DEF DropStep, Truncate, TruncateFails, PublishDrop, PublishDropFails, forgetVars
<1>7. ASSUME Crash PROVE NothingForgotten'
  BY <1>7 DEF Crash, NothingForgotten
<1>8. ASSUME \/ UNCHANGED vars \/ NewComic
             \/ \E c \in UpdateCalls : Cancel(c)
             \/ \E s \in StatsCalls : StatsStep(s)
      PROVE  NothingForgotten'
  BY <1>8, ForgottenUnchanged
     DEF vars, NewComic, Cancel, StatsStep, Stats, StatsFails, forgetVars
<1> QED BY <1>1, <1>2, <1>3, <1>4, <1>6, <1>7, <1>8 DEF Next

\* No error path of a worker loses a comic without leaving a trace of it.
THEOREM EveryComicAccountedFor == Spec => []NothingForgotten
<1>1. Init => NothingForgotten
  BY DEF Init, NothingForgotten
<1> QED BY <1>1, InvInit, InvStep, DataInit, DataStep, ForgetsNothing, PTL DEF Spec

-----------------------------------------------------------------------------
(***************************************************************************)
(* Which service's failures a false row comes from.  Cancelling an update  *)
(* makes every call fail too, but then the insert fails as well.           *)
(***************************************************************************)

\* A row for comic i is genuine, so far as the service it is about never fails.
Traced(i, row) ==
    /\ row = "missing" /\ "xkcd" \notin Faults => i \in Missing
    /\ row = "wordless" /\ "words" \notin Faults => i \in TooLong

RowsTraced == \A i \in Ids : Traced(i, comics[i])

RowInv ==
    /\ RowsTraced
    /\ \A g \in Goroutines : wpc[g] = "add" => Traced(wid[g], wrow[g])

rowVars == <<comics, wpc, wid, wrow>>

LEMMA RowUnchanged ==
    ASSUME RowInv, UNCHANGED rowVars
    PROVE  RowInv'
BY DEF RowInv, rowVars, RowsTraced

LEMMA WorkerRows ==
    ASSUME IInv, RowInv,
           NEW g \in Goroutines, WorkerStep(g)
    PROVE  RowInv'
<1> USE DEF svcVars, callVars, Step, Fetching
<1>1. \A h \in Goroutines \ {g} :
          wpc'[h] = wpc[h] /\ wid'[h] = wid[h] /\ wrow'[h] = wrow[h]
  BY DEF WorkerStep, Receive, Exit, GetComic, GetComicFails, Norm, NormFails,
         AddComic, AddComicFails, IInv, TypeOK
<1>2. wpc'[g] = "add" => Traced(wid'[g], wrow'[g])
  <2>1. CASE GetComicFails(g)
    BY <2>1 DEF GetComicFails, InsertPlace, CtxFails, IInv, TypeOK, Traced
  <2>2. CASE NormFails(g)
    BY <2>2 DEF NormFails, InsertPlace, TextFits, CtxFails, IInv, TypeOK, Traced
  <2>3. CASE Norm(g)
    BY <2>3 DEF Norm, InsertPlace, IInv, TypeOK, Traced
  <2>4. CASE Receive(g) \/ Exit(g) \/ GetComic(g) \/ AddComic(g) \/ AddComicFails(g)
    BY <2>4 DEF Receive, Exit, GetComic, AddComic, AddComicFails, IInv, TypeOK
  <2> QED BY <2>1, <2>2, <2>3, <2>4 DEF WorkerStep
<1>3. RowsTraced'
  <2>1. CASE AddComic(g)
    <3>1. comics \in [Ids -> Row \cup {NoRow}]
      BY DEF IInv, TypeOK, Table
    <3>2. \A i \in Ids : comics'[i] = comics[i] \/ (i = wid[g] /\ comics'[i] = wrow[g])
      BY <2>1, <3>1 DEF AddComic, InsertRow
    <3> QED BY <2>1, <3>2 DEF AddComic, RowInv, RowsTraced
  <2>2. CASE ~AddComic(g)
    <3>1. UNCHANGED comics
      BY <2>2 DEF WorkerStep, Receive, Exit, GetComic, GetComicFails, Norm,
                  NormFails, AddComicFails
    <3> QED BY <3>1 DEF RowInv, RowsTraced
  <2> QED BY <2>1, <2>2
<1> QED BY <1>1, <1>2, <1>3 DEF RowInv

LEMMA RowStep == IInv /\ RowInv /\ [Next]_vars => RowInv'
<1> SUFFICES ASSUME IInv, RowInv, [Next]_vars PROVE RowInv'
  OBVIOUS
<1> USE DEF svcVars, callVars, goVars, statVars
<1>1. ASSUME NEW c \in UpdateCalls, ReadLastID(c) PROVE RowInv'
  <2>1. \A g \in Goroutines : wpc'[g] = "add" => wpc[g] = "add"
    BY <1>1 DEF ReadLastID
  <2> QED BY <1>1, <2>1 DEF ReadLastID, RowInv, RowsTraced
<1>2. ASSUME NEW c \in UpdateCalls, UpdateStep(c), ~ReadLastID(c) PROVE RowInv'
  BY <1>2, RowUnchanged
     DEF UpdateStep, Begin, Reject, ReadIDs, ReadIDsFails, ReadLastIDFails, Abort,
         WaitDone, PublishUpdated, PublishUpdatedFails, Finish, rowVars
<1>3. ASSUME NEW c \in UpdateCalls, Cancel(c) PROVE RowInv'
  BY <1>3, RowUnchanged DEF Cancel, rowVars
<1>4. ASSUME NEW g \in Goroutines, WorkerStep(g) PROVE RowInv'
  BY <1>4, WorkerRows
<1>5. ASSUME NEW d \in DropCalls, DropStep(d) PROVE RowInv'
  <2>1. UNCHANGED <<wpc, wid, wrow>>
    BY <1>5 DEF DropStep, Truncate, TruncateFails, PublishDrop, PublishDropFails
  <2>2. comics' = comics \/ comics' = EmptyTable
    BY <1>5 DEF DropStep, Truncate, TruncateFails, PublishDrop, PublishDropFails,
                EmptiesTable
  <2>3. RowsTraced'
    BY <2>2 DEF RowInv, RowsTraced, Traced, EmptyTable, NoRow
  <2> QED BY <2>1, <2>3 DEF RowInv
<1>6. ASSUME Crash PROVE RowInv'
  <2>1. UNCHANGED comics /\ \A g \in Goroutines : wpc'[g] # "add"
    BY <1>6 DEF Crash
  <2> QED BY <2>1 DEF RowInv, RowsTraced
<1>7. ASSUME UNCHANGED vars \/ NewComic \/ (\E s \in StatsCalls : StatsStep(s))
      PROVE  RowInv'
  BY <1>7, RowUnchanged DEF vars, NewComic, StatsStep, Stats, StatsFails, rowVars
<1> QED BY <1>1, <1>2, <1>3, <1>4, <1>5, <1>6, <1>7 DEF Next

\* Every placeholder stands for a comic XKCD refuses unless XKCD itself fails
\* otherwise, and every row without words for a text the words service refuses unless
\* that service does: no other failure, crash or cancellation makes a false row.
THEOREM FalseRowsTraced == Spec => []RowsTraced
<1>1. Init => RowInv
  BY DEF Init, RowInv, RowsTraced, Traced, EmptyTable, NoRow
<1>2. RowInv => RowsTraced
  BY DEF RowInv
<1> QED BY <1>1, <1>2, RowStep, InvInit, InvStep, PTL DEF Spec

\* A placeholder stands for a comic XKCD refuses, and a row without words for a
\* text the words service refuses, if those two services fail in no other way.
THEOREM PlaceholdersGenuine ==
    ASSUME Faults \cap {"xkcd", "words"} = {}
    PROVE  Spec => []RowsAreGenuine
<1>1. RowsTraced => RowsAreGenuine
  BY DEF RowsTraced, Traced, RowsAreGenuine
<1> QED BY <1>1, FalseRowsTraced, PTL

-----------------------------------------------------------------------------
(***************************************************************************)
(* An update ends, as far as safety can say it: every step of it or of its *)
(* workers uses up some of a finite supply, none of anybody's gives some   *)
(* back, and it is never left waiting for workers that are gone.           *)
(***************************************************************************)

LEMMA LeftByParts ==
    ASSUME NEW c, StagesLeft(c)' \subseteq StagesLeft(c),
           CallsLeft(c)' \subseteq CallsLeft(c), WorkersLeft(c)' \subseteq WorkersLeft(c)
    PROVE  /\ \A n \in 1 .. 3 : Left(c)'[n] \subseteq Left(c)[n]
           /\ Left(c)' = Left(c) =>
                /\ StagesLeft(c)' = StagesLeft(c)
                /\ CallsLeft(c)' = CallsLeft(c)
                /\ WorkersLeft(c)' = WorkersLeft(c)
BY DEF Left

\* Which calls are left to an update that has its list.
LEMMA CallLeft ==
    ASSUME NEW c \in UpdateCalls, upc[c] \notin {"ids", "last"}, NEW i, NEW place
    PROVE  <<i, place>> \in CallsLeft(c) <=>
              \/ i \in jobs[c] /\ place \in PlacesOfComic
              \/ \E g \in Holding \cap WorkersOf(c) :
                    wid[g] = i /\ place \in PlacesFrom(wpc[g])
BY DEF CallsLeft

\* The call that a worker with a comic in hand makes next.
CallAt(place) == IF place = "unsent" THEN "add" ELSE place

LEMMA PlacesAhead ==
    ASSUME NEW place \in {"get", "norm", "add", "unsent"}
    PROVE  /\ CallAt(place) \in PlacesFrom(place)
           /\ PlacesFrom(place) \subseteq {"get", "norm", "add"}
           /\ "get" \notin PlacesFrom("norm") /\ "get" \notin PlacesFrom("add")
           /\ "norm" \notin PlacesFrom("add")
           /\ PlacesFrom("add") \subseteq PlacesFrom("norm")
           /\ PlacesFrom("norm") \subseteq PlacesFrom("get")
           /\ PlacesFrom("unsent") = PlacesFrom("add")
BY DEF PlacesFrom, CallAt

\* The supply is never more than this.
WithinSupply(c) ==
    /\ CallsLeft(c) \subseteq Ids \X PlacesOfComic
    /\ WorkersLeft(c) \subseteq WorkersOf(c)

LEMMA SupplyBounded == IInv => \A c \in UpdateCalls : WithinSupply(c)
<1> SUFFICES ASSUME IInv, NEW c \in UpdateCalls PROVE WithinSupply(c)
  OBVIOUS
<1>1. ASSUME NEW g \in Holding
      PROVE  wid[g] \in Ids /\ PlacesFrom(wpc[g]) \subseteq PlacesOfComic
  <2>1. wpc[g] \in {"get", "norm", "add", "unsent"} /\ wid[g] \in Ids
    BY DEF Holding, IInv, WorkerInv
  <2> QED BY <2>1, PlacesAhead DEF PlacesOfComic
<1>2. jobs[c] \subseteq Ids
  BY DEF IInv, TypeOK
<1> QED BY <1>1, <1>2 DEF WithinSupply, CallsLeft, WorkersLeft

LEMMA SupplyStaysBounded == IInv' => \A c \in UpdateCalls : WithinSupply(c)'
<1>1. IInv' => (\A c \in UpdateCalls : WithinSupply(c))'
  BY SupplyBounded, PTL
<1> QED BY <1>1

\* The steps of an update in flight.
LEMMA OwnStepAdvances ==
    ASSUME IInv, IInv', NEW c \in UpdateCalls, InFlight(c), UpdateStep(c)
    PROVE  /\ \A n \in 1 .. 3 : Left(c)'[n] \subseteq Left(c)[n]
           /\ Left(c)' # Left(c)
<1> USE DEF svcVars, goVars
<1>1. StagesLeft(c)' \subseteq StagesLeft(c) /\ StagesLeft(c)' # StagesLeft(c)
  <2>1. \/ upc[c] = "ids" /\ upc'[c] \in {"last", "defer"}
        \/ upc[c] = "last" /\ upc'[c] \in {"wait", "defer"}
        \/ upc[c] = "wait" /\ upc'[c] \in {"publish", "defer"}
        \/ upc[c] = "publish" /\ upc'[c] = "defer"
        \/ upc[c] = "defer" /\ upc'[c] = "returned"
    BY DEF InFlight, UpdateStep, Begin, Reject, ReadIDs, ReadIDsFails, ReadLastID,
           ReadLastIDFails, Abort, WaitDone, PublishUpdated, PublishUpdatedFails,
           Finish, IInv, TypeOK
  <2> QED BY <2>1 DEF StagesLeft
<1>2. CallsLeft(c)' \subseteq CallsLeft(c) /\ WorkersLeft(c)' \subseteq WorkersLeft(c)
  <2>1. CASE upc[c] \in {"ids", "last"}
    <3>1. WithinSupply(c)'
      BY SupplyStaysBounded
    <3>2. CallsLeft(c) = Ids \X PlacesOfComic /\ WorkersLeft(c) = WorkersOf(c)
      BY <2>1 DEF CallsLeft, WorkersLeft
    <3> QED BY <3>1, <3>2 DEF WithinSupply, WorkersOf
  <2>2. CASE upc[c] \notin {"ids", "last"}
    <3>1. UNCHANGED <<jobs, wpc, wid>> /\ upc'[c] \notin {"ids", "last"}
      BY <2>2 DEF InFlight, UpdateStep, Begin, Reject, ReadIDs, ReadIDsFails, ReadLastID,
                  ReadLastIDFails, WaitDone, PublishUpdated, PublishUpdatedFails,
                  Abort, Finish, IInv, TypeOK
    <3> QED BY <2>2, <3>1 DEF CallsLeft, WorkersLeft, Live, Holding
  <2> QED BY <2>1, <2>2
<1> QED BY <1>1, <1>2, LeftByParts

LEMMA CallLeftNext ==
    ASSUME NEW c \in UpdateCalls, upc'[c] \notin {"ids", "last"}
    PROVE  \A i, place : <<i, place>> \in CallsLeft(c)' <=>
              \/ i \in jobs'[c] /\ place \in PlacesOfComic
              \/ \E g \in Holding' \cap WorkersOf(c) :
                    wid'[g] = i /\ place \in PlacesFrom(wpc'[g])
<1>1. CallsLeft(c)' = (jobs'[c] \X PlacesOfComic)
        \cup UNION {{wid'[g]} \X PlacesFrom(wpc'[g]) : g \in Holding' \cap WorkersOf(c)}
  BY DEF CallsLeft
<1> QED BY <1>1

\* A worker moves on alone, and its update is the one in flight, waiting.
LEMMA WorkerAlone ==
    ASSUME IInv, NEW c \in UpdateCalls, InFlight(c), NEW g \in Goroutines, WorkerStep(g)
    PROVE  /\ Owner(g) = c /\ g \in WorkersOf(c) \cap Live
           /\ upc[c] = "wait" /\ upc'[c] = "wait"
           /\ \A h \in Goroutines \ {g} : wpc'[h] = wpc[h] /\ wid'[h] = wid[h]
           /\ wpc'[g] # wpc[g]
<1> USE DEF Step, Fetching, callVars
<1>1. g \in Live
  BY DEF Live, WorkerStep, Receive, Exit, GetComic, GetComicFails, Norm, NormFails,
         AddComic, AddComicFails
<1>2. Owner(g) = c /\ upc[c] = "wait"
  BY <1>1, BusyOwner
<1>3. g \in WorkersOf(c)
  BY <1>2, OwnerOfGoroutine
<1>4. upc' = upc
  BY DEF WorkerStep, Receive, Exit, GetComic, GetComicFails, Norm, NormFails,
         AddComic, AddComicFails
<1>5. /\ \A h \in Goroutines \ {g} : wpc'[h] = wpc[h] /\ wid'[h] = wid[h]
      /\ wpc'[g] # wpc[g]
  BY DEF WorkerStep, Receive, Exit, GetComic, GetComicFails, Norm, NormFails,
         AddComic, AddComicFails, InsertPlace, IInv, TypeOK
<1> QED BY <1>1, <1>2, <1>3, <1>4, <1>5

\* Receive: the comic leaves the queue.
LEMMA ReceiveAdvances ==
    ASSUME IInv, DataInv, NEW c \in UpdateCalls, InFlight(c),
           NEW g \in Goroutines, Receive(g)
    PROVE  /\ CallsLeft(c)' \subseteq CallsLeft(c) /\ CallsLeft(c)' # CallsLeft(c)
           /\ WorkersLeft(c)' = WorkersLeft(c)
<1>1. WorkerStep(g)
  BY DEF WorkerStep
<1>2. PICK i \in jobs[c] :
          /\ wpc' = [wpc EXCEPT ![g] = "get"] /\ wid' = [wid EXCEPT ![g] = i]
          /\ jobs' = [jobs EXCEPT ![c] = @ \ {i}]
  BY <1>1, WorkerAlone DEF Receive, Step
<1>3. /\ wpc[g] = "recv" /\ wpc'[g] = "get" /\ wid'[g] = i
      /\ jobs'[c] = jobs[c] \ {i}
      /\ g \in WorkersOf(c) /\ upc[c] = "wait" /\ upc'[c] = "wait"
  BY <1>1, <1>2, WorkerAlone DEF Receive, IInv, TypeOK
<1>4. \A h \in Goroutines \ {g} : wpc'[h] = wpc[h] /\ wid'[h] = wid[h]
  BY <1>1, WorkerAlone
<1>5. Holding' = Holding \cup {g} /\ g \notin Holding /\ Live' = Live
  BY <1>3, <1>4 DEF Holding, Live
<1>6. WorkersLeft(c)' = WorkersLeft(c)
  BY <1>3, <1>5 DEF WorkersLeft, WorkersOf
<1>7. \A j, place : <<j, place>> \in CallsLeft(c) <=>
          \/ j \in jobs[c] /\ place \in PlacesOfComic
          \/ \E h \in Holding \cap WorkersOf(c) :
                wid[h] = j /\ place \in PlacesFrom(wpc[h])
  BY <1>3 DEF CallsLeft
<1>8. \A j, place : <<j, place>> \in CallsLeft(c)' <=>
          \/ j \in jobs[c] \ {i} /\ place \in PlacesOfComic
          \/ j = i /\ place \in PlacesFrom("get")
          \/ \E h \in Holding \cap WorkersOf(c) :
                wid[h] = j /\ place \in PlacesFrom(wpc[h])
  <2>1. \A h \in Holding : h # g /\ wpc'[h] = wpc[h] /\ wid'[h] = wid[h]
    BY <1>4, <1>5, HoldingLive
  <2>2. \A j, place : <<j, place>> \in CallsLeft(c)' <=>
            \/ j \in jobs'[c] /\ place \in PlacesOfComic
            \/ \E h \in Holding' \cap WorkersOf(c) :
                  wid'[h] = j /\ place \in PlacesFrom(wpc'[h])
    BY <1>3, CallLeftNext
  <2>3. ASSUME NEW j, NEW place
        PROVE  (\E h \in Holding' \cap WorkersOf(c) :
                    wid'[h] = j /\ place \in PlacesFrom(wpc'[h]))
                <=> \/ j = i /\ place \in PlacesFrom("get")
                    \/ \E h \in Holding \cap WorkersOf(c) :
                          wid[h] = j /\ place \in PlacesFrom(wpc[h])
    BY <1>3, <1>5, <2>1
  <2> HIDE DEF WorkersOf
  <2> QED BY <1>3, <2>2, <2>3
<1>9. <<i, "queue">> \in CallsLeft(c) /\ <<i, "queue">> \notin CallsLeft(c)'
  <2>1. \A h \in Holding : "queue" \notin PlacesFrom(wpc[h])
    BY PlacesAhead DEF Holding
  <2>2. "queue" \notin PlacesFrom("get")
    BY PlacesAhead
  <2> QED BY <1>7, <1>8, <2>1, <2>2 DEF PlacesOfComic
<1>10. CallsLeft(c)' \subseteq CallsLeft(c)
  <2>1. \A x \in CallsLeft(c)' : \E j, place : x = <<j, place>>
    BY <1>3 DEF CallsLeft
  <2>2. PlacesFrom("get") \subseteq PlacesOfComic
    BY PlacesAhead DEF PlacesOfComic
  <2> QED BY <1>7, <1>8, <2>1, <2>2
<1> QED BY <1>6, <1>9, <1>10

\* The calls for the comic in hand: it goes on to a later place, or is let go.
LEMMA HandAdvances ==
    ASSUME IInv, DataInv, NEW c \in UpdateCalls, InFlight(c),
           NEW g \in Goroutines, WorkerStep(g), ~Receive(g), ~Exit(g)
    PROVE  /\ CallsLeft(c)' \subseteq CallsLeft(c) /\ CallsLeft(c)' # CallsLeft(c)
           /\ WorkersLeft(c)' = WorkersLeft(c)
<1> DEFINE goesOn(place) == wid'[g] = wid[g] /\ place \in PlacesFrom(wpc'[g])
<1>1. /\ g \in WorkersOf(c) /\ Owner(g) = c /\ upc[c] = "wait" /\ upc'[c] = "wait"
      /\ \A h \in Goroutines \ {g} : wpc'[h] = wpc[h] /\ wid'[h] = wid[h]
  BY WorkerAlone
<1>2. /\ jobs' = jobs /\ wpc[g] \in {"get", "norm", "add", "unsent"}
      /\ \/ wpc'[g] = "recv"
         \/ /\ wid'[g] = wid[g]
            /\ wpc[g] = "get" /\ wpc'[g] \in {"norm", "add", "unsent"}
         \/ wid'[g] = wid[g] /\ wpc[g] = "norm" /\ wpc'[g] \in {"add", "unsent"}
  BY DEF WorkerStep, GetComic, GetComicFails, Norm, NormFails, AddComic, AddComicFails,
         InsertPlace, Step, Fetching, callVars, IInv, TypeOK
<1>3. g \in Holding /\ Holding \ {g} = Holding' \ {g} /\ Live' = Live
  BY <1>1, <1>2 DEF Holding, Live
<1>4. WorkersLeft(c)' = WorkersLeft(c)
  BY <1>1, <1>3 DEF WorkersLeft, WorkersOf
<1>5. \A place : g \in Holding' /\ place \in PlacesFrom(wpc'[g]) =>
          /\ wid'[g] = wid[g]
          /\ place \in PlacesFrom(wpc[g]) /\ place # CallAt(wpc[g])
  <2>1. g \in Holding' => wpc'[g] # "recv"
    BY DEF Holding
  <2> QED BY <1>2, <2>1, PlacesAhead DEF CallAt
<1>6. \A j, place : <<j, place>> \in CallsLeft(c) <=>
          \/ j \in jobs[c] /\ place \in PlacesOfComic
          \/ \E h \in Holding \cap WorkersOf(c) :
                wid[h] = j /\ place \in PlacesFrom(wpc[h])
  BY <1>1 DEF CallsLeft
<1>7. \A j, place : <<j, place>> \in CallsLeft(c)' <=>
          \/ j \in jobs[c] /\ place \in PlacesOfComic
          \/ \E h \in Holding' \cap WorkersOf(c) :
                wid'[h] = j /\ place \in PlacesFrom(wpc'[h])
  BY <1>1, <1>2, CallLeftNext
<1>8. \A h \in Holding' \ {g} :
          h \in Holding /\ wpc'[h] = wpc[h] /\ wid'[h] = wid[h]
  BY <1>1, <1>3, HoldingLive
<1>9. CallsLeft(c)' \subseteq CallsLeft(c)
  <2>1. \A x \in CallsLeft(c)' : \E j, place : x = <<j, place>>
    BY <1>1 DEF CallsLeft
  <2>2. ASSUME NEW j, NEW place, <<j, place>> \in CallsLeft(c)'
        PROVE  <<j, place>> \in CallsLeft(c)
    <3>1. CASE j \in jobs[c] /\ place \in PlacesOfComic
      BY <3>1, <1>6
    <3>2. ASSUME NEW h \in Holding' \cap WorkersOf(c), wid'[h] = j,
                 place \in PlacesFrom(wpc'[h])
          PROVE  <<j, place>> \in CallsLeft(c)
      <4>1. CASE h = g
        BY <4>1, <3>2, <1>1, <1>3, <1>5, <1>6
      <4>2. CASE h # g
        BY <4>2, <3>2, <1>6, <1>8
      <4> QED BY <4>1, <4>2
    <3> QED BY <2>2, <3>1, <3>2, <1>7
  <2> QED BY <2>1, <2>2
<1>10. <<wid[g], CallAt(wpc[g])>> \in CallsLeft(c)
  BY <1>1, <1>2, <1>3, <1>6, PlacesAhead
<1>11. <<wid[g], CallAt(wpc[g])>> \notin CallsLeft(c)'
  <2>1. wid[g] \notin jobs[c] /\ \A h \in Holding : wid[h] = wid[g] => h = g
    BY <1>1, <1>3 DEF DataInv, FetchOnlyAbsent
  <2> QED BY <1>5, <1>7, <1>8, <2>1
<1> QED BY <1>4, <1>9, <1>10, <1>11

\* A worker that exits is one fewer.
LEMMA ExitAdvances ==
    ASSUME IInv, NEW c \in UpdateCalls, InFlight(c), NEW g \in Goroutines, Exit(g)
    PROVE  /\ CallsLeft(c)' = CallsLeft(c)
           /\ WorkersLeft(c)' \subseteq WorkersLeft(c)
           /\ WorkersLeft(c)' # WorkersLeft(c)
<1>1. WorkerStep(g)
  BY DEF WorkerStep
<1>2. /\ g \in WorkersOf(c) \cap Live /\ upc[c] = "wait" /\ upc'[c] = "wait"
      /\ \A h \in Goroutines \ {g} : wpc'[h] = wpc[h] /\ wid'[h] = wid[h]
      /\ wpc[g] = "recv" /\ wpc'[g] = "done" /\ jobs' = jobs
  BY <1>1, WorkerAlone DEF Exit, Step, callVars, IInv, TypeOK
<1>3. Holding' = Holding /\ Live' = Live \ {g} /\ g \notin Holding
  BY <1>2 DEF Holding, Live
<1>4. \A h \in Holding : wpc'[h] = wpc[h] /\ wid'[h] = wid[h]
  BY <1>2, <1>3, HoldingLive
<1>5. CallsLeft(c)' = CallsLeft(c)
  <2>1. CallsLeft(c)' = (jobs[c] \X PlacesOfComic) \cup
          UNION {{wid'[h]} \X PlacesFrom(wpc'[h]) : h \in Holding \cap WorkersOf(c)}
    BY <1>2, <1>3 DEF CallsLeft
  <2>2. {{wid'[h]} \X PlacesFrom(wpc'[h]) : h \in Holding \cap WorkersOf(c)}
        = {{wid[h]} \X PlacesFrom(wpc[h]) : h \in Holding \cap WorkersOf(c)}
    BY <1>4
  <2> QED BY <1>2, <2>1, <2>2 DEF CallsLeft
<1>6. WorkersLeft(c) = Live \cap WorkersOf(c) /\ WorkersLeft(c)' = Live' \cap WorkersOf(c)
  BY <1>2 DEF WorkersLeft
<1> QED BY <1>2, <1>3, <1>5, <1>6

\* A step advances an update: UpdateAdvances, of one step and one update.
Advances(c) ==
    /\ \A n \in 1 .. 3 : Left(c)'[n] \subseteq Left(c)[n]
    /\ upc'[c] # upc[c] \/ (\E g \in WorkersOf(c) : wpc'[g] # wpc[g])
          => Left(c)' # Left(c)

\* The steps of others leave it alone.
LEMMA OthersLeaveAlone ==
    ASSUME NEW c \in UpdateCalls, UNCHANGED <<jobs, wpc, wid>>, upc'[c] = upc[c]
    PROVE  Advances(c)
<1>1. UNCHANGED <<StagesLeft(c), CallsLeft(c), WorkersLeft(c)>>
  BY DEF StagesLeft, CallsLeft, WorkersLeft, Live, Holding
<1>2. \A n \in 1 .. 3 : Left(c)'[n] \subseteq Left(c)[n]
  BY <1>1, LeftByParts
<1> QED BY <1>2 DEF Advances

\* A crash ends it.
LEMMA CrashAdvances ==
    ASSUME IInv, IInv', NEW c \in UpdateCalls, InFlight(c), Crash
    PROVE  Advances(c)
<1>1. /\ upc'[c] = "returned" /\ jobs'[c] = {}
      /\ \A g \in Goroutines : wpc'[g] \in {"off", "done"}
  BY DEF Crash, IInv, TypeOK
<1>2. StagesLeft(c)' = {} /\ StagesLeft(c) # {}
  BY <1>1 DEF StagesLeft, InFlight
<1>3. Live' = {} /\ Holding' = {}
  BY <1>1 DEF Live, Holding
<1>4. CallsLeft(c)' = {} /\ WorkersLeft(c)' = {}
  BY <1>1, <1>3 DEF CallsLeft, WorkersLeft
<1>5. /\ \A n \in 1 .. 3 : Left(c)'[n] \subseteq Left(c)[n]
      /\ Left(c)' # Left(c)
  BY <1>2, <1>4, LeftByParts
<1> QED BY <1>5 DEF Advances

LEMMA WorkerAdvances ==
    ASSUME IInv, DataInv, NEW c \in UpdateCalls, InFlight(c),
           NEW g \in Goroutines, WorkerStep(g)
    PROVE  Advances(c)
<1>1. StagesLeft(c)' = StagesLeft(c)
  BY WorkerAlone DEF StagesLeft
<1>2. /\ CallsLeft(c)' \subseteq CallsLeft(c)
      /\ WorkersLeft(c)' \subseteq WorkersLeft(c)
      /\ CallsLeft(c)' # CallsLeft(c) \/ WorkersLeft(c)' # WorkersLeft(c)
  <2>1. CASE Receive(g)
    BY <2>1, ReceiveAdvances
  <2>2. CASE Exit(g)
    BY <2>2, ExitAdvances
  <2>3. CASE ~Receive(g) /\ ~Exit(g)
    BY <2>3, HandAdvances
  <2> QED BY <2>1, <2>2, <2>3
<1>3. /\ \A n \in 1 .. 3 : Left(c)'[n] \subseteq Left(c)[n]
      /\ Left(c)' # Left(c)
  BY <1>1, <1>2, LeftByParts
<1> QED BY <1>3 DEF Advances

LEMMA StepAdvances ==
    ASSUME IInv, IInv', DataInv, [Next]_vars, NEW c \in UpdateCalls, InFlight(c)
    PROVE  Advances(c)
<1> USE DEF svcVars, callVars, goVars, statVars
<1>1. ASSUME NEW x \in UpdateCalls, UpdateStep(x) PROVE Advances(c)
  <2>1. CASE x = c
    BY <1>1, <2>1, OwnStepAdvances DEF Advances
  <2>2. CASE x # c
    <3>1. ~InFlight(x) /\ ~LatchFree
      BY <2>2 DEF IInv, LatchInv, LatchFree
    <3>2. Reject(x)
      BY <1>1, <3>1
         DEF UpdateStep, Begin, ReadIDs, ReadIDsFails, ReadLastID, ReadLastIDFails,
             WaitDone, PublishUpdated, PublishUpdatedFails, Finish, InFlight
    <3> QED BY <2>2, <3>2, OthersLeaveAlone DEF Reject, IInv, TypeOK
  <2> QED BY <2>1, <2>2
<1>2. ASSUME NEW g \in Goroutines, WorkerStep(g) PROVE Advances(c)
  BY <1>2, WorkerAdvances
<1>3. ASSUME Crash PROVE Advances(c)
  BY <1>3, CrashAdvances
<1>4. ASSUME \/ \E x \in UpdateCalls : Cancel(x)
             \/ \E d \in DropCalls : DropStep(d)
             \/ \E s \in StatsCalls : StatsStep(s)
             \/ NewComic \/ UNCHANGED vars
      PROVE  Advances(c)
  BY <1>4, OthersLeaveAlone
     DEF Cancel, DropStep, Truncate, TruncateFails, PublishDrop, PublishDropFails,
         StatsStep, Stats, StatsFails, NewComic, vars
<1> QED BY <1>1, <1>2, <1>3, <1>4 DEF Next

\* Nothing an update went through comes back, for any number of workers, comics and
\* failures: each of its steps and of its workers' leaves it strictly less to do.
THEOREM UpdateOnlyAdvances == Spec => UpdateAdvances
<1>1. IInv /\ IInv' /\ DataInv /\ [Next]_vars
      => [\A c \in UpdateCalls : InFlight(c) => Advances(c)]_vars
  BY StepAdvances
<1>2. [\A c \in UpdateCalls : InFlight(c) => Advances(c)]_vars
      => [\A c \in UpdateCalls : InFlight(c) =>
            /\ \A n \in 1 .. 3 : Left(c)'[n] \subseteq Left(c)[n]
            /\ upc'[c] # upc[c] \/ (\E g \in WorkersOf(c) : wpc'[g] # wpc[g])
                  => Left(c)' # Left(c)]_vars
  BY DEF Advances
<1> QED BY <1>1, <1>2, DataInvariant, PTL DEF Spec, UpdateAdvances

\* How much is left to an update, in steps.
Remaining(c) ==
    Cardinality(StagesLeft(c)) + Cardinality(CallsLeft(c)) + Cardinality(WorkersLeft(c))

AtMost == 5 + MaxID * 4 + Concurrency

LEMMA PlacesCounted ==
    /\ IsFiniteSet(Ids \X PlacesOfComic)
    /\ Cardinality(Ids \X PlacesOfComic) = MaxID * 4
<1>1. IsFiniteSet(Ids) /\ Cardinality(Ids) = MaxID
  BY MaxIDAssumption, FS_Interval DEF Ids
<1>2. IsFiniteSet(PlacesOfComic) /\ Cardinality(PlacesOfComic) = 4
  <2>1. IsFiniteSet({"queue"}) /\ Cardinality({"queue"}) = 1
    BY FS_Singleton
  <2>2. IsFiniteSet({"queue"} \cup {"get"}) /\ Cardinality({"queue"} \cup {"get"}) = 2
    BY <2>1, FS_AddElement
  <2>3. /\ IsFiniteSet({"queue"} \cup {"get"} \cup {"norm"})
        /\ Cardinality({"queue"} \cup {"get"} \cup {"norm"}) = 3
    BY <2>2, FS_AddElement
  <2>4. /\ IsFiniteSet({"queue"} \cup {"get"} \cup {"norm"} \cup {"add"})
        /\ Cardinality({"queue"} \cup {"get"} \cup {"norm"} \cup {"add"}) = 4
    BY <2>3, FS_AddElement
  <2>5. PlacesOfComic = {"queue"} \cup {"get"} \cup {"norm"} \cup {"add"}
    BY DEF PlacesOfComic
  <2> QED BY <2>4, <2>5
<1> QED BY <1>1, <1>2, FS_Product

LEMMA SubsetCounted ==
    ASSUME NEW S, IsFiniteSet(S), NEW T \in SUBSET S
    PROVE  IsFiniteSet(T) /\ Cardinality(T) \in 0 .. Cardinality(S)
BY FS_Subset, FS_CardinalityType

LEMMA StagesCounted ==
    ASSUME TypeOK, NEW c \in UpdateCalls
    PROVE  IsFiniteSet(StagesLeft(c)) /\ Cardinality(StagesLeft(c)) \in 0 .. 5
<1> DEFINE Stages == {"defer"} \cup {"publish"} \cup {"wait"} \cup {"last"} \cup {"ids"}
<1>1. IsFiniteSet(Stages) /\ Cardinality(Stages) \in 0 .. 5
  <2>1. IsFiniteSet({"defer"}) /\ Cardinality({"defer"}) = 1
    BY FS_Singleton
  <2>2. /\ IsFiniteSet({"defer"} \cup {"publish"})
        /\ Cardinality({"defer"} \cup {"publish"}) \in 0 .. 2
    BY <2>1, FS_AddElement
  <2>3. /\ IsFiniteSet({"defer"} \cup {"publish"} \cup {"wait"})
        /\ Cardinality({"defer"} \cup {"publish"} \cup {"wait"}) \in 0 .. 3
    BY <2>2, FS_AddElement
  <2>4. /\ IsFiniteSet({"defer"} \cup {"publish"} \cup {"wait"} \cup {"last"})
        /\ Cardinality({"defer"} \cup {"publish"} \cup {"wait"} \cup {"last"}) \in 0 .. 4
    BY <2>3, FS_AddElement
  <2> QED BY <2>4, FS_AddElement
<1>2. StagesLeft(c) \subseteq Stages
  BY DEF StagesLeft, TypeOK
<1> HIDE DEF Stages
<1> QED BY <1>1, <1>2, SubsetCounted

\* The supply of an update is finite, and no more than the constants allow.
LEMMA SupplyFinite ==
    IInv => \A c \in UpdateCalls :
        /\ IsFiniteSet(StagesLeft(c)) /\ Cardinality(StagesLeft(c)) \in 0 .. 5
        /\ IsFiniteSet(CallsLeft(c)) /\ Cardinality(CallsLeft(c)) \in 0 .. MaxID * 4
        /\ IsFiniteSet(WorkersLeft(c)) /\ Cardinality(WorkersLeft(c)) \in 0 .. Concurrency
<1> SUFFICES ASSUME IInv, NEW c \in UpdateCalls
             PROVE  /\ IsFiniteSet(StagesLeft(c)) /\ Cardinality(StagesLeft(c)) \in 0 .. 5
                    /\ IsFiniteSet(CallsLeft(c))
                    /\ Cardinality(CallsLeft(c)) \in 0 .. MaxID * 4
                    /\ IsFiniteSet(WorkersLeft(c))
                    /\ Cardinality(WorkersLeft(c)) \in 0 .. Concurrency
  OBVIOUS
<1>1. CallsLeft(c) \subseteq Ids \X PlacesOfComic /\ WorkersLeft(c) \subseteq WorkersOf(c)
  BY SupplyBounded DEF WithinSupply
<1>2. IsFiniteSet(CallsLeft(c)) /\ Cardinality(CallsLeft(c)) \in 0 .. MaxID * 4
  BY <1>1, PlacesCounted, SubsetCounted
<1>3. IsFiniteSet(WorkersOf(c))
  BY GoroutinesFinite, FS_Subset
<1>4. IsFiniteSet(WorkersLeft(c)) /\ Cardinality(WorkersLeft(c)) \in 0 .. Concurrency
  BY <1>1, <1>3, GoroutinesFinite, SubsetCounted
<1> QED BY <1>2, <1>4, StagesCounted DEF IInv

LEMMA RemainingBounded == IInv => \A c \in UpdateCalls : Remaining(c) \in 0 .. AtMost
<1> SUFFICES ASSUME IInv, NEW c \in UpdateCalls PROVE Remaining(c) \in 0 .. AtMost
  OBVIOUS
<1>1. MaxID * 4 \in Nat /\ Concurrency \in Nat
  BY MaxIDAssumption, UpdateAssumption
<1> QED BY <1>1, SupplyFinite DEF Remaining, AtMost

\* A subset of a finite set is smaller or the same.
LEMMA FewerOrSame ==
    ASSUME NEW S, IsFiniteSet(S), NEW T \in SUBSET S
    PROVE  /\ Cardinality(T) \in Nat /\ Cardinality(S) \in Nat
           /\ Cardinality(T) <= Cardinality(S)
           /\ T # S => Cardinality(T) < Cardinality(S)
BY FS_Subset, FS_CardinalityType

Shrinks(c) ==
    /\ Remaining(c)' <= Remaining(c)
    /\ upc'[c] # upc[c] \/ (\E g \in WorkersOf(c) : wpc'[g] # wpc[g])
          => Remaining(c)' < Remaining(c)

LEMMA AdvancingShrinks ==
    ASSUME IInv, NEW c \in UpdateCalls, Advances(c)
    PROVE  Shrinks(c)
<1>1. /\ StagesLeft(c)' \subseteq StagesLeft(c) /\ CallsLeft(c)' \subseteq CallsLeft(c)
      /\ WorkersLeft(c)' \subseteq WorkersLeft(c)
  BY DEF Advances, Left
<1>2. /\ IsFiniteSet(StagesLeft(c)) /\ IsFiniteSet(CallsLeft(c))
      /\ IsFiniteSet(WorkersLeft(c))
  BY SupplyFinite
<1> DEFINE s == Cardinality(StagesLeft(c))   t == Cardinality(StagesLeft(c)')
           k == Cardinality(CallsLeft(c))    l == Cardinality(CallsLeft(c)')
           w == Cardinality(WorkersLeft(c))  v == Cardinality(WorkersLeft(c)')
<1>3. s \in Nat /\ t \in Nat /\ t <= s /\ (StagesLeft(c)' # StagesLeft(c) => t < s)
  BY <1>1, <1>2, FewerOrSame
<1>4. k \in Nat /\ l \in Nat /\ l <= k /\ (CallsLeft(c)' # CallsLeft(c) => l < k)
  BY <1>1, <1>2, FewerOrSame
<1>5. w \in Nat /\ v \in Nat /\ v <= w /\ (WorkersLeft(c)' # WorkersLeft(c) => v < w)
  BY <1>1, <1>2, FewerOrSame
<1>6. Remaining(c) = s + k + w /\ Remaining(c)' = t + l + v
  BY DEF Remaining
<1>7. Left(c)' # Left(c) => \/ StagesLeft(c)' # StagesLeft(c)
                            \/ CallsLeft(c)' # CallsLeft(c)
                            \/ WorkersLeft(c)' # WorkersLeft(c)
  BY DEF Left
<1> HIDE DEF s, t, k, l, w, v
<1>8. Remaining(c)' <= Remaining(c) /\ (Left(c)' # Left(c) => Remaining(c)' < Remaining(c))
  BY <1>3, <1>4, <1>5, <1>6, <1>7
<1> QED BY <1>8 DEF Shrinks, Advances

\* An update takes at most 5 + 4 MaxID + Concurrency steps, its workers' included: so
\* much is left to it at first at most, and each of them leaves less.
THEOREM UpdateStepsBounded ==
    Spec => /\ [](\A c \in UpdateCalls : Remaining(c) \in 0 .. AtMost)
            /\ [][\A c \in UpdateCalls : InFlight(c) => Shrinks(c)]_vars
<1>1. IInv /\ IInv' /\ DataInv /\ [Next]_vars
      => [\A c \in UpdateCalls : InFlight(c) => Shrinks(c)]_vars
  BY StepAdvances, AdvancingShrinks
<1> QED BY <1>1, RemainingBounded, DataInvariant, PTL DEF Spec

\* An update never waits for nobody: until the WaitGroup is down to zero, one of its own
\* workers is still there to bring it down, whatever failed.
NeverWaitsForNobody ==
    \A c \in UpdateCalls :
        upc[c] = "wait" => WaitOver \/ WorkersOf(c) \cap Live # {}

THEOREM NoUpdateStuck == Spec => []NeverWaitsForNobody
<1>1. IInv => NeverWaitsForNobody
  <2> SUFFICES ASSUME IInv, NEW c \in UpdateCalls, upc[c] = "wait", ~WaitOver
               PROVE  WorkersOf(c) \cap Live # {}
    BY DEF NeverWaitsForNobody
  <2>1. Live # {}
    BY FS_EmptySet DEF IInv, CountInv, WaitOver
  <2>2. PICK g \in Live : TRUE
    BY <2>1
  <2>3. Owner(g) = c
    BY BusyOwner DEF InFlight
  <2> QED BY <2>2, <2>3, OwnerOfGoroutine DEF Live
<1> QED BY <1>1, InvInit, InvStep, PTL DEF Spec
=============================================================================
