-------------------------- MODULE UpdateServiceProofs --------------------------
(***************************************************************************)
(* Theorems about UpdateService, for any number of RPCs, workers, comics   *)
(* and crashes and any set of failing systems.                             *)
(*                                                                         *)
(* None of the safety properties is inductive on its own.  They follow     *)
(* from IInv: the latch is held by exactly one update, only that update    *)
(* has live workers and only while it waits for them, and the WaitGroup    *)
(* counts them.                                                            *)
(***************************************************************************)
EXTENDS UpdateService, FiniteSetTheorems, TLAPS

-----------------------------------------------------------------------------
(***************************************************************************)
(* The inductive invariant.                                                *)
(***************************************************************************)

\* The latch is held exactly when an update is in flight, and by one update.
LatchInv ==
    /\ \A c1, c2 \in UpdateCalls : InFlight(c1) /\ InFlight(c2) => c1 = c2
    /\ updateed <=> \E c \in UpdateCalls : InFlight(c)
    /\ status = "running" <=> updateed

\* Workers live only while their update waits; it waits only for started ones,
\* and a worker that exits leaves no job behind.  What a worker holds is a comic.
WorkerInv ==
    \A g \in Goroutines :
        /\ g \in Live => upc[Owner(g)] = "wait"
        /\ upc[Owner(g)] = "wait" =>
              wpc[g] # "off" /\ (wpc[g] = "done" => jobs[Owner(g)] = {})
        /\ g \in Holding => wid[g] \in Ids

\* Jobs exist only while their update waits.
JobsInv == \A c \in UpdateCalls : upc[c] # "wait" => jobs[c] = {}

\* The WaitGroup counts the live workers.
CountInv == wg = Cardinality(Live)

IInv == TypeOK /\ LatchInv /\ WorkerInv /\ JobsInv /\ CountInv

-----------------------------------------------------------------------------
(***************************************************************************)
(* Facts about the constants and the sets the invariant is stated with.    *)
(***************************************************************************)

LEMMA GoroutinesFinite ==
    /\ IsFiniteSet(Goroutines)
    /\ \A c \in UpdateCalls :
          /\ WorkersOf(c) \subseteq Goroutines
          /\ Cardinality(WorkersOf(c)) = Concurrency
<1>1. IsFiniteSet(1 .. Concurrency) /\ Cardinality(1 .. Concurrency) = Concurrency
  BY UpdateAssumption, FS_Interval
<1>2. IsFiniteSet(Goroutines)
  BY <1>1, UpdateAssumption, FS_Product DEF Goroutines
<1>3. ASSUME NEW c \in UpdateCalls
      PROVE  /\ WorkersOf(c) \subseteq Goroutines
             /\ Cardinality(WorkersOf(c)) = Concurrency
  <2>1. WorkersOf(c) \subseteq Goroutines
    BY DEF WorkersOf, Goroutines
  <2>2. IsFiniteSet({c}) /\ Cardinality({c}) = 1
    BY FS_Singleton
  <2>3. Cardinality(WorkersOf(c)) = 1 * Concurrency
    BY <1>1, <2>2, FS_Product DEF WorkersOf
  <2> QED BY <2>1, <2>3, UpdateAssumption
<1> QED BY <1>2, <1>3

LEMMA LiveFinite == IsFiniteSet(Live) /\ Cardinality(Live) \in Nat
<1>1. Live \subseteq Goroutines
  BY DEF Live
<1> QED BY <1>1, GoroutinesFinite, FS_Subset, FS_CardinalityType

LEMMA OwnerOfGoroutine ==
    \A g \in Goroutines : Owner(g) \in UpdateCalls /\ g \in WorkersOf(Owner(g))
BY DEF Goroutines, Owner, WorkersOf

LEMMA StoredFinite ==
    /\ IsFiniteSet(StoredIDs(comics))
    /\ Cardinality(StoredIDs(comics)) \in Nat
<1>1. IsFiniteSet(Ids)
  BY MaxIDAssumption, FS_Interval DEF Ids
<1>2. StoredIDs(comics) \subseteq Ids
  BY DEF StoredIDs
<1> QED BY <1>1, <1>2, FS_Subset, FS_CardinalityType

-----------------------------------------------------------------------------
(***************************************************************************)
(* TypeOK is preserved.  Only Exit needs more than the types: wg stays a   *)
(* natural number because it counts the exiting worker.                    *)
(***************************************************************************)

LEMMA InsertRowType ==
    ASSUME comics \in Table, NEW i, NEW row \in Row \cup {NoRow}
    PROVE  InsertRow(comics, i, row) \in Table
BY DEF InsertRow, Table

LEMMA EmptyTableType == EmptyTable \in Table
BY DEF EmptyTable, Table

LEMMA ToFetchType ==
    ASSUME NEW known, NEW n \in 0 .. MaxID
    PROVE  ToFetch(known, n) \subseteq Ids
BY MaxIDAssumption DEF ToFetch, Ids

LEMMA TypeInit == Init => TypeOK
<1> SUFFICES ASSUME Init PROVE TypeOK
  OBVIOUS
<1>1. comics \in Table
  BY EmptyTableType DEF Init
<1>2. wid \in [Goroutines -> 0 .. MaxID] /\ stotal \in [StatsCalls -> 0 .. MaxID]
  BY MaxIDAssumption DEF Init
<1>3. crashes \in 0 .. MaxCrashes
  BY UpdateAssumption DEF Init
<1>4. bus \in Seq(Topics)
  BY DEF Init
<1> QED BY <1>1, <1>2, <1>3, <1>4 DEF Init, TypeOK

LEMMA UpdateStepType ==
    ASSUME TypeOK, NEW c \in UpdateCalls, UpdateStep(c) \/ Cancel(c)
    PROVE  TypeOK'
<1> USE DEF svcVars, callVars, goVars, statVars
<1>1. CASE Begin(c) BY <1>1 DEF Begin, TypeOK
<1>2. CASE Reject(c) BY <1>2 DEF Reject, TypeOK
<1>3. CASE ReadIDs(c) BY <1>3 DEF ReadIDs, StoredIDs, TypeOK
<1>4. CASE ReadIDsFails(c) BY <1>4 DEF ReadIDsFails, Abort, TypeOK
<1>5. CASE ReadLastID(c)
  <2>1. ToFetch(existing[c], last) \in SUBSET Ids
    BY ToFetchType DEF TypeOK
  <2>2. wg' \in Nat
    BY <1>5, UpdateAssumption DEF ReadLastID, TypeOK
  <2> QED BY <1>5, <2>1, <2>2 DEF ReadLastID, TypeOK
<1>6. CASE ReadLastIDFails(c) BY <1>6 DEF ReadLastIDFails, Abort, TypeOK
<1>7. CASE WaitDone(c) BY <1>7 DEF WaitDone, NeedsEvent, TypeOK
<1>8. CASE PublishUpdated(c)
  <2>1. bus' \in Seq(Topics)
    BY <1>8 DEF PublishUpdated, Topics, TypeOK
  <2> QED BY <1>8, <2>1 DEF PublishUpdated, TypeOK
<1>9. CASE PublishUpdatedFails(c) BY <1>9 DEF PublishUpdatedFails, TypeOK
<1>10. CASE Finish(c) BY <1>10 DEF Finish, TypeOK
<1>11. CASE Cancel(c) BY <1>11 DEF Cancel, TypeOK
<1> QED BY <1>1, <1>2, <1>3, <1>4, <1>5, <1>6, <1>7, <1>8, <1>9, <1>10, <1>11
        DEF UpdateStep

LEMMA WorkerStepType ==
    ASSUME TypeOK, WorkerInv, CountInv, NEW g \in Goroutines, WorkerStep(g)
    PROVE  TypeOK'
<1> USE DEF svcVars, callVars, goVars, statVars, Step
<1>0. Owner(g) \in UpdateCalls /\ wid[g] \in 0 .. MaxID /\ 0 \in 0 .. MaxID
  BY OwnerOfGoroutine, MaxIDAssumption DEF TypeOK
<1>1. CASE Receive(g)
  <2>1. PICK i \in jobs[Owner(g)] :
            /\ Step(g, "get", i, NoRow)
            /\ jobs' = [jobs EXCEPT ![Owner(g)] = @ \ {i}]
    BY <1>1 DEF Receive
  <2>2. i \in 0 .. MaxID
    BY <1>0 DEF Ids, TypeOK
  <2> QED BY <1>0, <1>1, <2>1, <2>2 DEF Receive, TypeOK
<1>2. CASE Exit(g)
  <2>1. g \in Live
    BY <1>2 DEF Exit, Live
  <2>2. wg \in Nat /\ wg # 0
    BY <2>1, LiveFinite, FS_EmptySet DEF CountInv, TypeOK
  <2>3. wg' \in Nat
    BY <1>2, <2>2 DEF Exit, Done
  <2> QED BY <1>0, <1>2, <2>3 DEF Exit, TypeOK
<1>3. CASE GetComic(g) BY <1>0, <1>3 DEF GetComic, Fetching, TypeOK
<1>4. CASE GetComicFails(g) BY <1>0, <1>4 DEF GetComicFails, InsertPlace, Fetching, Row, TypeOK
<1>5. CASE Norm(g) BY <1>0, <1>5 DEF Norm, InsertPlace, Fetching, Row, TypeOK
<1>6. CASE NormFails(g) BY <1>0, <1>6 DEF NormFails, InsertPlace, Fetching, Row, TypeOK
<1>7. CASE AddComic(g)
  <2>1. comics' \in Table
    BY <1>7, InsertRowType DEF AddComic, TypeOK
  <2> QED BY <1>0, <1>7, <2>1 DEF AddComic, TypeOK
<1>8. CASE AddComicFails(g)
  <2>1. g \in Holding
    BY <1>8 DEF AddComicFails, Holding
  <2>2. wid[g] \in Ids
    BY <2>1 DEF WorkerInv
  <2> QED BY <1>0, <1>8, <2>2 DEF AddComicFails, TypeOK
<1> QED BY <1>1, <1>2, <1>3, <1>4, <1>5, <1>6, <1>7, <1>8 DEF WorkerStep

LEMMA DropStepType ==
    ASSUME TypeOK, NEW d \in DropCalls, DropStep(d)
    PROVE  TypeOK'
<1> USE DEF svcVars, callVars, goVars, statVars
<1>1. EmptiesTable => comics' \in Table /\ skipped' \in [UpdateCalls -> SUBSET Ids]
  BY EmptyTableType DEF EmptiesTable, TypeOK
<1>2. Append(bus, "drop") \in Seq(Topics)
  BY DEF TypeOK, Topics
<1>3. CASE Truncate(d) BY <1>1, <1>3 DEF Truncate, TypeOK
<1>4. CASE TruncateFails(d) BY <1>1, <1>4 DEF TruncateFails, TypeOK
<1>5. CASE PublishDrop(d) BY <1>2, <1>5 DEF PublishDrop, TypeOK
<1>6. CASE PublishDropFails(d)
  <2>1. bus' \in Seq(Topics)
    BY <1>2, <1>6 DEF PublishDropFails, TypeOK
  <2> QED BY <1>6, <2>1 DEF PublishDropFails, TypeOK
<1> QED BY <1>3, <1>4, <1>5, <1>6 DEF DropStep

LEMMA StatsStepType ==
    ASSUME TypeOK, NEW s \in StatsCalls, StatsStep(s)
    PROVE  TypeOK'
<1> USE DEF svcVars, callVars, goVars, statVars
<1>1. CASE Stats(s)
  BY <1>1, StoredFinite DEF Stats, StatsReads, CountRows, ReadTotal, TypeOK
<1>2. CASE StatsFails(s) BY <1>2 DEF StatsFails, TypeOK
<1> QED BY <1>1, <1>2 DEF StatsStep

LEMMA EnvironmentType ==
    ASSUME TypeOK, NewComic \/ Crash
    PROVE  TypeOK'
<1> USE DEF svcVars, callVars, goVars, statVars
<1>1. CASE NewComic
  <2>1. last' \in 0 .. MaxID
    BY <1>1, MaxIDAssumption DEF NewComic, TypeOK
  <2> QED BY <1>1, <2>1 DEF NewComic, TypeOK
<1>2. CASE Crash
  <2>1. crashes' \in 0 .. MaxCrashes /\ wg' \in Nat /\ 0 \in 0 .. MaxID
    BY <1>2, UpdateAssumption, MaxIDAssumption DEF Crash, TypeOK
  <2> QED BY <1>2, <2>1 DEF Crash, TypeOK
<1> QED BY <1>1, <1>2

LEMMA TypeStep ==
    ASSUME TypeOK, WorkerInv, CountInv, [Next]_vars
    PROVE  TypeOK'
<1>1. CASE Next
  BY <1>1, UpdateStepType, WorkerStepType, DropStepType, StatsStepType,
     EnvironmentType DEF Next
<1>2. CASE UNCHANGED vars
  BY <1>2 DEF vars, svcVars, callVars, goVars, statVars, TypeOK
<1> QED BY <1>1, <1>2

-----------------------------------------------------------------------------
(***************************************************************************)
(* The rest of IInv is about the service's own variables only.  The steps  *)
(* of Drop, Stats and XKCD and the cancellations leave them alone.         *)
(***************************************************************************)

serviceVars == <<updateed, status, wg, upc, jobs, wpc, wid>>

ControlInv == LatchInv /\ WorkerInv /\ JobsInv /\ CountInv

LEMMA ControlUnchanged ==
    ASSUME ControlInv, UNCHANGED serviceVars
    PROVE  ControlInv'
BY DEF ControlInv, serviceVars, LatchInv, WorkerInv, JobsInv, CountInv, InFlight,
       Live, Holding

LEMMA ControlInit == Init => ControlInv
<1> SUFFICES ASSUME Init PROVE ControlInv
  OBVIOUS
<1>1. LatchInv
  BY DEF Init, LatchInv, InFlight
<1>2. WorkerInv /\ JobsInv
  BY OwnerOfGoroutine DEF Init, WorkerInv, JobsInv, Live, Holding
<1>3. Live = {}
  BY DEF Init, Live
<1>4. CountInv
  BY <1>3, FS_EmptySet DEF Init, CountInv
<1> QED BY <1>1, <1>2, <1>4 DEF ControlInv

LEMMA LatchStep ==
    ASSUME IInv, NEW c \in UpdateCalls, UpdateStep(c)
    PROVE  LatchInv'
<1> USE DEF IInv, LatchInv, InFlight, svcVars
<1>1. CASE Begin(c) BY <1>1 DEF Begin, LatchFree, TypeOK
<1>2. CASE Reject(c) BY <1>2 DEF Reject, TypeOK
<1>3. CASE ReadIDs(c) BY <1>3 DEF ReadIDs, TypeOK
<1>4. CASE ReadIDsFails(c) BY <1>4 DEF ReadIDsFails, Abort, TypeOK
<1>5. CASE ReadLastID(c) BY <1>5 DEF ReadLastID, TypeOK
<1>6. CASE ReadLastIDFails(c) BY <1>6 DEF ReadLastIDFails, Abort, TypeOK
<1>7. CASE WaitDone(c) BY <1>7 DEF WaitDone, TypeOK
<1>8. CASE PublishUpdated(c) BY <1>8 DEF PublishUpdated, TypeOK
<1>9. CASE PublishUpdatedFails(c) BY <1>9 DEF PublishUpdatedFails, TypeOK
<1>10. CASE Finish(c) BY <1>10 DEF Finish, TypeOK
<1> QED BY <1>1, <1>2, <1>3, <1>4, <1>5, <1>6, <1>7, <1>8, <1>9, <1>10
        DEF UpdateStep

\* No worker lives while no update waits.
LEMMA NobodyLive ==
    ASSUME IInv, NEW c \in UpdateCalls, InFlight(c), upc[c] # "wait"
    PROVE  Live = {}
BY OwnerOfGoroutine DEF IInv, LatchInv, WorkerInv, InFlight, Live

\* The steps of an update that neither start nor await workers.
OtherUpdateStep(c) ==
    \/ Begin(c) \/ Reject(c) \/ ReadIDs(c) \/ ReadIDsFails(c)
    \/ ReadLastIDFails(c) \/ PublishUpdated(c) \/ PublishUpdatedFails(c)
    \/ Finish(c)

LEMMA OtherUpdateStepControl ==
    ASSUME IInv, NEW c \in UpdateCalls, OtherUpdateStep(c)
    PROVE  WorkerInv' /\ JobsInv' /\ CountInv'
<1> USE DEF svcVars, goVars
<1>1. /\ UNCHANGED <<wg, jobs, wpc, wid>>
      /\ upc[c] # "wait" /\ upc'[c] # "wait"
      /\ \A x \in UpdateCalls \ {c} : upc'[x] = upc[x]
  BY DEF OtherUpdateStep, Begin, Reject, ReadIDs, ReadIDsFails, ReadLastIDFails,
         Abort, PublishUpdated, PublishUpdatedFails, Finish, IInv, TypeOK
<1>2. Live' = Live /\ Holding' = Holding
  BY <1>1 DEF Live, Holding
<1> QED BY <1>1, <1>2, OwnerOfGoroutine DEF IInv, WorkerInv, JobsInv, CountInv

LEMMA ReadLastIDControl ==
    ASSUME IInv, NEW c \in UpdateCalls, ReadLastID(c)
    PROVE  WorkerInv' /\ JobsInv' /\ CountInv'
<1>1. Live = {}
  BY NobodyLive DEF ReadLastID, InFlight
<1>2. \A g \in Goroutines : wpc'[g] = IF Owner(g) = c THEN "recv" ELSE wpc[g]
  BY DEF ReadLastID
<1>3. upc'[c] = "wait" /\ \A x \in UpdateCalls \ {c} :
                               upc'[x] = upc[x] /\ jobs'[x] = jobs[x]
  BY DEF ReadLastID, IInv, TypeOK
<1>4. Live' = WorkersOf(c)
  <2>1. \A g \in Goroutines : g \in WorkersOf(c) <=> Owner(g) = c
    BY DEF Goroutines, WorkersOf, Owner
  <2> QED BY <1>1, <1>2, <2>1, GoroutinesFinite DEF Live
<1>5. WorkerInv'
  BY <1>1, <1>2, <1>3, OwnerOfGoroutine DEF IInv, WorkerInv, Live, Holding
<1>6. JobsInv'
  BY <1>3 DEF IInv, JobsInv
<1>7. CountInv'
  <2>1. wg = 0
    BY <1>1, FS_EmptySet DEF IInv, CountInv
  <2>2. wg' = Concurrency
    BY <2>1, UpdateAssumption DEF ReadLastID
  <2> QED BY <1>4, <2>2, GoroutinesFinite DEF CountInv
<1> QED BY <1>5, <1>6, <1>7

\* When wg.Wait returns, no worker lives and the channel is empty.
LEMMA WaitOverMeansDrained ==
    ASSUME IInv, WaitOver, NEW c \in UpdateCalls, upc[c] = "wait"
    PROVE  Live = {} /\ jobs[c] = {}
<1>1. Live = {}
  BY LiveFinite, FS_EmptySet DEF IInv, CountInv, WaitOver
<1>2. <<c, 1>> \in Goroutines /\ Owner(<<c, 1>>) = c
  BY UpdateAssumption DEF Goroutines, Owner
<1> QED BY <1>1, <1>2 DEF IInv, WorkerInv, Live

LEMMA WaitDoneControl ==
    ASSUME IInv, NEW c \in UpdateCalls, WaitDone(c)
    PROVE  WorkerInv' /\ JobsInv' /\ CountInv'
<1> USE DEF svcVars, goVars
<1>1. Live = {} /\ jobs[c] = {}
  BY WaitOverMeansDrained DEF WaitDone
<1>2. /\ UNCHANGED <<wg, jobs, wpc, wid>>
      /\ upc'[c] # "wait"
      /\ \A x \in UpdateCalls \ {c} : upc'[x] = upc[x]
  BY DEF WaitDone, IInv, TypeOK
<1>3. Live' = Live /\ Holding' = Holding
  BY <1>2 DEF Live, Holding
<1> QED BY <1>1, <1>2, <1>3, OwnerOfGoroutine
        DEF IInv, WorkerInv, JobsInv, CountInv

LEMMA UpdateStepControl ==
    ASSUME IInv, NEW c \in UpdateCalls, UpdateStep(c)
    PROVE  ControlInv'
BY LatchStep, OtherUpdateStepControl, ReadLastIDControl, WaitDoneControl
   DEF UpdateStep, OtherUpdateStep, ControlInv

\* The steps of a worker other than its exit.
LEMMA BusyWorkerControl ==
    ASSUME IInv, NEW g \in Goroutines, WorkerStep(g), ~Exit(g)
    PROVE  ControlInv'
<1> DEFINE c == Owner(g)
<1> USE DEF svcVars, callVars, Step, Fetching
<1>1. c \in UpdateCalls
  BY OwnerOfGoroutine
<1>2. /\ UNCHANGED <<updateed, status, wg, upc>>
      /\ g \in Live /\ wpc'[g] \in {"recv", "get", "norm", "add", "unsent"}
      /\ wpc'[g] # "recv" => wid'[g] \in Ids
      /\ \A h \in Goroutines \ {g} : wpc'[h] = wpc[h] /\ wid'[h] = wid[h]
      /\ \A x \in UpdateCalls \ {c} : jobs'[x] = jobs[x]
      /\ jobs'[c] \subseteq jobs[c]
  <2> USE DEF IInv, TypeOK, Live
  <2>1. CASE Receive(g) BY <1>1, <2>1 DEF Receive
  <2>2. CASE GetComic(g) BY <2>2 DEF GetComic, WorkerInv, Holding
  <2>3. CASE GetComicFails(g) BY <2>3 DEF GetComicFails, InsertPlace, WorkerInv, Holding
  <2>4. CASE Norm(g) BY <2>4 DEF Norm, InsertPlace, WorkerInv, Holding
  <2>5. CASE NormFails(g) BY <2>5 DEF NormFails, InsertPlace, WorkerInv, Holding
  <2>6. CASE AddComic(g) BY <2>6 DEF AddComic
  <2>7. CASE AddComicFails(g) BY <2>7 DEF AddComicFails
  <2> QED BY <2>1, <2>2, <2>3, <2>4, <2>5, <2>6, <2>7 DEF WorkerStep
<1>3. Live' = Live
  BY <1>2 DEF Live
<1>4. LatchInv'
  BY <1>2 DEF IInv, LatchInv, InFlight
<1>5. WorkerInv'
  BY <1>1, <1>2, <1>3, OwnerOfGoroutine DEF IInv, WorkerInv, Holding
<1>6. JobsInv'
  BY <1>1, <1>2 DEF IInv, JobsInv, WorkerInv
<1>7. CountInv'
  BY <1>2, <1>3 DEF IInv, CountInv
<1> QED BY <1>4, <1>5, <1>6, <1>7 DEF ControlInv

LEMMA ExitControl ==
    ASSUME IInv, NEW g \in Goroutines, Exit(g)
    PROVE  ControlInv'
<1> USE DEF svcVars, callVars, Step
<1>1. /\ UNCHANGED <<updateed, status, upc, jobs>>
      /\ g \in Live /\ wpc'[g] = "done" /\ jobs[Owner(g)] = {}
      /\ \A h \in Goroutines \ {g} : wpc'[h] = wpc[h] /\ wid'[h] = wid[h]
  BY DEF Exit, IInv, TypeOK, Live
<1>2. Live' = Live \ {g}
  BY <1>1 DEF Live
<1>3. LatchInv'
  BY <1>1 DEF IInv, LatchInv, InFlight
<1>4. WorkerInv' /\ JobsInv'
  BY <1>1, <1>2, OwnerOfGoroutine DEF IInv, WorkerInv, JobsInv, Holding
<1>5. CountInv'
  <2>1. Cardinality(Live') = Cardinality(Live) - 1
    BY <1>1, <1>2, LiveFinite, FS_RemoveElement
  <2> QED BY <2>1 DEF Exit, Done, IInv, CountInv
<1> QED BY <1>3, <1>4, <1>5 DEF ControlInv

LEMMA CrashControl ==
    ASSUME IInv, Crash
    PROVE  ControlInv'
<1>1. /\ updateed' = FALSE /\ status' = "unset" /\ wg' = 0
      /\ \A c \in UpdateCalls : upc'[c] \in {"idle", "returned"} /\ jobs'[c] = {}
      /\ \A g \in Goroutines : wpc'[g] \in {"off", "done"}
  BY DEF Crash, IInv, TypeOK, InFlight
<1>2. Live' = {} /\ Holding' = {}
  BY <1>1 DEF Live, Holding
<1>3. LatchInv'
  BY <1>1 DEF LatchInv, InFlight
<1>4. WorkerInv' /\ JobsInv'
  BY <1>1, <1>2, OwnerOfGoroutine DEF WorkerInv, JobsInv
<1>5. CountInv'
  BY <1>1, <1>2, FS_EmptySet DEF CountInv
<1> QED BY <1>3, <1>4, <1>5 DEF ControlInv

-----------------------------------------------------------------------------
(***************************************************************************)
(* The theorems.                                                           *)
(***************************************************************************)

LEMMA InvInit == Init => IInv
BY TypeInit, ControlInit DEF IInv, ControlInv

LEMMA InvStep == IInv /\ [Next]_vars => IInv'
<1> SUFFICES ASSUME IInv, [Next]_vars PROVE IInv'
  OBVIOUS
<1> USE DEF svcVars, callVars, goVars, statVars
<1>1. TypeOK'
  BY TypeStep DEF IInv
<1>2. ControlInv
  BY DEF IInv, ControlInv
<1>3. ASSUME NEW c \in UpdateCalls, UpdateStep(c) PROVE ControlInv'
  BY <1>3, UpdateStepControl
<1>4. ASSUME NEW c \in UpdateCalls, Cancel(c) PROVE ControlInv'
  BY <1>2, <1>4, ControlUnchanged DEF Cancel, serviceVars
<1>5. ASSUME NEW g \in Goroutines, WorkerStep(g) PROVE ControlInv'
  BY <1>5, BusyWorkerControl, ExitControl
<1>6. ASSUME NEW d \in DropCalls, DropStep(d) PROVE ControlInv'
  BY <1>2, <1>6, ControlUnchanged
     DEF DropStep, Truncate, TruncateFails, PublishDrop, PublishDropFails,
         serviceVars
<1>7. ASSUME NEW s \in StatsCalls, StatsStep(s) PROVE ControlInv'
  BY <1>2, <1>7, ControlUnchanged DEF StatsStep, Stats, StatsFails, serviceVars
<1>8. ASSUME NewComic PROVE ControlInv'
  BY <1>2, <1>8, ControlUnchanged DEF NewComic, serviceVars
<1>9. ASSUME Crash PROVE ControlInv'
  BY <1>9, CrashControl
<1>10. ASSUME UNCHANGED vars PROVE ControlInv'
  BY <1>2, <1>10, ControlUnchanged DEF vars, serviceVars
<1>11. ControlInv'
  BY <1>3, <1>4, <1>5, <1>6, <1>7, <1>8, <1>9, <1>10 DEF Next
<1> QED BY <1>1, <1>11 DEF IInv, ControlInv

THEOREM Invariant == Spec => []IInv
BY InvInit, InvStep, PTL DEF Spec

\* Every variable keeps its type, whatever fails and crashes.
THEOREM TypeCorrect == Spec => []TypeOK
<1>1. IInv => TypeOK
  BY DEF IInv
<1> QED BY <1>1, Invariant, PTL

\* One update at a time, and Status tells it, for any number of Update RPCs.
THEOREM OneUpdateAtATime == Spec => []SingleFlight
<1>1. IInv => SingleFlight
  BY DEF IInv, LatchInv, SingleFlight, StatusReply
<1> QED BY <1>1, Invariant, PTL

\* The event is published, and the RPC returns, only when all workers are gone.
THEOREM NoStoreAfterEvent == Spec => []PublishAfterWorkers
<1>1. IInv => PublishAfterWorkers
  <2>1. \A c \in UpdateCalls : \A g \in WorkersOf(c) : Owner(g) = c
    BY DEF WorkersOf, Owner
  <2> QED BY <2>1 DEF IInv, WorkerInv, JobsInv, PublishAfterWorkers, Live
<1> QED BY <1>1, Invariant, PTL
=============================================================================
