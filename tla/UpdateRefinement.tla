--------------------------- MODULE UpdateRefinement ---------------------------
(***************************************************************************)
(* UpdateService implements ComicsWriter, which IndexSync is composed      *)
(* with: every step of the service is a step of the writer or leaves the   *)
(* table, the bus, the session and the owed drops alone.  And it           *)
(* implements UpdateLatch, which Gateway is built on.                      *)
(***************************************************************************)
EXTENDS UpdateDataProofs

\* The values the mapping of UpdateService gives the writer's variables.
Session == \E c \in UpdateCalls : upc[c] \in {"wait", "publish"} /\ toFetch[c] # {}
DropsOwed == {d \in DropCalls : dpc[d] = "publish"}
LossPossible == Faults \cap {"db", "nats"} # {} \/ MaxCrashes > 0

\* A step the writer does not see.
Unseen == UNCHANGED <<comics, bus>> /\ Session' = Session /\ DropsOwed' = DropsOwed

WriterStep == Writer!WriterNext \/ Unseen

LEMMA UnseenStutters == Unseen => UNCHANGED Writer!writerVars
BY DEF Unseen, Session, DropsOwed, Writer!writerVars

LEMMA WriterStarts == Init => Writer!WriterInit
BY DEF Init, Writer!WriterInit, EmptyTable, Writer!EmptyTable, Ids, Writer!Ids,
       NoRow, Writer!NoRow

\* At most one update's session is open.
LEMMA OneSession ==
    ASSUME IInv, NEW c \in UpdateCalls, InFlight(c)
    PROVE  \A x \in UpdateCalls : x # c => upc[x] \notin {"wait", "publish"}
BY DEF IInv, LatchInv, InFlight

LEMMA UpdateStepWrites ==
    ASSUME IInv, DataInv, NEW c \in UpdateCalls, UpdateStep(c)
    PROVE  WriterStep
<1> USE DEF svcVars, goVars, statVars
<1>1. \A x \in UpdateCalls : x # c => upc'[x] = upc[x] /\ toFetch'[x] = toFetch[x]
  BY DEF UpdateStep, Begin, Reject, ReadIDs, ReadIDsFails, ReadLastID,
         ReadLastIDFails, Abort, WaitDone, PublishUpdated, PublishUpdatedFails,
         Finish, IInv, TypeOK
<1>2. CASE Begin(c) \/ Reject(c) \/ ReadIDs(c) \/ ReadIDsFails(c) \/ ReadLastIDFails(c)
           \/ Finish(c)
  <2>1. /\ UNCHANGED <<comics, bus, dpc>>
        /\ upc[c] \notin {"wait", "publish"} /\ upc'[c] \notin {"wait", "publish"}
    BY <1>2 DEF Begin, Reject, ReadIDs, ReadIDsFails, ReadLastIDFails, Abort, Finish,
                IInv, TypeOK
  <2> QED BY <1>1, <2>1 DEF WriterStep, Unseen, Session, DropsOwed
<1>3. CASE ReadLastID(c)
  <2>1. /\ UNCHANGED <<comics, bus, dpc>>
        /\ upc[c] = "last" /\ upc'[c] = "wait"
        /\ toFetch'[c] = ToFetch(existing[c], last)
    BY <1>3 DEF ReadLastID, IInv, TypeOK
  <2>2. ~Session
    BY <2>1, OneSession DEF Session, InFlight
  <2>3. Session' <=> toFetch'[c] # {}
    BY <1>1, <2>1, OneSession DEF Session, InFlight
  <2>4. CASE toFetch'[c] = {}
    BY <2>1, <2>2, <2>3, <2>4 DEF WriterStep, Unseen, DropsOwed, Session
  <2>5. CASE toFetch'[c] # {}
    <3>1. PICK i \in ToFetch(existing[c], last) : TRUE
      BY <2>1, <2>5
    <3>2. i \in Ids /\ i \notin StoredIDs(comics)
      BY <2>1, <3>1, ToFetchType DEF ToFetch, DataInv, SnapshotInv, IInv, TypeOK
    <3>3. Writer!StoredIDs(comics) # Writer!Ids
      BY <3>2 DEF Writer!StoredIDs, Writer!Ids, StoredIDs, Ids, NoRow, Writer!NoRow
    <3>4. Writer!OpenSession
      BY <2>1, <2>2, <2>3, <2>5, <3>3 DEF Writer!OpenSession, Session
    <3> QED BY <3>4 DEF WriterStep, Writer!WriterNext, Writer!WriterWorks
  <2> QED BY <2>4, <2>5
<1>4. CASE WaitDone(c)
  <2>1. /\ UNCHANGED <<comics, bus, dpc, toFetch>> /\ upc[c] = "wait"
        /\ upc'[c] = IF toFetch[c] # {} THEN "publish" ELSE "defer"
    BY <1>4 DEF WaitDone, NeedsEvent, IInv, TypeOK
  <2> QED BY <1>1, <2>1 DEF WriterStep, Unseen, Session, DropsOwed
<1>5. CASE PublishUpdated(c) \/ PublishUpdatedFails(c)
  <2>1. /\ UNCHANGED <<comics, dpc, toFetch>>
        /\ upc[c] = "publish" /\ upc'[c] = "defer" /\ toFetch[c] # {}
    BY <1>5 DEF PublishUpdated, PublishUpdatedFails, DataInv, PurposeInv, IInv, TypeOK
  <2>2. Session /\ ~Session'
    BY <1>1, <2>1, OneSession DEF Session, InFlight
  <2>3. CASE PublishUpdated(c)
    BY <2>1, <2>2, <2>3
       DEF PublishUpdated, Session, WriterStep, Writer!WriterNext,
           Writer!WriterWorks, Writer!CloseSession
  <2>4. CASE PublishUpdatedFails(c)
    <3>1. LossPossible /\ UNCHANGED bus
      BY <2>4 DEF PublishUpdatedFails, LossPossible
    <3>2. Writer!LoseEvents
      BY <2>1, <2>2, <3>1 DEF Writer!LoseEvents, Session, LossPossible
    <3> QED BY <3>2 DEF WriterStep, Writer!WriterNext, Writer!WriterLoses
  <2> QED BY <1>5, <2>3, <2>4
<1> QED BY <1>2, <1>3, <1>4, <1>5 DEF UpdateStep

LEMMA WorkerStepWrites ==
    ASSUME IInv, DataInv, NEW g \in Goroutines, WorkerStep(g)
    PROVE  WriterStep
<1> USE DEF svcVars, callVars, Step, Fetching
<1>1. UNCHANGED <<bus, upc, toFetch, dpc>>
  BY DEF WorkerStep, Receive, Exit, GetComic, GetComicFails, Norm, NormFails,
         AddComic, AddComicFails
<1>2. Session' = Session /\ DropsOwed' = DropsOwed
  BY <1>1 DEF Session, DropsOwed
<1>3. CASE AddComic(g)
  <2>1. g \in Live /\ g \in Holding
    BY <1>3 DEF AddComic, Live, Holding
  <2>2. Session
    BY <2>1, BusyOwner, HoldingLive DEF Session, DataInv, PurposeInv
  <2>3. wid[g] \in Writer!Ids /\ wrow[g] \in Writer!Row
    BY <1>3, <2>1 DEF AddComic, IInv, WorkerInv, DataInv, PurposeInv, Ids, Writer!Ids,
                      Row, Writer!Row
  <2>4. comics[wid[g]] = Writer!NoRow
    BY <2>1 DEF DataInv, FetchOnlyAbsent, NoRow, Writer!NoRow
  <2>5. Writer!StoreComic(wid[g], wrow[g])
    BY <1>1, <1>2, <1>3, <2>2, <2>4
       DEF AddComic, Writer!StoreComic, Session, DropsOwed, InsertRow,
           Writer!InsertRow, NoRow, Writer!NoRow
  <2> QED BY <2>3, <2>5 DEF WriterStep, Writer!WriterNext, Writer!WriterWorks
<1>4. CASE ~AddComic(g)
  <2>1. UNCHANGED comics
    BY <1>4 DEF WorkerStep, Receive, Exit, GetComic, GetComicFails, Norm, NormFails,
                AddComicFails
  <2> QED BY <1>1, <1>2, <2>1 DEF WriterStep, Unseen
<1> QED BY <1>3, <1>4

LEMMA DropStepWrites ==
    ASSUME IInv, NEW d \in DropCalls, DropStep(d)
    PROVE  WriterStep
<1> USE DEF svcVars, callVars, goVars, statVars
<1>1. UNCHANGED <<upc, toFetch>> /\ Session' = Session
  BY DEF DropStep, Truncate, TruncateFails, PublishDrop, PublishDropFails, Session
<1>2. EmptyTable = Writer!EmptyTable
  BY DEF EmptyTable, Writer!EmptyTable, Ids, Writer!Ids, NoRow, Writer!NoRow
<1>3. CASE Truncate(d)
  <2>1. d \notin DropsOwed /\ DropsOwed' = DropsOwed \cup {d} /\ UNCHANGED bus
    BY <1>3 DEF Truncate, DropsOwed, IInv, TypeOK
  <2>2. Writer!DropTable(d)
    BY <1>1, <1>2, <1>3, <2>1
       DEF Truncate, EmptiesTable, Writer!DropTable, DropsOwed, Session
  <2> QED BY <2>2 DEF WriterStep, Writer!WriterNext, Writer!WriterWorks
<1>4. CASE TruncateFails(d)
  <2>1. d \notin DropsOwed /\ DropsOwed' = DropsOwed /\ UNCHANGED bus /\ LossPossible
    BY <1>4 DEF TruncateFails, DropsOwed, LossPossible, IInv, TypeOK
  <2>2. CASE UNCHANGED comics
    BY <1>1, <2>1, <2>2 DEF WriterStep, Unseen
  <2>3. CASE EmptiesTable
    <3>1. Writer!DropSilently(d)
      BY <1>1, <1>2, <2>1, <2>3
         DEF EmptiesTable, Writer!DropSilently, DropsOwed, Session, LossPossible
    <3> QED BY <3>1 DEF WriterStep, Writer!WriterNext, Writer!WriterLoses
  <2> QED BY <1>4, <2>2, <2>3 DEF TruncateFails
<1>5. CASE PublishDrop(d) \/ PublishDropFails(d)
  <2>1. d \in DropsOwed /\ DropsOwed' = DropsOwed \ {d} /\ UNCHANGED comics
    BY <1>5 DEF PublishDrop, PublishDropFails, DropsOwed, IInv, TypeOK
  <2>2. CASE bus' = Append(bus, "drop")
    <3>1. Writer!AnnounceDrop(d)
      BY <1>1, <2>1, <2>2 DEF Writer!AnnounceDrop, DropsOwed, Session
    <3> QED BY <3>1 DEF WriterStep, Writer!WriterNext, Writer!WriterWorks
  <2>3. CASE bus' = bus /\ PublishDropFails(d)
    <3>1. LossPossible
      BY <2>3 DEF PublishDropFails, LossPossible
    <3>2. Writer!LoseEvents
      BY <1>1, <2>1, <2>3, <3>1
         DEF Writer!LoseEvents, DropsOwed, Session, LossPossible
    <3> QED BY <3>2 DEF WriterStep, Writer!WriterNext, Writer!WriterLoses
  <2> QED BY <1>5, <2>2, <2>3 DEF PublishDrop, PublishDropFails
<1> QED BY <1>3, <1>4, <1>5 DEF DropStep

LEMMA CrashWrites ==
    ASSUME IInv, Crash
    PROVE  WriterStep
<1>1. UNCHANGED <<comics, bus>> /\ LossPossible
  BY UpdateAssumption DEF Crash, LossPossible, IInv, TypeOK
<1>2. ~Session' /\ DropsOwed' = {}
  BY DEF Crash, Session, DropsOwed, InFlight, IInv, TypeOK
<1>3. CASE ~Session /\ DropsOwed = {}
  BY <1>1, <1>2, <1>3 DEF WriterStep, Unseen, Session
<1>4. CASE Session \/ DropsOwed # {}
  <2>1. Writer!LoseEvents
    BY <1>1, <1>2, <1>4 DEF Writer!LoseEvents, Session, DropsOwed, LossPossible
  <2> QED BY <2>1 DEF WriterStep, Writer!WriterNext, Writer!WriterLoses
<1> QED BY <1>3, <1>4

LEMMA StepWrites == IInv /\ DataInv /\ [Next]_vars => [Writer!WriterNext]_(Writer!writerVars)
<1> SUFFICES ASSUME IInv, DataInv, [Next]_vars
             PROVE  [Writer!WriterNext]_(Writer!writerVars)
  OBVIOUS
<1> USE DEF svcVars, callVars, goVars, statVars
<1>1. ASSUME \/ UNCHANGED vars \/ NewComic
             \/ \E c \in UpdateCalls : Cancel(c)
             \/ \E s \in StatsCalls : StatsStep(s)
      PROVE  WriterStep
  BY <1>1 DEF vars, NewComic, Cancel, StatsStep, Stats, StatsFails, WriterStep,
              Unseen, Session, DropsOwed
<1>2. WriterStep
  BY <1>1, UpdateStepWrites, WorkerStepWrites, DropStepWrites, CrashWrites DEF Next
<1> QED BY <1>2, UnseenStutters DEF WriterStep

\* The update service implements the writer that IndexSync composes with the
\* search service.
THEOREM UpdateImplementsWriter == Spec => ImplementsWriter
BY WriterStarts, StepWrites, InvInit, InvStep, DataInit, DataStep, PTL
   DEF Spec, ImplementsWriter, Writer!WriterSpec

-----------------------------------------------------------------------------
(***************************************************************************)
(* The latch.                                                              *)
(***************************************************************************)

\* The values the mapping gives the latch's variables.
Running == {c \in UpdateCalls : InFlight(c) /\ ~cancelled[c]}
Orphaned == \E c \in UpdateCalls : InFlight(c) /\ cancelled[c]
Replies == [c \in UpdateCalls |-> Heard(c)]

\* An update has its reply when its deferred function runs and not before; only a
\* call that has reached the service can be cancelled.
ReplyInv ==
    \A c \in UpdateCalls :
        /\ upc[c] \in {"idle", "ids", "last", "wait"} => ureply[c] = "none"
        /\ upc[c] \in {"publish", "defer"} => ureply[c] \in {"ok", "error"}
        /\ upc[c] = "returned" => ureply[c] # "none"
        /\ cancelled[c] => upc[c] # "idle"

LEMMA ReplyInit == Init => ReplyInv
BY DEF Init, ReplyInv

LEMMA ReplyStep == IInv /\ ReplyInv /\ [Next]_vars => ReplyInv'
<1> SUFFICES ASSUME IInv, ReplyInv, [Next]_vars
             PROVE  ReplyInv'
  OBVIOUS
<1> USE DEF svcVars, callVars, goVars, statVars, ReplyInv
<1>1. ASSUME NEW c \in UpdateCalls, UpdateStep(c) \/ Cancel(c)
      PROVE  ReplyInv'
  BY <1>1 DEF UpdateStep, Begin, Reject, ReadIDs, ReadIDsFails, ReadLastID,
              ReadLastIDFails, Abort, WaitDone, PublishUpdated, PublishUpdatedFails,
              Finish, Cancel, InFlight, IInv, TypeOK
<1>2. ASSUME \/ \E g \in Goroutines : WorkerStep(g)
             \/ \E d \in DropCalls : DropStep(d)
             \/ \E s \in StatsCalls : StatsStep(s)
             \/ NewComic \/ UNCHANGED vars
      PROVE  UNCHANGED <<upc, ureply, cancelled>>
  BY <1>2 DEF WorkerStep, Receive, Exit, GetComic, GetComicFails, Norm, NormFails,
              AddComic, AddComicFails, Fetching, DropStep, Truncate, TruncateFails,
              PublishDrop, PublishDropFails, StatsStep, Stats, StatsFails, NewComic, vars
<1>3. CASE Crash
  BY <1>3 DEF Crash, InFlight
<1> QED BY <1>1, <1>2, <1>3 DEF Next

LEMMA ToldValues ==
    /\ Told("ok") = "ok" /\ Told("already") = "exists"
    /\ Told("error") = "error" /\ Told("lost") = "error"
BY DEF Told

\* The replies after a step in which one caller hears something.
LEMMA OneHears ==
    ASSUME NEW c \in UpdateCalls, NEW said, Heard(c) = "none", Heard(c)' = said,
           \A x \in UpdateCalls \ {c} : Heard(x)' = Heard(x)
    PROVE  Replies[c] = "none" /\ Replies' = [Replies EXCEPT ![c] = said]
<1>1. \A x \in UpdateCalls : Heard(x)' = IF x = c THEN said ELSE Heard(x)
  OBVIOUS
<1> QED BY <1>1 DEF Replies

\* A step the callers do not see.
Unheard == Running' = Running /\ Orphaned' = Orphaned /\ Replies' = Replies

LatchMoves == Latch!LatchNext \/ Unheard

LEMMA UnheardStutters == Unheard => UNCHANGED Latch!latchVars
BY DEF Unheard, Running, Orphaned, Replies, Latch!latchVars

LEMMA LatchStarts == Init => Latch!LatchInit
BY DEF Init, Latch!LatchInit, InFlight, Heard

\* Whoever holds the latch holds it alone, so Free is what Update looks at.
LEMMA FreeMeansFree == IInv => (Latch!Free <=> LatchFree)
BY DEF IInv, LatchInv, Latch!Free, LatchFree, TypeOK

LEMMA UpdateStepLatches ==
    ASSUME IInv, ReplyInv, NEW c \in UpdateCalls, UpdateStep(c)
    PROVE  LatchMoves
<1>0. /\ UNCHANGED cancelled
      /\ \A x \in UpdateCalls \ {c} : upc'[x] = upc[x] /\ ureply'[x] = ureply[x]
  BY DEF UpdateStep, Begin, Reject, ReadIDs, ReadIDsFails, ReadLastID,
         ReadLastIDFails, Abort, WaitDone, PublishUpdated, PublishUpdatedFails,
         Finish, IInv, TypeOK
<1>1. CASE Begin(c)
  <2>1. upc[c] = "idle" /\ upc'[c] = "ids" /\ ~cancelled[c]
    BY <1>1 DEF Begin, ReplyInv, IInv, TypeOK
  <2>2. Running' = {c} /\ Orphaned' = Orphaned /\ Latch!Free
    BY <1>0, <1>1, <2>1, FreeMeansFree
       DEF Begin, Running, Orphaned, InFlight, Latch!Free
  <2>3. Replies' = Replies /\ Replies[c] = "none"
    BY <1>0, <2>1 DEF Replies, Heard
  <2>4. Latch!Takes(c)
    BY <2>2, <2>3 DEF Latch!Takes, Running, Orphaned, Replies
  <2> QED BY <2>4 DEF LatchMoves, Latch!LatchNext
<1>2. CASE Reject(c)
  <2>1. upc[c] = "idle" /\ upc'[c] = "returned" /\ ureply'[c] = "already"
        /\ ~cancelled[c]
    BY <1>2 DEF Reject, ReplyInv, IInv, TypeOK
  <2>2. Running' = Running /\ Orphaned' = Orphaned /\ c \notin Running /\ ~Latch!Free
    BY <1>0, <1>2, <2>1, FreeMeansFree DEF Reject, Running, Orphaned, InFlight
  <2>3. Replies[c] = "none" /\ Replies' = [Replies EXCEPT ![c] = "exists"]
    <3>1. Heard(c) = "none" /\ Heard(c)' = "exists"
      BY <1>0, <2>1, ToldValues DEF Heard
    <3>2. \A x \in UpdateCalls \ {c} : Heard(x)' = Heard(x)
      BY <1>0 DEF Heard
    <3> QED BY <3>1, <3>2, OneHears
  <2>4. Latch!Refuses(c)
    BY <2>2, <2>3 DEF Latch!Refuses, Latch!Hears, Running, Orphaned, Replies
  <2> QED BY <2>4 DEF LatchMoves, Latch!LatchNext
<1>3. CASE Finish(c)
  <2>1. upc[c] = "defer" /\ upc'[c] = "returned" /\ ureply'[c] = ureply[c]
        /\ ureply[c] \in {"ok", "error"} /\ InFlight(c)
    BY <1>3 DEF Finish, ReplyInv, InFlight, IInv, TypeOK
  <2>2. \A x \in UpdateCalls \ {c} : ~InFlight(x)
    BY <2>1 DEF IInv, LatchInv
  <2>3. CASE cancelled[c]
    <3>1. Orphaned /\ ~Orphaned' /\ Running' = Running
      BY <1>0, <2>1, <2>2, <2>3 DEF Running, Orphaned, InFlight
    <3>2. Replies' = Replies
      BY <1>0, <2>3 DEF Replies, Heard
    <3>3. Latch!OrphanEnds
      BY <3>1, <3>2 DEF Latch!OrphanEnds, Running, Orphaned, Replies
    <3> QED BY <3>3 DEF LatchMoves, Latch!LatchNext
  <2>4. CASE ~cancelled[c]
    <3>1. c \in Running /\ Running' = Running \ {c} /\ Orphaned' = Orphaned
      BY <1>0, <2>1, <2>4 DEF Running, Orphaned, InFlight
    <3> PICK said \in {"ok", "error"} : ureply[c] = said
      BY <2>1
    <3>2. Replies[c] = "none" /\ Replies' = [Replies EXCEPT ![c] = said]
      <4>1. Heard(c) = "none" /\ Heard(c)' = said
        BY <1>0, <2>1, <2>4, ToldValues DEF Heard
      <4>2. \A x \in UpdateCalls \ {c} : Heard(x)' = Heard(x)
        BY <1>0 DEF Heard
      <4> QED BY <4>1, <4>2, OneHears
    <3>3. Latch!Ends(c, said)
      BY <3>1, <3>2 DEF Latch!Ends, Latch!Hears, Running, Orphaned, Replies
    <3> QED BY <3>3 DEF LatchMoves, Latch!LatchNext
  <2> QED BY <2>3, <2>4
<1>4. CASE ~(Begin(c) \/ Reject(c) \/ Finish(c))
  <2>1. InFlight(c) /\ InFlight(c)' /\ upc[c] # "returned" /\ upc'[c] # "returned"
    BY <1>4 DEF UpdateStep, ReadIDs, ReadIDsFails, ReadLastID, ReadLastIDFails, Abort,
                WaitDone, PublishUpdated, PublishUpdatedFails, InFlight, IInv, TypeOK
  <2>2. Running' = Running /\ Orphaned' = Orphaned
    BY <1>0, <2>1 DEF Running, Orphaned, InFlight
  <2>3. Replies' = Replies
    BY <1>0, <2>1 DEF Replies, Heard
  <2> QED BY <2>2, <2>3 DEF LatchMoves, Unheard
<1> QED BY <1>1, <1>2, <1>3, <1>4

LEMMA CancelAbandons ==
    ASSUME IInv, NEW c \in UpdateCalls, Cancel(c)
    PROVE  LatchMoves
<1>1. /\ UNCHANGED <<upc, ureply>> /\ InFlight(c) /\ ~cancelled[c] /\ cancelled'[c]
      /\ \A x \in UpdateCalls \ {c} : cancelled'[x] = cancelled[x]
  BY DEF Cancel, IInv, TypeOK
<1>2. c \in Running /\ Running' = Running \ {c} /\ Orphaned'
  BY <1>1 DEF Running, Orphaned, InFlight
<1>3. Replies[c] = "none" /\ Replies' = [Replies EXCEPT ![c] = "error"]
  BY <1>1 DEF Replies, Heard, InFlight
<1>4. Latch!Abandons(c)
  BY <1>2, <1>3 DEF Latch!Abandons, Latch!Hears, Running, Orphaned, Replies
<1> QED BY <1>4 DEF LatchMoves, Latch!LatchNext

\* A crash is the end of the update that runs.
LEMMA CrashLatches ==
    ASSUME IInv, Crash
    PROVE  LatchMoves
<1>1. /\ UNCHANGED cancelled
      /\ \A x \in UpdateCalls :
            /\ ~InFlight(x)'
            /\ InFlight(x) => upc'[x] = "returned" /\ ureply'[x] = "lost"
            /\ ~InFlight(x) => upc'[x] = upc[x] /\ ureply'[x] = ureply[x]
  BY DEF Crash, InFlight
<1>2. Running' = {} /\ ~Orphaned'
  BY <1>1 DEF Running, Orphaned, InFlight
<1>3. CASE \A c \in UpdateCalls : ~InFlight(c)
  <2>1. Running = {} /\ ~Orphaned
    BY <1>3 DEF Running, Orphaned
  <2>2. \A x \in UpdateCalls : upc'[x] = upc[x] /\ ureply'[x] = ureply[x]
    BY <1>1, <1>3
  <2>3. \A x \in UpdateCalls : Heard(x)' = Heard(x)
    BY <1>1, <2>2 DEF Heard
  <2>4. Orphaned' = Orphaned
    BY <1>2, <2>1 DEF Orphaned
  <2> QED BY <1>2, <2>1, <2>3, <2>4 DEF LatchMoves, Unheard, Replies
<1>4. ASSUME NEW c \in UpdateCalls, InFlight(c)
      PROVE  LatchMoves
  <2>1. \A x \in UpdateCalls \ {c} : ~InFlight(x)
    BY <1>4 DEF IInv, LatchInv
  <2>2. CASE cancelled[c]
    <3>1. Running = {} /\ Orphaned
      BY <1>4, <2>1, <2>2 DEF Running, Orphaned
    <3>2. Replies' = Replies
      BY <1>1, <2>1, <2>2 DEF Replies, Heard
    <3>3. Latch!OrphanEnds
      BY <1>2, <3>1, <3>2 DEF Latch!OrphanEnds, Running, Orphaned, Replies
    <3> QED BY <3>3 DEF LatchMoves, Latch!LatchNext
  <2>3. CASE ~cancelled[c]
    <3>1. Running = {c} /\ ~Orphaned
      BY <1>4, <2>1, <2>3 DEF Running, Orphaned
    <3>2. Replies[c] = "none" /\ Replies' = [Replies EXCEPT ![c] = "error"]
      <4>1. Heard(c) = "none" /\ Heard(c)' = "error"
        BY <1>1, <1>4, <2>3, ToldValues DEF Heard, InFlight
      <4>2. \A x \in UpdateCalls \ {c} : Heard(x)' = Heard(x)
        BY <1>1, <2>1 DEF Heard
      <4> QED BY <4>1, <4>2, OneHears
    <3>3. Latch!Ends(c, "error")
      BY <1>2, <3>1, <3>2 DEF Latch!Ends, Latch!Hears, Running, Orphaned, Replies
    <3> QED BY <3>3 DEF LatchMoves, Latch!LatchNext
  <2> QED BY <2>2, <2>3
<1> QED BY <1>3, <1>4

LEMMA StepLatches == IInv /\ ReplyInv /\ [Next]_vars => [Latch!LatchNext]_(Latch!latchVars)
<1> SUFFICES ASSUME IInv, ReplyInv, [Next]_vars
             PROVE  [Latch!LatchNext]_(Latch!latchVars)
  OBVIOUS
<1> USE DEF svcVars, callVars, goVars, statVars
<1>1. ASSUME \/ \E g \in Goroutines : WorkerStep(g)
             \/ \E d \in DropCalls : DropStep(d)
             \/ \E s \in StatsCalls : StatsStep(s)
             \/ NewComic \/ UNCHANGED vars
      PROVE  LatchMoves
  <2>1. UNCHANGED <<upc, ureply, cancelled>>
    BY <1>1 DEF WorkerStep, Receive, Exit, GetComic, GetComicFails, Norm, NormFails,
                AddComic, AddComicFails, Fetching, DropStep, Truncate, TruncateFails,
                PublishDrop, PublishDropFails, StatsStep, Stats, StatsFails, NewComic,
                vars
  <2> QED BY <2>1 DEF LatchMoves, Unheard, Running, Orphaned, Replies, Heard, InFlight
<1>2. LatchMoves
  BY <1>1, UpdateStepLatches, CancelAbandons, CrashLatches DEF Next
<1> QED BY <1>2, UnheardStutters DEF LatchMoves

\* The update service implements the latch that the gateway is built on: across
\* failures, callers that go away and crashes it runs one update at a time, refuses a
\* call only while one runs, answers each call once and gives the latch back.
THEOREM UpdateImplementsLatch == Spec => ImplementsLatch
BY LatchStarts, StepLatches, InvInit, InvStep, ReplyInit, ReplyStep, PTL
   DEF Spec, ImplementsLatch, Latch!LatchSpec
=============================================================================
