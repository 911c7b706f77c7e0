---------------------------- MODULE IndexSyncProofs ----------------------------
(***************************************************************************)
(* Theorems about IndexSync, for any comics, words, channel capacity,      *)
(* backlog and number of restarts, and any of the failures it models.      *)
(*                                                                         *)
(* The safety properties are all but inductive: an event that could rescue *)
(* a stale index moves from the bus to the channel to the goroutine to a   *)
(* reading of the table, and each hand-over keeps it pending.              *)
(***************************************************************************)
EXTENDS IndexSync, SequenceTheorems, TLAPS

-----------------------------------------------------------------------------
(***************************************************************************)
(* The bus.                                                                *)
(***************************************************************************)

InTransit(t) == \E n \in DOMAIN bus : bus[n] = t

LEMMA Published ==
    ASSUME bus \in Seq(Topics), NEW t \in Topics, bus' = Append(bus, t)
    PROVE  /\ bus' \in Seq(Topics)
           /\ InTransit(t)'
           /\ \A x \in Topics : InTransit(x) => InTransit(x)'
<1>1. /\ bus' \in Seq(Topics) /\ Len(bus') = Len(bus) + 1 /\ bus'[Len(bus) + 1] = t
      /\ \A n \in 1 .. Len(bus) : bus'[n] = bus[n]
  BY AppendProperties
<1>2. DOMAIN bus = 1 .. Len(bus) /\ DOMAIN bus' = 1 .. Len(bus')
  BY <1>1, LenProperties
<1>3. Len(bus) \in Nat
  BY LenProperties
<1> QED BY <1>1, <1>2, <1>3 DEF InTransit

LEMMA Delivered ==
    ASSUME bus \in Seq(Topics), bus # <<>>, bus' = Tail(bus)
    PROVE  /\ bus' \in Seq(Topics)
           /\ Head(bus) \in Topics
           /\ \A x \in Topics : InTransit(x) => x = Head(bus) \/ InTransit(x)'
           /\ \A x \in Topics : InTransit(x)' => InTransit(x)
           /\ InTransit(Head(bus))
<1>1. /\ bus' \in Seq(Topics) /\ Len(bus') = Len(bus) - 1 /\ Head(bus) \in Topics
      /\ \A n \in 1 .. Len(bus') : bus'[n] = bus[n + 1]
  BY HeadTailProperties
<1>2. DOMAIN bus = 1 .. Len(bus) /\ DOMAIN bus' = 1 .. Len(bus')
  BY <1>1, LenProperties
<1>3. Len(bus) \in Nat \ {0} /\ Head(bus) = bus[1]
  BY LenProperties, EmptySeq
<1>4. \A x \in Topics : InTransit(x) => x = Head(bus) \/ InTransit(x)'
  <2>1. SUFFICES ASSUME NEW n \in 1 .. Len(bus), bus[n] # Head(bus)
                 PROVE  n - 1 \in 1 .. Len(bus') /\ bus'[n - 1] = bus[n]
    BY <1>2 DEF InTransit
  <2>2. n \in 2 .. Len(bus)
    BY <1>3, <2>1
  <2> QED BY <1>1, <1>3, <2>2
<1>5. \A x \in Topics : InTransit(x)' => InTransit(x)
  <2>1. SUFFICES ASSUME NEW n \in 1 .. Len(bus')
                 PROVE  n + 1 \in 1 .. Len(bus) /\ bus'[n] = bus[n + 1]
    BY <1>2 DEF InTransit
  <2> QED BY <1>1, <1>3
<1> QED BY <1>1, <1>2, <1>3, <1>4, <1>5 DEF InTransit

-----------------------------------------------------------------------------
(***************************************************************************)
(* Types.                                                                  *)
(***************************************************************************)

LEMMA IndexTypes ==
    /\ EmptyIndex \in Index
    /\ IndexOf(comics) \in Index
    /\ EmptyTable \in Table
BY DEF EmptyIndex, IndexOf, Index, EmptyTable, Table

LEMMA WriterType ==
    ASSUME WriterTypeOK, WriterNext
    PROVE  WriterTypeOK'
<1> USE DEF WriterTypeOK
<1>1. CASE OpenSession BY <1>1 DEF OpenSession
<1>2. CASE CloseSession
  <2>1. bus' \in Seq(Topics)
    BY <1>2, Published DEF CloseSession, Topics
  <2> QED BY <1>2, <2>1 DEF CloseSession
<1>3. ASSUME NEW i \in Ids, NEW row \in Row, StoreComic(i, row) PROVE WriterTypeOK'
  <2>1. comics' \in Table
    BY <1>3 DEF StoreComic, InsertRow, Table
  <2> QED BY <1>3, <2>1 DEF StoreComic
<1>4. ASSUME NEW d \in DropCalls, DropTable(d) \/ DropSilently(d) PROVE WriterTypeOK'
  BY <1>4, IndexTypes DEF DropTable, DropSilently
<1>5. ASSUME NEW d \in DropCalls, AnnounceDrop(d) PROVE WriterTypeOK'
  <2>1. bus' \in Seq(Topics)
    BY <1>5, Published DEF AnnounceDrop, Topics
  <2> QED BY <1>5, <2>1 DEF AnnounceDrop
<1>6. CASE LoseEvents BY <1>6 DEF LoseEvents
<1> QED BY <1>1, <1>2, <1>3, <1>4, <1>5, <1>6 DEF WriterNext, WriterWorks, WriterLoses

LEMMA TypeInit == (Init \/ BootedInit) => TypeOK
<1> SUFFICES ASSUME Init \/ BootedInit PROVE TypeOK
  OBVIOUS
<1>1. WriterTypeOK
  BY IndexTypes, EmptySeq DEF Init, BootedInit, WriterInit, WriterTypeOK
<1>2. 0 \in 0 .. ChanCap /\ 0 \in 0 .. MaxRestarts
  BY SyncAssumption
<1> QED BY <1>1, <1>2, IndexTypes DEF Init, BootedInit, TypeOK

LEMMA TypeStep == TypeOK /\ [Next]_vars => TypeOK'
<1> SUFFICES ASSUME TypeOK, [Next]_vars PROVE TypeOK'
  OBVIOUS
<1> USE DEF bootVars, histVars
<1>0. UNCHANGED writerVars => WriterTypeOK'
  BY DEF TypeOK, WriterTypeOK, writerVars
<1>1. CASE WriterStep
  <2>1. WriterTypeOK'
    BY <1>1, WriterType DEF WriterStep, WriterNext, TypeOK
  <2>2. lost' \in BOOLEAN /\ raced' \in BOOLEAN /\ dropped' \in BOOLEAN
    BY <1>1 DEF WriterStep, TypeOK, SnapshotInHand, Truncates
  <2> QED BY <1>1, <2>1, <2>2 DEF WriterStep, TypeOK
<1>2. CASE Deliver
  <2>1. WriterTypeOK' /\ Head(bus) \in Topics
    BY <1>2, Delivered DEF Deliver, TypeOK, WriterTypeOK
  <2>2. ch' \in [Topics -> 0 .. ChanCap]
    BY <1>2, <2>1, SyncAssumption DEF Deliver, TypeOK
  <2>3. lost' \in BOOLEAN
    BY <1>2 DEF Deliver, TypeOK
  <2> QED BY <1>2, <2>1, <2>2, <2>3 DEF Deliver, TypeOK
<1>3. CASE Boot
  <2>1. CASE BootRead \/ BootSwap
    BY <1>0, <2>1, IndexTypes
       DEF BootRead, BootSwap, ReadTable, ReadFails, SwapIndex, TypeOK
  <2>2. CASE BootSubscribe
    BY <1>0, <2>2 DEF BootSubscribe, Subscribe, Topics, TypeOK
  <2> QED BY <1>3, <2>1, <2>2 DEF Boot
<1>4. ASSUME NEW t \in Topics, HandlerStep(t) PROVE TypeOK'
  <2>1. CASE Receive(t) \/ Drain(t)
    <3>1. ch' \in [Topics -> 0 .. ChanCap]
      BY <2>1, SyncAssumption DEF Receive, Drain, TypeOK
    <3> QED BY <1>0, <2>1, <3>1 DEF Receive, Drain, GoTo, TypeOK
  <2>2. CASE Drained(t)
    BY <1>0, <2>2 DEF Drained, GoTo, TypeOK
  <2> QED BY <1>4, <2>1, <2>2 DEF HandlerStep
<1>5. CASE HandlerRead \/ HandlerSwap \/ HandlerReset
  BY <1>0, <1>5, IndexTypes
     DEF HandlerRead, HandlerSwap, HandlerReset, ReadTable, ReadFails, SwapIndex, GoTo,
         Topics, TypeOK
<1>6. CASE Restart
  <2>1. restarts' \in 0 .. MaxRestarts /\ 0 \in 0 .. ChanCap
    BY <1>6, SyncAssumption DEF Restart, TypeOK
  <2> QED BY <1>0, <1>6, <2>1, IndexTypes DEF Restart, TypeOK
<1>7. CASE UNCHANGED vars
  BY <1>0, <1>7 DEF vars, TypeOK
<1>8. {"updated", "drop"} = Topics
  BY DEF Topics
<1> QED BY <1>1, <1>2, <1>3, <1>4, <1>5, <1>6, <1>7, <1>8
        DEF Next, UpdatedHandler, DropHandler

\* Every variable keeps its type; in particular no channel exceeds its capacity.
THEOREM TypeCorrect == Spec => []TypeOK
BY TypeInit, TypeStep, PTL DEF Spec

-----------------------------------------------------------------------------
(***************************************************************************)
(* An event is handed over from the bus to the channel to the goroutine,   *)
(* and stays pending until its handler acts, unless it is lost or the      *)
(* service restarts.                                                       *)
(***************************************************************************)

LEMMA PendingIs ==
    ASSUME NEW t
    PROVE  EventPending(t) <=> \/ InTransit(t)
                               \/ ch[t] > 0
                               \/ hpc[t] \in {"drain", "read", "reset"}
BY DEF EventPending, InTransit

LEMMA PendingIsNext ==
    ASSUME NEW t
    PROVE  EventPending(t)' <=> \/ InTransit(t)'
                                \/ ch'[t] > 0
                                \/ hpc'[t] \in {"drain", "read", "reset"}
BY DEF EventPending, InTransit

\* A subject's goroutine starts when main subscribes, and not before.
BootInv ==
    /\ pc \in {"read", "swap", "subUpdated"} => hpc["updated"] = "off"
    /\ pc # "up" => hpc["drop"] = "off"

LEMMA BootInit == (Init \/ BootedInit) => BootInv
BY DEF Init, BootedInit, BootInv, Topics

LEMMA BootStep == TypeOK /\ BootInv /\ [Next]_vars => BootInv'
BY DEF Next, Boot, BootRead, BootSwap, BootSubscribe, Subscribe, WriterStep, Deliver,
       UpdatedHandler, DropHandler, HandlerStep, Receive, Drain, Drained, HandlerRead,
       HandlerSwap, HandlerReset, GoTo, Restart, vars, bootVars, BootInv, TypeOK, Topics

\* The steps that only move events and start goroutines.
Quiet ==
    \/ Deliver \/ BootSubscribe
    \/ \E t \in Topics : HandlerStep(t)
    \/ UNCHANGED vars

LEMMA QuietSteps ==
    ASSUME TypeOK, BootInv, Quiet
    PROVE  /\ UNCHANGED <<comics, session, dropsOwed, index, newIndex, raced, dropped>>
           /\ SnapshotInHand' <=> SnapshotInHand
<1> USE DEF bootVars, histVars, writerVars
<1>1. CASE Deliver \/ UNCHANGED vars
  BY <1>1 DEF Deliver, vars, SnapshotInHand
<1>2. CASE BootSubscribe
  BY <1>2 DEF BootSubscribe, Subscribe, BootInv, SnapshotInHand, TypeOK, Topics
<1>3. ASSUME NEW t \in Topics, HandlerStep(t)
      PROVE  /\ UNCHANGED <<comics, session, dropsOwed, index, newIndex, raced, dropped>>
             /\ SnapshotInHand' <=> SnapshotInHand
  BY <1>3 DEF HandlerStep, Receive, Drain, Drained, GoTo, SnapshotInHand, TypeOK, Topics
<1> QED BY <1>1, <1>2, <1>3 DEF Quiet

\* At most one of the two callers of BuildIndex is between its reading and its swap.
LEMMA SwapSteps ==
    ASSUME TypeOK, BootInv, BootSwap \/ HandlerSwap
    PROVE  /\ SnapshotInHand /\ ~SnapshotInHand'
           /\ index' = newIndex
           /\ UNCHANGED <<comics, newIndex, raced, dropped>>
<1>1. CASE BootSwap
  BY <1>1 DEF BootSwap, SwapIndex, SnapshotInHand, BootInv, histVars, writerVars
<1>2. CASE HandlerSwap
  BY <1>2 DEF HandlerSwap, SwapIndex, GoTo, SnapshotInHand, BootInv, TypeOK, Topics,
              bootVars, histVars, writerVars
<1> QED BY <1>1, <1>2

LEMMA ReadSteps ==
    ASSUME TypeOK, BootInv, BootRead \/ HandlerRead
    PROVE  /\ UNCHANGED <<comics, index>>
           /\ \/ SnapshotInHand' /\ newIndex' = IndexOf(comics)
              \/ ~SnapshotInHand' /\ lost' /\ UNCHANGED newIndex
<1>1. CASE BootRead
  BY <1>1 DEF BootRead, ReadTable, ReadFails, SnapshotInHand, BootInv, writerVars
<1>2. CASE HandlerRead
  BY <1>2 DEF HandlerRead, ReadTable, ReadFails, GoTo, SnapshotInHand, BootInv, TypeOK,
              Topics, bootVars, writerVars
<1> QED BY <1>1, <1>2

\* The handler of subject t acts.
Handles(t) == IF t = "updated" THEN HandlerRead ELSE HandlerReset

LEMMA WriterKeepsEvents ==
    ASSUME TypeOK, WriterNext, NEW t \in Topics, InTransit(t)
    PROVE  InTransit(t)'
<1>1. bus \in Seq(Topics)
  BY DEF TypeOK, WriterTypeOK
<1>2. \/ bus' = bus
      \/ bus' = Append(bus, "updated")
      \/ bus' = Append(bus, "drop")
  BY DEF WriterNext, WriterWorks, WriterLoses, OpenSession, CloseSession, StoreComic,
         DropTable, AnnounceDrop, DropSilently, LoseEvents
<1> QED BY <1>1, <1>2, Published DEF InTransit, Topics

LEMMA EventKept ==
    ASSUME TypeOK, BootInv, [Next]_vars, NEW t \in Topics, EventPending(t), ~Handles(t),
           ~lost', pc' # "read"
    PROVE  EventPending(t)'
<1> USE DEF bootVars, histVars, GoTo
<1>1. CASE WriterStep
  <2>1. UNCHANGED <<ch, hpc>> /\ WriterNext
    BY <1>1 DEF WriterStep, WriterNext
  <2> QED BY <2>1, WriterKeepsEvents, PendingIs, PendingIsNext
<1>2. CASE Deliver
  <2>1. bus \in Seq(Topics) /\ bus # <<>> /\ bus' = Tail(bus) /\ UNCHANGED hpc
    BY <1>2 DEF Deliver, TypeOK, WriterTypeOK
  <2>2. InTransit(t) => t = Head(bus) \/ InTransit(t)'
    BY <2>1, Delivered
  <2>3. ch[t] > 0 => ch'[t] > 0
    BY <1>2 DEF Deliver, TypeOK
  <2>4. t = Head(bus) => ch'[t] > 0
    <3>1. SUFFICES ASSUME t = Head(bus) PROVE ch'[t] > 0
      OBVIOUS
    <3>2. t \in subscribed
      BY <1>2, <3>1 DEF Deliver
    <3>3. ch[t] \in 0 .. ChanCap /\ ChanCap > 0
      BY SyncAssumption DEF TypeOK
    <3>4. CASE ch[t] < ChanCap
      <4>1. ch' = [ch EXCEPT ![t] = ch[t] + 1]
        BY <1>2, <3>1, <3>2, <3>4 DEF Deliver
      <4> QED BY <3>3, <4>1 DEF TypeOK
    <3>5. CASE ~(ch[t] < ChanCap)
      BY <1>2, <3>1, <3>3, <3>5 DEF Deliver
    <3> QED BY <3>4, <3>5
  <2> QED BY <2>1, <2>2, <2>3, <2>4, PendingIs, PendingIsNext
<1>3. CASE BootRead \/ BootSwap \/ HandlerSwap \/ HandlerRead \/ HandlerReset
  <2>1. UNCHANGED <<bus, ch>>
    BY <1>3 DEF BootRead, BootSwap, HandlerSwap, HandlerRead, HandlerReset, writerVars
  <2>2. hpc[t] \in {"drain", "read", "reset"} => hpc'[t] = hpc[t]
    BY <1>3 DEF BootRead, BootSwap, HandlerSwap, HandlerRead, HandlerReset, Handles,
                Topics, TypeOK
  <2> QED BY <2>1, <2>2, PendingIs, PendingIsNext DEF InTransit
<1>4. CASE BootSubscribe
  <2>1. UNCHANGED <<bus, ch>>
    BY <1>4 DEF BootSubscribe, Subscribe, writerVars
  <2>2. hpc'[t] = hpc[t] \/ hpc[t] \notin {"drain", "read", "reset"}
    BY <1>4 DEF BootInv, BootSubscribe, Subscribe, Topics, TypeOK
  <2> QED BY <2>1, <2>2, PendingIs, PendingIsNext DEF InTransit
<1>5. ASSUME NEW u \in Topics, HandlerStep(u) PROVE EventPending(t)'
  <2>1. UNCHANGED bus
    BY <1>5 DEF HandlerStep, Receive, Drain, Drained, writerVars
  <2>2. CASE u = t
    <3>1. hpc'[t] \in {"drain", "read", "reset"}
      BY <1>5, <2>2 DEF HandlerStep, Receive, Drain, Drained, TypeOK
    <3> QED BY <3>1, PendingIsNext
  <2>3. CASE u # t
    <3>1. ch'[t] = ch[t] /\ hpc'[t] = hpc[t]
      BY <1>5, <2>3 DEF HandlerStep, Receive, Drain, Drained, TypeOK
    <3> QED BY <2>1, <3>1, PendingIs, PendingIsNext DEF InTransit
  <2> QED BY <2>2, <2>3
<1>6. CASE Restart
  BY <1>6 DEF Restart
<1>7. CASE UNCHANGED vars
  BY <1>7, PendingIs, PendingIsNext DEF vars, writerVars, InTransit
<1> QED BY <1>1, <1>2, <1>3, <1>4, <1>5, <1>6, <1>7
        DEF Next, Boot, UpdatedHandler, DropHandler, Topics

-----------------------------------------------------------------------------
(***************************************************************************)
(* What brings the index back to the table, and stays until it has.        *)
(***************************************************************************)

\* A reading of the table is to come, or one that should have come is lost.
Rescue == EventPending("updated") \/ pc = "read" \/ lost

LEMMA RescueKept ==
    ASSUME TypeOK, BootInv, [Next]_vars, Rescue, ~HandlerRead, ~BootRead
    PROVE  Rescue'
<1>1. CASE EventPending("updated")
  BY <1>1, EventKept DEF Rescue, Handles, Topics
<1>2. CASE lost
  BY <1>2 DEF Rescue, Next, WriterStep, Deliver, Boot, BootSwap, BootSubscribe,
              Subscribe, SwapIndex, UpdatedHandler, DropHandler, HandlerStep, Receive,
              Drain, Drained, HandlerSwap, HandlerReset, Restart, vars, histVars
<1>3. CASE pc = "read"
  BY <1>3 DEF Rescue, Next, WriterStep, Deliver, Boot, BootSwap, BootSubscribe,
              Subscribe, UpdatedHandler, DropHandler, HandlerStep, Receive, Drain,
              Drained, HandlerSwap, HandlerReset, Restart, vars, bootVars
<1> QED BY <1>1, <1>2, <1>3 DEF Rescue

\* A reset of the index is to come, or a rescue.
Exorcist ==
    \/ dropsOwed # {} \/ EventPending("drop")
    \/ EventPending("updated") \/ pc = "read"
    \/ lost

LEMMA ExorcistKept ==
    ASSUME TypeOK, BootInv, [Next]_vars, Exorcist, ~HandlerRead, ~BootRead, ~HandlerReset
    PROVE  Exorcist'
<1>1. CASE Rescue
  BY <1>1, RescueKept DEF Rescue, Exorcist
<1>2. CASE EventPending("drop")
  BY <1>2, EventKept DEF Exorcist, Handles, Topics
<1>3. CASE dropsOwed # {}
  <2>1. CASE WriterStep
    <3>1. ASSUME NEW d \in DropCalls, AnnounceDrop(d) PROVE InTransit("drop")'
      BY <3>1, Published DEF AnnounceDrop, TypeOK, WriterTypeOK, Topics
    <3>2. ASSUME ~lost', \A d \in DropCalls : ~AnnounceDrop(d) PROVE dropsOwed' # {}
      BY <1>3, <2>1, <3>2
         DEF WriterStep, WriterWorks, OpenSession, CloseSession, StoreComic, DropTable
    <3> QED BY <3>1, <3>2, PendingIsNext DEF Exorcist
  <2>2. CASE ~WriterStep
    <3>1. UNCHANGED dropsOwed
      BY <2>2
         DEF Next, Deliver, Boot, BootRead, BootSwap, BootSubscribe, Subscribe,
             UpdatedHandler, DropHandler, HandlerStep, Receive, Drain, Drained,
             HandlerRead, HandlerSwap, HandlerReset, Restart, vars, writerVars
    <3> QED BY <1>3, <3>1 DEF Exorcist
  <2> QED BY <2>1, <2>2
<1> QED BY <1>1, <1>2, <1>3 DEF Exorcist, Rescue

-----------------------------------------------------------------------------
(***************************************************************************)
(* StaleMeansPending.                                                      *)
(***************************************************************************)

\* A snapshot of the table is good until the table changes; an index reset under a
\* snapshot is repaired by its swap.
StaleInv ==
    ~session =>
        /\ Fresh(index) \/ SnapshotInHand \/ Exorcist \/ raced
        /\ SnapshotInHand => Fresh(newIndex) \/ Rescue \/ raced

LEMMA StaleInvSuffices == StaleInv => StaleMeansPending
BY DEF StaleInv, StaleMeansPending, Exorcist, Rescue, RebuildPending

LEMMA StaleStep == TypeOK /\ BootInv /\ StaleInv /\ [Next]_vars => StaleInv'
<1> SUFFICES ASSUME TypeOK, BootInv, StaleInv, [Next]_vars, ~session'
             PROVE  /\ Fresh(index)' \/ SnapshotInHand' \/ Exorcist' \/ raced'
                    /\ SnapshotInHand' => Fresh(newIndex)' \/ Rescue' \/ raced'
  BY DEF StaleInv
<1> USE DEF bootVars, histVars
<1>1. \A ind : Fresh(ind) <=> ind = IndexOf(comics)
  BY DEF Fresh
<1>2. /\ Fresh(index)' <=> index' = IndexOf(comics')
      /\ Fresh(newIndex)' <=> newIndex' = IndexOf(comics')
  BY DEF Fresh, IndexOf
<1>3. Rescue' => Exorcist'
  BY DEF Rescue, Exorcist
<1>4. ASSUME ~BootRead, ~HandlerRead PROVE Rescue => Rescue'
  BY <1>4, RescueKept
<1>5. ASSUME ~BootRead, ~HandlerRead, ~HandlerReset PROVE Exorcist => Exorcist'
  BY <1>5, ExorcistKept
<1>6. CASE BootRead \/ HandlerRead
  <2>1. lost' => Rescue'
    BY DEF Rescue
  <2> QED BY <1>2, <1>3, <1>6, <2>1, ReadSteps
<1>7. ASSUME BootSwap \/ HandlerSwap, ~BootRead, ~HandlerRead PROVE
        /\ Fresh(index)' \/ SnapshotInHand' \/ Exorcist' \/ raced'
        /\ SnapshotInHand' => Fresh(newIndex)' \/ Rescue' \/ raced'
  <2>1. ~session
    BY <1>7 DEF BootSwap, HandlerSwap, writerVars
  <2> QED BY <1>1, <1>2, <1>3, <1>4, <1>7, <2>1, SwapSteps DEF StaleInv
<1>8. ASSUME HandlerReset, ~BootRead, ~HandlerRead PROVE
        /\ Fresh(index)' \/ SnapshotInHand' \/ Exorcist' \/ raced'
        /\ SnapshotInHand' => Fresh(newIndex)' \/ Rescue' \/ raced'
  <2>1. /\ ~session /\ UNCHANGED <<comics, newIndex>> /\ index' = EmptyIndex
        /\ raced' = (raced \/ (~SnapshotInHand /\ IndexOf(comics) # EmptyIndex))
    BY <1>8 DEF HandlerReset, writerVars
  <2>2. SnapshotInHand' <=> SnapshotInHand
    BY <1>8 DEF HandlerReset, GoTo, SnapshotInHand, TypeOK, Topics
  <2>3. raced' <=> raced \/ (~SnapshotInHand /\ IndexOf(comics) # EmptyIndex)
    BY <2>1 DEF TypeOK
  <2> QED BY <1>1, <1>2, <1>4, <1>8, <2>1, <2>2, <2>3 DEF StaleInv
<1>9. CASE Restart
  <2>1. Exorcist' /\ ~SnapshotInHand'
    BY <1>9 DEF Restart, Exorcist, SnapshotInHand, Topics
  <2> QED BY <2>1
<1>10. ASSUME Quiet, ~BootRead, ~HandlerRead, ~HandlerReset PROVE
        /\ Fresh(index)' \/ SnapshotInHand' \/ Exorcist' \/ raced'
        /\ SnapshotInHand' => Fresh(newIndex)' \/ Rescue' \/ raced'
  BY <1>1, <1>2, <1>4, <1>5, <1>10, QuietSteps DEF StaleInv
<1>11. ASSUME WriterStep, ~BootRead, ~HandlerRead, ~HandlerReset PROVE
        /\ Fresh(index)' \/ SnapshotInHand' \/ Exorcist' \/ raced'
        /\ SnapshotInHand' => Fresh(newIndex)' \/ Rescue' \/ raced'
  <2>1. UNCHANGED <<index, newIndex>> /\ (SnapshotInHand' <=> SnapshotInHand)
    BY <1>11 DEF WriterStep, SnapshotInHand
  <2>2. raced' <=> raced \/ (SnapshotInHand /\ Truncates)
    BY <1>11 DEF WriterStep, TypeOK
  <2>3. \/ Truncates /\ (dropsOwed' # {} \/ lost')
        \/ UNCHANGED comics
        \/ \E i \in Ids, row \in Row : StoreComic(i, row)
    BY <1>11 DEF WriterStep, WriterWorks, WriterLoses, OpenSession, CloseSession, DropTable,
                AnnounceDrop, DropSilently, LoseEvents, Truncates
  <2>4. CASE session
    <3>1. CASE CloseSession
      <4>1. InTransit("updated")'
        BY <3>1, Published DEF CloseSession, TypeOK, WriterTypeOK, Topics
      <4> QED BY <1>3, <4>1, PendingIsNext DEF Rescue
    <3>2. CASE ~CloseSession
      <4>1. lost'
        BY <1>11, <2>4, <3>2
           DEF WriterStep, WriterWorks, OpenSession, StoreComic, DropTable, AnnounceDrop
      <4> QED BY <1>3, <4>1 DEF Rescue
    <3> QED BY <3>1, <3>2
  <2>5. ASSUME ~session, Truncates /\ (dropsOwed' # {} \/ lost') PROVE
          /\ Fresh(index)' \/ SnapshotInHand' \/ Exorcist' \/ raced'
          /\ SnapshotInHand' => Fresh(newIndex)' \/ Rescue' \/ raced'
    BY <2>1, <2>2, <2>5 DEF Exorcist
  <2>6. ASSUME ~session, UNCHANGED comics PROVE
          /\ Fresh(index)' \/ SnapshotInHand' \/ Exorcist' \/ raced'
          /\ SnapshotInHand' => Fresh(newIndex)' \/ Rescue' \/ raced'
    BY <1>1, <1>2, <1>4, <1>5, <1>11, <2>1, <2>2, <2>6 DEF StaleInv
  <2>7. ASSUME ~session, NEW i \in Ids, NEW row \in Row PROVE ~StoreComic(i, row)
    BY <2>7 DEF StoreComic
  <2> QED BY <2>3, <2>4, <2>5, <2>6, <2>7
<1> QED BY <1>6, <1>7, <1>8, <1>9, <1>10, <1>11
        DEF Quiet, Next, Boot, UpdatedHandler, DropHandler, Topics

LEMMA StaleInit == (Init \/ BootedInit) => StaleInv
<1> SUFFICES ASSUME Init \/ BootedInit PROVE StaleInv
  OBVIOUS
<1>1. comics = EmptyTable
  BY DEF Init, BootedInit, WriterInit
<1>2. IndexOf(comics) = EmptyIndex
  BY <1>1 DEF IndexOf, EmptyIndex, EmptyTable, NoRow
<1>3. Fresh(index) /\ Fresh(newIndex)
  BY <1>2 DEF Init, BootedInit, Fresh
<1> QED BY <1>3 DEF StaleInv

\* While no update is writing, an index that is out of date has a rebuild or a drop
\* on its way, unless an announcement was lost or a drop raced a rebuild:
\* coalescing a burst of events, a full channel, a failed GetAll and a restart
\* leave no other way to miss a change of the table.
THEOREM NoUpdateMissed == Spec => []StaleMeansPending
<1>1. Init => TypeOK /\ BootInv /\ StaleInv
  BY TypeInit, BootInit, StaleInit
<1>2. TypeOK /\ BootInv /\ StaleInv /\ [Next]_vars => (TypeOK /\ BootInv /\ StaleInv)'
  BY TypeStep, BootStep, StaleStep
<1>3. StaleInv => StaleMeansPending
  BY StaleInvSuffices
<1> QED BY <1>1, <1>2, <1>3, PTL DEF Spec

-----------------------------------------------------------------------------
(***************************************************************************)
(* GhostMeansPending.                                                      *)
(***************************************************************************)

\* A snapshot has a ghost only if the table was truncated behind it.
GhostInv ==
    /\ HasGhost(index) => Exorcist \/ SnapshotInHand \/ raced
    /\ SnapshotInHand /\ HasGhost(newIndex) => raced

LEMMA GhostInvSuffices == GhostInv => GhostMeansPending
BY DEF GhostInv, GhostMeansPending, Exorcist

\* Storing a comic makes no ghosts.
LEMMA StoringMakesNoGhosts ==
    ASSUME TypeOK, NEW i \in Ids, NEW row \in Row, StoreComic(i, row), NEW w \in Words
    PROVE  IndexOf(comics)[w] \subseteq IndexOf(comics')[w]
BY DEF StoreComic, InsertRow, IndexOf, TypeOK, WriterTypeOK, Table, Row, NoRow

LEMMA GhostStep == TypeOK /\ BootInv /\ GhostInv /\ [Next]_vars => GhostInv'
<1> SUFFICES ASSUME TypeOK, BootInv, GhostInv, [Next]_vars PROVE GhostInv'
  OBVIOUS
<1> USE DEF bootVars, histVars
<1>1. \A ind : HasGhost(ind) <=> \E w \in Words : ~(ind[w] \subseteq IndexOf(comics)[w])
  BY DEF HasGhost
<1>2. /\ HasGhost(index)' <=> \E w \in Words : ~(index'[w] \subseteq IndexOf(comics')[w])
      /\ HasGhost(newIndex)' <=>
            \E w \in Words : ~(newIndex'[w] \subseteq IndexOf(comics')[w])
  BY DEF HasGhost, IndexOf
<1>3. CASE BootRead \/ HandlerRead
  <2>1. lost' => Exorcist'
    BY DEF Exorcist
  <2> QED BY <1>1, <1>2, <1>3, <2>1, ReadSteps DEF GhostInv
<1>4. CASE BootSwap \/ HandlerSwap
  BY <1>1, <1>2, <1>4, SwapSteps DEF GhostInv
<1>5. CASE HandlerReset
  BY <1>1, <1>2, <1>5
     DEF HandlerReset, EmptyIndex, GoTo, SnapshotInHand, GhostInv, TypeOK, Topics, writerVars
<1>6. CASE Restart
  <2>1. Exorcist' /\ ~SnapshotInHand'
    BY <1>6 DEF Restart, Exorcist, SnapshotInHand, Topics
  <2> QED BY <2>1 DEF GhostInv
<1>7. ASSUME Quiet, ~BootRead, ~HandlerRead, ~HandlerReset PROVE GhostInv'
  <2>1. Exorcist => Exorcist'
    BY <1>7, ExorcistKept
  <2> QED BY <1>1, <1>2, <1>7, <2>1, QuietSteps DEF GhostInv
<1>8. ASSUME WriterStep, ~BootRead, ~HandlerRead, ~HandlerReset PROVE GhostInv'
  <2>1. UNCHANGED <<index, newIndex>> /\ (SnapshotInHand' <=> SnapshotInHand)
    BY <1>8 DEF WriterStep, SnapshotInHand
  <2>2. raced' <=> raced \/ (SnapshotInHand /\ Truncates)
    BY <1>8 DEF WriterStep, TypeOK
  <2>3. \/ Truncates /\ (dropsOwed' # {} \/ lost')
        \/ UNCHANGED comics
        \/ \E i \in Ids, row \in Row : StoreComic(i, row)
    BY <1>8 DEF WriterStep, WriterWorks, WriterLoses, OpenSession, CloseSession, DropTable,
                AnnounceDrop, DropSilently, LoseEvents, Truncates
  <2>4. Exorcist => Exorcist'
    BY <1>8, ExorcistKept
  <2>5. CASE Truncates /\ (dropsOwed' # {} \/ lost')
    BY <2>1, <2>2, <2>5 DEF GhostInv, Exorcist
  <2>6. CASE UNCHANGED comics
    BY <1>1, <1>2, <2>1, <2>2, <2>4, <2>6 DEF GhostInv
  <2>7. ASSUME NEW i \in Ids, NEW row \in Row, StoreComic(i, row) PROVE GhostInv'
    <3>1. \A w \in Words : IndexOf(comics)[w] \subseteq IndexOf(comics')[w]
      BY <2>7, StoringMakesNoGhosts
    <3> QED BY <1>1, <1>2, <2>1, <2>2, <2>4, <3>1 DEF GhostInv
  <2> QED BY <2>3, <2>5, <2>6, <2>7
<1> QED BY <1>3, <1>4, <1>5, <1>6, <1>7, <1>8
        DEF Quiet, Next, Boot, UpdatedHandler, DropHandler, Topics

\* The index finds a dropped comic only while something that will rid it of the
\* comic is on its way, unless an announcement was lost or the table was truncated
\* between a rebuild's reading and its swap.
THEOREM GhostsAreTransient == Spec => []GhostMeansPending
<1>1. Init => TypeOK /\ BootInv /\ GhostInv
  <2>1. Init => GhostInv
    BY DEF Init, GhostInv, HasGhost, EmptyIndex, SnapshotInHand, Topics
  <2> QED BY <2>1, TypeInit, BootInit
<1>2. TypeOK /\ BootInv /\ GhostInv /\ [Next]_vars => (TypeOK /\ BootInv /\ GhostInv)'
  BY TypeStep, BootStep, GhostStep
<1>3. GhostInv => GhostMeansPending
  BY GhostInvSuffices
<1> QED BY <1>1, <1>2, <1>3, PTL DEF Spec

-----------------------------------------------------------------------------
(***************************************************************************)
(* IndexNeverRegresses.                                                    *)
(***************************************************************************)

LEMMA DroppedStays == TypeOK /\ [Next]_vars => (dropped => dropped')
BY DEF Next, WriterStep, Deliver, Boot, BootRead, BootSwap, BootSubscribe, Subscribe,
       ReadTable, ReadFails, SwapIndex, UpdatedHandler, DropHandler, HandlerStep, Receive,
       Drain, Drained, HandlerRead, HandlerSwap, HandlerReset, Restart, vars, histVars

\* Until somebody drops the table there is no drop event to handle.
NoDropInv ==
    ~dropped => dropsOwed = {} /\ ~EventPending("drop")

LEMMA NoDropInit == (Init \/ BootedInit) => NoDropInv
BY DEF Init, BootedInit, WriterInit, EventPending, NoDropInv, Topics

LEMMA NoDropStep == TypeOK /\ NoDropInv /\ [Next]_vars => NoDropInv'
<1> SUFFICES ASSUME TypeOK, NoDropInv, [Next]_vars, ~dropped'
             PROVE  dropsOwed' = {} /\ ~EventPending("drop")'
  BY DEF NoDropInv
<1>0. ~dropped
  BY DroppedStays
<1> USE DEF bootVars, histVars
<1>1. ~InTransit("drop") /\ ch["drop"] = 0 /\ hpc["drop"] \notin {"drain", "read", "reset"}
  BY <1>0, PendingIs DEF NoDropInv, TypeOK, Topics
<1>2. dropsOwed = {} /\ dropsOwed' = {}
  BY <1>0 DEF NoDropInv, Next, WriterStep, WriterWorks, WriterLoses, OpenSession,
         CloseSession, StoreComic, LoseEvents, Deliver, Boot, BootRead, BootSwap,
         BootSubscribe, Subscribe, UpdatedHandler, DropHandler, HandlerStep, Receive,
         Drain, Drained, HandlerRead, HandlerSwap, HandlerReset, Restart, vars, writerVars
<1>3. ~InTransit("drop")'
  <2>1. CASE WriterStep
    <3>1. bus' = bus \/ bus' = Append(bus, "updated")
      BY <1>2, <2>1 DEF WriterStep, WriterWorks, WriterLoses, OpenSession, CloseSession,
                  StoreComic, LoseEvents, DropTable, DropSilently, AnnounceDrop
    <3>2. CASE bus' = Append(bus, "updated")
      <4>1. bus \in Seq(Topics)
        BY DEF TypeOK, WriterTypeOK
      <4>2. /\ Len(bus') = Len(bus) + 1 /\ bus'[Len(bus) + 1] = "updated"
            /\ \A n \in 1 .. Len(bus) : bus'[n] = bus[n]
            /\ DOMAIN bus = 1 .. Len(bus) /\ DOMAIN bus' = 1 .. Len(bus')
            /\ Len(bus) \in Nat
        BY <3>2, <4>1, AppendProperties, LenProperties DEF Topics
      <4> QED BY <1>1, <4>2 DEF InTransit
    <3> QED BY <1>1, <3>1, <3>2 DEF InTransit
  <2>2. CASE Deliver
    BY <1>1, <2>2, Delivered DEF Deliver, TypeOK, WriterTypeOK, Topics
  <2>3. CASE ~WriterStep /\ ~Deliver
    <3>1. UNCHANGED bus
      BY <2>3
         DEF Next, Boot, BootRead, BootSwap, BootSubscribe, Subscribe, UpdatedHandler,
             DropHandler, HandlerStep, Receive, Drain, Drained, HandlerRead,
             HandlerSwap, HandlerReset, Restart, vars, writerVars
    <3> QED BY <1>1, <3>1 DEF InTransit
  <2> QED BY <2>1, <2>2, <2>3
<1>4. ch'["drop"] = 0 /\ hpc'["drop"] \notin {"drain", "read", "reset"}
  <2>1. CASE Deliver
    <3>1. Head(bus) # "drop"
      BY <1>1, <2>1, Delivered DEF Deliver, TypeOK, WriterTypeOK
    <3> QED BY <1>1, <2>1, <3>1 DEF Deliver, TypeOK, Topics
  <2>2. CASE ~Deliver
    BY <1>1, <2>2
       DEF Next, WriterStep, Boot, BootRead, BootSwap, BootSubscribe, Subscribe,
           UpdatedHandler, DropHandler, HandlerStep, Receive, Drain, Drained,
           HandlerRead, HandlerSwap, HandlerReset, GoTo, Restart, vars, TypeOK, Topics
  <2> QED BY <2>1, <2>2
<1> QED BY <1>2, <1>3, <1>4, PendingIsNext

\* Until somebody drops the table, the index, the snapshot and the table only grow,
\* in that order.
GrowthInv ==
    ~dropped => \A w \in Words :
        /\ index[w] \subseteq IndexOf(comics)[w]
        /\ SnapshotInHand => index[w] \subseteq newIndex[w]
        /\ SnapshotInHand => newIndex[w] \subseteq IndexOf(comics)[w]

LEMMA GrowthStep ==
    TypeOK /\ BootInv /\ NoDropInv /\ GrowthInv /\ [Next]_vars
        => /\ GrowthInv'
           /\ ~dropped' /\ restarts' = restarts =>
                  \A w \in Words : index[w] \subseteq index'[w]
<1> SUFFICES ASSUME TypeOK, BootInv, NoDropInv, GrowthInv, [Next]_vars, ~dropped'
             PROVE  GrowthInv' /\ (restarts' = restarts =>
                                    \A w \in Words : index[w] \subseteq index'[w])
  BY DEF GrowthInv
<1>0. ~dropped
  BY DroppedStays
<1>1. CASE BootRead \/ HandlerRead
  <2>1. IndexOf(comics)' = IndexOf(comics)
    BY <1>1, ReadSteps DEF IndexOf
  <2> QED BY <1>0, <1>1, <2>1, ReadSteps DEF GrowthInv
<1>2. CASE BootSwap \/ HandlerSwap
  <2>1. IndexOf(comics)' = IndexOf(comics)
    BY <1>2, SwapSteps DEF IndexOf
  <2> QED BY <1>0, <1>2, <2>1, SwapSteps DEF GrowthInv
<1>3. ~HandlerReset
  BY <1>0, PendingIs DEF NoDropInv, HandlerReset
<1>4. CASE Restart
  <2>1. restarts' # restarts
    BY <1>4 DEF Restart, TypeOK
  <2>2. ~SnapshotInHand' /\ \A w \in Words : index'[w] = {}
    BY <1>4 DEF Restart, SnapshotInHand, EmptyIndex, Topics
  <2> QED BY <2>1, <2>2 DEF GrowthInv
<1>5. CASE Quiet
  <2>1. IndexOf(comics)' = IndexOf(comics)
    BY <1>5, QuietSteps DEF IndexOf
  <2> QED BY <1>0, <1>5, <2>1, QuietSteps DEF GrowthInv
<1>6. CASE WriterStep
  <2>1. UNCHANGED <<index, newIndex>> /\ (SnapshotInHand' <=> SnapshotInHand)
    BY <1>6 DEF WriterStep, SnapshotInHand, bootVars
  <2>2. UNCHANGED comics \/ \E i \in Ids, row \in Row : StoreComic(i, row)
    BY <1>6 DEF WriterStep, WriterWorks, WriterLoses, OpenSession, CloseSession, LoseEvents,
                DropTable, DropSilently, AnnounceDrop, Truncates
  <2>3. \A w \in Words : IndexOf(comics)[w] \subseteq IndexOf(comics')[w]
    BY <2>2, StoringMakesNoGhosts
  <2>4. IndexOf(comics)' = IndexOf(comics')
    BY DEF IndexOf
  <2> QED BY <1>0, <2>1, <2>3, <2>4 DEF GrowthInv
<1> QED BY <1>1, <1>2, <1>3, <1>4, <1>5, <1>6
        DEF Quiet, Next, Boot, UpdatedHandler, DropHandler, Topics

\* Until somebody drops the table, no rebuild, failure or burst of events makes
\* a running service forget a comic it used to find.
THEOREM IndexOnlyGrows == Spec => IndexNeverRegresses
<1>1. Init => TypeOK /\ BootInv /\ NoDropInv /\ GrowthInv
  <2>1. Init => GrowthInv
    BY DEF Init, GrowthInv, EmptyIndex, SnapshotInHand, Topics
  <2> QED BY <2>1, TypeInit, BootInit, NoDropInit
<1>2. TypeOK /\ BootInv /\ NoDropInv /\ GrowthInv /\ [Next]_vars
        => (TypeOK /\ BootInv /\ NoDropInv /\ GrowthInv)'
  BY TypeStep, BootStep, NoDropStep, GrowthStep
<1>3. TypeOK /\ BootInv /\ NoDropInv /\ GrowthInv /\ [Next]_vars
        => [~dropped' /\ restarts' = restarts =>
                \A w \in Words : index[w] \subseteq index'[w]]_vars
  BY GrowthStep
<1> QED BY <1>1, <1>2, <1>3, PTL DEF Spec, IndexNeverRegresses

-----------------------------------------------------------------------------
(***************************************************************************)
(* What is left of the two properties where less can go wrong.             *)
(***************************************************************************)

\* All is handled: nothing is being written, announced, delivered or rebuilt.
Settled ==
    /\ ~session /\ dropsOwed = {} /\ bus = <<>>
    /\ pc # "read" /\ ~SnapshotInHand
    /\ \A t \in Topics : ch[t] = 0 /\ hpc[t] \notin {"drain", "read", "reset"}

Agrees == Settled => lost \/ raced \/ (Fresh(index) /\ ~HasGhost(index))

LEMMA SettledMeansNothingPending ==
    ASSUME Settled
    PROVE  ~RebuildPending /\ ~EventPending("drop")
<1>1. ~InTransit("updated") /\ ~InTransit("drop")
  BY DEF Settled, InTransit
<1>2. ~EventPending("updated") /\ ~EventPending("drop")
  BY <1>1, PendingIs DEF Settled, Topics
<1> QED BY <1>2 DEF RebuildPending, Settled

\* Once every event is handled the index is the table's, and finds no dropped comic,
\* unless an announcement was lost or a drop raced a rebuild.
THEOREM SettledIndexAgrees == Spec => []Agrees
<1>1. StaleMeansPending => Agrees
  <2> SUFFICES ASSUME StaleMeansPending, Settled, ~lost, ~raced
               PROVE  Fresh(index) /\ ~HasGhost(index)
    BY DEF Agrees
  <2>1. Fresh(index)
    BY SettledMeansNothingPending DEF StaleMeansPending, Settled
  <2> QED BY <2>1 DEF Fresh, HasGhost
<1> QED BY <1>1, NoUpdateMissed, PTL

\* Where nobody drops the table nothing is dropped, and no rebuild is raced.
NotRacedInv == ~dropped /\ ~raced

LEMMA NotRacedStep ==
    ASSUME DropCalls = {}
    PROVE  TypeOK /\ NoDropInv /\ NotRacedInv /\ [Next]_vars => NotRacedInv'
<1> SUFFICES ASSUME TypeOK, NoDropInv, NotRacedInv, [Next]_vars PROVE NotRacedInv'
  OBVIOUS
<1> USE DEF NotRacedInv, bootVars, histVars
<1>1. CASE WriterStep
  <2>1. dropsOwed' = {}
    <3>1. WriterNext /\ WriterTypeOK
      BY <1>1 DEF WriterStep, WriterNext, TypeOK
    <3> QED BY <3>1, WriterType DEF WriterTypeOK
  <2>2. ~Truncates
    <3>1. UNCHANGED comics \/ \E i \in Ids, row \in Row : StoreComic(i, row)
      BY <1>1 DEF WriterStep, WriterWorks, WriterLoses, OpenSession, CloseSession,
                  LoseEvents
    <3>2. ASSUME NEW i \in Ids, NEW row \in Row, StoreComic(i, row)
          PROVE  comics'[i] # EmptyTable[i]
      BY <3>2 DEF StoreComic, InsertRow, EmptyTable, Row, NoRow, TypeOK, WriterTypeOK,
                  Table
    <3> QED BY <3>1, <3>2 DEF Truncates
  <2> QED BY <1>1, <2>1, <2>2 DEF WriterStep
<1>2. ~HandlerReset
  BY PendingIs DEF NoDropInv, HandlerReset
<1>3. CASE ~WriterStep
  BY <1>2, <1>3
     DEF Next, Deliver, Boot, BootRead, BootSwap, BootSubscribe, Subscribe, ReadTable,
         ReadFails, SwapIndex, UpdatedHandler, DropHandler, HandlerStep, Receive, Drain,
         Drained, HandlerRead, HandlerSwap, Restart, vars
<1> QED BY <1>1, <1>3

\* Without drops, through restarts, failures and bursts of events, an index that is out
\* of date has a rebuild on its way unless an announcement was lost.
THEOREM OnlyLossLeavesItStale ==
    ASSUME DropCalls = {}
    PROVE  Spec => [](~session => Fresh(index) \/ RebuildPending \/ lost)
<1>1. Init => TypeOK /\ NoDropInv /\ NotRacedInv
  BY TypeInit, NoDropInit DEF Init, NotRacedInv
<1>2. TypeOK /\ NoDropInv /\ NotRacedInv /\ [Next]_vars
        => (TypeOK /\ NoDropInv /\ NotRacedInv)'
  BY TypeStep, NoDropStep, NotRacedStep
<1>3. StaleMeansPending /\ NoDropInv /\ NotRacedInv
        => (~session => Fresh(index) \/ RebuildPending \/ lost)
  BY DEF StaleMeansPending, NoDropInv, NotRacedInv
<1> QED BY <1>1, <1>2, <1>3, NoUpdateMissed, PTL DEF Spec

\* A booted service that is never restarted, with a writer and a reading that never
\* fail, loses nothing.
Reliable == ~MayLose /\ SearchFaults = {} /\ MaxRestarts = 0

NotLostInv == pc = "up" /\ subscribed = Topics /\ ~lost

LEMMA NotLostStep ==
    ASSUME Reliable
    PROVE  TypeOK /\ NotLostInv /\ [Next]_vars => NotLostInv'
<1> SUFFICES ASSUME TypeOK, NotLostInv, [Next]_vars PROVE NotLostInv'
  OBVIOUS
<1> USE DEF NotLostInv, Reliable, bootVars, histVars
<1>1. CASE WriterStep
  <2>1. ~WriterLoses
    BY DEF WriterLoses, LoseEvents, DropSilently
  <2> QED BY <1>1, <2>1 DEF WriterStep
<1>2. CASE Deliver
  <2>1. Head(bus) \in Topics
    BY <1>2, Delivered DEF Deliver, TypeOK, WriterTypeOK
  <2> QED BY <1>2, <2>1 DEF Deliver
<1>3. ~Boot /\ ~Restart
  BY DEF Boot, BootRead, BootSwap, BootSubscribe, Restart, TypeOK
<1>4. CASE UpdatedHandler \/ DropHandler \/ UNCHANGED vars
  BY <1>4 DEF UpdatedHandler, DropHandler, HandlerStep, Receive, Drain, Drained,
              HandlerRead, ReadTable, ReadFails, HandlerSwap, SwapIndex, HandlerReset,
              vars
<1> QED BY <1>1, <1>2, <1>3, <1>4 DEF Next

LEMMA BootedStale == BootedSpec => []StaleMeansPending
<1>1. BootedInit => TypeOK /\ BootInv /\ StaleInv
  BY TypeInit, BootInit, StaleInit
<1>2. TypeOK /\ BootInv /\ StaleInv /\ [Next]_vars => (TypeOK /\ BootInv /\ StaleInv)'
  BY TypeStep, BootStep, StaleStep
<1>3. StaleInv => StaleMeansPending
  BY StaleInvSuffices
<1> QED BY <1>1, <1>2, <1>3, PTL DEF BootedSpec

\* Of such a service only a drop that races a rebuild leaves the index out of date
\* with nothing on its way: neither coalescing events nor dropping them at a full
\* channel does.
THEOREM OnlyRaceLeavesItStale ==
    ASSUME Reliable
    PROVE  BootedSpec =>
             [](~session => \/ Fresh(index) \/ RebuildPending
                            \/ dropsOwed # {} \/ EventPending("drop") \/ raced)
<1>1. BootedInit => TypeOK /\ NotLostInv
  BY TypeInit DEF BootedInit, NotLostInv
<1>2. TypeOK /\ NotLostInv /\ [Next]_vars => (TypeOK /\ NotLostInv)'
  BY TypeStep, NotLostStep
<1>3. StaleMeansPending /\ NotLostInv
        => (~session => \/ Fresh(index) \/ RebuildPending
                        \/ dropsOwed # {} \/ EventPending("drop") \/ raced)
  BY DEF StaleMeansPending, NotLostInv
<1> QED BY <1>1, <1>2, <1>3, BootedStale, PTL DEF BootedSpec

\* And with no drops either, nothing does.
THEOREM NeverStaleForGood ==
    ASSUME Reliable, DropCalls = {}
    PROVE  BootedSpec => [](~session => Fresh(index) \/ RebuildPending)
<1>1. BootedInit => TypeOK /\ NoDropInv /\ NotRacedInv
  BY TypeInit, NoDropInit DEF BootedInit, NotRacedInv
<1>2. TypeOK /\ NoDropInv /\ NotRacedInv /\ [Next]_vars
        => (TypeOK /\ NoDropInv /\ NotRacedInv)'
  BY TypeStep, NoDropStep, NotRacedStep
<1>3. NoDropInv /\ NotRacedInv
        /\ (~session => \/ Fresh(index) \/ RebuildPending
                        \/ dropsOwed # {} \/ EventPending("drop") \/ raced)
        => (~session => Fresh(index) \/ RebuildPending)
  BY DEF NoDropInv, NotRacedInv
<1> QED BY <1>1, <1>2, <1>3, OnlyRaceLeavesItStale, PTL DEF BootedSpec
=============================================================================
