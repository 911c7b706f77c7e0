------------------------------- MODULE IndexSync -------------------------------
(***************************************************************************)
(* How the search microservice keeps its in-memory index in step with the  *)
(* table: main of search/main.go, BuildIndex and ResetIndex of             *)
(* search/core/service.go, and the subscriber goroutines of                *)
(* search/adapters/subscribe.  The other side of the table and of the bus  *)
(* is ComicsWriter, which the update service implements.                   *)
(*                                                                         *)
(* The service reads the table once at boot, subscribes to the two         *)
(* subjects only then, and runs one goroutine per subject.                 *)
(***************************************************************************)
EXTENDS ComicsWriter

CONSTANTS
    Words,          \* the words the index distinguishes
    WordsOf,        \* the normalised words of each comic
    ChanCap,        \* capacity of a subscriber's channel, 4096
    SearchFaults,   \* "db": GetAll may fail; "nats": ChanSubscribe may fail
    MaxBacklog,     \* bound on the events in transit
    MaxRestarts     \* bound on the crashes of the service

ASSUME SyncAssumption ==
    /\ WordsOf \in [Ids -> SUBSET Words]
    /\ ChanCap \in Nat \ {0}
    /\ SearchFaults \subseteq {"db", "nats"}
    /\ MaxBacklog \in Nat
    /\ MaxRestarts \in Nat

VARIABLES
    pc,             \* main
    index,          \* s.index
    newIndex,       \* what BuildIndex made of its snapshot of the table
    subscribed,     \* the subjects the NATS server sends the service
    ch,             \* messages in each subject's channel; they carry no data
    hpc,            \* each subject's goroutine
    restarts,
    lost,           \* history: an announcement since the last reading of the
                    \* table never reached the service
    raced,          \* history: since the last reading of the table, the table was
                    \* truncated before the index made from it was swapped in, or
                    \* the index was reset while the table had comics to find
    dropped         \* history: the table was truncated at least once

bootVars == <<pc, subscribed, restarts>>
histVars == <<lost, raced, dropped>>
vars == <<writerVars, bootVars, index, newIndex, ch, hpc, histVars>>

Index == [Words -> SUBSET Ids]
EmptyIndex == [w \in Words |-> {}]

\* BuildIndex's loop; a row without words adds nothing.
IndexOf(tbl) == [w \in Words |-> {i \in Ids : tbl[i] = "full" /\ w \in WordsOf[i]}]

TypeOK ==
    /\ WriterTypeOK
    /\ pc \in {"read", "swap", "subUpdated", "subDrop", "up"}
    /\ index \in Index
    /\ newIndex \in Index
    /\ subscribed \subseteq Topics
    /\ ch \in [Topics -> 0 .. ChanCap]
    /\ hpc \in [Topics -> {"off", "select", "drain", "read", "swap", "reset"}]
    /\ restarts \in 0 .. MaxRestarts
    /\ lost \in BOOLEAN
    /\ raced \in BOOLEAN
    /\ dropped \in BOOLEAN

Init ==
    /\ WriterInit
    /\ pc = "read"
    /\ index = EmptyIndex
    /\ newIndex = EmptyIndex
    /\ subscribed = {}
    /\ ch = [t \in Topics |-> 0]
    /\ hpc = [t \in Topics |-> "off"]
    /\ restarts = 0
    /\ lost = FALSE
    /\ raced = FALSE
    /\ dropped = FALSE

\* The service booted on the empty table, before anything was written to it.
BootedInit ==
    /\ WriterInit
    /\ pc = "up"
    /\ index = EmptyIndex
    /\ newIndex = EmptyIndex
    /\ subscribed = Topics
    /\ ch = [t \in Topics |-> 0]
    /\ hpc = [t \in Topics |-> "select"]
    /\ restarts = 0
    /\ lost = FALSE
    /\ raced = FALSE
    /\ dropped = FALSE

-----------------------------------------------------------------------------
(***************************************************************************)
(* BuildIndex, as main calls it and as the "updated" goroutine does:       *)
(* GetAll reads the table in one statement and the lock is taken only to   *)
(* swap the finished index in.                                             *)
(***************************************************************************)

ReadInPlace ==
    /\ index' = EmptyIndex
    /\ newIndex' = IndexOf(comics)
    /\ lost' = FALSE
    /\ raced' = FALSE
    /\ UNCHANGED dropped

ReadTable ==
    /\ newIndex' = IndexOf(comics)
    /\ lost' = FALSE
    /\ raced' = FALSE
    /\ UNCHANGED <<index, dropped>>

ReadContinues ==
    /\ "db" \in SearchFaults
    /\ index' = EmptyIndex
    /\ lost' = TRUE
    /\ UNCHANGED <<newIndex, raced, dropped>>

\* BuildIndex logs the error and leaves the index as it is.
ReadFails ==
    /\ "db" \in SearchFaults
    /\ lost' = TRUE
    /\ UNCHANGED <<index, newIndex, raced, dropped>>

SwapIndex ==
    /\ index' = newIndex
    /\ UNCHANGED <<newIndex, histVars>>

-----------------------------------------------------------------------------
(***************************************************************************)
(* main.  The subscription steps are the instants the NATS server acts on  *)
(* the subscriptions; the client does not wait for it.                     *)
(***************************************************************************)

BootRead ==
    /\ pc = "read"
    /\ \/ ReadTable /\ pc' = "swap"
       \/ ReadFails /\ pc' = "subUpdated"
    /\ UNCHANGED <<writerVars, subscribed, restarts, ch, hpc>>

BootSwap ==
    /\ pc = "swap"
    /\ SwapIndex
    /\ pc' = "subUpdated"
    /\ UNCHANGED <<writerVars, subscribed, restarts, ch, hpc>>

\* ChanSubscribe succeeds and the subject's goroutine starts, or the error is
\* only logged.
Subscribe(t) ==
    /\ \/ /\ subscribed' = subscribed \cup {t}
          /\ hpc' = [hpc EXCEPT ![t] = "select"]
       \/ /\ "nats" \in SearchFaults
          /\ UNCHANGED <<subscribed, hpc>>
    /\ UNCHANGED <<writerVars, restarts, index, newIndex, ch, histVars>>

BootSubscribe ==
    \/ pc = "subUpdated" /\ pc' = "subDrop" /\ Subscribe("updated")
    \/ pc = "subDrop" /\ pc' = "up" /\ Subscribe("drop")

\* The process is killed and restarted.
Restart ==
    /\ restarts < MaxRestarts
    /\ restarts' = restarts + 1
    /\ pc' = "read"
    /\ index' = EmptyIndex
    /\ newIndex' = EmptyIndex
    /\ subscribed' = {}
    /\ ch' = [t \in Topics |-> 0]
    /\ hpc' = [t \in Topics |-> "off"]
    /\ UNCHANGED <<writerVars, histVars>>

-----------------------------------------------------------------------------
(***************************************************************************)
(* NATS.  The server keeps nothing for a subject nobody subscribes to; the *)
(* client drops a message its channel has no room for.                     *)
(***************************************************************************)

Deliver ==
    /\ bus # <<>>
    /\ bus' = Tail(bus)
    /\ LET t == Head(bus) IN
        /\ ch' = IF t \in subscribed /\ ch[t] < ChanCap
                 THEN [ch EXCEPT ![t] = @ + 1] ELSE ch
        /\ lost' = (lost \/ t \notin subscribed)
    /\ UNCHANGED <<comics, session, dropsOwed, bootVars, index, newIndex, hpc,
                   raced, dropped>>

-----------------------------------------------------------------------------
(***************************************************************************)
(* A subject's goroutine: it takes a message, drains the channel, and      *)
(* handles what it took as one event.                                      *)
(***************************************************************************)

GoTo(t, h) == hpc' = [hpc EXCEPT ![t] = h]

\* An index is made and not yet swapped in.
SnapshotInHand == pc = "swap" \/ hpc["updated"] = "swap"

ReceiveAtOnce(t) ==
    /\ hpc[t] = "select"
    /\ ch' = [ch EXCEPT ![t] = @ - 1]
    /\ GoTo(t, "drain")
    /\ UNCHANGED <<writerVars, bootVars, index, newIndex, histVars>>

Receive(t) ==
    /\ hpc[t] = "select"
    /\ ch[t] > 0
    /\ ch' = [ch EXCEPT ![t] = @ - 1]
    /\ GoTo(t, "drain")
    /\ UNCHANGED <<writerVars, bootVars, index, newIndex, histVars>>

Drain(t) ==
    /\ hpc[t] = "drain"
    /\ ch[t] > 0
    /\ ch' = [ch EXCEPT ![t] = @ - 1]
    /\ UNCHANGED <<writerVars, bootVars, index, newIndex, hpc, histVars>>

Drained(t) ==
    /\ hpc[t] = "drain"
    /\ ch[t] = 0
    /\ GoTo(t, IF t = "updated" THEN "read" ELSE "reset")
    /\ UNCHANGED <<writerVars, bootVars, index, newIndex, ch, histVars>>

HandlerRead ==
    /\ hpc["updated"] = "read"
    /\ \/ ReadTable /\ GoTo("updated", "swap")
       \/ ReadFails /\ GoTo("updated", "select")
    /\ UNCHANGED <<writerVars, bootVars, ch>>

SwapThenDrain ==
    /\ hpc["updated"] = "swap"
    /\ SwapIndex
    /\ ch' = [ch EXCEPT !["updated"] = 0]
    /\ GoTo("updated", "select")
    /\ UNCHANGED <<writerVars, bootVars>>

HandleOnce ==
    /\ hpc["updated"] = "swap"
    /\ SwapIndex
    /\ GoTo("updated", "off")
    /\ UNCHANGED <<writerVars, bootVars, ch>>

HandlerSwap ==
    /\ hpc["updated"] = "swap"
    /\ SwapIndex
    /\ GoTo("updated", "select")
    /\ UNCHANGED <<writerVars, bootVars, ch>>

ResetShadowed ==
    /\ hpc["drop"] = "reset"
    /\ GoTo("drop", "select")
    /\ UNCHANGED <<writerVars, bootVars, index, newIndex, ch, histVars>>

\* ResetIndex.  An index still to be swapped in repairs an undue reset.
HandlerReset ==
    /\ hpc["drop"] = "reset"
    /\ index' = EmptyIndex
    /\ GoTo("drop", "select")
    /\ raced' = (raced \/ (~SnapshotInHand /\ IndexOf(comics) # EmptyIndex))
    /\ UNCHANGED <<writerVars, bootVars, newIndex, ch, lost, dropped>>

HandlerStep(t) == Receive(t) \/ Drain(t) \/ Drained(t)

UpdatedHandler == HandlerStep("updated") \/ HandlerRead \/ HandlerSwap
DropHandler == HandlerStep("drop") \/ HandlerReset

-----------------------------------------------------------------------------
Truncates == comics # EmptyTable /\ comics' = EmptyTable

\* The writer's steps; an announcement that is given up is lost.
WriterStep ==
    /\ \/ WriterWorks /\ lost' = lost
       \/ WriterLoses /\ lost' = TRUE
    /\ Len(bus') <= MaxBacklog
    /\ raced' = (raced \/ (SnapshotInHand /\ Truncates))
    /\ dropped' = (dropped \/ Truncates \/ dropsOwed' # {})
    /\ UNCHANGED <<bootVars, index, newIndex, ch, hpc>>

Boot == BootRead \/ BootSwap \/ BootSubscribe

Next ==
    \/ WriterStep
    \/ Deliver
    \/ Boot
    \/ UpdatedHandler
    \/ DropHandler
    \/ Restart

Spec == Init /\ [][Next]_vars

(***************************************************************************)
(* The service's goroutines run and their calls end; NATS delivers.  The   *)
(* writer is under no obligation.                                          *)
(***************************************************************************)
Fairness ==
    /\ WF_vars(Boot)
    /\ WF_vars(Deliver)
    /\ WF_vars(UpdatedHandler)
    /\ WF_vars(DropHandler)

FairSpec == Spec /\ Fairness
BootedSpec == BootedInit /\ [][Next]_vars /\ Fairness

-----------------------------------------------------------------------------
(***************************************************************************)
(* Properties.                                                             *)
(***************************************************************************)

Fresh(ind) == ind = IndexOf(comics)

\* An event of subject t is in transit, queued, or taken and not yet handled.
EventPending(t) ==
    \/ \E n \in DOMAIN bus : bus[n] = t
    \/ ch[t] > 0
    \/ hpc[t] \in {"drain", "read", "reset"}

\* A reading of the table is still to come, or was made and is to be swapped in.
RebuildPending ==
    \/ EventPending("updated")
    \/ pc = "read"
    \/ SnapshotInHand /\ Fresh(newIndex)

\* When no update is writing and the index differs from the table, something that
\* will see the table as it is now is on its way, unless an announcement was lost
\* or a drop raced a rebuild.  Neither draining a burst of events into one rebuild
\* nor a full channel loses what was announced.
StaleMeansPending ==
    ~session =>
        \/ Fresh(index) \/ RebuildPending
        \/ dropsOwed # {} \/ EventPending("drop")
        \/ lost \/ raced

\* Until somebody drops the table: whatever fails or restarts, a running service
\* never stops finding a comic it found before.
IndexNeverRegresses ==
    [][~dropped' /\ restarts' = restarts =>
          \A w \in Words : index[w] \subseteq index'[w]]_vars

HasGhost(ind) == \E w \in Words : ~(ind[w] \subseteq IndexOf(comics)[w])

\* The index finds a comic that was dropped only while the drop's event or a
\* rebuild is on its way, or after an announcement was lost, or after the table
\* was truncated behind a rebuild that had already read it.
GhostMeansPending ==
    HasGhost(index) =>
        \/ dropsOwed # {} \/ EventPending("drop")
        \/ EventPending("updated") \/ pc = "read"
        \/ SnapshotInHand /\ ~HasGhost(newIndex)
        \/ lost \/ raced

\* Once the writer stops with nothing left to announce, the index comes to equal
\* the table and stays equal.
CatchesUp == <>[](~session /\ dropsOwed = {}) => <>[]Fresh(index)

\* The same, through failures, restarts and drops, unless an announcement was lost
\* or a drop raced a rebuild.
CatchesUpUnlessRaced ==
    <>[](~session /\ dropsOwed = {}) => <>[](Fresh(index) \/ lost \/ raced)
=============================================================================
