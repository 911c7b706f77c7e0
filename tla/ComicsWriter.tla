----------------------------- MODULE ComicsWriter -----------------------------
(***************************************************************************)
(* What the update service promises to whoever listens to its events: the *)
(* table only gains rows inside a write session, a session opens only if   *)
(* some comic is absent from the table, and it closes with an "updated"    *)
(* event; every truncation is followed by a "drop" event.  Events are sent *)
(* after the change they announce.  Only where MayLose is TRUE (a crash of *)
(* the service, a failed call)    may a session or a truncation end        *)
(* without its event.                                                      *)
(*                                                                         *)
(* UpdateService implements this specification; IndexSync composes it with *)
(* the search service.                                                     *)
(***************************************************************************)
EXTENDS Comics, Sequences

CONSTANTS
    DropCalls,      \* the Drop RPCs that can be in progress at once
    MayLose         \* may an event be lost before it is sent?

ASSUME MayLoseAssumption == MayLose \in BOOLEAN

VARIABLES
    comics,         \* the table
    bus,            \* events sent and not yet delivered, oldest first
    session,        \* is an update writing rows it has yet to announce?
    dropsOwed       \* drops that truncated and have yet to announce it

writerVars == <<comics, bus, session, dropsOwed>>

WriterTypeOK ==
    /\ comics \in Table
    /\ bus \in Seq(Topics)
    /\ session \in BOOLEAN
    /\ dropsOwed \subseteq DropCalls

WriterInit ==
    /\ comics = EmptyTable
    /\ bus = <<>>
    /\ session = FALSE
    /\ dropsOwed = {}

\* An update finds at least one comic to fetch.
OpenSession ==
    /\ ~session
    /\ StoredIDs(comics) # Ids
    /\ session' = TRUE
    /\ UNCHANGED <<comics, bus, dropsOwed>>

\* One of its workers stores a comic.
StoreComic(i, row) ==
    /\ session
    /\ comics[i] = NoRow
    /\ comics' = InsertRow(comics, i, row)
    /\ UNCHANGED <<bus, session, dropsOwed>>

\* The update announces what it stored; it stores nothing more.
CloseSession ==
    /\ session
    /\ session' = FALSE
    /\ bus' = Append(bus, "updated")
    /\ UNCHANGED <<comics, dropsOwed>>

DropTable(d) ==
    /\ d \notin dropsOwed
    /\ comics' = EmptyTable
    /\ dropsOwed' = dropsOwed \cup {d}
    /\ UNCHANGED <<bus, session>>

\* A truncation whose error keeps the service from announcing it.
DropSilently(d) ==
    /\ MayLose
    /\ d \notin dropsOwed
    /\ comics' = EmptyTable
    /\ UNCHANGED <<bus, session, dropsOwed>>

AnnounceDrop(d) ==
    /\ d \in dropsOwed
    /\ dropsOwed' = dropsOwed \ {d}
    /\ bus' = Append(bus, "drop")
    /\ UNCHANGED <<comics, session>>

\* Announcements that will never be sent.
LoseEvents ==
    /\ MayLose
    /\ session' \in {session, FALSE}
    /\ dropsOwed' \in SUBSET dropsOwed
    /\ <<session, dropsOwed>>' # <<session, dropsOwed>>
    /\ UNCHANGED <<comics, bus>>

WriterWorks ==
    \/ OpenSession
    \/ CloseSession
    \/ \E i \in Ids, row \in Row : StoreComic(i, row)
    \/ \E d \in DropCalls : DropTable(d) \/ AnnounceDrop(d)

WriterLoses ==
    \/ LoseEvents
    \/ \E d \in DropCalls : DropSilently(d)

WriterNext == WriterWorks \/ WriterLoses

WriterSpec == WriterInit /\ [][WriterNext]_writerVars
=============================================================================
