------------------------------ MODULE UpdateLatch ------------------------------
(***************************************************************************)
(* What the update service promises to the callers of Update: one update   *)
(* runs at a time, a call is refused only while another one runs, every    *)
(* call hears at most once, and the latch is free again when the update    *)
(* that took it has ended, whoever still waits for it.                     *)
(*                                                                         *)
(* UpdateService implements this specification; Gateway is built on its    *)
(* actions.                                                                *)
(***************************************************************************)
CONSTANT Calls      \* of Update

VARIABLES
    running,        \* the calls whose update holds the latch: one at most
    orphaned,       \* does an update nobody waits for hold it?
    reply           \* what each call heard

latchVars == <<running, orphaned, reply>>

Free == running = {} /\ ~orphaned

LatchInit ==
    /\ running = {}
    /\ orphaned = FALSE
    /\ reply = [c \in Calls |-> "none"]

Hears(c, said) ==
    /\ reply[c] = "none"
    /\ reply' = [reply EXCEPT ![c] = said]

Takes(c) ==
    /\ Free
    /\ reply[c] = "none"
    /\ running' = {c}
    /\ UNCHANGED <<orphaned, reply>>

Refuses(c) ==
    /\ ~Free
    /\ c \notin running
    /\ Hears(c, "exists")
    /\ UNCHANGED <<running, orphaned>>

Ends(c, said) ==
    /\ c \in running
    /\ running' = running \ {c}
    /\ Hears(c, said)
    /\ UNCHANGED orphaned

\* The caller stops waiting and takes it for an error.  Its update goes on, and one
\* that was on its way may still take the latch.
Abandons(c) ==
    /\ Hears(c, "error")
    /\ running' = running \ {c}
    /\ \/ orphaned' = (orphaned \/ c \in running)
       \/ Free /\ orphaned' = TRUE

OrphanEnds ==
    /\ orphaned
    /\ orphaned' = FALSE
    /\ UNCHANGED <<running, reply>>

LatchNext ==
    \/ \E c \in Calls :
        \/ Takes(c) \/ Refuses(c) \/ Abandons(c)
        \/ \E said \in {"ok", "error"} : Ends(c, said)
    \/ OrphanEnds

LatchSpec == LatchInit /\ [][LatchNext]_latchVars
=============================================================================
