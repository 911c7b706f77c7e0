------------------------------- MODULE Comics -------------------------------
(***************************************************************************)
(* The PostgreSQL table `comics` that the update service writes and the    *)
(* search service reads, and the statements both services run on it.      *)
(*                                                                         *)
(* A row is abstracted to the three kinds the update service stores: a     *)
(* comic whose words were normalised ("full"), one with its url but no     *)
(* words ("wordless"), and the placeholder of a comic it could not fetch   *)
(* ("missing").                                                            *)
(***************************************************************************)
EXTENDS Naturals

CONSTANT MaxID          \* bound on the comic numbers XKCD ever assigns

ASSUME MaxIDAssumption == MaxID \in Nat

Ids == 1 .. MaxID

NoRow == "none"
Row   == {"missing", "wordless", "full"}
Table == [Ids -> Row \cup {NoRow}]

\* select xkcd_id from comics
StoredIDs(tbl) == {i \in Ids : tbl[i] # NoRow}

\* insert ... on conflict (xkcd_id) do nothing
InsertRow(tbl, i, row) ==
    IF tbl[i] = NoRow THEN [tbl EXCEPT ![i] = row] ELSE tbl

\* truncate table comics
EmptyTable == [i \in Ids |-> NoRow]

(***************************************************************************)
(* The two NATS subjects the services exchange events on.                  *)
(***************************************************************************)
Topics == {"updated", "drop"}
=============================================================================
