-------------------------------- MODULE MCIndex --------------------------------
(***************************************************************************)
(* IndexSync on small instances: comics 1 .. MaxID, two words, comic 1     *)
(* carrying one of them and every other comic both.                        *)
(***************************************************************************)
EXTENDS IndexSync

MCWords == {"linux", "cpu"}
MCWordsOf == [i \in Ids |-> IF i = 1 THEN {"linux"} ELSE {"linux", "cpu"}]
=============================================================================
