--------------------------- MODULE MCIndexSlots ---------------------------
(***************************************************************************)
(* Instances of IndexSlots for TLC: slot 1 holds buckets 1 and 2, slot 2   *)
(* holds bucket 3; the documents share buckets 2 and 3.                    *)
(***************************************************************************)
EXTENDS IndexSlots

CONSTANTS d1, d2

MCHashes        == 1..3
MCPostingHashes == [d \in Docs |-> IF d = d1 THEN Hashes ELSE Hashes \ {1}]
MCSlotOf        == [h \in Hashes |-> IF h = 3 THEN 2 ELSE 1]
=============================================================================
