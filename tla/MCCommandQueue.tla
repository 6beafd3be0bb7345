--------------------------- MODULE MCCommandQueue ---------------------------
(***************************************************************************)
(* Instances of CommandQueue for TLC.  The two texts overlap in bucket 2.  *)
(* Slot 1 holds buckets 1 and 2, slot 2 holds bucket 3, so text t2 has     *)
(* entries in both slots.                                                  *)
(***************************************************************************)
EXTENDS CorpusInvariants, Listings, TLC

CONSTANTS t1

MCHashes        == 1..3
MCPostingHashes == [t \in Texts |-> IF t = t1 THEN {1, 2} ELSE {2, 3}]
MCSlotOf        == [h \in MCHashes |-> IF h = 3 THEN 2 ELSE 1]
MCSymmetry      == Permutations(Handlers) \cup Permutations(Docs)
=============================================================================
