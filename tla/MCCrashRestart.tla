-------------------------- MODULE MCCrashRestart --------------------------
(***************************************************************************)
(* An instance of CrashRestart for TLC: texts of two hashes, in one slot.  *)
(***************************************************************************)
EXTENDS CrashRestart

MCHashes        == 1..2
MCPostingHashes == [t \in Texts |-> MCHashes]
MCSlotOf        == [h \in MCHashes |-> 1]
=============================================================================
