------------------------------ MODULE MCLoader ------------------------------
(***************************************************************************)
(* An instance of Loader for TLC: up to three pages of two documents, two  *)
(* of which come and go.                                                   *)
(***************************************************************************)
EXTENDS Loader

MCDocs   == 1..5
MCMoving == {2, 3}
=============================================================================
