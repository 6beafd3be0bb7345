----------------------------- MODULE MCPostLine -----------------------------
(***************************************************************************)
(* Instances of PostLine for TLC.  In base 2 numbers of one to five bytes  *)
(* are small, so that every length of the code's numbers occurs.           *)
(***************************************************************************)
EXTENDS PostLine

MCDoctypes == {1, 2, 31}
MCDocids   == {1, 2, 3, 31}
=============================================================================
