--------------------------- MODULE MCDocumentQuery ---------------------------
(***************************************************************************)
(* Instances of DocumentQuery for TLC: four documents, three of them in    *)
(* the range 2-1:4 of the request, one of which comes and goes.            *)
(***************************************************************************)
EXTENDS DocumentQuery

MCDocs     == 1..4
MCDocType  == [d \in MCDocs |-> d]
MCSections == <<<<2, 1>>, <<4>>>>
MCMoving   == {2}
MCValues   == {1, 3}
(* Of the last form, the first value is not the one that stays.            *)
MCForms    == {<<1>>, <<3>>, <<3, 3>>, <<1, 3>>}
MCRequests == {[desc |-> FALSE, limit |-> 1], [desc |-> TRUE, limit |-> 2]}

MCPlain == [v \in MCValues |-> v]
(* The first value has a blank, which %20 stands for in its encoded form:  *)
(* a higher byte, so that this form comes behind the value.                *)
MCBlank == [v \in MCValues |-> IF v = 1 THEN 2 ELSE v]
=============================================================================
