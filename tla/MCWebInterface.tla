--------------------------- MODULE MCWebInterface ---------------------------
(***************************************************************************)
(* Instances of WebInterface for TLC: the two orders are reverse to each   *)
(* other, and two documents have one doctype.                              *)
(***************************************************************************)
EXTENDS WebInterface

MCDocs    == 1..3
MCDocType == [d \in MCDocs |-> IF d = 1 THEN 2 ELSE 1]
MCKey     == [o \in {"doctype", "title"} |-> [d \in MCDocs |-> IF o = "doctype" THEN d ELSE 4 - d]]
MCMatches == [d \in MCDocs |-> IF d = 3 THEN {2} ELSE {d + 1}]
MCFilters == {{}, {2}}
=============================================================================
