---------------------------- MODULE MCSearching -----------------------------
(***************************************************************************)
(* Instances of Searching for TLC.  Windows that have the same signs in    *)
(* another order have the same hash.                                       *)
(***************************************************************************)
EXTENDS Searching

CONSTANTS d1, d2

MCLetters == {"A", "B"}
MCMarks   == {":"}
MCBlank   == "_"

MCHash(window) ==
  [c \in MCLetters \cup MCMarks \cup {MCBlank} |->
     Cardinality({k \in DOMAIN window : window[k] = c})]

MCStoredTexts(d) ==
  IF d = d2 THEN {<<"A", "A", "B", "A", "_">>, <<"B", "_", "A", "A", "B", "A">>}
  ELSE BoundedSeq({"A", "B"}, 5) \cup BoundedSeq({"A", "_"}, 5) \cup [1..4 -> {"A", ":"}]
=============================================================================
