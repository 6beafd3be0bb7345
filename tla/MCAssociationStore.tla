-------------------------- MODULE MCAssociationStore --------------------------
(***************************************************************************)
(* Instances of AssociationStore for TLC: d1 shares passages with d2 and   *)
(* d3, which share none.                                                   *)
(***************************************************************************)
EXTENDS AssociationStore, TLC

CONSTANTS d1, d2, d3

MCTwoDocs   == {d1, d2}
MCThreeDocs == {d1, d2, d3}
MCAll       == {Docs}
MCRanges    == {Docs, {d1}}
MCOneMatch  == {{d1, d2}}
MCMatches   == {{d1, d2}, {d1, d3}}
MCSymmetry  == Permutations(Threads) \cup Permutations({d2, d3})
=============================================================================
