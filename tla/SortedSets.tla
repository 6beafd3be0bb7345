----------------------------- MODULE SortedSets -----------------------------
(***************************************************************************)
(* Finite sets as sequences in the order of their keys, as a database's    *)
(* cursor reads them.                                                      *)
(***************************************************************************)
EXTENDS Integers, Sequences, FiniteSets

Ascending(s, key) == \A i, j \in DOMAIN s : i < j => key[s[i]] < key[s[j]]

Sorted(S, key) == CHOOSE s \in [1..Cardinality(S) -> S] : Ascending(s, key)

(* Keys are numbers, and each is the key of one element.                   *)
Keyed(S, key) ==
  /\ \A x \in S : key[x] \in Nat
  /\ \A x, y \in S : key[x] = key[y] => x = y
=============================================================================
