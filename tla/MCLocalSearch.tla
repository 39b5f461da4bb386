---------------------------- MODULE MCLocalSearch ----------------------------
(***************************************************************************)
(* Model checking of LocalSearch: the values of its constants.             *)
(***************************************************************************)
EXTENDS LocalSearch

(* Nothing in the cache, or everything.                                    *)
MCInstanceLists ==
  {l \in [1 .. N -> Instances] : \A i, j \in 1 .. N : i < j => l[i] < l[j]} \cup {<<>>}
=============================================================================
