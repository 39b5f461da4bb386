----------------------------- MODULE MCScheduler -----------------------------
(***************************************************************************)
(* Model checking of Scheduler: the values of its constants.               *)
(***************************************************************************)
EXTENDS Scheduler, TLC

(* The lists of instances that can be missing from the cache.              *)
MCInstanceLists ==
  {m \in UNION {[1 .. k -> Instances] : k \in 0 .. Cardinality(Instances)} :
     \A i, j \in DOMAIN m : i < j => m[i] < m[j]}
=============================================================================
