----------------------------- MODULE MCCacheFile ----------------------------
(* Two tuners, one of which tunes on a part of the other's instances: the  *)
(* ids depend on which of them registers first.                            *)
EXTENDS CacheFile, TLC

CONSTANTS p1, p2, a, b

MCLists == p1 :> <<a, b>> @@ p2 :> <<b>>
MCStatuses == {"Theorem", "timeout"}
MCSolved == {"Theorem"}
=============================================================================
