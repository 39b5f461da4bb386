------------------------------ MODULE MCCache -------------------------------
(***************************************************************************)
(* Model checking of Cache: the symmetry of its pairs and processes.       *)
(***************************************************************************)
EXTENDS Cache, TLC

MCSymmetry == Permutations(Keys) \cup Permutations(Processes)
=============================================================================
