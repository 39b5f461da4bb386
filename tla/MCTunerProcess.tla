--------------------------- MODULE MCTunerProcess ---------------------------
(* Scenarios for TunerProcess: every way the number of phases is found, a  *)
(* clock that leaves out a phase, one and two workers per phase, cutoffs   *)
(* that are no whole seconds, products that rounding may carry up.         *)
EXTENDS TunerProcess

Third == <<1, 3>>
Half == <<1, 2>>
One == <<1, 1>>

Setup(n, c, t, ln, lc, lt) ==
  [deepen |-> TRUE, n |-> n, c |-> c, t |-> t, ln |-> ln, lc |-> lc, lt |-> lt, cores |-> 1]

SetupsValue ==
  {[Setup(2, Whole(4), 1, Half, Half, Half) EXCEPT !.deepen = FALSE, !.cores = 2],
   Setup(3, <<5, 2>>, 1, Half, Half, One),
   Setup(3, Whole(4), 2, Third, One, Half),
   Setup(2, Whole(9), 1, Half, Third, Half),
   Setup(2, Whole(3), 0, One, Third, One),
   Setup(3, Half, 1, One, Half, One),
   Setup(1, Whole(0), 1, One, One, One),
   Setup(2, <<1, 4>>, 1, <<9, 10>>, <<2, 3>>, One)}
=============================================================================
