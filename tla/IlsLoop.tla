------------------------------- MODULE IlsLoop ------------------------------
(***************************************************************************)
(* The tuning run of src/ils/mod.rs: the first evaluation, random probes,  *)
(* and rounds of perturbation, descent, acceptance, restart and fidelity   *)
(* growth, carrying the incumbent and the home base from round to round.   *)
(*                                                                         *)
(* An evaluation and a descent are single steps here, with every outcome   *)
(* LocalSearch leaves possible: an evaluation may be whole, capped,        *)
(* rejected at its checkpoint or cut off by the end of the run, and a      *)
(* descent stays where it is or ends at a fully measured better            *)
(* configuration.  Which configurations are neighbours is left open.       *)
(* The score of an evaluation is the mean of what it counted.              *)
(***************************************************************************)
EXTENDS Integers, FiniteSets, FiniteSetsExt

CONSTANTS
  Configs,         \* the configurations
  NTotal,          \* how many instances there are, in a fixed order
  Costs,           \* what an instance can cost a configuration
  Approach,        \* "focused", "basic" or "random"
  InitialFidelity, \* initial_fidelity
  FidelityStep,    \* fidelity_step
  Probes,          \* random_probes
  Pruning,         \* pruning
  Unit,            \* in how many parts the next options count one
  Multiplier,      \* bound_multiplier in these parts; nothing keeps it above one
  FutureTelling,   \* whether checkpoints may reject an evaluation
  Tolerance,       \* acceptance_tolerance in these parts
  RestartFailures, \* restart_failures
  MayRestart,      \* whether restart_probability > 0
  MayStop          \* bound of the model: whether deadline or signal may come

ASSUME FidelityAssumption ==
  NTotal \in Nat \ {0} /\ InitialFidelity \in Nat /\ FidelityStep \in Nat

ASSUME OptionsAssumption ==
  /\ Approach \in {"focused", "basic", "random"}
  /\ Probes \in Nat /\ Tolerance \in Nat /\ RestartFailures \in Nat
  /\ Multiplier \in Int /\ Unit \in Nat \ {0}
  /\ {Pruning, FutureTelling, MayRestart, MayStop} \subseteq BOOLEAN

ASSUME CostsAssumption == Costs \subseteq Nat /\ Configs # {}

VARIABLES
  cost,       \* what each instance costs each configuration (never changes)
  at,         \* where the run stands
  nRuns,      \* n_runs, the fidelity
  incumbent,  \* RunState::incumbent with its evaluation
  home,       \* RunState::last_lm with its evaluation
  current,    \* what the round or the restart set out from, evaluated
  rejections, \* RunState::rejections, as far as restart_failures looks
  probesLeft, \* probes still to come
  survived,   \* incumbent_survived
  stopped     \* the deadline has passed or a signal has come

stateVars == <<incumbent, home, rejections>>
vars == <<cost, at, nRuns, stateVars, current, probesLeft, survived, stopped>>

-----------------------------------------------------------------------------
(* Scores and evaluations.                                                 *)

Least(a, b) == IF a <= b THEN a ELSE b

Most(a, b) == IF a >= b THEN a ELSE b

(* An evaluation of configuration c at fidelity f that counted S.          *)
Eval(c, f, S) ==
  [config |-> c, of |-> f, n |-> Cardinality(S),
   sum |-> MapThenSumSet(LAMBDA i : cost[c][i], S),
   complete |-> Cardinality(S) = f]

(* A score, or infinity where nothing was counted.                         *)
Infinite(e) == e.n = 0

(* Mutant: ties count as improvement.                                      *)
BeatsOrTies(a, b) == ~Infinite(a) /\ (Infinite(b) \/ a.sum * b.n <= b.sum * a.n)

(* dominates and weakly_dominates, of evaluations at one fidelity.         *)
Beats(a, b) ==
  ~Infinite(a) /\ (Infinite(b) \/ a.sum * b.n < b.sum * a.n)

Ties(a, b) == ~Beats(a, b) /\ ~Beats(b, a)

(* Mutant: the margin is taken against the home base, where it compounds.  *)
WithinToleranceOfHome(e, best) ==
  /\ Tolerance > 0 /\ ~Infinite(e) /\ ~Infinite(best)
  /\ Unit * e.sum * home.n <= (Unit + Tolerance) * home.sum * e.n

(* accepted_within_tolerance                                               *)
WithinTolerance(e, best) ==
  /\ Tolerance > 0 /\ ~Infinite(e) /\ ~Infinite(best)
  /\ Unit * e.sum * best.n <= (Unit + Tolerance) * best.sum * e.n

(* The budget against ref is spent by the instances in S.                  *)
OverBudget(c, f, S, ref) ==
  /\ Pruning /\ ~Infinite(ref)
  /\ Unit * Eval(c, f, S).sum * ref.n > Multiplier * ref.sum * f

(* What evaluate_config_outcome can return for c at fidelity f: all of the *)
(* instances, unless the budget was spent before the last; or those that   *)
(* spent it; or those of a checkpoint that was worse than ref's; or those  *)
(* that were there when the run had to stop, before the evaluation or in   *)
(* the middle of it.  Whether ref has a checkpoint is left open.           *)
Outcomes(c, f, ref) ==
  {e \in {Eval(c, f, S) : S \in SUBSET (1 .. f)} : e.complete /\
     \E i \in 1 .. f : ~OverBudget(c, f, (1 .. f) \ {i}, ref)}
  \cup {Eval(c, f, S) : S \in {T \in SUBSET (1 .. f) :
          \/ stopped'
          \/ OverBudget(c, f, T, ref) /\ \E i \in T : ~OverBudget(c, f, T \ {i}, ref)
          \/ FutureTelling /\ ~Infinite(ref) /\ T # {} /\ T # 1 .. f}}

(* The deadline may pass, or a signal come, while an evaluation runs.      *)
StopMayCome == stopped' \in {stopped, stopped \/ MayStop}

(* No incumbent to be compared with: the evaluation is not capped.         *)
Unbounded == [config |-> "none", of |-> 0, n |-> 0, sum |-> 0, complete |-> FALSE]

(* initial_n_runs                                                          *)
InitialRuns == Least(Most(InitialFidelity, 1), NTotal)

Init ==
  /\ cost \in [Configs -> [1 .. NTotal -> Costs]]
  /\ at = "start"
  /\ nRuns = IF Approach = "focused" THEN InitialRuns ELSE NTotal
  /\ incumbent = Unbounded /\ home = Unbounded /\ current = Unbounded
  /\ rejections = 0
  /\ probesLeft = Probes
  /\ survived = FALSE
  /\ stopped = FALSE

-----------------------------------------------------------------------------
(* RunState.                                                               *)

(* Mutant: an evaluation that was cut short is promoted like any other.    *)
PromotePartial(e) ==
  IF Beats(e, incumbent) THEN incumbent' = e ELSE UNCHANGED incumbent

(* try_promote_incumbent                                                   *)
Promote(e) ==
  IF e.complete /\ Beats(e, incumbent) THEN incumbent' = e ELSE UNCHANGED incumbent

(* set_home_base                                                           *)
SetHome(e) == home' = IF e.complete THEN e ELSE home

(* A rejection counts towards restart_failures.                            *)
Reject == home' = home /\ rejections' = Least(rejections + 1, RestartFailures)

(* accept_or_reject_home_base; the incumbent it looks at is promoted.      *)
AcceptOrReject(e) ==
  IF e.complete /\ (Beats(e, home) \/ Ties(e, home) \/ WithinTolerance(e, incumbent'))
  THEN home' = e /\ rejections' = 0
  ELSE Reject

-----------------------------------------------------------------------------
(* The run.                                                                *)

(* The first evaluation has no bound.                                      *)
Start ==
  /\ at = "start"
  /\ StopMayCome
  /\ \E c \in Configs : \E e \in Outcomes(c, nRuns, Unbounded) : current' = e
  /\ at' = "probe"
  /\ UNCHANGED <<cost, nRuns, stateVars, probesLeft, survived>>

(* A probe keeps the scalar score of its evaluation only, as a complete    *)
(* one of nRuns instances.                                                 *)
Probe ==
  /\ at = "probe" /\ probesLeft > 0 /\ ~stopped
  /\ StopMayCome
  /\ \E c \in Configs : \E e \in Outcomes(c, nRuns, current) :
       current' = IF Beats(e, current) THEN [e EXCEPT !.complete = TRUE] ELSE current
  /\ probesLeft' = probesLeft - 1
  /\ UNCHANGED <<cost, at, nRuns, stateVars, survived>>

(* RunState::new                                                           *)
Seed ==
  /\ at = "probe" /\ (probesLeft = 0 \/ stopped)
  /\ incumbent' = current /\ home' = current
  /\ at' = "first"
  /\ UNCHANGED <<cost, nRuns, rejections, current, probesLeft, survived, stopped>>

(* What basic_local_search can make of the current evaluation: nothing, or *)
(* a whole measurement, better than it if it was whole itself.             *)
Descents ==
  {current} \cup
  {e \in {Eval(c, nRuns, 1 .. nRuns) : c \in Configs} :
     ~stopped /\ (current.complete => Beats(e, current))}

FirstDescent ==
  /\ at = "first"
  /\ \E e \in Descents : Promote(e) /\ SetHome(e)
  /\ at' = "top"
  /\ UNCHANGED <<cost, nRuns, rejections, current, probesLeft, survived, stopped>>

(* The loop's head and the perturbation.  Under approach random the round  *)
(* starts anywhere; otherwise near the home base, which may be anywhere    *)
(* too.                                                                    *)
Perturb ==
  /\ at = "top" /\ ~stopped
  /\ StopMayCome
  /\ \E c \in Configs : \E e \in Outcomes(c, nRuns, incumbent) : current' = e
  /\ at' = "descend"
  /\ UNCHANGED <<cost, nRuns, stateVars, probesLeft, survived>>

(* The descent of a round and what becomes of its local optimum.           *)
Round ==
  /\ at = "descend" /\ ~stopped
  /\ \E e \in Descents :
       /\ Promote(e)
       /\ IF Approach = "random" THEN SetHome(e) /\ UNCHANGED rejections
          ELSE AcceptOrReject(e)
  /\ survived' = (incumbent' = incumbent)
  /\ at' = IF Approach = "random" THEN "top" ELSE "restart"
  /\ UNCHANGED <<cost, nRuns, current, probesLeft, stopped>>

(* Mutant: one rejection too many is waited for.                           *)
StagnantLate == RestartFailures > 0 /\ rejections > RestartFailures

Stagnant == RestartFailures > 0 /\ rejections >= RestartFailures

Restart ==
  /\ at = "restart" /\ ~stopped
  /\ Stagnant \/ MayRestart
  /\ StopMayCome
  /\ \E c \in Configs : \E e \in Outcomes(c, nRuns, incumbent) :
       current' = e /\ SetHome(e)
  /\ rejections' = 0
  /\ at' = "grow"
  /\ UNCHANGED <<cost, nRuns, incumbent, probesLeft, survived>>

NoRestart ==
  /\ at = "restart" /\ ~Stagnant
  /\ at' = "grow"
  /\ UNCHANGED <<cost, nRuns, stateVars, current, probesLeft, survived, stopped>>

NextFidelity == Least(nRuns + Most(FidelityStep, 1), NTotal)

Grows == survived /\ Approach = "focused" /\ NextFidelity > nRuns

NoGrowth ==
  /\ at = "grow" /\ ~Grows
  /\ at' = "top"
  /\ UNCHANGED <<cost, nRuns, stateVars, current, probesLeft, survived, stopped>>

Usable(e) == e.complete /\ ~Infinite(e)

(* Mutant: only the incumbent is measured again.                           *)
GrowIncumbent ==
  /\ at = "grow" /\ Grows
  /\ StopMayCome
  /\ \E i \in Outcomes(incumbent.config, NextFidelity, Unbounded) :
       IF Usable(i)
       THEN nRuns' = NextFidelity /\ incumbent' = i /\ home' = home /\ at' = "top"
       ELSE at' = "over" /\ UNCHANGED <<nRuns, incumbent, home>>
  /\ UNCHANGED <<cost, rejections, current, probesLeft, survived>>

(* Both retained configurations are measured again, the home base only if  *)
(* it is not the incumbent; a measurement that was cut off ends the run    *)
(* with everything as it was.                                              *)
Grow ==
  /\ at = "grow" /\ Grows
  /\ StopMayCome
  /\ \E i \in Outcomes(incumbent.config, NextFidelity, Unbounded),
        h \in Outcomes(home.config, NextFidelity, Unbounded) :
       /\ home.config = incumbent.config => h = i
       /\ IF Usable(i) /\ Usable(h)
          THEN /\ nRuns' = NextFidelity
               /\ incumbent' = i /\ home' = h
               /\ at' = "top"
          ELSE at' = "over" /\ UNCHANGED <<nRuns, incumbent, home>>
  /\ UNCHANGED <<cost, rejections, current, probesLeft, survived>>

(* The run ends wherever it looks at the clock and the signal flag.        *)
Leave ==
  /\ at \in {"top", "descend"} \/ (at = "restart" /\ (Stagnant \/ MayRestart))
  /\ stopped
  /\ at' = "over"
  /\ UNCHANGED <<cost, nRuns, stateVars, current, probesLeft, survived, stopped>>

MustStop ==
  /\ MayStop /\ ~stopped
  /\ stopped' = TRUE
  /\ UNCHANGED <<cost, at, nRuns, stateVars, current, probesLeft, survived>>

Over == at = "over" /\ UNCHANGED vars

Run ==
  \/ Start \/ Probe \/ Seed \/ FirstDescent
  \/ Perturb \/ Round \/ Restart \/ NoRestart \/ NoGrowth \/ Grow \/ Leave

Next == Run \/ MustStop \/ Over

Spec == Init /\ [][Next]_vars

(* The run goes on: every call it makes returns (LocalSearch!CallsReturn). *)
FairSpec == Spec /\ WF_vars(Run)

-----------------------------------------------------------------------------
(* Properties.                                                             *)

(* "The loop maintains the invariant that incumbent_score, last_lm_score   *)
(* and the current round's local optimum are all measured on the same      *)
(* n_runs" (src/ils/mod.rs:30-38), although the fidelity grows and growing *)
(* it may fail after either measurement.                                   *)
FidelityConsistent ==
  at \notin {"start", "probe"} =>
    /\ incumbent.of = nRuns /\ home.of = nRuns
    /\ at = "descend" => current.of = nRuns

(* Every score kept is one of a sample of the instances, of one that is    *)
(* not empty where it is taken for whole.                                  *)
IsEvaluation(e) ==
  /\ e \in [config : Configs \cup {"none"}, of : 0 .. NTotal, n : 0 .. NTotal,
            sum : Nat, complete : BOOLEAN]
  /\ e.complete => e.n > 0

TypeOK ==
  /\ cost \in [Configs -> [1 .. NTotal -> Costs]]
  /\ nRuns \in 1 .. NTotal
  /\ \A e \in {incumbent, home, current} : IsEvaluation(e)
  /\ at # "start" => current.config \in Configs
  /\ at \notin {"start", "probe"} => {incumbent.config, home.config} \subseteq Configs
  /\ rejections \in Nat /\ probesLeft \in Nat
  /\ survived \in BOOLEAN /\ stopped \in BOOLEAN
  /\ at \in {"start", "probe", "first", "top", "descend", "restart", "grow", "over"}

(* What makes the two inductive: where current and the home base come      *)
(* from.                                                                   *)
IInv ==
  /\ FidelityConsistent
  /\ at = "probe" => current.of = nRuns
  /\ at = "first" => incumbent = current /\ home = current
  /\ at = "descend" /\ current.complete => current.n = current.of

(* After the start, only whole measurements are kept: an evaluation that   *)
(* was capped, rejected or cut off is neither promoted nor made home base  *)
(* (src/ils/mod.rs:226-333, 655-707).  The incumbent changes only for one  *)
(* that beats it, or by being measured at a higher fidelity.               *)
KeptAreMeasured ==
  [][/\ incumbent' # incumbent /\ at # "probe" =>
          /\ incumbent'.n = incumbent'.of
          /\ \/ incumbent'.of = incumbent.of /\ Beats(incumbent', incumbent)
             \/ incumbent'.of > incumbent.of /\ incumbent'.config = incumbent.config
     /\ home' # home /\ at # "probe" => home'.n = home'.of]_vars

(* A run never enters a round with as many rejections as call for a        *)
(* restart (src/ils/mod.rs:350-358, 592-641).                              *)
RestartsAreDue ==
  at = "top" /\ RestartFailures > 0 => rejections < RestartFailures

(* "Against the incumbent the home base is confined to a fixed band around *)
(* the best score seen" (src/ils/bls.rs:76-82): a round keeps it there,    *)
(* and keeps the incumbent the better of the two, whatever way the home    *)
(* base and the incumbent moved in the rounds before.                      *)
HomeInBand ==
  /\ incumbent.complete /\ home.complete
  /\ ~Beats(home, incumbent)
  /\ Unit * home.sum * incumbent.n <= (Unit + Tolerance) * incumbent.sum * home.n

RoundsKeepBand == [][Round /\ Approach # "random" /\ HomeInBand => HomeInBand']_vars

(* Focused search reaches the whole instance set, unless it is stopped:    *)
(* the incumbent can be replaced only by strictly better ones, so that it  *)
(* survives a round sooner or later, also one that ends in a restart, and  *)
(* the fidelity grows (src/ils/bls.rs:43-48, src/ils/mod.rs:647-717).      *)
FullFidelity == <>(nRuns = NTotal \/ stopped)

(* "Anything that gets through here ran to completion"                     *)
(* (src/ils/mod.rs:477-478).                                               *)
ProbesRanToCompletion ==
  [][at = "probe" /\ current' # current => current'.n = nRuns]_vars
=============================================================================
