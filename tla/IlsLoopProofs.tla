---------------------------- MODULE IlsLoopProofs ----------------------------
(***************************************************************************)
(* What is proved about IlsLoop, for every set of configurations, every    *)
(* instance list and every setting of the options: fidelities never mix,   *)
(* only whole measurements are kept, restarts come when they are due, and  *)
(* rounds keep the home base in its band.                                  *)
(***************************************************************************)
EXTENDS IlsLoop, FiniteSetTheorems, TLAPS

(* An evaluation says at which fidelity it was made, and is complete when  *)
(* it counted that many instances.                                         *)
LEMMA EvalFields ==
  ASSUME NEW c, NEW f, NEW S
  PROVE  LET e == Eval(c, f, S) IN
         e.config = c /\ e.of = f /\ (e.complete => e.n = e.of)
  BY DEF Eval

(* So it is with whatever an evaluation returns, capped or not.            *)
LEMMA OutcomeFields ==
  ASSUME NEW c, NEW f, NEW ref, NEW e \in Outcomes(c, f, ref)
  PROVE  e.config = c /\ e.of = f /\ (e.complete => e.n = e.of)
<1>1. PICK S \in SUBSET (1 .. f) : e = Eval(c, f, S)
  BY DEF Outcomes
<1> QED
  BY <1>1, EvalFields

(* A descent ends where it began or at a whole measurement.                *)
LEMMA DescentFields ==
  ASSUME NEW e \in Descents
  PROVE  e = current \/ (e.of = nRuns /\ (e.complete => e.n = e.of))
<1>1. CASE e = current
  BY <1>1
<1>2. CASE \E c \in Configs : e = Eval(c, nRuns, 1 .. nRuns)
  BY <1>2, EvalFields
<1> QED
  BY <1>1, <1>2 DEF Descents

(* What promotion and the home base take of a local optimum.               *)
LEMMA KeptOrTaken ==
  ASSUME NEW e
  PROVE  /\ Promote(e) => incumbent' = incumbent \/
                          (incumbent' = e /\ e.complete /\ Beats(e, incumbent))
         /\ SetHome(e) => home' = home \/ (home' = e /\ e.complete)
         /\ AcceptOrReject(e) => home' = home \/ (home' = e /\ e.complete)
  BY DEF Promote, SetHome, AcceptOrReject, Reject

(* Nothing is kept before the first evaluation.                            *)
LEMMA InitInv == Init => IInv
  BY DEF Init, IInv, FidelityConsistent

(* Every step keeps fidelities together.                                   *)
LEMMA NextInv == IInv /\ [Next]_vars => IInv'
<1> SUFFICES ASSUME IInv, [Next]_vars PROVE IInv'
  OBVIOUS
<1> USE DEF IInv, FidelityConsistent
<1>1. CASE UNCHANGED vars
  BY <1>1 DEF vars, stateVars
<1>2. CASE Start
  <2>1. PICK c \in Configs : \E e \in Outcomes(c, nRuns, Unbounded) : current' = e
    BY <1>2 DEF Start
  <2>2. current'.of = nRuns
    BY <2>1, OutcomeFields
  <2> QED
    BY <1>2, <2>2 DEF Start
<1>3. CASE Probe
  <2>0. PICK c \in Configs : \E e \in Outcomes(c, nRuns, current) :
          current' = IF Beats(e, current) THEN [e EXCEPT !.complete = TRUE] ELSE current
    BY <1>3 DEF Probe
  <2>1. PICK e \in Outcomes(c, nRuns, current) :
          current' = IF Beats(e, current) THEN [e EXCEPT !.complete = TRUE] ELSE current
    BY <2>0
  <2>2. PICK S \in SUBSET (1 .. nRuns) : e = Eval(c, nRuns, S)
    BY <2>1 DEF Outcomes
  <2>3. current'.of = nRuns
    BY <1>3, <2>1, <2>2 DEF Eval, Probe
  <2> QED
    BY <1>3, <2>3 DEF Probe, stateVars
<1>4. CASE Seed
  BY <1>4 DEF Seed
<1>5. CASE FirstDescent
  <2>1. PICK e \in Descents : Promote(e) /\ SetHome(e)
    BY <1>5 DEF FirstDescent
  <2>2. e.of = nRuns
    BY <1>5, <2>1, DescentFields DEF FirstDescent
  <2>3. incumbent'.of = nRuns /\ home'.of = nRuns
    BY <1>5, <2>1, <2>2, KeptOrTaken DEF FirstDescent
  <2> QED
    BY <1>5, <2>3 DEF FirstDescent
<1>6. CASE Perturb
  <2>1. PICK c \in Configs : \E e \in Outcomes(c, nRuns, incumbent) : current' = e
    BY <1>6 DEF Perturb
  <2>2. current'.of = nRuns /\ (current'.complete => current'.n = current'.of)
    BY <2>1, OutcomeFields
  <2> QED
    BY <1>6, <2>2 DEF Perturb, stateVars
<1>7. CASE Round
  <2>1. PICK e \in Descents :
          Promote(e) /\ (SetHome(e) \/ AcceptOrReject(e))
    BY <1>7 DEF Round
  <2>2. e.of = nRuns
    BY <1>7, <2>1, DescentFields DEF Round
  <2>3. incumbent'.of = nRuns /\ home'.of = nRuns
    BY <1>7, <2>1, <2>2, KeptOrTaken DEF Round
  <2>4. at' \in {"top", "restart"} /\ nRuns' = nRuns
    BY <1>7 DEF Round
  <2> QED
    BY <2>3, <2>4
<1>8. CASE Restart
  <2>1. PICK c \in Configs : \E e \in Outcomes(c, nRuns, incumbent) : SetHome(e)
    BY <1>8 DEF Restart
  <2>2. home'.of = nRuns
    BY <1>8, <2>1, OutcomeFields, KeptOrTaken DEF Restart
  <2> QED
    BY <1>8, <2>2 DEF Restart
<1>9. CASE NoRestart
  BY <1>9 DEF NoRestart, stateVars
<1>10. CASE NoGrowth
  BY <1>10 DEF NoGrowth, stateVars
<1>11. CASE Grow
  <2>1. PICK i \in Outcomes(incumbent.config, NextFidelity, Unbounded),
             h \in Outcomes(home.config, NextFidelity, Unbounded) :
          IF Usable(i) /\ Usable(h)
          THEN nRuns' = NextFidelity /\ incumbent' = i /\ home' = h /\ at' = "top"
          ELSE at' = "over" /\ UNCHANGED <<nRuns, incumbent, home>>
    BY <1>11 DEF Grow
  <2>2. i.of = NextFidelity /\ h.of = NextFidelity
    BY OutcomeFields
  <2> QED
    BY <1>11, <2>1, <2>2 DEF Grow
<1>12. CASE Leave
  BY <1>12 DEF Leave, stateVars
<1>13. CASE MustStop
  BY <1>13 DEF MustStop, stateVars
<1>14. CASE Over
  BY <1>14 DEF Over, vars, stateVars
<1> QED
  BY <1>1, <1>2, <1>3, <1>4, <1>5, <1>6, <1>7, <1>8, <1>9, <1>10, <1>11, <1>12,
     <1>13, <1>14 DEF Next, Run

(* Incumbent, home base and the round's start are always measured at the   *)
(* same fidelity (src/ils/mod.rs:30-38).                                   *)
THEOREM FidelitiesAgree == Spec => []FidelityConsistent
<1>1. IInv => FidelityConsistent
  BY DEF IInv
<1> QED
  BY <1>1, InitInv, NextInv, PTL DEF Spec

-----------------------------------------------------------------------------
(* What a step of the loop may keep, read off its action.                  *)
Kept ==
  /\ incumbent' # incumbent /\ at # "probe" =>
       /\ incumbent'.n = incumbent'.of
       /\ \/ incumbent'.of = incumbent.of /\ Beats(incumbent', incumbent)
          \/ incumbent'.of > incumbent.of /\ incumbent'.config = incumbent.config
  /\ home' # home /\ at # "probe" => home'.n = home'.of

(* Every step keeps only whole measurements.                               *)
LEMMA NextKeeps == IInv /\ [Next]_vars => Kept
<1> SUFFICES ASSUME IInv, [Next]_vars PROVE Kept
  OBVIOUS
<1> USE DEF IInv, FidelityConsistent
<1>1. CASE UNCHANGED <<incumbent, home>>
  BY <1>1 DEF Kept
<1>2. CASE Seed
  BY <1>2 DEF Seed, Kept
<1>3. CASE FirstDescent
  <2>1. PICK e \in Descents : Promote(e) /\ SetHome(e)
    BY <1>3 DEF FirstDescent
  <2>2. CASE e = current
    <3>1. incumbent' = incumbent /\ home' = home
      BY <1>3, <2>1, <2>2, KeptOrTaken DEF FirstDescent
    <3> QED
      BY <3>1 DEF Kept
  <2>3. CASE e.of = nRuns /\ (e.complete => e.n = e.of)
    BY <1>3, <2>1, <2>3, KeptOrTaken DEF FirstDescent, Kept
  <2> QED
    BY <2>2, <2>3, DescentFields
<1>4. CASE Round
  <2>1. PICK e \in Descents :
          Promote(e) /\ (SetHome(e) \/ AcceptOrReject(e))
    BY <1>4 DEF Round
  <2>2. e.of = nRuns /\ (e.complete => e.n = e.of)
    BY <1>4, <2>1, DescentFields DEF Round
  <2> QED
    BY <1>4, <2>1, <2>2, KeptOrTaken DEF Round, Kept
<1>5. CASE Restart
  <2>1. PICK c \in Configs : \E e \in Outcomes(c, nRuns, incumbent) : SetHome(e)
    BY <1>5 DEF Restart
  <2>2. home' = home \/ home'.n = home'.of
    BY <2>1, OutcomeFields, KeptOrTaken
  <2> QED
    BY <1>5, <2>2 DEF Restart, Kept
<1>6. CASE Grow
  <2>1. PICK i \in Outcomes(incumbent.config, NextFidelity, Unbounded),
             h \in Outcomes(home.config, NextFidelity, Unbounded) :
          IF Usable(i) /\ Usable(h)
          THEN nRuns' = NextFidelity /\ incumbent' = i /\ home' = h /\ at' = "top"
          ELSE at' = "over" /\ UNCHANGED <<nRuns, incumbent, home>>
    BY <1>6 DEF Grow
  <2>2. i.of = NextFidelity /\ i.config = incumbent.config
    BY OutcomeFields
  <2>3. (i.complete => i.n = i.of) /\ (h.complete => h.n = h.of)
    BY OutcomeFields
  <2>4. NextFidelity > incumbent.of
    BY <1>6 DEF Grow, Grows
  <2> QED
    BY <2>1, <2>2, <2>3, <2>4 DEF Usable, Kept
<1> QED
  BY <1>1, <1>2, <1>3, <1>4, <1>5, <1>6
  DEF Next, Run, vars, stateVars, Start, Probe, Perturb, NoRestart, NoGrowth, Leave,
      MustStop, Over

(* Nothing but a whole measurement is promoted or made home base after the *)
(* start (src/ils/mod.rs:226-333, 655-707).                                *)
THEOREM OnlyMeasuredKept == Spec => KeptAreMeasured
<1>1. IInv /\ [Next]_vars => Kept
  BY NextKeeps
<1>2. Kept => [Kept]_vars
  OBVIOUS
<1> QED
  BY <1>1, InitInv, NextInv, PTL DEF Spec, KeptAreMeasured, Kept

-----------------------------------------------------------------------------
(* Only a round rejects, and what comes next is the restart's decision.    *)
Restarting ==
  /\ rejections \in Nat
  /\ RestartFailures > 0 /\ at \notin {"restart", "over"} => rejections < RestartFailures

LEMMA NextRestarts == Restarting /\ [Next]_vars => Restarting'
<1> SUFFICES ASSUME Restarting, [Next]_vars PROVE Restarting'
  OBVIOUS
<1>0. RestartFailures \in Nat
  BY OptionsAssumption
<1>1. CASE UNCHANGED vars
  BY <1>1 DEF vars, stateVars, Restarting
<1>2. CASE Round
  <2>1. at = "descend" /\ (UNCHANGED rejections \/ at' = "restart")
    BY <1>2 DEF Round
  <2>2. rejections' \in {rejections, 0, Least(rejections + 1, RestartFailures)}
    BY <1>2 DEF Round, AcceptOrReject, Reject
  <2>3. Least(rejections + 1, RestartFailures) \in Nat
    BY <1>0 DEF Least, Restarting
  <2>4. UNCHANGED rejections => Restarting'
    BY <1>2, <2>1 DEF Round, Restarting
  <2> QED
    BY <2>1, <2>2, <2>3, <2>4 DEF Restarting
<1>3. CASE Restart
  BY <1>3, <1>0 DEF Restart, Restarting
<1>4. CASE NoRestart
  BY <1>4, <1>0 DEF NoRestart, stateVars, Stagnant, Restarting
<1>5. CASE Start \/ Probe \/ Seed \/ FirstDescent \/ Perturb
  <2>1. at \notin {"restart", "over"} /\ rejections' = rejections
    BY <1>5 DEF Start, Probe, Seed, FirstDescent, Perturb, stateVars
  <2> QED
    BY <2>1 DEF Restarting
<1>6. CASE NoGrowth \/ Grow
  <2>1. at = "grow" /\ rejections' = rejections
    BY <1>6 DEF NoGrowth, Grow, stateVars
  <2> QED
    BY <2>1 DEF Restarting
<1>7. CASE Leave \/ MustStop \/ Over
  <2>1. rejections' = rejections /\ at' \in {at, "over"}
    BY <1>7 DEF Leave, MustStop, Over, vars, stateVars
  <2> QED
    BY <2>1 DEF Restarting
<1> QED
  BY <1>1, <1>2, <1>3, <1>4, <1>5, <1>6, <1>7 DEF Next, Run

(* No round begins with as many rejections as call for a restart           *)
(* (src/ils/mod.rs:350-358, 592-641).                                      *)
THEOREM NoRestartMissed == Spec => []RestartsAreDue
<1>1. Init => Restarting
  BY OptionsAssumption DEF Init, Restarting
<1>2. Restarting => RestartsAreDue
  BY DEF Restarting, RestartsAreDue
<1> QED
  BY <1>1, <1>2, NextRestarts, PTL DEF Spec

-----------------------------------------------------------------------------
(* Adding up the costs of a sample.                                        *)

(* The element a fold over sets goes by.                                   *)
One(s) == CHOOSE x \in s : TRUE

(* iter adds up v over the subsets of T.                                   *)
AddsUp(iter, v, T) ==
  iter = [s \in SUBSET T |-> IF s = {} THEN 0 ELSE v[One(s)] + iter[s \ {One(s)}]]

(* Among subsets of a finite set there is one none of whose own subsets is *)
(* among them: what stands here for induction.                             *)
LEMMA Smallest ==
  ASSUME NEW S, IsFiniteSet(S), NEW P \in SUBSET SUBSET S, P # {}
  PROVE  \E T \in P : \A U \in SUBSET T : U # T => U \notin P
<1>1. P \subseteq FiniteSubsetsOf(S)
  BY FS_FiniteSubsetsOfFinite
<1>2. PICK T \in P : \A U \in P : <<U, T>> \notin StrictSubsetOrdering(S)
  BY <1>1, FS_StrictSubsetOrderingWellFounded, WFMin
<1>3. ASSUME NEW U \in SUBSET T, U # T, U \in P PROVE FALSE
  <2>1. <<U, T>> \in StrictSubsetOrdering(S)
    BY <1>3 DEF StrictSubsetOrdering
  <2> QED
    BY <1>2, <1>3, <2>1
<1> QED
  BY <1>2, <1>3

(* There is one way to add up.                                             *)
LEMMA AddedOnce ==
  ASSUME NEW S, IsFiniteSet(S), NEW v, NEW T \in SUBSET S, NEW U \in SUBSET S,
         NEW g, NEW h, AddsUp(g, v, T), AddsUp(h, v, U)
  PROVE  \A s \in SUBSET (T \cap U) : g[s] = h[s]
<1> DEFINE P == {s \in SUBSET (T \cap U) : g[s] # h[s]}
<1> SUFFICES ASSUME P # {} PROVE FALSE
  OBVIOUS
<1>1. P \in SUBSET SUBSET S
  OBVIOUS
<1>2. PICK s \in P : \A r \in SUBSET s : r # s => r \notin P
  <2> HIDE DEF P
  <2> QED
    BY <1>1, Smallest
<1>3. s # {}
  BY <1>2 DEF AddsUp
<1>4. One(s) \in s
  BY <1>3 DEF One
<1>5. g[s \ {One(s)}] = h[s \ {One(s)}]
  BY <1>2, <1>4
<1>6. g[s] = v[One(s)] + g[s \ {One(s)}] /\ h[s] = v[One(s)] + h[s \ {One(s)}]
  BY <1>2, <1>3 DEF AddsUp
<1> QED
  BY <1>2, <1>5, <1>6

(* There is a way: in a smallest set without one, each of its subsets has  *)
(* one, and they agree.                                                    *)
LEMMA AddsUpExists ==
  ASSUME NEW S, IsFiniteSet(S), NEW v
  PROVE  \E g : AddsUp(g, v, S)
<1> DEFINE P == {T \in SUBSET S : \A g : ~AddsUp(g, v, T)}
<1> SUFFICES ASSUME P # {} PROVE FALSE
  OBVIOUS
<1>1. P \in SUBSET SUBSET S
  OBVIOUS
<1>2. PICK T \in P : \A U \in SUBSET T : U # T => U \notin P
  <2> HIDE DEF P
  <2> QED
    BY <1>1, Smallest
<1> DEFINE G(s) == CHOOSE g : AddsUp(g, v, s)
           h == [s \in SUBSET T |-> IF s = {} THEN 0
                                    ELSE v[One(s)] + G(s \ {One(s)})[s \ {One(s)}]]
<1>3. \A s \in SUBSET T : s # T => AddsUp(G(s), v, s)
  BY <1>2
<1>4. \A s \in SUBSET T : s # T => h[s] = G(s)[s]
  <2> SUFFICES ASSUME NEW s \in SUBSET T, s # T PROVE h[s] = G(s)[s]
    OBVIOUS
  <2>1. AddsUp(G(s), v, s)
    BY <1>3
  <2>2. CASE s = {}
    BY <2>1, <2>2 DEF AddsUp
  <2>3. CASE s # {}
    <3> DEFINE r == s \ {One(s)}
    <3>1. One(s) \in s
      BY <2>3 DEF One
    <3>2. r \in SUBSET T /\ r # T /\ r \in SUBSET s
      BY <3>1
    <3>3. AddsUp(G(r), v, r)
      BY <1>3, <3>2
    <3>4. G(r)[r] = G(s)[r]
      <4> HIDE DEF G, r
      <4>1. r \in SUBSET (r \cap s) /\ r \in SUBSET S /\ s \in SUBSET S
        BY <3>2, <1>2
      <4> QED
        BY <4>1, <2>1, <3>3, AddedOnce
    <3>5. G(s)[s] = v[One(s)] + G(s)[r]
      BY <2>1, <2>3 DEF AddsUp
    <3> QED
      BY <2>3, <3>4, <3>5
  <2> QED
    BY <2>2, <2>3
<1>5. AddsUp(h, v, T)
  <2>1. ASSUME NEW s \in SUBSET T, s # {}
        PROVE  h[s] = v[One(s)] + h[s \ {One(s)}]
    <3>1. One(s) \in s
      BY <2>1 DEF One
    <3>2. s \ {One(s)} \in SUBSET T /\ s \ {One(s)} # T
      BY <3>1
    <3>3. h[s \ {One(s)}] = G(s \ {One(s)})[s \ {One(s)}]
      <4> HIDE DEF h, G
      <4> QED
        BY <1>4, <3>2
    <3> QED
      BY <2>1, <3>3
  <2>2. h[{}] = 0 /\ h = [s \in SUBSET T |-> h[s]]
    OBVIOUS
  <2> HIDE DEF h
  <2> QED
    BY <2>1, <2>2 DEF AddsUp
<1> QED
  BY <1>2, <1>5

(* MapThenSumSet of the values of v.                                       *)
SumOver(v, S) == (CHOOSE iter : AddsUp(iter, v, S))[S]

(* A sum of naturals is one.                                               *)
LEMMA SumType ==
  ASSUME NEW S, IsFiniteSet(S), NEW v, \A i \in S : v[i] \in Nat
  PROVE  SumOver(v, S) \in Nat
<1> DEFINE iter == CHOOSE g : AddsUp(g, v, S)
           P == {s \in SUBSET S : iter[s] \notin Nat}
<1>1. AddsUp(iter, v, S)
  BY AddsUpExists
<1>3. P = {}
  <2> SUFFICES ASSUME P # {} PROVE FALSE
    OBVIOUS
  <2>1. PICK s \in P : \A r \in SUBSET s : r # s => r \notin P
    <3>1. P \in SUBSET SUBSET S
      OBVIOUS
    <3> HIDE DEF P
    <3> QED
      BY <3>1, Smallest
  <2> HIDE DEF iter
  <2>2. s # {}
    BY <2>1, <1>1 DEF AddsUp
  <2>3. One(s) \in s
    BY <2>2 DEF One
  <2>4. iter[s \ {One(s)}] \in Nat
    BY <2>1, <2>3
  <2>5. iter[s] = v[One(s)] + iter[s \ {One(s)}]
    BY <2>1, <2>2, <1>1 DEF AddsUp
  <2> QED
    BY <2>1, <2>3, <2>4, <2>5
<1> QED
  BY <1>3 DEF SumOver

-----------------------------------------------------------------------------
(* What Eval counts is a number of instances, and its sum is a number.     *)
LEMMA EvalType ==
  ASSUME cost \in [Configs -> [1 .. NTotal -> Costs]],
         NEW c \in Configs, NEW f \in 1 .. NTotal, NEW S \in SUBSET (1 .. f)
  PROVE  IsEvaluation(Eval(c, f, S)) /\ Eval(c, f, S).config \in Configs
<1>1. NTotal \in Nat /\ f \in Nat /\ f > 0 /\ f <= NTotal
  BY FidelityAssumption
<1>2. IsFiniteSet(1 .. f) /\ Cardinality(1 .. f) = f
  BY <1>1, FS_Interval
<1>3. IsFiniteSet(S) /\ Cardinality(S) \in Nat /\ Cardinality(S) <= f
  BY <1>2, FS_Subset, FS_CardinalityType
<1>4. ASSUME NEW i \in S PROVE cost[c][i] \in Nat
  <2>1. i \in 1 .. NTotal /\ cost[c] \in [1 .. NTotal -> Costs]
    BY <1>1
  <2> QED
    BY <2>1, CostsAssumption
<1>5. MapThenSumSet(LAMBDA i : cost[c][i], S) \in Nat
  <2>1. MapThenSumSet(LAMBDA i : cost[c][i], S) = SumOver(cost[c], S)
    BY DEF MapThenSumSet, MapThenFoldSet, SumOver, AddsUp, One
  <2> QED
    BY <1>3, <1>4, <2>1, SumType
<1>6. Cardinality(S) \in 0 .. NTotal /\ f \in 0 .. NTotal
  BY <1>1, <1>3
<1> QED
  BY <1>1, <1>5, <1>6 DEF Eval, IsEvaluation

(* So with every outcome of an evaluation, cut short or not.               *)
LEMMA OutcomeType ==
  ASSUME cost \in [Configs -> [1 .. NTotal -> Costs]],
         NEW c \in Configs, NEW f \in 1 .. NTotal, NEW ref, NEW e \in Outcomes(c, f, ref)
  PROVE  IsEvaluation(e) /\ e.config \in Configs
<1>1. PICK S \in SUBSET (1 .. f) : e = Eval(c, f, S)
  BY DEF Outcomes
<1> QED
  BY <1>1, EvalType

(* So with the end of a descent.                                           *)
LEMMA DescentType ==
  ASSUME TypeOK, at # "start", NEW e \in Descents
  PROVE  IsEvaluation(e) /\ e.config \in Configs
<1>1. CASE e = current
  BY <1>1 DEF TypeOK
<1>2. CASE \E c \in Configs : e = Eval(c, nRuns, 1 .. nRuns)
  BY <1>2, EvalType DEF TypeOK
<1> QED
  BY <1>1, <1>2 DEF Descents

(* No score yet.                                                           *)
LEMMA InitType == Init => TypeOK
<1> SUFFICES ASSUME Init PROVE TypeOK
  OBVIOUS
<1>1. NTotal \in Nat \ {0} /\ InitialFidelity \in Nat /\ Probes \in Nat
  BY FidelityAssumption, OptionsAssumption
<1>2. nRuns \in 1 .. NTotal
  BY <1>1 DEF Init, InitialRuns, Least, Most
<1>3. IsEvaluation(Unbounded)
  BY <1>1 DEF IsEvaluation, Unbounded
<1> QED
  BY <1>1, <1>2, <1>3 DEF Init, TypeOK

(* Every step keeps scores that are evaluations of known configurations.   *)
LEMMA NextType == TypeOK /\ [Next]_vars => TypeOK'
<1> SUFFICES ASSUME TypeOK, [Next]_vars PROVE TypeOK'
  OBVIOUS
<1>0. /\ NTotal \in Nat \ {0} /\ FidelityStep \in Nat
      /\ RestartFailures \in Nat
  BY FidelityAssumption, OptionsAssumption
<1>s. StopMayCome => stopped' \in BOOLEAN
  BY OptionsAssumption DEF StopMayCome, TypeOK
<1>1. CASE UNCHANGED vars
  BY <1>1 DEF vars, stateVars, TypeOK
<1>2. CASE Start
  <2>1. PICK c \in Configs : \E e \in Outcomes(c, nRuns, Unbounded) : current' = e
    BY <1>2 DEF Start
  <2>2. IsEvaluation(current') /\ current'.config \in Configs
    BY <2>1, OutcomeType DEF TypeOK
  <2> QED
    BY <1>s, <1>2, <2>2 DEF Start, stateVars, TypeOK
<1>3. CASE Probe
  <2>1. PICK c \in Configs : \E e \in Outcomes(c, nRuns, current) :
          current' = IF Beats(e, current) THEN [e EXCEPT !.complete = TRUE] ELSE current
    BY <1>3 DEF Probe
  <2>2. PICK e \in Outcomes(c, nRuns, current) :
          current' = IF Beats(e, current) THEN [e EXCEPT !.complete = TRUE] ELSE current
    BY <2>1
  <2>3. IsEvaluation(e) /\ e.config \in Configs
    BY <2>2, OutcomeType DEF TypeOK
  <2>4. Beats(e, current) => e.n > 0
    BY <1>0, <2>3 DEF Beats, Infinite, IsEvaluation
  <2>5. IsEvaluation(current') /\ current'.config \in Configs
    BY <1>3, <2>2, <2>3, <2>4 DEF IsEvaluation, TypeOK, Probe
  <2> QED
    BY <1>s, <1>3, <2>5 DEF Probe, stateVars, TypeOK
<1>4. CASE Seed
  BY <1>4 DEF Seed, TypeOK
<1>5. CASE FirstDescent
  <2>1. PICK e \in Descents : Promote(e) /\ SetHome(e)
    BY <1>5 DEF FirstDescent
  <2>2. IsEvaluation(e) /\ e.config \in Configs
    BY <1>5, DescentType DEF FirstDescent
  <2>3. incumbent' \in {incumbent, e} /\ home' \in {home, e}
    BY <2>1, KeptOrTaken
  <2> QED
    BY <1>5, <2>2, <2>3 DEF FirstDescent, TypeOK
<1>6. CASE Perturb
  <2>1. PICK c \in Configs : \E e \in Outcomes(c, nRuns, incumbent) : current' = e
    BY <1>6 DEF Perturb
  <2>2. IsEvaluation(current') /\ current'.config \in Configs
    BY <2>1, OutcomeType DEF TypeOK
  <2> QED
    BY <1>s, <1>6, <2>2 DEF Perturb, stateVars, TypeOK
<1>7. CASE Round
  <2>1. PICK e \in Descents :
          /\ Promote(e)
          /\ (SetHome(e) /\ UNCHANGED rejections) \/ AcceptOrReject(e)
    BY <1>7 DEF Round
  <2>2. IsEvaluation(e) /\ e.config \in Configs
    BY <1>7, DescentType DEF Round
  <2>3. incumbent' \in {incumbent, e} /\ home' \in {home, e}
    BY <2>1, KeptOrTaken
  <2>4. rejections' \in Nat
    BY <1>0, <2>1 DEF AcceptOrReject, Reject, Least, TypeOK
  <2> QED
    BY <1>7, <2>2, <2>3, <2>4 DEF Round, TypeOK
<1>8. CASE Restart
  <2>1. PICK c \in Configs : \E e \in Outcomes(c, nRuns, incumbent) :
          current' = e /\ SetHome(e)
    BY <1>8 DEF Restart
  <2>2. IsEvaluation(current') /\ current'.config \in Configs
    BY <2>1, OutcomeType DEF TypeOK
  <2>3. home' \in {home, current'}
    BY <2>1, KeptOrTaken
  <2> QED
    BY <1>s, <1>8, <2>2, <2>3 DEF Restart, TypeOK
<1>9. CASE NoRestart
  BY <1>9 DEF NoRestart, stateVars, TypeOK
<1>10. CASE NoGrowth
  BY <1>10 DEF NoGrowth, stateVars, TypeOK
<1>11. CASE Grow
  <2>1. PICK i \in Outcomes(incumbent.config, NextFidelity, Unbounded),
             h \in Outcomes(home.config, NextFidelity, Unbounded) :
          IF Usable(i) /\ Usable(h)
          THEN nRuns' = NextFidelity /\ incumbent' = i /\ home' = h /\ at' = "top"
          ELSE at' = "over" /\ UNCHANGED <<nRuns, incumbent, home>>
    BY <1>11 DEF Grow
  <2>2. NextFidelity \in 1 .. NTotal
    BY <1>0 DEF NextFidelity, Least, Most, TypeOK
  <2>3. incumbent.config \in Configs /\ home.config \in Configs
    BY <1>11 DEF Grow, TypeOK
  <2>4. \A e \in {i, h} : IsEvaluation(e) /\ e.config \in Configs
    BY <2>2, <2>3, OutcomeType DEF TypeOK
  <2> QED
    BY <1>s, <1>11, <2>1, <2>2, <2>4 DEF Grow, TypeOK
<1>12. CASE Leave
  BY <1>12 DEF Leave, stateVars, TypeOK
<1>13. CASE MustStop
  BY <1>13 DEF MustStop, stateVars, TypeOK
<1>14. CASE Over
  BY <1>14 DEF Over, vars, stateVars, TypeOK
<1> QED
  BY <1>1, <1>2, <1>3, <1>4, <1>5, <1>6, <1>7, <1>8, <1>9, <1>10, <1>11, <1>12,
     <1>13, <1>14 DEF Next, Run

(* What the run keeps are scores of samples of the instances, never an     *)
(* empty one taken for whole, and from the first evaluation on of          *)
(* configurations that can be measured again (RunState of src/ils/mod.rs   *)
(* and the evaluations its rounds compare with it).                        *)
THEOREM ScoresAreSamples == Spec => []TypeOK
BY InitType, NextType, PTL DEF Spec

-----------------------------------------------------------------------------
(* Means are compared by cross products, which a third mean in between     *)
(* carries over.                                                           *)
LEMMA Scaled ==
  ASSUME NEW x \in Nat, NEW y \in Nat, NEW k \in Nat
  PROVE  /\ x <= y => x * k <= y * k
         /\ x < y /\ k > 0 => x * k < y * k
<1>1. (y - x) * k = y * k - x * k
  OBVIOUS
<1>2. ASSUME x <= y PROVE x * k <= y * k
  <2>1. y - x \in Nat
    BY <1>2
  <2>2. (y - x) * k \in Nat
    BY <2>1
  <2> QED
    BY <1>1, <2>2
<1>3. ASSUME x < y, k > 0 PROVE x * k < y * k
  <2>1. PICK d \in Nat, m \in Nat : d = y - x /\ k = m + 1 /\ d > 0
    <3>1. y - x \in Nat /\ k - 1 \in Nat /\ y - x > 0 /\ k = (k - 1) + 1
      BY <1>3
    <3> QED
      BY <3>1
  <2>2. d * (m + 1) = d * m + d /\ d * m \in Nat
    BY <2>1
  <2>3. d * k > 0
    BY <2>1, <2>2
  <2> QED
    BY <1>1, <2>1, <2>3
<1> QED
  BY <1>2, <1>3

LEMMA Between ==
  ASSUME NEW a \in Nat, NEW b \in Nat, NEW c \in Nat,
         NEW p \in Nat, NEW q \in Nat, NEW r \in Nat, q > 0
  PROVE  /\ a * q <= b * p /\ b * r <= c * q => a * r <= c * p
         /\ a * q < b * p /\ b * r <= c * q /\ r > 0 => a * r < c * p
<1> DEFINE x == a * r
           y == c * p
<1>0. x \in Nat /\ y \in Nat /\ a * q \in Nat /\ b * p \in Nat /\ b * r \in Nat /\ c * q \in Nat
  OBVIOUS
<1>1. x * q = (a * q) * r /\ y * q = (c * q) * p /\ (b * p) * r = (b * r) * p
  OBVIOUS
<1>2. ASSUME a * q <= b * p, b * r <= c * q PROVE x * q <= y * q
  <2>1. (a * q) * r <= (b * p) * r /\ (b * r) * p <= (c * q) * p
    BY <1>0, <1>2, Scaled
  <2> QED
    BY <1>0, <1>1, <2>1
<1>3. ASSUME a * q < b * p, b * r <= c * q, r > 0 PROVE x * q < y * q
  <2>1. (a * q) * r < (b * p) * r /\ (b * r) * p <= (c * q) * p
    BY <1>0, <1>3, Scaled
  <2> QED
    BY <1>0, <1>1, <2>1
<1>4. (x * q <= y * q => x <= y) /\ (x * q < y * q => x < y)
  <2> HIDE DEF x, y
  <2>1. (y < x => y * q < x * q) /\ (y <= x => y * q <= x * q)
    BY <1>0, Scaled
  <2>2. x * q \in Nat /\ y * q \in Nat
    BY <1>0
  <2> QED
    BY <1>0, <2>1, <2>2
<1> QED
  BY <1>2, <1>3, <1>4

(* A round that starts with the home base in its band ends with it there.  *)
LEMMA RoundKeeps ==
  ASSUME TypeOK, Round, Approach # "random", HomeInBand
  PROVE  HomeInBand'
<1>1. PICK e \in Descents : Promote(e) /\ AcceptOrReject(e)
  BY DEF Round
<1>2. IsEvaluation(e) /\ IsEvaluation(home) /\ IsEvaluation(incumbent)
  BY DescentType DEF Round, TypeOK
<1>3. /\ \A x \in {e, home, incumbent} : x.sum \in Nat /\ x.n \in Nat
      /\ home.n > 0 /\ incumbent.n > 0 /\ (e.complete => e.n > 0)
      /\ Tolerance \in Nat /\ Unit \in Nat
  BY <1>2, FidelityAssumption, OptionsAssumption DEF IsEvaluation, HomeInBand
<1> DEFINE Wide(x)   == (Unit + Tolerance) * x.sum
           Narrow(x) == Unit * x.sum
<1>4. \A x \in {e, home, incumbent} :
        Wide(x) \in Nat /\ Narrow(x) \in Nat /\ Narrow(x) <= Wide(x)
  <2> SUFFICES ASSUME NEW x \in {e, home, incumbent}
               PROVE  Wide(x) \in Nat /\ Narrow(x) \in Nat /\ Narrow(x) <= Wide(x)
    OBVIOUS
  <2>1. PICK s \in Nat : s = x.sum
    BY <1>3
  <2>2. (Unit + Tolerance) * s = Unit * s + Tolerance * s
        /\ Tolerance * s \in Nat /\ Unit * s \in Nat
    BY <1>3, <2>1
  <2> QED
    BY <2>1, <2>2
<1>5. incumbent.sum * home.n <= home.sum * incumbent.n
  BY <1>3 DEF HomeInBand, Beats, Infinite
<1>6. Narrow(home) * incumbent.n <= Wide(incumbent) * home.n
  BY DEF HomeInBand
<1> HIDE DEF Wide
<1>7. CASE e.complete /\ Beats(e, incumbent)
  <2>1. incumbent' = e
    BY <1>1, <1>7 DEF Promote
  <2>2. e.sum * incumbent.n < incumbent.sum * e.n
    BY <1>3, <1>7 DEF Beats, Infinite
  <2>3. e.sum * home.n < home.sum * e.n
    BY <1>3, <1>5, <2>2, Between
  <2>4. home' = e
    BY <1>1, <1>3, <1>7, <2>3 DEF AcceptOrReject, Beats, Infinite
  <2>5. ~Beats(e, e)
    BY <1>3, <1>7 DEF Beats, Infinite
  <2>6. Narrow(e) * e.n <= Wide(e) * e.n
    <3> HIDE DEF Narrow
    <3> QED
      BY <1>3, <1>4, Scaled
  <2> QED
    BY <1>7, <2>1, <2>4, <2>5, <2>6 DEF HomeInBand, Wide
<1>8. CASE ~(e.complete /\ Beats(e, incumbent))
  <2>1. incumbent' = incumbent
    BY <1>1, <1>8 DEF Promote
  <2>2. CASE home' = home
    BY <2>1, <2>2 DEF HomeInBand
  <2>3. CASE home' # home
    <3>1. /\ home' = e /\ e.complete
          /\ Beats(e, home) \/ Ties(e, home) \/ WithinTolerance(e, incumbent)
      BY <1>1, <2>1, <2>3 DEF AcceptOrReject, Reject
    <3>2. ASSUME Beats(e, home) \/ Ties(e, home)
          PROVE  Narrow(e) * incumbent.n <= Wide(incumbent) * e.n
      <4>1. e.sum * home.n <= home.sum * e.n
        BY <1>3, <3>1, <3>2 DEF Beats, Ties, Infinite
      <4>2. Narrow(e) * home.n <= Narrow(home) * e.n
        <5>1. PICK s \in Nat, n \in Nat, hs \in Nat, hn \in Nat :
                s = e.sum /\ n = e.n /\ hs = home.sum /\ hn = home.n
          BY <1>3
        <5>2. (s * hn) * Unit <= (hs * n) * Unit
          <6>1. s * hn \in Nat /\ hs * n \in Nat /\ s * hn <= hs * n
            BY <4>1, <5>1
          <6> QED
            BY <1>3, <6>1, Scaled
        <5>3. (s * hn) * Unit = (Unit * s) * hn /\ (hs * n) * Unit = (Unit * hs) * n
          BY <1>3, <5>1
        <5> QED
          BY <5>1, <5>2, <5>3
      <4> HIDE DEF Narrow
      <4> QED
        BY <1>3, <1>4, <1>6, <4>2, Between
    <3>3. Narrow(e) * incumbent.n <= Wide(incumbent) * e.n
      BY <3>1, <3>2 DEF WithinTolerance, Wide
    <3> QED
      BY <1>8, <2>1, <3>1, <3>3 DEF HomeInBand, Wide
  <2> QED
    BY <2>2, <2>3
<1> QED
  BY <1>7, <1>8

(* "Against the incumbent the home base is confined to a fixed band around *)
(* the best score seen" (src/ils/bls.rs:76-82), whatever the tolerance and *)
(* however the home base and the incumbent came to be where they are: a    *)
(* round that finds the home base in the band leaves it there.             *)
THEOREM BandIsKept == Spec => RoundsKeepBand
<1> DEFINE Keeps == Round /\ Approach # "random" /\ HomeInBand => HomeInBand'
<1>1. TypeOK => Keeps
  BY RoundKeeps
<1>2. TypeOK /\ [Next]_vars => [Keeps]_vars
  BY <1>1
<1> HIDE DEF Keeps
<1> QED
  BY ScoresAreSamples, <1>2, PTL DEF Spec, RoundsKeepBand, Keeps
-----------------------------------------------------------------------------
(* The probes.                                                             *)

(* A sample of the first f instances has at most f.                        *)
LEMMA SampleSize ==
  ASSUME NEW f \in Nat, NEW S \in SUBSET (1 .. f)
  PROVE  Cardinality(S) \in Nat /\ Cardinality(S) <= f
<1>1. IsFiniteSet(1 .. f) /\ Cardinality(1 .. f) = f
  BY FS_Interval
<1> QED
  BY <1>1, FS_Subset, FS_CardinalityType

(* Without a deadline or a signal the run is never stopped.                *)
LEMMA GoesOn ==
  ASSUME ~MayStop
  PROVE  /\ Init => ~stopped
         /\ ~stopped /\ [Next]_vars => ~stopped'
BY DEF Init, Next, Run, StopMayCome, Start, Probe, Seed, FirstDescent, Perturb, Round,
   Restart, NoRestart, NoGrowth, Grow, Leave, MustStop, Over, vars, stateVars

(* A probe that was capped is over a budget of at least the start's score, *)
(* which it cannot then beat with fewer instances.                         *)
LEMMA ProbeIsWhole ==
  ASSUME TypeOK, Probe, ~stopped', ~FutureTelling, Multiplier >= Unit, current' # current
  PROVE  current'.n = nRuns
<1>0. PICK c \in Configs : \E e \in Outcomes(c, nRuns, current) :
        current' = IF Beats(e, current) THEN [e EXCEPT !.complete = TRUE] ELSE current
  BY DEF Probe
<1>1. PICK e \in Outcomes(c, nRuns, current) :
        current' = [e EXCEPT !.complete = TRUE] /\ Beats(e, current)
  BY <1>0
<1>2. PICK S \in SUBSET (1 .. nRuns) :
        /\ e = Eval(c, nRuns, S)
        /\ e.complete \/ OverBudget(c, nRuns, S, current)
  BY DEF Outcomes
<1>3. nRuns \in 1 .. NTotal /\ NTotal \in Nat /\ Unit \in Nat /\ Multiplier \in Nat
  BY FidelityAssumption, OptionsAssumption DEF TypeOK
<1>4. IsEvaluation(e) /\ IsEvaluation(current)
  BY <1>2, <1>3, EvalType DEF TypeOK
<1>5. e.n <= nRuns
  BY <1>2, <1>3, SampleSize DEF Eval
<1>6. CASE e.complete
  <2>1. e.n = nRuns
    BY <1>2, <1>6 DEF Eval
  <2> QED
    BY <1>1, <1>4, <2>1 DEF IsEvaluation
<1>7. CASE OverBudget(c, nRuns, S, current)
  <2>1. PICK s \in Nat, n \in Nat, rs \in Nat, rn \in Nat :
          s = e.sum /\ n = e.n /\ rs = current.sum /\ rn = current.n
    BY <1>3, <1>4 DEF IsEvaluation
  <2>2. Unit * s * rn > Multiplier * rs * nRuns
    BY <1>2, <1>7, <2>1 DEF OverBudget
  <2>3. s * rn < rs * n
    BY <1>1, <1>7, <2>1 DEF Beats, OverBudget
  <2>4. n * rs <= nRuns * rs
    BY <1>3, <1>5, <2>1, Scaled
  <2>5. /\ s * rn \in Nat /\ rs * nRuns \in Nat /\ s * rn <= rs * nRuns
        /\ Unit <= Multiplier
    <3>1. n * rs = rs * n /\ nRuns * rs = rs * nRuns /\ rs * n \in Nat
          /\ s * rn \in Nat /\ rs * nRuns \in Nat
      BY <1>3
    <3> QED
      BY <1>3, <2>3, <2>4, <3>1
  <2>6. (s * rn) * Unit <= (rs * nRuns) * Unit
    BY <1>3, <2>5, Scaled
  <2>7. Unit * (rs * nRuns) <= Multiplier * (rs * nRuns)
    BY <1>3, <2>5, Scaled
  <2>8. /\ Unit * s * rn = (s * rn) * Unit /\ Unit * (rs * nRuns) = (rs * nRuns) * Unit
        /\ Multiplier * rs * nRuns = Multiplier * (rs * nRuns)
    BY <1>3
  <2>9. /\ (s * rn) * Unit \in Nat /\ (rs * nRuns) * Unit \in Nat
        /\ Multiplier * (rs * nRuns) \in Nat
    BY <1>3, <2>5
  <2> QED
    BY <2>2, <2>6, <2>7, <2>8, <2>9
<1> QED
  BY <1>2, <1>6, <1>7

(* "A capped probe scores above the bound and so above `current`, and      *)
(* cannot dominate: anything that gets through here ran to completion"     *)
(* (src/ils/mod.rs:477-478) is right of capping, with a multiplier of at   *)
(* least one: only a rejection at a checkpoint, or the end of the run in   *)
(* the middle of the probe, makes one pass for whole that is not.          *)
THEOREM ProbesAreWhole ==
  ASSUME ~FutureTelling, ~MayStop, Multiplier >= Unit
  PROVE  Spec => ProbesRanToCompletion
<1> DEFINE Whole == at = "probe" /\ current' # current => current'.n = nRuns
<1>1. TypeOK /\ ~stopped' /\ [Next]_vars => [Whole]_vars
  <2> SUFFICES ASSUME TypeOK, ~stopped', Next, at = "probe", current' # current
               PROVE  current'.n = nRuns
    OBVIOUS
  <2>1. Probe
    BY DEF Next, Run, Start, Seed, FirstDescent, Perturb, Round, Restart, NoRestart, NoGrowth,
       Grow, Leave, MustStop, Over, vars, stateVars
  <2> QED
    BY <2>1, ProbeIsWhole
<1>2. Spec => []~stopped
  BY GoesOn, PTL DEF Spec
<1> HIDE DEF Whole
<1> QED
  BY ScoresAreSamples, <1>1, <1>2, PTL DEF Spec, ProbesRanToCompletion, Whole
=============================================================================
