------------------------- MODULE TunerProcessProofs -------------------------
(* What is proved about the tuner as a process.  First, that what outlives *)
(* it had slipped through its last list: IInv is inductive.  The argument  *)
(* goes by phases: once a Scheduler has moved its batch id on, none of its *)
(* workers claims any more, so that every solver there is or will be was   *)
(* under way when the list was taken.  Then the schedule and its common    *)
(* clock, for which powers, floors and ceilings of fractions are put in    *)
(* order by hand, by induction over the exponent.                          *)
EXTENDS TunerProcess, FiniteSetTheorems, TLAPS

LEMMA InitIInv == Init => IInv
  BY DEF Init, IInv, TypeOK, Places, Stages, Registered, PhasesInOrder, Over,
         ListedAreLast, LeftOver, Pending

LEMMA PhaseIsInt == \A w \in Pool : w[1] \in Int
  BY DEF Pool

-----------------------------------------------------------------------------
(* The main thread.                                                        *)

(* A step of the main thread within the loop, or out of it, that lists and *)
(* kills nothing.                                                          *)
LEMMA LoopKeeps ==
  ASSUME IInv, BeginPhase \/ EndLoop \/ \E ok \in BOOLEAN : RunReturns(ok)
  PROVE  IInv'
  <1>1. CASE BeginPhase
    <2>1. /\ at = "next" /\ at' = "run" /\ UNCHANGED <<depth, stale, alive, globals, locals>>
          /\ UNCHANGED <<listed, missed>>
          /\ st' = [w \in Pool |-> IF w[1] = depth /\ w[2] <= setup.cores THEN "idle"
                                   ELSE st[w]]
      BY <1>1 DEF BeginPhase, Goto
    <2>2. \A w \in Pool : st'[w] # st[w] => w[1] = depth /\ st[w] = "none" /\ st'[w] = "idle"
      BY <2>1 DEF IInv, PhasesInOrder
    <2>3. TypeOK'
      BY <2>1 DEF IInv, TypeOK, Places, Stages
    <2>4. Registered'
      BY <2>1, <2>2 DEF IInv, Registered
    <2>5. PhasesInOrder'
      BY <2>1, <2>2, PhaseIsInt DEF IInv, TypeOK, PhasesInOrder, Over
    <2>6. ListedAreLast'
      BY <2>1, <2>2 DEF IInv, ListedAreLast, TypeOK
    <2>7. LeftOver'
      BY <2>1, <2>2 DEF IInv, LeftOver, Over, Pending, Killing
    <2> QED  BY <2>3, <2>4, <2>5, <2>6, <2>7 DEF IInv
  <1>2. CASE EndLoop
    <2>1. /\ at = "next" /\ at' \in {"end", "exited"}
          /\ UNCHANGED <<depth, stale, st, alive, globals, locals, listed, missed>>
      BY <1>2 DEF EndLoop, Goto, workerVars
    <2>2. \A w \in Pool : w[1] = depth => st[w] = "none" /\ w \notin alive
      BY <2>1 DEF IInv, PhasesInOrder, Registered
    <2>3. TypeOK'
      BY <2>1 DEF IInv, TypeOK, Places
    <2>4. Registered' /\ ListedAreLast'
      BY <2>1 DEF IInv, Registered, ListedAreLast
    <2>5. PhasesInOrder' /\ LeftOver'
      BY <2>1, <2>2 DEF IInv, PhasesInOrder, LeftOver, Over, Pending, Killing
    <2> QED  BY <2>3, <2>4, <2>5 DEF IInv
  <1>3. ASSUME NEW ok \in BOOLEAN, RunReturns(ok) PROVE IInv'
    <2>1. /\ at = "run" /\ at' = "listBatch" /\ stale' = stale \cup {depth}
          /\ UNCHANGED <<depth, st, alive, globals, locals, listed, missed>>
      BY <1>3 DEF RunReturns, Goto, workerVars
    <2>2. TypeOK' /\ Registered' /\ ListedAreLast'
      BY <2>1 DEF IInv, TypeOK, Places, Registered, ListedAreLast
    <2>3. PhasesInOrder' /\ LeftOver'
      BY <2>1 DEF IInv, PhasesInOrder, LeftOver, Over, Pending, Killing
    <2> QED  BY <2>2, <2>3 DEF IInv
  <1> QED  BY <1>1, <1>2, <1>3

(* The list of a phase names everyone who polls; whoever does not yet, but *)
(* will, is missed.                                                        *)
LEMMA ListPhaseKeeps ==
  ASSUME IInv, ListPhase("listBatch", "killBatch") \/ ListPhase("listAll", "killAll")
  PROVE  IInv'
  <1>1. /\ at \in {"listBatch", "listAll"} /\ at' \in {"killBatch", "killAll"}
        /\ UNCHANGED <<depth, stale, st, alive, globals, locals>>
        /\ listed' = locals \cap OfPhase(depth)
        /\ missed' = (missed \ OfPhase(depth)) \cup
                       {w \in OfPhase(depth) : st[w] \in {"claimed", "spawned", "registered"}}
    BY DEF ListPhase, Goto, workerVars
  <1>2. TypeOK' /\ Registered'
    BY <1>1 DEF IInv, TypeOK, Places, Registered, OfPhase
  <1>3. \A w \in Pool : w[1] = depth /\ st[w] # "none" => w[1] \in stale
    BY <1>1 DEF IInv, PhasesInOrder, Over
  <1>4. PhasesInOrder'
    BY <1>1, <1>3 DEF IInv, PhasesInOrder, Over
  <1>5. \A w \in Pool : w \in locals => st[w] \notin {"none", "claimed"}
    BY DEF IInv, Registered
  <1>6. ListedAreLast'
    BY <1>1, <1>3, <1>5 DEF ListedAreLast, OfPhase
  <1>7. ASSUME NEW w \in Pool, Over(w)', Pending(w)' PROVE w \in missed' \/ w \in listed'
    <2>1. Pending(w)
      BY <1>1, <1>7 DEF Pending
    <2>2. CASE w[1] = depth
      <3>1. st[w] \in {"claimed", "spawned", "registered", "polling"}
        BY <2>1 DEF IInv, Registered, Pending
      <3>2. st[w] = "polling" => w \in locals
        BY DEF IInv, Registered
      <3> QED  BY <1>1, <2>2, <3>1, <3>2 DEF OfPhase
    <2>3. CASE w[1] # depth
      <3>1. Over(w) /\ ~Killing
        BY <1>1, <1>7, <2>3 DEF Over, Killing
      <3>2. w \in missed
        BY <2>1, <3>1 DEF IInv, LeftOver
      <3> QED  BY <1>1, <2>3, <3>2 DEF OfPhase
    <2> QED  BY <2>2, <2>3
  <1>8. LeftOver'
    BY <1>1, <1>7 DEF LeftOver, Killing
  <1> QED  BY <1>2, <1>4, <1>6, <1>8 DEF IInv

(* Whoever is listed is dead afterwards and starts nothing any more.       *)
LEMMA KillKeeps ==
  ASSUME IInv, KillBatch \/ KillAll \/ KillGlobals
  PROVE  IInv'
  <1>1. /\ alive' = alive \ listed /\ listed' = {}
        /\ UNCHANGED <<stale, st, globals, locals, missed>>
    BY DEF KillBatch, KillAll, KillGlobals, KillListed
  <1>2. \/ at = "killBatch" /\ at' = "listAll" /\ depth' = depth
        \/ at = "killAll" /\ at' = "next" /\ depth' = depth + 1
        \/ at = "killGlobals" /\ at' = "exit" /\ depth' = depth
    BY DEF KillBatch, KillAll, KillGlobals, KillListed, Goto
  <1>0. depth \in Nat
    BY DEF IInv, TypeOK
  <1>3. TypeOK' /\ Registered' /\ ListedAreLast'
    <2>1. at' \in Places /\ depth' \in Nat
      BY <1>0, <1>2 DEF Places
    <2>2. TypeOK'
      BY <1>1, <2>1 DEF IInv, TypeOK
    <2>3. Registered' /\ ListedAreLast'
      BY <1>1 DEF IInv, Registered, ListedAreLast
    <2> QED  BY <2>2, <2>3
  <1>4. ASSUME NEW w \in Pool, Over(w)' PROVE Over(w)
    <2>1. w[1] \in Int
      BY PhaseIsInt
    <2> QED  BY <1>0, <1>2, <1>4, <2>1 DEF Over
  <1>5. PhasesInOrder'
    <2>1. \A w \in Pool : w[1] > depth' \/ (w[1] = depth' /\ at' = "next") => st'[w] = "none"
      <3>1. \A w \in Pool : w[1] > depth' \/ (w[1] = depth' /\ at' = "next") =>
              w[1] > depth \/ (w[1] = depth /\ at = "next")
        BY <1>0, <1>2, PhaseIsInt
      <3> QED  BY <1>1, <3>1 DEF IInv, PhasesInOrder
    <2>2. \A w \in Pool : Over(w)' /\ st'[w] # "none" => w[1] \in stale'
      BY <1>1, <1>4 DEF IInv, PhasesInOrder
    <2> QED  BY <1>2, <2>1, <2>2 DEF PhasesInOrder
  <1>6. ASSUME NEW w \in Pool, Over(w)', Pending(w)' PROVE w \in missed'
    <2>1. Over(w) /\ Pending(w) /\ w \notin listed
      BY <1>1, <1>4, <1>6 DEF Pending, IInv, ListedAreLast
    <2> QED  BY <1>1, <2>1 DEF IInv, LeftOver
  <1>7. LeftOver'
    BY <1>6 DEF LeftOver
  <1> QED  BY <1>3, <1>5, <1>7 DEF IInv

(* After the loop every phase is over, so that whoever has registered has  *)
(* stopped claiming.                                                       *)
LEMMA EndKeeps ==
  ASSUME IInv, PrintResult \/ ListGlobals \/ Exit
  PROVE  IInv'
  <1>1. CASE PrintResult \/ Exit
    <2>1. /\ at \in {"end", "exit"} /\ at' = "exited"
          /\ UNCHANGED <<depth, stale, st, alive, globals, locals, listed, missed>>
      BY <1>1 DEF PrintResult, Exit, Goto, workerVars
    <2>2. TypeOK' /\ Registered' /\ ListedAreLast'
      BY <2>1 DEF IInv, TypeOK, Places, Registered, ListedAreLast
    <2>3. PhasesInOrder' /\ LeftOver'
      BY <2>1 DEF IInv, PhasesInOrder, LeftOver, Over, Pending, Killing
    <2> QED  BY <2>2, <2>3 DEF IInv
  <1>2. CASE ListGlobals
    <2>1. /\ at = "end" /\ at' = "killGlobals" /\ listed' = globals
          /\ missed' = {w \in Pool : st[w] \in {"claimed", "spawned"}}
          /\ UNCHANGED <<depth, stale, st, alive, globals, locals>>
      BY <1>2 DEF ListGlobals, Goto, workerVars
    <2>2. TypeOK' /\ Registered'
      BY <2>1 DEF IInv, TypeOK, Places, Registered
    <2>3. PhasesInOrder'
      BY <2>1 DEF IInv, PhasesInOrder, Over
    <2>4. \A w \in Pool : st[w] # "none" => Over(w)
      <3>1. depth \in Nat /\ \A w \in Pool : st[w] # "none" => ~(w[1] > depth)
        BY DEF IInv, TypeOK, PhasesInOrder
      <3> QED  BY <2>1, <3>1, PhaseIsInt DEF Over
    <2>5. ListedAreLast'
      BY <2>1, <2>4 DEF IInv, TypeOK, Registered, PhasesInOrder, ListedAreLast
    <2>6. ASSUME NEW w \in Pool, Pending(w) PROVE w \in missed' \/ w \in listed'
      BY <2>1, <2>6 DEF IInv, Registered, Pending
    <2>7. LeftOver'
      BY <2>1, <2>6 DEF LeftOver, Pending, Killing
    <2> QED  BY <2>2, <2>3, <2>5, <2>7 DEF IInv
  <1> QED  BY <1>1, <1>2

-----------------------------------------------------------------------------
(* The workers and the rest.                                               *)

(* A worker's step, but for what it claims, starts nothing new.            *)
LEMMA WorkerKeeps ==
  ASSUME IInv, NEW v \in Pool, Worker(v)
  PROVE  IInv'
  <1>1. UNCHANGED <<at, depth, stale, missed>>
    BY DEF Worker, Claim, Spawn, RegisterGlobal, RegisterLocal, Terminate, TryWait,
           UnregisterGlobal, UnregisterLocal, Works, mainVars
  <1>2. /\ st' = [st EXCEPT ![v] = st'[v]] /\ st[v] # "none" /\ st'[v] \in Stages \ {"none"}
        /\ st'[v] = "claimed" => v[1] \notin stale
    BY DEF Worker, Claim, Spawn, RegisterGlobal, RegisterLocal, Terminate, TryWait,
           UnregisterGlobal, UnregisterLocal, Works, IInv, TypeOK, Stages
  <1>3. TypeOK'
    BY <1>1, <1>2 DEF Worker, Claim, Spawn, RegisterGlobal, RegisterLocal, Terminate, TryWait,
           UnregisterGlobal, UnregisterLocal, IInv, TypeOK
  <1>4. Registered'
    BY DEF Worker, Claim, Spawn, RegisterGlobal, RegisterLocal, Terminate, TryWait,
           UnregisterGlobal, UnregisterLocal, Works, IInv, TypeOK, Registered
  <1>5. PhasesInOrder'
    BY <1>1, <1>2 DEF IInv, TypeOK, PhasesInOrder, Over
  <1>6. listed' \subseteq listed
    BY DEF Worker, Claim, Spawn, RegisterGlobal, RegisterLocal, Terminate, TryWait,
           UnregisterGlobal, UnregisterLocal, IInv, TypeOK
  <1>7. ListedAreLast'
    BY <1>1, <1>2, <1>6 DEF IInv, TypeOK, ListedAreLast
  <1>8. ASSUME NEW w \in Pool, Pending(w)', w[1] \in stale
        PROVE  Pending(w) /\ (w \in listed => w \in listed')
    BY <1>8, <1>2 DEF Worker, Claim, Spawn, RegisterGlobal, RegisterLocal, Terminate, TryWait,
           UnregisterGlobal, UnregisterLocal, Works, IInv, TypeOK, Registered, Pending
  <1>9. ASSUME NEW w \in Pool, Over(w)', Pending(w)'
        PROVE  w \in missed' \/ (Killing' /\ w \in listed')
    <2>1. Over(w) /\ st'[w] # "none"
      BY <1>1, <1>4, <1>9 DEF Over, Pending, Registered
    <2>2. w[1] \in stale
      BY <1>1, <1>5, <1>9, <2>1 DEF PhasesInOrder
    <2> QED  BY <1>1, <1>8, <1>9, <2>1, <2>2 DEF IInv, LeftOver, Killing
  <1>10. LeftOver'
    BY <1>9 DEF LeftOver
  <1> QED  BY <1>3, <1>4, <1>5, <1>7, <1>10 DEF IInv

LEMMA EnvironmentKeeps ==
  ASSUME IInv, Tick \/ Signal \/ UNCHANGED vars \/ \E w \in Pool : SolverEnds(w)
  PROVE  IInv'
  <1>1. /\ UNCHANGED <<at, depth, stale, st, globals, locals, listed, missed>>
        /\ alive' \subseteq alive
    BY DEF Tick, Signal, SolverEnds, vars, mainVars, workerVars
  <1>2. TypeOK' /\ Registered' /\ ListedAreLast'
    BY <1>1 DEF IInv, TypeOK, Registered, ListedAreLast
  <1>3. PhasesInOrder' /\ LeftOver'
    BY <1>1 DEF IInv, PhasesInOrder, LeftOver, Over, Pending, Killing
  <1> QED  BY <1>2, <1>3 DEF IInv

LEMMA NextIInv ==
  ASSUME IInv, [Next]_vars
  PROVE  IInv'
  BY LoopKeeps, ListPhaseKeeps, KillKeeps, EndKeeps, WorkerKeeps, EnvironmentKeeps
     DEF Next, Main

(* Whichever way the tuner ends, every solver that outlives it was being   *)
(* started when the last list that could name it was taken; one that had   *)
(* been registered by then is dead (eval.rs:409-414, lib.rs:104-116).      *)
THEOREM OnlyTheMissedSurvive == Spec => []OrphansSlippedThrough
  <1>1. IInv => OrphansSlippedThrough
    <2> SUFFICES ASSUME IInv, at = "exited", NEW w \in alive PROVE w \in missed
      BY DEF OrphansSlippedThrough
    <2>1. w \in Pool /\ st[w] # "none"
      BY DEF IInv, TypeOK, Registered
    <2>2. Over(w)
      BY <2>1, PhaseIsInt DEF IInv, TypeOK, PhasesInOrder, Over
    <2> QED  BY <2>1, <2>2 DEF IInv, LeftOver, Pending, Killing
  <1> QED  BY <1>1, InitIInv, NextIInv, PTL DEF Spec

-----------------------------------------------------------------------------
(* Numbers.                                                                *)

(* A set of numbers that is not empty has a least one: the intervals up to *)
(* its members are well-founded by inclusion.                              *)
LEMMA LeastNumber ==
  ASSUME NEW P \in SUBSET Nat, P # {}
  PROVE  \E m \in P : \A k \in P : m <= k
<1>1. PICK n \in P : TRUE
  OBVIOUS
<1> DEFINE S == 0 .. n
           Q == {0 .. i : i \in {k \in P : k <= n}}
<1>2. n \in Nat /\ IsFiniteSet(S)
  BY <1>1, FS_Interval
<1>3. Q \subseteq FiniteSubsetsOf(S) /\ Q # {}
  <2>1. FiniteSubsetsOf(S) = SUBSET S
    BY <1>2, FS_FiniteSubsetsOfFinite
  <2>2. \A i \in P : i <= n => 0 .. i \subseteq S
    BY <1>2
  <2> QED
    BY <1>1, <1>2, <2>1, <2>2
<1>4. PICK T \in Q : \A U \in Q : <<U, T>> \notin StrictSubsetOrdering(S)
  <2> HIDE DEF Q, S
  <2> QED
    BY <1>3, FS_StrictSubsetOrderingWellFounded, WFMin
<1>5. PICK m \in P : m <= n /\ T = 0 .. m
  BY <1>4
<1>6. ASSUME NEW k \in P PROVE m <= k
  <2> SUFFICES ASSUME k < m PROVE FALSE
    BY <1>6
  <2>1. k <= n /\ 0 .. k \in Q
    BY <1>2, <1>5
  <2>2. 0 .. k \subseteq 0 .. m /\ 0 .. m \subseteq S /\ m \in 0 .. m /\ m \notin 0 .. k
    BY <1>2, <1>5
  <2>3. <<0 .. k, T>> \in StrictSubsetOrdering(S)
    <3> HIDE DEF S
    <3> QED
      BY <1>5, <2>2 DEF StrictSubsetOrdering
  <2> QED
    BY <1>4, <2>1, <2>3
<1> QED
  BY <1>6

(* Induction, over a set.                                                  *)
LEMMA ByNumbers ==
  ASSUME NEW P, 0 \in P, \A n \in Nat : n \in P => n + 1 \in P
  PROVE  Nat \subseteq P
<1> SUFFICES ASSUME Nat \ P # {} PROVE FALSE
  OBVIOUS
<1>1. PICK m \in Nat \ P : \A k \in Nat \ P : m <= k
  BY LeastNumber
<1>2. m # 0 /\ m - 1 \in Nat /\ (m - 1) + 1 = m
  BY <1>1
<1> QED
  BY <1>1, <1>2

(* power[i] of Power, up to n.                                             *)
Powers(p, a, n) == p = [i \in 0 .. n |-> IF i = 0 THEN 1 ELSE a * p[i - 1]]

(* Power computes something: a table up to n + 1 is one up to n and one    *)
(* line more.                                                              *)
LEMMA PowersExist ==
  ASSUME NEW a, NEW n \in Nat
  PROVE  \E p : Powers(p, a, n)
<1> DEFINE P == {m \in Nat : \E p : Powers(p, a, m)}
<1>1. 0 \in P
  <2> DEFINE p == [i \in 0 .. 0 |-> 1]
  <2>1. p = [i \in 0 .. 0 |-> IF i = 0 THEN 1 ELSE a * p[i - 1]]
    OBVIOUS
  <2> QED
    BY <2>1 DEF Powers
<1>2. ASSUME NEW m \in Nat, m \in P PROVE m + 1 \in P
  <2>1. PICK p : p = [i \in 0 .. m |-> IF i = 0 THEN 1 ELSE a * p[i - 1]]
    BY <1>2 DEF Powers
  <2> DEFINE q == [i \in 0 .. m + 1 |-> IF i = 0 THEN 1 ELSE a * p[i - 1]]
  <2>2. \A i \in 0 .. m : q[i] = p[i]
    BY <1>2, <2>1
  <2>3. \A i \in 0 .. m + 1 : i # 0 => i - 1 \in 0 .. m
    BY <1>2
  <2>4. q = [i \in 0 .. m + 1 |-> IF i = 0 THEN 1 ELSE a * q[i - 1]]
    <3>1. \A i \in 0 .. m + 1 : q[i] = IF i = 0 THEN 1 ELSE a * q[i - 1]
      BY <2>2, <2>3
    <3>2. q = [i \in 0 .. m + 1 |-> q[i]]
      OBVIOUS
    <3> HIDE DEF q
    <3> QED
      BY <3>1, <3>2
  <2> HIDE DEF q
  <2>5. Powers(q, a, m + 1)
    BY <2>4 DEF Powers
  <2> QED
    BY <1>2, <2>5
<1> HIDE DEF P
<1>3. n \in P
  BY <1>1, <1>2, ByNumbers
<1> QED
  BY <1>3 DEF P

(* What it computes.                                                       *)
LEMMA PowerIs ==
  ASSUME NEW a
  PROVE  /\ Power(a, 0) = 1
         /\ \A j \in Nat : j < MaxPhases => Power(a, j + 1) = a * Power(a, j)
<1> DEFINE p == CHOOSE q : Powers(q, a, MaxPhases)
<1>1. MaxPhases \in Nat
  BY BoundsAssumption
<1>2. Powers(p, a, MaxPhases)
  BY <1>1, PowersExist
<1>3. \A j : Power(a, j) = p[j]
  BY DEF Power, Powers
<1> HIDE DEF p
<1>4. \A i \in 0 .. MaxPhases : p[i] = IF i = 0 THEN 1 ELSE a * p[i - 1]
  BY <1>2 DEF Powers
<1>5. p[0] = 1
  BY <1>1, <1>4
<1>6. ASSUME NEW j \in Nat, j < MaxPhases PROVE p[j + 1] = a * p[j]
  <2>1. j + 1 \in 0 .. MaxPhases /\ j + 1 # 0 /\ (j + 1) - 1 = j
    BY <1>1, <1>6
  <2> QED
    BY <1>4, <2>1
<1> QED
  BY <1>3, <1>5, <1>6

(* Products are ordered as their factors.                                  *)
LEMMA Times ==
  ASSUME NEW x \in Nat, NEW y \in Nat, NEW k \in Nat
  PROVE  /\ x * k \in Nat
         /\ x <= y => x * k <= y * k
         /\ x < y /\ k > 0 => x * k < y * k
<1>1. (y - x) * k = y * k - x * k /\ x * k \in Nat
  OBVIOUS
<1>2. ASSUME x <= y PROVE x * k <= y * k
  <2>1. y - x \in Nat
    BY <1>2
  <2>2. (y - x) * k \in Nat
    BY <2>1
  <2> QED
    BY <1>1, <2>2
<1>3. ASSUME x < y, k > 0 PROVE x * k < y * k
  <2>1. PICK d \in Nat, m \in Nat : d = y - x /\ k = m + 1 /\ d > 0
    <3>1. y - x \in Nat /\ k - 1 \in Nat /\ y - x > 0 /\ k = (k - 1) + 1
      BY <1>3
    <3> QED
      BY <3>1
  <2>2. d * (m + 1) = d * m + d /\ d * m \in Nat
    BY <2>1
  <2>3. d * k > 0
    BY <2>1, <2>2
  <2> QED
    BY <1>1, <2>1, <2>3
<1> QED
  BY <1>1, <1>2, <1>3

(* A power of a positive number is one.                                    *)
LEMMA PowerType ==
  ASSUME NEW a \in Nat \ {0}, NEW j \in 0 .. MaxPhases
  PROVE  Power(a, j) \in Nat \ {0}
<1> DEFINE P == {i \in Nat : i <= MaxPhases => Power(a, i) \in Nat \ {0}}
<1>0. MaxPhases \in Nat
  BY BoundsAssumption
<1>1. 0 \in P
  BY PowerIs
<1>2. ASSUME NEW i \in Nat, i \in P PROVE i + 1 \in P
  <2> SUFFICES ASSUME i + 1 <= MaxPhases PROVE Power(a, i + 1) \in Nat \ {0}
    BY <1>2
  <2>1. Power(a, i) \in Nat \ {0} /\ i < MaxPhases
    BY <1>0, <1>2
  <2>2. Power(a, i + 1) = a * Power(a, i)
    BY <1>2, <2>1, PowerIs
  <2>3. 0 < a /\ 0 < Power(a, i) /\ 0 * Power(a, i) = 0
    BY <2>1
  <2>4. a * Power(a, i) \in Nat /\ 0 * Power(a, i) < a * Power(a, i)
    BY <2>1, <2>3, Times
  <2> QED
    BY <2>2, <2>3, <2>4
<1> HIDE DEF P
<1>3. j \in P
  BY <1>0, <1>1, <1>2, ByNumbers
<1> QED
  BY <1>0, <1>3 DEF P

-----------------------------------------------------------------------------
(* Factors, fractions.                                                     *)

(* A factor is a fraction of two positive numbers, at most one.            *)
LEMMA FactorType ==
  ASSUME NEW l \in Factors
  PROVE  l[1] \in Nat \ {0} /\ l[2] \in Nat \ {0} /\ l[1] <= l[2]
  BY DEF Factors

LEMMA FractionType ==
  ASSUME NEW x \in Fractions
  PROVE  x[1] \in Nat /\ x[2] \in Nat \ {0}
  BY DEF Fractions

LEMMA WholeType ==
  ASSUME NEW k \in Nat
  PROVE  Whole(k) \in Fractions /\ Whole(k)[1] = k /\ Whole(k)[2] = 1
  BY DEF Whole, Fractions

(* A scaled fraction is a fraction, and positive if it was.                *)
LEMMA ScaledType ==
  ASSUME NEW x \in Fractions, NEW l \in Factors, NEW j \in 0 .. MaxPhases
  PROVE  /\ Scaled(x, l, j)[1] \in Nat
         /\ Scaled(x, l, j)[2] \in Nat \ {0}
         /\ x[1] > 0 => Scaled(x, l, j)[1] > 0
<1>1. PICK p \in Nat \ {0}, q \in Nat \ {0} : p = Power(l[1], j) /\ q = Power(l[2], j)
  BY FactorType, PowerType
<1>2. PICK a \in Nat, b \in Nat \ {0} : a = x[1] /\ b = x[2]
  BY FractionType
<1>3. a * p \in Nat /\ b * q \in Nat /\ 0 * p = 0 /\ 0 * q = 0
  BY Times
<1>4. (a > 0 => 0 * p < a * p) /\ 0 * q < b * q
  BY Times
<1>5. Scaled(x, l, j) = <<a * p, b * q>>
  BY <1>1, <1>2 DEF Scaled
<1> QED
  BY <1>2, <1>3, <1>4, <1>5

LEMMA ScaledOnce ==
  ASSUME NEW x \in Fractions, NEW l \in Factors, NEW j \in Nat, j < MaxPhases
  PROVE  /\ Scaled(x, l, j + 1)[1] = l[1] * Scaled(x, l, j)[1]
         /\ Scaled(x, l, j + 1)[2] = l[2] * Scaled(x, l, j)[2]
<1>0. MaxPhases \in Nat /\ j \in 0 .. MaxPhases
  BY BoundsAssumption
<1>1. Power(l[1], j) \in Nat /\ l[1] \in Nat /\ Power(l[2], j) \in Nat /\ l[2] \in Nat
  BY <1>0, FactorType, PowerType
<1>2. Power(l[1], j + 1) = l[1] * Power(l[1], j) /\ Power(l[2], j + 1) = l[2] * Power(l[2], j)
  BY PowerIs
<1>3. /\ x[1] * (l[1] * Power(l[1], j)) = l[1] * (x[1] * Power(l[1], j))
      /\ x[2] * (l[2] * Power(l[2], j)) = l[2] * (x[2] * Power(l[2], j))
  <2>1. \A m \in Nat, p \in Nat, q \in Nat : m * (p * q) = p * (m * q)
    OBVIOUS
  <2> QED
    BY <1>1, <2>1, FractionType
<1> QED
  BY <1>2, <1>3 DEF Scaled

(* Scaled no times a fraction is what it was.                              *)
LEMMA ScaledNever ==
  ASSUME NEW x \in Fractions, NEW l \in Factors
  PROVE  Scaled(x, l, 0)[1] = x[1] /\ Scaled(x, l, 0)[2] = x[2]
<1>1. Power(l[1], 0) = 1 /\ Power(l[2], 0) = 1
  BY PowerIs
<1> QED
  BY <1>1, FractionType DEF Scaled

-----------------------------------------------------------------------------
(* Floors, by the numbers they reach.                                      *)
LEMMA DivIs ==
  ASSUME NEW m \in Nat, NEW n \in Nat \ {0}, NEW k \in Nat
  PROVE  m \div n \in Nat /\ (k <= m \div n <=> k * n <= m)
<1>1. m \div n \in Nat /\ n * (m \div n) <= m /\ m < n * (m \div n) + n
  BY Z3
<1> DEFINE d == m \div n
<1>2. d \in Nat /\ d * n <= m /\ m < (d + 1) * n
  BY <1>1
<1> HIDE DEF d
<1>3. k <= d => k * n <= d * n
  BY <1>2, Times
<1>4. d + 1 <= k => (d + 1) * n <= k * n
  BY <1>2, Times
<1>5. k * n \in Nat /\ d * n \in Nat /\ (d + 1) * n \in Nat
  BY <1>2, Times
<1>6. k <= d <=> k * n <= m
  BY <1>2, <1>3, <1>4, <1>5
<1> QED
  BY <1>2, <1>6 DEF d

(* The ceiling of a fraction is the least number no smaller.               *)
LEMMA CeilingIs ==
  ASSUME NEW f, f[1] \in Nat, f[2] \in Nat \ {0}, NEW k \in Nat
  PROVE  Ceiling(f) \in Nat /\ (Ceiling(f) <= k <=> f[1] <= k * f[2])
<1>1. PICK m \in Nat, n \in Nat \ {0} : m = f[1] /\ n = f[2]
  OBVIOUS
<1>2. m + n - 1 \in Nat
  OBVIOUS
<1>3. Ceiling(f) = (m + n - 1) \div n
  BY <1>1 DEF Ceiling
<1>4. Ceiling(f) \in Nat /\ (k + 1 <= Ceiling(f) <=> (k + 1) * n <= m + n - 1)
  BY <1>2, <1>3, DivIs
<1>5. (k + 1) * n = k * n + n /\ k * n \in Nat
  BY Times
<1> QED
  BY <1>1, <1>4, <1>5

(* Scaling by a factor makes neither the ceiling nor the floor larger.     *)
LEMMA Shrinks ==
  ASSUME NEW X \in Nat, NEW B \in Nat \ {0}, NEW a \in Nat \ {0}, NEW b \in Nat \ {0}, a <= b
  PROVE  /\ Ceiling(<<a * X, b * B>>) <= Ceiling(<<X, B>>)
         /\ a < b /\ X > 0 /\ Ceiling(<<a * X, b * B>>) * (b * B) = a * X
              => Ceiling(<<a * X, b * B>>) < Ceiling(<<X, B>>)
         /\ (a * X) \div (b * B) <= X \div B
<1>0. a * X \in Nat /\ b * B \in Nat \ {0}
  <2>1. 0 * B = 0 /\ 0 * B < b * B
    BY Times
  <2> QED
    BY <2>1, Times
<1>1. Ceiling(<<a * X, b * B>>) <= Ceiling(<<X, B>>)
  <2>1. PICK c \in Nat : c = Ceiling(<<X, B>>)
    BY CeilingIs
  <2>2. X <= c * B
    BY <2>1, CeilingIs
  <2>3. X * a <= (c * B) * a /\ a * (c * B) <= b * (c * B)
    BY <2>2, Times
  <2>4. (c * B) * a = a * (c * B) /\ b * (c * B) = c * (b * B) /\ X * a = a * X
    OBVIOUS
  <2>5. a * X <= c * (b * B)
    <3>1. c * B \in Nat /\ c * (b * B) \in Nat
      BY <1>0, Times
    <3> QED
      BY <1>0, <2>3, <2>4, <3>1
  <2> QED
    BY <1>0, <2>1, <2>5, CeilingIs
<1>2. (a * X) \div (b * B) <= X \div B
  <2>1. PICK f \in Nat : f = (a * X) \div (b * B)
    BY <1>0, DivIs
  <2>2. f * (b * B) <= a * X
    BY <1>0, <2>1, DivIs
  <2>3. a * X <= b * X
    BY Times
  <2>4. (f * B) * b = f * (b * B) /\ X * b = b * X
    OBVIOUS
  <2>5. f * B \in Nat /\ X * b \in Nat /\ (f * B) * b \in Nat
    BY Times
  <2>6. (f * B) * b <= X * b
    BY <1>0, <2>2, <2>3, <2>4, <2>5
  <2>7. X < f * B => X * b < (f * B) * b
    BY <2>5, Times
  <2>8. f * B <= X
    BY <2>5, <2>6, <2>7
  <2> QED
    BY <2>1, <2>8, DivIs
<1>3. ASSUME a < b, X > 0, Ceiling(<<a * X, b * B>>) * (b * B) = a * X
      PROVE  Ceiling(<<a * X, b * B>>) < Ceiling(<<X, B>>)
  <2>1. PICK k \in Nat : k = Ceiling(<<a * X, b * B>>)
    BY <1>0, CeilingIs
  <2>2. k * (b * B) = a * X
    BY <1>3, <2>1
  <2>3. X * a < X * b
    <3>1. a * X < b * X
      BY <1>3, Times
    <3> QED
      BY <3>1
  <2>4. k * (b * B) = (k * B) * b /\ a * X = X * a /\ k * B \in Nat /\ (k * B) * b \in Nat
        /\ X * b \in Nat /\ X * a \in Nat
    <3>1. k * B \in Nat /\ (k * B) * b \in Nat /\ X * b \in Nat /\ X * a \in Nat
      BY Times
    <3> QED
      BY <3>1
  <2>5. (k * B) * b < X * b
    BY <2>2, <2>3, <2>4
  <2>6. X <= k * B => X * b <= (k * B) * b
    BY <2>4, Times
  <2>7. ~(X <= k * B)
    BY <2>4, <2>5, <2>6
  <2>8. Ceiling(<<X, B>>) \in Nat /\ ~(Ceiling(<<X, B>>) <= k)
    BY <2>7, CeilingIs
  <2> QED
    BY <2>1, <2>8
<1> QED
  BY <1>1, <1>2, <1>3

-----------------------------------------------------------------------------
(* The number of phases.                                                   *)

(* Scaled j times x is still above 1.                                      *)
Above(x, l, j) == AboveOne(Scaled(x, l, j))

(* What is above 1 after one more scaling was above it before.             *)
LEMMA AboveBefore ==
  ASSUME NEW x \in Fractions, NEW l \in Factors, NEW j \in Nat, j < MaxPhases, Above(x, l, j + 1)
  PROVE  Above(x, l, j)
<1>0. MaxPhases \in Nat /\ j \in 0 .. MaxPhases
  BY BoundsAssumption
<1>1. PICK p \in Nat, q \in Nat : p = Scaled(x, l, j)[1] /\ q = Scaled(x, l, j)[2]
  BY <1>0, ScaledType
<1>2. PICK a \in Nat, b \in Nat : a = l[1] /\ b = l[2] /\ a <= b /\ a > 0
  BY FactorType
<1>3. a * p > b * q
  BY <1>1, <1>2, ScaledOnce DEF Above, AboveOne
<1>4. q * a <= q * b /\ q * a = a * q /\ q * b = b * q /\ a * p \in Nat /\ a * q \in Nat /\ b * q \in Nat
  <2>1. a * q <= b * q
    BY <1>1, <1>2, Times
  <2> QED
    BY <1>1, <1>2, <2>1, Times
<1>5. p <= q => p * a <= q * a
  BY <1>1, <1>2, Times
<1>6. p * a = a * p
  BY <1>1, <1>2
<1>7. p > q
  BY <1>1, <1>2, <1>3, <1>4, <1>5, <1>6
<1> QED
  BY <1>1, <1>7 DEF Above, AboveOne

(* The exponents Scalings counts.                                          *)
Steps(x, l) == {j \in 0 .. MaxPhases - 1 : Above(x, l, j)}

(* Scalings counts them.                                                   *)
LEMMA StepsFinite ==
  ASSUME NEW x, NEW l
  PROVE  /\ IsFiniteSet(Steps(x, l)) /\ Scalings(x, l) = Cardinality(Steps(x, l))
         /\ Scalings(x, l) \in Nat
<1>1. IsFiniteSet(0 .. MaxPhases - 1)
  BY BoundsAssumption, FS_Interval
<1>2. Steps(x, l) \subseteq 0 .. MaxPhases - 1
  BY DEF Steps
<1>3. IsFiniteSet(Steps(x, l))
  BY <1>1, <1>2, FS_Subset
<1>4. Scalings(x, l) = Cardinality(Steps(x, l))
  BY DEF Scalings, Steps, Above
<1> QED
  BY <1>3, <1>4, FS_CardinalityType

(* Scalings finds the first exponent at which x has come down to 1: those  *)
(* before it are the steps, and none is after it.                          *)
LEMMA ScalingsAre ==
  ASSUME NEW x \in Fractions, NEW l \in Factors, Scalings(x, l) < MaxPhases
  PROVE  /\ ~Above(x, l, Scalings(x, l))
         /\ Scalings(x, l) > 0 => Above(x, l, Scalings(x, l) - 1)
<1> DEFINE N == {j \in 0 .. MaxPhases - 1 : ~Above(x, l, j)}
<1>0. MaxPhases \in Nat
  BY BoundsAssumption
<1>4. N # {}
  <2> SUFFICES ASSUME N = {} PROVE FALSE
    OBVIOUS
  <2>1. Steps(x, l) = 0 .. MaxPhases - 1
    BY DEF Steps
  <2>2. MaxPhases - 1 \in Int /\ 0 \in Int
    BY <1>0
  <2>3. Cardinality(0 .. MaxPhases - 1)
          = IF 0 > MaxPhases - 1 THEN 0 ELSE (MaxPhases - 1) - 0 + 1
    BY <2>2, FS_Interval
  <2> HIDE DEF N
  <2> QED
    BY <1>0, <2>1, <2>3, StepsFinite
<1>5. PICK m \in N : \A k \in N : m <= k
  <2>1. N \in SUBSET Nat
    BY <1>0
  <2> HIDE DEF N
  <2> QED
    BY <1>4, <2>1, LeastNumber
<1>6. m \in Nat /\ m < MaxPhases /\ ~Above(x, l, m)
  BY <1>0, <1>5
<1>7. \A j \in Nat : j < m => Above(x, l, j)
  BY <1>0, <1>5, <1>6
<1>8. \A j \in Nat : m + j < MaxPhases => ~Above(x, l, m + j)
  <2> DEFINE P == {j \in Nat : m + j < MaxPhases => ~Above(x, l, m + j)}
  <2>1. 0 \in P
    BY <1>6
  <2>2. ASSUME NEW j \in Nat, j \in P PROVE j + 1 \in P
    <3> SUFFICES ASSUME m + (j + 1) < MaxPhases PROVE ~Above(x, l, m + (j + 1))
      BY <2>2
    <3>1. m + j \in Nat /\ m + j < MaxPhases /\ m + (j + 1) = (m + j) + 1
      BY <1>0, <1>6, <2>2
    <3>2. ~Above(x, l, m + j)
      BY <2>2, <3>1
    <3> QED
      BY <3>1, <3>2, AboveBefore
  <2> HIDE DEF P
  <2>3. Nat \subseteq P
    BY <2>1, <2>2, ByNumbers
  <2> QED
    BY <2>3 DEF P
<1>9. Steps(x, l) = 0 .. m - 1
  <2>1. ASSUME NEW j \in Steps(x, l) PROVE j \in 0 .. m - 1
    <3>1. j \in 0 .. MaxPhases - 1 /\ Above(x, l, j)
      BY <2>1 DEF Steps
    <3>2. CASE j >= m
      <4>1. j - m \in Nat /\ m + (j - m) = j /\ j < MaxPhases
        BY <1>0, <1>6, <3>1, <3>2
      <4> QED
        BY <1>8, <3>1, <4>1
    <3> QED
      BY <1>6, <3>1, <3>2
  <2>2. ASSUME NEW j \in 0 .. m - 1 PROVE j \in Steps(x, l)
    BY <1>0, <1>6, <1>7 DEF Steps
  <2> QED
    BY <2>1, <2>2
<1>10. Scalings(x, l) = m
  <2>1. m - 1 \in Int /\ 0 \in Int
    BY <1>6
  <2>2. Cardinality(0 .. m - 1) = IF 0 > m - 1 THEN 0 ELSE (m - 1) - 0 + 1
    BY <2>1, FS_Interval
  <2> QED
    BY <1>6, <1>9, <2>2, StepsFinite
<1>11. m > 0 => m - 1 \in Nat /\ m - 1 < m
  BY <1>6
<1> QED
  BY <1>6, <1>7, <1>10, <1>11

-----------------------------------------------------------------------------
(* The schedule.                                                           *)

(* What a scenario gives.                                                  *)
LEMMA SetupType ==
  ASSUME NEW u \in Setups
  PROVE  /\ u.n \in Nat \ {0} /\ u.c \in Fractions /\ u.t \in Nat /\ u.deepen \in BOOLEAN
         /\ u.ln \in Factors /\ u.lc \in Factors /\ u.lt \in Factors
  BY SetupsAssumption

(* As many phases as take x down to 1, and not further than that unless    *)
(* the logarithm of an exact 1 was rounded up.                             *)
LEMMA PhaseCountsAre ==
  ASSUME NEW x \in Fractions, NEW l \in Factors, NEW D \in PhaseCounts(x, l), D <= MaxPhases
  PROVE  /\ D \in Nat \ {0}
         /\ ~Above(x, l, D - 1)
         /\ D > 1 => Above(x, l, D - 2) \/ AtOne(Scaled(x, l, D - 2))
<1>0. MaxPhases \in Nat
  BY BoundsAssumption
<1>1. PICK s \in Nat : s = Scalings(x, l)
  BY StepsFinite
<1>2. D = s + 1 \/ (D = s + 2 /\ D > 2 /\ AtOne(Scaled(x, l, D - 2)))
  BY <1>1 DEF PhaseCounts
<1>3. s < MaxPhases
  BY <1>0, <1>2
<1>4. ~Above(x, l, s) /\ (s > 0 => Above(x, l, s - 1))
  BY <1>1, <1>3, ScalingsAre
<1>5. CASE D = s + 1
  <2>1. D - 1 = s /\ D - 2 = s - 1
    BY <1>5
  <2> QED
    BY <1>4, <1>5, <2>1
<1>6. CASE D = s + 2 /\ AtOne(Scaled(x, l, D - 2))
  <2>1. D - 1 = s + 1
    BY <1>6
  <2>2. ~Above(x, l, s + 1)
    BY <1>3, <1>4, AboveBefore
  <2> QED
    BY <1>6, <2>1, <2>2
<1> QED
  BY <1>2, <1>5, <1>6

LEMMA NumDepthsAre ==
  ASSUME NEW u \in Setups, NEW D \in NumDepths(u), D <= MaxPhases
  PROVE  /\ D \in Nat \ {0}
         /\ ByInstances(u) =>
              /\ ~Above(Whole(u.n), u.ln, D - 1)
              /\ D > 1 => \/ Above(Whole(u.n), u.ln, D - 2)
                          \/ AtOne(Scaled(Whole(u.n), u.ln, D - 2))
         /\ ~ByInstances(u) /\ BelowOne(u.lc) => ~Above(u.c, u.lc, D - 1)
<1>1. Whole(u.n) \in Fractions
  BY SetupType, WholeType
<1>2. CASE ByInstances(u)
  <2>1. D \in PhaseCounts(Whole(u.n), u.ln)
    BY <1>2 DEF NumDepths
  <2> QED
    BY <1>1, <1>2, <2>1, PhaseCountsAre, SetupType
<1>3. CASE ~ByInstances(u) /\ BelowOne(u.lc)
  <2>1. D \in PhaseCounts(u.c, u.lc)
    BY <1>3 DEF NumDepths
  <2> QED
    BY <1>3, <2>1, PhaseCountsAre, SetupType
<1>4. CASE ~ByInstances(u) /\ ~BelowOne(u.lc)
  BY <1>4 DEF NumDepths
<1> QED
  BY <1>2, <1>3, <1>4

(* One scaling less gives no less, whatever rounding makes of either.      *)
LEMMA Climbs ==
  ASSUME NEW x \in Fractions, NEW l \in Factors, NEW j \in Nat, j < MaxPhases
  PROVE  /\ \A k \in Ceilings(x, l, j + 1), m \in Ceilings(x, l, j) : k <= m
         /\ Scaled(x, l, j + 1)[1] \div Scaled(x, l, j + 1)[2]
              <= Scaled(x, l, j)[1] \div Scaled(x, l, j)[2]
<1>0. MaxPhases \in Nat /\ j \in 0 .. MaxPhases
  BY BoundsAssumption
<1>1. PICK X \in Nat, B \in Nat \ {0} :
        X = Scaled(x, l, j)[1] /\ B = Scaled(x, l, j)[2] /\ (x[1] > 0 => X > 0)
  BY <1>0, ScaledType
<1>2. PICK a \in Nat \ {0}, b \in Nat \ {0} : a = l[1] /\ b = l[2] /\ a <= b
  BY FactorType
<1>3. Scaled(x, l, j) = <<X, B>> /\ Scaled(x, l, j + 1) = <<a * X, b * B>>
  <2>1. Scaled(x, l, j + 1)[1] = a * X /\ Scaled(x, l, j + 1)[2] = b * B
    BY <1>1, <1>2, ScaledOnce
  <2> QED
    BY <1>1, <2>1 DEF Scaled
<1>4. PICK p \in Nat, q \in Nat : p = Ceiling(<<a * X, b * B>>) /\ q = Ceiling(<<X, B>>)
  <2>1. a * X \in Nat /\ b * B \in Nat /\ 0 * B = 0 /\ 0 * B < b * B
    BY Times
  <2> QED
    BY <2>1, CeilingIs
<1>5. /\ p <= q
      /\ a < b /\ X > 0 /\ p * (b * B) = a * X => p < q
      /\ (a * X) \div (b * B) <= X \div B
  BY <1>2, <1>4, Shrinks
<1>6. /\ Scaled(x, l, j + 1)[1] = a * X /\ Scaled(x, l, j + 1)[2] = b * B
      /\ Scaled(x, l, j)[1] = X /\ Scaled(x, l, j)[2] = B
  BY <1>3
<1>7. RoundsUp(x, l, j + 1) => p < q
  <2> SUFFICES ASSUME RoundsUp(x, l, j + 1) PROVE p < q
    OBVIOUS
  <2>1. a < b /\ x[1] > 0 /\ p * (b * B) = a * X
    BY <1>2, <1>3, <1>4, <1>6 DEF RoundsUp, BelowOne
  <2> QED
    BY <1>1, <1>5, <2>1
<1>8. ASSUME NEW k \in Ceilings(x, l, j + 1), NEW m \in Ceilings(x, l, j)
      PROVE  k <= m
  <2>1. k = p \/ (k = p + 1 /\ RoundsUp(x, l, j + 1))
    BY <1>3, <1>4 DEF Ceilings
  <2>2. m = q \/ m = q + 1
    BY <1>3, <1>4 DEF Ceilings
  <2> QED
    BY <1>4, <1>5, <1>7, <2>1, <2>2
<1> QED
  BY <1>5, <1>6, <1>8

(* However often it is scaled, a number never grows.                       *)
LEMMA WithinWhole ==
  ASSUME NEW k \in Nat, NEW l \in Factors, NEW j \in 0 .. MaxPhases
  PROVE  Scaled(Whole(k), l, j)[1] \div Scaled(Whole(k), l, j)[2] \in 0 .. k
<1> DEFINE Part(i) == Scaled(Whole(k), l, i)[1] \div Scaled(Whole(k), l, i)[2]
           P == {i \in Nat : i <= MaxPhases => Part(i) \in 0 .. k}
<1>0. MaxPhases \in Nat /\ Whole(k) \in Fractions
  BY BoundsAssumption, WholeType
<1>1. 0 \in P
  <2>1. Scaled(Whole(k), l, 0)[1] = k /\ Scaled(Whole(k), l, 0)[2] = 1 /\ k \div 1 = k
    BY <1>0, ScaledNever, WholeType
  <2> QED
    BY <2>1
<1>2. ASSUME NEW i \in Nat, i \in P PROVE i + 1 \in P
  <2> SUFFICES ASSUME i + 1 <= MaxPhases PROVE Part(i + 1) \in 0 .. k
    BY <1>2
  <2>1. i <= MaxPhases /\ i < MaxPhases /\ i + 1 \in 0 .. MaxPhases
    BY <1>0, <1>2
  <2>2. Part(i) \in 0 .. k
    BY <1>2, <2>1
  <2>3. Part(i + 1) \in Nat
    BY <1>0, <2>1, ScaledType, DivIs
  <2>4. Part(i + 1) <= Part(i)
    BY <1>0, <1>2, <2>1, Climbs
  <2> HIDE DEF Part
  <2> QED
    BY <2>2, <2>3, <2>4
<1> HIDE DEF P
<1>3. j \in P
  BY <1>0, <1>1, <1>2, ByNumbers
<1> QED
  BY <1>0, <1>3 DEF P

(* What a phase with j phases to come may have.                            *)
LEMMA CeilingsAre ==
  ASSUME NEW x \in Fractions, NEW l \in Factors, NEW j \in 0 .. MaxPhases,
         NEW m \in Ceilings(x, l, j)
  PROVE  /\ m \in Nat
         /\ x[1] > 0 => m >= 1
         /\ Above(x, l, j) => m > 1
         /\ ~Above(x, l, j) => m <= 1 \/ (m = 2 /\ ~Exact(l) /\ AtOne(Scaled(x, l, j)))
         /\ j = 0 => m * x[2] \in x[1] .. x[1] + x[2] - 1
<1>1. PICK p \in Nat, q \in Nat \ {0} :
        p = Scaled(x, l, j)[1] /\ q = Scaled(x, l, j)[2] /\ (x[1] > 0 => p > 0)
  BY ScaledType
<1>2. PICK k \in Nat :
        /\ k = Ceiling(Scaled(x, l, j))
        /\ k <= 0 <=> p <= 0 * q
        /\ k <= 1 <=> p <= 1 * q
  BY <1>1, CeilingIs
<1>3. m = k \/ (m = k + 1 /\ RoundsUp(x, l, j))
  BY <1>2 DEF Ceilings
<1>4. Above(x, l, j) <=> p > q
  BY <1>1 DEF Above, AboveOne
<1>5. m \in Nat /\ (x[1] > 0 => m >= 1) /\ (Above(x, l, j) => m > 1)
  BY <1>1, <1>2, <1>3, <1>4
<1>6. ASSUME ~Above(x, l, j), m > 1
      PROVE  m = 2 /\ ~Exact(l) /\ AtOne(Scaled(x, l, j))
  <2>1. k <= 1 /\ RoundsUp(x, l, j) /\ m = k + 1
    BY <1>1, <1>2, <1>3, <1>4, <1>6
  <2>2. k = 1
    BY <1>2, <1>6, <2>1
  <2>3. 1 * q = p
    BY <1>1, <1>2, <2>1, <2>2 DEF RoundsUp
  <2> QED
    BY <1>1, <2>1, <2>2, <2>3 DEF RoundsUp, AtOne
<1>7. ASSUME j = 0 PROVE m * x[2] \in x[1] .. x[1] + x[2] - 1
  <2>1. p = x[1] /\ q = x[2] /\ m = k
    BY <1>1, <1>3, <1>7, ScaledNever DEF RoundsUp
  <2>2. p <= k * q
    BY <1>1, <1>2, CeilingIs
  <2>3. k * q < p + q
    <3>1. CASE k = 0
      BY <3>1
    <3>2. CASE k # 0
      <4>1. PICK h \in Nat : k = h + 1
        <5>1. k - 1 \in Nat /\ k = (k - 1) + 1
          BY <3>2
        <5> QED
          BY <5>1
      <4>2. ~(p <= h * q)
        <5>1. k <= h <=> p <= h * q
          BY <1>1, <1>2, CeilingIs
        <5> QED
          BY <4>1, <5>1
      <4>3. k * q = h * q + q /\ h * q \in Nat
        BY <4>1, Times
      <4> QED
        BY <4>2, <4>3
    <3> QED
      BY <3>1, <3>2
  <2>4. k * q \in Nat
    BY Times
  <2> QED
    BY <2>1, <2>2, <2>3, <2>4
<1> QED
  BY <1>5, <1>6, <1>7

(* A scenario and a schedule of its own.                                   *)
IsSchedule(u, s) ==
  u \in Setups /\ \E D \in NumDepths(u) : D <= MaxPhases /\ s \in Schedules(u, D)

(* The numbers of a phase.                                                 *)
LEMMA ScheduleIs ==
  ASSUME NEW u \in Setups, NEW D \in Nat, NEW s \in Schedules(u, D)
  PROVE  /\ Len(s) = D
         /\ \A d \in 1 .. D : /\ s[d].n \in Instances(u, D - d)
                             /\ s[d].c \in Cutoffs(u, D - d)
                             /\ s[d].t = Deadline(u, D - d)
<1>1. PICK S : s \in [1 .. D -> S]
  BY DEF Schedules
<1>2. Len(s) = D
  BY <1>1
<1> QED
  BY <1>2 DEF Schedules

(* A deadline is within the tuner's timeout.                               *)
LEMMA DeadlineType ==
  ASSUME NEW u \in Setups, NEW j \in 0 .. MaxPhases
  PROVE  Deadline(u, j) \in 0 .. u.t
  BY SetupType, WithinWhole DEF Deadline

LEMMA ScheduledDeadline ==
  ASSUME NEW u, NEW s, IsSchedule(u, s), NEW d \in 1 .. Len(s)
  PROVE  s[d].t \in 0 .. u.t
<1>1. PICK D \in NumDepths(u) : D <= MaxPhases /\ s \in Schedules(u, D)
  BY DEF IsSchedule
<1>2. u \in Setups /\ D \in Nat /\ MaxPhases \in Nat
  BY <1>1, NumDepthsAre, BoundsAssumption DEF IsSchedule
<1>3. Len(s) = D /\ s[d].t = Deadline(u, D - d) /\ D - d \in 0 .. MaxPhases
  BY <1>1, <1>2, ScheduleIs
<1> QED
  BY <1>2, <1>3, DeadlineType

(* The properties of a schedule.                                           *)
LEMMA ScheduleProperties ==
  ASSUME NEW u, NEW s, IsSchedule(u, s), NEW D, D = Len(s)
  PROVE  /\ D \in Nat \ {0}
         /\ s[D].n = u.n /\ s[D].t = u.t
         /\ s[D].c * u.c[2] \in u.c[1] .. u.c[1] + u.c[2] - 1
         /\ ByInstances(u) =>
              /\ \/ s[1].n = 1
                 \/ /\ s[1].n = 2 /\ ~Exact(u.ln)
                    /\ AtOne(Scaled(Whole(u.n), u.ln, D - 1))
              /\ D > 1 => s[2].n > 1 \/ AtOne(Scaled(Whole(u.n), u.ln, D - 2))
         /\ ~ByInstances(u) /\ BelowOne(u.lc) =>
              \/ s[1].c <= 1
              \/ s[1].c = 2 /\ ~Exact(u.lc) /\ AtOne(Scaled(u.c, u.lc, D - 1))
         /\ \A d \in 1 .. D - 1 :
              /\ s[d].n \in 1 .. s[d + 1].n
              /\ s[d].c <= s[d + 1].c
              /\ s[d].t <= s[d + 1].t
<1>0. /\ u \in Setups /\ MaxPhases \in Nat
      /\ u.n \in Nat \ {0} /\ u.c \in Fractions /\ u.t \in Nat
      /\ u.ln \in Factors /\ u.lc \in Factors /\ u.lt \in Factors
  BY BoundsAssumption, SetupType DEF IsSchedule
<1>1. /\ Whole(u.n) \in Fractions /\ Whole(u.n)[1] = u.n /\ Whole(u.n)[2] = 1
      /\ Whole(u.t) \in Fractions /\ Whole(u.t)[1] = u.t /\ Whole(u.t)[2] = 1
  BY <1>0, WholeType
<1>2. D \in NumDepths(u) /\ D <= MaxPhases /\ s \in Schedules(u, D) /\ D \in Nat \ {0}
  <2>1. PICK E \in NumDepths(u) : E <= MaxPhases /\ s \in Schedules(u, E)
    BY DEF IsSchedule
  <2>2. E \in Nat \ {0} /\ Len(s) = E
    BY <1>0, <2>1, NumDepthsAre, ScheduleIs
  <2> QED
    BY <2>1, <2>2
<1>3. \A d \in 1 .. D :
        /\ D - d \in 0 .. MaxPhases
        /\ s[d].n \in Ceilings(Whole(u.n), u.ln, D - d)
        /\ s[d].c \in Ceilings(u.c, u.lc, D - d)
        /\ s[d].t = Deadline(u, D - d)
  <2> SUFFICES ASSUME NEW d \in 1 .. D
               PROVE  /\ D - d \in 0 .. MaxPhases
                      /\ s[d].n \in Ceilings(Whole(u.n), u.ln, D - d)
                      /\ s[d].c \in Ceilings(u.c, u.lc, D - d)
                      /\ s[d].t = Deadline(u, D - d)
    OBVIOUS
  <2>1. /\ s[d].n \in Instances(u, D - d) /\ s[d].c \in Cutoffs(u, D - d)
        /\ s[d].t = Deadline(u, D - d)
    BY <1>0, <1>2, ScheduleIs
  <2> QED
    BY <1>0, <1>2, <2>1 DEF Instances, Cutoffs
<1>4. s[D].n = u.n /\ s[D].t = u.t /\ s[D].c * u.c[2] \in u.c[1] .. u.c[1] + u.c[2] - 1
  <2>1. D \in 1 .. D /\ D - D = 0 /\ 0 \in 0 .. MaxPhases
    BY <1>0, <1>2
  <2>2. /\ s[D].n \in Ceilings(Whole(u.n), u.ln, 0)
        /\ s[D].c \in Ceilings(u.c, u.lc, 0)
        /\ s[D].t = Deadline(u, 0)
    BY <1>3, <2>1
  <2>3. s[D].n \in Nat /\ s[D].n * 1 \in u.n .. u.n + 1 - 1
    BY <1>0, <1>1, <2>1, <2>2, CeilingsAre
  <2>4. s[D].n = u.n
    BY <1>0, <2>3
  <2>5. s[D].c * u.c[2] \in u.c[1] .. u.c[1] + u.c[2] - 1
    BY <1>0, <2>1, <2>2, CeilingsAre
  <2>6. u.t \div 1 = u.t
    BY <1>0
  <2>7. s[D].t = u.t
    BY <1>0, <1>1, <2>2, <2>6, ScaledNever DEF Deadline
  <2> QED
    BY <2>4, <2>5, <2>7
<1>5. ASSUME ByInstances(u)
      PROVE  \/ s[1].n = 1
             \/ s[1].n = 2 /\ ~Exact(u.ln) /\ AtOne(Scaled(Whole(u.n), u.ln, D - 1))
  <2>1. 1 \in 1 .. D /\ D - 1 \in 0 .. MaxPhases /\ s[1].n \in Ceilings(Whole(u.n), u.ln, D - 1)
    BY <1>2, <1>3
  <2>2. ~Above(Whole(u.n), u.ln, D - 1)
    BY <1>0, <1>2, <1>5, NumDepthsAre
  <2>3. /\ s[1].n \in Nat /\ s[1].n >= 1
        /\ \/ s[1].n <= 1
           \/ s[1].n = 2 /\ ~Exact(u.ln) /\ AtOne(Scaled(Whole(u.n), u.ln, D - 1))
    BY <1>0, <1>1, <2>1, <2>2, CeilingsAre
  <2> QED
    BY <2>3
<1>6. ASSUME ByInstances(u), D > 1
      PROVE  s[2].n > 1 \/ AtOne(Scaled(Whole(u.n), u.ln, D - 2))
  <2>1. 2 \in 1 .. D /\ D - 2 \in 0 .. MaxPhases /\ s[2].n \in Ceilings(Whole(u.n), u.ln, D - 2)
    BY <1>2, <1>3, <1>6
  <2>2. Above(Whole(u.n), u.ln, D - 2) \/ AtOne(Scaled(Whole(u.n), u.ln, D - 2))
    BY <1>0, <1>2, <1>6, NumDepthsAre
  <2> QED
    BY <1>0, <1>1, <2>1, <2>2, CeilingsAre
<1>7. ASSUME ~ByInstances(u), BelowOne(u.lc)
      PROVE  \/ s[1].c <= 1
             \/ s[1].c = 2 /\ ~Exact(u.lc) /\ AtOne(Scaled(u.c, u.lc, D - 1))
  <2>0. 1 \in 1 .. D
    BY <1>2
  <2>1. 1 \in 1 .. D /\ D - 1 \in 0 .. MaxPhases /\ s[1].c \in Ceilings(u.c, u.lc, D - 1)
    BY <1>3, <2>0
  <2>2. ~Above(u.c, u.lc, D - 1)
    BY <1>0, <1>2, <1>7, NumDepthsAre
  <2> QED
    BY <1>0, <2>1, <2>2, CeilingsAre
<1>8. ASSUME NEW d \in 1 .. D - 1
      PROVE  /\ s[d].n \in 1 .. s[d + 1].n
             /\ s[d].c <= s[d + 1].c
             /\ s[d].t <= s[d + 1].t
  <2>1. PICK j \in Nat : j = D - (d + 1)
    <3>1. D - (d + 1) \in Nat
      BY <1>2
    <3> QED
      BY <3>1
  <2>2. /\ D - (d + 1) = j /\ D - d = j + 1 /\ j < MaxPhases
        /\ d \in 1 .. D /\ d + 1 \in 1 .. D /\ j \in 0 .. MaxPhases /\ j + 1 \in 0 .. MaxPhases
    BY <1>0, <1>2, <2>1
  <2>3. /\ s[d].n \in Ceilings(Whole(u.n), u.ln, j + 1) /\ s[d + 1].n \in Ceilings(Whole(u.n), u.ln, j)
        /\ s[d].c \in Ceilings(u.c, u.lc, j + 1) /\ s[d + 1].c \in Ceilings(u.c, u.lc, j)
        /\ s[d].t = Deadline(u, j + 1) /\ s[d + 1].t = Deadline(u, j)
    BY <1>3, <2>2
  <2>4. s[d].n <= s[d + 1].n
    BY <1>0, <1>1, <2>2, <2>3, Climbs
  <2>5. s[d].c <= s[d + 1].c
    BY <1>0, <2>2, <2>3, Climbs
  <2>6. s[d].t <= s[d + 1].t
    BY <1>0, <1>1, <2>2, <2>3, Climbs DEF Deadline
  <2>7. s[d].n \in Nat /\ s[d].n >= 1 /\ s[d + 1].n \in Nat
    BY <1>0, <1>1, <2>2, <2>3, CeilingsAre
  <2> QED
    BY <2>4, <2>5, <2>6, <2>7
<1> QED
  BY <1>2, <1>4, <1>5, <1>6, <1>7, <1>8

-----------------------------------------------------------------------------
(* The common clock.                                                       *)
OnTheClock ==
  /\ depth \in Nat \ {0} /\ now \in Nat
  /\ setup.deepen =>
       /\ IsSchedule(setup, schedule)
       /\ at = "run" => depth <= Len(schedule) /\ until = schedule[depth].t

(* No phase yet.                                                           *)
LEMMA InitClock == Init => OnTheClock
<1> SUFFICES ASSUME Init PROVE OnTheClock
  OBVIOUS
<1>1. depth = 1 /\ now = 0 /\ at = "next" /\ setup \in Setups
  BY DEF Init
<1>2. ASSUME setup.deepen PROVE IsSchedule(setup, schedule)
  <2>1. PICK D \in NumDepths(setup) \cap (1 .. MaxPhases) : schedule \in Schedules(setup, D)
    BY <1>2 DEF Init
  <2>2. D <= MaxPhases
    BY <2>1, BoundsAssumption
  <2> QED
    BY <1>1, <2>1, <2>2 DEF IsSchedule
<1> QED
  BY <1>1, <1>2 DEF OnTheClock

(* A phase starts with what is left up to its deadline, and no other step  *)
(* touches the deadline while it runs.                                     *)
LEMMA NextClock == OnTheClock /\ [Next]_vars => OnTheClock'
<1> SUFFICES ASSUME OnTheClock, [Next]_vars PROVE OnTheClock'
  OBVIOUS
<1>1. CASE BeginPhase
  <2>1. UNCHANGED <<setup, schedule, depth, now>>
    BY <1>1 DEF BeginPhase
  <2>2. ASSUME setup.deepen
        PROVE  depth <= Len(schedule) /\ until' = schedule[depth].t
    <3>1. depth <= Len(schedule) /\ until' = now + (schedule[depth].t - now)
      BY <1>1, <2>2 DEF BeginPhase, PhaseDue, Left
    <3>2. Len(schedule) \in Nat
      BY <2>2, ScheduleProperties DEF OnTheClock
    <3>3. schedule[depth].t \in 0 .. setup.t /\ setup.t \in Nat /\ now \in Nat
      BY <2>2, <3>1, <3>2, ScheduledDeadline, SetupType DEF OnTheClock, IsSchedule
    <3> QED
      BY <3>1, <3>3
  <2> QED
    BY <2>1, <2>2 DEF OnTheClock, IsSchedule
<1>2. ASSUME UNCHANGED <<setup, schedule, now>>, depth' \in {depth, depth + 1},
             at' # "run" \/ UNCHANGED <<at, depth, until>>
      PROVE  OnTheClock'
  BY <1>2 DEF OnTheClock, IsSchedule
<1>3. CASE UNCHANGED vars
  BY <1>2, <1>3 DEF vars, mainVars
<1>4. CASE Main /\ ~BeginPhase
  BY <1>2, <1>4 DEF Main, EndLoop, ListPhase, KillBatch, KillAll, KillListed, PrintResult,
     ListGlobals, KillGlobals, Exit, Goto
<1>5. CASE \E ok \in BOOLEAN : RunReturns(ok)
  BY <1>2, <1>5 DEF RunReturns, Goto
<1>6. CASE \E w \in Pool : Worker(w) \/ SolverEnds(w)
  BY <1>2, <1>6 DEF Worker, Claim, Spawn, RegisterGlobal, RegisterLocal, Terminate, TryWait,
     UnregisterGlobal, UnregisterLocal, Works, SolverEnds, mainVars
<1>7. CASE Tick
  BY <1>7 DEF Tick, OnTheClock, IsSchedule
<1>8. CASE Signal
  BY <1>2, <1>8 DEF Signal, mainVars
<1> QED
  BY <1>1, <1>3, <1>4, <1>5, <1>6, <1>7, <1>8 DEF Next, Main

(* Whatever the scenario, its fractions and the rounding: the first phase  *)
(* has one instance (or a cutoff of a second), or two where an exact 1 is  *)
(* rounded up; the second has more, unless the logarithm was; the last is  *)
(* the scenario with its cutoff rounded up to whole seconds; and from      *)
(* phase to phase instances, cutoff and deadline only grow                 *)
(* (iterative_deepening_ils, deepening.rs:31-52).                          *)
THEOREM SchedulesClimb == Spec => []ScheduleClimbs
<1>1. OnTheClock => ScheduleClimbs
  <2> SUFFICES ASSUME IsSchedule(setup, schedule), setup.deepen PROVE ScheduleClimbs
    BY DEF ScheduleClimbs, OnTheClock
  <2> QED
    BY ScheduleProperties DEF ScheduleClimbs
<1> QED
  BY <1>1, InitClock, NextClock, PTL DEF Spec

(* A phase that runs has been given what was left up to its own deadline   *)
(* on the common clock, which is never past the tuner's timeout            *)
(* (deepening.rs:82-85, 111-112).                                          *)
THEOREM BudgetIsShared == Spec => []PhasesShareBudget
<1>1. OnTheClock => PhasesShareBudget
  <2> SUFFICES ASSUME OnTheClock, setup.deepen, at = "run"
               PROVE  until = schedule[depth].t /\ until <= setup.t
    BY DEF PhasesShareBudget
  <2>1. Len(schedule) \in Nat /\ depth \in 1 .. Len(schedule) /\ until = schedule[depth].t
    BY ScheduleProperties DEF OnTheClock
  <2>2. until \in 0 .. setup.t /\ setup.t \in Nat
    BY <2>1, ScheduledDeadline, SetupType DEF OnTheClock, IsSchedule
  <2> QED
    BY <2>1, <2>2
<1> QED
  BY <1>1, InitClock, NextClock, PTL DEF Spec
=============================================================================
