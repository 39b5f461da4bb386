---------------------------- MODULE TunerProcess ----------------------------
(***************************************************************************)
(* The tuner as a process: the phases of iterative deepening               *)
(* (src/ils/deepening.rs) on their common clock, the Scheduler each phase  *)
(* makes and drops, the process-wide registry of solver process groups     *)
(* (src/lib.rs), and how `ramparils run` ends (src/main.rs): with a        *)
(* result, with an error, or after a signal, when it ends the registered   *)
(* groups and exits.  Nobody joins the workers: when the process exits     *)
(* they vanish where they stand, and what they have started lives on.      *)
(*                                                                         *)
(* What a phase searches is left to IlsLoop, what a Scheduler does for it  *)
(* to Scheduler; here a worker of a phase goes from solver to solver.      *)
(* Cutoff and factors are the fractions their f64 stand for.  What the     *)
(* code computes from them in floating point may come out on the wrong     *)
(* side of a whole number where the exact value is one: that is a choice   *)
(* of Init, which picks the schedule.                                      *)
(***************************************************************************)
EXTENDS Integers, FiniteSets, Sequences

CONSTANTS
  Setups,     \* scenarios: [deepen, n, c, t, ln, lc, lt, cores]
  Epsilon,    \* 1 / eps, 10^6 in the code
  MaxPhases,  \* bound of the model: phases of a schedule
  MaxCores    \* bound of the model: workers of a phase

(* A fraction is a pair <<a, b>>.                                          *)
Fractions == Nat \X (Nat \ {0})

(* cmd_run refuses an empty instance list.                                 *)
Factors == {l \in (Nat \ {0}) \X (Nat \ {0}) : l[1] <= l[2]}

ASSUME BoundsAssumption == {Epsilon, MaxPhases, MaxCores} \subseteq Nat

ASSUME SetupsAssumption ==
  Setups \subseteq [deepen : BOOLEAN, n : Nat \ {0}, c : Fractions, t : Nat, ln : Factors,
                    lc : Factors, lt : Factors, cores : 1 .. MaxCores]

VARIABLES
  setup,        \* the scenario
  schedule,     \* its phases: [n, c, t], none without deepening
  at,           \* where the main thread stands
  depth,        \* the phase it is in, or has to look at next
  now,          \* time since the start of the deepening
  until,        \* the deadline run() was given
  ran,          \* phases that returned a result
  code,         \* the exit code
  interrupted,  \* INTERRUPTED
  stale,        \* phases whose Scheduler has moved its batch id on in drop
  st,           \* where the workers stand
  alive,        \* workers whose solver is alive
  globals,      \* ACTIVE_PROCESS_GROUPS, by worker
  locals,       \* active_process_groups of all Schedulers, by worker
  listed,       \* the groups the main thread has listed to end them
  missed        \* history: workers with a solver to come, or not registered,
                \* when the last list that could name it was taken

mainVars   == <<setup, schedule, at, depth, now, until, ran, code>>
workerVars == <<st, alive, globals, locals>>
vars == <<mainVars, interrupted, stale, workerVars, listed, missed>>

Pool == (1 .. MaxPhases) \X (1 .. MaxCores)

-----------------------------------------------------------------------------
(* The schedule.                                                           *)

BelowOne(l) == l[1] < l[2]

(* a to the power j, for the exponents of a schedule.                      *)
Power(a, j) ==
  LET power[i \in 0 .. MaxPhases] == IF i = 0 THEN 1 ELSE a * power[i - 1]
  IN  power[j]

(* x scaled j times by l, both fractions.                                  *)
Scaled(x, l, j) == <<x[1] * Power(l[1], j), x[2] * Power(l[2], j)>>

Whole(k) == <<k, 1>>

AboveOne(f) == f[1] > f[2]

AtOne(f) == f[1] = f[2]

(* Mutant: the logarithm is cut off, not rounded up.                       *)
ScalingsFloor(x, l) ==
  Cardinality({j \in 1 .. MaxPhases : AboveOne(Scaled(x, l, j)) \/ AtOne(Scaled(x, l, j))})

(* How often x must be scaled by l < 1 to come down to 1: the ceiling of   *)
(* ln x / ln (1/l), at least 0.                                            *)
Scalings(x, l) == Cardinality({j \in 0 .. MaxPhases - 1 : AboveOne(Scaled(x, l, j))})

(* A quotient of logarithms that is a whole number may come out above it,  *)
(* unless it is 0.                                                         *)
PhaseCounts(x, l) ==
  {Scalings(x, l) + 1}
    \cup {d \in {Scalings(x, l) + 2} : d > 2 /\ AtOne(Scaled(x, l, d - 2))}

(* lambda_n < 1.0 - eps                                                    *)
ByInstances(u) == Epsilon * u.ln[1] < (Epsilon - 1) * u.ln[2]

(* With lambda_c 1, too, the division by ln 1 gives infinity, and          *)
(* infinity + 1 wraps around to 0 in a release build: one phase.           *)
NumDepths(u) ==
  IF ByInstances(u) THEN PhaseCounts(Whole(u.n), u.ln)
  ELSE IF BelowOne(u.lc) THEN PhaseCounts(u.c, u.lc)
  ELSE {1}

Ceiling(f) == (f[1] + f[2] - 1) \div f[2]

(* A binary fraction and its powers are exact in floating point.           *)
Exact(l) == \E k \in 0 .. MaxPhases : l[2] = Power(2, k)

(* x * l^j is a whole number, and may come out above it.                   *)
RoundsUp(x, l, j) ==
  /\ j > 0 /\ BelowOne(l) /\ ~Exact(l)
  /\ x[1] > 0 /\ Ceiling(Scaled(x, l, j)) * Scaled(x, l, j)[2] = Scaled(x, l, j)[1]

Ceilings(x, l, j) ==
  LET k == Ceiling(Scaled(x, l, j))
  IN  {k} \cup {m \in {k + 1} : RoundsUp(x, l, j)}

(* With j phases still to come; max(1) and min(n) have no effect.          *)
Instances(u, j) == Ceilings(Whole(u.n), u.ln, j)

Cutoffs(u, j) == Ceilings(u.c, u.lc, j)

(* A cumulative deadline, on the model's clock, which is too coarse for    *)
(* rounding.                                                               *)
Deadline(u, j) ==
  LET f == Scaled(Whole(u.t), u.lt, j) IN f[1] \div f[2]

Schedules(u, D) ==
  {s \in [1 .. D -> [n : UNION {Instances(u, j) : j \in 0 .. D - 1},
                     c : UNION {Cutoffs(u, j) : j \in 0 .. D - 1},
                     t : {Deadline(u, j) : j \in 0 .. D - 1}]] :
     \A d \in 1 .. D :
       /\ s[d].n \in Instances(u, D - d)
       /\ s[d].c \in Cutoffs(u, D - d)
       /\ s[d].t = Deadline(u, D - d)}

-----------------------------------------------------------------------------
Init ==
  /\ setup \in Setups
  /\ IF setup.deepen
     THEN \E D \in NumDepths(setup) \cap (1 .. MaxPhases) : schedule \in Schedules(setup, D)
     ELSE schedule = <<>>
  /\ at = "next" /\ depth = 1 /\ now = 0 /\ until = 0 /\ ran = 0 /\ code = 0
  /\ interrupted = FALSE
  /\ stale = {}
  /\ st = [w \in Pool |-> "none"]
  /\ alive = {} /\ globals = {} /\ locals = {} /\ listed = {} /\ missed = {}

Goto(l) == at' = l

-----------------------------------------------------------------------------
(* The loop over the phases.                                               *)

(* Mutant: every phase has a budget of its own.                            *)
LeftAlone(d) == schedule[d].t

Left(d) == schedule[d].t - now

(* A scenario without deepening calls run() at once, with all of t.        *)
PhaseDue ==
  IF setup.deepen THEN depth <= Len(schedule) /\ ~interrupted /\ Left(depth) > 0
  ELSE depth = 1

(* Scheduler::new starts the workers of the phase.                         *)
BeginPhase ==
  /\ at = "next" /\ code = 0 /\ PhaseDue
  /\ Goto("run")
  /\ until' = now + (IF setup.deepen THEN Left(depth) ELSE setup.t)
  /\ st' = [w \in Pool |-> IF w[1] = depth /\ w[2] <= setup.cores THEN "idle" ELSE st[w]]
  /\ UNCHANGED <<setup, schedule, depth, now, ran, code, interrupted, stale, alive, globals,
                 locals, listed, missed>>

(* A phase failed, none is left, a signal came, or the deadline of the     *)
(* next has passed: the result is that of the last phase that ran, and     *)
(* an error if none did.                                                   *)
EndLoop ==
  /\ at = "next"
  /\ code = 1 \/ ~PhaseDue
  /\ IF code = 0 /\ ran > 0 THEN Goto("end") /\ UNCHANGED code
     ELSE Goto("exited") /\ code' = 1
  /\ UNCHANGED <<setup, schedule, depth, now, until, ran, interrupted, stale, workerVars,
                 listed, missed>>

(* Mutant: drop ends the groups but leaves the batch id alone.             *)
RunReturnsNoBump(ok) ==
  /\ at = "run"
  /\ Goto("listBatch")
  /\ IF ok THEN ran' = ran + 1 /\ UNCHANGED code ELSE code' = 1 /\ UNCHANGED ran
  /\ UNCHANGED <<setup, schedule, depth, now, until, interrupted, stale, workerVars, listed, missed>>

(* run() returns a result or an error, sooner or later, and drops its      *)
(* Scheduler: reset moves the batch id on and ends the batch's groups,     *)
(* then drop ends them all.                                                *)
RunReturns(ok) ==
  /\ at = "run"
  /\ Goto("listBatch")
  /\ stale' = stale \cup {depth}
  /\ IF ok THEN ran' = ran + 1 /\ UNCHANGED code ELSE code' = 1 /\ UNCHANGED ran
  /\ UNCHANGED <<setup, schedule, depth, now, until, interrupted, workerVars, listed, missed>>

OfPhase(d) == {w \in Pool : w[1] = d}

ListPhase(from, to) ==
  /\ at = from
  /\ Goto(to)
  /\ listed' = locals \cap OfPhase(depth)
  /\ missed' = (missed \ OfPhase(depth))
               \cup {w \in OfPhase(depth) : st[w] \in {"claimed", "spawned", "registered"}}
  /\ UNCHANGED <<setup, schedule, depth, now, until, ran, code, interrupted, stale, workerVars>>

(* SIGTERM, 100 ms, SIGKILL to every group listed.                         *)
KillListed(from) ==
  /\ at = from
  /\ alive' = alive \ listed
  /\ listed' = {}
  /\ UNCHANGED <<setup, schedule, now, until, ran, code, interrupted, stale, st, globals,
                 locals, missed>>

KillBatch == KillListed("killBatch") /\ Goto("listAll") /\ UNCHANGED depth

KillAll == KillListed("killAll") /\ Goto("next") /\ depth' = depth + 1

-----------------------------------------------------------------------------
(* The end of cmd_run.                                                     *)

(* Without a signal so far the result is printed.                          *)
PrintResult ==
  /\ at = "end" /\ ~interrupted
  /\ Goto("exited")
  /\ UNCHANGED <<setup, schedule, depth, now, until, ran, code, interrupted, stale,
                 workerVars, listed, missed>>

(* terminate_active_process_groups                                         *)
ListGlobals ==
  /\ at = "end" /\ interrupted
  /\ Goto("killGlobals")
  /\ listed' = globals
  /\ missed' = {w \in Pool : st[w] \in {"claimed", "spawned"}}
  /\ UNCHANGED <<setup, schedule, depth, now, until, ran, code, interrupted, stale, workerVars>>

KillGlobals ==
  /\ KillListed("killGlobals")
  /\ Goto("exit")
  /\ UNCHANGED depth

Exit ==
  /\ at = "exit"
  /\ Goto("exited")
  /\ code' = 130
  /\ UNCHANGED <<setup, schedule, depth, now, until, ran, interrupted, stale, workerVars,
                 listed, missed>>

Main ==
  \/ BeginPhase \/ EndLoop
  \/ ListPhase("listBatch", "killBatch") \/ KillBatch
  \/ ListPhase("listAll", "killAll") \/ KillAll
  \/ PrintResult \/ ListGlobals \/ KillGlobals \/ Exit

-----------------------------------------------------------------------------
(* A worker, as long as the process lives.                                 *)

Works(w, from, to) ==
  /\ at # "exited"
  /\ st[w] = from
  /\ st' = [st EXCEPT ![w] = to]
  /\ UNCHANGED <<mainVars, interrupted, stale, missed>>

(* It has claimed an instance and looked at the batch id.                  *)
Claim(w) ==
  /\ w[1] \notin stale
  /\ Works(w, "idle", "claimed")
  /\ UNCHANGED <<alive, globals, locals, listed>>

Spawn(w) ==
  /\ Works(w, "claimed", "spawned")
  /\ alive' = alive \cup {w}
  /\ UNCHANGED <<globals, locals, listed>>

RegisterGlobal(w) ==
  /\ Works(w, "spawned", "registered")
  /\ globals' = globals \cup {w}
  /\ UNCHANGED <<alive, locals, listed>>

RegisterLocal(w) ==
  /\ Works(w, "registered", "polling")
  /\ locals' = locals \cup {w}
  /\ UNCHANGED <<alive, globals, listed>>

(* Mutant: a polling worker looks for a signal only.                       *)
UnwantedIfSignal(w) == interrupted

Unwanted(w) == interrupted \/ w[1] \in stale

(* The worker's own SIGTERM, SIGKILL and wait; a group that has ended      *)
(* cannot be signalled any more.                                           *)
Terminate(w) ==
  /\ Unwanted(w)
  /\ Works(w, "polling", "reaped")
  /\ alive' = alive \ {w}
  /\ listed' = listed \ {w}
  /\ UNCHANGED <<globals, locals>>

TryWait(w) ==
  /\ ~Unwanted(w) /\ w \notin alive
  /\ Works(w, "polling", "reaped")
  /\ listed' = listed \ {w}
  /\ UNCHANGED <<alive, globals, locals>>

UnregisterGlobal(w) ==
  /\ Works(w, "reaped", "unregistered")
  /\ globals' = globals \ {w}
  /\ UNCHANGED <<alive, locals, listed>>

UnregisterLocal(w) ==
  /\ Works(w, "unregistered", "idle")
  /\ locals' = locals \ {w}
  /\ UNCHANGED <<alive, globals, listed>>

Worker(w) ==
  \/ Claim(w) \/ Spawn(w) \/ RegisterGlobal(w) \/ RegisterLocal(w)
  \/ Terminate(w) \/ TryWait(w) \/ UnregisterGlobal(w) \/ UnregisterLocal(w)

-----------------------------------------------------------------------------
(* The environment: solvers that end by themselves, the clock, a signal.   *)

SolverEnds(w) ==
  /\ w \in alive
  /\ alive' = alive \ {w}
  /\ UNCHANGED <<mainVars, interrupted, stale, st, globals, locals, listed, missed>>

Tick ==
  /\ at \in {"next", "run"} /\ now < setup.t
  /\ now' = now + 1
  /\ UNCHANGED <<setup, schedule, at, depth, until, ran, code, interrupted, stale, workerVars,
                 listed, missed>>

Signal ==
  /\ at # "exited" /\ ~interrupted
  /\ interrupted' = TRUE
  /\ UNCHANGED <<mainVars, stale, workerVars, listed, missed>>

Next ==
  \/ Main \/ \E ok \in BOOLEAN : RunReturns(ok)
  \/ \E w \in Pool : Worker(w) \/ SolverEnds(w)
  \/ Tick \/ Signal

Spec == Init /\ [][Next]_vars

(* The main thread and the workers are scheduled.  Nothing is assumed of   *)
(* run(): a phase may last for ever.                                       *)
Fairness == WF_vars(Main) /\ \A w \in Pool : WF_vars(Worker(w))

FairSpec == Spec /\ Fairness

-----------------------------------------------------------------------------
(* Properties.                                                             *)

(* The schedule begins at one instance, or at one second when only the     *)
(* cutoff grows (at two of them only where rounding carries an exact 1     *)
(* up), and no phase too early; it climbs, and its last phase is the whole *)
(* scenario, at the next whole second of its cutoff (deepening.rs:31-52).  *)
ScheduleClimbs ==
  LET D == Len(schedule)
      MayBeTwo(l, f) == ~Exact(l) /\ AtOne(f)
      PartOfN(j) == Scaled(Whole(setup.n), setup.ln, j)
      PartOfC(j) == Scaled(setup.c, setup.lc, j)
  IN  setup.deepen =>
        /\ schedule[D].n = setup.n /\ schedule[D].t = setup.t
        /\ schedule[D].c * setup.c[2] \in setup.c[1] .. setup.c[1] + setup.c[2] - 1
        /\ ByInstances(setup) =>
             /\ schedule[1].n = 1 \/ (schedule[1].n = 2 /\ MayBeTwo(setup.ln, PartOfN(D - 1)))
             /\ D > 1 => schedule[2].n > 1 \/ AtOne(PartOfN(D - 2))
        /\ ~ByInstances(setup) /\ BelowOne(setup.lc) =>
             schedule[1].c <= 1 \/ (schedule[1].c = 2 /\ MayBeTwo(setup.lc, PartOfC(D - 1)))
        /\ \A d \in 1 .. D - 1 :
             /\ schedule[d].n \in 1 .. schedule[d + 1].n
             /\ schedule[d].c <= schedule[d + 1].c
             /\ schedule[d].t <= schedule[d + 1].t

(* The deadlines are cumulative: however late the phases before it ended,  *)
(* a phase is given what is left up to its own deadline on the common      *)
(* clock, never a budget of its own, so that the last phase ends with the  *)
(* tuner's timeout (deepening.rs:101-120).                                 *)
PhasesShareBudget ==
  setup.deepen /\ at = "run" =>
    until = schedule[depth].t /\ until <= setup.t

(* A solver that outlives the tuner, by whichever way that ends, is one    *)
(* that was being started when the last list of groups to end was taken:   *)
(* every other one was on a list, or its worker ended it                   *)
(* (eval.rs:409-414, lib.rs:104-116, main.rs:376-379).                     *)
OrphansSlippedThrough == at = "exited" => alive \subseteq missed

(* A solver of a phase that is over ends although no list named it, as     *)
(* long as the tuner runs: its worker finds the batch id moved on          *)
(* (eval.rs:543-549).                                                      *)
StaleSolversEnd ==
  \A w \in Pool : w \in alive /\ w[1] \in stale ~> w \notin alive \/ at = "exited"
-----------------------------------------------------------------------------
(* What makes OrphansSlippedThrough inductive.                             *)

Places == {"next", "run", "listBatch", "killBatch", "listAll", "killAll", "end",
           "killGlobals", "exit", "exited"}

Stages == {"none", "idle", "claimed", "spawned", "registered", "polling", "reaped",
           "unregistered"}

TypeOK ==
  /\ at \in Places /\ depth \in Nat
  /\ st \in [Pool -> Stages]
  /\ alive \subseteq Pool /\ globals \subseteq Pool /\ locals \subseteq Pool
  /\ listed \subseteq Pool /\ missed \subseteq Pool

(* A solver lives while its worker is somewhere from spawn to poll, and is *)
(* in a registry as long as the worker's place says so.                    *)
Registered ==
  \A w \in Pool :
    /\ w \in alive => st[w] \in {"spawned", "registered", "polling"}
    /\ w \in globals <=> st[w] \in {"registered", "polling", "reaped"}
    /\ w \in locals <=> st[w] \in {"polling", "reaped", "unregistered"}

(* The phases that are over, but for killing what the last list named.     *)
Over(w) ==
  w[1] < depth \/ (w[1] = depth /\ at \notin {"next", "run", "listBatch"})

(* The workers of a phase are not there before it and claim nothing after. *)
PhasesInOrder ==
  /\ \A w \in Pool : w[1] > depth \/ (w[1] = depth /\ at = "next") => st[w] = "none"
  /\ \A w \in Pool : Over(w) /\ st[w] # "none" => w[1] \in stale
  /\ at = "listBatch" => depth \in stale

(* Nobody listed starts anything any more.                                 *)
ListedAreLast ==
  \A w \in listed : st[w] \notin {"none", "claimed"} /\ w[1] \in stale

Killing == at \in {"killBatch", "killAll", "killGlobals"}

(* There is or will be a solver.                                           *)
Pending(w) == st[w] = "claimed" \/ w \in alive

(* Of a phase that is over only what a list missed is left, or what is on  *)
(* the list being worked through.                                          *)
LeftOver ==
  \A w \in Pool : Over(w) /\ Pending(w) => w \in missed \/ (Killing /\ w \in listed)

IInv == TypeOK /\ Registered /\ PhasesInOrder /\ ListedAreLast /\ LeftOver

=============================================================================
