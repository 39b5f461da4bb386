----------------------------- MODULE ParamSpace -----------------------------
(***************************************************************************)
(* Parameter spaces: how a parameter file is read (src/params.rs), which   *)
(* parameters of a configuration are active, and how the search moves      *)
(* between configurations (neighbourhood and perturbation of               *)
(* src/ils/bls.rs, random_config of src/ils/mod.rs).                       *)
(*                                                                         *)
(* A configuration gives every declared parameter a value; what is         *)
(* evaluated, hashed and sent to the solver is its active projection.      *)
(* active_params is modelled statement by statement; the search's other    *)
(* uses of it are ActiveSet, which ActiveIsLargest shows to be its result. *)
(*                                                                         *)
(* Files declare a parameter once: from_file does not check this, and what *)
(* it makes of a second declaration is not modelled.                       *)
(***************************************************************************)
EXTENDS Integers, Sequences

CONSTANTS
  Names,           \* parameter names
  Values,          \* values
  ParamLines,      \* lines  name {domain} [default] | parent in {allowed}
  ConditionLines,  \* lines  name | parent in {allowed}
  ForbiddenLines,  \* lines  {name=value, ...}, as sets of pairs
  MaxLines         \* bound of the model: lines of a file

NoParent  == "none"       \* a parameter without a condition
Malformed == "malformed"  \* a condition parse_condition_str rejects

(* A domain is a list: nothing stops a line from giving a value twice.     *)
Param == [name : Names, domain : Seq(Values), default : Values,
          parent : Names \cup {NoParent}, allowed : SUBSET Values]

ASSUME LinesAssumption ==
  /\ ParamLines \subseteq [name : Names, domain : Seq(Values),
                           default : Values, allowed : SUBSET Values,
                           parent : Names \cup {NoParent, Malformed}]
  /\ ConditionLines \subseteq [name : Names, parent : Names,
                               allowed : SUBSET Values]
  /\ ForbiddenLines \subseteq SUBSET (Names \X Values)
  /\ {} \notin ForbiddenLines

ASSUME NamesAssumption == NoParent \notin Names /\ Malformed \notin Names

ASSUME MaxLinesAssumption == MaxLines \in Nat

VARIABLES
  params,     \* ParamSpace::params
  forbidden,  \* ParamSpace::forbidden
  nRead,      \* lines read
  phase,      \* where the program stands
  cfg,        \* the configuration active_params is called for
  active,     \* active_params: the parameters still taken to be active
  i,          \* active_params: the parameter to look at next
  changed     \* active_params: whether this sweep has removed one

spaceVars == <<params, forbidden, nRead>>
sweepVars == <<cfg, active, i, changed>>
vars      == <<spaceVars, phase, sweepVars>>

-----------------------------------------------------------------------------
(* Spaces and configurations.                                              *)

Declared(ps) == {ps[k].name : k \in DOMAIN ps}

DefaultConfig(ps) ==
  [n \in Declared(ps) |-> ps[CHOOSE k \in DOMAIN ps : ps[k].name = n].default]

Members(p) == {p.domain[j] : j \in DOMAIN p.domain}

InDomain(ps, c) == \A k \in DOMAIN ps : c[ps[k].name] \in Members(ps[k])

(* The parameter's condition, with S the parameters taken to be active.    *)
Holds(p, c, S) ==
  p.parent = NoParent \/ (p.parent \in S /\ c[p.parent] \in p.allowed)

Supported(ps, c, S) ==
  \A k \in DOMAIN ps : ps[k].name \in S => Holds(ps[k], c, S)

(* What active_params returns: the largest set of parameters in which      *)
(* everyone's condition holds.                                             *)
ActiveSet(ps, c) == UNION {S \in SUBSET Declared(ps) : Supported(ps, c, S)}

Projection(ps, c) == [n \in ActiveSet(ps, c) |-> c[n]]

IsForbidden(f, c) ==
  \E combo \in f : \A pair \in combo :
     pair[1] \in DOMAIN c /\ c[pair[1]] = pair[2]

Legal(ps, f, c) == ~IsForbidden(f, Projection(ps, c))

(* The ways to change one parameter of act: which, and its new value's     *)
(* place in the domain.                                                    *)
Moves(ps, c, act) ==
  {m \in UNION {{k} \X DOMAIN ps[k].domain : k \in DOMAIN ps} :
     ps[m[1]].name \in act /\ ps[m[1]].domain[m[2]] # c[ps[m[1]].name]}

(* Mutant: inactive parameters go back to their defaults.                  *)
AfterResets(ps, c, m) ==
  [n \in Declared(ps) |->
     IF n = ps[m[1]].name THEN ps[m[1]].domain[m[2]]
     ELSE IF n \in ActiveSet(ps, c) THEN c[n] ELSE DefaultConfig(ps)[n]]

(* The neighbour.  An inactive parameter keeps its value.                  *)
After(ps, c, m) == [c EXCEPT ![ps[m[1]].name] = ps[m[1]].domain[m[2]]]

(* Mutants: forbidden combinations are looked up with the parameters that  *)
(* were active before the change; inactive parameters vary too.            *)
NeighbourhoodStale(ps, f, c, act) ==
  {m \in Moves(ps, c, act) : ~IsForbidden(f, [n \in act |-> After(ps, c, m)[n]])}

NeighbourhoodOfAll(ps, f, c, act) ==
  {m \in Moves(ps, c, Declared(ps)) : Legal(ps, f, After(ps, c, m))}

(* act: the active parameters of c.                                        *)
Neighbourhood(ps, f, c, act) ==
  {m \in Moves(ps, c, act) : Legal(ps, f, After(ps, c, m))}

(* What random_config may draw.                                            *)
Draws(ps) == {c \in [Declared(ps) -> Values] : InDomain(ps, c)}

(* What a scenario may give as its initial configuration.                  *)
Given == UNION {[D -> Values] : D \in SUBSET Names}

(* Mutant: only names and values are looked at.                            *)
ValidForbidden(c) ==
  DOMAIN c = Declared(params) /\ InDomain(params, c)

Valid(c) ==
  /\ DOMAIN c = Declared(params)
  /\ InDomain(params, c)
  /\ ~IsForbidden(forbidden, c)

-----------------------------------------------------------------------------
Init ==
  /\ params = <<>> /\ forbidden = {} /\ nRead = 0
  /\ phase = "reading"
  /\ cfg = <<>> /\ active = {} /\ i = 1 /\ changed = FALSE

(* from_file, line by line.                                                *)
ReadLine ==
  /\ phase = "reading" /\ nRead < MaxLines
  /\ nRead' = nRead + 1
  /\ UNCHANGED sweepVars

ReadParam ==
  /\ ReadLine
  /\ \E l \in ParamLines :
       /\ l.name \notin Declared(params)
       /\ IF l.default \in Members(l) /\ l.parent # Malformed
          THEN params' = Append(params, l) /\ phase' = phase
          ELSE params' = params /\ phase' = "failed"
  /\ UNCHANGED forbidden

(* A condition for a parameter that is not declared yet is dropped.        *)
ReadCondition ==
  /\ ReadLine
  /\ \E l \in ConditionLines :
       params' = [k \in DOMAIN params |->
                    IF params[k].name = l.name
                    THEN [params[k] EXCEPT !.parent = l.parent, !.allowed = l.allowed]
                    ELSE params[k]]
  /\ UNCHANGED <<forbidden, phase>>

ReadForbidden ==
  /\ ReadLine
  /\ \E l \in ForbiddenLines : forbidden' = forbidden \cup {l}
  /\ UNCHANGED <<params, phase>>

EndOfFile ==
  /\ phase = "reading"
  /\ phase' = "loaded"
  /\ UNCHANGED <<spaceVars, sweepVars>>

(* A call of active_params for c.                                          *)
Call(c) ==
  /\ cfg' = c
  /\ active' = Declared(params)
  /\ i' = 1
  /\ changed' = FALSE
  /\ phase' = "sweeping"
  /\ UNCHANGED spaceVars

(* resolve_initial_config: an explicit configuration or the defaults.      *)
Start ==
  /\ phase = "loaded"
  /\ \E c \in Given \cup {DefaultConfig(params)} : Valid(c) /\ Call(c)

Refuse ==
  /\ phase = "loaded"
  /\ \E c \in Given \cup {DefaultConfig(params)} : ~Valid(c)
  /\ phase' = "failed"
  /\ UNCHANGED <<spaceVars, sweepVars>>

(* The loops of active_params.                                             *)
Visit ==
  /\ phase = "sweeping" /\ i <= Len(params)
  /\ LET p    == params[i]
         dies == p.name \in active /\ ~Holds(p, cfg, active)
     IN  /\ active' = IF dies THEN active \ {p.name} ELSE active
         /\ changed' = (changed \/ dies)
  /\ i' = i + 1
  /\ UNCHANGED <<spaceVars, phase, cfg>>

NextSweep ==
  /\ phase = "sweeping" /\ i > Len(params) /\ changed
  /\ i' = 1 /\ changed' = FALSE
  /\ UNCHANGED <<spaceVars, phase, cfg, active>>

(* Mutant: one sweep.                                                      *)
SweepDoneAtOnce ==
  /\ phase = "sweeping" /\ i > Len(params)
  /\ phase' = "ready"
  /\ UNCHANGED <<spaceVars, sweepVars>>

SweepDone ==
  /\ phase = "sweeping" /\ i > Len(params) /\ ~changed
  /\ phase' = "ready"
  /\ UNCHANGED <<spaceVars, sweepVars>>

(* A descent accepts a neighbour, or perturbation takes one of its steps.  *)
Step ==
  /\ phase = "ready"
  /\ \E m \in Neighbourhood(params, forbidden, cfg, active) : Call(After(params, cfg, m))

(* random_config, called for a probe or a restart.                         *)
AskRandom ==
  /\ phase = "ready"
  /\ phase' = "drawing"
  /\ UNCHANGED <<spaceVars, sweepVars>>

(* A draw that is forbidden changes nothing: the loop draws again.         *)
Draw ==
  /\ phase = "drawing"
  /\ \E d \in Draws(params) : Legal(params, forbidden, d) /\ Call(d)

Sweep == Visit \/ NextSweep \/ SweepDone

Next ==
  \/ ReadParam \/ ReadCondition \/ ReadForbidden \/ EndOfFile
  \/ Start \/ Refuse \/ Sweep \/ Step \/ AskRandom \/ Draw

Spec == Init /\ [][Next]_vars

(* active_params is sequential code; the generator draws every             *)
(* configuration sooner or later.                                          *)
Fairness == WF_vars(Sweep) /\ WF_vars(Draw)

FairSpec == Spec /\ Fairness

-----------------------------------------------------------------------------
(* Properties.                                                             *)

(* The in-place sweeps of active_params end in the largest set of          *)
(* parameters whose conditions hold among themselves: neither the order of *)
(* the declarations nor how a cycle of conditions is entered shows in the  *)
(* result (active_params, params.rs).                                      *)
ActiveIsLargest ==
  phase \in {"ready", "drawing"} => active = ActiveSet(params, cfg)

(* Started from a valid configuration, the search never stands on one      *)
(* whose active projection is forbidden or that has a value out of its     *)
(* domain, although a move may activate parameters with values nobody has  *)
(* looked at for many rounds (neighbourhood, random_config).               *)
SearchIsLegal ==
  phase \in {"sweeping", "ready", "drawing"} =>
    cfg \in Draws(params) /\ Legal(params, forbidden, cfg)

(* No condition depends on its own parameter.                              *)
Acyclic(ps) ==
  \E rank \in [Declared(ps) -> 1 .. Len(ps)] : \A k \in DOMAIN ps :
     ps[k].parent \in Declared(ps) => rank[ps[k].parent] < rank[ps[k].name]

(* The cache is keyed by the active projection (hash_config): no neighbour *)
(* has the key of the configuration itself, two of them have the same only *)
(* where a domain line gives a value twice, and every setting of the       *)
(* inactive parameters has the same one.                                   *)
KeysTellApart ==
  phase = "ready" /\ Acyclic(params) =>
    LET Key(m) == Projection(params, After(params, cfg, m))
    IN  /\ \A m \in Neighbourhood(params, forbidden, cfg, active) :
             Key(m) # Projection(params, cfg)
        /\ \A m, n \in Neighbourhood(params, forbidden, cfg, active) :
             Key(m) = Key(n) =>
               m[1] = n[1] /\ params[m[1]].domain[m[2]] = params[n[1]].domain[n[2]]
        /\ \A d \in [Declared(params) -> Values] :
             (\A n \in active : d[n] = cfg[n]) => Projection(params, d) = Projection(params, cfg)

(* Every move can be taken back in one move: a guard that was switched off *)
(* can be switched on again, with its dependents where they were           *)
(* (neighbourhood, bls.rs).                                                *)
MovesAreReversible ==
  phase = "ready" /\ Acyclic(params) =>
    \A m \in Neighbourhood(params, forbidden, cfg, active) :
       LET d == After(params, cfg, m)
       IN  \E n \in Neighbourhood(params, forbidden, d, ActiveSet(params, d)) :
             After(params, d, n) = cfg

(* The sweeps of active_params end, and so does random_config's loop: the  *)
(* initial configuration, having passed validate_config, is one that it    *)
(* can draw, so no space is forbidden as a whole.                          *)
CallsReturn == phase \in {"sweeping", "drawing"} ~> phase = "ready"
=============================================================================
