-------------------------- MODULE ParamSpaceProofs --------------------------
(***************************************************************************)
(* What is proved about ParamSpace, for every set of names, values and     *)
(* lines and files of any length.                                          *)
(***************************************************************************)
EXTENDS ParamSpace, TLAPS, WellFoundedInduction

Unique(ps) == \A j, k \in DOMAIN ps : ps[j].name = ps[k].name => j = k

-----------------------------------------------------------------------------
(* Active parameters: lemmas about a space ps and a configuration c.       *)

LEMMA ActiveIsDeclared ==
  ASSUME NEW ps, NEW c
  PROVE  ActiveSet(ps, c) \in SUBSET Declared(ps)
  BY DEF ActiveSet

(* A condition that holds among few parameters holds among more.           *)
LEMMA HoldsAmongMore ==
  ASSUME NEW p, NEW c, NEW S, NEW T, S \subseteq T, Holds(p, c, S)
  PROVE  Holds(p, c, T)
  BY DEF Holds

(* What supports itself is active.                                         *)
LEMMA SupportedIsActive ==
  ASSUME NEW ps, NEW c, NEW S \in SUBSET Declared(ps), Supported(ps, c, S)
  PROVE  S \subseteq ActiveSet(ps, c)
  BY DEF ActiveSet

(* The active parameters support themselves.                               *)
LEMMA ActiveIsSupported ==
  ASSUME NEW ps, NEW c
  PROVE  Supported(ps, c, ActiveSet(ps, c))
<1> SUFFICES ASSUME NEW k \in DOMAIN ps, ps[k].name \in ActiveSet(ps, c)
             PROVE  Holds(ps[k], c, ActiveSet(ps, c))
  BY DEF Supported
<1>1. PICK S \in SUBSET Declared(ps) : Supported(ps, c, S) /\ ps[k].name \in S
  BY DEF ActiveSet
<1>2. Holds(ps[k], c, S)
  BY <1>1 DEF Supported
<1>3. S \subseteq ActiveSet(ps, c)
  BY <1>1, SupportedIsActive
<1> QED
  BY <1>2, <1>3, HoldsAmongMore

(* Who is dropped by active_params, because its condition fails among at   *)
(* least the active parameters, is not active.                             *)
LEMMA DroppedIsInactive ==
  ASSUME NEW ps, NEW c, NEW S, ActiveSet(ps, c) \subseteq S,
         NEW k \in DOMAIN ps, ~Holds(ps[k], c, S)
  PROVE  ps[k].name \notin ActiveSet(ps, c)
  BY ActiveIsSupported, HoldsAmongMore DEF Supported

(* A member of a set of naturals has a smallest one below it.              *)
Smaller == {ss \in Nat \X Nat : ss[1] < ss[2]}

LEMMA SmallestMember ==
  ASSUME NEW T \in SUBSET Nat, T # {}
  PROVE  \E x \in T : \A y \in T : x <= y
<1>1. IsWellFoundedOn(Smaller, Nat)
  BY NatLessThanWellFounded DEF OpToRel, Smaller
<1>2. PICK x \in T : \A y \in T : <<y, x>> \notin Smaller
  BY <1>1, WFMin
<1>3. \A y \in T : ~(y < x)
  <2> SUFFICES ASSUME NEW y \in T, y < x PROVE <<y, x>> \in Smaller
    BY <1>2
  <2>1. <<y, x>> \in Nat \X Nat /\ <<y, x>>[1] < <<y, x>>[2]
    OBVIOUS
  <2> QED
    BY <2>1 DEF Smaller
<1>4. \A y \in T : x \in Nat /\ y \in Nat
  OBVIOUS
<1> QED
  BY <1>3, <1>4

(* Without cycles a parameter that is active stays active when its own     *)
(* value changes: the active ones of a lower rank and itself go on         *)
(* supporting each other.                                                  *)
LEMMA ChangedStaysActive ==
  ASSUME NEW ps, NEW c, DOMAIN c = Declared(ps), Acyclic(ps), Len(ps) \in Nat,
         NEW p \in ActiveSet(ps, c), NEW v
  PROVE  p \in ActiveSet(ps, [c EXCEPT ![p] = v])
<1> DEFINE d == [c EXCEPT ![p] = v]
           A == ActiveSet(ps, c)
<1>1. PICK rank \in [Declared(ps) -> 1 .. Len(ps)] : \A k \in DOMAIN ps :
         ps[k].parent \in Declared(ps) => rank[ps[k].parent] < rank[ps[k].name]
  BY DEF Acyclic
<1> DEFINE S == {q \in A : rank[q] <= rank[p]}
<1>2. A \in SUBSET Declared(ps) /\ p \in Declared(ps)
  BY ActiveIsDeclared
<1>3. \A q \in Declared(ps) : rank[q] \in Int
  BY <1>1
<1>4. Supported(ps, d, S)
  <2> SUFFICES ASSUME NEW k \in DOMAIN ps, ps[k].name \in S, ps[k].parent # NoParent
               PROVE  ps[k].parent \in S /\ d[ps[k].parent] \in ps[k].allowed
    BY DEF Supported, Holds
  <2>1. ps[k].parent \in A /\ c[ps[k].parent] \in ps[k].allowed
    BY ActiveIsSupported DEF Supported, Holds
  <2>2. rank[ps[k].parent] < rank[ps[k].name] /\ rank[ps[k].name] <= rank[p]
    BY <1>1, <1>2, <2>1
  <2>3. ps[k].parent \in S /\ ps[k].parent # p
    BY <1>2, <1>3, <2>1, <2>2
  <2>4. d[ps[k].parent] = c[ps[k].parent]
    BY <1>2, <2>1, <2>3
  <2> QED
    BY <2>1, <2>3, <2>4
<1>5. p \in S /\ S \in SUBSET Declared(ps)
  BY <1>2, <1>3
<1> QED
  BY <1>4, <1>5, SupportedIsActive

(* Without cycles the inactive parameters do not matter: whatever is       *)
(* active for d is active for c, if they agree on what is active for c.    *)
LEMMA InactiveDoNotMatter ==
  ASSUME NEW ps, NEW c, NEW d, Acyclic(ps), Len(ps) \in Nat,
         \A n \in ActiveSet(ps, c) : d[n] = c[n]
  PROVE  ActiveSet(ps, d) = ActiveSet(ps, c)
<1> DEFINE A == ActiveSet(ps, c)
           B == ActiveSet(ps, d)
<1>1. PICK rank \in [Declared(ps) -> 1 .. Len(ps)] : \A k \in DOMAIN ps :
         ps[k].parent \in Declared(ps) => rank[ps[k].parent] < rank[ps[k].name]
  BY DEF Acyclic
<1>2. A \in SUBSET Declared(ps) /\ B \in SUBSET Declared(ps)
  BY ActiveIsDeclared
<1>3. \A q \in Declared(ps) : rank[q] \in Nat
  BY <1>1
<1>4. A \subseteq B
  <2>1. Supported(ps, d, A)
    BY ActiveIsSupported DEF Supported, Holds
  <2> QED
    BY <1>2, <2>1, SupportedIsActive
<1>5. B \subseteq A
  <2> SUFFICES ASSUME B \ A # {} PROVE FALSE
    OBVIOUS
  <2> DEFINE Ranks == {rank[q] : q \in B \ A}
  <2>1. Ranks \in SUBSET Nat /\ Ranks # {}
    BY <1>2, <1>3
  <2>2. PICK x \in Ranks : \A y \in Ranks : x <= y
    <3> HIDE DEF Ranks
    <3> QED
      BY <2>1, SmallestMember
  <2>3. PICK q \in B \ A : x = rank[q]
    OBVIOUS
  <2> DEFINE S == A \cup {q}
  <2>4. Supported(ps, c, S)
    <3> SUFFICES ASSUME NEW k \in DOMAIN ps, ps[k].name \in S
                 PROVE  Holds(ps[k], c, S)
      BY DEF Supported
    <3>1. CASE ps[k].name \in A
      <4>1. Holds(ps[k], c, A)
        BY <3>1, ActiveIsSupported DEF Supported
      <4> QED
        BY <4>1, HoldsAmongMore
    <3>2. CASE ps[k].name = q /\ ps[k].parent = NoParent
      BY <3>2 DEF Holds
    <3>3. CASE ps[k].name = q /\ ps[k].parent # NoParent
      <4>1. ps[k].parent \in B /\ d[ps[k].parent] \in ps[k].allowed
        BY <2>3, <3>3, ActiveIsSupported DEF Supported, Holds
      <4>2. rank[ps[k].parent] < x
        BY <1>1, <1>2, <2>3, <3>3, <4>1
      <4>3. rank[ps[k].parent] \in Nat /\ x \in Nat
        BY <1>2, <1>3, <2>1, <4>1
      <4>4. ps[k].parent \in A
        <5> SUFFICES ASSUME ps[k].parent \in B \ A PROVE FALSE
          BY <4>1
        <5>1. rank[ps[k].parent] \in Ranks
          OBVIOUS
        <5>2. x <= rank[ps[k].parent]
          <6> HIDE DEF Ranks
          <6> QED
            BY <2>2, <5>1
        <5> QED
          BY <4>2, <4>3, <5>2
      <4>5. d[ps[k].parent] = c[ps[k].parent]
        BY <4>4
      <4> QED
        BY <4>1, <4>4, <4>5 DEF Holds
    <3> QED
      BY <3>1, <3>2, <3>3
  <2>5. S \in SUBSET Declared(ps)
    BY <1>2, <2>3
  <2>6. q \in A
    BY <2>4, <2>5, SupportedIsActive
  <2> QED
    BY <2>3, <2>6
<1> QED
  BY <1>4, <1>5

-----------------------------------------------------------------------------
(* The invariant.                                                          *)

TypeOK ==
  /\ params \in Seq(Param)
  /\ forbidden \subseteq SUBSET (Names \X Values)
  /\ phase \in {"reading", "loaded", "failed", "sweeping", "ready", "drawing"}
  /\ i \in Nat /\ changed \in BOOLEAN

(* While active_params runs: nobody who belongs in has been taken out, and *)
(* as long as this sweep has taken nobody out, the conditions of those it  *)
(* has passed hold.                                                        *)
SweepInv ==
  phase = "sweeping" =>
    /\ ActiveSet(params, cfg) \subseteq active
    /\ active \subseteq Declared(params)
    /\ i \in 1 .. Len(params) + 1
    /\ ~changed => \A k \in 1 .. i - 1 :
         params[k].name \in active => Holds(params[k], cfg, active)

Inv == TypeOK /\ Unique(params) /\ SweepInv /\ ActiveIsLargest /\ SearchIsLegal

(* A parameter added under a new name leaves names unique.                 *)
LEMMA AppendedIsUnique ==
  ASSUME NEW ps \in Seq(Param), NEW l \in Param, Unique(ps),
         l.name \notin Declared(ps)
  PROVE  Unique(Append(ps, l))
  BY DEF Unique, Declared

(* A move, taken apart: the parameter it is of and its new value.          *)
LEMMA MoveIs ==
  ASSUME NEW ps, NEW c, NEW act, NEW m \in Moves(ps, c, act)
  PROVE  /\ m[1] \in DOMAIN ps /\ m[2] \in DOMAIN ps[m[1]].domain
         /\ ps[m[1]].name \in act
         /\ ps[m[1]].domain[m[2]] \in Members(ps[m[1]])
         /\ ps[m[1]].domain[m[2]] # c[ps[m[1]].name]
<1>1. PICK k \in DOMAIN ps : m \in {k} \X DOMAIN ps[k].domain
  BY DEF Moves
<1>2. m[1] = k /\ m[2] \in DOMAIN ps[k].domain
  BY <1>1
<1>3. ps[m[1]].name \in act /\ ps[m[1]].domain[m[2]] # c[ps[m[1]].name]
  BY DEF Moves
<1> QED
  BY <1>2, <1>3 DEF Members

(* Every neighbour gives every parameter a value of its domain.            *)
LEMMA MovesLeadToDraws ==
  ASSUME NEW ps \in Seq(Param), Unique(ps), NEW c \in Draws(ps), NEW act,
         NEW m \in Moves(ps, c, act)
  PROVE  After(ps, c, m) \in Draws(ps)
<1> DEFINE k == m[1]
           v == ps[k].domain[m[2]]
           d == [c EXCEPT ![ps[k].name] = v]
<1>1. k \in DOMAIN ps /\ m[2] \in DOMAIN ps[k].domain /\ v \in Members(ps[k])
  BY MoveIs
<1>2. After(ps, c, m) = d
  BY DEF After
<1>3. c \in [Declared(ps) -> Values] /\ \A j \in DOMAIN ps : c[ps[j].name] \in Members(ps[j])
  BY DEF Draws, InDomain
<1>4. v \in Values /\ \A j \in DOMAIN ps : ps[j].name \in Declared(ps)
  <2>1. ps[k] \in Param
    BY <1>1
  <2>2. ps[k].domain \in Seq(Values)
    BY <2>1 DEF Param
  <2> QED
    BY <1>1, <2>2 DEF Declared
<1> HIDE DEF v
<1>5. d \in [Declared(ps) -> Values]
  BY <1>1, <1>3, <1>4
<1>6. \A j \in DOMAIN ps : d[ps[j].name] \in Members(ps[j])
  BY <1>1, <1>3, <1>4 DEF Unique
<1> QED
  BY <1>2, <1>5, <1>6 DEF Draws, InDomain

(* A combination that does not match a whole configuration does not match  *)
(* its active projection.                                                  *)
LEMMA RawLegalIsLegal ==
  ASSUME NEW ps, NEW f, NEW c, DOMAIN c = Declared(ps), ~IsForbidden(f, c)
  PROVE  Legal(ps, f, c)
  BY ActiveIsDeclared DEF Legal, IsForbidden, Projection

(* What a call of active_params starts with.                               *)
LEMMA CallInv ==
  ASSUME Inv, NEW c \in Draws(params), Legal(params, forbidden, c), Call(c)
  PROVE  Inv'
<1>1. TypeOK' /\ Unique(params)'
  BY DEF Inv, TypeOK, Unique, Call, spaceVars
<1>2. SweepInv'
  BY ActiveIsDeclared DEF Inv, TypeOK, SweepInv, Call, spaceVars
<1>3. ActiveIsLargest'
  BY DEF ActiveIsLargest, Call
<1>4. SearchIsLegal'
  BY DEF SearchIsLegal, Call, spaceVars
<1> QED
  BY <1>1, <1>2, <1>3, <1>4 DEF Inv

LEMMA InitInv == Init => Inv
<1> SUFFICES ASSUME Init PROVE Inv
  OBVIOUS
<1>1. params \in Seq(Param) /\ DOMAIN params = {}
  BY DEF Init
<1>2. TypeOK /\ Unique(params)
  BY <1>1 DEF Init, TypeOK, Unique
<1> QED
  BY <1>2 DEF Init, Inv, SweepInv, ActiveIsLargest, SearchIsLegal

(* Reading leaves no trace but a longer list of parameters, other          *)
(* conditions or more combinations.                                        *)
LEMMA ReadingKeepsInv ==
  ASSUME Inv, ReadParam \/ ReadCondition \/ ReadForbidden \/ EndOfFile
  PROVE  Inv'
<1>1. CASE ReadParam
  <2>1. PICK l \in ParamLines :
          /\ l.name \notin Declared(params)
          /\ IF l.default \in Members(l) /\ l.parent # Malformed
             THEN params' = Append(params, l) /\ phase' = phase
             ELSE params' = params /\ phase' = "failed"
    BY <1>1 DEF ReadParam
  <2>2. phase' \in {"reading", "failed"}
    BY <1>1, <2>1 DEF ReadParam, ReadLine
  <2>3. params' \in Seq(Param) /\ Unique(params')
    <3>1. CASE params' = params
      BY <3>1 DEF Inv, TypeOK
    <3>2. CASE params' = Append(params, l) /\ l.parent # Malformed
      <4>1. l \in Param
        BY <3>2, LinesAssumption DEF Param
      <4> QED
        BY <2>1, <3>2, <4>1, AppendedIsUnique DEF Inv, TypeOK
    <3> QED
      BY <2>1, <3>1, <3>2
  <2>4. TypeOK'
    BY <1>1, <2>2, <2>3 DEF ReadParam, ReadLine, sweepVars, Inv, TypeOK
  <2> QED
    BY <2>2, <2>3, <2>4 DEF Inv, SweepInv, ActiveIsLargest, SearchIsLegal
<1>2. CASE ReadCondition
  <2>1. PICK l \in ConditionLines :
          params' = [k \in DOMAIN params |->
                       IF params[k].name = l.name
                       THEN [params[k] EXCEPT !.parent = l.parent, !.allowed = l.allowed]
                       ELSE params[k]]
    BY <1>2 DEF ReadCondition
  <2>2. phase' = "reading"
    BY <1>2 DEF ReadCondition, ReadLine
  <2>3. \A k \in DOMAIN params : params'[k] \in Param /\ params'[k].name = params[k].name
    <3> SUFFICES ASSUME NEW k \in DOMAIN params
                 PROVE  params'[k] \in Param /\ params'[k].name = params[k].name
      OBVIOUS
    <3>1. params[k] \in Param
      BY DEF Inv, TypeOK
    <3>2. l.parent \in Names /\ l.allowed \in SUBSET Values
      BY LinesAssumption
    <3> QED
      BY <2>1, <3>1, <3>2 DEF Param
  <2>4. params' \in Seq(Param) /\ DOMAIN params' = DOMAIN params
    <3>1. params \in Seq(Param) /\ DOMAIN params = 1 .. Len(params) /\ Len(params) \in Nat
      BY DEF Inv, TypeOK
    <3>2. params' \in [1 .. Len(params) -> Param]
      BY <2>1, <2>3, <3>1
    <3> QED
      BY <3>1, <3>2
  <2>5. Unique(params')
    BY <2>3, <2>4 DEF Inv, Unique
  <2>6. TypeOK'
    BY <1>2, <2>2, <2>4 DEF ReadCondition, ReadLine, sweepVars, Inv, TypeOK
  <2> QED
    BY <2>2, <2>5, <2>6 DEF Inv, SweepInv, ActiveIsLargest, SearchIsLegal
<1>3. CASE ReadForbidden
  <2>1. forbidden' \subseteq SUBSET (Names \X Values) /\ params' = params /\ phase' = "reading"
    BY <1>3, LinesAssumption DEF ReadForbidden, ReadLine, Inv, TypeOK
  <2>2. TypeOK' /\ Unique(params)'
    BY <1>3, <2>1 DEF ReadForbidden, ReadLine, sweepVars, Inv, TypeOK, Unique
  <2> QED
    BY <2>1, <2>2 DEF Inv, SweepInv, ActiveIsLargest, SearchIsLegal
<1>4. CASE EndOfFile
  BY <1>4 DEF EndOfFile, spaceVars, sweepVars, Inv, TypeOK, Unique, SweepInv,
              ActiveIsLargest, SearchIsLegal
<1> QED
  BY <1>1, <1>2, <1>3, <1>4

(* A configuration that validate_config lets through can be drawn and its  *)
(* active projection is legal.                                             *)
LEMMA ValidIsLegal ==
  ASSUME Inv, NEW c \in Given \cup {DefaultConfig(params)}, Valid(c)
  PROVE  c \in Draws(params) /\ Legal(params, forbidden, c)
<1>1. c \in [Declared(params) -> Values]
  <2>1. CASE c \in Given
    BY <2>1 DEF Given, Valid
  <2>2. CASE c = DefaultConfig(params)
    <3>1. \A k \in DOMAIN params : params[k].default \in Values
      <4>1. \A k \in DOMAIN params : params[k] \in Param
        BY DEF Inv, TypeOK
      <4> QED
        BY <4>1 DEF Param
    <3>2. \A n \in Declared(params) :
             params[CHOOSE k \in DOMAIN params : params[k].name = n].default \in Values
      <4> SUFFICES ASSUME NEW n \in Declared(params)
                   PROVE  (CHOOSE k \in DOMAIN params : params[k].name = n) \in DOMAIN params
        BY <3>1
      <4>1. \E k \in DOMAIN params : params[k].name = n
        BY DEF Declared
      <4> QED
        BY <4>1
    <3> QED
      BY <2>2, <3>2 DEF DefaultConfig
  <2> QED
    BY <2>1, <2>2
<1>2. InDomain(params, c) /\ ~IsForbidden(forbidden, c) /\ DOMAIN c = Declared(params)
  BY DEF Valid
<1> QED
  BY <1>1, <1>2, RawLegalIsLegal DEF Draws

(* The loop of active_params keeps its invariant and ends in the largest   *)
(* supported set.                                                          *)
LEMMA SweepKeepsInv ==
  ASSUME Inv, Sweep
  PROVE  Inv'
<1>0. Len(params) \in Nat /\ DOMAIN params = 1 .. Len(params)
  BY DEF Inv, TypeOK
<1>1. CASE Visit
  <2> DEFINE p    == params[i]
             dies == p.name \in active /\ ~Holds(p, cfg, active)
  <2>1. /\ phase = "sweeping" /\ i \in DOMAIN params
        /\ active' = IF dies THEN active \ {p.name} ELSE active
        /\ changed' = (changed \/ dies)
        /\ i' = i + 1
        /\ UNCHANGED <<spaceVars, phase, cfg>>
    BY <1>0, <1>1 DEF Visit, Inv, SweepInv
  <2>2. ActiveSet(params, cfg) \subseteq active'
    BY <2>1, DroppedIsInactive DEF Inv, SweepInv
  <2>3. ~changed' => \A k \in 1 .. i : params[k].name \in active' => Holds(params[k], cfg, active')
    <3> SUFFICES ASSUME ~changed', NEW k \in 1 .. i, params[k].name \in active'
                 PROVE  Holds(params[k], cfg, active')
      OBVIOUS
    <3>1. ~changed /\ ~dies /\ active' = active
      BY <2>1 DEF Inv, TypeOK
    <3>2. CASE k = i
      BY <3>1, <3>2
    <3>3. CASE k \in 1 .. i - 1
      BY <2>1, <3>1, <3>3 DEF Inv, SweepInv
    <3> QED
      BY <2>1, <3>2, <3>3 DEF Inv, TypeOK
  <2>4. SweepInv'
    <3>1. i' \in 1 .. Len(params) + 1 /\ i' - 1 = i
      BY <1>0, <2>1
    <3>2. active' \subseteq Declared(params)
      BY <2>1 DEF Inv, SweepInv
    <3> QED
      BY <2>1, <2>2, <2>3, <3>1, <3>2 DEF SweepInv, spaceVars
  <2>5. TypeOK' /\ Unique(params)'
    BY <1>0, <2>1 DEF Inv, TypeOK, Unique, spaceVars
  <2> QED
    BY <2>1, <2>4, <2>5 DEF Inv, ActiveIsLargest, SearchIsLegal, spaceVars
<1>2. CASE NextSweep
  <2>1. TypeOK' /\ Unique(params)'
    BY <1>2 DEF NextSweep, spaceVars, Inv, TypeOK, Unique
  <2>2. i' = 1 /\ 1 .. i' - 1 = {} /\ UNCHANGED <<params, phase, cfg, active>>
    BY <1>2 DEF NextSweep, spaceVars
  <2>3. SweepInv'
    BY <1>0, <1>2, <2>2 DEF NextSweep, Inv, SweepInv
  <2> QED
    BY <1>2, <2>1, <2>3 DEF NextSweep, spaceVars, Inv, ActiveIsLargest, SearchIsLegal
<1>3. CASE SweepDone
  <2>1. Supported(params, cfg, active) /\ active \in SUBSET Declared(params)
    BY <1>0, <1>3 DEF SweepDone, Inv, SweepInv, Supported
  <2>2. active = ActiveSet(params, cfg)
    BY <1>3, <2>1, SupportedIsActive DEF SweepDone, Inv, SweepInv
  <2>3. SweepInv' /\ TypeOK' /\ Unique(params)'
    BY <1>3 DEF SweepDone, spaceVars, sweepVars, Inv, SweepInv, TypeOK, Unique
  <2> QED
    BY <1>3, <2>2, <2>3 DEF SweepDone, spaceVars, sweepVars, Inv, ActiveIsLargest, SearchIsLegal
<1> QED
  BY <1>1, <1>2, <1>3 DEF Sweep

LEMMA NextKeepsInv == Inv /\ [Next]_vars => Inv'
<1> SUFFICES ASSUME Inv, [Next]_vars PROVE Inv'
  OBVIOUS
<1>1. CASE ReadParam \/ ReadCondition \/ ReadForbidden \/ EndOfFile
  BY <1>1, ReadingKeepsInv
<1>2. CASE Start
  <2>1. PICK c \in Given \cup {DefaultConfig(params)} : Valid(c) /\ Call(c)
    BY <1>2 DEF Start
  <2> QED
    BY <2>1, ValidIsLegal, CallInv
<1>3. CASE Sweep
  BY <1>3, SweepKeepsInv
<1>4. CASE Step
  <2>1. PICK m \in Neighbourhood(params, forbidden, cfg, active) :
           Call(After(params, cfg, m))
    BY <1>4 DEF Step
  <2>2. m \in Moves(params, cfg, active) /\ Legal(params, forbidden, After(params, cfg, m))
    BY <2>1 DEF Neighbourhood
  <2>3. After(params, cfg, m) \in Draws(params)
    BY <1>4, <2>2, MovesLeadToDraws DEF Step, Inv, TypeOK, SearchIsLegal
  <2> QED
    BY <2>1, <2>2, <2>3, CallInv
<1>5. CASE Draw
  BY <1>5, CallInv DEF Draw
<1>6. CASE Refuse \/ AskRandom
  BY <1>6 DEF Refuse, AskRandom, spaceVars, sweepVars, Inv, TypeOK, Unique, SweepInv,
              ActiveIsLargest, SearchIsLegal
<1>7. CASE UNCHANGED vars
  BY <1>7 DEF vars, spaceVars, sweepVars, Inv, TypeOK, Unique, SweepInv,
              ActiveIsLargest, SearchIsLegal
<1> QED
  BY <1>1, <1>2, <1>3, <1>4, <1>5, <1>6, <1>7 DEF Next

-----------------------------------------------------------------------------
LEMMA Invariance == Spec => []Inv
  BY InitInv, NextKeepsInv, PTL DEF Spec

(* Whatever the order of the lines and however the conditions refer to     *)
(* each other, active_params returns the largest set of parameters whose   *)
(* conditions hold among themselves.                                       *)
THEOREM LargestActive == Spec => []ActiveIsLargest
  BY Invariance, PTL DEF Inv

(* The search stands on legal configurations only.                         *)
THEOREM LegalSearch == Spec => []SearchIsLegal
  BY Invariance, PTL DEF Inv

(* A move changes one active parameter, which stays active.                *)
LEMMA MoveForm ==
  ASSUME Inv, phase = "ready", Acyclic(params),
         NEW m \in Neighbourhood(params, forbidden, cfg, active)
  PROVE  LET n == params[m[1]].name
             v == params[m[1]].domain[m[2]]
             d == After(params, cfg, m)
         IN  /\ m[1] \in DOMAIN params /\ n \in DOMAIN cfg
             /\ v # cfg[n] /\ d = [cfg EXCEPT ![n] = v] /\ d[n] = v
             /\ n \in ActiveSet(params, d)
<1> DEFINE n == params[m[1]].name
           v == params[m[1]].domain[m[2]]
           d == After(params, cfg, m)
<1>1. m \in Moves(params, cfg, active)
  BY DEF Neighbourhood
<1>2. m[1] \in DOMAIN params /\ n \in active /\ v # cfg[n]
  BY <1>1, MoveIs
<1>3. DOMAIN cfg = Declared(params) /\ active = ActiveSet(params, cfg) /\ Len(params) \in Nat
  BY DEF Inv, TypeOK, ActiveIsLargest, SearchIsLegal, Draws
<1>4. d = [cfg EXCEPT ![n] = v] /\ n \in DOMAIN cfg
  BY <1>2, <1>3 DEF After, Declared
<1>5. n \in ActiveSet(params, d)
  BY <1>2, <1>3, <1>4, ChangedStaysActive
<1> QED
  BY <1>2, <1>4, <1>5

(* Without cycles of conditions every move can be taken back in one move.  *)
THEOREM Reversible == Spec => []MovesAreReversible
<1>1. Inv => MovesAreReversible
  <2> SUFFICES ASSUME Inv, phase = "ready", Acyclic(params),
                      NEW m \in Neighbourhood(params, forbidden, cfg, active)
               PROVE  \E b \in Neighbourhood(params, forbidden, After(params, cfg, m),
                                             ActiveSet(params, After(params, cfg, m))) :
                        After(params, After(params, cfg, m), b) = cfg
    BY DEF MovesAreReversible
  <2> DEFINE k == m[1]
             n == params[k].name
             v == params[k].domain[m[2]]
             d == After(params, cfg, m)
  <2>1. /\ k \in DOMAIN params /\ n \in DOMAIN cfg
        /\ v # cfg[n] /\ d = [cfg EXCEPT ![n] = v] /\ d[n] = v
        /\ n \in ActiveSet(params, d)
    BY MoveForm
  <2>2. cfg \in [Declared(params) -> Values] /\ cfg[n] \in Members(params[k])
    BY <2>1 DEF Inv, SearchIsLegal, Draws, InDomain
  <2>3. PICK j \in DOMAIN params[k].domain : params[k].domain[j] = cfg[n]
    BY <2>2 DEF Members
  <2> DEFINE b == <<k, j>>
  <2>4. b \in UNION {{q} \X DOMAIN params[q].domain : q \in DOMAIN params}
    BY <2>1, <2>3
  <2>5. b[1] = k /\ b[2] = j
    OBVIOUS
  <2> HIDE DEF b, d, v
  <2>6. b \in Moves(params, d, ActiveSet(params, d))
    BY <2>1, <2>3, <2>4, <2>5 DEF Moves
  <2>7. After(params, d, b) = cfg
    <3>1. After(params, d, b) = [d EXCEPT ![n] = cfg[n]]
      BY <2>3, <2>5 DEF After
    <3> QED
      BY <2>1, <2>2, <3>1
  <2>8. b \in Neighbourhood(params, forbidden, d, ActiveSet(params, d))
    BY <2>6, <2>7 DEF Neighbourhood, Inv, SearchIsLegal
  <2> QED
    BY <2>7, <2>8 DEF d
<1> QED
  BY <1>1, Invariance, PTL

(* Configurations that differ where one of them is active have different   *)
(* keys.                                                                   *)
LEMMA KeyShows ==
  ASSUME NEW ps, NEW c, NEW d, NEW n \in ActiveSet(ps, c), c[n] # d[n]
  PROVE  Projection(ps, c) # Projection(ps, d)
<1> SUFFICES ASSUME Projection(ps, c) = Projection(ps, d) PROVE FALSE
  OBVIOUS
<1>1. n \in DOMAIN Projection(ps, d)
  BY DEF Projection
<1>2. Projection(ps, c)[n] = c[n] /\ Projection(ps, d)[n] = d[n]
  BY <1>1 DEF Projection
<1> QED
  BY <1>2

(* Without cycles of conditions the cache keys of a neighbourhood are all  *)
(* different, but for values that a domain lists twice, and inactive       *)
(* parameters do not show in a key.                                        *)
THEOREM KeysApart == Spec => []KeysTellApart
<1>1. Inv => KeysTellApart
  <2> SUFFICES ASSUME Inv, phase = "ready", Acyclic(params) PROVE KeysTellApart
    BY DEF KeysTellApart
  <2> DEFINE N == Neighbourhood(params, forbidden, cfg, active)
             Key(m) == Projection(params, After(params, cfg, m))
             Value(m) == params[m[1]].domain[m[2]]
  <2>1. ASSUME NEW m \in N PROVE Key(m) # Projection(params, cfg)
    <3> DEFINE n == params[m[1]].name
               d == After(params, cfg, m)
    <3>1. n \in ActiveSet(params, d) /\ d[n] # cfg[n]
      BY MoveForm
    <3> QED
      BY <3>1, KeyShows
  <2>2. ASSUME NEW m \in N, NEW o \in N, ~(m[1] = o[1] /\ Value(m) = Value(o))
        PROVE  Key(m) # Key(o)
    <3> DEFINE n == params[m[1]].name
               d == After(params, cfg, m)
               e == After(params, cfg, o)
    <3>1. /\ m[1] \in DOMAIN params /\ n \in ActiveSet(params, d)
          /\ d[n] = Value(m) /\ Value(m) # cfg[n]
      BY MoveForm
    <3>2. /\ o[1] \in DOMAIN params /\ params[o[1]].name \in DOMAIN cfg
          /\ e = [cfg EXCEPT ![params[o[1]].name] = Value(o)]
      BY MoveForm
    <3>3. CASE m[1] = o[1]
      <4>1. e[n] = Value(o) /\ Value(m) # Value(o)
        BY <2>2, <3>2, <3>3
      <4> QED
        BY <3>1, <4>1, KeyShows
    <3>4. CASE m[1] # o[1]
      <4>1. params[o[1]].name # n
        BY <3>1, <3>2, <3>4 DEF Inv, Unique
      <4>2. e[n] = cfg[n]
        BY <3>2, <4>1
      <4> QED
        BY <3>1, <4>2, KeyShows
    <3> QED
      BY <3>3, <3>4
  <2>3. ASSUME NEW d \in [Declared(params) -> Values], \A n \in active : d[n] = cfg[n]
        PROVE  Projection(params, d) = Projection(params, cfg)
    <3>1. active = ActiveSet(params, cfg) /\ Len(params) \in Nat
      BY DEF Inv, TypeOK, ActiveIsLargest
    <3>2. ActiveSet(params, d) = ActiveSet(params, cfg)
      BY <2>3, <3>1, InactiveDoNotMatter
    <3> QED
      BY <2>3, <3>1, <3>2 DEF Projection
  <2> QED
    BY <2>1, <2>2, <2>3 DEF KeysTellApart
<1> QED
  BY <1>1, Invariance, PTL
=============================================================================
