----------------------------- MODULE CacheProofs -----------------------------
(***************************************************************************)
(* What is proved about Cache, for every set of pairs, processes, cutoffs  *)
(* and times.                                                              *)
(***************************************************************************)
EXTENDS Cache, TLAPS

(* Types hold of a new file.                                               *)
LEMMA InitTypes == Init => TypeOK
<1> SUFFICES ASSUME Init PROVE TypeOK
  OBVIOUS
<1>1. answer \in [Processes -> Answers]
  <2>1. \A p \in Processes : cutoff[p] \in Nat
    BY TimesAssumption DEF Init
  <2> QED
    BY <2>1 DEF Init, Answers, Crash, Statuses
<1>2. rows \in [Keys -> RowsStored \cup {NoRow}]
  BY DEF Init
<1> QED
  BY <1>1, <1>2 DEF Init, TypeOK, Places

(* The invariant holds of a new file.                                      *)
LEMMA InitInv == Init => IInv
  BY InitTypes DEF Init, IInv, RowsAreTrue, ResultsAreTrue, HitsAreTrue

(* What a run can report: a time it may take, or one of two failures it    *)
(* may run into.                                                           *)
LEMMA OutcomeForms ==
  ASSUME TypeOK, NEW k \in Keys, NEW c \in Nat
  PROVE  \A r : r \in Outcomes(k, c) <=>
           \/ \E t \in needs[k] : t <= c /\ r = [status |-> "solved", runtime |-> t]
           \/ /\ \E t \in needs[k] : t > c
              /\ \/ r = [status |-> "timeout", runtime |-> c]
                 \/ r = [status |-> "GaveUp", runtime |-> c]
  BY DEF Outcomes

(* A usable row, adapted to a cutoff, is what a run at it could report, or *)
(* a give-up that was charged less.                                        *)
LEMMA AdaptIsTrue ==
  ASSUME IInv, NEW k \in Keys, NEW c \in Cutoffs, Usable(rows[k], c)
  PROVE  Adapt(rows[k], c) \in Outcomes(k, c) \/ Stretched(Adapt(rows[k], c), c)
<1> DEFINE row == rows[k]
<1>1. c \in Nat /\ needs[k] \subseteq Nat
  BY TimesAssumption DEF IInv, TypeOK
<1>2. row \in RowsStored
  BY DEF Usable, IInv, TypeOK
<1>3. \/ row.status = "solved" /\ row.runtime \in needs[k]
      \/ /\ row.status \in {"timeout", "GaveUp"}
         /\ row.runtime = row.cutoff
         /\ \E t \in needs[k] : t > row.cutoff
  BY DEF IInv, RowsAreTrue, Usable
<1>4. CASE row.status = "timeout" \/ row.runtime > c
  <2>1. Adapt(row, c) = [status |-> "timeout", runtime |-> c]
    BY <1>4 DEF Adapt
  <2>2. \E t \in needs[k] : t > c
    <3>1. CASE row.status = "solved"
      BY <1>3, <1>4, <3>1
    <3>2. CASE row.status # "solved"
      <4>1. PICK t \in needs[k] : t > row.cutoff /\ row.runtime = row.cutoff
        BY <1>3, <3>2
      <4>2. row.cutoff \in Nat /\ (row.cutoff >= c \/ row.cutoff > c)
        BY <1>2, <1>4, <4>1 DEF Usable, RowsStored
      <4>3. t > c
        BY <1>1, <4>1, <4>2
      <4> QED
        BY <4>3
    <3> QED
      BY <3>1, <3>2
  <2> QED
    BY <1>1, <2>1, <2>2, OutcomeForms DEF IInv
<1>5. CASE row.status # "timeout" /\ ~(row.runtime > c)
  <2>1. Adapt(row, c) = [status |-> row.status, runtime |-> row.runtime]
    BY <1>5 DEF Adapt
  <2>2. row.runtime \in Nat /\ row.runtime <= c
    BY <1>1, <1>2, <1>5 DEF RowsStored
  <2>3. CASE row.status = "solved"
    BY <1>1, <1>3, <2>1, <2>2, <2>3, OutcomeForms DEF IInv
  <2>4. CASE row.status = "GaveUp" /\ row.runtime = c
    BY <1>1, <1>3, <2>1, <2>4, OutcomeForms DEF IInv
  <2>5. CASE row.status = "GaveUp" /\ row.runtime # c
    BY <1>1, <2>1, <2>2, <2>5 DEF Stretched
  <2> QED
    BY <1>3, <1>5, <2>3, <2>4, <2>5
<1> QED
  BY <1>4, <1>5

(* Every step keeps the invariant, whichever processes share the file.     *)
LEMMA NextInv == IInv /\ [Next]_vars => IInv'
<1> SUFFICES ASSUME IInv, [Next]_vars PROVE IInv'
  OBVIOUS
<1> USE DEF IInv
<1>1. CASE UNCHANGED vars
  BY <1>1 DEF vars, procVars, histVars, TypeOK, RowsAreTrue, ResultsAreTrue, HitsAreTrue, Outcomes, Stretched
<1>2. ASSUME NEW p \in Processes, Open(p) PROVE IInv'
  BY <1>2 DEF Open, Goto, TypeOK, RowsAreTrue, ResultsAreTrue, HitsAreTrue, Outcomes, Stretched, Places
<1>3. ASSUME NEW p \in Processes, Exit(p) PROVE IInv'
  BY <1>3 DEF Exit, histVars, Goto, TypeOK, RowsAreTrue, ResultsAreTrue, HitsAreTrue, Outcomes, Stretched, Places
<1>4. ASSUME NEW p \in Processes, NEW k \in Keys, Lookup(p, k) PROVE IInv'
  <2>1. CASE ~disabled[p] /\ Usable(rows[k], cutoff[p])
    <3>1. cutoff[p] \in Cutoffs
      BY DEF TypeOK
    <3>2. \/ Adapt(rows[k], cutoff[p]) \in Outcomes(k, cutoff[p])
          \/ Stretched(Adapt(rows[k], cutoff[p]), cutoff[p])
      BY <2>1, <3>1, AdaptIsTrue
    <3>3. Adapt(rows[k], cutoff[p]) \in Answers
      BY <2>1, <3>1, TimesAssumption
      DEF Adapt, Answers, TypeOK, RowsStored, Statuses, Usable
    <3>4. TypeOK'
      BY <1>4, <2>1, <3>3 DEF Lookup, histVars, Goto, TypeOK, Places
    <3>5. RowsAreTrue'
      BY <1>4 DEF Lookup, RowsAreTrue
    <3>6. ResultsAreTrue'
      BY <1>4, <2>1 DEF Lookup, histVars, Goto, ResultsAreTrue, TypeOK, Outcomes
    <3>7. HitsAreTrue'
      BY <1>4, <2>1, <3>2 DEF Lookup, histVars, Goto, HitsAreTrue, TypeOK, Outcomes, Stretched
    <3> QED
      BY <3>4, <3>5, <3>6, <3>7
  <2>2. CASE ~(~disabled[p] /\ Usable(rows[k], cutoff[p]))
    BY <1>4, <2>2
    DEF Lookup, histVars, Goto, TypeOK, RowsAreTrue, ResultsAreTrue, HitsAreTrue, Outcomes, Stretched, Places
  <2> QED
    BY <2>1, <2>2
<1>5. ASSUME NEW p \in Processes, Run(p) PROVE IInv'
  <2>1. PICK r \in Outcomes(key[p], cutoff[p]) \cup {Crash(cutoff[p])} :
          /\ answer' = [answer EXCEPT ![p] = r]
          /\ Goto(p, IF r.status = "UNKNOWN" THEN "idle" ELSE "put")
    BY <1>5 DEF Run
  <2>2. key[p] \in Keys /\ cutoff[p] \in Nat /\ needs[key[p]] \subseteq Nat
    BY TimesAssumption DEF TypeOK
  <2>3. r \in Answers
    BY <2>1, <2>2, OutcomeForms DEF Answers, Statuses, Crash
  <2>4. r.status # "UNKNOWN" => r \in Outcomes(key[p], cutoff[p])
    BY <2>1 DEF Crash
  <2>5. UNCHANGED <<needs, rows, cutoff, disabled, key, concluded, opened>>
    BY <1>5 DEF Run, histVars
  <2>6. TypeOK'
    BY <2>1, <2>3, <2>5 DEF Goto, TypeOK, Places
  <2>7. RowsAreTrue'
    BY <2>5 DEF RowsAreTrue
  <2>8. ResultsAreTrue'
    BY <2>1, <2>4, <2>5 DEF Goto, ResultsAreTrue, TypeOK, Outcomes
  <2>9. HitsAreTrue'
    BY <2>1, <2>5 DEF Goto, HitsAreTrue, TypeOK, Outcomes, Stretched
  <2> QED
    BY <2>6, <2>7, <2>8, <2>9
<1>6. ASSUME NEW p \in Processes, PutReads(p) PROVE IInv'
  BY <1>6 DEF PutReads, histVars, Goto, TypeOK, RowsAreTrue, ResultsAreTrue, HitsAreTrue, Outcomes, Stretched, Places
<1>7. ASSUME NEW p \in Processes, PutWrites(p) PROVE IInv'
  <2> DEFINE row == [status |-> answer[p].status, runtime |-> answer[p].runtime,
                     cutoff |-> cutoff[p]]
  <2>1. rows' = [rows EXCEPT ![key[p]] = row] /\ at' = [at EXCEPT ![p] = "idle"]
    BY <1>7 DEF PutWrites, Goto
  <2>2. UNCHANGED <<needs, cutoff, disabled, key, answer, opened>>
    BY <1>7 DEF PutWrites
  <2>3. key[p] \in Keys /\ cutoff[p] \in Nat /\ answer[p] \in Outcomes(key[p], cutoff[p])
    BY <1>7, TimesAssumption DEF TypeOK, PutWrites, ResultsAreTrue
  <2>4. \/ row.status = "solved" /\ row.runtime \in needs[key[p]]
        \/ /\ row.status \in {"timeout", "GaveUp"}
           /\ row.runtime = row.cutoff
           /\ \E t \in needs[key[p]] : t > row.cutoff
    BY <2>3, OutcomeForms
  <2>5. row \in RowsStored
    BY <2>3, <2>4 DEF RowsStored, Statuses, TypeOK, Answers
  <2>6. TypeOK'
    <3>1. concluded' \subseteq Keys
      BY <1>7, <2>3 DEF PutWrites, TypeOK
    <3> QED
      BY <2>1, <2>2, <2>5, <3>1 DEF TypeOK, Places
  <2>7. RowsAreTrue'
    <3> SUFFICES ASSUME NEW k \in Keys
                 PROVE  \/ rows'[k] = NoRow
                        \/ rows'[k].status = "solved" /\ rows'[k].runtime \in needs[k]
                        \/ /\ rows'[k].status \in {"timeout", "GaveUp"}
                           /\ rows'[k].runtime = rows'[k].cutoff
                           /\ \E t \in needs[k] : t > rows'[k].cutoff
      BY <2>2 DEF RowsAreTrue
    <3>1. CASE k = key[p]
      BY <2>1, <2>4, <3>1 DEF TypeOK
    <3>2. CASE k # key[p]
      BY <2>1, <3>2 DEF TypeOK, RowsAreTrue
    <3> QED
      BY <3>1, <3>2
  <2>8. ResultsAreTrue'
    BY <2>1, <2>2 DEF ResultsAreTrue, TypeOK, Outcomes
  <2>9. HitsAreTrue'
    BY <2>1, <2>2 DEF HitsAreTrue, TypeOK, Outcomes, Stretched
  <2> QED
    BY <2>6, <2>7, <2>8, <2>9
<1> QED
  BY <1>1, <1>2, <1>3, <1>4, <1>5, <1>6, <1>7 DEF Next, Step

(* A hit is what a run at the same cutoff could have reported              *)
(* (src/cache.rs:266-318, 409-433), stretched give-ups excepted, however   *)
(* many processes share the file and whatever cutoffs they use.            *)
THEOREM HitsTrue == Spec => []HitsAreTrue
<1>1. Init => IInv
  BY InitInv
<1>2. IInv /\ [Next]_vars => IInv'
  BY NextInv
<1>3. IInv => HitsAreTrue
  BY DEF IInv
<1> QED
  BY <1>1, <1>2, <1>3, PTL DEF Spec

-----------------------------------------------------------------------------
(* With one process nothing comes between put's two statements, so what it *)
(* read still licenses what it writes.                                     *)
WritesAreDue ==
  \A p \in Processes :
    at[p] = "write" => ShouldWrite(rows[key[p]], answer[p], cutoff[p])

(* Who is at work on the file has opened it.                               *)
OpenersKnown == \A p \in Processes : at[p] # "off" => p \in opened

(* Every step that is not a stutter is one of a process that has opened    *)
(* the file, and being alone now one was alone before.                     *)
LEMMA StepsOfOpeners ==
  ASSUME TypeOK, OpenersKnown, NEW p \in Processes, Step(p)
  PROVE  /\ p \in opened' /\ opened \subseteq opened'
         /\ OpenersKnown'
         /\ Alone' => Alone
<1>1. CASE Open(p)
  BY <1>1 DEF Open, Goto, OpenersKnown, Alone, TypeOK
<1>2. CASE ~Open(p)
  <2>1. at[p] # "off" /\ opened' = opened
    BY <1>2 DEF Step, Exit, Lookup, Run, PutReads, PutWrites, histVars
  <2>2. \A q \in Processes : q # p => at'[q] = at[q]
    BY <1>2 DEF Step, Exit, Lookup, Run, PutReads, PutWrites, Goto, TypeOK
  <2> QED
    BY <2>1, <2>2 DEF OpenersKnown, Alone
<1> QED
  BY <1>1, <1>2

(* A lone process's decision to write is still right when it writes.       *)
LEMMA NextDue ==
  TypeOK /\ OpenersKnown /\ (Alone => WritesAreDue) /\ [Next]_vars
    => (Alone' => WritesAreDue')
<1> SUFFICES ASSUME TypeOK, OpenersKnown, Alone => WritesAreDue, [Next]_vars, Alone'
             PROVE  WritesAreDue'
  OBVIOUS
<1>1. CASE UNCHANGED vars
  BY <1>1 DEF vars, procVars, histVars, WritesAreDue, ShouldWrite, Alone
<1>2. ASSUME NEW p \in Processes, Step(p) PROVE WritesAreDue'
  <2> SUFFICES ASSUME NEW q \in Processes, at'[q] = "write"
               PROVE  ShouldWrite(rows'[key'[q]], answer'[q], cutoff'[q])
    BY DEF WritesAreDue
  <2>1. q = p
    BY <1>2, StepsOfOpeners DEF OpenersKnown, Alone
  <2>2. PutReads(p)
    BY <1>2, <2>1 DEF Step, Open, Exit, Lookup, Run, PutReads, PutWrites, Goto, TypeOK
  <2> QED
    BY <2>1, <2>2 DEF PutReads, Goto, TypeOK, histVars
<1> QED
  BY <1>1, <1>2 DEF Next

(* Who opened the file stays known.                                        *)
LEMMA NextOpeners == TypeOK /\ OpenersKnown /\ [Next]_vars => OpenersKnown'
<1>1. UNCHANGED vars /\ OpenersKnown => OpenersKnown'
  BY DEF vars, procVars, histVars, OpenersKnown
<1> QED
  BY <1>1, StepsOfOpeners DEF Next

(* A row is written only by PutWrites.                                     *)
LEMMA WriteImproves ==
  ASSUME TypeOK, WritesAreDue, [Next]_vars, NEW k \in Keys
  PROVE  RowImproves(k)
<1> SUFFICES ASSUME rows'[k] # rows[k], rows[k] # NoRow
             PROVE  /\ rows[k].status = "timeout"
                    /\ rows'[k].status = "timeout" => rows'[k].cutoff > rows[k].cutoff
  BY DEF RowImproves
<1>1. PICK p \in Processes : PutWrites(p)
  BY DEF Next, Step, Open, Exit, Lookup, Run, PutReads, vars, histVars
<1>2. k = key[p] /\ rows'[k] = [status |-> answer[p].status, runtime |-> answer[p].runtime,
                                cutoff |-> cutoff[p]]
  BY <1>1 DEF PutWrites, TypeOK
<1>3. ShouldWrite(rows[k], answer[p], cutoff[p])
  BY <1>1, <1>2 DEF PutWrites, WritesAreDue
<1> QED
  BY <1>2, <1>3 DEF ShouldWrite

(* Types hold whatever the failures.                                       *)
LEMMA NextTypes == TypeOK /\ [Next]_vars => TypeOK'
<1> SUFFICES ASSUME TypeOK, [Next]_vars PROVE TypeOK'
  OBVIOUS
<1> USE DEF TypeOK
<1>1. CASE UNCHANGED vars
  BY <1>1 DEF vars, procVars, histVars
<1>2. ASSUME NEW p \in Processes, Open(p) PROVE TypeOK'
  BY <1>2 DEF Open, Goto, Places
<1>3. ASSUME NEW p \in Processes, Exit(p) PROVE TypeOK'
  BY <1>3 DEF Exit, histVars, Goto, Places
<1>4. ASSUME NEW p \in Processes, NEW k \in Keys, Lookup(p, k) PROVE TypeOK'
  <2>1. cutoff[p] \in Nat
    BY TimesAssumption
  <2>2. Usable(rows[k], cutoff[p]) => Adapt(rows[k], cutoff[p]) \in Answers
    BY <2>1 DEF Adapt, Answers, RowsStored, Statuses, Usable
  <2> QED
    BY <1>4, <2>2 DEF Lookup, histVars, Goto, Places
<1>5. ASSUME NEW p \in Processes, Run(p) PROVE TypeOK'
  <2>1. PICK r \in Outcomes(key[p], cutoff[p]) \cup {Crash(cutoff[p])} :
          /\ answer' = [answer EXCEPT ![p] = r]
          /\ Goto(p, IF r.status = "UNKNOWN" THEN "idle" ELSE "put")
    BY <1>5 DEF Run
  <2>2. cutoff[p] \in Nat /\ needs[key[p]] \subseteq Nat
    BY TimesAssumption
  <2>3. r \in Answers
    BY <2>1, <2>2 DEF Outcomes, Answers, Statuses, Crash
  <2> QED
    BY <1>5, <2>1, <2>3 DEF Run, histVars, Goto, Places
<1>6. ASSUME NEW p \in Processes, PutReads(p) PROVE TypeOK'
  BY <1>6 DEF PutReads, histVars, Goto, Places
<1>7. ASSUME NEW p \in Processes, PutWrites(p) PROVE TypeOK'
  <2>1. [status |-> answer[p].status, runtime |-> answer[p].runtime,
         cutoff |-> cutoff[p]] \in RowsStored
    BY <1>7, TimesAssumption DEF PutWrites, RowsStored, Answers
  <2> QED
    BY <1>7, <2>1 DEF PutWrites, Goto, Places
<1> QED
  BY <1>1, <1>2, <1>3, <1>4, <1>5, <1>6, <1>7 DEF Next, Step

(* What is known while one process has the file to itself.                 *)
LoneInv == TypeOK /\ OpenersKnown /\ (Alone => WritesAreDue)

LEMMA LoneInvariance == (Init => LoneInv) /\ (LoneInv /\ [Next]_vars => LoneInv')
<1>1. Init => LoneInv
  BY InitTypes DEF Init, LoneInv, WritesAreDue, OpenersKnown
<1> QED
  BY <1>1, NextTypes, NextOpeners, NextDue DEF LoneInv

(* A process that has the file to itself replaces a row only by a better   *)
(* one, and a solved one by no timeout, whatever its solvers report        *)
(* (src/cache.rs:320-385).                                                 *)
THEOREM RowsOnlyImprove ==
  ASSUME \A p, q \in Processes : p = q
  PROVE  Spec => RowsImprove /\ SolvedIsKept
<1>1. Init => LoneInv
  BY LoneInvariance
<1>2. LoneInv /\ [Next]_vars => LoneInv'
  BY LoneInvariance
<1>3. LoneInv /\ [Next]_vars => [\A k \in Keys : RowImproves(k)]_vars
  <2> SUFFICES ASSUME LoneInv, [Next]_vars, NEW k \in Keys PROVE RowImproves(k)
    OBVIOUS
  <2>1. Alone
    BY DEF LoneInv, TypeOK, Alone
  <2> QED
    BY <2>1, WriteImproves DEF LoneInv
<1>4. LoneInv /\ [Next]_vars => [\A k \in Keys : SolvedStays(k)]_vars
  BY <1>3 DEF RowImproves, SolvedStays, NoRow, vars
<1> QED
  BY <1>1, <1>2, <1>3, <1>4, PTL DEF Spec, RowsImprove, SolvedIsKept

-----------------------------------------------------------------------------
(* What a conclusion was written for has one still.                        *)
ConclusionsStay ==
  \A k \in concluded : rows[k] # NoRow /\ rows[k].status # "timeout"

(* A lone process's writes leave every conclusion a conclusion.            *)
LEMMA NextStays ==
  TypeOK /\ WritesAreDue /\ ConclusionsStay /\ [Next]_vars => ConclusionsStay'
<1> SUFFICES ASSUME TypeOK, WritesAreDue, ConclusionsStay, [Next]_vars
             PROVE  ConclusionsStay'
  OBVIOUS
<1>1. CASE UNCHANGED <<rows, concluded>>
  BY <1>1 DEF ConclusionsStay
<1>2. ASSUME NEW p \in Processes, PutWrites(p) PROVE ConclusionsStay'
  <2> SUFFICES ASSUME NEW k \in concluded'
               PROVE  rows'[k] # NoRow /\ rows'[k].status # "timeout"
    BY DEF ConclusionsStay
  <2>1. k \in concluded \/ (k = key[p] /\ answer[p].status # "timeout")
    BY <1>2 DEF PutWrites
  <2>2. answer[p].status # "none"
    BY DEF TypeOK, Answers, Statuses
  <2>3. ShouldWrite(rows[key[p]], answer[p], cutoff[p])
    BY <1>2 DEF PutWrites, WritesAreDue
  <2>4. CASE k = key[p]
    <3>1. rows'[k].status = answer[p].status
      BY <1>2, <2>4 DEF PutWrites, TypeOK
    <3> QED
      BY <2>1, <2>2, <2>3, <2>4, <3>1 DEF ConclusionsStay, ShouldWrite, NoRow
  <2>5. CASE k # key[p]
    BY <1>2, <2>1, <2>5 DEF PutWrites, TypeOK, ConclusionsStay
  <2> QED
    BY <2>4, <2>5
<1> QED
  BY <1>1, <1>2 DEF Next, Step, Open, Exit, Lookup, Run, PutReads, vars, histVars

(* What a process that has the file to itself wrote a conclusion for it    *)
(* never runs again when it looks it up: no later put of its own, at       *)
(* whatever cutoff, takes the conclusion away (src/cache.rs:266-318,       *)
(* 320-385, 409-433).                                                      *)
THEOREM ConclusionsAreReused == Spec => NoReruns
<1> DEFINE Inv == LoneInv /\ (Alone => ConclusionsStay)
<1>1. Init => Inv
  BY LoneInvariance DEF Init, ConclusionsStay
<1>2. Inv /\ [Next]_vars => Inv'
  <2> SUFFICES ASSUME Inv, [Next]_vars PROVE Inv'
    OBVIOUS
  <2>1. LoneInv'
    BY LoneInvariance
  <2>2. Alone' => Alone
    <3>1. CASE UNCHANGED vars
      BY <3>1 DEF vars, histVars, Alone
    <3>2. CASE Next
      BY <3>2, StepsOfOpeners DEF Next, LoneInv
    <3> QED
      BY <3>1, <3>2
  <2>3. Alone /\ ConclusionsStay => ConclusionsStay'
    BY NextStays DEF LoneInv
  <2> QED
    BY <2>1, <2>2, <2>3
<1>3. Inv /\ [Next]_vars => [\A p \in Processes : RunIsNeeded(p)]_vars
  <2> SUFFICES ASSUME TypeOK, ConclusionsStay, Next, NEW p \in Processes,
                      at[p] \in {"idle", "hit"}, at'[p] = "run", ~disabled[p]
               PROVE  key'[p] \notin concluded
    BY DEF RunIsNeeded, LoneInv
  <2>1. PICK k \in Keys : Lookup(p, k)
    BY DEF Next, Step, Open, Exit, Lookup, Run, PutReads, PutWrites, Goto, TypeOK
  <2>2. key'[p] = k /\ ~Usable(rows[k], cutoff[p])
    BY <2>1 DEF Lookup, Goto, TypeOK
  <2> QED
    BY <2>2 DEF Usable, ConclusionsStay
<1> QED
  BY <1>1, <1>2, <1>3, PTL DEF Spec, NoReruns
=============================================================================
