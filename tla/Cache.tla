------------------------------- MODULE Cache --------------------------------
(***************************************************************************)
(* The result cache of src/cache.rs: one row per strategy and instance in  *)
(* a database that outlives the runs using it.  A run looks a pair up at   *)
(* its own cutoff (get_batch), runs the solver on a miss, and puts what    *)
(* the solver reported; a put reads the row and then writes it, as two     *)
(* statements.  Runs of other cutoffs (later tuning runs, the phases of    *)
(* iterative deepening) and, where a file is shared, other processes use   *)
(* the same rows.                                                          *)
(*                                                                         *)
(* A result is its status and runtime: quality and runhash go with them.   *)
(* Every pair has a set of times its solver may need, drawn anew by each   *)
(* run, because a solver need not be deterministic.                        *)
(***************************************************************************)
EXTENDS Naturals

CONSTANTS
  Keys,        \* pairs of a strategy hash and an instance id
  Processes,   \* the tuners that have the file open
  Cutoffs,     \* the cutoff_times they run with
  Times        \* the times a solver may need

ASSUME TimesAssumption == Times \subseteq Nat /\ Cutoffs \subseteq Nat

VARIABLES
  needs,    \* the times the solver of each pair may need (never changes)
  rows,     \* the results table
  at,       \* where each process stands
  cutoff,   \* its cutoff_time
  disabled, \* its cache_disable
  key,      \* the pair it is looking at
  answer,   \* the result it has for it
  concluded, \* history: the pairs a conclusion was ever written for
  opened     \* history: the processes that ever opened the file

procVars == <<at, cutoff, disabled, key, answer>>
histVars == <<concluded, opened>>
vars     == <<needs, rows, procVars, histVars>>

(* A pair without a row.                                                   *)
NoRow == [status |-> "none", runtime |-> 0, cutoff |-> 0]

(* A give-up stands for every failure a wrapper reports by another name    *)
(* than a timeout.                                                         *)
Statuses == {"solved", "timeout", "GaveUp", "UNKNOWN"}

Answers    == [status : Statuses, runtime : Nat]
RowsStored == [status : Statuses \ {"UNKNOWN"}, runtime : Nat, cutoff : Nat]

(* What a run at cutoff c can report: the wrapper charges every failure    *)
(* the whole cutoff, and parse_solver_output clips what it is told.        *)
Outcomes(k, c) ==
  {[status |-> "solved", runtime |-> t] : t \in {u \in needs[k] : u <= c}}
    \cup (IF \E t \in needs[k] : t > c
          THEN {[status |-> s, runtime |-> c] : s \in {"timeout", "GaveUp"}}
          ELSE {})

Crash(c) == [status |-> "UNKNOWN", runtime |-> c]

Init ==
  /\ needs \in [Keys -> (SUBSET Times) \ {{}}]
  /\ rows = [k \in Keys |-> NoRow]
  /\ at = [p \in Processes |-> "off"]
  /\ cutoff \in [Processes -> Cutoffs]
  /\ disabled \in [Processes -> BOOLEAN]
  /\ key \in [Processes -> Keys]
  /\ answer = [p \in Processes |-> Crash(cutoff[p])]
  /\ concluded = {} /\ opened = {}

Goto(p, place) == at' = [at EXCEPT ![p] = place]

-----------------------------------------------------------------------------
(* A run opens the file, with a cutoff of its own, and leaves it, at its   *)
(* end or by being killed, at any point: what it had not written is lost.  *)

Open(p) ==
  /\ at[p] = "off"
  /\ Goto(p, "idle")
  /\ \E c \in Cutoffs, d \in BOOLEAN :
       /\ cutoff' = [cutoff EXCEPT ![p] = c]
       /\ disabled' = [disabled EXCEPT ![p] = d]
  /\ opened' = opened \cup {p}
  /\ UNCHANGED <<needs, rows, key, answer, concluded>>

Exit(p) ==
  /\ at[p] # "off"
  /\ Goto(p, "off")
  /\ UNCHANGED <<needs, rows, cutoff, disabled, key, answer, histVars>>

-----------------------------------------------------------------------------
(* get_batch                                                               *)

(* Mutant: a timeout answers for every cutoff.                             *)
UsableAlways(row, c) == row # NoRow /\ c \in Nat

(* Whether a row has an answer at cutoff c, and which: a timeout has one   *)
(* for cutoffs up to its own.                                              *)
Usable(row, c) == row # NoRow /\ (row.status = "timeout" => row.cutoff >= c)

(* What had needed longer than c is a timeout at c.                        *)
Adapt(row, c) ==
  IF row.status = "timeout" \/ row.runtime > c
  THEN [status |-> "timeout", runtime |-> c]
  ELSE [status |-> row.status, runtime |-> row.runtime]

(* With cache_disable submit does not ask.                                 *)
Lookup(p, k) ==
  /\ at[p] \in {"idle", "hit"}
  /\ key' = [key EXCEPT ![p] = k]
  /\ IF ~disabled[p] /\ Usable(rows[k], cutoff[p])
     THEN /\ Goto(p, "hit")
          /\ answer' = [answer EXCEPT ![p] = Adapt(rows[k], cutoff[p])]
     ELSE Goto(p, "run") /\ UNCHANGED answer
  /\ UNCHANGED <<needs, rows, cutoff, disabled, histVars>>

-----------------------------------------------------------------------------
(* The solver's run, cache_result and put.                                 *)

(* cache_result puts everything but UNKNOWN.  (A hit is never put: the     *)
(* scheduler sends it as not cacheable.)                                   *)
Run(p) ==
  /\ at[p] = "run"
  /\ \E r \in Outcomes(key[p], cutoff[p]) \cup {Crash(cutoff[p])} :
       /\ answer' = [answer EXCEPT ![p] = r]
       /\ Goto(p, IF r.status = "UNKNOWN" THEN "idle" ELSE "put")
  /\ UNCHANGED <<needs, rows, cutoff, disabled, key, histVars>>

(* Mutant: what ran with the longest cutoff is kept.                       *)
ShouldWriteLongest(row, r, c) ==
  \/ row = NoRow
  \/ c > row.cutoff
  \/ row.status = "timeout" /\ r.status # "timeout"

(* Only a timeout is replaced: by anything else, or by a longer one.       *)
ShouldWrite(row, r, c) ==
  \/ row = NoRow
  \/ row.status = "timeout" /\ (r.status # "timeout" \/ c > row.cutoff)

(* put's SELECT                                                            *)
PutReads(p) ==
  /\ at[p] = "put"
  /\ Goto(p, IF ShouldWrite(rows[key[p]], answer[p], cutoff[p]) THEN "write" ELSE "idle")
  /\ UNCHANGED <<needs, rows, cutoff, disabled, key, answer, histVars>>

(* put's INSERT OR REPLACE                                                 *)
PutWrites(p) ==
  /\ at[p] = "write"
  /\ rows' = [rows EXCEPT ![key[p]] =
                [status |-> answer[p].status, runtime |-> answer[p].runtime,
                 cutoff |-> cutoff[p]]]
  /\ concluded' = concluded \cup {k \in {key[p]} : answer[p].status # "timeout"}
  /\ Goto(p, "idle")
  /\ UNCHANGED <<needs, cutoff, disabled, key, answer, opened>>

Step(p) ==
  \/ Open(p) \/ Exit(p)
  \/ \E k \in Keys : Lookup(p, k)
  \/ Run(p) \/ PutReads(p) \/ PutWrites(p)

Next == \E p \in Processes : Step(p)

Spec == Init /\ [][Next]_vars

-----------------------------------------------------------------------------
(* Properties.                                                             *)

Places == {"off", "idle", "hit", "run", "put", "write"}

(* Types; a result on its way to the table is never an UNKNOWN.            *)
TypeOK ==
  /\ needs \in [Keys -> (SUBSET Times) \ {{}}]
  /\ rows \in [Keys -> RowsStored \cup {NoRow}]
  /\ at \in [Processes -> Places]
  /\ cutoff \in [Processes -> Cutoffs]
  /\ disabled \in [Processes -> BOOLEAN]
  /\ key \in [Processes -> Keys]
  /\ answer \in [Processes -> Answers]
  /\ concluded \subseteq Keys /\ opened \subseteq Processes
  /\ \A p \in Processes : at[p] \in {"put", "write"} => answer[p].status # "UNKNOWN"

(* A give-up served beyond the cutoff it was charged: get_batch compares   *)
(* cutoffs for timeouts only, which REVIEW.md:9-23 records.                *)
Stretched(r, c) == r.status = "GaveUp" /\ r.runtime < c

(* "Cache rows include the execution cutoff, allowing safe reuse"          *)
(* (docs/usage/cli.md:212): what a hit is served as at a cutoff is what a  *)
(* run at that cutoff could have reported, whatever cutoffs the row went   *)
(* through before, stretched give-ups excepted (src/cache.rs:266-318,      *)
(* 409-433).                                                               *)
HitsAreTrue ==
  \A p \in Processes : at[p] = "hit" =>
    \/ answer[p] \in Outcomes(key[p], cutoff[p])
    \/ Stretched(answer[p], cutoff[p])

(* No timeout takes the place of a solved row: "a genuine solved/proved    *)
(* result is kept forever once seen" (src/cache.rs:326-328).                *)
SolvedStays(k) == rows[k].status = "solved" => rows'[k].status # "timeout"

SolvedIsKept == [][\A k \in Keys : SolvedStays(k)]_vars

(* A row is replaced only by a better one: a timeout by a conclusion or by *)
(* a timeout at a longer cutoff (src/cache.rs:320-385).                    *)
RowImproves(k) ==
  rows'[k] # rows[k] =>
    \/ rows[k] = NoRow
    \/ /\ rows[k].status = "timeout"
       /\ rows'[k].status = "timeout" => rows'[k].cutoff > rows[k].cutoff

RowsImprove == [][\A k \in Keys : RowImproves(k)]_vars

(* A row says what its solver can do: how long it may take, or that it may *)
(* take longer than the row's cutoff.                                      *)
RowsAreTrue ==
  \A k \in Keys :
    \/ rows[k] = NoRow
    \/ rows[k].status = "solved" /\ rows[k].runtime \in needs[k]
    \/ /\ rows[k].status \in {"timeout", "GaveUp"}
       /\ rows[k].runtime = rows[k].cutoff
       /\ \E t \in needs[k] : t > rows[k].cutoff

ResultsAreTrue ==
  \A p \in Processes :
    at[p] \in {"put", "write"} => answer[p] \in Outcomes(key[p], cutoff[p])

(* What makes HitsAreTrue inductive.                                       *)
IInv == TypeOK /\ RowsAreTrue /\ ResultsAreTrue /\ HitsAreTrue

Alone == \A p, q \in opened : p = q

(* As long as one tuner has the file to itself, a pair whose conclusion was*)
(* written is never run again by a tuning run that looks it up, whatever   *)
(* cutoffs, crashes and cache_disabled runs (which do not look up but do   *)
(* put) come between (src/cache.rs:266-318, 320-385, 409-433).  With       *)
(* several, SolvedIsKept shows how a conclusion gets lost.                 *)
RunIsNeeded(p) ==
  Alone /\ at[p] \in {"idle", "hit"} /\ at'[p] = "run" /\ ~disabled[p]
    => key'[p] \notin concluded

NoReruns == [][\A p \in Processes : RunIsNeeded(p)]_vars
=============================================================================
