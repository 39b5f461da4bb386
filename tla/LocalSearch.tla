----------------------------- MODULE LocalSearch -----------------------------
(***************************************************************************)
(* The local search of src/ils/bls.rs as a client of the evaluation        *)
(* service: one configuration at a time (SingleConfigCollector), whole     *)
(* neighbourhoods (NeighbourRound), and the descent that chains rounds     *)
(* (basic_local_search), called the way src/ils/mod.rs calls them.  The    *)
(* service is EvalService, which Scheduler implements; its workers go on   *)
(* between any two steps of the ILS thread.                                *)
(*                                                                         *)
(* Scores are kept as exact sums: on equally many instances they compare   *)
(* as the means do, up to the rounding of the code's floats.  What a run   *)
(* costs is drawn when its result is read.                                 *)
(***************************************************************************)
EXTENDS EvalService, Integers, FiniteSets

CONSTANTS
  Probe,         \* the neighbor_id of a single evaluation
  Costs,         \* what a concluded run can cost
  Penalty,       \* what an UNKNOWN run costs
  Pruning,       \* pruning: whether evaluations are capped
  Multiplier,    \* bound_multiplier, counted in
  Unit,          \*   fractions 1 / Unit
  FutureTelling, \* whether checkpoints may reject an evaluation
  MaxBatch,      \* bound of the model: the last batch id
  MayStop,       \* bound of the model: whether deadline and signal may come
  MayFail        \* bound of the model: whether the database may report an error

ASSUME ProbeAssumption == Probe \in Neighbours

ASSUME InstancesAssumption == IsFiniteSet(Instances) /\ Instances # {}

(* adaptive capping's premise: costs are not negative                      *)
ASSUME CostsAssumption == Costs \subseteq Nat /\ Penalty \in Nat

(* Nothing validates bound_multiplier (src/scenario.rs:216-218).           *)
ASSUME MultiplierAssumption ==
  Pruning \in BOOLEAN /\ Multiplier \in Int /\ Unit \in Nat \ {0}

ASSUME NeighboursAssumption == IsFiniteSet(Neighbours)

(* cmd_run gives every instance an id of its own.                          *)
ASSUME ListsAssumption ==
  \A l \in InstanceLists :
    l \in Seq(Instances) /\ \A i, j \in DOMAIN l : l[i] = l[j] => i = j

VARIABLES
  phase,      \* where the ILS thread stands
  mode,       \* "single" or "round": who reads the channel
  toOffer,    \* neighbours still to be submitted
  round,      \* the neighbours of the batch being collected
  got,        \* instances counted for each of them, in order of arrival
  partial,    \* the running sums
  done,       \* neighbours that have their verdict
  nDone,      \* NeighbourRound::n_done
  nid,        \* the neighbour whose result was just counted
  verdict,    \* the neighbour the round accepts
  current,    \* the evaluation the descent stands on
  incumbent,  \* the evaluation of the incumbent
  bound,      \* the incumbent's sum, as evaluations are capped against it
  expired,    \* whether the deadline has passed
  failed,     \* whether an error of the database has ended the run
  unsaved,    \* runs a worker concluded whose result is not in the cache yet
  capped,     \* history: neighbours of the round that capping ended
  untrue      \* history: counted results of processes that were killed

loopVars  == <<phase, mode, toOffer, round, nid, verdict>>
tallyVars == <<got, partial, done, nDone, capped, untrue>>
evalVars  == <<current, incumbent, bound>>
endVars   == <<expired, failed>>
ilsVars   == <<loopVars, tallyVars, evalVars, endVars, unsaved>>
vars      == <<svars, ilsVars>>

NoNeighbour == "none"
NoEval  == [complete |-> FALSE, n |-> 0, sum |-> 0]
NoBound == -1
N == Cardinality(Instances)

ASSUME NoNeighbourAssumption == NoNeighbour \notin Neighbours

(* An evaluation without results scores infinity, which bounds nothing.    *)
BoundFrom(eval) ==
  IF Pruning /\ eval.n > 0 THEN eval.sum ELSE NoBound

Stop == expired \/ interrupted

LSInit ==
  /\ SInit
  /\ phase = "idle" /\ mode = "single"
  /\ toOffer = {} /\ round = {}
  /\ got = [n \in Neighbours |-> <<>>]
  /\ partial = [n \in Neighbours |-> 0]
  /\ done = {} /\ nDone = 0
  /\ nid = NoNeighbour /\ verdict = NoNeighbour
  /\ current = NoEval /\ incumbent = NoEval /\ bound = NoBound
  /\ expired = FALSE /\ failed = FALSE
  /\ unsaved = {}
  /\ capped = {} /\ untrue = {}

-----------------------------------------------------------------------------
(* submit.  Room for the reset that ends the batch is kept below MaxBatch. *)

Submit(S, m) ==
  /\ batchId + 3 <= MaxBatch
  /\ NewBatch
  /\ phase' = "forget" /\ mode' = m
  /\ toOffer' = S /\ round' = S
  /\ got' = [n \in Neighbours |-> <<>>]
  /\ partial' = [n \in Neighbours |-> 0]
  /\ done' = {} /\ nDone' = 0 /\ capped' = {} /\ untrue' = {}
  /\ nid' = NoNeighbour /\ verdict' = NoNeighbour
  /\ UNCHANGED <<endVars, unsaved>>

SubmitForget ==
  /\ phase = "forget"
  /\ Forget
  /\ phase' = "offer"
  /\ UNCHANGED <<mode, toOffer, round, nid, verdict, tallyVars, evalVars,
                 endVars, unsaved>>

SubmitTask(n) ==
  /\ phase = "offer" /\ n \in toOffer
  /\ \E misses, hits \in InstanceLists :
       /\ Items(misses) \cup Items(hits) = Instances
       /\ Accept(n, misses, hits)
  /\ toOffer' = toOffer \ {n}
  /\ phase' = IF toOffer = {n} THEN "head" ELSE "offer"
  /\ UNCHANGED <<mode, round, nid, verdict, tallyVars, evalVars, endVars,
                 unsaved>>

-----------------------------------------------------------------------------
(* An error ends the call it occurs in and the run with it: `?` hands it    *)
(* from submit and from cache_result up to main.                           *)

Fail ==
  /\ MayFail
  /\ failed' = TRUE
  /\ phase' = "idle"

(* submit stops between two tasks: put_strategy or get_batch failed.       *)
SubmitFails ==
  /\ phase = "offer"
  /\ Fail
  /\ UNCHANGED <<svars, mode, toOffer, round, nid, verdict, tallyVars, evalVars,
                 expired, unsaved>>

-----------------------------------------------------------------------------
(* The callers: evaluate a configuration, then descend from it.            *)

(* The first evaluation has no incumbent to be capped against; the others  *)
(* are not begun once the run is to stop.                                  *)
Evaluate ==
  /\ phase = "idle"
  /\ ~failed /\ (batchId = 0 \/ ~Stop)
  /\ Submit({Probe}, "single")
  /\ bound' = BoundFrom(incumbent)
  /\ UNCHANGED <<current, incumbent>>

(* SingleConfigCollector::finish.  The first evaluation becomes the        *)
(* incumbent's (RunState::new).  A descent starts from an evaluation unless*)
(* it was a restart's or the run is to stop.                               *)
Evaluated ==
  /\ phase = "evaluated"
  /\ LET eval == [complete |-> Len(got[Probe]) >= N, n |-> Len(got[Probe]),
                  sum |-> partial[Probe]] IN
     /\ incumbent' = IF batchId = 1 THEN eval ELSE incumbent
     /\ \/ phase' = "descend" /\ current' = eval
        \/ phase' = "idle" /\ current' = NoEval /\ batchId # 1
  /\ bound' = BoundFrom(incumbent')
  /\ UNCHANGED <<svars, mode, toOffer, round, nid, verdict, tallyVars, endVars,
                 unsaved>>

(* One iteration of basic_local_search, on a neighbourhood of any size.    *)
Descend ==
  /\ phase = "descend"
  /\ ~Stop
  /\ \E S \in (SUBSET Neighbours) \ {{}} : Submit(S, "round")
  /\ UNCHANGED evalVars

(* try_promote_incumbent when the descent has returned.                    *)
Return ==
  /\ phase \in {"descend", "return"}
  /\ incumbent' = IF current.complete /\ current.sum < incumbent.sum
                  THEN current ELSE incumbent
  /\ phase' = "idle"
  /\ current' = NoEval
  /\ UNCHANGED <<svars, mode, toOffer, round, nid, verdict, tallyVars, bound,
                 endVars, unsaved>>

(* The end of run, or the unwinding of an error: dropping the Scheduler    *)
(* resets it first.                                                        *)
Finished ==
  /\ phase = "idle"
  /\ NewBatch
  /\ phase' = "dropping"
  /\ UNCHANGED <<mode, toOffer, round, nid, verdict, tallyVars, evalVars,
                 endVars, unsaved>>

Dropped ==
  /\ phase = "dropping"
  /\ Close
  /\ phase' = "over"
  /\ UNCHANGED <<mode, toOffer, round, nid, verdict, tallyVars, evalVars,
                 endVars, unsaved>>

-----------------------------------------------------------------------------
(* The collection loops.                                                   *)

(* reset; the drain that follows it starts with the next step.             *)
ResetService ==
  /\ NewBatch
  /\ phase' = "drain"

AllDone == IF mode = "round" THEN nDone >= Cardinality(round)
           ELSE Len(got[Probe]) >= N

(* Mutant: only results are waited for.                                    *)
LoopHeadNoStop ==
  /\ phase = "head"
  /\ IF ~AllDone
     THEN phase' = "recv" /\ UNCHANGED svars
     ELSE IF mode = "round" THEN ResetService
     ELSE phase' = "evaluated" /\ UNCHANGED svars
  /\ UNCHANGED <<mode, toOffer, round, nid, verdict, tallyVars, evalVars,
                 endVars, unsaved>>

(* A round that is over resets; a single evaluation just leaves.           *)
LoopHead ==
  /\ phase = "head"
  /\ IF ~(AllDone \/ Stop)
     THEN phase' = "recv" /\ UNCHANGED svars
     ELSE IF mode = "round" THEN ResetService
     ELSE phase' = "evaluated" /\ UNCHANGED svars
  /\ UNCHANGED <<mode, toOffer, round, nid, verdict, tallyVars, evalVars,
                 endVars, unsaved>>

(* recv_timeout gives up after half a second.                              *)
RecvTimeout ==
  /\ phase = "recv" /\ events = <<>>
  /\ phase' = "head"
  /\ UNCHANGED <<svars, mode, toOffer, round, nid, verdict, tallyVars,
                 evalVars, endVars, unsaved>>

TakeDispatched ==
  /\ phase = "recv" /\ events # <<>> /\ Head(events).kind = "Dispatched"
  /\ ReadEvent
  /\ phase' = "head"
  /\ UNCHANGED <<mode, toOffer, round, nid, verdict, tallyVars, evalVars,
                 endVars, unsaved>>

(* Mutants: the batch, or the verdict, is not looked at.                   *)
CountsAnyBatch(e) == e.run[2] \in round \ done

CountsAfterVerdict(e) == e.run[1] = batchId /\ e.run[2] \in round

(* Of this batch, of a neighbour of it, and not after the verdict.         *)
Counts(e) ==
  /\ e.run[1] = batchId
  /\ e.run[2] \in round \ done

ToCache(e) == e.cacheable /\ e.status # "UNKNOWN"

(* Mutant: only what counts is written.                                    *)
CachesCounted(e) ==
  unsaved' = IF ToCache(e) /\ Counts(e) THEN unsaved \ {e.run} ELSE unsaved

(* cache_result: what a solver run concluded is written to the cache.      *)
CacheResult(e) == unsaved' = IF ToCache(e) THEN unsaved \ {e.run} ELSE unsaved

(* The write failed: the event is taken, and its result is lost.           *)
WriteFails ==
  /\ phase \in {"recv", "drain"} /\ events # <<>>
  /\ Head(events).kind = "Completed" /\ ToCache(Head(events))
  /\ ReadEvent
  /\ Fail
  /\ UNCHANGED <<mode, toOffer, round, nid, verdict, tallyVars, evalVars,
                 expired, unsaved>>

CostOf(e) == IF e.status = "UNKNOWN" THEN {Penalty} ELSE Costs

SkipResult ==
  /\ phase = "recv" /\ events # <<>>
  /\ LET e == Head(events) IN
     e.kind = "Completed" /\ ~Counts(e) /\ CacheResult(e)
  /\ ReadEvent
  /\ phase' = "head"
  /\ UNCHANGED <<mode, toOffer, round, nid, verdict, tallyVars, evalVars,
                 endVars>>

(* accumulate                                                              *)
CountResult ==
  /\ phase = "recv" /\ events # <<>>
  /\ LET e == Head(events)
         n == e.run[2] IN
     /\ e.kind = "Completed" /\ Counts(e) /\ CacheResult(e)
     /\ got' = [got EXCEPT ![n] = Append(@, e.run[3])]
     /\ \E c \in CostOf(e) : partial' = [partial EXCEPT ![n] = @ + c]
     /\ untrue' = IF e.killed THEN untrue \cup {e.run} ELSE untrue
     /\ nid' = n
  /\ ReadEvent
  /\ phase' = "judge"
  /\ UNCHANGED <<mode, toOffer, round, verdict, done, nDone, capped, evalVars,
                 endVars>>

-----------------------------------------------------------------------------
(* What one more result means: capped, complete, rejected, or go on.       *)

(* Mutant: the mean so far against the bound.                              *)
MeanOverBudget ==
  bound # NoBound /\ Unit * partial[nid] * N > Multiplier * bound * Len(got[nid])

OverBudget == bound # NoBound /\ Unit * partial[nid] > Multiplier * bound

(* Mutant: not counted.                                                    *)
MarkDoneUncounted == done' = done \cup {nid} /\ UNCHANGED nDone

MarkDone ==
  /\ done' = done \cup {nid}
  /\ nDone' = nDone + 1

(* cancel_neighbor for one of a round, reset for a single evaluation.      *)
GiveUpOn ==
  IF mode = "round" THEN MarkDone /\ CallOff(nid) /\ phase' = "head"
  ELSE ResetService /\ UNCHANGED <<done, nDone>>

CheckCapping ==
  /\ phase = "judge" /\ OverBudget
  /\ GiveUpOn
  /\ capped' = capped \cup {nid}
  /\ UNCHANGED <<mode, toOffer, round, nid, verdict, got, partial, untrue,
                 evalVars, endVars, unsaved>>

(* Mutant: a tie is taken for an improvement.                              *)
TiesCurrent == ~current.complete \/ partial[nid] <= current.sum

BeatsCurrent == ~current.complete \/ partial[nid] < current.sum

(* Full completion: the first neighbour that improves ends the round.      *)
Complete ==
  /\ phase = "judge" /\ mode = "round" /\ ~OverBudget
  /\ Len(got[nid]) = N
  /\ MarkDone
  /\ IF BeatsCurrent
     THEN ResetService /\ verdict' = nid
     ELSE phase' = "head" /\ UNCHANGED <<svars, verdict>>
  /\ UNCHANGED <<mode, toOffer, round, nid, got, partial, capped, untrue,
                 evalVars, endVars, unsaved>>

(* The checkpoint may have matured and be worse than the incumbent's.      *)
CheckFutureTelling ==
  /\ phase = "judge" /\ ~OverBudget
  /\ FutureTelling /\ incumbent # NoEval
  /\ Len(got[nid]) # N
  /\ GiveUpOn
  /\ UNCHANGED <<mode, toOffer, round, nid, verdict, got, partial, capped,
                 untrue, evalVars, endVars, unsaved>>

KeepCollecting ==
  /\ phase = "judge" /\ ~OverBudget
  /\ mode = "single" \/ Len(got[nid]) # N
  /\ phase' = "head"
  /\ UNCHANGED <<svars, mode, toOffer, round, nid, verdict, tallyVars,
                 evalVars, endVars, unsaved>>

(* drain_and_cache_writeback                                               *)
Drain ==
  /\ phase = "drain" /\ events # <<>>
  /\ LET e == Head(events) IN
     IF e.kind = "Completed" THEN CacheResult(e) ELSE UNCHANGED unsaved
  /\ ReadEvent
  /\ UNCHANGED <<loopVars, tallyVars, evalVars, endVars>>

(* The descent moves to the accepted neighbour; without one it returns.    *)
Drained ==
  /\ phase = "drain" /\ events = <<>>
  /\ IF mode = "single" THEN phase' = "evaluated" /\ UNCHANGED current
     ELSE IF verdict = NoNeighbour THEN phase' = "return" /\ UNCHANGED current
     ELSE /\ current' = [complete |-> TRUE, n |-> N, sum |-> partial[verdict]]
          /\ phase' = "descend"
  /\ UNCHANGED <<svars, mode, toOffer, round, nid, verdict, tallyVars,
                 incumbent, bound, endVars, unsaved>>

-----------------------------------------------------------------------------
(* The workers and the environment.                                        *)

(* Only a run the solver concluded has a result to save.                   *)
Work(r) ==
  /\ \/ /\ Begin(r) \/ GiveUp(r) \/ \E k \in BOOLEAN : Finish(r, "UNKNOWN", k)
        /\ UNCHANGED unsaved
     \/ /\ \E k \in BOOLEAN : Finish(r, "line", k)
        /\ unsaved' = IF closed THEN unsaved ELSE unsaved \cup {r}
  /\ UNCHANGED <<loopVars, tallyVars, evalVars, endVars>>

Expire ==
  /\ MayStop /\ ~expired
  /\ expired' = TRUE
  /\ UNCHANGED <<svars, loopVars, tallyVars, evalVars, failed, unsaved>>

Interrupt ==
  /\ MayStop /\ ~interrupted
  /\ Signalled
  /\ UNCHANGED ilsVars

CallStep ==
  \/ SubmitForget \/ SubmitFails \/ \E n \in toOffer : SubmitTask(n)
  \/ Evaluated \/ Descend \/ Return
  \/ LoopHead \/ RecvTimeout \/ TakeDispatched \/ SkipResult \/ CountResult
  \/ CheckCapping \/ Complete \/ CheckFutureTelling \/ KeepCollecting
  \/ Drain \/ Drained \/ WriteFails

Workers == \E r \in owed \cup running : Work(r)

(* After the drop the workers have nothing left to do.                     *)
Over == phase = "over" /\ UNCHANGED vars

Next ==
  \/ CallStep \/ Evaluate \/ Finished \/ Dropped
  \/ Workers
  \/ Expire \/ Interrupt
  \/ Over

Spec == LSInit /\ [][Next]_vars

(* The ILS thread goes on with a call it is in.  Of the solvers nothing is *)
(* expected: they may hang.                                                *)
FairSpec == Spec /\ WF_vars(CallStep)

-----------------------------------------------------------------------------
(* Properties.                                                             *)

(* What a neighbour is judged by are results of its own, one per instance, *)
(* none of an earlier batch and none of a process that was killed          *)
(* (src/ils/bls.rs:454-465): killed runs may still report, and the results *)
(* of a batch may still arrive long after its reset.                       *)
TallyIsTrue ==
  /\ \A n \in round : Cardinality(Items(got[n])) = Len(got[n])
  /\ \A r \in untrue : r[2] \notin round

(* A round that ends without a winner, and not because the run is to stop, *)
(* has decided every neighbour: none was skipped because another was       *)
(* counted twice (src/ils/bls.rs:416-424, 458-463).                        *)
RoundIsDecided ==
  mode = "round" /\ phase \in {"drain", "return"} /\ verdict = NoNeighbour /\ ~Stop =>
    done = round

(* What a worker concluded is in the cache or still on its way there: no   *)
(* verdict, reset or late arrival keeps a result from being written        *)
(* (src/ils/bls.rs:167-193), until the scheduler is dropped or the         *)
(* database has reported an error.                                         *)
NothingLost ==
  ~(closed \/ failed) => \A r \in unsaved : \E k \in DOMAIN events :
               events[k].kind = "Completed" /\ events[k].run = r

(* A configuration that capping ended could not have become the incumbent, *)
(* whatever its other instances had cost (src/ils/bls.rs:535-539): its     *)
(* costs so far already exceed the incumbent's on all of them.  Not so for *)
(* a bound_multiplier below 1, which nothing refuses.                      *)
CappedCannotWin ==
  Multiplier >= Unit /\ mode = "round" /\ phase # "idle" =>
    \A n \in capped : partial[n] >= incumbent.sum

(* The descent moves only to fully measured neighbours, and from one it    *)
(* measured whole only to a strictly better one, so that it cannot run in  *)
(* circles on a plateau (src/ils/bls.rs:43-48, 590-636).                   *)
StepImproves ==
  phase = "drain" /\ phase' = "descend" =>
    /\ current'.complete /\ Items(got[verdict]) = Instances
    /\ current.complete => current'.sum < current.sum

StepsImprove == [][StepImproves]_vars

(* What is wanted comes to an end: what Scheduler's WantedCompletes says   *)
(* when wrappers terminate.                                                *)
RunsEnd == []<>(\A r \in owed \cup running : CalledOff(TaskOf(r)))

(* A call returns although no deadline comes, if only the runs that are    *)
(* still wanted end: every neighbour gets its verdict, because the service *)
(* reports each of those runs (src/ils/bls.rs:404-479, 829-884).           *)
CallsReturn == RunsEnd => (phase # "idle" ~> phase \in {"idle", "over", "dropping"})

(* Once the deadline has passed or a signal has come, a call returns though*)
(* no solver ever ends and no event comes: recv_timeout gives up, and the  *)
(* loops look at the clock and the flag before they wait again             *)
(* (src/ils/bls.rs:416-436, 834-850).                                      *)
StopEndsCall == Stop /\ phase # "idle" ~> phase \in {"idle", "over", "dropping"}

-----------------------------------------------------------------------------
(* What makes the invariants inductive.                                    *)

Phases == {"idle", "forget", "offer", "head", "recv", "judge", "drain", "evaluated",
           "descend", "return", "dropping", "over"}

Collecting == {"forget", "offer", "head", "recv", "judge"}

Evaluations == [complete : BOOLEAN, n : Nat, sum : Nat]

Events ==
  [kind : {"Dispatched"}, run : AllRuns]
    \cup [kind : {"Completed"}, run : AllRuns, status : Statuses,
          cacheable : BOOLEAN, killed : BOOLEAN]

(* Types of the service's variables and of this module's.                  *)
TypeOK ==
  /\ batchId \in Nat /\ cancelled \subseteq Nat \X Neighbours
  /\ owed \subseteq AllRuns /\ running \subseteq AllRuns
  /\ events \in Seq(Events)
  /\ phase \in Phases /\ mode \in {"single", "round"}
  /\ toOffer \subseteq round /\ round \subseteq Neighbours
  /\ got \in [Neighbours -> Seq(Instances)] /\ partial \in [Neighbours -> Nat]
  /\ done \subseteq round
  /\ verdict \in round \cup {NoNeighbour}
  /\ current \in Evaluations /\ incumbent \in Evaluations
  /\ capped \subseteq Neighbours /\ unsaved \subseteq AllRuns

(* The event at k is the result of run r.                                  *)
Reports(k, r) == events[k].kind = "Completed" /\ events[k].run = r

(* A run that was submitted and whose result was not read yet.             *)
Out(r) == r \in owed \cup running \/ \E k \in DOMAIN events : Reports(k, r)

(* No work is of a batch to come.                                          *)
NoneAhead ==
  /\ \A r \in owed \cup running : r[1] <= batchId
  /\ \A k \in DOMAIN events : events[k].run[1] <= batchId
  /\ \A t \in cancelled : t[1] <= batchId

(* A run of the current batch is owed, running, reported once or counted.  *)
OnePlace ==
  \A n \in Neighbours, i \in Instances : LET r == <<batchId, n, i>> IN
    /\ r \in owed => r \notin running
    /\ \A k \in DOMAIN events : Reports(k, r) =>
         /\ r \notin owed \cup running
         /\ \A j \in DOMAIN events : Reports(j, r) => j = k
    /\ Out(r) => i \notin Items(got[n])

(* A neighbour that is still to be offered has no runs yet.                *)
Fresh ==
  phase \in {"forget", "offer"} =>
    /\ \A n \in Neighbours : got[n] = <<>>
    /\ \A n \in toOffer, i \in Instances : ~Out(<<batchId, n, i>>)

(* A result that a signal cut short is of work that was called off.        *)
KilledAreOff ==
  \A k \in DOMAIN events :
    events[k].kind = "Completed" /\ events[k].killed => CalledOff(TaskOf(events[k].run))

OffIsDecided == \A n \in Neighbours : <<batchId, n>> \in cancelled => n \in done

Tally ==
  /\ \A n \in Neighbours : Cardinality(Items(got[n])) = Len(got[n])
  /\ untrue = {}
  /\ nDone = Cardinality(done)
  /\ phase = "judge" => nid \in round \ done

(* How a round ends.                                                       *)
Verdicts ==
  /\ phase \in Collecting => verdict = NoNeighbour
  /\ mode = "round" /\ phase = "drain" /\ verdict # NoNeighbour =>
       Len(got[verdict]) = N /\ (current.complete => partial[verdict] < current.sum)
  /\ RoundIsDecided

(* In a descent the bound is the incumbent's.                              *)
Bounds ==
  /\ phase = "evaluated" => mode = "single"
  /\ phase = "descend" \/ (mode = "round" /\ phase \in Collecting \cup {"drain", "return"})
       => bound = BoundFrom(incumbent)
  /\ Multiplier >= Unit /\ mode = "round" =>
       \A n \in capped : partial[n] >= incumbent.sum

(* What is to be saved is in an event that will be.                        *)
Savable ==
  ~(closed \/ failed) => \A r \in unsaved : \E k \in DOMAIN events :
    Reports(k, r) /\ events[k].cacheable /\ events[k].status # "UNKNOWN"

IInv ==
  /\ TypeOK /\ NoneAhead /\ OnePlace /\ Fresh /\ KilledAreOff /\ OffIsDecided
  /\ Tally /\ Verdicts /\ Bounds /\ Savable
=============================================================================
