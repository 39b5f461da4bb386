-------------------------- MODULE CheckpointTracker -------------------------
(***************************************************************************)
(* The early verdict of src/ils/futell.rs: while the results of one        *)
(* configuration come in, a replay on virtual workers ("buckets") counts   *)
(* what they solve up to a horizon; once every bucket is busy past it, the *)
(* count is compared with the incumbent's.                                 *)
(*                                                                         *)
(* The tracker and its methods are a record and operators on it.  Around   *)
(* it stand the real workers, which start and end solvers as a clock of    *)
(* whole ticks goes on, the channel of eval.rs, and the collection loop    *)
(* that feeds the tracker, polls it when the channel stays empty and acts  *)
(* on its score.  Capping, reset and the stop conditions are those of      *)
(* LocalSearch; par1, which is only logged, is left out.                   *)
(***************************************************************************)
EXTENDS Integers, FiniteSets, Sequences

CONSTANTS
  Instances,    \* the instances of the evaluation, numbered in their order
  Virtual,      \* future_telling_cores
  Real,         \* how many real workers the scheduler has
  Checkpoint,   \* checkpoint_time, in ticks
  Cutoff,       \* cutoff_time, in ticks
  References,   \* the incumbent's checkpoints considered, maybe None
  Tolerance,    \* future_telling_tolerance, in per cent
  MayBeCached,  \* whether instances may be in the cache
  MayFailEarly, \* whether a solver may fail before the cutoff
  MaxClock      \* bound of the model: the last tick

None == -1

ASSUME InstancesAssumption == Instances \subseteq Nat /\ IsFiniteSet(Instances)

ASSUME TimesAssumption == {Checkpoint, Cutoff, Tolerance, MaxClock} \subseteq Nat

ASSUME ReferencesAssumption == References \subseteq Nat \cup {None}

(* future_telling_active: below this there is no tracker.                  *)
ASSUME ActiveAssumption ==
  {Virtual, Real} \subseteq Nat /\ Cardinality(Instances) > Virtual

ASSUME FlagsAssumption == {MayBeCached, MayFailEarly} \subseteq BOOLEAN

VARIABLES
  clock,     \* the real time
  phase,     \* what became of each instance
  started,   \* when a worker started it
  runtime,   \* the runtime reported for it
  events,    \* the channel
  tracker,   \* the CheckpointTracker
  received,  \* how many results the loop has collected
  reference, \* incumbent_checkpoint
  verdict    \* how the evaluation stands

world    == <<clock, phase, started, runtime>>
consumer == <<tracker, received, verdict>>
vars     == <<world, events, consumer, reference>>

Total   == Cardinality(Instances)
Buckets == 1 .. (IF Virtual = 0 THEN 1 ELSE Virtual)

(* A run is "failed" when it ended unsolved before its time was up.        *)
Phases == {"cached", "queued", "running", "solved", "failed", "timedOut"}

Dispatched(i)   == [kind |-> "dispatched", instance |-> i, time |-> clock]
Completed(i, r) == [kind |-> "completed", instance |-> i, runtime |-> r]

-----------------------------------------------------------------------------
(* The tracker.  A bucket with a dispatch in it has the instance in        *)
(* pending and its relative dispatch time in since.                        *)

NewTracker ==
  [t0       |-> None,
   busy     |-> [b \in Buckets |-> 0],
   pending  |-> [b \in Buckets |-> None],
   since    |-> [b \in Buckets |-> 0],
   assigned |-> [i \in Instances |-> None],
   solved   |-> 0,
   seen     |-> 0,
   ready    |-> FALSE]

(* Mutant: a bucket with a dispatch in it is as good as a free one.        *)
FreeBucketsAny(tr) == Buckets

FreeBuckets(tr) == {b \in Buckets : tr.pending[b] = None}

LeastBusy(tr, S) ==
  CHOOSE b \in S : \A c \in S :
    tr.busy[b] < tr.busy[c] \/ (tr.busy[b] = tr.busy[c] /\ b <= c)

(* Mutant: a bucket is past the horizon when it has reached it.            *)
AllPastHorizonReached(tr, now) ==
  \A b \in Buckets :
    IF tr.pending[b] # None THEN now >= Checkpoint ELSE tr.busy[b] >= Checkpoint

(* No bucket can finish anything more up to the horizon.                   *)
AllPastHorizon(tr, now) ==
  \A b \in Buckets :
    IF tr.pending[b] # None THEN now > Checkpoint ELSE tr.busy[b] > Checkpoint

Refresh(tr, now) ==
  IF tr.seen < Total /\ AllPastHorizon(tr, now)
  THEN [tr EXCEPT !.ready = TRUE]
  ELSE tr

(* Mutant: only events can make the tracker mature.                        *)
PollTrackerNot(tr, now) == tr

PollTracker(tr, now) ==
  IF tr.t0 = None THEN tr ELSE Refresh(tr, now - tr.t0)

Claim(tr, i, rel) ==
  LET free == FreeBuckets(tr)
      b    == LeastBusy(tr, free)
  IN IF free = {} THEN tr
     ELSE [tr EXCEPT !.pending[b] = i, !.since[b] = rel, !.assigned[i] = b]

RecordDispatch(tr, i, time) ==
  LET anchored == [tr EXCEPT !.t0 = IF @ = None THEN time ELSE @]
      rel      == time - anchored.t0
  IN IF tr.ready THEN tr ELSE Refresh(Claim(anchored, i, rel), rel)

(* The bucket a result without a dispatch goes to.                         *)
FallbackBucket(tr) ==
  LeastBusy(tr, IF FreeBuckets(tr) = {} THEN Buckets ELSE FreeBuckets(tr))

Settle(tr, i, b, finish, r) ==
  [tr EXCEPT !.busy[b]     = finish,
             !.pending[b]  = IF tr.assigned[i] = None THEN @ ELSE None,
             !.assigned[i] = None,
             !.solved      = IF finish <= Checkpoint /\ r < Cutoff THEN @ + 1 ELSE @,
             !.seen        = @ + 1]

(* Mutant: the charged runtime of a failed run is taken for time passed.   *)
NowBoundCharged(tr, i, finish, r) == finish

(* Only the runtime of a solved run is time that has passed, and only a    *)
(* tracked one says since when.                                            *)
NowBound(tr, i, finish, r) ==
  IF tr.assigned[i] = None \/ r < Cutoff THEN finish ELSE finish - r

RecordResult(tr, i, r) ==
  LET tracked == tr.assigned[i] # None
      b       == IF tracked THEN tr.assigned[i] ELSE FallbackBucket(tr)
      finish  == (IF tracked THEN tr.since[b] ELSE tr.busy[b]) + r
  IN IF tr.ready THEN tr
     ELSE Refresh(Settle(tr, i, b, finish, r), NowBound(tr, i, finish, r))

Score(tr) == IF tr.ready /\ tr.seen < Total THEN Total - tr.solved ELSE None

Rejects(challenger, incumbent) ==
  100 * challenger > (100 + Tolerance) * incumbent

-----------------------------------------------------------------------------
(* The results of a submission that came from the cache are sent, in the   *)
(* order of the instances, before its misses are offered.                  *)
HitsInOrder(cached, r) ==
  {hits \in [1 .. Cardinality(cached) -> {Completed(i, r[i]) : i \in cached}] :
     \A j, k \in DOMAIN hits : j < k => hits[j].instance < hits[k].instance}

Init ==
  /\ clock = 0
  /\ \E cached \in IF MayBeCached THEN SUBSET Instances ELSE {{}} :
       /\ phase = [i \in Instances |-> IF i \in cached THEN "cached" ELSE "queued"]
       /\ runtime \in {r \in [Instances -> 0 .. Cutoff] :
                         \A i \in Instances \ cached : r[i] = 0}
       /\ events \in HitsInOrder(cached, runtime)
  /\ started = [i \in Instances |-> None]
  /\ tracker = NewTracker
  /\ received = 0
  /\ reference \in References
  /\ verdict = "open"

Tick ==
  /\ verdict = "open"
  /\ clock < MaxClock
  /\ clock' = clock + 1
  /\ UNCHANGED <<phase, started, runtime, events, consumer, reference>>

(* A worker claims an instance, announces it and spawns its solver.        *)
Start(i) ==
  /\ verdict = "open"
  /\ phase[i] = "queued"
  /\ Cardinality({j \in Instances : phase[j] = "running"}) < Real
  /\ phase' = [phase EXCEPT ![i] = "running"]
  /\ started' = [started EXCEPT ![i] = clock]
  /\ events' = Append(events, Dispatched(i))
  /\ UNCHANGED <<clock, runtime, consumer, reference>>

Report(i, as, r) ==
  /\ verdict = "open"
  /\ phase[i] = "running"
  /\ phase' = [phase EXCEPT ![i] = as]
  /\ runtime' = [runtime EXCEPT ![i] = r]
  /\ events' = Append(events, Completed(i, r))
  /\ UNCHANGED <<clock, started, consumer, reference>>

Elapsed(i) == clock - started[i]

Solve(i) == Elapsed(i) < Cutoff /\ Report(i, "solved", Elapsed(i))

(* Every failure is charged the cutoff: the wrapper's own by the protocol, *)
(* a crash by parse_solver_output.  The cutoff itself is the wrapper's     *)
(* business, and it may be late.                                           *)
TimeOut(i) == Elapsed(i) >= Cutoff /\ Report(i, "timedOut", Cutoff)

FailEarly(i) ==
  MayFailEarly /\ Elapsed(i) < Cutoff /\ Report(i, "failed", Cutoff)

TakeDispatched ==
  /\ verdict = "open"
  /\ events # <<>>
  /\ Head(events).kind = "dispatched"
  /\ tracker' = RecordDispatch(tracker, Head(events).instance, Head(events).time)
  /\ events' = Tail(events)
  /\ UNCHANGED <<world, received, reference, verdict>>

(* A whole evaluation wins over what its checkpoint says.                  *)
TakeCompleted ==
  /\ verdict = "open"
  /\ events # <<>>
  /\ Head(events).kind = "completed"
  /\ tracker' = RecordResult(tracker, Head(events).instance, Head(events).runtime)
  /\ received' = received + 1
  /\ events' = Tail(events)
  /\ verdict' =
       CASE received' = Total -> "whole"
         [] received' < Total /\ Score(tracker') # None /\ reference # None
              /\ Rejects(Score(tracker'), reference) -> "rejected"
         [] OTHER -> "open"
  /\ UNCHANGED <<world, reference>>

(* recv_timeout ran out on an empty channel.                               *)
Poll ==
  /\ verdict = "open"
  /\ events = <<>>
  /\ tracker' = PollTracker(tracker, clock)
  /\ UNCHANGED <<world, events, received, reference, verdict>>

Solver(i) == Start(i) \/ Solve(i) \/ TimeOut(i) \/ FailEarly(i)

Next ==
  \/ Tick
  \/ \E i \in Instances : Solver(i)
  \/ TakeDispatched
  \/ TakeCompleted
  \/ Poll

Spec == Init /\ [][Next]_vars

(* The loop goes on: it reads what there is, and polls every half second   *)
(* that brings nothing.  Solvers need not end.                             *)
FairSpec ==
  Spec /\ WF_vars(TakeDispatched) /\ WF_vars(TakeCompleted) /\ WF_vars(Poll)

-----------------------------------------------------------------------------
Trackers ==
  [t0       : Nat \cup {None},
   busy     : [Buckets -> Int],
   pending  : [Buckets -> Instances \cup {None}],
   since    : [Buckets -> Int],
   assigned : [Instances -> Buckets \cup {None}],
   solved   : Nat,
   seen     : Nat,
   ready    : BOOLEAN]

Events ==
  [kind : {"dispatched"}, instance : Instances, time : Nat]
    \cup [kind : {"completed"}, instance : Instances, runtime : Nat]

(* Types; a running solver was started, and not in the future.             *)
TypeOK ==
  /\ clock \in Nat
  /\ phase \in [Instances -> Phases]
  /\ started \in [Instances -> Nat \cup {None}]
  /\ \A i \in Instances : phase[i] = "running" => started[i] \in 0 .. clock
  /\ runtime \in [Instances -> Nat]
  /\ events \in Seq(Events)
  /\ tracker \in Trackers
  /\ received \in Nat
  /\ reference \in References
  /\ verdict \in {"open", "rejected", "whole"}

(* A dispatch is in a bucket exactly when its instance is assigned to it:  *)
(* the expect of record never fails.                                       *)
Settled(tr) ==
  \A b \in Buckets, i \in Instances : tr.pending[b] = i <=> tr.assigned[i] = b

(* The tracker cannot count more than it is given, nor is it ever given    *)
(* more results than there are instances: n_total - solved_count is never  *)
(* below zero.                                                             *)
CountsAreBounded ==
  /\ tracker.solved <= tracker.seen
  /\ tracker.seen <= received
  /\ received <= Total
  /\ verdict = "open" => received < Total

(* An instance is announced once.                                          *)
AnnouncedOnce ==
  /\ \A k \in DOMAIN events : events[k].kind = "dispatched" =>
       /\ phase[events[k].instance] # "queued"
       /\ tracker.assigned[events[k].instance] = None
  /\ \A j, k \in DOMAIN events :
       /\ events[j].kind = "dispatched" /\ events[k].kind = "dispatched"
       /\ events[j].instance = events[k].instance
       => j = k
  /\ \A i \in Instances : phase[i] = "queued" => tracker.assigned[i] = None

(* What holds of the tracker whatever it is fed, strengthened to be        *)
(* inductive.                                                              *)
IInv == TypeOK /\ Settled(tracker) /\ CountsAreBounded /\ AnnouncedOnce

(* The early read is no guess: when the tracker is ready, no run that it   *)
(* still holds in a bucket can end solved within the horizon, neither one  *)
(* that is running nor one whose result is on its way.                     *)
ReadyIsSound ==
  tracker.ready => \A b \in Buckets, i \in Instances : tracker.pending[b] = i =>
    /\ phase[i] = "running" => clock - tracker.t0 > Checkpoint
    /\ phase[i] = "solved"  => tracker.since[b] + runtime[i] > Checkpoint

(* Charged and real time are the same where nothing was cached and no run  *)
(* failed early.                                                           *)
ChargedIsReal == \A i \in Instances : phase[i] \notin {"cached", "failed"}

(* Then the count the verdict is based on is the number of runs that were  *)
(* solved within the horizon in real time, those that start or end after   *)
(* the verdict included.                                                   *)
InTime(i) ==
  /\ phase[i] = "solved"
  /\ started[i] - tracker.t0 + runtime[i] <= Checkpoint

ScoreIsExact ==
  tracker.ready /\ ChargedIsReal
    => tracker.solved = Cardinality({i \in Instances : InTime(i)})

(* Runs that hang cannot keep the tracker from maturing: it does not stay  *)
(* behind a clock by which every bucket is past the horizon, although no   *)
(* event comes to tell.                                                    *)
Overdue ==
  /\ verdict = "open"
  /\ ~tracker.ready
  /\ tracker.t0 # None
  /\ tracker.seen < Total
  /\ AllPastHorizon(tracker, clock - tracker.t0)

OverdueIsNoticed == []<>~Overdue

-----------------------------------------------------------------------------
(* Why the early read is no guess: what the channel and the tracker have   *)
(* to do with the runs while the real workers are no more than the virtual *)
(* ones.                                                                   *)
Ended == {"solved", "failed", "timedOut"}

IsDispatch(k, i) == events[k].kind = "dispatched" /\ events[k].instance = i
IsResult(k, i)   == events[k].kind = "completed" /\ events[k].instance = i

Announced(i) == \E k \in DOMAIN events : IsDispatch(k, i)
Returned(i)  == \E k \in DOMAIN events : IsResult(k, i)

ChannelIsTrue ==
  \A k \in DOMAIN events, i \in Instances :
    /\ IsDispatch(k, i) =>
         phase[i] \in Ended \cup {"running"} /\ events[k].time = started[i]
    /\ IsResult(k, i) =>
         phase[i] \in Ended \cup {"cached"} /\ events[k].runtime = runtime[i]

ChargesAreTrue ==
  \A i \in Instances :
    /\ phase[i] \in Ended => started[i] \in Nat
    /\ phase[i] = "solved" => runtime[i] < Cutoff
    /\ phase[i] \in {"failed", "timedOut"} => runtime[i] = Cutoff

(* An instance has one result, and it comes after its announcement.        *)
ResultsLast ==
  \A j, k \in DOMAIN events, i \in Instances :
    IsResult(k, i) => /\ IsResult(j, i) => j = k
                      /\ IsDispatch(j, i) => j < k

(* The clock of the tracker starts after the last hit.                     *)
HitsFirst ==
  /\ tracker.t0 = None => \A i \in Instances : tracker.assigned[i] = None
  /\ \A k \in DOMAIN events : phase[events[k].instance] = "cached" =>
       /\ tracker.t0 = None
       /\ \A j \in DOMAIN events : j < k => phase[events[j].instance] = "cached"

(* A time that had passed when an event was sent, and the events that tell *)
(* it exactly.                                                             *)
SentAt(k) ==
  IF events[k].kind = "dispatched" THEN events[k].time
  ELSE started[events[k].instance]
         + IF phase[events[k].instance] = "failed" THEN 0 ELSE events[k].runtime

IsExact(k) == events[k].kind = "dispatched" \/ phase[events[k].instance] = "solved"

InOrder ==
  \A k \in DOMAIN events : phase[events[k].instance] # "cached" =>
    /\ SentAt(k) <= clock
    /\ \A m \in DOMAIN events : k < m /\ IsExact(m) => SentAt(k) <= SentAt(m)

(* No run escapes the tracker: what is on a worker, or back with its       *)
(* result not collected, is in a bucket or about to be.                    *)
FollowsRuns ==
  ~tracker.ready => \A i \in Instances :
    tracker.assigned[i] # None \/ Announced(i)
      <=> phase[i] = "running" \/ (phase[i] # "cached" /\ Returned(i))

PendingIsTrue ==
  \A b \in Buckets, i \in Instances : tracker.pending[b] = i =>
    phase[i] \in Ended \cup {"running"} /\ tracker.since[b] = started[i] - tracker.t0

(* The runs the tracker takes for running when it comes to the k-th event  *)
(* are never more than the workers.                                        *)
Open(k) ==
  {i \in Instances :
     /\ tracker.assigned[i] # None \/ \E m \in DOMAIN events : m < k /\ IsDispatch(m, i)
     /\ \A m \in DOMAIN events : m < k => ~IsResult(m, i)}

FewOpen ==
  ~tracker.ready => \A k \in 1 .. Len(events) + 1 : Cardinality(Open(k)) <= Real

TracksRuns ==
  /\ ChannelIsTrue
  /\ ChargesAreTrue
  /\ ResultsLast
  /\ HitsFirst
  /\ InOrder
  /\ FollowsRuns
  /\ PendingIsTrue
  /\ FewOpen
  /\ ReadyIsSound

(* No bucket is ahead of the time, and the count is exact all along: of    *)
(* what was collected before the verdict, of everything after it.          *)
BusyIsPast ==
  ChargedIsReal /\ ~tracker.ready => \A b \in Buckets :
    IF tracker.t0 = None THEN tracker.busy[b] = 0
    ELSE /\ tracker.t0 + tracker.busy[b] <= clock
         /\ \A k \in DOMAIN events : IsExact(k) => tracker.t0 + tracker.busy[b] <= SentAt(k)

CountIsExact ==
  ChargedIsReal =>
    IF tracker.ready
    THEN /\ tracker.t0 # None /\ clock - tracker.t0 > Checkpoint
         /\ tracker.solved = Cardinality({i \in Instances : InTime(i)})
    ELSE /\ tracker.solved = Cardinality({i \in Instances : InTime(i) /\ ~Returned(i)})
         /\ tracker.t0 = None => \A i \in Instances : phase[i] \in Ended => Returned(i)

CountsRuns == TracksRuns /\ BusyIsPast /\ CountIsExact
=============================================================================
