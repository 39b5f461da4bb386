----------------------- MODULE CheckpointTrackerProofs ----------------------
(***************************************************************************)
(* What holds of the checkpoint tracker for every number of instances,     *)
(* virtual and real workers, horizon and cutoff.                           *)
(***************************************************************************)
EXTENDS CheckpointTracker, FiniteSetTheorems, WellFoundedInduction, TLAPS

-----------------------------------------------------------------------------
(* The operators on the tracker.                                           *)

LEMMA NoneIsNoInstance == None \notin Instances /\ None \notin Buckets
  BY InstancesAssumption, ActiveAssumption DEF None, Buckets

LEMMA TotalType == Total \in Nat /\ Total > 0
  BY InstancesAssumption, ActiveAssumption, FS_CardinalityType DEF Total

LEMMA BucketsType == Buckets # {} /\ Buckets \subseteq Nat /\ IsFiniteSet(Buckets)
<1>1. PICK n \in Nat \ {0} : n = IF Virtual = 0 THEN 1 ELSE Virtual
  BY ActiveAssumption
<1>2. Buckets = 1 .. n
  BY <1>1 DEF Buckets
<1>3. IsFiniteSet(1 .. n)
  BY FS_Interval
<1>4. 1 \in 1 .. n /\ 1 .. n \subseteq Nat
  OBVIOUS
<1> QED
  BY <1>2, <1>3, <1>4

(* The order LeastBusy goes by, and that it has a first bucket: of the     *)
(* sets of buckets without one a smallest would lose its only candidate.   *)
AtMostAsBusy(tr, b, c) ==
  tr.busy[b] < tr.busy[c] \/ (tr.busy[b] = tr.busy[c] /\ b <= c)

LEMMA LeastBusyType ==
  ASSUME NEW tr \in Trackers, NEW S \in SUBSET Buckets, S # {}
  PROVE  LeastBusy(tr, S) \in S
<1> DEFINE First(T, b) == b \in T /\ \A c \in T : AtMostAsBusy(tr, b, c)
           Without == {T \in SUBSET Buckets : T # {} /\ \A b \in T : ~First(T, b)}
<1>1. \A b \in Buckets : tr.busy[b] \in Int /\ b \in Nat
  BY BucketsType DEF Trackers
<1>2. Without = {}
  <2> SUFFICES ASSUME Without # {} PROVE FALSE
    OBVIOUS
  <2>1. Without \subseteq FiniteSubsetsOf(Buckets)
    BY BucketsType, FS_Subset DEF FiniteSubsetsOf
  <2>2. PICK T \in Without : \A U \in Without : <<U, T>> \notin StrictSubsetOrdering(Buckets)
    <3> HIDE DEF Without
    <3> QED
      BY <2>1, FS_StrictSubsetOrderingWellFounded, WFMin
  <2>3. PICK x \in T : TRUE
    OBVIOUS
  <2>4. T \ {x} \notin Without
    <3>1. T \ {x} \subseteq T /\ T \ {x} # T /\ T \in SUBSET Buckets
      BY <2>3
    <3>2. <<T \ {x}, T>> \in StrictSubsetOrdering(Buckets)
      BY <3>1 DEF StrictSubsetOrdering
    <3> QED
      BY <2>2, <3>2
  <2>5. CASE T = {x}
    BY <1>1, <2>2, <2>5 DEF AtMostAsBusy
  <2>6. CASE T # {x}
    <3>1. PICK y \in T \ {x} : First(T \ {x}, y)
      BY <2>4, <2>6
    <3>2. x \in Buckets /\ y \in Buckets
      BY <2>3, <3>1
    <3>3. CASE AtMostAsBusy(tr, y, x)
      BY <2>2, <3>1, <3>3
    <3>4. CASE ~AtMostAsBusy(tr, y, x)
      <4>1. \A c \in T : AtMostAsBusy(tr, x, c)
        BY <1>1, <3>1, <3>2, <3>4 DEF AtMostAsBusy
      <4> QED
        BY <2>2, <2>3, <4>1
    <3> QED
      BY <3>3, <3>4
  <2> QED
    BY <2>5, <2>6
<1>3. \E b \in S : \A c \in S : AtMostAsBusy(tr, b, c)
  BY <1>2
<1> QED
  BY <1>3 DEF LeastBusy, AtMostAsBusy

(* Refresh decides ready and touches nothing else.                         *)
LEMMA RefreshReady ==
  ASSUME NEW tr \in Trackers, NEW now
  PROVE  Refresh(tr, now) \in {tr, [tr EXCEPT !.ready = TRUE]}
BY DEF Refresh

LEMMA RefreshFields ==
  ASSUME NEW tr \in Trackers, NEW now, Settled(tr)
  PROVE  LET n == Refresh(tr, now)
         IN  /\ n \in Trackers
             /\ Settled(n)
             /\ n.t0 = tr.t0 /\ n.assigned = tr.assigned
             /\ n.solved = tr.solved /\ n.seen = tr.seen
<1>1. CASE Refresh(tr, now) = tr
  BY <1>1
<1>2. CASE Refresh(tr, now) = [tr EXCEPT !.ready = TRUE]
  <2>1. PICK n : n = [tr EXCEPT !.ready = TRUE]
    OBVIOUS
  <2>2. /\ n \in Trackers
        /\ n.t0 = tr.t0 /\ n.assigned = tr.assigned /\ n.pending = tr.pending
        /\ n.solved = tr.solved /\ n.seen = tr.seen
    BY <2>1 DEF Trackers
  <2>3. Settled(n)
    BY <2>2 DEF Settled
  <2> QED
    BY <1>2, <2>1, <2>2, <2>3
<1> QED
  BY <1>1, <1>2, RefreshReady

(* A dispatch takes at most one free bucket, for its own instance.         *)
LEMMA RecordDispatchKeeps ==
  ASSUME NEW tr \in Trackers, Settled(tr), NEW i \in Instances,
         tr.assigned[i] = None, NEW time \in Nat
  PROVE  LET n == RecordDispatch(tr, i, time)
         IN  /\ n \in Trackers
             /\ Settled(n)
             /\ n.solved = tr.solved /\ n.seen = tr.seen
             /\ \A j \in Instances \ {i} : n.assigned[j] = tr.assigned[j]
<1> DEFINE at  == [tr EXCEPT !.t0 = IF @ = None THEN time ELSE @]
           rel == time - at.t0
           b   == LeastBusy(at, FreeBuckets(at))
           cl  == Claim(at, i, rel)
<1>1. at \in Trackers /\ at.t0 \in Nat /\ rel \in Int
  BY DEF Trackers, None
<1>2. /\ at.pending = tr.pending /\ at.assigned = tr.assigned
      /\ at.solved = tr.solved /\ at.seen = tr.seen
  BY DEF Trackers
<1>3. cl \in Trackers /\ Settled(cl) /\ cl.solved = tr.solved /\ cl.seen = tr.seen
      /\ \A j \in Instances \ {i} : cl.assigned[j] = tr.assigned[j]
  <2>1. CASE FreeBuckets(at) = {}
    BY <1>1, <1>2, <2>1 DEF Claim, Settled
  <2>2. CASE FreeBuckets(at) # {}
    <3> HIDE DEF at, rel
    <3>1. b \in Buckets /\ at.pending[b] = None
      BY <1>1, <2>2, LeastBusyType DEF FreeBuckets
    <3> HIDE DEF b
    <3>2. cl = [at EXCEPT !.pending[b] = i, !.since[b] = rel, !.assigned[i] = b]
      BY <2>2 DEF Claim, b
    <3> HIDE DEF cl
    <3>3. /\ cl \in Trackers /\ cl.solved = at.solved /\ cl.seen = at.seen
          /\ cl.pending = [at.pending EXCEPT ![b] = i]
          /\ cl.assigned = [at.assigned EXCEPT ![i] = b]
      BY <1>1, <3>1, <3>2 DEF Trackers
    <3>4. Settled(cl)
      BY <1>1, <1>2, <3>1, <3>3, NoneIsNoInstance DEF Settled, Trackers
    <3> QED
      BY <1>1, <1>2, <3>3, <3>4 DEF Trackers
  <2> QED
    BY <2>1, <2>2
<1>4. RecordDispatch(tr, i, time) = IF tr.ready THEN tr ELSE Refresh(cl, rel)
  BY DEF RecordDispatch
<1> HIDE DEF cl, rel
<1> QED
  BY <1>3, <1>4, RefreshFields

(* A result settles its own bucket or none, and is counted at most once.   *)
LEMMA RecordResultKeeps ==
  ASSUME NEW tr \in Trackers, Settled(tr), NEW i \in Instances, NEW r \in Nat
  PROVE  LET n == RecordResult(tr, i, r)
         IN  /\ n \in Trackers
             /\ Settled(n)
             /\ \/ n.solved = tr.solved /\ n.seen = tr.seen
                \/ n.solved \in {tr.solved, tr.solved + 1} /\ n.seen = tr.seen + 1
             /\ \A j \in Instances : n.assigned[j] \in {tr.assigned[j], None}
<1> DEFINE b      == IF tr.assigned[i] # None THEN tr.assigned[i] ELSE FallbackBucket(tr)
           finish == (IF tr.assigned[i] # None THEN tr.since[b] ELSE tr.busy[b]) + r
           st     == Settle(tr, i, b, finish, r)
<1>1. b \in Buckets
  BY BucketsType, LeastBusyType DEF FallbackBucket, FreeBuckets, Trackers
<1>2. tr.assigned[i] # None => b = tr.assigned[i]
  OBVIOUS
<1> HIDE DEF b
<1>3. finish \in Int
  BY <1>1 DEF Trackers
<1>4. RecordResult(tr, i, r)
        = IF tr.ready THEN tr ELSE Refresh(st, NowBound(tr, i, finish, r))
  BY DEF RecordResult, b
<1> HIDE DEF finish
<1>5. /\ st \in Trackers
      /\ st.seen = tr.seen + 1 /\ st.solved \in {tr.solved, tr.solved + 1}
      /\ st.pending = [tr.pending EXCEPT ![b] = IF tr.assigned[i] = None THEN @ ELSE None]
      /\ st.assigned = [tr.assigned EXCEPT ![i] = None]
  <2>1. PICK s \in {tr.solved, tr.solved + 1} :
          s = IF finish <= Checkpoint /\ r < Cutoff THEN tr.solved + 1 ELSE tr.solved
    OBVIOUS
  <2>2. PICK q \in Instances \cup {None} :
          q = IF tr.assigned[i] = None THEN tr.pending[b] ELSE None
    BY <1>1 DEF Trackers
  <2>3. st = [tr EXCEPT !.busy[b] = finish, !.pending[b] = q, !.assigned[i] = None,
                        !.solved = s, !.seen = @ + 1]
    BY <2>1, <2>2 DEF Settle
  <2>4. /\ s \in Nat /\ tr.seen + 1 \in Nat
        /\ tr.busy \in [Buckets -> Int] /\ tr.pending \in [Buckets -> Instances \cup {None}]
        /\ tr.assigned \in [Instances -> Buckets \cup {None}]
    BY DEF Trackers
  <2> HIDE DEF st
  <2>5. /\ st.busy = [tr.busy EXCEPT ![b] = finish]
        /\ st.pending = [tr.pending EXCEPT ![b] = q]
        /\ st.assigned = [tr.assigned EXCEPT ![i] = None]
        /\ st.solved = s /\ st.seen = tr.seen + 1
    BY <2>3 DEF Trackers
  <2>6. /\ st.busy \in [Buckets -> Int]
        /\ st.pending \in [Buckets -> Instances \cup {None}]
        /\ st.assigned \in [Instances -> Buckets \cup {None}]
    BY <1>1, <1>3, <2>4, <2>5
  <2>7. st \in Trackers
    BY <2>3, <2>4, <2>5, <2>6 DEF Trackers
  <2> QED
    BY <2>1, <2>2, <2>5, <2>7
<1> HIDE DEF st
<1>6. Settled(st)
  <2>1. CASE tr.assigned[i] = None
    BY <1>5, <2>1 DEF Settled, Trackers
  <2>2. CASE tr.assigned[i] # None
    BY <1>1, <1>2, <1>5, <2>2, NoneIsNoInstance DEF Settled, Trackers
  <2> QED
    BY <2>1, <2>2
<1>7. \A j \in Instances : st.assigned[j] \in {tr.assigned[j], None}
  BY <1>5 DEF Trackers
<1>8. CASE tr.ready
  BY <1>4, <1>8
<1>9. CASE ~tr.ready
  <2>1. PICK now : RecordResult(tr, i, r) = Refresh(st, now)
    BY <1>4, <1>9
  <2>2. LET n == Refresh(st, now)
        IN  /\ n \in Trackers /\ Settled(n)
            /\ n.assigned = st.assigned /\ n.solved = st.solved /\ n.seen = st.seen
    BY <1>5, <1>6, RefreshFields
  <2> QED
    BY <1>5, <1>7, <2>1, <2>2
<1> QED
  BY <1>8, <1>9

LEMMA PollTrackerKeeps ==
  ASSUME NEW tr \in Trackers, Settled(tr), NEW now \in Nat
  PROVE  LET n == PollTracker(tr, now)
         IN  /\ n \in Trackers
             /\ Settled(n)
             /\ n.solved = tr.solved /\ n.seen = tr.seen
             /\ n.assigned = tr.assigned
BY RefreshFields DEF PollTracker

-----------------------------------------------------------------------------
(* The specification.                                                      *)

LEMMA InitInv == Init => IInv
<1> SUFFICES ASSUME Init PROVE IInv
  OBVIOUS
<1>1. PICK cached \in SUBSET Instances :
        /\ phase = [i \in Instances |-> IF i \in cached THEN "cached" ELSE "queued"]
        /\ runtime \in [Instances -> 0 .. Cutoff]
        /\ events \in HitsInOrder(cached, runtime)
  BY DEF Init
<1>2. /\ \A i \in cached : Completed(i, runtime[i]) \in Events
      /\ \A i \in cached : Completed(i, runtime[i]).kind = "completed"
  BY <1>1 DEF Completed, Events
<1>3. Cardinality(cached) \in Nat
  BY InstancesAssumption, FS_Subset, FS_CardinalityType
<1>4. events \in Seq(Events) /\ \A k \in DOMAIN events : events[k].kind = "completed"
  BY <1>1, <1>2, <1>3 DEF HitsInOrder
<1>5. tracker \in Trackers /\ Settled(tracker) /\ tracker.solved = 0 /\ tracker.seen = 0
      /\ \A i \in Instances : tracker.assigned[i] = None
  BY NoneIsNoInstance DEF Init, NewTracker, Trackers, Settled
<1>6. TypeOK
  BY <1>1, <1>4, <1>5, TimesAssumption DEF Init, TypeOK, Phases
<1>7. CountsAreBounded
  BY <1>5, TotalType DEF Init, CountsAreBounded
<1>8. AnnouncedOnce
  BY <1>4, <1>5 DEF AnnouncedOnce
<1> QED
  BY <1>5, <1>6, <1>7, <1>8 DEF IInv

LEMMA TickInv == IInv /\ Tick => IInv'
BY DEF IInv, Tick, consumer, TypeOK, Settled, CountsAreBounded, AnnouncedOnce

LEMMA StartInv ==
  ASSUME IInv, NEW i \in Instances, Start(i)
  PROVE  IInv'
<1>1. /\ Dispatched(i) \in Events /\ Dispatched(i).kind = "dispatched"
      /\ Dispatched(i).instance = i
  BY DEF Dispatched, Events, IInv, TypeOK
<1>2. /\ events' = Append(events, Dispatched(i)) /\ events \in Seq(Events)
      /\ phase' = [phase EXCEPT ![i] = "running"] /\ phase[i] = "queued"
      /\ UNCHANGED <<tracker, received, verdict>>
  BY DEF Start, IInv, TypeOK, consumer
<1>3. TypeOK'
  BY <1>1, <1>2 DEF Start, IInv, TypeOK, consumer, Phases
<1>4. AnnouncedOnce'
  <2>1. \A k \in DOMAIN events' :
          \/ k \in DOMAIN events /\ events'[k] = events[k]
          \/ k = Len(events) + 1 /\ events'[k] = Dispatched(i)
    BY <1>2
  <2>2. \A k \in DOMAIN events : events[k] \in Events /\ events[k].instance \in Instances
    BY <1>2 DEF Events
  <2>3. \A k \in DOMAIN events : events[k].kind = "dispatched" => events[k].instance # i
    BY <1>2 DEF IInv, AnnouncedOnce
  <2>4. \A j \in Instances : phase'[j] = IF j = i THEN "running" ELSE phase[j]
    BY <1>2 DEF IInv, TypeOK
  <2>5. tracker.assigned[i] = None
    BY <1>2 DEF IInv, AnnouncedOnce
  <2> QED
    BY <1>1, <1>2, <2>1, <2>2, <2>3, <2>4, <2>5 DEF IInv, AnnouncedOnce
<1> QED
  BY <1>2, <1>3, <1>4 DEF IInv, Settled, CountsAreBounded

LEMMA ReportInv ==
  ASSUME IInv, NEW i \in Instances, NEW as \in Phases \ {"queued"}, NEW r \in Nat,
         Report(i, as, r)
  PROVE  IInv'
<1>1. Completed(i, r) \in Events /\ Completed(i, r).kind # "dispatched"
  BY DEF Completed, Events
<1>2. /\ events' = Append(events, Completed(i, r)) /\ events \in Seq(Events)
      /\ phase' = [phase EXCEPT ![i] = as]
      /\ UNCHANGED <<tracker, received, verdict>>
  BY DEF Report, IInv, TypeOK, consumer
<1>3. TypeOK'
  <2>1. as \in Phases
    OBVIOUS
  <2>2. phase' \in [Instances -> Phases]
    BY <1>2, <2>1 DEF IInv, TypeOK
  <2>3. runtime' \in [Instances -> Nat]
    BY DEF Report, IInv, TypeOK
  <2>4. events' \in Seq(Events)
    BY <1>1, <1>2
  <2> QED
    BY <2>2, <2>3, <2>4 DEF Report, IInv, TypeOK, consumer
<1>4. AnnouncedOnce'
  <2>1. \A k \in DOMAIN events' :
          \/ k \in DOMAIN events /\ events'[k] = events[k]
          \/ k = Len(events) + 1 /\ events'[k] = Completed(i, r)
    BY <1>2
  <2>2. \A k \in DOMAIN events : events[k].instance \in Instances
    BY <1>2 DEF Events
  <2>3. \A j \in Instances : phase'[j] = "queued" => phase[j] = "queued"
    BY <1>2 DEF IInv, TypeOK
  <2>4. \A k \in DOMAIN events' : events'[k].kind = "dispatched" =>
          k \in DOMAIN events /\ events'[k] = events[k]
    BY <1>1, <2>1
  <2>5. tracker' = tracker
    BY <1>2
  <2>6. \A k \in DOMAIN events' : events'[k].kind = "dispatched" =>
          /\ phase'[events'[k].instance] # "queued"
          /\ tracker'.assigned[events'[k].instance] = None
    BY <2>2, <2>3, <2>4, <2>5 DEF IInv, AnnouncedOnce
  <2>7. \A j \in Instances : phase'[j] = "queued" => tracker'.assigned[j] = None
    BY <2>3, <2>5 DEF IInv, AnnouncedOnce
  <2> QED
    BY <2>4, <2>6, <2>7 DEF IInv, AnnouncedOnce
<1> QED
  BY <1>2, <1>3, <1>4 DEF IInv, Settled, CountsAreBounded

(* Taking the head of the channel leaves the announcements behind it.      *)
LEMMA TailTypes ==
  ASSUME events \in Seq(Events), events # <<>>, events' = Tail(events)
  PROVE  /\ Head(events) \in Events /\ 1 \in DOMAIN events /\ Head(events) = events[1]
         /\ events' \in Seq(Events)
         /\ \A k \in DOMAIN events' :
              k + 1 \in DOMAIN events /\ k \in Nat \ {0} /\ events'[k] = events[k + 1]
OBVIOUS

LEMMA TakeDispatchedInv == IInv /\ TakeDispatched => IInv'
<1> SUFFICES ASSUME IInv, TakeDispatched PROVE IInv'
  OBVIOUS
<1> DEFINE e == Head(events)
<1>1. /\ e \in Events /\ 1 \in DOMAIN events /\ e = events[1]
      /\ events' \in Seq(Events)
      /\ \A k \in DOMAIN events' :
           k + 1 \in DOMAIN events /\ k \in Nat \ {0} /\ events'[k] = events[k + 1]
  BY TailTypes DEF IInv, TypeOK, TakeDispatched
<1>2. e.kind = "dispatched" /\ e.instance \in Instances /\ e.time \in Nat
  BY <1>1 DEF TakeDispatched, Events
<1>3. phase[e.instance] # "queued" /\ tracker.assigned[e.instance] = None
  BY <1>1, <1>2 DEF IInv, AnnouncedOnce
<1>4. /\ tracker' \in Trackers
      /\ Settled(tracker')
      /\ tracker'.solved = tracker.solved /\ tracker'.seen = tracker.seen
      /\ \A j \in Instances \ {e.instance} : tracker'.assigned[j] = tracker.assigned[j]
  <2>1. tracker' = RecordDispatch(tracker, e.instance, e.time)
    BY DEF TakeDispatched
  <2>2. tracker \in Trackers /\ Settled(tracker)
    BY DEF IInv, TypeOK
  <2> HIDE DEF e
  <2> QED
    BY <1>2, <1>3, <2>1, <2>2, RecordDispatchKeeps
<1>5. UNCHANGED <<clock, phase, started, runtime, received, reference, verdict>>
  BY DEF TakeDispatched, world
<1>6. TypeOK'
  BY <1>1, <1>4, <1>5 DEF IInv, TypeOK
<1>7. CountsAreBounded'
  BY <1>4, <1>5 DEF IInv, CountsAreBounded
<1>8. AnnouncedOnce'
  <2>1. \A k \in DOMAIN events' : events'[k].kind = "dispatched" =>
          /\ events'[k].instance \in Instances \ {e.instance}
          /\ phase[events'[k].instance] # "queued"
          /\ tracker.assigned[events'[k].instance] = None
    <3>1. \A k \in DOMAIN events' : events'[k].instance \in Instances
      BY <1>1 DEF Events
    <3> QED
      BY <1>1, <1>2, <3>1 DEF IInv, AnnouncedOnce
  <2>2. \A j, k \in DOMAIN events' :
          /\ events'[j].kind = "dispatched" /\ events'[k].kind = "dispatched"
          /\ events'[j].instance = events'[k].instance
          => j = k
    BY <1>1 DEF IInv, AnnouncedOnce
  <2>3. \A j \in Instances : phase[j] = "queued" =>
          j # e.instance /\ tracker.assigned[j] = None
    BY <1>3 DEF IInv, AnnouncedOnce
  <2> HIDE DEF e
  <2> QED
    BY <1>4, <1>5, <2>1, <2>2, <2>3 DEF AnnouncedOnce
<1> QED
  BY <1>4, <1>6, <1>7, <1>8 DEF IInv

LEMMA TakeCompletedInv == IInv /\ TakeCompleted => IInv'
<1> SUFFICES ASSUME IInv, TakeCompleted PROVE IInv'
  OBVIOUS
<1> DEFINE e == Head(events)
<1>1. /\ e \in Events
      /\ events' \in Seq(Events)
      /\ \A k \in DOMAIN events' :
           k + 1 \in DOMAIN events /\ k \in Nat \ {0} /\ events'[k] = events[k + 1]
  BY TailTypes DEF IInv, TypeOK, TakeCompleted
<1>2. e.kind = "completed" /\ e.instance \in Instances /\ e.runtime \in Nat
  BY <1>1 DEF TakeCompleted, Events
<1>3. /\ tracker' \in Trackers
      /\ Settled(tracker')
      /\ \/ tracker'.solved = tracker.solved /\ tracker'.seen = tracker.seen
         \/ /\ tracker'.solved \in {tracker.solved, tracker.solved + 1}
            /\ tracker'.seen = tracker.seen + 1
      /\ \A j \in Instances : tracker'.assigned[j] \in {tracker.assigned[j], None}
  <2>1. tracker' = RecordResult(tracker, e.instance, e.runtime)
    BY DEF TakeCompleted
  <2>2. tracker \in Trackers /\ Settled(tracker)
    BY DEF IInv, TypeOK
  <2> HIDE DEF e
  <2> QED
    BY <1>2, <2>1, <2>2, RecordResultKeeps
<1>4. UNCHANGED <<clock, phase, started, runtime, reference>> /\ received' = received + 1
  BY DEF TakeCompleted, world
<1>5. verdict = "open" /\ verdict' \in {"open", "rejected", "whole"}
      /\ (verdict' = "open" => received' # Total)
  BY DEF TakeCompleted
<1>6. TypeOK'
  BY <1>1, <1>3, <1>4, <1>5 DEF IInv, TypeOK
<1>7. CountsAreBounded'
  <2>1. /\ tracker.solved \in Nat /\ tracker.seen \in Nat
        /\ tracker'.solved \in Nat /\ tracker'.seen \in Nat
        /\ received \in Nat
    BY <1>3 DEF IInv, TypeOK, Trackers
  <2> QED
    BY <1>3, <1>4, <1>5, <2>1, TotalType DEF IInv, CountsAreBounded
<1>8. AnnouncedOnce'
  <2>1. \A k \in DOMAIN events' : events'[k].instance \in Instances
    BY <1>1 DEF Events
  <2>2. \A k \in DOMAIN events' : events'[k].kind = "dispatched" =>
          /\ phase[events'[k].instance] # "queued"
          /\ tracker'.assigned[events'[k].instance] = None
    BY <1>1, <1>3, <2>1 DEF IInv, AnnouncedOnce
  <2>3. \A j, k \in DOMAIN events' :
          /\ events'[j].kind = "dispatched" /\ events'[k].kind = "dispatched"
          /\ events'[j].instance = events'[k].instance
          => j = k
    BY <1>1 DEF IInv, AnnouncedOnce
  <2>4. \A j \in Instances : phase[j] = "queued" => tracker'.assigned[j] = None
    BY <1>3 DEF IInv, AnnouncedOnce
  <2> QED
    BY <1>4, <2>2, <2>3, <2>4 DEF AnnouncedOnce
<1> QED
  BY <1>3, <1>6, <1>7, <1>8 DEF IInv

LEMMA PollInv == IInv /\ Poll => IInv'
<1> SUFFICES ASSUME IInv, Poll PROVE IInv'
  OBVIOUS
<1>1. /\ tracker' \in Trackers
      /\ Settled(tracker')
      /\ tracker'.solved = tracker.solved /\ tracker'.seen = tracker.seen
      /\ tracker'.assigned = tracker.assigned
  BY PollTrackerKeeps DEF Poll, IInv, TypeOK
<1> QED
  BY <1>1 DEF Poll, world, IInv, TypeOK, CountsAreBounded, AnnouncedOnce

LEMMA NextInv == IInv /\ [Next]_vars => IInv'
<1> SUFFICES ASSUME IInv, [Next]_vars PROVE IInv'
  OBVIOUS
<1>1. CASE UNCHANGED vars
  BY <1>1 DEF vars, world, consumer, IInv, TypeOK, CountsAreBounded, AnnouncedOnce
<1>2. ASSUME NEW i \in Instances, Solver(i) PROVE IInv'
  <2>1. CASE Start(i)
    BY <2>1, StartInv
  <2>2. CASE Solve(i)
    <3>1. phase[i] = "running" /\ Report(i, "solved", Elapsed(i))
      BY <2>2 DEF Solve, Report
    <3>2. Elapsed(i) \in Nat
      BY <3>1 DEF Elapsed, IInv, TypeOK
    <3> QED
      BY <3>1, <3>2, ReportInv DEF Phases
  <2>3. CASE TimeOut(i)
    BY <2>3, ReportInv, TimesAssumption DEF TimeOut, Phases
  <2>4. CASE FailEarly(i)
    BY <2>4, ReportInv, TimesAssumption DEF FailEarly, Phases
  <2> QED
    BY <1>2, <2>1, <2>2, <2>3, <2>4 DEF Solver
<1> QED
  BY <1>1, <1>2, TickInv, TakeDispatchedInv, TakeCompletedInv, PollInv DEF Next

(* Whatever the solvers, the cache and the clock do, the bookkeeping of    *)
(* the tracker holds.                                                      *)
THEOREM Bookkeeping == Spec => []IInv
BY InitInv, NextInv, PTL DEF Spec

(* The expect of record never fails: an assigned instance has its bucket,  *)
(* and a bucket that is occupied has its instance.                         *)
THEOREM AssignedIsPending == Spec => []Settled(tracker)
<1>1. IInv => Settled(tracker)
  BY DEF IInv
<1> QED
  BY <1>1, Bookkeeping, PTL

(* A score is the number of instances that are not known to be solved, and *)
(* there is at least one: the subtraction of unsigned numbers in score     *)
(* never wraps.                                                            *)
THEOREM ScoreIsPositive == Spec => [](Score(tracker) # None => Score(tracker) \in 1 .. Total)
<1>1. IInv => (Score(tracker) # None => Score(tracker) \in 1 .. Total)
  <2> SUFFICES ASSUME IInv, Score(tracker) # None PROVE Score(tracker) \in 1 .. Total
    OBVIOUS
  <2>1. /\ tracker.solved \in Nat /\ tracker.seen \in Nat
        /\ tracker.solved <= tracker.seen
    BY DEF IInv, TypeOK, Trackers, CountsAreBounded
  <2>2. tracker.seen < Total /\ Score(tracker) = Total - tracker.solved
    BY DEF Score
  <2> QED
    BY <2>1, <2>2, TotalType
<1> QED
  BY <1>1, Bookkeeping, PTL

-----------------------------------------------------------------------------
(* The tracker and the runs it follows. Every step of a run sends its      *)
(* event behind the earlier ones; a verdict is taken on what was collected *)
(* so far. That it needs no correction afterwards rests on the order of    *)
(* the channel, and on a free bucket for every run that is announced.      *)

(* What an event says, by its kind.                                        *)
LEMMA EventTypes ==
  ASSUME IInv
  PROVE  /\ events \in Seq(Events) /\ Len(events) \in Nat /\ DOMAIN events = 1 .. Len(events)
         /\ \A k \in DOMAIN events :
              /\ k \in Nat
              /\ events[k].instance \in Instances
              /\ \/ IsDispatch(k, events[k].instance) /\ events[k].time \in Nat
                 \/ IsResult(k, events[k].instance) /\ events[k].runtime \in Nat
              /\ \A i \in Instances : ~(IsDispatch(k, i) /\ IsResult(k, i))
              /\ \A i \in Instances : IsDispatch(k, i) \/ IsResult(k, i) => i = events[k].instance
<1>1. events \in Seq(Events)
  BY DEF IInv, TypeOK
<1>2. \A k \in DOMAIN events : events[k] \in Events /\ k \in Nat
  BY <1>1
<1>3. \A e \in Events : /\ e.instance \in Instances
                        /\ \/ e.kind = "dispatched" /\ e.time \in Nat
                           \/ e.kind = "completed" /\ e.runtime \in Nat
  BY DEF Events
<1> QED
  BY <1>1, <1>2, <1>3 DEF IsDispatch, IsResult

(* Sending an event adds one at the end.                                   *)
LEMMA SendView ==
  ASSUME IInv, NEW e \in Events, events' = Append(events, e),
         NEW n \in Nat, n = Len(events) + 1
  PROVE  /\ DOMAIN events' = DOMAIN events \cup {n} /\ Len(events') = n
         /\ events'[n] = e
         /\ \A k \in DOMAIN events : k < n /\ k \in Nat /\ events'[k] = events[k]
         /\ \A k \in DOMAIN events, i \in Instances :
              (IsDispatch(k, i)' <=> IsDispatch(k, i)) /\ (IsResult(k, i)' <=> IsResult(k, i))
         /\ \A i \in Instances :
              /\ IsDispatch(n, i)' <=> e.kind = "dispatched" /\ e.instance = i
              /\ IsResult(n, i)' <=> e.kind = "completed" /\ e.instance = i
<1>1. /\ DOMAIN events' = DOMAIN events \cup {n} /\ Len(events') = n
      /\ events'[n] = e
      /\ \A k \in DOMAIN events : k < n /\ k \in Nat /\ events'[k] = events[k]
  BY EventTypes
<1>2. \A k \in DOMAIN events, i \in Instances :
        (IsDispatch(k, i)' <=> IsDispatch(k, i)) /\ (IsResult(k, i)' <=> IsResult(k, i))
  BY <1>1 DEF IsDispatch, IsResult
<1>3. \A i \in Instances :
        /\ IsDispatch(n, i)' <=> e.kind = "dispatched" /\ e.instance = i
        /\ IsResult(n, i)' <=> e.kind = "completed" /\ e.instance = i
  BY <1>1 DEF IsDispatch, IsResult
<1> QED
  BY <1>1, <1>2, <1>3

(* Taking the first one moves the others up.                               *)
LEMMA TakeView ==
  ASSUME IInv, events # <<>>, events' = Tail(events)
  PROVE  /\ 1 \in DOMAIN events /\ Head(events) = events[1]
         /\ Len(events) \in Nat \ {0} /\ Len(events') = Len(events) - 1
         /\ \A k \in DOMAIN events' :
              /\ k \in Nat \ {0} /\ k + 1 \in DOMAIN events /\ events'[k] = events[k + 1]
              /\ \A i \in Instances :
                   (IsDispatch(k, i)' <=> IsDispatch(k + 1, i))
                     /\ (IsResult(k, i)' <=> IsResult(k + 1, i))
         /\ \A k \in DOMAIN events : k = 1 \/ (k - 1 \in DOMAIN events' /\ k - 1 + 1 = k)
<1>1. events \in Seq(Events)
  BY EventTypes
<1>2. /\ 1 \in DOMAIN events /\ Head(events) = events[1]
      /\ Len(events) \in Nat \ {0} /\ Len(events') = Len(events) - 1
      /\ DOMAIN events = 1 .. Len(events) /\ DOMAIN events' = 1 .. (Len(events) - 1)
      /\ \A k \in DOMAIN events' :
              /\ k \in Nat \ {0} /\ k + 1 \in DOMAIN events /\ events'[k] = events[k + 1]
  BY <1>1
<1>3. \A k \in DOMAIN events : k = 1 \/ (k - 1 \in DOMAIN events' /\ k - 1 + 1 = k)
  BY <1>2
<1> QED
  BY <1>2, <1>3 DEF IsDispatch, IsResult

(* A set of instances is finite.                                           *)
LEMMA Fewer ==
  ASSUME NEW S \in SUBSET Instances, NEW T \in SUBSET S
  PROVE  /\ IsFiniteSet(S) /\ Cardinality(S) \in Nat
         /\ IsFiniteSet(T) /\ Cardinality(T) \in Nat /\ Cardinality(T) <= Cardinality(S)
BY InstancesAssumption, FS_Subset, FS_CardinalityType

-----------------------------------------------------------------------------

(* The time of an event of a run is a number.                              *)
LEMMA SentAtType ==
  ASSUME IInv, ChannelIsTrue, ChargesAreTrue, NEW k \in DOMAIN events,
         phase[events[k].instance] # "cached"
  PROVE  SentAt(k) \in Int
<1> DEFINE i == events[k].instance
<1>0. i \in Instances
  BY EventTypes
<1>1. CASE IsDispatch(k, i)
  <2>1. events[k].time \in Nat /\ events[k].kind = "dispatched"
    BY <1>1, EventTypes DEF IsDispatch
  <2> QED
    BY <2>1 DEF SentAt
<1>2. CASE IsResult(k, i)
  <2>1. events[k].runtime \in Nat /\ events[k].kind = "completed"
    BY <1>2, EventTypes DEF IsResult
  <2>2. phase[i] \in Ended
    BY <1>0, <1>2 DEF ChannelIsTrue
  <2>3. started[i] \in Nat
    BY <1>0, <2>2 DEF ChargesAreTrue
  <2> QED
    BY <2>1, <2>3 DEF SentAt
<1> QED
  BY <1>1, <1>2, EventTypes

(* Nothing runs, and the channel has the hits alone.                       *)
LEMMA InitTracks == Init => TracksRuns
<1> SUFFICES ASSUME Init PROVE TracksRuns
  OBVIOUS
<1>0. IInv
  BY InitInv
<1>1. PICK cached \in SUBSET Instances :
        /\ phase = [i \in Instances |-> IF i \in cached THEN "cached" ELSE "queued"]
        /\ runtime \in [Instances -> 0 .. Cutoff]
        /\ events \in HitsInOrder(cached, runtime)
  BY DEF Init
<1>2. Cardinality(cached) \in Nat
  BY InstancesAssumption, FS_Subset, FS_CardinalityType
<1>3. /\ DOMAIN events = 1 .. Cardinality(cached)
      /\ \A k \in DOMAIN events : \E i \in cached : events[k] = Completed(i, runtime[i])
      /\ \A j, k \in DOMAIN events : j < k => events[j].instance < events[k].instance
  BY <1>1 DEF HitsInOrder
<1>4. \A k \in DOMAIN events :
        /\ events[k].kind = "completed" /\ events[k].instance \in cached
        /\ events[k].runtime = runtime[events[k].instance]
        /\ phase[events[k].instance] = "cached"
  BY <1>1, <1>3 DEF Completed
<1>5. \A k \in DOMAIN events, i \in Instances :
        ~IsDispatch(k, i) /\ (IsResult(k, i) => i = events[k].instance)
  BY <1>4 DEF IsDispatch, IsResult
<1>6. \A i \in Instances : phase[i] \in {"cached", "queued"}
  BY <1>1
<1>7. /\ \A i \in Instances : tracker.assigned[i] = None
      /\ \A b \in Buckets : tracker.pending[b] = None
      /\ tracker.t0 = None /\ ~tracker.ready
  BY DEF Init, NewTracker
<1>8. ChannelIsTrue
  BY <1>4, <1>5 DEF ChannelIsTrue
<1>9. ChargesAreTrue
  BY <1>6 DEF ChargesAreTrue, Ended
<1>10. ResultsLast
  <2>1. \A j, k \in DOMAIN events : events[j].instance = events[k].instance => j = k
    <3> SUFFICES ASSUME NEW j \in DOMAIN events, NEW k \in DOMAIN events,
                        events[j].instance = events[k].instance
                 PROVE  j = k
      OBVIOUS
    <3>1. events[j].instance \in Nat
      BY <1>4, InstancesAssumption
    <3>2. ~(j < k) /\ ~(k < j)
      BY <1>3, <3>1
    <3> QED
      BY <1>2, <1>3, <3>2
  <2> QED
    BY <1>5, <2>1 DEF ResultsLast
<1>11. HitsFirst
  BY <1>4, <1>7 DEF HitsFirst
<1>12. InOrder
  BY <1>4 DEF InOrder
<1>13. FollowsRuns
  <2>1. \A i \in Instances : ~Announced(i)
    BY <1>5 DEF Announced
  <2>2. \A i \in Instances : Returned(i) => phase[i] = "cached"
    BY <1>4, <1>5 DEF Returned
  <2> QED
    BY <1>6, <1>7, <2>1, <2>2 DEF FollowsRuns
<1>14. PendingIsTrue /\ ReadyIsSound
  BY <1>7, NoneIsNoInstance DEF PendingIsTrue, ReadyIsSound
<1>15. FewOpen
  <2>1. \A k \in 1 .. Len(events) + 1 : Open(k) = {}
    BY <1>5, <1>7 DEF Open
  <2>2. Real \in Nat
    BY ActiveAssumption
  <2> QED
    BY <2>1, <2>2, FS_EmptySet DEF FewOpen
<1> QED
  BY <1>8, <1>9, <1>10, <1>11, <1>12, <1>13, <1>14, <1>15 DEF TracksRuns

(* Time only makes a run that is not back yet longer.                      *)
LEMMA TickTracks == IInv /\ TracksRuns /\ Tick => TracksRuns'
<1> SUFFICES ASSUME IInv, TracksRuns, Tick PROVE TracksRuns'
  OBVIOUS
<1>1. /\ UNCHANGED <<phase, started, runtime, events, tracker>>
      /\ clock' = clock + 1 /\ clock \in Nat
  BY DEF Tick, consumer, IInv, TypeOK
<1>2. /\ ChannelIsTrue' /\ ChargesAreTrue' /\ ResultsLast' /\ HitsFirst'
      /\ PendingIsTrue'
  BY <1>1 DEF TracksRuns, ChannelIsTrue, ChargesAreTrue, ResultsLast, HitsFirst,
              PendingIsTrue, IsDispatch, IsResult
<1>3. FollowsRuns'
  BY <1>1 DEF TracksRuns, FollowsRuns, Announced, Returned, IsDispatch, IsResult
<1>4. FewOpen'
  BY <1>1 DEF TracksRuns, FewOpen, Open, IsDispatch, IsResult
<1>5. InOrder'
  <2>1. \A k \in DOMAIN events : phase[events[k].instance] # "cached" => SentAt(k) \in Int
    BY SentAtType DEF TracksRuns
  <2>2. \A k \in DOMAIN events : SentAt(k)' = SentAt(k) /\ (IsExact(k)' <=> IsExact(k))
    BY <1>1 DEF SentAt, IsExact
  <2> HIDE DEF SentAt, IsExact
  <2> QED
    BY <1>1, <2>1, <2>2 DEF TracksRuns, InOrder
<1>6. ReadyIsSound'
  <2>1. tracker.t0 \in Int
    BY DEF IInv, TypeOK, Trackers, None
  <2>2. clock - tracker.t0 > Checkpoint => clock' - tracker.t0 > Checkpoint
    BY <1>1, <2>1, TimesAssumption
  <2> QED
    BY <1>1, <2>2 DEF TracksRuns, ReadyIsSound
<1> QED
  BY <1>2, <1>3, <1>4, <1>5, <1>6 DEF TracksRuns

(* What is open when the channel is empty: the runs on the workers.        *)
LEMMA OpenRuns ==
  ASSUME IInv, TracksRuns, ~tracker.ready, NEW n \in Nat, n = Len(events) + 1, NEW i \in Open(n)
  PROVE  phase[i] = "running"
<1>1. /\ i \in Instances
      /\ tracker.assigned[i] # None \/ Announced(i)
      /\ ~Returned(i)
  BY EventTypes DEF Open, Announced, Returned
<1> QED
  BY <1>1 DEF TracksRuns, FollowsRuns

(* A longer channel has the same cuts, and one more.                       *)
LEMMA OpenGrows ==
  ASSUME IInv, NEW e \in Events, events' = Append(events, e), UNCHANGED tracker,
         NEW n \in Nat, n = Len(events) + 1
  PROVE  /\ \A k \in 1 .. n : Open(k)' = Open(k)
         /\ Open(n + 1)' \subseteq
              Open(n) \cup {i \in Instances : e.kind = "dispatched" /\ e.instance = i}
<1>1. /\ DOMAIN events' = DOMAIN events \cup {n}
      /\ \A k \in DOMAIN events : k < n /\ k \in Nat
      /\ \A k \in DOMAIN events, i \in Instances :
           (IsDispatch(k, i)' <=> IsDispatch(k, i)) /\ (IsResult(k, i)' <=> IsResult(k, i))
      /\ \A i \in Instances : IsDispatch(n, i)' <=> e.kind = "dispatched" /\ e.instance = i
  BY SendView
<1>2. \A k \in 1 .. n : Open(k)' = Open(k)
  <2> SUFFICES ASSUME NEW k \in 1 .. n PROVE Open(k)' = Open(k)
    OBVIOUS
  <2>1. ~(n < k) /\ k \in Nat
    OBVIOUS
  <2> QED
    BY <1>1, <2>1 DEF Open
<1>3. Open(n + 1)' \subseteq
        Open(n) \cup {i \in Instances : e.kind = "dispatched" /\ e.instance = i}
  <2>1. \A k \in DOMAIN events : k < n /\ k < n + 1
    BY <1>1
  <2> QED
    BY <1>1, <2>1 DEF Open
<1> QED
  BY <1>2, <1>3

(* A worker starts a run.                                                  *)
Starts(i, n) ==
  /\ phase[i] = "queued"
  /\ \A j \in Instances : /\ phase'[j] = IF j = i THEN "running" ELSE phase[j]
                          /\ started'[j] = IF j = i THEN clock ELSE started[j]
  /\ UNCHANGED <<clock, runtime, tracker>>
  /\ clock \in Nat /\ started'[i] \in Nat
  /\ Dispatched(i) \in Events /\ Dispatched(i).kind = "dispatched"
  /\ Dispatched(i).instance = i /\ Dispatched(i).time = clock
  /\ events' = Append(events, Dispatched(i))
  /\ DOMAIN events' = DOMAIN events \cup {n} /\ Len(events') = n
  /\ events'[n] = Dispatched(i)
  /\ \A k \in DOMAIN events : k < n /\ k \in Nat /\ events'[k] = events[k]
  /\ \A k \in DOMAIN events, j \in Instances :
       (IsDispatch(k, j)' <=> IsDispatch(k, j)) /\ (IsResult(k, j)' <=> IsResult(k, j))
  /\ \A j \in Instances : (IsDispatch(n, j)' <=> i = j) /\ ~IsResult(n, j)'
  /\ \A k \in DOMAIN events : /\ events[k].instance \in Instances
                              /\ events[k].instance # i
                              /\ ~IsDispatch(k, i) /\ ~IsResult(k, i)
  /\ \A k \in DOMAIN events : SentAt(k)' = SentAt(k) /\ (IsExact(k)' <=> IsExact(k))
  /\ SentAt(n)' = clock

(* The event of a start, added to the channel.                             *)
LEMMA StartSends ==
  ASSUME IInv, TracksRuns, NEW i \in Instances, Start(i), NEW n \in Nat, n = Len(events) + 1
  PROVE  Starts(i, n)
<1>1. /\ phase[i] = "queued"
      /\ \A j \in Instances : /\ phase'[j] = IF j = i THEN "running" ELSE phase[j]
                              /\ started'[j] = IF j = i THEN clock ELSE started[j]
      /\ UNCHANGED <<clock, runtime, tracker>>
      /\ clock \in Nat /\ started'[i] \in Nat
  BY DEF Start, consumer, IInv, TypeOK
<1>2. /\ Dispatched(i) \in Events /\ Dispatched(i).kind = "dispatched"
      /\ Dispatched(i).instance = i /\ Dispatched(i).time = clock
      /\ events' = Append(events, Dispatched(i))
  BY <1>1 DEF Dispatched, Events, Start
<1>3. /\ DOMAIN events' = DOMAIN events \cup {n} /\ Len(events') = n
      /\ events'[n] = Dispatched(i)
      /\ \A k \in DOMAIN events : k < n /\ k \in Nat /\ events'[k] = events[k]
      /\ \A k \in DOMAIN events, j \in Instances :
           (IsDispatch(k, j)' <=> IsDispatch(k, j)) /\ (IsResult(k, j)' <=> IsResult(k, j))
      /\ \A j \in Instances : (IsDispatch(n, j)' <=> i = j) /\ ~IsResult(n, j)'
  BY <1>2, SendView
<1>4. \A k \in DOMAIN events : /\ events[k].instance \in Instances
                               /\ events[k].instance # i
                               /\ ~IsDispatch(k, i) /\ ~IsResult(k, i)
  BY <1>1, EventTypes DEF TracksRuns, ChannelIsTrue, Ended
<1>5. \A k \in DOMAIN events : SentAt(k)' = SentAt(k) /\ (IsExact(k)' <=> IsExact(k))
  BY <1>1, <1>3, <1>4 DEF SentAt, IsExact
<1>6. SentAt(n)' = clock
  BY <1>1, <1>2, <1>3 DEF SentAt
<1> QED
  BY <1>1, <1>2, <1>3, <1>4, <1>5, <1>6 DEF Starts

(* A start: the run is announced behind every earlier event, and there was *)
(* a worker free for it.                                                   *)
LEMMA StartTracks ==
  ASSUME IInv, TracksRuns, NEW i \in Instances, Start(i)
  PROVE  TracksRuns'
<1>0. PICK n \in Nat : n = Len(events) + 1
  BY EventTypes
<1>s. Starts(i, n)
  BY <1>0, StartSends
<1>1. /\ phase[i] = "queued"
      /\ \A j \in Instances : /\ phase'[j] = IF j = i THEN "running" ELSE phase[j]
                              /\ started'[j] = IF j = i THEN clock ELSE started[j]
      /\ UNCHANGED <<clock, runtime, tracker>>
      /\ clock \in Nat /\ started'[i] \in Nat
  BY <1>s DEF Starts
<1>2. /\ Dispatched(i) \in Events /\ Dispatched(i).kind = "dispatched"
      /\ Dispatched(i).instance = i /\ Dispatched(i).time = clock
      /\ events' = Append(events, Dispatched(i))
  BY <1>s DEF Starts
<1>3. /\ DOMAIN events' = DOMAIN events \cup {n} /\ Len(events') = n
      /\ events'[n] = Dispatched(i)
      /\ \A k \in DOMAIN events : k < n /\ k \in Nat /\ events'[k] = events[k]
      /\ \A k \in DOMAIN events, j \in Instances :
           (IsDispatch(k, j)' <=> IsDispatch(k, j)) /\ (IsResult(k, j)' <=> IsResult(k, j))
      /\ \A j \in Instances : (IsDispatch(n, j)' <=> i = j) /\ ~IsResult(n, j)'
  BY <1>s DEF Starts
<1>4. \A k \in DOMAIN events : /\ events[k].instance \in Instances
                               /\ events[k].instance # i
                               /\ ~IsDispatch(k, i) /\ ~IsResult(k, i)
  BY <1>s DEF Starts
<1>5. ChannelIsTrue'
  BY <1>1, <1>2, <1>3, <1>4 DEF TracksRuns, ChannelIsTrue, Ended
<1>6. ChargesAreTrue'
  BY <1>1 DEF TracksRuns, ChargesAreTrue, Ended
<1>7. ResultsLast'
  BY <1>3, <1>4 DEF TracksRuns, ResultsLast
<1>8. HitsFirst'
  BY <1>1, <1>2, <1>3, <1>4 DEF TracksRuns, HitsFirst
<1>9. InOrder'
  <2>1. \A k \in DOMAIN events : SentAt(k)' = SentAt(k) /\ (IsExact(k)' <=> IsExact(k))
    BY <1>s DEF Starts
  <2>2. SentAt(n)' = clock /\ clock <= clock
    BY <1>s, <1>1 DEF Starts
  <2>3. \A k \in DOMAIN events : phase'[events'[k].instance] = phase[events[k].instance]
    BY <1>1, <1>3, <1>4
  <2>4. \A k \in DOMAIN events' : ~(n < k)
    BY <1>3
  <2> QED
    BY <1>1, <1>3, <2>1, <2>2, <2>3, <2>4 DEF TracksRuns, InOrder
<1>10. FollowsRuns'
  <2> SUFFICES ASSUME ~tracker.ready, NEW j \in Instances
               PROVE  tracker.assigned[j] # None \/ Announced(j)'
                        <=> phase'[j] = "running" \/ (phase'[j] # "cached" /\ Returned(j)')
    BY <1>1 DEF FollowsRuns
  <2>1. (Announced(j)' <=> Announced(j) \/ j = i) /\ (Returned(j)' <=> Returned(j))
    BY <1>3 DEF Announced, Returned
  <2> QED
    BY <1>1, <2>1 DEF TracksRuns, FollowsRuns
<1>11. PendingIsTrue'
  BY <1>1 DEF TracksRuns, PendingIsTrue, Ended
<1>12. ReadyIsSound'
  BY <1>1 DEF TracksRuns, PendingIsTrue, ReadyIsSound, Ended
<1>13. FewOpen'
  <2> SUFFICES ASSUME ~tracker.ready, NEW k \in 1 .. n + 1 PROVE Cardinality(Open(k)') <= Real
    BY <1>1, <1>3 DEF FewOpen
  <2>1. CASE k \in 1 .. n
    BY <1>0, <1>1, <1>2, <2>1, OpenGrows DEF TracksRuns, FewOpen
  <2>2. CASE k = n + 1
    <3> DEFINE Running == {j \in Instances : phase[j] = "running"}
    <3>1. Open(n + 1)' \subseteq Running \cup {i}
      <4>1. Open(n) \subseteq Running
        BY <1>0, OpenRuns DEF Open
      <4>2. Open(n + 1)' \subseteq Open(n) \cup {i}
        BY <1>0, <1>1, <1>2, OpenGrows
      <4> QED
        BY <4>1, <4>2
    <3>2. Cardinality(Running) < Real /\ i \notin Running
      BY <1>1 DEF Start
    <3>3. Cardinality(Running \cup {i}) = Cardinality(Running) + 1
      BY <3>2, Fewer, FS_AddElement
    <3>4. /\ Cardinality(Open(n + 1)') <= Cardinality(Running \cup {i})
          /\ Cardinality(Running) \in Nat /\ Cardinality(Open(n + 1)') \in Nat
      <4>1. Running \cup {i} \in SUBSET Instances
        OBVIOUS
      <4> QED
        BY <3>1, <4>1, Fewer
    <3> QED
      BY <2>2, <3>2, <3>3, <3>4, ActiveAssumption
  <2> QED
    BY <1>3, <2>1, <2>2
<1> QED
  BY <1>5, <1>6, <1>7, <1>8, <1>9, <1>10, <1>11, <1>12, <1>13 DEF TracksRuns

(* The three ways a run ends.                                              *)
RunEnds(i, end, r) ==
  /\ Report(i, end, r)
  /\ \/ end = "solved"   /\ r = clock - started[i] /\ r < Cutoff
     \/ end = "failed"   /\ r = Cutoff
     \/ end = "timedOut" /\ r = Cutoff /\ started[i] + r <= clock

(* A run ends.                                                             *)
Ends(i, end, r, n) ==
  /\ phase[i] = "running" /\ end \in Ended
  /\ \A j \in Instances : /\ phase'[j] = IF j = i THEN end ELSE phase[j]
                          /\ runtime'[j] = IF j = i THEN r ELSE runtime[j]
  /\ UNCHANGED <<clock, started, tracker>>
  /\ clock \in Nat /\ started[i] \in 0 .. clock
  /\ Completed(i, r) \in Events /\ Completed(i, r).kind = "completed"
  /\ Completed(i, r).instance = i /\ Completed(i, r).runtime = r
  /\ events' = Append(events, Completed(i, r))
  /\ DOMAIN events' = DOMAIN events \cup {n} /\ Len(events') = n
  /\ events'[n] = Completed(i, r)
  /\ \A k \in DOMAIN events : k < n /\ k \in Nat /\ events'[k] = events[k]
  /\ \A k \in DOMAIN events, j \in Instances :
       (IsDispatch(k, j)' <=> IsDispatch(k, j)) /\ (IsResult(k, j)' <=> IsResult(k, j))
  /\ \A j \in Instances : (IsResult(n, j)' <=> i = j) /\ ~IsDispatch(n, j)'
  /\ \A k \in DOMAIN events : events[k].instance \in Instances /\ ~IsResult(k, i)
  /\ \A k \in DOMAIN events : /\ SentAt(k)' = SentAt(k)
                              /\ IsExact(k)' <=> IsExact(k)
                              /\ phase'[events'[k].instance] = "cached"
                                   <=> phase[events[k].instance] = "cached"
  /\ SentAt(n)' <= clock /\ (IsExact(n)' => SentAt(n)' = clock)

(* The event of an end, added to the channel.                              *)
LEMMA EndSends ==
  ASSUME IInv, TracksRuns, NEW i \in Instances, NEW end \in Ended, NEW r \in Nat,
         RunEnds(i, end, r), NEW n \in Nat, n = Len(events) + 1
  PROVE  Ends(i, end, r, n)
<1>1. /\ phase[i] = "running" /\ end \in Ended
      /\ \A j \in Instances : /\ phase'[j] = IF j = i THEN end ELSE phase[j]
                              /\ runtime'[j] = IF j = i THEN r ELSE runtime[j]
      /\ UNCHANGED <<clock, started, tracker>>
      /\ clock \in Nat /\ started[i] \in 0 .. clock
  BY DEF RunEnds, Report, Ended, consumer, IInv, TypeOK
<1>2. /\ Completed(i, r) \in Events /\ Completed(i, r).kind = "completed"
      /\ Completed(i, r).instance = i /\ Completed(i, r).runtime = r
      /\ events' = Append(events, Completed(i, r))
  BY <1>1 DEF Completed, Events, RunEnds, Report
<1>3. /\ DOMAIN events' = DOMAIN events \cup {n} /\ Len(events') = n
      /\ events'[n] = Completed(i, r)
      /\ \A k \in DOMAIN events : k < n /\ k \in Nat /\ events'[k] = events[k]
      /\ \A k \in DOMAIN events, j \in Instances :
           (IsDispatch(k, j)' <=> IsDispatch(k, j)) /\ (IsResult(k, j)' <=> IsResult(k, j))
      /\ \A j \in Instances : (IsResult(n, j)' <=> i = j) /\ ~IsDispatch(n, j)'
  BY <1>2, SendView
<1>4. \A k \in DOMAIN events : events[k].instance \in Instances /\ ~IsResult(k, i)
  BY <1>1, EventTypes DEF TracksRuns, ChannelIsTrue, Ended
<1>5. \A k \in DOMAIN events : /\ SentAt(k)' = SentAt(k)
                               /\ IsExact(k)' <=> IsExact(k)
                               /\ phase'[events'[k].instance] = "cached"
                                    <=> phase[events[k].instance] = "cached"
  <2> SUFFICES ASSUME NEW k \in DOMAIN events
               PROVE  /\ SentAt(k)' = SentAt(k)
                      /\ IsExact(k)' <=> IsExact(k)
                      /\ phase'[events'[k].instance] = "cached"
                           <=> phase[events[k].instance] = "cached"
    OBVIOUS
  <2>1. CASE events[k].instance = i
    <3>1. events[k].kind = "dispatched"
      BY <1>4, <2>1, EventTypes DEF IsDispatch
    <3> QED
      BY <1>1, <1>3, <2>1, <3>1 DEF SentAt, IsExact, Ended
  <2>2. CASE events[k].instance # i
    BY <1>1, <1>3, <1>4, <2>2 DEF SentAt, IsExact
  <2> QED
    BY <2>1, <2>2
<1>6. SentAt(n)' = started[i] + IF end = "failed" THEN 0 ELSE r
  BY <1>1, <1>2, <1>3 DEF SentAt
<1>7. SentAt(n)' <= clock /\ (IsExact(n)' => SentAt(n)' = clock)
  <2>1. events'[n].kind = "completed" /\ phase'[events'[n].instance] = end
    BY <1>1, <1>2, <1>3
  <2>2. IsExact(n)' => end = "solved"
    BY <2>1 DEF IsExact
  <2>3. CASE end = "solved"
    BY <1>1, <1>6, <2>3 DEF RunEnds
  <2>4. CASE end = "failed"
    BY <1>1, <1>6, <2>2, <2>4
  <2>5. CASE end = "timedOut" /\ started[i] + r <= clock
    BY <1>1, <1>6, <2>2, <2>5
  <2> QED
    BY <2>3, <2>4, <2>5 DEF RunEnds
<1> QED
  BY <1>1, <1>2, <1>3, <1>4, <1>5, <1>7 DEF Ends

(* What a worker does that is no start.                                    *)
LEMMA SolverEnds ==
  ASSUME IInv, NEW i \in Instances, Solver(i), ~Start(i)
  PROVE  \E end \in Ended, r \in Nat : RunEnds(i, end, r)
<1>1. CASE Solve(i)
  <2>1. phase[i] = "running" /\ Report(i, "solved", Elapsed(i)) /\ Elapsed(i) < Cutoff
    BY <1>1 DEF Solve, Report
  <2>2. Elapsed(i) \in Nat /\ Elapsed(i) = clock - started[i]
    BY <2>1 DEF Elapsed, IInv, TypeOK
  <2>3. RunEnds(i, "solved", Elapsed(i))
    BY <2>1, <2>2 DEF RunEnds
  <2> QED
    BY <2>2, <2>3 DEF Ended
<1>2. CASE TimeOut(i)
  <2>1. phase[i] = "running" /\ Report(i, "timedOut", Cutoff) /\ clock - started[i] >= Cutoff
    BY <1>2 DEF TimeOut, Report, Elapsed
  <2>2. clock \in Nat /\ started[i] \in Nat /\ Cutoff \in Nat
    BY <2>1, TimesAssumption DEF IInv, TypeOK
  <2>3. RunEnds(i, "timedOut", Cutoff)
    BY <2>1, <2>2 DEF RunEnds
  <2> QED
    BY <2>2, <2>3 DEF Ended
<1>3. CASE FailEarly(i)
  <2>1. RunEnds(i, "failed", Cutoff) /\ Cutoff \in Nat
    BY <1>3, TimesAssumption DEF FailEarly, RunEnds
  <2> QED
    BY <2>1 DEF Ended
<1> QED
  BY <1>1, <1>2, <1>3 DEF Solver

(* An end: the run is no longer on a worker, but its result is on its way. *)
LEMMA EndTracks ==
  ASSUME IInv, TracksRuns, NEW i \in Instances, NEW end \in Ended, NEW r \in Nat, RunEnds(i, end, r)
  PROVE  TracksRuns'
<1>0. PICK n \in Nat : n = Len(events) + 1
  BY EventTypes
<1>s. Ends(i, end, r, n)
  BY <1>0, EndSends
<1>1. /\ phase[i] = "running" /\ end \in Ended
      /\ \A j \in Instances : /\ phase'[j] = IF j = i THEN end ELSE phase[j]
                              /\ runtime'[j] = IF j = i THEN r ELSE runtime[j]
      /\ UNCHANGED <<clock, started, tracker>>
      /\ clock \in Nat /\ started[i] \in 0 .. clock
  BY <1>s DEF Ends
<1>2. /\ Completed(i, r) \in Events /\ Completed(i, r).kind = "completed"
      /\ Completed(i, r).instance = i /\ Completed(i, r).runtime = r
      /\ events' = Append(events, Completed(i, r))
  BY <1>s DEF Ends
<1>3. /\ DOMAIN events' = DOMAIN events \cup {n} /\ Len(events') = n
      /\ events'[n] = Completed(i, r)
      /\ \A k \in DOMAIN events : k < n /\ k \in Nat /\ events'[k] = events[k]
      /\ \A k \in DOMAIN events, j \in Instances :
           (IsDispatch(k, j)' <=> IsDispatch(k, j)) /\ (IsResult(k, j)' <=> IsResult(k, j))
      /\ \A j \in Instances : (IsResult(n, j)' <=> i = j) /\ ~IsDispatch(n, j)'
  BY <1>s DEF Ends
<1>4. \A k \in DOMAIN events : events[k].instance \in Instances /\ ~IsResult(k, i)
  BY <1>s DEF Ends
<1>5. ChannelIsTrue'
  BY <1>1, <1>2, <1>3, <1>4 DEF TracksRuns, ChannelIsTrue, Ended
<1>6. ChargesAreTrue'
  BY <1>1 DEF TracksRuns, ChargesAreTrue, Ended, RunEnds
<1>7. ResultsLast'
  BY <1>3, <1>4 DEF TracksRuns, ResultsLast
<1>8. HitsFirst'
  BY <1>1, <1>2, <1>3, <1>4 DEF TracksRuns, HitsFirst, Ended
<1>9. InOrder'
  <2>1. \A k \in DOMAIN events : /\ SentAt(k)' = SentAt(k)
                                 /\ IsExact(k)' <=> IsExact(k)
                                 /\ phase'[events'[k].instance] = "cached"
                                      <=> phase[events[k].instance] = "cached"
    BY <1>s DEF Ends
  <2>3. SentAt(n)' <= clock /\ (IsExact(n)' => SentAt(n)' = clock)
    BY <1>s DEF Ends
  <2>4. \A k \in DOMAIN events' : ~(n < k)
    BY <1>3
  <2> QED
    BY <1>1, <1>3, <2>1, <2>3, <2>4 DEF TracksRuns, InOrder
<1>10. FollowsRuns'
  <2> SUFFICES ASSUME ~tracker.ready, NEW j \in Instances
               PROVE  tracker.assigned[j] # None \/ Announced(j)'
                        <=> phase'[j] = "running" \/ (phase'[j] # "cached" /\ Returned(j)')
    BY <1>1 DEF FollowsRuns
  <2>0. /\ DOMAIN events' = DOMAIN events \cup {n} /\ ~IsDispatch(n, j)' /\ (IsResult(n, j)' <=> i = j)
        /\ \A k \in DOMAIN events :
             (IsDispatch(k, j)' <=> IsDispatch(k, j)) /\ (IsResult(k, j)' <=> IsResult(k, j))
    BY <1>3
  <2>1. Announced(j)' <=> Announced(j)
    BY ONLY <2>0 DEF Announced
  <2>2. Returned(j)' <=> Returned(j) \/ j = i
    <3>1. CASE j = i
      BY <2>0, <3>1 DEF Returned
    <3>2. CASE j # i
      BY <2>0, <3>2 DEF Returned
    <3> QED
      BY <3>1, <3>2
  <2> QED
    BY <1>1, <2>1, <2>2 DEF TracksRuns, FollowsRuns, Ended
<1>11. PendingIsTrue'
  BY <1>1 DEF TracksRuns, PendingIsTrue, Ended
<1>12. ReadyIsSound'
  <2> SUFFICES ASSUME tracker.ready, NEW b \in Buckets, tracker.pending[b] = i, end = "solved"
               PROVE  tracker.since[b] + r > Checkpoint
    BY <1>1 DEF TracksRuns, ReadyIsSound, Ended
  <2>1. tracker.since[b] = started[i] - tracker.t0 /\ clock - tracker.t0 > Checkpoint
    BY <1>1 DEF TracksRuns, PendingIsTrue, ReadyIsSound
  <2>2. r = clock - started[i]
    BY DEF RunEnds
  <2>3. tracker.t0 \in Int
    BY DEF IInv, TypeOK, Trackers, None
  <2> QED
    BY <1>1, <2>1, <2>2, <2>3, TimesAssumption
<1>13. FewOpen'
  <2> SUFFICES ASSUME ~tracker.ready, NEW k \in 1 .. n + 1 PROVE Cardinality(Open(k)') <= Real
    BY <1>1, <1>3 DEF FewOpen
  <2>1. CASE k \in 1 .. n
    <3>1. Open(k)' = Open(k)
      BY <1>0, <1>1, <1>2, <2>1, OpenGrows
    <3> QED
      BY <1>0, <2>1, <3>1 DEF TracksRuns, FewOpen
  <2>2. CASE k = n + 1
    <3>1. n \in 1 .. n
      BY <1>0, EventTypes
    <3>2. Open(n + 1)' \subseteq Open(n)
      BY <1>0, <1>1, <1>2, OpenGrows
    <3>3. /\ Cardinality(Open(n + 1)') <= Cardinality(Open(n)) /\ Cardinality(Open(n)) \in Nat
          /\ Cardinality(Open(n + 1)') \in Nat
      <4>1. Open(n) \in SUBSET Instances
        BY DEF Open
      <4> QED
        BY <3>2, <4>1, Fewer
    <3>4. Cardinality(Open(n)) <= Real
      BY <1>0, <3>1 DEF TracksRuns, FewOpen
    <3>5. Cardinality(Open(n + 1)') <= Real
      BY <3>3, <3>4, ActiveAssumption
    <3> QED
      BY <2>2, <3>5
  <2> QED
    BY <1>3, <2>1, <2>2
<1> QED
  BY <1>5, <1>6, <1>7, <1>8, <1>9, <1>10, <1>11, <1>12, <1>13 DEF TracksRuns

-----------------------------------------------------------------------------
(* What the operators do to each field while the tracker is not ready.     *)

(* AllPastHorizon as it reads when the tracker has become ready.           *)
PastHorizon(tr, now) ==
  \A b \in Buckets :
    /\ tr.pending[b] # None => now > Checkpoint
    /\ tr.pending[b] = None => tr.busy[b] > Checkpoint

(* What a verdict says of the buckets: all are past the horizon.           *)
LEMMA RefreshSays ==
  ASSUME NEW tr \in Trackers, NEW now, ~tr.ready
  PROVE  LET n == Refresh(tr, now)
         IN  /\ n.t0 = tr.t0 /\ n.busy = tr.busy /\ n.pending = tr.pending
             /\ n.since = tr.since /\ n.assigned = tr.assigned /\ n.solved = tr.solved
             /\ n.ready => PastHorizon(n, now)
<1>1. CASE tr.seen < Total /\ AllPastHorizon(tr, now)
  <2>1. PICK n : n = [tr EXCEPT !.ready = TRUE]
    OBVIOUS
  <2>2. Refresh(tr, now) = n
    BY <1>1, <2>1 DEF Refresh
  <2>3. /\ n.t0 = tr.t0 /\ n.busy = tr.busy /\ n.pending = tr.pending
        /\ n.since = tr.since /\ n.assigned = tr.assigned /\ n.solved = tr.solved
    BY <2>1 DEF Trackers
  <2>4. PastHorizon(n, now)
    BY <1>1, <2>3 DEF AllPastHorizon, PastHorizon
  <2> QED
    BY <2>2, <2>3, <2>4
<1>2. CASE ~(tr.seen < Total /\ AllPastHorizon(tr, now))
  BY <1>2 DEF Refresh
<1> QED
  BY <1>1, <1>2

(* Tracker n is tracker tr with a run in the bucket b, which was free.     *)
PutInto(tr, n, b, i, time) ==
  /\ tr.pending[b] = None
  /\ n.t0 = IF tr.t0 = None THEN time ELSE tr.t0
  /\ n.busy = tr.busy /\ n.solved = tr.solved
  /\ n.pending = [tr.pending EXCEPT ![b] = i]
  /\ n.since = [tr.since EXCEPT ![b] = time - n.t0]
  /\ n.assigned = [tr.assigned EXCEPT ![i] = b]
  /\ n.ready => PastHorizon(n, time - n.t0)

(* record_dispatch puts the run in a bucket that was free.                 *)
LEMMA DispatchSays ==
  ASSUME NEW tr \in Trackers, ~tr.ready, NEW i \in Instances, NEW time \in Nat,
         FreeBuckets(tr) # {}, NEW n, n = RecordDispatch(tr, i, time)
  PROVE  \E b \in Buckets : PutInto(tr, n, b, i, time)
<1>1. PICK t \in Nat : t = IF tr.t0 = None THEN time ELSE tr.t0
  BY DEF Trackers, None
<1>2. PICK at : at = [tr EXCEPT !.t0 = t]
  OBVIOUS
<1>3. /\ at \in Trackers /\ at.t0 = t /\ at.busy = tr.busy /\ at.pending = tr.pending
      /\ at.since = tr.since /\ at.assigned = tr.assigned /\ at.solved = tr.solved
      /\ ~at.ready
  BY <1>2 DEF Trackers
<1>4. PICK b \in Buckets : b = LeastBusy(at, FreeBuckets(at)) /\ at.pending[b] = None
  <2>1. FreeBuckets(at) \in SUBSET Buckets /\ FreeBuckets(at) # {}
    BY <1>3 DEF FreeBuckets
  <2>2. LeastBusy(at, FreeBuckets(at)) \in FreeBuckets(at)
    BY <1>3, <2>1, LeastBusyType
  <2> QED
    BY <2>2 DEF FreeBuckets
<1>5. PICK cl : cl = [at EXCEPT !.pending[b] = i, !.since[b] = time - t, !.assigned[i] = b]
  OBVIOUS
<1>6. /\ cl.t0 = t /\ cl.busy = tr.busy /\ cl.solved = tr.solved /\ ~cl.ready
      /\ cl.pending = [tr.pending EXCEPT ![b] = i]
      /\ cl.since = [tr.since EXCEPT ![b] = time - t]
      /\ cl.assigned = [tr.assigned EXCEPT ![i] = b]
      /\ cl \in Trackers
  <2>1. /\ cl.t0 = t /\ cl.busy = at.busy /\ cl.solved = at.solved /\ ~cl.ready
        /\ cl.pending = [at.pending EXCEPT ![b] = i]
        /\ cl.since = [at.since EXCEPT ![b] = time - t]
        /\ cl.assigned = [at.assigned EXCEPT ![i] = b]
    BY <1>3, <1>5 DEF Trackers
  <2>2. time - t \in Int
    OBVIOUS
  <2>3. /\ at.pending \in [Buckets -> Instances \cup {None}]
        /\ at.since \in [Buckets -> Int]
        /\ at.assigned \in [Instances -> Buckets \cup {None}]
    BY <1>3 DEF Trackers
  <2>4. /\ cl.pending \in [Buckets -> Instances \cup {None}]
        /\ cl.since \in [Buckets -> Int]
        /\ cl.assigned \in [Instances -> Buckets \cup {None}]
    BY <1>4, <2>1, <2>2, <2>3
  <2>5. cl \in Trackers
    BY <1>3, <1>5, <2>1, <2>4 DEF Trackers
  <2> QED
    BY <1>3, <2>1, <2>5
<1>7. RecordDispatch(tr, i, time) = Refresh(cl, time - t)
  <2>1. at = [tr EXCEPT !.t0 = IF @ = None THEN time ELSE @]
    BY <1>1, <1>2 DEF Trackers
  <2>2. Claim(at, i, time - t) = cl
    BY <1>3, <1>4, <1>5 DEF Claim, FreeBuckets
  <2> QED
    BY <1>3, <2>1, <2>2 DEF RecordDispatch
<1>8. /\ n.t0 = cl.t0 /\ n.busy = cl.busy /\ n.pending = cl.pending
      /\ n.since = cl.since /\ n.assigned = cl.assigned /\ n.solved = cl.solved
      /\ n.ready => PastHorizon(n, time - t)
  BY <1>6, <1>7, RefreshSays
<1>9. /\ tr.pending[b] = None
      /\ t = IF tr.t0 = None THEN time ELSE tr.t0
  BY <1>1, <1>3, <1>4
<1> QED
  BY <1>6, <1>7, <1>8, <1>9 DEF PutInto

(* record frees the bucket of the run and charges it.                      *)
LEMMA ResultSays ==
  ASSUME NEW tr \in Trackers, ~tr.ready, NEW i \in Instances, NEW r \in Nat
  PROVE  LET n == RecordResult(tr, i, r)
             b == tr.assigned[i]
         IN  /\ n.t0 = tr.t0 /\ n.since = tr.since
             /\ n.assigned = [tr.assigned EXCEPT ![i] = None]
             /\ b = None => n.pending = tr.pending
             /\ b # None =>
                  /\ n.pending = [tr.pending EXCEPT ![b] = None]
                  /\ n.busy = [tr.busy EXCEPT ![b] = tr.since[b] + r]
                  /\ n.solved = IF tr.since[b] + r <= Checkpoint /\ r < Cutoff
                                THEN tr.solved + 1 ELSE tr.solved
                  /\ n.ready =>
                       PastHorizon(n, IF r < Cutoff THEN tr.since[b] + r ELSE tr.since[b])
<1>1. PICK b : b = IF tr.assigned[i] # None THEN tr.assigned[i] ELSE FallbackBucket(tr)
  OBVIOUS
<1>2. b \in Buckets
  BY <1>1, BucketsType, LeastBusyType DEF FallbackBucket, FreeBuckets, Trackers
<1>3. PICK f \in Int : f = (IF tr.assigned[i] # None THEN tr.since[b] ELSE tr.busy[b]) + r
  BY <1>2 DEF Trackers
<1>4. PICK s \in Nat : s = IF f <= Checkpoint /\ r < Cutoff THEN tr.solved + 1 ELSE tr.solved
  BY DEF Trackers
<1>5. PICK q \in Instances \cup {None} : q = IF tr.assigned[i] = None THEN tr.pending[b] ELSE None
  BY <1>2 DEF Trackers
<1>6. PICK st : st = [tr EXCEPT !.busy[b] = f, !.pending[b] = q, !.assigned[i] = None,
                              !.solved = s, !.seen = @ + 1]
  OBVIOUS
<1>7. /\ st.t0 = tr.t0 /\ st.since = tr.since /\ st.solved = s /\ ~st.ready
      /\ st.seen = tr.seen + 1
      /\ st.busy = [tr.busy EXCEPT ![b] = f]
      /\ st.pending = [tr.pending EXCEPT ![b] = q]
      /\ st.assigned = [tr.assigned EXCEPT ![i] = None]
  BY <1>6 DEF Trackers
<1>8. st \in Trackers
  <2>1. /\ tr.seen + 1 \in Nat
        /\ tr.busy \in [Buckets -> Int] /\ tr.pending \in [Buckets -> Instances \cup {None}]
        /\ tr.assigned \in [Instances -> Buckets \cup {None}]
    BY DEF Trackers
  <2>2. /\ st.busy \in [Buckets -> Int]
        /\ st.pending \in [Buckets -> Instances \cup {None}]
        /\ st.assigned \in [Instances -> Buckets \cup {None}]
    BY <1>2, <1>7, <2>1
  <2> QED
    BY <1>6, <2>1, <2>2, <1>7 DEF Trackers
<1>9. RecordResult(tr, i, r) = Refresh(st, NowBound(tr, i, f, r))
  <2>1. Settle(tr, i, b, f, r) = st
    BY <1>4, <1>5, <1>6 DEF Settle
  <2> QED
    BY <1>1, <1>3, <2>1 DEF RecordResult
<1>10. LET n == Refresh(st, NowBound(tr, i, f, r))
       IN  /\ n.t0 = st.t0 /\ n.busy = st.busy /\ n.pending = st.pending
           /\ n.since = st.since /\ n.assigned = st.assigned /\ n.solved = st.solved
           /\ n.ready => PastHorizon(n, NowBound(tr, i, f, r))
  BY <1>7, <1>8, RefreshSays
<1>11. CASE tr.assigned[i] = None
  <2>1. st.pending = tr.pending
    BY <1>2, <1>5, <1>7, <1>11 DEF Trackers
  <2> QED
    BY <1>7, <1>9, <1>10, <1>11, <2>1
<1>12. CASE tr.assigned[i] # None
  <2>1. b = tr.assigned[i] /\ q = None /\ f = tr.since[b] + r
    BY <1>1, <1>3, <1>5, <1>12
  <2>2. NowBound(tr, i, f, r) = IF r < Cutoff THEN tr.since[b] + r ELSE tr.since[b]
    <3>1. tr.since[b] \in Int
      BY <1>2 DEF Trackers
    <3>2. f - r = tr.since[b]
      BY <2>1, <3>1
    <3> QED
      BY <1>12, <2>1, <3>2 DEF NowBound
  <2> QED
    BY <1>4, <1>7, <1>9, <1>10, <1>12, <2>1, <2>2
<1> QED
  BY <1>11, <1>12

(* poll changes the verdict alone.                                         *)
LEMMA PollSays ==
  ASSUME NEW tr \in Trackers, ~tr.ready, NEW now \in Nat
  PROVE  LET n == PollTracker(tr, now)
         IN  /\ n.t0 = tr.t0 /\ n.busy = tr.busy /\ n.pending = tr.pending
             /\ n.since = tr.since /\ n.assigned = tr.assigned /\ n.solved = tr.solved
             /\ n.ready => tr.t0 # None /\ PastHorizon(n, now - tr.t0)
<1>1. CASE tr.t0 = None
  BY <1>1 DEF PollTracker
<1>2. CASE tr.t0 # None
  BY <1>2, RefreshSays DEF PollTracker
<1> QED
  BY <1>1, <1>2

(* A ready tracker records no more.                                        *)
LEMMA ReadyIsFinal ==
  ASSUME NEW tr \in Trackers, tr.ready, NEW i, NEW x
  PROVE  RecordDispatch(tr, i, x) = tr /\ RecordResult(tr, i, x) = tr
BY DEF RecordDispatch, RecordResult

(* A verdict is not taken back by a poll.                                  *)
LEMMA ReadyPolls ==
  ASSUME NEW tr \in Trackers, tr.ready, NEW x
  PROVE  PollTracker(tr, x) = tr
<1>1. [tr EXCEPT !.ready = TRUE] = tr
  BY DEF Trackers
<1> QED
  BY <1>1 DEF PollTracker, Refresh

-----------------------------------------------------------------------------
(* Taking an event.                                                        *)

(* What the channel says of the runs after its first event is taken.       *)
LEMMA TakeChannel ==
  ASSUME IInv, TracksRuns, events # <<>>, events' = Tail(events), UNCHANGED world
  PROVE  /\ ChannelIsTrue' /\ ChargesAreTrue' /\ ResultsLast' /\ InOrder'
         /\ \A k \in DOMAIN events' : /\ SentAt(k)' = SentAt(k + 1)
                                      /\ IsExact(k)' <=> IsExact(k + 1)
         /\ \A i \in Instances : /\ Announced(i) <=> IsDispatch(1, i) \/ Announced(i)'
                                 /\ Returned(i) <=> IsResult(1, i) \/ Returned(i)'
                                 /\ ~(IsResult(1, i) /\ (Announced(i)' \/ Returned(i)'))
                                 /\ ~(IsDispatch(1, i) /\ Announced(i)')
<1>1. /\ 1 \in DOMAIN events
      /\ \A k \in DOMAIN events' :
           /\ k \in Nat \ {0} /\ k + 1 \in DOMAIN events /\ events'[k] = events[k + 1]
           /\ \A i \in Instances :
                (IsDispatch(k, i)' <=> IsDispatch(k + 1, i))
                  /\ (IsResult(k, i)' <=> IsResult(k + 1, i))
      /\ \A k \in DOMAIN events : k = 1 \/ (k - 1 \in DOMAIN events' /\ k - 1 + 1 = k)
  BY TakeView
<1>2. UNCHANGED <<clock, phase, started, runtime>>
  BY DEF world
<1>3. /\ ChannelIsTrue /\ ChargesAreTrue /\ ResultsLast /\ InOrder
  BY DEF TracksRuns
<1>4. ChannelIsTrue'
  BY <1>1, <1>2, <1>3 DEF ChannelIsTrue
<1>5. ChargesAreTrue'
  BY <1>2, <1>3 DEF ChargesAreTrue
<1>6. ResultsLast'
  <2> SUFFICES ASSUME NEW j \in DOMAIN events', NEW k \in DOMAIN events', NEW i \in Instances,
                      IsResult(k, i)'
               PROVE  /\ IsResult(j, i)' => j = k
                      /\ IsDispatch(j, i)' => j < k
    BY DEF ResultsLast
  <2>1. IsResult(k + 1, i) /\ j \in Nat /\ k \in Nat
        /\ j + 1 \in DOMAIN events /\ k + 1 \in DOMAIN events
    BY <1>1
  <2>2. (IsResult(j + 1, i) => j + 1 = k + 1) /\ (IsDispatch(j + 1, i) => j + 1 < k + 1)
    BY <1>3, <2>1 DEF ResultsLast
  <2> QED
    BY <1>1, <2>1, <2>2
<1>7. \A k \in DOMAIN events' : SentAt(k)' = SentAt(k + 1) /\ (IsExact(k)' <=> IsExact(k + 1))
  BY <1>1, <1>2 DEF SentAt, IsExact
<1>8. InOrder'
  <2> SUFFICES ASSUME NEW k \in DOMAIN events', phase[events[k + 1].instance] # "cached"
               PROVE  /\ SentAt(k + 1) <= clock
                      /\ \A m \in DOMAIN events' :
                           k < m /\ IsExact(m + 1) => SentAt(k + 1) <= SentAt(m + 1)
    BY <1>1, <1>2, <1>7 DEF InOrder
  <2>1. k \in Nat /\ k + 1 \in DOMAIN events
        /\ \A m \in DOMAIN events' : m \in Nat /\ m + 1 \in DOMAIN events
    BY <1>1
  <2>2. \A m \in DOMAIN events' : k < m => k + 1 < m + 1
    BY <2>1
  <2> QED
    BY <1>3, <2>1, <2>2 DEF InOrder
<1>9. \A i \in Instances :
        /\ Announced(i) <=> IsDispatch(1, i) \/ Announced(i)'
        /\ Returned(i) <=> IsResult(1, i) \/ Returned(i)'
  <2> TAKE i \in Instances
  <2>1. \A k \in DOMAIN events : k # 1 =>
          /\ k - 1 \in DOMAIN events'
          /\ IsDispatch(k, i) <=> IsDispatch(k - 1, i)'
          /\ IsResult(k, i) <=> IsResult(k - 1, i)'
    BY <1>1
  <2>2. Announced(i) <=> IsDispatch(1, i) \/ Announced(i)'
    BY <1>1, <2>1 DEF Announced
  <2>3. Returned(i) <=> IsResult(1, i) \/ Returned(i)'
    BY <1>1, <2>1 DEF Returned
  <2> QED
    BY <2>2, <2>3
<1>10. \A i \in Instances :
         /\ ~(IsResult(1, i) /\ (Announced(i)' \/ Returned(i)'))
         /\ ~(IsDispatch(1, i) /\ Announced(i)')
  <2> TAKE i \in Instances
  <2>1. \A k \in DOMAIN events' : k + 1 \in DOMAIN events /\ k + 1 # 1 /\ ~(k + 1 < 1)
    BY <1>1
  <2>2. ~(IsResult(1, i) /\ Announced(i)')
    BY <1>1, <1>3, <2>1 DEF ResultsLast, Announced
  <2>3. ~(IsResult(1, i) /\ Returned(i)')
    BY <1>1, <1>3, <2>1 DEF ResultsLast, Returned
  <2>4. ~(IsDispatch(1, i) /\ Announced(i)')
    <3>1. \A k \in DOMAIN events' : ~(IsDispatch(1, i) /\ IsDispatch(k + 1, i))
      BY <1>1, <2>1 DEF IInv, AnnouncedOnce, IsDispatch
    <3> QED
      BY <1>1, <3>1 DEF Announced
  <2> QED
    BY <2>2, <2>3, <2>4
<1> QED
  BY <1>4, <1>5, <1>6, <1>7, <1>8, <1>9, <1>10

(* What was open stays open at most.                                       *)
LEMMA OpenShrinks ==
  ASSUME IInv, TracksRuns, events # <<>>, events' = Tail(events), ~tracker.ready,
         \A i \in Instances : tracker'.assigned[i] # None =>
           IsDispatch(1, i) \/ (tracker.assigned[i] # None /\ ~IsResult(1, i))
  PROVE  FewOpen'
<1>1. /\ 1 \in DOMAIN events
      /\ \A k \in DOMAIN events' :
           /\ k \in Nat \ {0} /\ k + 1 \in DOMAIN events
           /\ \A i \in Instances :
                (IsDispatch(k, i)' <=> IsDispatch(k + 1, i))
                  /\ (IsResult(k, i)' <=> IsResult(k + 1, i))
      /\ \A k \in DOMAIN events : k = 1 \/ (k - 1 \in DOMAIN events' /\ k - 1 + 1 = k)
      /\ Len(events) \in Nat \ {0} /\ Len(events') = Len(events) - 1
  BY TakeView
<1> SUFFICES ASSUME NEW k \in 1 .. Len(events') + 1
             PROVE  Cardinality(Open(k)') <= Real
  BY DEF FewOpen
<1>2. k \in Nat \ {0} /\ k + 1 \in 1 .. Len(events) + 1
  BY <1>1
<1>3. Open(k)' \subseteq Open(k + 1)
  <2> SUFFICES ASSUME NEW i \in Instances, i \in Open(k)'
               PROVE  i \in Open(k + 1)
    BY DEF Open
  <2>1. /\ tracker'.assigned[i] # None \/ \E m \in DOMAIN events' : m < k /\ IsDispatch(m, i)'
        /\ \A m \in DOMAIN events' : m < k => ~IsResult(m, i)'
    BY DEF Open
  <2>2. tracker.assigned[i] # None \/ \E m \in DOMAIN events : m < k + 1 /\ IsDispatch(m, i)
    <3>1. CASE tracker'.assigned[i] # None
      BY <1>1, <1>2, <3>1
    <3>2. ASSUME NEW m \in DOMAIN events', m < k, IsDispatch(m, i)'
          PROVE  m + 1 \in DOMAIN events /\ m + 1 < k + 1 /\ IsDispatch(m + 1, i)
      BY <1>1, <1>2, <3>2
    <3> QED
      BY <2>1, <3>1, <3>2
  <2>3. ~IsResult(1, i)
    <3>1. CASE tracker'.assigned[i] # None
      BY <1>1, <3>1, EventTypes
    <3>2. ASSUME NEW m \in DOMAIN events', m < k, IsDispatch(m, i)', IsResult(1, i)
          PROVE  FALSE
      <4>1. m + 1 \in DOMAIN events /\ ~(m + 1 < 1) /\ IsDispatch(m + 1, i)
        BY <1>1, <3>2
      <4> QED
        BY <1>1, <3>2, <4>1 DEF TracksRuns, ResultsLast
    <3> QED
      BY <2>1, <3>1, <3>2
  <2>4. ASSUME NEW m \in DOMAIN events, m < k + 1, m # 1 PROVE ~IsResult(m, i)
    <3>1. m - 1 \in DOMAIN events' /\ m - 1 + 1 = m /\ m - 1 < k
      <4>1. m \in Nat
        BY EventTypes
      <4> QED
        BY <1>1, <1>2, <2>4, <4>1
    <3> QED
      BY <1>1, <2>1, <3>1
  <2> QED
    BY <2>2, <2>3, <2>4 DEF Open
<1>4. Cardinality(Open(k + 1)) <= Real
  BY <1>2 DEF TracksRuns, FewOpen
<1>5. /\ Cardinality(Open(k)') <= Cardinality(Open(k + 1)) /\ Cardinality(Open(k)') \in Nat
      /\ Cardinality(Open(k + 1)) \in Nat
  <2>1. Open(k + 1) \in SUBSET Instances
    BY DEF Open
  <2> QED
    BY <1>3, <2>1, Fewer
<1> QED
  BY <1>4, <1>5, ActiveAssumption

(* Fewer runs in buckets than workers leave a bucket for the next one.     *)
LEMMA FreeBucket ==
  ASSUME IInv, TracksRuns, Real <= Virtual, ~tracker.ready,
         NEW i \in Instances, 1 \in DOMAIN events, IsDispatch(1, i)
  PROVE  FreeBuckets(tracker) # {}
<1> SUFFICES ASSUME FreeBuckets(tracker) = {} PROVE FALSE
  OBVIOUS
<1> DEFINE A == {j \in Instances : tracker.assigned[j] # None}
<1>1. i \notin A
  BY DEF IInv, AnnouncedOnce, IsDispatch
<1>2. A \cup {i} \subseteq Open(2)
  <2>1. \A m \in DOMAIN events : m < 2 => m = 1
    BY EventTypes
  <2>2. \A j \in Instances : ~IsResult(1, j)
    BY EventTypes
  <2> QED
    BY <2>1, <2>2 DEF Open
<1>3. Cardinality(Open(2)) <= Real
  <2>1. 2 \in 1 .. Len(events) + 1
    BY EventTypes
  <2> QED
    BY <2>1 DEF TracksRuns, FewOpen
<1>4. /\ IsFiniteSet(A) /\ Cardinality(A) \in Nat
      /\ Cardinality(A \cup {i}) <= Cardinality(Open(2)) /\ Cardinality(Open(2)) \in Nat
  <2>1. Open(2) \in SUBSET Instances /\ A \in SUBSET Instances
    BY DEF Open
  <2>2. IsFiniteSet(A) /\ Cardinality(A) \in Nat
    BY <2>1, Fewer
  <2>3. Cardinality(A \cup {i}) <= Cardinality(Open(2)) /\ Cardinality(Open(2)) \in Nat
    BY <1>2, <2>1, Fewer
  <2> QED
    BY <2>2, <2>3
<1>5. Cardinality(A \cup {i}) = Cardinality(A) + 1
  BY <1>1, <1>4, FS_AddElement
<1>6. PICK f : f = [j \in A |-> tracker.assigned[j]]
  OBVIOUS
<1>7. f \in Surjection(A, Buckets)
  <2>1. f \in [A -> Buckets]
    BY <1>6 DEF IInv, TypeOK, Trackers
  <2>2. ASSUME NEW b \in Buckets PROVE \E j \in A : f[j] = b
    <3>1. PICK j \in Instances : tracker.pending[b] = j
      BY DEF FreeBuckets, IInv, TypeOK, Trackers
    <3>2. tracker.assigned[j] = b /\ b # None
      BY <3>1, NoneIsNoInstance DEF IInv, Settled
    <3> QED
      BY <1>6, <3>2
  <2> QED
    BY <2>1, <2>2 DEF Surjection
<1>8. Cardinality(Buckets) <= Cardinality(A)
  BY <1>4, <1>7, FS_Surjection
<1>9. Virtual <= Cardinality(Buckets) /\ Cardinality(Buckets) \in Nat
  <2>1. PICK n \in Nat \ {0} : n = IF Virtual = 0 THEN 1 ELSE Virtual
    BY ActiveAssumption
  <2>2. Cardinality(1 .. n) = n - 1 + 1
    BY <2>1, FS_Interval
  <2> QED
    BY <2>1, <2>2, ActiveAssumption DEF Buckets
<1> HIDE DEF A
<1>10. Real \in Nat /\ Virtual \in Nat
  BY ActiveAssumption
<1> QED
  BY <1>3, <1>4, <1>5, <1>8, <1>9, <1>10

(* The verdict of a time that had passed, and that no event still in the   *)
(* channel is from before, is sound.                                       *)
LEMMA ReadyNow ==
  ASSUME IInv', ChannelIsTrue', PendingIsTrue',
         NEW now \in Int, PastHorizon(tracker', now),
         now + tracker'.t0 <= clock',
         \A k \in DOMAIN events' : IsExact(k)' => now + tracker'.t0 <= SentAt(k)',
         \A i \in Instances : tracker'.assigned[i] # None =>
           phase'[i] = "running" \/ Returned(i)'
  PROVE  ReadyIsSound'
<1> SUFFICES ASSUME NEW b \in Buckets, NEW i \in Instances, tracker'.pending[b] = i
             PROVE  /\ phase'[i] = "running" => clock' - tracker'.t0 > Checkpoint
                    /\ phase'[i] = "solved" => tracker'.since[b] + runtime'[i] > Checkpoint
  BY DEF ReadyIsSound
<1>1. now > Checkpoint /\ Checkpoint \in Nat
  BY NoneIsNoInstance, TimesAssumption DEF PastHorizon
<1>2. tracker'.t0 \in Int /\ clock' \in Int
  BY DEF IInv, TypeOK, Trackers, None
<1>3. phase'[i] = "running" => clock' - tracker'.t0 > Checkpoint
  BY <1>1, <1>2
<1>4. ASSUME phase'[i] = "solved" PROVE tracker'.since[b] + runtime'[i] > Checkpoint
  <2>1. tracker'.assigned[i] = b /\ b # None
    BY NoneIsNoInstance DEF IInv, Settled
  <2>2. PICK k \in DOMAIN events' : IsResult(k, i)'
    BY <1>4, <2>1 DEF Returned
  <2>3. events'[k].kind = "completed" /\ events'[k].instance = i /\ events'[k].runtime = runtime'[i]
    BY <2>2 DEF ChannelIsTrue, IsResult
  <2>4. IsExact(k)' /\ SentAt(k)' = started'[i] + runtime'[i]
    BY <1>4, <2>3 DEF IsExact, SentAt
  <2>5. tracker'.since[b] = started'[i] - tracker'.t0
    BY DEF PendingIsTrue
  <2>6. started'[i] \in Int /\ runtime'[i] \in Int
    BY DEF IInv, TypeOK, None
  <2>7. now + tracker'.t0 <= started'[i] + runtime'[i]
    BY <2>4
  <2> QED
    BY <1>1, <1>2, <2>5, <2>6, <2>7
<1> QED
  BY <1>3, <1>4

(* With a free bucket a run that is announced is put in one.               *)
LEMMA DispatchPuts ==
  ASSUME IInv, TracksRuns, Real <= Virtual, ~tracker.ready,
         NEW i \in Instances, NEW time \in Nat, 1 \in DOMAIN events, IsDispatch(1, i),
         tracker' = RecordDispatch(tracker, i, time)
  PROVE  \E b \in Buckets : PutInto(tracker, tracker', b, i, time)
<1>1. FreeBuckets(tracker) # {}
  BY FreeBucket
<1>2. tracker \in Trackers
  BY DEF IInv, TypeOK
<1>3. PICK n : n = RecordDispatch(tracker, i, time)
  OBVIOUS
<1>4. \E b \in Buckets : PutInto(tracker, n, b, i, time)
  BY <1>1, <1>2, <1>3, DispatchSays
<1> QED
  BY <1>3, <1>4

(* An announcement collected: the run goes from the channel to a bucket.   *)
LEMMA TakeDispatchedTracks ==
  ASSUME IInv, TracksRuns, Real <= Virtual, TakeDispatched, IInv'
  PROVE  TracksRuns'
<1>1. /\ events # <<>> /\ events' = Tail(events)
      /\ Head(events).kind = "dispatched"
      /\ tracker' = RecordDispatch(tracker, Head(events).instance, Head(events).time)
      /\ UNCHANGED world /\ UNCHANGED <<clock, phase, started, runtime>>
  BY DEF TakeDispatched, world
<1>2. 1 \in DOMAIN events /\ Head(events) = events[1]
  BY <1>1, TakeView
<1>3. PICK i \in Instances, time \in Nat :
        /\ IsDispatch(1, i) /\ time = events[1].time /\ i = events[1].instance
        /\ tracker' = RecordDispatch(tracker, i, time)
  BY <1>1, <1>2, EventTypes DEF IsDispatch, IsResult
<1>4. /\ phase[i] \in Ended \cup {"running"} /\ time = started[i]
      /\ tracker.assigned[i] = None
      /\ \A j \in Instances : (IsDispatch(1, j) <=> j = i) /\ ~IsResult(1, j)
  <2>1. phase[i] \in Ended \cup {"running"} /\ time = started[i]
    BY <1>2, <1>3 DEF TracksRuns, ChannelIsTrue
  <2>2. tracker.assigned[i] = None
    BY <1>2, <1>3 DEF IInv, AnnouncedOnce, IsDispatch
  <2>3. \A j \in Instances : (IsDispatch(1, j) <=> j = i) /\ ~IsResult(1, j)
    BY <1>2, <1>3, EventTypes
  <2> QED
    BY <2>1, <2>2, <2>3
<1>5. /\ ChannelIsTrue' /\ ChargesAreTrue' /\ ResultsLast' /\ InOrder'
      /\ \A k \in DOMAIN events' : SentAt(k)' = SentAt(k + 1) /\ (IsExact(k)' <=> IsExact(k + 1))
      /\ \A j \in Instances : /\ Announced(j) <=> j = i \/ Announced(j)'
                              /\ Returned(j) <=> Returned(j)'
  BY <1>1, <1>4, TakeChannel
<1>6. \A k \in DOMAIN events' : k \in Nat \ {0} /\ k + 1 \in DOMAIN events
                                /\ events'[k] = events[k + 1]
  BY <1>1, TakeView
<1>7. \A k \in DOMAIN events' : phase[events'[k].instance] # "cached"
  <2>1. phase[events[1].instance] # "cached"
    BY <1>3, <1>4 DEF Ended
  <2>2. \A k \in DOMAIN events' : 1 < k + 1
    BY <1>6
  <2> QED
    BY <1>2, <1>6, <2>1, <2>2 DEF TracksRuns, HitsFirst
<1>8. CASE tracker.ready
  <2>1. tracker' = tracker
    BY <1>3, <1>8, ReadyIsFinal DEF IInv, TypeOK
  <2>2. HitsFirst'
    BY <1>1, <1>7, <2>1 DEF TracksRuns, HitsFirst
  <2>3. FollowsRuns' /\ FewOpen'
    BY <1>8, <2>1 DEF FollowsRuns, FewOpen
  <2>4. PendingIsTrue' /\ ReadyIsSound'
    BY <1>1, <2>1 DEF TracksRuns, PendingIsTrue, ReadyIsSound
  <2> QED
    BY <1>5, <2>2, <2>3, <2>4 DEF TracksRuns
<1>9. CASE ~tracker.ready
  <2>1. PICK b \in Buckets :
          /\ tracker.pending[b] = None
          /\ tracker'.t0 = IF tracker.t0 = None THEN time ELSE tracker.t0
          /\ tracker'.pending = [tracker.pending EXCEPT ![b] = i]
          /\ tracker'.since = [tracker.since EXCEPT ![b] = time - tracker'.t0]
          /\ tracker'.assigned = [tracker.assigned EXCEPT ![i] = b]
          /\ tracker'.ready => PastHorizon(tracker', time - tracker'.t0)
    <3>1. i \in Instances /\ time \in Nat
      BY <1>3
    <3>2. PICK c \in Buckets : PutInto(tracker, tracker', c, i, time)
      BY <1>2, <1>3, <1>9, <3>1, DispatchPuts
    <3> QED
      BY <3>2 DEF PutInto
  <2>2. \A j \in Instances : tracker'.assigned[j] # None <=> tracker.assigned[j] # None \/ j = i
    BY <2>1, NoneIsNoInstance DEF IInv, TypeOK, Trackers
  <2>3. tracker'.t0 \in Nat
    BY <2>1 DEF IInv, TypeOK, Trackers
  <2>4. HitsFirst'
    BY <1>1, <1>7, <2>3 DEF HitsFirst, None
  <2>5. FollowsRuns'
    <3> SUFFICES ASSUME NEW j \in Instances
                 PROVE  tracker'.assigned[j] # None \/ Announced(j)'
                          <=> phase[j] = "running" \/ (phase[j] # "cached" /\ Returned(j)')
      BY <1>1 DEF FollowsRuns
    <3> QED
      BY <1>5, <1>9, <2>2 DEF TracksRuns, FollowsRuns
  <2>6. PendingIsTrue'
    <3> SUFFICES ASSUME NEW c \in Buckets, NEW j \in Instances, tracker'.pending[c] = j
                 PROVE  /\ phase[j] \in Ended \cup {"running"}
                        /\ tracker'.since[c] = started[j] - tracker'.t0
      BY <1>1 DEF PendingIsTrue
    <3>1. CASE c = b
      <4>1. j = i
        BY <2>1, <3>1 DEF IInv, TypeOK, Trackers
      <4> QED
        BY <1>4, <2>1, <3>1, <4>1 DEF IInv, TypeOK, Trackers
    <3>2. CASE c # b
      <4>1. tracker.pending[c] = j /\ tracker'.since[c] = tracker.since[c]
        BY <2>1, <3>2 DEF IInv, TypeOK, Trackers
      <4>2. tracker.assigned[j] = c /\ c # None
        BY <4>1, NoneIsNoInstance DEF IInv, Settled
      <4>3. tracker'.t0 = tracker.t0
        BY <2>1, <4>2 DEF TracksRuns, HitsFirst
      <4> QED
        BY <4>1, <4>3 DEF TracksRuns, PendingIsTrue
    <3> QED
      BY <3>1, <3>2
  <2>7. FewOpen'
    BY <1>1, <1>3, <1>4, <1>9, <2>2, OpenShrinks
  <2>8. ReadyIsSound'
    <3>1. CASE ~tracker'.ready
      BY <3>1 DEF ReadyIsSound
    <3>2. CASE tracker'.ready
      <4>1. SentAt(1) = time
        BY <1>3 DEF SentAt, IsDispatch
      <4>2. time <= clock /\ \A k \in DOMAIN events' : IsExact(k)' => time <= SentAt(k)'
        <5>1. phase[events[1].instance] # "cached" /\ \A k \in DOMAIN events' : 1 < k + 1
          BY <1>3, <1>4, <1>6 DEF Ended
        <5> QED
          BY <1>2, <1>5, <1>6, <4>1, <5>1 DEF TracksRuns, InOrder
      <4>3. PICK now \in Int : now = time - tracker'.t0 /\ now + tracker'.t0 = time
        BY <2>3
      <4>4. \A j \in Instances : tracker'.assigned[j] # None =>
              phase'[j] = "running" \/ Returned(j)'
        <5> SUFFICES ASSUME NEW j \in Instances, tracker'.assigned[j] # None
                     PROVE  phase[j] = "running" \/ Returned(j)'
          BY <1>1
        <5>1. tracker.assigned[j] # None \/ Announced(j)
          BY <1>5, <2>2
        <5> QED
          BY <1>5, <1>9, <5>1 DEF TracksRuns, FollowsRuns
      <4>5. PastHorizon(tracker', now) /\ clock' = clock
        BY <1>1, <2>1, <3>2, <4>3
      <4> QED
        BY <1>5, <2>6, <4>2, <4>3, <4>4, <4>5, ReadyNow
    <3> QED
      BY <3>1, <3>2
  <2> QED
    BY <1>5, <2>4, <2>5, <2>6, <2>7, <2>8 DEF TracksRuns
<1> QED
  BY <1>8, <1>9

(* A result collected: the run leaves its bucket, or never was in one.     *)
LEMMA TakeCompletedTracks ==
  ASSUME IInv, TracksRuns, TakeCompleted, IInv'
  PROVE  TracksRuns'
<1>1. /\ events # <<>> /\ events' = Tail(events)
      /\ Head(events).kind = "completed"
      /\ tracker' = RecordResult(tracker, Head(events).instance, Head(events).runtime)
      /\ UNCHANGED world /\ UNCHANGED <<clock, phase, started, runtime>>
  BY DEF TakeCompleted, world
<1>2. 1 \in DOMAIN events /\ Head(events) = events[1]
  BY <1>1, TakeView
<1>3. PICK i \in Instances, r \in Nat :
        /\ IsResult(1, i) /\ r = events[1].runtime /\ i = events[1].instance
        /\ tracker' = RecordResult(tracker, i, r)
  BY <1>1, <1>2, EventTypes DEF IsDispatch, IsResult
<1>4. /\ phase[i] \in Ended \cup {"cached"} /\ r = runtime[i]
      /\ \A j \in Instances : (IsResult(1, j) <=> j = i) /\ ~IsDispatch(1, j)
  <2>1. phase[i] \in Ended \cup {"cached"} /\ r = runtime[i]
    BY <1>2, <1>3 DEF TracksRuns, ChannelIsTrue
  <2>2. \A j \in Instances : (IsResult(1, j) <=> j = i) /\ ~IsDispatch(1, j)
    BY <1>2, <1>3, EventTypes
  <2> QED
    BY <2>1, <2>2
<1>5. /\ ChannelIsTrue' /\ ChargesAreTrue' /\ ResultsLast' /\ InOrder'
      /\ \A k \in DOMAIN events' : SentAt(k)' = SentAt(k + 1) /\ (IsExact(k)' <=> IsExact(k + 1))
      /\ \A j \in Instances : /\ Announced(j) <=> Announced(j)'
                              /\ Returned(j) <=> j = i \/ Returned(j)'
      /\ ~Announced(i)' /\ ~Returned(i)'
  BY <1>1, <1>4, TakeChannel
<1>6. \A k \in DOMAIN events' : k \in Nat \ {0} /\ k + 1 \in DOMAIN events
                                /\ events'[k] = events[k + 1]
  BY <1>1, TakeView
<1>7. \A k \in DOMAIN events' : phase'[events'[k].instance] = "cached" =>
        /\ tracker.t0 = None
        /\ \A j \in DOMAIN events' : j < k => phase'[events'[j].instance] = "cached"
  <2>1. \A j, k \in DOMAIN events' : j < k => j + 1 < k + 1
    BY <1>6
  <2> QED
    BY <1>1, <1>6, <2>1 DEF TracksRuns, HitsFirst
<1>8. CASE tracker.ready
  <2>1. tracker' = tracker
    BY <1>3, <1>8, ReadyIsFinal DEF IInv, TypeOK
  <2>2. HitsFirst'
    BY <1>7, <2>1 DEF TracksRuns, HitsFirst
  <2>3. FollowsRuns' /\ FewOpen'
    BY <1>8, <2>1 DEF FollowsRuns, FewOpen
  <2>4. PendingIsTrue' /\ ReadyIsSound'
    BY <1>1, <2>1 DEF TracksRuns, PendingIsTrue, ReadyIsSound
  <2> QED
    BY <1>5, <2>2, <2>3, <2>4 DEF TracksRuns
<1>9. ASSUME ~tracker.ready
      PROVE  /\ tracker'.t0 = tracker.t0 /\ tracker'.since = tracker.since
             /\ tracker'.assigned = [tracker.assigned EXCEPT ![i] = None]
             /\ tracker.assigned[i] = None => tracker'.pending = tracker.pending
             /\ \A b \in Buckets : tracker.assigned[i] = b =>
                  /\ tracker'.pending = [tracker.pending EXCEPT ![b] = None]
                  /\ tracker'.ready => PastHorizon(tracker',
                       IF r < Cutoff THEN tracker.since[b] + r ELSE tracker.since[b])
  <2>1. tracker \in Trackers
    BY DEF IInv, TypeOK
  <2>2. PICK n : n = RecordResult(tracker, i, r)
    OBVIOUS
  <2>3. /\ n.t0 = tracker.t0 /\ n.since = tracker.since
        /\ n.assigned = [tracker.assigned EXCEPT ![i] = None]
        /\ tracker.assigned[i] = None => n.pending = tracker.pending
        /\ tracker.assigned[i] # None =>
             /\ n.pending = [tracker.pending EXCEPT ![tracker.assigned[i]] = None]
             /\ n.ready => PastHorizon(n,
                  IF r < Cutoff THEN tracker.since[tracker.assigned[i]] + r
                  ELSE tracker.since[tracker.assigned[i]])
    BY <1>9, <2>1, <2>2, ResultSays
  <2>4. tracker' = n
    BY <1>3, <2>2
  <2> QED
    BY <2>3, <2>4, NoneIsNoInstance
<1>10. CASE ~tracker.ready /\ tracker.assigned[i] = None
  <2>1. phase[i] = "cached"
    <3>1. ~Announced(i) /\ Returned(i)
      BY <1>5
    <3> QED
      BY <1>10, <3>1 DEF TracksRuns, FollowsRuns
  <2>2. tracker.t0 = None /\ \A j \in Instances : tracker.assigned[j] = None
    BY <1>2, <1>3, <2>1 DEF TracksRuns, HitsFirst
  <2>3. \A b \in Buckets, j \in Instances : tracker.pending[b] # j
    BY <2>2, NoneIsNoInstance DEF IInv, Settled
  <2>4. /\ tracker'.t0 = None /\ tracker'.pending = tracker.pending
        /\ \A j \in Instances : tracker'.assigned[j] = None
    BY <1>9, <1>10, <2>2 DEF IInv, TypeOK, Trackers
  <2>5. HitsFirst'
    BY <1>7, <2>4 DEF HitsFirst
  <2>6. FollowsRuns'
    <3> SUFFICES ASSUME NEW j \in Instances
                 PROVE  tracker'.assigned[j] # None \/ Announced(j)'
                          <=> phase[j] = "running" \/ (phase[j] # "cached" /\ Returned(j)')
      BY <1>1 DEF FollowsRuns
    <3> QED
      BY <1>5, <1>10, <2>1, <2>2, <2>4 DEF TracksRuns, FollowsRuns
  <2>7. PendingIsTrue' /\ ReadyIsSound'
    BY <2>3, <2>4 DEF PendingIsTrue, ReadyIsSound
  <2>8. FewOpen'
    BY <1>1, <1>10, <2>4, OpenShrinks
  <2> QED
    BY <1>5, <2>5, <2>6, <2>7, <2>8 DEF TracksRuns
<1>11. CASE ~tracker.ready /\ tracker.assigned[i] # None
  <2>1. PICK b \in Buckets : tracker.assigned[i] = b /\ tracker.pending[b] = i
    BY <1>11 DEF IInv, TypeOK, Trackers, Settled
  <2>2. phase[i] \in Ended /\ tracker.since[b] = started[i] - tracker.t0
    BY <1>4, <2>1 DEF TracksRuns, PendingIsTrue, Ended
  <2>3. tracker.t0 # None /\ tracker.t0 \in Int
    BY <1>11 DEF TracksRuns, HitsFirst, IInv, TypeOK, Trackers, None
  <2>4. /\ tracker'.t0 = tracker.t0 /\ tracker'.since = tracker.since
        /\ tracker'.pending = [tracker.pending EXCEPT ![b] = None]
        /\ \A j \in Instances : tracker'.assigned[j] # None <=> tracker.assigned[j] # None /\ j # i
    BY <1>9, <1>11, <2>1 DEF IInv, TypeOK, Trackers
  <2>5. HitsFirst'
    BY <1>7, <2>3, <2>4 DEF HitsFirst
  <2>6. FollowsRuns'
    <3> SUFFICES ASSUME NEW j \in Instances
                 PROVE  tracker'.assigned[j] # None \/ Announced(j)'
                          <=> phase[j] = "running" \/ (phase[j] # "cached" /\ Returned(j)')
      BY <1>1 DEF FollowsRuns
    <3>1. phase[i] # "running"
      BY <2>2 DEF Ended
    <3> QED
      BY <1>5, <1>11, <2>4, <3>1 DEF TracksRuns, FollowsRuns
  <2>7. PendingIsTrue'
    <3> SUFFICES ASSUME NEW c \in Buckets, NEW j \in Instances, tracker'.pending[c] = j
                 PROVE  /\ phase[j] \in Ended \cup {"running"}
                        /\ tracker.since[c] = started[j] - tracker.t0
      BY <1>1, <2>4 DEF PendingIsTrue
    <3>1. tracker.pending[c] = j
      BY <2>4, NoneIsNoInstance DEF IInv, TypeOK, Trackers
    <3> QED
      BY <3>1 DEF TracksRuns, PendingIsTrue
  <2>8. FewOpen'
    BY <1>1, <1>4, <1>11, <2>4, OpenShrinks
  <2>9. ReadyIsSound'
    <3>1. CASE ~tracker'.ready
      BY <3>1 DEF ReadyIsSound
    <3>2. CASE tracker'.ready
      <4>1. started[i] \in Nat /\ (phase[i] # "solved" => r = Cutoff) /\ Cutoff \in Nat
        BY <1>4, <2>2, TimesAssumption DEF TracksRuns, ChargesAreTrue, Ended
      <4>2. PICK now \in Int :
              now = IF r < Cutoff THEN tracker.since[b] + r ELSE tracker.since[b]
        BY <2>2, <2>3, <4>1
      <4>3. now + tracker.t0 <= SentAt(1) /\ SentAt(1) \in Int
        <5>1. SentAt(1) = started[i] + IF phase[i] = "failed" THEN 0 ELSE r
          BY <1>3 DEF SentAt, IsResult
        <5>2. r < Cutoff => phase[i] # "failed"
          BY <4>1
        <5> QED
          BY <2>2, <2>3, <4>1, <4>2, <5>1, <5>2
      <4>4. SentAt(1) <= clock /\ \A k \in DOMAIN events' : IsExact(k)' => SentAt(1) <= SentAt(k)'
        <5>1. phase[events[1].instance] # "cached" /\ \A k \in DOMAIN events' : 1 < k + 1
          BY <1>3, <1>6, <2>2 DEF Ended
        <5> QED
          BY <1>2, <1>5, <1>6, <5>1 DEF TracksRuns, InOrder
      <4>5. \A k \in DOMAIN events' : IsExact(k)' => SentAt(k)' \in Int
        <5>1. \A k \in DOMAIN events : phase[events[k].instance] # "cached" => SentAt(k) \in Int
          BY SentAtType DEF TracksRuns
        <5>2. \A k \in DOMAIN events' : phase[events[k + 1].instance] # "cached"
          BY <1>1, <1>6, <1>7, <2>3
        <5> QED
          BY <1>5, <1>6, <5>1, <5>2
      <4>6. now + tracker'.t0 <= clock'
            /\ \A k \in DOMAIN events' : IsExact(k)' => now + tracker'.t0 <= SentAt(k)'
        <5>1. clock \in Int /\ now + tracker.t0 \in Int
          BY <2>3 DEF IInv, TypeOK
        <5>2. PICK t \in Int : t = now + tracker'.t0 /\ t <= SentAt(1)
          BY <2>4, <4>3, <5>1
        <5> HIDE DEF SentAt, IsExact
        <5>3. t <= clock'
          BY <1>1, <4>3, <4>4, <5>1, <5>2
        <5>4. ASSUME NEW k \in DOMAIN events', IsExact(k)' PROVE t <= SentAt(k)'
          BY <4>3, <4>4, <4>5, <5>2, <5>4
        <5> QED
          BY <5>2, <5>3, <5>4
      <4>7. \A j \in Instances : tracker'.assigned[j] # None =>
              phase'[j] = "running" \/ Returned(j)'
        BY <1>1, <1>5, <1>11, <2>4 DEF TracksRuns, FollowsRuns
      <4>8. PastHorizon(tracker', now)
        BY <1>9, <1>11, <2>1, <3>2, <4>2
      <4> QED
        BY <1>5, <2>7, <4>6, <4>7, <4>8, ReadyNow
    <3> QED
      BY <3>1, <3>2
  <2> QED
    BY <1>5, <2>5, <2>6, <2>7, <2>8, <2>9 DEF TracksRuns
<1> QED
  BY <1>8, <1>10, <1>11

(* A poll on an empty channel: whoever runs is in a bucket.                *)
LEMMA PollTracks ==
  ASSUME IInv, TracksRuns, Poll, IInv'
  PROVE  TracksRuns'
<1>1. /\ events = <<>> /\ tracker' = PollTracker(tracker, clock)
      /\ UNCHANGED <<clock, phase, started, runtime, events>>
      /\ clock \in Nat /\ tracker \in Trackers
  BY DEF Poll, world, IInv, TypeOK
<1>2. ChannelIsTrue' /\ ChargesAreTrue' /\ ResultsLast'
  BY <1>1 DEF TracksRuns, ChannelIsTrue, ChargesAreTrue, ResultsLast, IsDispatch, IsResult
<1>3. DOMAIN events' = {}
  BY <1>1
<1>4. InOrder'
  BY <1>3 DEF InOrder
<1>5. CASE tracker.ready
  <2>1. tracker' = tracker
    BY <1>1, <1>5, ReadyPolls
  <2>2. HitsFirst' /\ PendingIsTrue' /\ ReadyIsSound'
    BY <1>1, <2>1 DEF TracksRuns, HitsFirst, PendingIsTrue, ReadyIsSound
  <2>3. FollowsRuns' /\ FewOpen'
    BY <1>5, <2>1 DEF FollowsRuns, FewOpen
  <2> QED
    BY <1>2, <1>4, <2>2, <2>3 DEF TracksRuns
<1>6. CASE ~tracker.ready
  <2>1. /\ tracker'.t0 = tracker.t0 /\ tracker'.pending = tracker.pending
        /\ tracker'.since = tracker.since /\ tracker'.assigned = tracker.assigned
        /\ tracker'.ready => tracker.t0 # None /\ PastHorizon(tracker', clock - tracker.t0)
    BY <1>1, <1>6, PollSays
  <2>2. HitsFirst' /\ PendingIsTrue'
    BY <1>1, <2>1 DEF TracksRuns, HitsFirst, PendingIsTrue
  <2>3. FollowsRuns'
    BY <1>1, <1>6, <2>1 DEF TracksRuns, FollowsRuns, Announced, Returned, IsDispatch, IsResult
  <2>4. FewOpen'
    BY <1>1, <1>6, <2>1 DEF TracksRuns, FewOpen, Open, IsDispatch, IsResult
  <2>5. ReadyIsSound'
    <3>1. CASE ~tracker'.ready
      BY <3>1 DEF ReadyIsSound
    <3>2. CASE tracker'.ready
      <4>1. PICK now \in Int : now = clock - tracker'.t0 /\ now + tracker'.t0 <= clock'
        BY <1>1, <2>1 DEF Trackers, None
      <4>2. \A j \in Instances : tracker'.assigned[j] # None =>
              phase'[j] = "running" \/ Returned(j)'
        BY <1>1, <1>6, <2>1, <2>3 DEF TracksRuns, FollowsRuns, Returned, IsResult
      <4>3. PastHorizon(tracker', now)
        BY <2>1, <3>2, <4>1
      <4> QED
        BY <1>2, <1>3, <2>2, <4>1, <4>2, <4>3, ReadyNow
    <3> QED
      BY <3>1, <3>2
  <2> QED
    BY <1>2, <1>4, <2>2, <2>3, <2>4, <2>5 DEF TracksRuns
<1> QED
  BY <1>5, <1>6

-----------------------------------------------------------------------------
(* While the workers are no more than the buckets.                         *)

(* Every step keeps the tracker with the runs.                             *)
LEMMA NextTracks ==
  ASSUME IInv, TracksRuns, Real <= Virtual, [Next]_vars
  PROVE  TracksRuns'
<1>0. IInv'
  BY NextInv
<1>1. CASE UNCHANGED vars
  BY <1>1 DEF vars, world, consumer, TracksRuns, ChannelIsTrue, ChargesAreTrue, ResultsLast,
              HitsFirst, InOrder, FollowsRuns, PendingIsTrue, FewOpen, ReadyIsSound, Open,
              Announced, Returned, IsDispatch, IsResult, SentAt, IsExact
<1>2. ASSUME NEW i \in Instances, Solver(i) PROVE TracksRuns'
  <2>1. CASE Start(i)
    BY <2>1, StartTracks
  <2>2. ASSUME NEW end \in Ended, NEW r \in Nat, RunEnds(i, end, r) PROVE TracksRuns'
    BY <2>2, EndTracks
  <2>3. CASE ~Start(i)
    BY <1>2, <2>2, <2>3, SolverEnds
  <2> QED
    BY <2>1, <2>3
<1> QED
  BY <1>0, <1>1, <1>2, TickTracks, TakeDispatchedTracks, TakeCompletedTracks, PollTracks DEF Next

(* The tracker follows the runs when the real workers are no more than the *)
(* virtual ones: every run that is on a worker, or back and not collected, *)
(* is in a bucket or announced in the channel, under the time it started.  *)
THEOREM RunsAreTracked ==
  ASSUME Real <= Virtual
  PROVE  Spec => []TracksRuns
<1>1. IInv /\ TracksRuns /\ [Next]_vars => TracksRuns'
  BY NextTracks
<1> QED
  BY <1>1, InitTracks, Bookkeeping, PTL DEF Spec

(* A ready tracker is right about the runs it still holds: none of them    *)
(* can end solved within the horizon any more, so that score of            *)
(* src/ils/futell.rs does not have to wait for them.                       *)
THEOREM EarlyReadIsSound ==
  ASSUME Real <= Virtual
  PROVE  Spec => []ReadyIsSound
<1>1. TracksRuns => ReadyIsSound
  BY DEF TracksRuns
<1> QED
  BY <1>1, RunsAreTracked, PTL

-----------------------------------------------------------------------------
(* The count.                                                              *)

(* The count is exact at first: nothing is solved.                         *)
LEMMA InitCounts == Init => CountsRuns
<1> SUFFICES ASSUME Init PROVE CountsRuns
  OBVIOUS
<1>1. TracksRuns
  BY InitTracks
<1>2. /\ tracker.t0 = None /\ tracker.solved = 0 /\ ~tracker.ready
      /\ \A b \in Buckets : tracker.busy[b] = 0
  BY DEF Init, NewTracker
<1>3. \A i \in Instances : phase[i] \in {"cached", "queued"}
  BY DEF Init
<1>4. BusyIsPast
  BY <1>2 DEF BusyIsPast
<1>5. CountIsExact
  <2>1. {i \in Instances : InTime(i) /\ ~Returned(i)} = {}
    BY <1>3 DEF InTime
  <2> QED
    BY <1>2, <1>3, <2>1, FS_EmptySet DEF CountIsExact, Ended
<1> QED
  BY <1>1, <1>4, <1>5 DEF CountsRuns

(* Time passing solves nothing.                                            *)
LEMMA TickCounts == IInv /\ CountsRuns /\ Tick => CountsRuns'
<1> SUFFICES ASSUME IInv, CountsRuns, Tick PROVE CountsRuns'
  OBVIOUS
<1>1. /\ UNCHANGED <<phase, started, runtime, events, tracker>>
      /\ clock' = clock + 1 /\ clock \in Nat
      /\ tracker.t0 \in Int /\ tracker.busy \in [Buckets -> Int]
  BY DEF Tick, consumer, IInv, TypeOK, Trackers, None
<1>2. TracksRuns'
  BY TickTracks DEF CountsRuns
<1>3. \A k : SentAt(k)' = SentAt(k) /\ (IsExact(k)' <=> IsExact(k))
  BY <1>1 DEF SentAt, IsExact
<1>4. \A i : (InTime(i)' <=> InTime(i)) /\ (Returned(i)' <=> Returned(i))
  BY <1>1 DEF InTime, Returned, IsResult
<1>5. BusyIsPast'
  <2>1. \A b \in Buckets : tracker.t0 + tracker.busy[b] <= clock =>
                           tracker.t0 + tracker.busy[b] <= clock'
    BY <1>1
  <2> QED
    BY <1>1, <1>3, <2>1 DEF CountsRuns, BusyIsPast, ChargedIsReal
<1>6. CountIsExact'
  <2>1. clock - tracker.t0 > Checkpoint => clock' - tracker.t0 > Checkpoint
    BY <1>1, TimesAssumption
  <2> QED
    BY <1>1, <1>4, <2>1 DEF CountsRuns, CountIsExact, ChargedIsReal
<1> QED
  BY <1>2, <1>5, <1>6 DEF CountsRuns

(* A start solves nothing.                                                 *)
LEMMA StartCounts ==
  ASSUME IInv, CountsRuns, NEW i \in Instances, Start(i)
  PROVE  CountsRuns'
<1>0. PICK n \in Nat : n = Len(events) + 1
  BY EventTypes
<1>1. Starts(i, n) /\ TracksRuns'
  BY <1>0, StartSends, StartTracks DEF CountsRuns
<1>2. /\ phase[i] = "queued"
      /\ \A j \in Instances : /\ phase'[j] = IF j = i THEN "running" ELSE phase[j]
                              /\ started'[j] = IF j = i THEN clock ELSE started[j]
      /\ UNCHANGED <<clock, runtime, tracker>>
      /\ DOMAIN events' = DOMAIN events \cup {n}
      /\ \A k \in DOMAIN events, j \in Instances : IsResult(k, j)' <=> IsResult(k, j)
      /\ \A j \in Instances : ~IsResult(n, j)'
      /\ \A k \in DOMAIN events : SentAt(k)' = SentAt(k) /\ (IsExact(k)' <=> IsExact(k))
      /\ SentAt(n)' = clock
  BY <1>1 DEF Starts
<1>3. ChargedIsReal' <=> ChargedIsReal
  BY <1>2 DEF ChargedIsReal
<1>4. \A j \in Instances : (InTime(j)' <=> InTime(j)) /\ (Returned(j)' <=> Returned(j))
  BY <1>2 DEF InTime, Returned
<1>5. BusyIsPast'
  BY <1>2, <1>3 DEF CountsRuns, BusyIsPast
<1>6. CountIsExact'
  BY <1>2, <1>3, <1>4 DEF CountsRuns, CountIsExact, Ended
<1> QED
  BY <1>1, <1>5, <1>6 DEF CountsRuns

(* An end in time is counted when its result is collected.                 *)
LEMMA EndCounts ==
  ASSUME IInv, CountsRuns, NEW i \in Instances, NEW end \in Ended, NEW r \in Nat,
         RunEnds(i, end, r)
  PROVE  CountsRuns'
<1>0. PICK n \in Nat : n = Len(events) + 1
  BY EventTypes
<1>1. Ends(i, end, r, n) /\ TracksRuns'
  BY <1>0, EndSends, EndTracks DEF CountsRuns
<1>2. /\ phase[i] = "running"
      /\ \A j \in Instances : /\ phase'[j] = IF j = i THEN end ELSE phase[j]
                              /\ runtime'[j] = IF j = i THEN r ELSE runtime[j]
      /\ UNCHANGED <<clock, started, tracker>>
      /\ clock \in Nat /\ started[i] \in 0 .. clock
      /\ DOMAIN events' = DOMAIN events \cup {n}
      /\ \A k \in DOMAIN events, j \in Instances : IsResult(k, j)' <=> IsResult(k, j)
      /\ \A j \in Instances : IsResult(n, j)' <=> i = j
      /\ \A k \in DOMAIN events : SentAt(k)' = SentAt(k) /\ (IsExact(k)' <=> IsExact(k))
      /\ IsExact(n)' => SentAt(n)' = clock
  BY <1>1 DEF Ends
<1>3. ChargedIsReal' => ChargedIsReal
  BY <1>2 DEF ChargedIsReal
<1>4. \A j \in Instances : Returned(j)' <=> Returned(j) \/ j = i
  <2> TAKE j \in Instances
  <2>1. CASE j = i
    BY <1>2, <2>1 DEF Returned
  <2>2. CASE j # i
    BY <1>2, <2>2 DEF Returned
  <2> QED
    BY <2>1, <2>2
<1>5. \A j \in Instances : j # i => (InTime(j)' <=> InTime(j))
  BY <1>2 DEF InTime
<1>6. ~InTime(i)
  BY <1>2 DEF InTime
<1>7. BusyIsPast'
  BY <1>2, <1>3 DEF CountsRuns, BusyIsPast
<1>8. CountIsExact'
  <2> SUFFICES ASSUME ChargedIsReal, ChargedIsReal'
               PROVE  CountIsExact'
    BY <1>3 DEF CountIsExact
  <2>1. CASE tracker.ready
    <3>1. /\ tracker.t0 # None /\ clock - tracker.t0 > Checkpoint
          /\ tracker.solved = Cardinality({j \in Instances : InTime(j)})
      BY <2>1 DEF CountsRuns, CountIsExact
    <3>2. ~InTime(i)'
      <4> SUFFICES ASSUME end = "solved" PROVE started[i] - tracker.t0 + r > Checkpoint
        BY <1>2, TimesAssumption DEF InTime, IInv, TypeOK, Trackers, None
      <4>1. r = clock - started[i]
        BY DEF RunEnds
      <4>2. tracker.t0 \in Int
        BY DEF IInv, TypeOK, Trackers, None
      <4> QED
        BY <1>2, <3>1, <4>1, <4>2, TimesAssumption
    <3>3. {j \in Instances : InTime(j)'} = {j \in Instances : InTime(j)}
      BY <1>5, <1>6, <3>2
    <3> QED
      BY <1>2, <2>1, <3>1, <3>3 DEF CountIsExact
  <2>2. CASE ~tracker.ready
    <3>1. {j \in Instances : InTime(j)' /\ ~Returned(j)'} =
            {j \in Instances : InTime(j) /\ ~Returned(j)}
      BY <1>4, <1>5, <1>6
    <3>2. tracker.t0 = None => \A j \in Instances : phase'[j] \in Ended => Returned(j)'
      BY <1>2, <1>4, <2>2 DEF CountsRuns, CountIsExact
    <3> QED
      BY <1>2, <2>2, <3>1, <3>2 DEF CountsRuns, CountIsExact
  <2> QED
    BY <2>1, <2>2
<1> QED
  BY <1>1, <1>7, <1>8 DEF CountsRuns

(* What is not counted at a verdict that comes after the horizon is not in *)
(* time.                                                                   *)
LEMMA CountNow ==
  ASSUME IInv', ChannelIsTrue', NEW now \in Int, PastHorizon(tracker', now),
         now + tracker'.t0 <= clock',
         \A k \in DOMAIN events' : IsExact(k)' => now + tracker'.t0 <= SentAt(k)',
         \A b \in Buckets :
           /\ tracker'.t0 + tracker'.busy[b] <= clock'
           /\ \A k \in DOMAIN events' : IsExact(k)' =>
                tracker'.t0 + tracker'.busy[b] <= SentAt(k)'
  PROVE  /\ clock' - tracker'.t0 > Checkpoint
         /\ {i \in Instances : InTime(i)'} = {i \in Instances : InTime(i)' /\ ~Returned(i)'}
<1>1. tracker'.t0 \in Int /\ clock' \in Int /\ tracker'.busy \in [Buckets -> Int]
      /\ Checkpoint \in Nat
  BY TimesAssumption DEF IInv, TypeOK, Trackers, None
<1>2. PICK x \in Int :
        /\ x > Checkpoint /\ x + tracker'.t0 <= clock'
        /\ \A k \in DOMAIN events' : IsExact(k)' => x + tracker'.t0 <= SentAt(k)'
  <2>1. PICK b \in Buckets : TRUE
    BY BucketsType
  <2>2. CASE tracker'.pending[b] # None
    BY <2>1, <2>2 DEF PastHorizon
  <2>3. CASE tracker'.pending[b] = None
    <3>1. PICK x \in Int : x = tracker'.busy[b] /\ x + tracker'.t0 = tracker'.t0 + tracker'.busy[b]
      BY <1>1, <2>1
    <3> QED
      BY <2>1, <2>3, <3>1 DEF PastHorizon
  <2> QED
    BY <2>2, <2>3
<1>3. clock' - tracker'.t0 > Checkpoint
  BY <1>1, <1>2
<1>4. ASSUME NEW i \in Instances, InTime(i)', Returned(i)' PROVE FALSE
  <2>1. PICK k \in DOMAIN events' : IsResult(k, i)'
    BY <1>4 DEF Returned
  <2>2. phase'[i] = "solved" /\ started'[i] - tracker'.t0 + runtime'[i] <= Checkpoint
    BY <1>4 DEF InTime
  <2>3. events'[k].kind = "completed" /\ events'[k].instance = i /\ events'[k].runtime = runtime'[i]
    BY <2>1 DEF ChannelIsTrue, IsResult
  <2>4. IsExact(k)' /\ SentAt(k)' = started'[i] + runtime'[i]
    BY <2>2, <2>3 DEF IsExact, SentAt
  <2>5. x + tracker'.t0 <= started'[i] + runtime'[i]
    BY <1>2, <2>4
  <2>6. started'[i] \in Int /\ runtime'[i] \in Int
    BY DEF IInv, TypeOK, None
  <2> QED
    BY <1>1, <1>2, <2>2, <2>5, <2>6
<1> QED
  BY <1>3, <1>4

(* An announcement collected: what is counted stays, and a verdict finds   *)
(* nothing uncounted within the horizon.                                   *)
LEMMA TakeDispatchedCounts ==
  ASSUME IInv, CountsRuns, Real <= Virtual, TakeDispatched, IInv'
  PROVE  CountsRuns'
<1>1. /\ events # <<>> /\ events' = Tail(events)
      /\ Head(events).kind = "dispatched"
      /\ tracker' = RecordDispatch(tracker, Head(events).instance, Head(events).time)
      /\ UNCHANGED world /\ UNCHANGED <<clock, phase, started, runtime>>
  BY DEF TakeDispatched, world
<1>2. 1 \in DOMAIN events /\ Head(events) = events[1]
  BY <1>1, TakeView
<1>3. PICK i \in Instances, time \in Nat :
        /\ IsDispatch(1, i) /\ time = events[1].time /\ i = events[1].instance
        /\ tracker' = RecordDispatch(tracker, i, time)
  BY <1>1, <1>2, EventTypes DEF IsDispatch, IsResult
<1>4. TracksRuns /\ TracksRuns'
  BY TakeDispatchedTracks DEF CountsRuns
<1>5. /\ \A k \in DOMAIN events' : SentAt(k)' = SentAt(k + 1) /\ (IsExact(k)' <=> IsExact(k + 1))
      /\ \A j \in Instances : Returned(j)' <=> Returned(j)
      /\ \A k \in DOMAIN events' : k \in Nat \ {0} /\ k + 1 \in DOMAIN events
  <2>1. \A j \in Instances : ~IsResult(1, j)
    BY <1>2, <1>3, EventTypes
  <2> QED
    BY <1>1, <1>4, <2>1, TakeChannel, TakeView
<1>6. CASE tracker.ready
  <2>1. tracker' = tracker
    BY <1>3, <1>6, ReadyIsFinal DEF IInv, TypeOK
  <2>2. BusyIsPast'
    BY <1>6, <2>1 DEF BusyIsPast
  <2>3. \A j \in Instances : InTime(j)' <=> InTime(j)
    BY <1>1, <2>1 DEF InTime
  <2>4. CountIsExact'
    BY <1>1, <1>6, <2>1, <2>3 DEF CountsRuns, CountIsExact, ChargedIsReal
  <2> QED
    BY <1>4, <2>2, <2>4 DEF CountsRuns
<1>7. CASE ~tracker.ready /\ ~ChargedIsReal
  BY <1>1, <1>4, <1>7 DEF CountsRuns, BusyIsPast, CountIsExact, ChargedIsReal
<1>8. CASE ~tracker.ready /\ ChargedIsReal
  <2>1. PICK b \in Buckets : PutInto(tracker, tracker', b, i, time)
    <3>1. i \in Instances /\ time \in Nat
      BY <1>3
    <3> QED
      BY <1>2, <1>3, <1>4, <1>8, <3>1, DispatchPuts
  <2>2. /\ tracker'.t0 = IF tracker.t0 = None THEN time ELSE tracker.t0
        /\ tracker'.busy = tracker.busy /\ tracker'.solved = tracker.solved
        /\ tracker'.ready => PastHorizon(tracker', time - tracker'.t0)
    BY <2>1 DEF PutInto
  <2>3. tracker'.t0 \in Nat /\ tracker.busy \in [Buckets -> Int]
    BY <2>2 DEF IInv, TypeOK, Trackers
  <2>4. time <= clock /\ \A k \in DOMAIN events' : IsExact(k)' => time <= SentAt(k)'
    <3>1. SentAt(1) = time
      BY <1>3 DEF SentAt, IsDispatch
    <3>2. phase[events[1].instance] # "cached" /\ \A k \in DOMAIN events' : 1 < k + 1
      BY <1>3, <1>5, <1>8 DEF ChargedIsReal
    <3> QED
      BY <1>2, <1>4, <1>5, <3>1, <3>2 DEF TracksRuns, InOrder
  <2>5. \A c \in Buckets :
          /\ tracker'.t0 + tracker'.busy[c] <= clock'
          /\ \A k \in DOMAIN events' : IsExact(k)' =>
               tracker'.t0 + tracker'.busy[c] <= SentAt(k)'
    <3>1. CASE tracker.t0 = None
      <4>1. \A c \in Buckets : tracker'.busy[c] = 0 /\ tracker'.t0 + 0 = time
        BY <1>8, <2>2, <2>3, <3>1 DEF CountsRuns, BusyIsPast
      <4> QED
        BY <1>1, <2>4, <4>1
    <3>2. CASE tracker.t0 # None
      BY <1>1, <1>5, <1>8, <2>2, <3>2 DEF CountsRuns, BusyIsPast
    <3> QED
      BY <3>1, <3>2
  <2>6. BusyIsPast'
    BY <2>3, <2>5 DEF BusyIsPast, None
  <2>7. tracker'.solved = Cardinality({j \in Instances : InTime(j)' /\ ~Returned(j)'})
    <3>1. CASE tracker.t0 = None
      <4>1. \A j \in Instances : phase[j] = "solved" => Returned(j)
        BY <1>8, <3>1 DEF CountsRuns, CountIsExact, Ended
      <4>2. {j \in Instances : InTime(j) /\ ~Returned(j)} = {}
        BY <4>1 DEF InTime
      <4>3. {j \in Instances : InTime(j)' /\ ~Returned(j)'} = {}
        BY <1>1, <1>5, <4>1 DEF InTime
      <4> QED
        BY <1>8, <2>2, <4>2, <4>3 DEF CountsRuns, CountIsExact
    <3>2. CASE tracker.t0 # None
      <4>1. \A j \in Instances : InTime(j)' <=> InTime(j)
        BY <1>1, <2>2, <3>2 DEF InTime
      <4>2. {j \in Instances : InTime(j)' /\ ~Returned(j)'} =
              {j \in Instances : InTime(j) /\ ~Returned(j)}
        BY <1>5, <4>1
      <4> QED
        BY <1>8, <2>2, <4>2 DEF CountsRuns, CountIsExact
    <3> QED
      BY <3>1, <3>2
  <2>8. CountIsExact'
    <3>1. tracker'.t0 # None
      BY <2>3 DEF None
    <3>2. CASE ~tracker'.ready
      BY <2>7, <3>1, <3>2 DEF CountIsExact
    <3>3. CASE tracker'.ready
      <4>1. PICK now \in Int : now = time - tracker'.t0 /\ now + tracker'.t0 = time
        BY <2>3
      <4>2. PastHorizon(tracker', now) /\ now + tracker'.t0 <= clock'
        BY <1>1, <2>2, <2>4, <3>3, <4>1
      <4>3. ChannelIsTrue' /\ \A k \in DOMAIN events' : IsExact(k)' => now + tracker'.t0 <= SentAt(k)'
        BY <1>4, <2>4, <4>1 DEF TracksRuns
      <4>4. /\ clock' - tracker'.t0 > Checkpoint
            /\ {j \in Instances : InTime(j)'} = {j \in Instances : InTime(j)' /\ ~Returned(j)'}
        BY <2>5, <4>2, <4>3, CountNow
      <4> QED
        BY <2>7, <3>1, <3>3, <4>4 DEF CountIsExact
    <3> QED
      BY <3>2, <3>3
  <2> QED
    BY <1>4, <2>6, <2>8 DEF CountsRuns
<1> QED
  BY <1>6, <1>7, <1>8

(* A result collected: the count takes in this run if it was in time.      *)
LEMMA TakeCompletedCounts ==
  ASSUME IInv, CountsRuns, TakeCompleted, IInv'
  PROVE  CountsRuns'
<1>1. /\ events # <<>> /\ events' = Tail(events)
      /\ Head(events).kind = "completed"
      /\ tracker' = RecordResult(tracker, Head(events).instance, Head(events).runtime)
      /\ UNCHANGED world /\ UNCHANGED <<clock, phase, started, runtime>>
  BY DEF TakeCompleted, world
<1>2. 1 \in DOMAIN events /\ Head(events) = events[1]
  BY <1>1, TakeView
<1>3. PICK i \in Instances, r \in Nat :
        /\ IsResult(1, i) /\ r = events[1].runtime /\ i = events[1].instance
        /\ tracker' = RecordResult(tracker, i, r)
  BY <1>1, <1>2, EventTypes DEF IsDispatch, IsResult
<1>4. TracksRuns /\ TracksRuns'
  BY TakeCompletedTracks DEF CountsRuns
<1>5. /\ phase[i] \in Ended \cup {"cached"} /\ r = runtime[i]
      /\ \A j \in Instances : (IsResult(1, j) <=> j = i) /\ ~IsDispatch(1, j)
  <2>1. phase[i] \in Ended \cup {"cached"} /\ r = runtime[i]
    BY <1>2, <1>3, <1>4 DEF TracksRuns, ChannelIsTrue
  <2>2. \A j \in Instances : (IsResult(1, j) <=> j = i) /\ ~IsDispatch(1, j)
    BY <1>2, <1>3, EventTypes
  <2> QED
    BY <2>1, <2>2
<1>6. /\ \A k \in DOMAIN events' : SentAt(k)' = SentAt(k + 1) /\ (IsExact(k)' <=> IsExact(k + 1))
      /\ \A j \in Instances : /\ Announced(j) <=> Announced(j)'
                              /\ Returned(j) <=> j = i \/ Returned(j)'
      /\ ~Announced(i)' /\ ~Returned(i)'
      /\ \A k \in DOMAIN events' : k \in Nat \ {0} /\ k + 1 \in DOMAIN events
  BY <1>1, <1>4, <1>5, TakeChannel, TakeView
<1>7. CASE tracker.ready
  <2>1. tracker' = tracker
    BY <1>3, <1>7, ReadyIsFinal DEF IInv, TypeOK
  <2>2. BusyIsPast'
    BY <1>7, <2>1 DEF BusyIsPast
  <2>3. \A j \in Instances : InTime(j)' <=> InTime(j)
    BY <1>1, <2>1 DEF InTime
  <2>4. CountIsExact'
    BY <1>1, <1>7, <2>1, <2>3 DEF CountsRuns, CountIsExact, ChargedIsReal
  <2> QED
    BY <1>4, <2>2, <2>4 DEF CountsRuns
<1>8. CASE ~tracker.ready /\ ~ChargedIsReal
  BY <1>1, <1>4, <1>8 DEF CountsRuns, BusyIsPast, CountIsExact, ChargedIsReal
<1>9. CASE ~tracker.ready /\ ChargedIsReal
  <2>1. tracker.assigned[i] # None
    <3>1. ~Announced(i) /\ Returned(i) /\ phase[i] # "cached"
      BY <1>6, <1>9 DEF ChargedIsReal
    <3> QED
      BY <1>4, <1>9, <3>1 DEF TracksRuns, FollowsRuns
  <2>2. PICK b \in Buckets : tracker.assigned[i] = b /\ tracker.pending[b] = i
    BY <2>1 DEF IInv, TypeOK, Trackers, Settled
  <2>3. /\ tracker'.t0 = tracker.t0
        /\ tracker'.busy = [tracker.busy EXCEPT ![b] = tracker.since[b] + r]
        /\ tracker'.solved = IF tracker.since[b] + r <= Checkpoint /\ r < Cutoff
                             THEN tracker.solved + 1 ELSE tracker.solved
        /\ tracker'.ready => PastHorizon(tracker',
             IF r < Cutoff THEN tracker.since[b] + r ELSE tracker.since[b])
    <3>1. tracker \in Trackers /\ i \in Instances /\ r \in Nat
      BY <1>3 DEF IInv, TypeOK
    <3>2. PICK n : n = RecordResult(tracker, i, r)
      OBVIOUS
    <3>3. /\ n.t0 = tracker.t0
          /\ n.busy = [tracker.busy EXCEPT ![b] = tracker.since[b] + r]
          /\ n.solved = IF tracker.since[b] + r <= Checkpoint /\ r < Cutoff
                        THEN tracker.solved + 1 ELSE tracker.solved
          /\ n.ready => PastHorizon(n, IF r < Cutoff THEN tracker.since[b] + r ELSE tracker.since[b])
      BY <1>9, <2>1, <2>2, <3>1, <3>2, ResultSays
    <3>4. tracker' = n
      BY <1>3, <3>2
    <3> QED
      BY <3>3, <3>4
  <2>4. /\ tracker.since[b] = started[i] - tracker.t0
        /\ tracker.t0 # None /\ tracker.t0 \in Int /\ clock \in Int /\ Cutoff \in Nat
        /\ tracker.busy \in [Buckets -> Int]
        /\ phase[i] \in {"solved", "timedOut"} /\ started[i] \in Nat /\ runtime[i] = r /\ r \in Nat
        /\ phase[i] = "solved" <=> r < Cutoff
    <3>1. tracker.since[b] = started[i] - tracker.t0 /\ tracker.t0 # None
      BY <1>4, <2>1, <2>2 DEF TracksRuns, PendingIsTrue, HitsFirst
    <3>2. phase[i] \in {"solved", "timedOut"}
      BY <1>5, <1>9 DEF ChargedIsReal, Ended
    <3>3. started[i] \in Nat /\ (phase[i] = "solved" <=> r < Cutoff) /\ Cutoff \in Nat
      BY <1>4, <1>5, <3>2, TimesAssumption DEF TracksRuns, ChargesAreTrue, Ended
    <3> QED
      BY <1>3, <1>5, <3>1, <3>2, <3>3 DEF IInv, TypeOK, Trackers, None
  <2>5. PICK sent \in Int : sent = started[i] + r /\ SentAt(1) = sent
    BY <1>3, <2>4 DEF SentAt, IsResult
  <2>6. sent <= clock /\ \A k \in DOMAIN events' : IsExact(k)' => sent <= SentAt(k)'
    <3>1. phase[events[1].instance] # "cached" /\ \A k \in DOMAIN events' : 1 < k + 1
      BY <1>3, <1>6, <1>9 DEF ChargedIsReal
    <3> QED
      BY <1>2, <1>4, <1>6, <2>5, <3>1 DEF TracksRuns, InOrder
  <2>7. \A k \in DOMAIN events' : SentAt(k)' \in Int
    <3>1. \A k \in DOMAIN events : events[k].instance \in Instances
      BY EventTypes
    <3>2. \A k \in DOMAIN events : SentAt(k) \in Int
      BY <1>4, <1>9, <3>1, SentAtType DEF TracksRuns, ChargedIsReal
    <3> QED
      BY <1>6, <3>2
  <2>8. \A c \in Buckets :
          /\ tracker'.t0 + tracker'.busy[c] <= clock'
          /\ \A k \in DOMAIN events' : IsExact(k)' =>
               tracker'.t0 + tracker'.busy[c] <= SentAt(k)'
    <3> TAKE c \in Buckets
    <3>1. CASE c = b
      <4>1. tracker'.t0 + tracker'.busy[c] = sent
        BY <2>3, <2>4, <2>5, <3>1
      <4> QED
        BY <1>1, <2>6, <4>1
    <3>2. CASE c # b
      <4>1. tracker'.busy[c] = tracker.busy[c]
        BY <2>3, <2>4, <3>2
      <4> QED
        BY <1>1, <1>6, <1>9, <2>3, <2>4, <4>1 DEF CountsRuns, BusyIsPast
    <3> QED
      BY <3>1, <3>2
  <2>9. BusyIsPast'
    BY <2>3, <2>4, <2>8 DEF BusyIsPast
  <2>10. tracker'.solved = Cardinality({j \in Instances : InTime(j)' /\ ~Returned(j)'})
    <3> DEFINE Before == {j \in Instances : InTime(j) /\ ~Returned(j)}
    <3>1. tracker.solved = Cardinality(Before)
      BY <1>9 DEF CountsRuns, CountIsExact
    <3>2. \A j \in Instances : InTime(j)' <=> InTime(j)
      BY <1>1, <2>3 DEF InTime
    <3>3. i \notin Before /\ IsFiniteSet(Before)
      BY <1>6, Fewer
    <3>4. InTime(i) <=> tracker.since[b] + r <= Checkpoint /\ r < Cutoff
      BY <2>4, TimesAssumption DEF InTime
    <3>5. CASE InTime(i)
      <4>1. {j \in Instances : InTime(j)' /\ ~Returned(j)'} = Before \cup {i}
        BY <1>6, <3>2, <3>5
      <4> QED
        BY <2>3, <3>1, <3>3, <3>4, <3>5, <4>1, FS_AddElement
    <3>6. CASE ~InTime(i)
      <4>1. {j \in Instances : InTime(j)' /\ ~Returned(j)'} = Before
        BY <1>6, <3>2, <3>6
      <4> QED
        BY <2>3, <3>1, <3>4, <3>6, <4>1
    <3> QED
      BY <3>5, <3>6
  <2>11. CountIsExact'
    <3>1. tracker'.t0 # None
      BY <2>3, <2>4
    <3>2. CASE ~tracker'.ready
      BY <2>10, <3>1, <3>2 DEF CountIsExact
    <3>3. CASE tracker'.ready
      <4>1. PICK now \in Int :
              /\ now = IF r < Cutoff THEN tracker.since[b] + r ELSE tracker.since[b]
              /\ now + tracker'.t0 <= sent
        BY <2>3, <2>4, <2>5
      <4>2. tracker'.t0 \in Int
        BY <2>3, <2>4
      <4>3. PastHorizon(tracker', now) /\ now + tracker'.t0 <= clock'
        BY <1>1, <2>3, <2>4, <2>6, <3>3, <4>1, <4>2
      <4>4. \A k \in DOMAIN events' : IsExact(k)' => now + tracker'.t0 <= SentAt(k)'
        BY <2>6, <2>7, <4>1, <4>2
      <4>5. ChannelIsTrue'
        BY <1>4 DEF TracksRuns
      <4>6. /\ clock' - tracker'.t0 > Checkpoint
            /\ {j \in Instances : InTime(j)'} = {j \in Instances : InTime(j)' /\ ~Returned(j)'}
        BY <2>8, <4>3, <4>4, <4>5, CountNow
      <4> QED
        BY <2>10, <3>1, <3>3, <4>6 DEF CountIsExact
    <3> QED
      BY <3>2, <3>3
  <2> QED
    BY <1>4, <2>9, <2>11 DEF CountsRuns
<1> QED
  BY <1>7, <1>8, <1>9

(* A verdict by a poll: nothing on a worker can be in time any more.       *)
LEMMA PollCounts ==
  ASSUME IInv, CountsRuns, Poll, IInv'
  PROVE  CountsRuns'
<1>1. /\ events = <<>> /\ tracker' = PollTracker(tracker, clock)
      /\ UNCHANGED <<clock, phase, started, runtime, events>>
      /\ clock \in Nat /\ tracker \in Trackers
  BY DEF Poll, world, IInv, TypeOK
<1>2. TracksRuns'
  BY PollTracks DEF CountsRuns
<1>3. DOMAIN events' = {}
  BY <1>1
<1>4. CASE tracker.ready
  <2>1. tracker' = tracker
    BY <1>1, <1>4, ReadyPolls
  <2>2. BusyIsPast'
    BY <1>4, <2>1 DEF BusyIsPast
  <2>3. \A j \in Instances : InTime(j)' <=> InTime(j)
    BY <1>1, <2>1 DEF InTime
  <2>4. CountIsExact'
    BY <1>1, <1>4, <2>1, <2>3 DEF CountsRuns, CountIsExact, ChargedIsReal
  <2> QED
    BY <1>2, <2>2, <2>4 DEF CountsRuns
<1>5. CASE ~tracker.ready
  <2>1. /\ tracker'.t0 = tracker.t0 /\ tracker'.busy = tracker.busy
        /\ tracker'.solved = tracker.solved
        /\ tracker'.ready => tracker.t0 # None /\ PastHorizon(tracker', clock - tracker.t0)
    BY <1>1, <1>5, PollSays
  <2>2. \A j \in Instances : (InTime(j)' <=> InTime(j)) /\ (Returned(j)' <=> Returned(j))
    BY <1>1, <2>1 DEF InTime, Returned, IsResult
  <2>3. ChargedIsReal' <=> ChargedIsReal
    BY <1>1 DEF ChargedIsReal
  <2>4. BusyIsPast'
    BY <1>1, <1>3, <1>5, <2>1, <2>3 DEF CountsRuns, BusyIsPast
  <2>5. CountIsExact'
    <3> SUFFICES ASSUME ChargedIsReal PROVE CountIsExact'
      BY <2>3 DEF CountIsExact
    <3>1. /\ tracker'.solved = Cardinality({j \in Instances : InTime(j)' /\ ~Returned(j)'})
          /\ tracker'.t0 = None => \A j \in Instances : phase'[j] \in Ended => Returned(j)'
      BY <1>1, <1>5, <2>1, <2>2 DEF CountsRuns, CountIsExact
    <3>2. CASE ~tracker'.ready
      BY <3>1, <3>2 DEF CountIsExact
    <3>3. CASE tracker'.ready
      <4>1. tracker'.t0 # None /\ tracker'.t0 \in Int
        BY <1>1, <2>1, <3>3 DEF Trackers, None
      <4>2. PICK now \in Int : now = clock - tracker'.t0 /\ now + tracker'.t0 <= clock'
        BY <1>1, <4>1
      <4>3. PastHorizon(tracker', now)
        BY <2>1, <3>3, <4>2
      <4>4. \A c \in Buckets : tracker'.t0 + tracker'.busy[c] <= clock'
        BY <1>1, <1>5, <2>1, <4>1 DEF CountsRuns, BusyIsPast
      <4>5. ChannelIsTrue'
        BY <1>2 DEF TracksRuns
      <4>6. /\ clock' - tracker'.t0 > Checkpoint
            /\ {j \in Instances : InTime(j)'} = {j \in Instances : InTime(j)' /\ ~Returned(j)'}
        BY <1>3, <4>2, <4>3, <4>4, <4>5, CountNow
      <4> QED
        BY <3>1, <3>3, <4>1, <4>6 DEF CountIsExact
    <3> QED
      BY <3>2, <3>3
  <2> QED
    BY <1>2, <2>4, <2>5 DEF CountsRuns
<1> QED
  BY <1>4, <1>5

(* Every step keeps the count exact.                                       *)
LEMMA NextCounts ==
  ASSUME IInv, CountsRuns, Real <= Virtual, [Next]_vars
  PROVE  CountsRuns'
<1>0. IInv'
  BY NextInv
<1>1. CASE UNCHANGED vars
  <2>1. TracksRuns'
    BY NextTracks DEF CountsRuns
  <2>2. UNCHANGED <<clock, phase, started, runtime, events, tracker>>
    BY <1>1 DEF vars, world, consumer
  <2>3. BusyIsPast'
    BY <2>2 DEF CountsRuns, BusyIsPast, ChargedIsReal, SentAt, IsExact
  <2>4. \A i \in Instances : (InTime(i)' <=> InTime(i)) /\ (Returned(i)' <=> Returned(i))
    BY <2>2 DEF InTime, Returned, IsResult
  <2>5. CountIsExact'
    BY <2>2, <2>4 DEF CountsRuns, CountIsExact, ChargedIsReal
  <2> QED
    BY <2>1, <2>3, <2>5 DEF CountsRuns
<1>2. ASSUME NEW i \in Instances, Solver(i) PROVE CountsRuns'
  <2>1. CASE Start(i)
    BY <2>1, StartCounts
  <2>2. ASSUME NEW end \in Ended, NEW r \in Nat, RunEnds(i, end, r) PROVE CountsRuns'
    BY <2>2, EndCounts
  <2>3. CASE ~Start(i)
    BY <1>2, <2>2, <2>3, SolverEnds
  <2> QED
    BY <2>1, <2>3
<1> QED
  BY <1>0, <1>1, <1>2, TickCounts, TakeDispatchedCounts, TakeCompletedCounts, PollCounts DEF Next

(* The count behind the verdict is exact all along where charged time is   *)
(* real time: before the verdict it is the number of runs that ended solved *)
(* within the horizon and were collected, from the verdict on the number   *)
(* of all of them, and no run that is still out can change that            *)
(* (record and score of src/ils/futell.rs).                         *)
THEOREM RunsAreCounted ==
  ASSUME Real <= Virtual
  PROVE  Spec => []CountsRuns
<1>1. IInv /\ CountsRuns /\ [Next]_vars => CountsRuns'
  BY NextCounts
<1> QED
  BY <1>1, InitCounts, Bookkeeping, PTL DEF Spec

(* So the early score is the final one: with no more real workers than     *)
(* virtual ones, nothing cached and no run failed early, the count read    *)
(* when the tracker first turns ready is the number of runs solved within  *)
(* the horizon in real time (FutureTell::score of src/ils/futell.rs).      *)
THEOREM ScoreCountsInTime ==
  ASSUME Real <= Virtual
  PROVE  Spec => []ScoreIsExact
<1>1. CountsRuns => ScoreIsExact
  BY DEF CountsRuns, CountIsExact, ScoreIsExact
<1> QED
  BY <1>1, RunsAreCounted, PTL
=============================================================================
