-------------------------- MODULE LocalSearchProofs --------------------------
(***************************************************************************)
(* What holds of the local search for any neighbourhoods, any instances    *)
(* and costs, whatever the evaluation service does that its specification  *)
(* allows: only a neighbour's own results count, nobody is called off or   *)
(* left out without a verdict, capping ends no candidate that could have   *)
(* become the incumbent, descents improve, and no conclusion is lost.      *)
(***************************************************************************)
EXTENDS LocalSearch, FiniteSetTheorems, SequenceTheorems, TLAPS

-----------------------------------------------------------------------------
(* The channel.                                                            *)

(* Reading takes the first event and moves the others one place up.        *)
LEMMA TailOfEvents ==
  ASSUME events \in Seq(Events), events # <<>>, events' = Tail(events)
  PROVE  /\ events' \in Seq(Events)
         /\ DOMAIN events' \subseteq Nat
         /\ Head(events) = events[1] /\ 1 \in DOMAIN events /\ events[1] \in Events
         /\ \A k \in DOMAIN events' :
              k \in Nat /\ k + 1 \in DOMAIN events /\ k + 1 # 1 /\ events'[k] = events[k + 1]
         /\ \A k \in DOMAIN events : k # 1 => k - 1 \in DOMAIN events' /\ events'[k - 1] = events[k]
<1>1. /\ Head(events) \in Events /\ Tail(events) \in Seq(Events)
      /\ Len(Tail(events)) = Len(events) - 1
      /\ \A i \in 1 .. Len(Tail(events)) : Tail(events)[i] = events[i + 1]
  BY HeadTailProperties, Zenon
<1>2. DOMAIN events = 1 .. Len(events) /\ Len(events) \in Nat \ {0}
  BY EmptySeq, LenProperties
<1>3. DOMAIN events' = 1 .. Len(events) - 1
  BY <1>1, LenProperties
<1>4. Head(events) = events[1] /\ 1 \in DOMAIN events /\ events[1] \in Events
  BY <1>1, <1>2
<1> QED
  BY <1>1, <1>2, <1>3, <1>4

(* Delivering adds to the end of the channel, or does nothing.             *)
LEMMA CatEvents ==
  ASSUME NEW a \in Seq(Events), NEW b \in Seq(Events)
  PROVE  /\ a \o b \in Seq(Events)
         /\ \A k \in DOMAIN a : k \in DOMAIN (a \o b) /\ (a \o b)[k] = a[k]
         /\ \A k \in DOMAIN (a \o b) :
              \/ k \in DOMAIN a /\ (a \o b)[k] = a[k]
              \/ k \notin DOMAIN a /\ k - Len(a) \in DOMAIN b /\ k \in Int
                 /\ (a \o b)[k] = b[k - Len(a)]
         /\ \A k \in DOMAIN b : k + Len(a) \in DOMAIN (a \o b) /\ (a \o b)[k + Len(a)] = b[k]
<1>1. /\ a \o b \in Seq(Events) /\ Len(a \o b) = Len(a) + Len(b)
      /\ \A i \in 1 .. Len(a) + Len(b) :
           (a \o b)[i] = IF i <= Len(a) THEN a[i] ELSE b[i - Len(a)]
  BY ConcatProperties, Zenon
<1>2. /\ DOMAIN a = 1 .. Len(a) /\ DOMAIN b = 1 .. Len(b) /\ Len(a) \in Nat /\ Len(b) \in Nat
      /\ DOMAIN (a \o b) = 1 .. Len(a \o b)
  BY <1>1, LenProperties
<1> QED
  BY <1>1, <1>2

LEMMA OneEvent ==
  ASSUME NEW e \in Events
  PROVE  <<e>> \in Seq(Events) /\ Len(<<e>>) = 1 /\ DOMAIN <<e>> = {1} /\ <<e>>[1] = e
OBVIOUS

(* The read event is the one at 1, the others stay.                        *)
LEMMA ReadKeeps ==
  ASSUME TypeOK, NoneAhead, KilledAreOff, ReadEvent
  PROVE  /\ events' \in Seq(Events)
         /\ NoneAhead' /\ KilledAreOff'
         /\ \A r : Out(r)' => Out(r)
<1>0. events \in Seq(Events) /\ events # <<>> /\ events' = Tail(events)
      /\ UNCHANGED <<batchId, cancelled, interrupted, closed, owed, running>>
  BY DEF TypeOK, ReadEvent
<1>1. /\ events' \in Seq(Events)
      /\ \A k \in DOMAIN events' : k + 1 \in DOMAIN events /\ events'[k] = events[k + 1]
  BY <1>0, TailOfEvents
<1>2. NoneAhead'
  BY <1>0, <1>1 DEF NoneAhead
<1>3. KilledAreOff'
  BY <1>0, <1>1 DEF KilledAreOff, CalledOff, IsStale, TaskOf
<1>4. \A r : Out(r)' => Out(r)
  BY <1>0, <1>1 DEF Out, Reports
<1> QED
  BY <1>1, <1>2, <1>3, <1>4

(* No work is of a batch that begins, whatever was counted before.         *)
LEMMA NewBatchKeeps ==
  ASSUME TypeOK, NoneAhead, NewBatch
  PROVE  /\ NoneAhead' /\ OnePlace' /\ KilledAreOff'
         /\ \A n \in Neighbours, i \in Instances : ~Out(<<batchId, n, i>>)'
         /\ \A n \in Neighbours : <<batchId', n>> \notin cancelled'
<1>1. /\ batchId \in Nat /\ batchId' = batchId + 1
      /\ UNCHANGED <<cancelled, interrupted, closed, owed, running, events>>
  BY DEF TypeOK, NewBatch
<1>2. \A r \in owed \cup running : r \in AllRuns /\ r[1] \in Nat /\ r[1] <= batchId
  BY DEF TypeOK, NoneAhead, AllRuns
<1>3. \A k \in DOMAIN events : events[k] \in Events
  BY DEF TypeOK
<1>4. \A k \in DOMAIN events :
        events[k].run \in AllRuns /\ events[k].run[1] \in Nat /\ events[k].run[1] <= batchId
  BY <1>3 DEF NoneAhead, Events, AllRuns
<1>5. \A t \in cancelled : t[1] \in Nat /\ t[1] <= batchId
  BY DEF TypeOK, NoneAhead
<1>6. NoneAhead'
  BY <1>1, <1>2, <1>4, <1>5 DEF NoneAhead
<1>7. \A n \in Neighbours, i \in Instances : ~Out(<<batchId, n, i>>)'
  BY <1>1, <1>2, <1>4 DEF Out, Reports
<1>8. OnePlace'
  BY <1>7 DEF OnePlace, Out
<1>9. KilledAreOff'
  BY <1>1, <1>4 DEF KilledAreOff, CalledOff, IsStale, TaskOf
<1>10. \A n \in Neighbours : <<batchId', n>> \notin cancelled'
  BY <1>1, <1>5
<1> QED
  BY <1>6, <1>7, <1>8, <1>9, <1>10

-----------------------------------------------------------------------------
(* The workers.                                                            *)

LEMMA EventTypes ==
  ASSUME NEW r \in AllRuns
  PROVE  /\ Announcement(r) \in Events
         /\ Announcement(r).kind = "Dispatched" /\ Announcement(r).run = r
         /\ \A st \in Statuses, f, k \in BOOLEAN :
              /\ Result(r, st, f, k) \in Events
              /\ Result(r, st, f, k).kind = "Completed" /\ Result(r, st, f, k).run = r
              /\ Result(r, st, f, k).status = st /\ Result(r, st, f, k).cacheable = f
              /\ Result(r, st, f, k).killed = k
  BY DEF Announcement, Result, Events

LEMMA DeliverOne ==
  ASSUME TypeOK, NEW e \in Events, Deliver(<<e>>)
  PROVE  /\ events' \in Seq(Events)
         /\ \A k \in DOMAIN events : k \in DOMAIN events' /\ events'[k] = events[k]
         /\ \A k \in DOMAIN events' :
              \/ k \in DOMAIN events /\ events'[k] = events[k]
              \/ ~closed /\ k = Len(events) + 1 /\ events'[k] = e
         /\ ~closed => /\ Len(events) + 1 \in DOMAIN events'
                       /\ events'[Len(events) + 1] = e
                       /\ Len(events) + 1 \notin DOMAIN events
<1>1. events \in Seq(Events)
  BY DEF TypeOK
<1>2. CASE closed
  BY <1>1, <1>2 DEF Deliver
<1>3. CASE ~closed
  <2>1. events' = events \o <<e>>
    BY <1>3 DEF Deliver
  <2>2. <<e>> \in Seq(Events) /\ DOMAIN <<e>> = {1} /\ <<e>>[1] = e
    BY OneEvent
  <2>3. DOMAIN events = 1 .. Len(events) /\ Len(events) \in Nat
    BY <1>1, LenProperties
  <2>4. \A k \in DOMAIN events' :
          \/ k \in DOMAIN events /\ events'[k] = events[k]
          \/ k = Len(events) + 1 /\ events'[k] = e
    <3> SUFFICES ASSUME NEW k \in DOMAIN events', k \notin DOMAIN events
                 PROVE  k = Len(events) + 1 /\ events'[k] = e
      BY <1>1, <2>1, <2>2, CatEvents
    <3>1. k \in Int /\ k - Len(events) \in {1} /\ events'[k] = <<e>>[k - Len(events)]
      BY <1>1, <2>1, <2>2, CatEvents
    <3> QED
      BY <2>2, <2>3, <3>1
  <2>5. 1 + Len(events) \in DOMAIN events' /\ events'[1 + Len(events)] = e
    BY <1>1, <2>1, <2>2, CatEvents
  <2> QED
    BY <1>1, <1>3, <2>1, <2>2, <2>3, <2>4, <2>5, CatEvents
<1> QED
  BY <1>2, <1>3

(* What a step of a worker must leave as it was.                           *)
Untouched == batchId' = batchId /\ cancelled' = cancelled /\ closed' = closed

LEMMA BeginKeeps ==
  ASSUME TypeOK, NoneAhead, OnePlace, KilledAreOff, Savable,
         NEW r \in owed, Begin(r), got' = got, unsaved' = unsaved, failed' = failed
  PROVE  /\ events' \in Seq(Events) /\ owed' \subseteq AllRuns /\ running' \subseteq AllRuns
         /\ Untouched /\ NoneAhead' /\ OnePlace' /\ KilledAreOff' /\ Savable'
         /\ \A q : Out(q)' => Out(q)
<1>1. /\ r \in AllRuns /\ r[1] <= batchId
      /\ owed' = owed \ {r} /\ running' = running \cup {r}
      /\ UNCHANGED <<batchId, cancelled, closed>>
  BY DEF TypeOK, NoneAhead, Begin
<1>2. PICK e \in Events : e.kind = "Dispatched" /\ e.run = r /\ Deliver(<<e>>)
  BY <1>1, EventTypes DEF Begin
<1>3. /\ events' \in Seq(Events)
      /\ \A k \in DOMAIN events : k \in DOMAIN events' /\ events'[k] = events[k]
      /\ \A k \in DOMAIN events' :
           (k \in DOMAIN events /\ events'[k] = events[k]) \/ events'[k] = e
  BY <1>2, DeliverOne
<1>4. \A k \in DOMAIN events' : \A q : Reports(k, q)' => k \in DOMAIN events /\ Reports(k, q)
  BY <1>2, <1>3 DEF Reports
<1>5. \A q : Out(q)' => Out(q)
  BY <1>1, <1>4 DEF Out
<1>6. NoneAhead'
  BY <1>1, <1>2, <1>3 DEF NoneAhead
<1>7. OnePlace'
  <2> SUFFICES ASSUME NEW n \in Neighbours, NEW i \in Instances, NEW q, q = <<batchId, n, i>>
               PROVE  /\ q \in owed' => q \notin running'
                      /\ \A k \in DOMAIN events' : Reports(k, q)' =>
                           /\ q \notin owed' \cup running'
                           /\ \A j \in DOMAIN events' : Reports(j, q)' => j = k
                      /\ Out(q)' => i \notin Items(got'[n])
    BY <1>1 DEF OnePlace
  <2>1. /\ q \in owed => q \notin running
        /\ \A k \in DOMAIN events : Reports(k, q) =>
             /\ q \notin owed \cup running
             /\ \A j \in DOMAIN events : Reports(j, q) => j = k
        /\ Out(q) => i \notin Items(got[n])
    BY DEF OnePlace
  <2> QED
    BY <1>1, <1>4, <1>5, <2>1
<1>8. KilledAreOff'
  BY <1>1, <1>2, <1>3 DEF KilledAreOff, CalledOff, IsStale
<1>9. Savable'
  BY <1>1, <1>3 DEF Savable, Reports
<1> QED
  BY <1>1, <1>3, <1>5, <1>6, <1>7, <1>8, <1>9 DEF TypeOK, Untouched

LEMMA GiveUpKeeps ==
  ASSUME TypeOK, NoneAhead, OnePlace, KilledAreOff, Savable,
         NEW r, GiveUp(r), got' = got, unsaved' = unsaved, failed' = failed
  PROVE  /\ events' \in Seq(Events) /\ owed' \subseteq AllRuns /\ running' \subseteq AllRuns
         /\ Untouched /\ NoneAhead' /\ OnePlace' /\ KilledAreOff' /\ Savable'
         /\ \A q : Out(q)' => Out(q)
<1>1. /\ owed' \subseteq owed /\ running' \subseteq running
      /\ UNCHANGED <<batchId, cancelled, closed, events>>
  BY DEF GiveUp
<1>2. \A q : Out(q)' => Out(q)
  BY <1>1 DEF Out, Reports
<1>3. NoneAhead' /\ KilledAreOff' /\ Savable'
  BY <1>1 DEF NoneAhead, KilledAreOff, CalledOff, IsStale, Savable, Reports
<1>4. OnePlace'
  BY <1>1, <1>2 DEF OnePlace, Reports
<1> QED
  BY <1>1, <1>2, <1>3, <1>4 DEF TypeOK, Untouched

LEMMA FinishKeeps ==
  ASSUME TypeOK, NoneAhead, OnePlace, KilledAreOff, Savable, got' = got, failed' = failed,
         NEW r \in running, NEW st \in Statuses, NEW x \in BOOLEAN, Finish(r, st, x),
         \/ unsaved' = unsaved
         \/ st # "UNKNOWN" /\ unsaved' = (IF closed THEN unsaved ELSE unsaved \cup {r})
  PROVE  /\ events' \in Seq(Events) /\ owed' \subseteq AllRuns /\ running' \subseteq AllRuns
         /\ unsaved' \subseteq AllRuns
         /\ Untouched /\ NoneAhead' /\ OnePlace' /\ KilledAreOff' /\ Savable'
         /\ \A q : Out(q)' => Out(q)
<1>1. /\ r \in AllRuns /\ r[1] <= batchId
      /\ owed' = owed /\ running' = running \ {r}
      /\ x => CalledOff(TaskOf(r))
      /\ UNCHANGED <<batchId, cancelled, closed>>
  BY DEF TypeOK, NoneAhead, Finish
<1>2. PICK e \in Events : /\ e.kind = "Completed" /\ e.run = r /\ e.status = st
                          /\ e.cacheable /\ e.killed = x /\ Deliver(<<e>>)
  <2> DEFINE e == Result(r, st, TRUE, x)
  <2>1. /\ e \in Events /\ e.kind = "Completed" /\ e.run = r /\ e.status = st
        /\ e.cacheable /\ e.killed = x
    BY <1>1 DEF Result, Events
  <2>2. Deliver(<<e>>)
    BY DEF Finish
  <2> HIDE DEF e
  <2> QED
    BY <2>1, <2>2
<1>3. /\ events' \in Seq(Events)
      /\ \A k \in DOMAIN events : k \in DOMAIN events' /\ events'[k] = events[k]
      /\ \A k \in DOMAIN events' :
           \/ k \in DOMAIN events /\ events'[k] = events[k]
           \/ k = Len(events) + 1 /\ events'[k] = e
      /\ ~closed => /\ Len(events) + 1 \in DOMAIN events'
                    /\ events'[Len(events) + 1] = e
  BY <1>2, DeliverOne
<1>4. \A k \in DOMAIN events' : \A q : Reports(k, q)' =>
        \/ k \in DOMAIN events /\ Reports(k, q)
        \/ k = Len(events) + 1 /\ q = r
  BY <1>2, <1>3 DEF Reports
<1>5. \A q : Out(q)' => Out(q)
  BY <1>1, <1>4 DEF Out
<1>6. NoneAhead'
  BY <1>1, <1>2, <1>3 DEF NoneAhead
<1>7. OnePlace'
  <2> SUFFICES ASSUME NEW n \in Neighbours, NEW i \in Instances, NEW q, q = <<batchId, n, i>>
               PROVE  /\ q \in owed' => q \notin running'
                      /\ \A k \in DOMAIN events' : Reports(k, q)' =>
                           /\ q \notin owed' \cup running'
                           /\ \A j \in DOMAIN events' : Reports(j, q)' => j = k
                      /\ Out(q)' => i \notin Items(got'[n])
    BY <1>1 DEF OnePlace
  <2>1. /\ q \in owed => q \notin running
        /\ \A k \in DOMAIN events : Reports(k, q) =>
             /\ q \notin owed \cup running
             /\ \A j \in DOMAIN events : Reports(j, q) => j = k
        /\ Out(q) => i \notin Items(got[n])
    BY DEF OnePlace
  <2> QED
    BY <1>1, <1>4, <1>5, <2>1
<1>8. KilledAreOff'
  BY <1>1, <1>2, <1>3 DEF KilledAreOff, CalledOff, IsStale
<1>9. Savable'
  <2> SUFFICES ASSUME ~(closed \/ failed), NEW q \in unsaved'
               PROVE  \E k \in DOMAIN events' : /\ Reports(k, q)' /\ events'[k].cacheable
                                                /\ events'[k].status # "UNKNOWN"
    BY <1>1 DEF Savable
  <2>1. CASE q \in unsaved
    BY <1>3, <2>1 DEF Savable, Reports
  <2>2. CASE q \notin unsaved
    BY <1>2, <1>3, <2>2 DEF Reports
  <2> QED
    BY <2>1, <2>2
<1> QED
  BY <1>1, <1>3, <1>5, <1>6, <1>7, <1>8, <1>9 DEF TypeOK, Untouched

-----------------------------------------------------------------------------
(* One lemma for every action.                                             *)

(* The events, runs and counted instances stay what they were.             *)
LEMMA Quiet ==
  ASSUME NoneAhead, OnePlace, KilledAreOff,
         UNCHANGED <<batchId, cancelled, owed, running, events, got>>
  PROVE  NoneAhead' /\ OnePlace' /\ KilledAreOff' /\ \A r : Out(r)' => Out(r)
<1>1. NoneAhead' /\ KilledAreOff'
  BY DEF NoneAhead, KilledAreOff, CalledOff, IsStale, TaskOf
<1>2. \A r : Out(r)' <=> Out(r)
  BY DEF Out, Reports
<1>3. OnePlace'
  BY <1>2 DEF OnePlace, Reports
<1> QED
  BY <1>1, <1>2, <1>3

LEMMA QuietSavable ==
  ASSUME Savable, UNCHANGED <<closed, failed, events, unsaved>>
  PROVE  Savable'
BY DEF Savable, Reports

(* Both evaluations are ones, whichever a step makes of the counts.        *)
LEMMA SumsAreNumbers ==
  ASSUME TypeOK, NEW n \in Neighbours
  PROVE  Len(got[n]) \in Nat /\ partial[n] \in Nat
BY LenProperties DEF TypeOK

LEMMA InstanceCount == N \in Nat
BY InstancesAssumption, FS_CardinalityType DEF N

LEMMA WorkKeeps ==
  ASSUME IInv, NEW r \in owed \cup running, Work(r)
  PROVE  IInv'
<1> USE DEF IInv
<1>0. UNCHANGED <<loopVars, tallyVars, evalVars, endVars>> /\ interrupted' = interrupted
  BY DEF Work, Begin, GiveUp, Finish
<1> DEFINE Kept ==
      /\ events' \in Seq(Events) /\ owed' \subseteq AllRuns /\ running' \subseteq AllRuns
      /\ unsaved' \subseteq AllRuns
      /\ Untouched /\ NoneAhead' /\ OnePlace' /\ KilledAreOff' /\ Savable'
      /\ \A q : Out(q)' => Out(q)
<1>1. Kept
  <2>0. got' = got /\ failed' = failed /\ unsaved \subseteq AllRuns
    BY <1>0 DEF tallyVars, endVars, TypeOK
  <2>1. CASE Begin(r) /\ UNCHANGED unsaved
    <3>1. r \in owed
      BY <2>1 DEF Begin
    <3> QED
      BY <2>0, <2>1, <3>1, BeginKeeps
  <2>2. CASE GiveUp(r) /\ UNCHANGED unsaved
    BY <2>0, <2>2, GiveUpKeeps
  <2>3. ASSUME NEW k \in BOOLEAN, Finish(r, "UNKNOWN", k), UNCHANGED unsaved
        PROVE  Kept
    <3>1. r \in running /\ "UNKNOWN" \in Statuses
      BY <2>3 DEF Finish, Statuses
    <3> QED
      BY <2>0, <2>3, <3>1, FinishKeeps
  <2>4. ASSUME NEW k \in BOOLEAN, Finish(r, "line", k),
               unsaved' = IF closed THEN unsaved ELSE unsaved \cup {r}
        PROVE  Kept
    <3>1. r \in running /\ "line" \in Statuses /\ "line" # "UNKNOWN"
      BY <2>4 DEF Finish, Statuses
    <3> QED
      BY <2>0, <2>4, <3>1, FinishKeeps
  <2> QED
    BY <2>1, <2>2, <2>3, <2>4 DEF Work
<1>2. TypeOK'
  BY <1>0, <1>1 DEF TypeOK, Untouched, loopVars, tallyVars, evalVars
<1>3. Fresh' /\ OffIsDecided'
  BY <1>0, <1>1 DEF Fresh, OffIsDecided, Untouched, loopVars, tallyVars
<1>4. Tally' /\ Verdicts' /\ Bounds'
  BY <1>0 DEF Tally, Verdicts, RoundIsDecided, Stop, endVars, Bounds, BoundFrom,
             loopVars, tallyVars, evalVars
<1> QED
  BY <1>1, <1>2, <1>3, <1>4

(* The deadline and the signal only stop.                                  *)
LEMMA StopKeeps ==
  ASSUME IInv, Expire \/ Interrupt
  PROVE  IInv'
<1> USE DEF IInv
<1>1. /\ UNCHANGED <<loopVars, tallyVars, evalVars, failed, unsaved>> /\ Stop'
      /\ UNCHANGED <<batchId, cancelled, closed, owed, running, events>>
  BY DEF Expire, Interrupt, Signalled, ilsVars, endVars, svars, Stop
<1>2. TypeOK'
  BY <1>1 DEF TypeOK, loopVars, tallyVars, evalVars
<1>3. NoneAhead' /\ OnePlace' /\ KilledAreOff' /\ \A r : Out(r)' => Out(r)
  BY <1>1, Quiet DEF tallyVars
<1>4. Fresh' /\ OffIsDecided'
  BY <1>1, <1>3 DEF Fresh, OffIsDecided, loopVars, tallyVars
<1>5. Tally' /\ Verdicts' /\ Bounds'
  BY <1>1 DEF Tally, Verdicts, RoundIsDecided, Bounds, BoundFrom,
             loopVars, tallyVars, evalVars
<1>6. Savable'
  BY <1>1, QuietSavable DEF endVars
<1> QED
  BY <1>2, <1>3, <1>4, <1>5, <1>6

(* What OnePlace says of the service alone.                                *)
Placed ==
  \A n \in Neighbours, i \in Instances : LET r == <<batchId, n, i>> IN
    /\ r \in owed => r \notin running
    /\ \A k \in DOMAIN events : Reports(k, r) =>
         /\ r \notin owed \cup running
         /\ \A j \in DOMAIN events : Reports(j, r) => j = k

(* A result that was read has its run in no other place.                   *)
LEMMA ReadOnePlace ==
  ASSUME TypeOK, OnePlace, ReadEvent
  PROVE  /\ Placed'
         /\ got' = got => OnePlace'
         /\ \A n \in Neighbours, i \in Instances :
              Reports(1, <<batchId, n, i>>) =>
                ~Out(<<batchId, n, i>>)' /\ i \notin Items(got[n])
<1>0. events \in Seq(Events) /\ events # <<>> /\ events' = Tail(events)
      /\ UNCHANGED <<batchId, owed, running>>
  BY DEF TypeOK, ReadEvent
<1>1. /\ 1 \in DOMAIN events
      /\ \A k \in DOMAIN events' :
           k \in Nat /\ k + 1 \in DOMAIN events /\ k + 1 # 1 /\ events'[k] = events[k + 1]
  BY <1>0, TailOfEvents
<1>2. \A k \in DOMAIN events' : \A r : Reports(k, r)' => Reports(k + 1, r)
  BY <1>1 DEF Reports
<1>3. \A r : Out(r)' => Out(r)
  BY <1>0, <1>1, <1>2 DEF Out
<1>4. Placed'
  <2> SUFFICES ASSUME NEW n \in Neighbours, NEW i \in Instances, NEW q, q = <<batchId, n, i>>
               PROVE  /\ q \in owed' => q \notin running'
                      /\ \A k \in DOMAIN events' : Reports(k, q)' =>
                           /\ q \notin owed' \cup running'
                           /\ \A j \in DOMAIN events' : Reports(j, q)' => j = k
    BY <1>0 DEF Placed
  <2>1. /\ q \in owed => q \notin running
        /\ \A k \in DOMAIN events : Reports(k, q) =>
             /\ q \notin owed \cup running
             /\ \A j \in DOMAIN events : Reports(j, q) => j = k
        /\ Out(q) => i \notin Items(got[n])
    BY DEF OnePlace
  <2>2. ASSUME NEW k \in DOMAIN events', Reports(k, q)'
        PROVE  /\ q \notin owed' \cup running'
               /\ \A j \in DOMAIN events' : Reports(j, q)' => j = k
    <3>1. Reports(k + 1, q) /\ k + 1 \in DOMAIN events /\ k \in Nat
      BY <1>1, <1>2, <2>2
    <3>2. ASSUME NEW j \in DOMAIN events', Reports(j, q)' PROVE j = k
      <4>1. Reports(j + 1, q) /\ j + 1 \in DOMAIN events /\ j \in Nat
        BY <1>1, <1>2, <3>2
      <4>2. j + 1 = k + 1
        BY <2>1, <3>1, <4>1
      <4> QED
        BY <3>1, <4>1, <4>2
    <3> QED
      BY <1>0, <2>1, <3>1, <3>2
  <2> QED
    BY <1>0, <2>1, <2>2
<1>6. ASSUME got' = got PROVE OnePlace'
  BY <1>0, <1>3, <1>4, <1>6 DEF OnePlace, Placed
<1>5. ASSUME NEW n \in Neighbours, NEW i \in Instances, Reports(1, <<batchId, n, i>>)
      PROVE  ~Out(<<batchId, n, i>>)' /\ i \notin Items(got[n])
  <2> DEFINE q == <<batchId, n, i>>
  <2>1. /\ q \notin owed \cup running
        /\ \A j \in DOMAIN events : Reports(j, q) => j = 1
    BY <1>1, <1>5 DEF OnePlace
  <2>2. i \notin Items(got[n])
    BY <1>1, <1>5 DEF OnePlace, Out
  <2> QED
    BY <1>0, <1>1, <1>2, <2>1, <2>2 DEF Out
<1> QED
  BY <1>4, <1>5, <1>6

(* What is read is saved if it is to be.                                   *)
LEMMA ReadSaves ==
  ASSUME TypeOK, Savable, ReadEvent, failed' = failed,
         \/ CacheResult(Head(events))
         \/ Head(events).kind # "Completed" /\ unsaved' = unsaved
  PROVE  Savable' /\ unsaved' \subseteq AllRuns
<1>0. events \in Seq(Events) /\ events # <<>> /\ events' = Tail(events)
      /\ closed' = closed /\ unsaved \subseteq AllRuns
  BY DEF TypeOK, ReadEvent
<1>1. /\ Head(events) = events[1]
      /\ \A k \in DOMAIN events : k # 1 => k - 1 \in DOMAIN events' /\ events'[k - 1] = events[k]
  BY <1>0, TailOfEvents
<1>2. unsaved' \subseteq unsaved
  BY DEF CacheResult
<1>3. ASSUME ~(closed \/ failed), NEW r \in unsaved'
      PROVE  \E k \in DOMAIN events' : Reports(k, r)' /\ events'[k].cacheable
                                       /\ events'[k].status # "UNKNOWN"
  <2>1. PICK k \in DOMAIN events :
          Reports(k, r) /\ events[k].cacheable /\ events[k].status # "UNKNOWN"
    BY <1>2, <1>3 DEF Savable
  <2>2. k # 1
    BY <1>1, <1>3, <2>1 DEF CacheResult, ToCache, Reports
  <2>3. k - 1 \in DOMAIN events' /\ events'[k - 1] = events[k]
    BY <1>1, <2>2
  <2> QED
    BY <2>1, <2>3 DEF Reports
<1> QED
  BY <1>0, <1>2, <1>3 DEF Savable

(* Events that change no count.                                            *)
LEMMA PassOverKeeps ==
  ASSUME IInv, TakeDispatched \/ SkipResult \/ Drain
  PROVE  IInv'
<1> USE DEF IInv
<1>1. /\ ReadEvent /\ UNCHANGED <<mode, toOffer, round, nid, verdict>>
      /\ UNCHANGED <<tallyVars, evalVars, endVars>>
      /\ \/ phase = "recv" /\ phase' = "head"
         \/ phase = "drain" /\ phase' = "drain"
  BY DEF TakeDispatched, SkipResult, Drain, loopVars
<1>2. /\ UNCHANGED <<batchId, cancelled, interrupted, closed, owed, running>>
      /\ events # <<>>
  BY <1>1 DEF ReadEvent
<1>3. \/ CacheResult(Head(events))
      \/ Head(events).kind # "Completed" /\ unsaved' = unsaved
  <2>1. "Dispatched" # "Completed"
    OBVIOUS
  <2> QED
    BY <2>1 DEF TakeDispatched, SkipResult, Drain
<1>4. Savable' /\ unsaved' \subseteq AllRuns
  BY <1>1, <1>3, ReadSaves DEF endVars
<1>5. events' \in Seq(Events) /\ NoneAhead' /\ KilledAreOff'
  BY <1>1, ReadKeeps
<1>6. OnePlace'
  BY <1>1, ReadOnePlace DEF tallyVars
<1>7. TypeOK'
  BY <1>1, <1>2, <1>4, <1>5 DEF TypeOK, tallyVars, evalVars, Phases
<1>8. Fresh' /\ OffIsDecided'
  BY <1>1, <1>2 DEF Fresh, OffIsDecided, tallyVars
<1>9. Tally' /\ Verdicts' /\ Bounds'
  BY <1>1, <1>2 DEF Tally, Verdicts, RoundIsDecided, Stop, endVars, Bounds, BoundFrom,
                   Collecting, tallyVars, evalVars
<1> QED
  BY <1>4, <1>5, <1>6, <1>7, <1>8, <1>9

(* One more instance is counted.                                           *)
LEMMA AppendItems ==
  ASSUME NEW l \in Seq(Instances), NEW i \in Instances
  PROVE  /\ Append(l, i) \in Seq(Instances) /\ Len(Append(l, i)) = Len(l) + 1
         /\ Items(Append(l, i)) = Items(l) \cup {i}
<1>1. /\ Append(l, i) \in Seq(Instances) /\ Len(Append(l, i)) = Len(l) + 1
      /\ \A k \in 1 .. Len(l) : Append(l, i)[k] = l[k]
      /\ Append(l, i)[Len(l) + 1] = i
  BY AppendProperties
<1>2. /\ DOMAIN l = 1 .. Len(l) /\ Len(l) \in Nat
      /\ DOMAIN Append(l, i) = 1 .. Len(l) + 1
  BY <1>1, LenProperties
<1>3. Items(Append(l, i)) \subseteq Items(l) \cup {i}
  BY <1>1, <1>2 DEF Items
<1>4. Items(l) \cup {i} \subseteq Items(Append(l, i))
  <2>1. \A k \in DOMAIN l : k \in DOMAIN Append(l, i) /\ Append(l, i)[k] = l[k]
    BY <1>1, <1>2
  <2>2. Len(l) + 1 \in DOMAIN Append(l, i)
    BY <1>2
  <2> QED
    BY <1>1, <2>1, <2>2 DEF Items
<1> QED
  BY <1>1, <1>3, <1>4

LEMMA ItemsAreFinite ==
  ASSUME NEW l \in Seq(Instances)
  PROVE  Items(l) \subseteq Instances /\ IsFiniteSet(Items(l))
<1>1. Items(l) \subseteq Instances
  BY DEF Items
<1> QED
  BY <1>1, InstancesAssumption, FS_Subset

LEMMA CountKeeps ==
  ASSUME IInv, CountResult
  PROVE  IInv'
<1> USE DEF IInv
<1>1. /\ events \in Seq(Events) /\ events # <<>>
      /\ ReadEvent /\ CacheResult(Head(events))
      /\ Head(events).kind = "Completed" /\ Counts(Head(events))
      /\ phase = "recv" /\ phase' = "judge"
      /\ UNCHANGED <<mode, toOffer, round, verdict, done, nDone, capped,
                     current, incumbent, bound, endVars>>
      /\ UNCHANGED <<batchId, cancelled, interrupted, closed, owed, running>>
  BY DEF TypeOK, CountResult, ReadEvent, evalVars
<1>2. Head(events) = events[1] /\ 1 \in DOMAIN events /\ events[1] \in Events
  BY <1>1, TailOfEvents
<1>e. PICK e \in Events : e = Head(events)
  BY <1>2
<1>n. PICK n \in round \ done, i \in Instances : e.run = <<batchId, n, i>>
  <2>1. e.kind = "Completed" /\ e.run \in AllRuns
    BY <1>1, <1>e DEF Events
  <2> QED
    BY <1>1, <1>e, <2>1 DEF AllRuns, Counts
<1>0. /\ nid' = n /\ n \in Neighbours
      /\ got' = [got EXCEPT ![n] = Append(@, i)]
      /\ \E c \in CostOf(e) : partial' = [partial EXCEPT ![n] = @ + c]
      /\ untrue' = (IF e.killed THEN untrue \cup {e.run} ELSE untrue)
  <2>1. e.run[2] = n /\ e.run[3] = i /\ n \in Neighbours
    BY <1>n DEF TypeOK
  <2>2. /\ nid' = e.run[2]
        /\ got' = [got EXCEPT ![e.run[2]] = Append(@, e.run[3])]
        /\ \E c \in CostOf(e) : partial' = [partial EXCEPT ![e.run[2]] = @ + c]
        /\ untrue' = (IF e.killed THEN untrue \cup {e.run} ELSE untrue)
    BY <1>e DEF CountResult
  <2> QED
    BY <2>1, <2>2
<1>3. Reports(1, <<batchId, n, i>>)
  BY <1>1, <1>2, <1>e, <1>n DEF Reports
<1>4. ~Out(<<batchId, n, i>>)' /\ i \notin Items(got[n])
  BY <1>0, <1>1, <1>3, ReadOnePlace
<1>5. events' \in Seq(Events) /\ NoneAhead' /\ KilledAreOff' /\ \A r : Out(r)' => Out(r)
  BY <1>1, ReadKeeps
<1>6. Savable' /\ unsaved' \subseteq AllRuns
  BY <1>1, ReadSaves DEF endVars
<1>7. /\ got' \in [Neighbours -> Seq(Instances)]
      /\ Len(got'[n]) = Len(got[n]) + 1 /\ Items(got'[n]) = Items(got[n]) \cup {i}
      /\ \A m \in Neighbours : m # n => got'[m] = got[m]
  BY <1>0, AppendItems DEF TypeOK
<1>8. PICK c \in Nat : partial' = [partial EXCEPT ![n] = @ + c]
  BY <1>0, CostsAssumption DEF CostOf
<1>9. partial' \in [Neighbours -> Nat] /\ \A m \in Neighbours : partial'[m] >= partial[m]
  BY <1>0, <1>8 DEF TypeOK
<1>10. TypeOK'
  BY <1>0, <1>1, <1>5, <1>6, <1>7, <1>9 DEF TypeOK, Phases
<1>11. OnePlace'
  <2>1. ASSUME NEW m \in Neighbours, NEW j \in Instances, NEW q, q = <<batchId, m, j>>,
               Out(q)'
        PROVE  j \notin Items(got'[m])
    <3>1. Out(q) /\ j \notin Items(got[m])
      BY <1>5, <2>1 DEF OnePlace
    <3>2. m = n => j # i
      BY <1>1, <1>4, <2>1 DEF Out, Reports
    <3> QED
      BY <1>7, <3>1, <3>2
  <2> QED
    BY <1>1, <2>1, ReadOnePlace DEF OnePlace, Placed
<1>12. Fresh' /\ OffIsDecided'
  BY <1>1 DEF Fresh, OffIsDecided
<1>13. Tally'
  <2>1. Cardinality(Items(got'[n])) = Len(got'[n])
    <3>1. Cardinality(Items(got[n])) = Len(got[n]) /\ IsFiniteSet(Items(got[n]))
      BY <1>0, ItemsAreFinite DEF Tally, TypeOK
    <3>2. Cardinality(Items(got[n]) \cup {i}) = Cardinality(Items(got[n])) + 1
      BY <1>4, <3>1, FS_AddElement
    <3> QED
      BY <1>7, <3>1, <3>2
  <2>2. ~e.killed
    <3>1. e.killed => CalledOff(TaskOf(e.run))
      BY <1>1, <1>2, <1>e DEF KilledAreOff
    <3>2. ~CalledOff(TaskOf(e.run))
      <4>1. TaskOf(e.run) = <<batchId, n>>
        BY <1>n DEF TaskOf
      <4>2. <<batchId, n>> \notin cancelled
        BY <1>0, <1>n DEF OffIsDecided
      <4> QED
        BY <4>1, <4>2 DEF CalledOff, IsStale
    <3> QED
      BY <3>1, <3>2
  <2> QED
    BY <1>0, <1>1, <1>7, <1>n, <2>1, <2>2 DEF Tally
<1>14. Verdicts'
  BY <1>1 DEF Verdicts, RoundIsDecided, Collecting
<1>15. Bounds'
  <2>1. \A m \in capped : m \in Neighbours /\ partial[m] \in Nat /\ incumbent.sum \in Nat
    BY DEF TypeOK, Evaluations
  <2>2. Multiplier >= Unit /\ mode = "round" =>
          \A m \in capped : partial'[m] >= incumbent.sum
    BY <1>1, <1>9, <2>1 DEF Bounds, TypeOK
  <2> QED
    BY <1>1, <2>2 DEF Bounds, BoundFrom, Collecting
<1> QED
  BY <1>5, <1>6, <1>10, <1>11, <1>12, <1>13, <1>14, <1>15

LEMMA MarkDoneCounts ==
  ASSUME TypeOK, Tally, nid \in round \ done, MarkDone
  PROVE  done' \subseteq round /\ nDone' = Cardinality(done')
<1>1. IsFiniteSet(done) /\ done \subseteq round
  BY NeighboursAssumption, FS_Subset DEF TypeOK
<1>2. Cardinality(done \cup {nid}) = Cardinality(done) + 1
  BY <1>1, FS_AddElement
<1> QED
  BY <1>1, <1>2 DEF MarkDone, Tally

LEMMA CallOffKeeps ==
  ASSUME TypeOK, NoneAhead, OnePlace, KilledAreOff, OffIsDecided, NEW n \in Neighbours,
         CallOff(n), done' = done \cup {n}, got' = got
  PROVE  /\ cancelled' \subseteq Nat \X Neighbours
         /\ NoneAhead' /\ OnePlace' /\ KilledAreOff' /\ OffIsDecided'
<1>1. /\ batchId \in Nat /\ cancelled \subseteq Nat \X Neighbours
      /\ cancelled' = cancelled \cup {<<batchId, n>>}
      /\ UNCHANGED <<batchId, interrupted, closed, owed, running, events>>
  BY DEF TypeOK, CallOff
<1>2. NoneAhead'
  BY <1>1 DEF NoneAhead
<1>3. OnePlace'
  BY <1>1 DEF OnePlace, Out, Reports
<1>4. KilledAreOff'
  BY <1>1 DEF KilledAreOff, CalledOff, IsStale
<1>5. OffIsDecided'
  BY <1>1 DEF OffIsDecided
<1> QED
  BY <1>1, <1>2, <1>3, <1>4, <1>5

LEMMA Times ==
  ASSUME NEW a \in Int, NEW b \in Int, NEW c \in Nat, a <= b
  PROVE  a * c \in Int /\ b * c \in Int /\ a * c <= b * c
<1>1. (b - a) * c >= 0 /\ (b - a) * c = b * c - a * c
  OBVIOUS
<1> QED
  BY <1>1

(* A configuration over the bound costs what the incumbent does, at least. *)
LEMMA OverBudgetIsWorse ==
  ASSUME TypeOK, Bounds, nid \in Neighbours, mode = "round", phase = "judge", OverBudget,
         Multiplier >= Unit
  PROVE  partial[nid] >= incumbent.sum
<1>1. /\ incumbent.sum \in Nat /\ partial[nid] \in Nat
      /\ Multiplier \in Int /\ Unit \in Nat \ {0}
  BY MultiplierAssumption DEF TypeOK, Evaluations
<1>2. /\ bound = BoundFrom(incumbent) /\ bound # NoBound
      /\ Unit * partial[nid] > Multiplier * bound
  BY DEF Bounds, Collecting, OverBudget
<1>3. bound = incumbent.sum
  BY <1>2 DEF BoundFrom
<1>4. Unit * incumbent.sum <= Multiplier * incumbent.sum
  BY <1>1, Times
<1>5. ASSUME partial[nid] <= incumbent.sum
      PROVE  FALSE
  <2>1. partial[nid] * Unit <= incumbent.sum * Unit
    BY <1>1, <1>5, Times
  <2> QED
    BY <1>1, <1>2, <1>3, <1>4, <2>1
<1> QED
  BY <1>1, <1>5

LEMMA RejectKeeps ==
  ASSUME IInv, CheckCapping \/ CheckFutureTelling
  PROVE  IInv'
<1> USE DEF IInv
<1>1. /\ phase = "judge" /\ GiveUpOn
      /\ UNCHANGED <<mode, toOffer, round, nid, verdict, got, partial, untrue, endVars, unsaved>>
      /\ UNCHANGED evalVars
      /\ \/ capped' = capped
         \/ OverBudget /\ capped' = capped \cup {nid}
  BY DEF CheckCapping, CheckFutureTelling
<1>2. nid \in round \ done /\ nid \in Neighbours
  BY <1>1 DEF Tally, TypeOK
<1>3. capped' \subseteq Neighbours
  BY <1>1, <1>2 DEF TypeOK
<1>4. Multiplier >= Unit /\ mode = "round" => \A m \in capped' : partial[m] >= incumbent.sum
  BY <1>1, <1>2, OverBudgetIsWorse DEF Bounds
<1>5. CASE mode = "round"
  <2>1. /\ MarkDone /\ CallOff(nid) /\ phase' = "head"
        /\ UNCHANGED <<batchId, interrupted, closed, owed, running, events>>
    BY <1>1, <1>5 DEF GiveUpOn, CallOff
  <2>2. done' \subseteq round /\ nDone' = Cardinality(done')
    BY <1>2, <2>1, MarkDoneCounts
  <2>3. /\ cancelled' \subseteq Nat \X Neighbours
        /\ NoneAhead' /\ OnePlace' /\ KilledAreOff' /\ OffIsDecided'
    BY <1>1, <1>2, <2>1, CallOffKeeps DEF MarkDone
  <2>4. TypeOK'
    BY <1>1, <1>3, <2>1, <2>2, <2>3 DEF TypeOK, evalVars, Phases
  <2>5. Fresh' /\ Tally'
    BY <1>1, <2>1, <2>2 DEF Fresh, Tally
  <2>6. Verdicts' /\ Bounds'
    BY <1>1, <1>4, <2>1 DEF Verdicts, RoundIsDecided, Bounds, BoundFrom, Collecting, evalVars
  <2>7. Savable'
    BY <1>1, <2>1, QuietSavable DEF endVars
  <2> QED
    BY <2>3, <2>4, <2>5, <2>6, <2>7
<1>6. CASE mode # "round"
  <2>1. /\ NewBatch /\ phase' = "drain" /\ UNCHANGED <<done, nDone>>
        /\ batchId' = batchId + 1
        /\ UNCHANGED <<cancelled, interrupted, closed, owed, running, events>>
    BY <1>1, <1>6 DEF GiveUpOn, ResetService, NewBatch
  <2>2. /\ NoneAhead' /\ OnePlace' /\ KilledAreOff' /\ OffIsDecided'
    BY <2>1, NewBatchKeeps DEF OffIsDecided
  <2>3. TypeOK'
    BY <1>1, <1>3, <2>1 DEF TypeOK, evalVars, Phases
  <2>4. Fresh' /\ Tally'
    BY <1>1, <2>1 DEF Fresh, Tally
  <2>5. Verdicts' /\ Bounds'
    BY <1>1, <1>6, <2>1 DEF Verdicts, RoundIsDecided, Bounds, Collecting
  <2>6. Savable'
    BY <1>1, <2>1, QuietSavable DEF endVars
  <2> QED
    BY <2>2, <2>3, <2>4, <2>5, <2>6
<1> QED
  BY <1>5, <1>6

LEMMA CompleteKeeps ==
  ASSUME IInv, Complete
  PROVE  IInv'
<1> USE DEF IInv
<1>1. /\ phase = "judge" /\ mode = "round" /\ Len(got[nid]) = N /\ MarkDone
      /\ UNCHANGED <<mode, toOffer, round, nid, got, partial, capped, untrue, endVars, unsaved>>
      /\ UNCHANGED evalVars
      /\ UNCHANGED <<cancelled, interrupted, closed, owed, running, events>>
  BY DEF Complete, ResetService, NewBatch, svars
<1>2. nid \in round \ done /\ nid \in Neighbours /\ nid # NoNeighbour
  BY <1>1, NoNeighbourAssumption DEF Tally, TypeOK
<1>3. done' \subseteq round /\ nDone' = Cardinality(done') /\ done \subseteq done'
  BY <1>1, <1>2, MarkDoneCounts DEF MarkDone
<1>4. Savable'
  BY <1>1, QuietSavable DEF endVars
<1>5. CASE BeatsCurrent
  <2>1. NewBatch /\ phase' = "drain" /\ verdict' = nid /\ batchId' = batchId + 1
    BY <1>1, <1>5 DEF Complete, ResetService, NewBatch
  <2>2. /\ NoneAhead' /\ OnePlace' /\ KilledAreOff' /\ OffIsDecided'
    BY <2>1, NewBatchKeeps DEF OffIsDecided
  <2>3. TypeOK'
    BY <1>1, <1>2, <1>3, <2>1 DEF TypeOK, evalVars, Phases
  <2>4. Fresh' /\ Tally'
    BY <1>1, <1>3, <2>1 DEF Fresh, Tally
  <2>5. Verdicts' /\ Bounds'
    BY <1>1, <1>2, <1>5, <2>1 DEF Verdicts, RoundIsDecided, Bounds, BoundFrom, Collecting,
                                  BeatsCurrent, evalVars
  <2> QED
    BY <1>4, <2>2, <2>3, <2>4, <2>5
<1>6. CASE ~BeatsCurrent
  <2>1. phase' = "head" /\ verdict' = verdict /\ batchId' = batchId
    BY <1>1, <1>6 DEF Complete, svars
  <2>2. NoneAhead' /\ OnePlace' /\ KilledAreOff'
    BY <1>1, <2>1, Quiet
  <2>3. OffIsDecided'
    BY <1>1, <1>3, <2>1 DEF OffIsDecided
  <2>4. TypeOK'
    BY <1>1, <1>3, <2>1 DEF TypeOK, evalVars, Phases
  <2>5. Fresh' /\ Tally'
    BY <1>1, <1>3, <2>1 DEF Fresh, Tally
  <2>6. Verdicts' /\ Bounds'
    BY <1>1, <2>1 DEF Verdicts, RoundIsDecided, Bounds, BoundFrom, Collecting, evalVars
  <2> QED
    BY <1>4, <2>2, <2>3, <2>4, <2>5, <2>6
<1> QED
  BY <1>5, <1>6

(* A round in which everything is done has decided everybody.              *)
LEMMA AllDoneIsDecided ==
  ASSUME TypeOK, Tally, nDone >= Cardinality(round)
  PROVE  done = round
<1>1. IsFiniteSet(round) /\ done \subseteq round
  BY NeighboursAssumption, FS_Subset DEF TypeOK
<1>2. Cardinality(done) <= Cardinality(round) /\ (Cardinality(done) = Cardinality(round) => done = round)
  BY <1>1, FS_Subset
<1>3. Cardinality(done) \in Nat /\ Cardinality(round) \in Nat
  BY <1>1, FS_Subset, FS_CardinalityType
<1> QED
  BY <1>2, <1>3 DEF Tally

LEMMA LoopHeadKeeps ==
  ASSUME IInv, LoopHead
  PROVE  IInv'
<1> USE DEF IInv
<1>1. /\ phase = "head"
      /\ UNCHANGED <<mode, toOffer, round, nid, verdict, endVars, unsaved>>
      /\ UNCHANGED <<tallyVars, evalVars>>
      /\ UNCHANGED <<cancelled, interrupted, closed, owed, running, events>>
  BY DEF LoopHead, ResetService, NewBatch, svars
<1>2. Savable'
  BY <1>1, QuietSavable DEF endVars
<1>3. CASE mode = "round" /\ (AllDone \/ Stop)
  <2>1. NewBatch /\ phase' = "drain" /\ batchId' = batchId + 1
    BY <1>1, <1>3 DEF LoopHead, ResetService, NewBatch
  <2>2. /\ NoneAhead' /\ OnePlace' /\ KilledAreOff' /\ OffIsDecided'
    BY <2>1, NewBatchKeeps DEF OffIsDecided
  <2>3. TypeOK'
    BY <1>1, <2>1 DEF TypeOK, tallyVars, evalVars, Phases
  <2>4. Fresh' /\ Tally'
    BY <1>1, <2>1 DEF Fresh, Tally, tallyVars
  <2>5. ~Stop => done = round
    BY <1>3, AllDoneIsDecided DEF AllDone
  <2>6. Verdicts' /\ Bounds'
    BY <1>1, <2>1, <2>5 DEF Verdicts, RoundIsDecided, Stop, endVars, Bounds, BoundFrom, Collecting,
                          tallyVars, evalVars
  <2> QED
    BY <1>2, <2>2, <2>3, <2>4, <2>6
<1>4. CASE ~(mode = "round" /\ (AllDone \/ Stop))
  <2>1. /\ batchId' = batchId
        /\ phase' = "recv" \/ (phase' = "evaluated" /\ mode = "single")
    BY <1>1, <1>4 DEF LoopHead, svars, TypeOK
  <2>2. NoneAhead' /\ OnePlace' /\ KilledAreOff'
    BY <1>1, <2>1, Quiet DEF tallyVars
  <2>3. TypeOK'
    BY <1>1, <2>1 DEF TypeOK, tallyVars, evalVars, Phases
  <2>4. Fresh' /\ Tally' /\ OffIsDecided'
    BY <1>1, <2>1 DEF Fresh, Tally, OffIsDecided, tallyVars
  <2>5. Verdicts' /\ Bounds'
    BY <1>1, <2>1 DEF Verdicts, RoundIsDecided, Bounds, BoundFrom, Collecting, tallyVars, evalVars
  <2> QED
    BY <1>2, <2>2, <2>3, <2>4, <2>5
<1> QED
  BY <1>3, <1>4

(* Steps of the ILS thread that leave the service and the counts alone.    *)
LEMMA StillKeeps ==
  ASSUME IInv,
         RecvTimeout \/ KeepCollecting \/ Drained \/ Evaluated \/ Return \/ Over
  PROVE  IInv'
<1> USE DEF IInv
<1>1. /\ UNCHANGED <<mode, toOffer, round, nid, verdict, endVars, unsaved>>
      /\ UNCHANGED tallyVars /\ UNCHANGED svars
  BY DEF RecvTimeout, KeepCollecting, Drained, Evaluated, Return, Over, vars, ilsVars, loopVars
<1>2. NoneAhead' /\ OnePlace' /\ KilledAreOff' /\ Savable'
  BY <1>1, Quiet, QuietSavable DEF svars, tallyVars, endVars
<1>3. OffIsDecided'
  BY <1>1 DEF OffIsDecided, svars, tallyVars
<1>4. CASE RecvTimeout \/ KeepCollecting \/ Over
  <2>1. /\ UNCHANGED evalVars
        /\ \/ phase' = "head" /\ phase \in {"recv", "judge"}
           \/ phase' = "over" /\ phase = "over"
    BY <1>4 DEF RecvTimeout, KeepCollecting, Over, vars, ilsVars, loopVars
  <2>2. TypeOK'
    BY <1>1, <2>1 DEF TypeOK, svars, tallyVars, evalVars, Phases
  <2>3. Fresh' /\ Tally'
    BY <1>1, <2>1 DEF Fresh, Tally, tallyVars
  <2>4. Verdicts' /\ Bounds'
    BY <1>1, <2>1 DEF Verdicts, RoundIsDecided, Bounds, BoundFrom, Collecting,
                      tallyVars, evalVars
  <2> QED
    BY <1>2, <1>3, <2>2, <2>3, <2>4
<1>5. CASE Drained
  <2>1. /\ phase = "drain" /\ incumbent' = incumbent /\ bound' = bound
        /\ \/ mode = "single" /\ phase' = "evaluated" /\ current' = current
           \/ mode = "round" /\ verdict = NoNeighbour /\ phase' = "return" /\ current' = current
           \/ /\ mode = "round" /\ verdict # NoNeighbour /\ phase' = "descend"
              /\ current' = [complete |-> TRUE, n |-> N, sum |-> partial[verdict]]
    BY <1>5 DEF Drained, TypeOK
  <2>2. current' \in Evaluations
    <3>1. verdict # NoNeighbour => verdict \in Neighbours
      BY DEF TypeOK
    <3>2. CASE verdict # NoNeighbour
      <4>1. N \in Nat /\ partial[verdict] \in Nat
        BY <3>1, <3>2, InstanceCount, SumsAreNumbers
      <4>2. [complete |-> TRUE, n |-> N, sum |-> partial[verdict]] \in Evaluations
        BY <4>1 DEF Evaluations
      <4> QED
        BY <2>1, <4>2 DEF TypeOK
    <3>3. CASE verdict = NoNeighbour
      BY <2>1, <3>3 DEF TypeOK
    <3> QED
      BY <3>2, <3>3
  <2>3. TypeOK'
    BY <1>1, <2>1, <2>2 DEF TypeOK, svars, tallyVars, Phases
  <2>4. Fresh' /\ Tally'
    BY <1>1, <2>1 DEF Fresh, Tally, tallyVars
  <2>5. Verdicts' /\ Bounds'
    BY <1>1, <2>1 DEF Verdicts, RoundIsDecided, Stop, endVars, svars, Bounds, BoundFrom, Collecting, tallyVars
  <2> QED
    BY <1>2, <1>3, <2>3, <2>4, <2>5
<1>6. CASE Evaluated
  <2>0. Len(got[Probe]) \in Nat /\ partial[Probe] \in Nat
    BY ProbeAssumption, SumsAreNumbers
  <2>1. /\ mode = "single" /\ phase' \in {"descend", "idle"} /\ bound' = BoundFrom(incumbent')
        /\ incumbent' \in Evaluations /\ current' \in Evaluations
    <3> DEFINE eval == [complete |-> Len(got[Probe]) >= N, n |-> Len(got[Probe]),
                        sum |-> partial[Probe]]
    <3>1. eval \in Evaluations
      BY <2>0 DEF Evaluations
    <3>2. NoEval \in Evaluations
      BY DEF NoEval, Evaluations
    <3>3. /\ incumbent' \in {eval, incumbent} /\ current' \in {eval, NoEval}
          /\ phase' \in {"descend", "idle"} /\ bound' = BoundFrom(incumbent')
      BY <1>6 DEF Evaluated
    <3>4. mode = "single"
      BY <1>6 DEF Evaluated, Bounds
    <3> HIDE DEF eval
    <3> QED
      BY <3>1, <3>2, <3>3, <3>4 DEF TypeOK
  <2>2. TypeOK'
    BY <1>1, <2>1 DEF TypeOK, svars, tallyVars, Phases
  <2>3. Fresh' /\ Tally'
    BY <1>1, <2>1 DEF Fresh, Tally, tallyVars
  <2>4. Verdicts' /\ Bounds'
    BY <1>1, <2>1 DEF Verdicts, RoundIsDecided, Bounds, BoundFrom, Collecting
  <2> QED
    BY <1>2, <1>3, <2>2, <2>3, <2>4
<1>7. CASE Return
  <2>1. /\ phase' = "idle" /\ incumbent' \in Evaluations /\ current' \in Evaluations
        /\ incumbent'.sum <= incumbent.sum
    BY <1>7 DEF Return, TypeOK, Evaluations, NoEval
  <2>2. TypeOK'
    BY <1>1, <1>7, <2>1 DEF TypeOK, svars, tallyVars, Phases
  <2>3. Fresh' /\ Tally'
    BY <1>1, <2>1 DEF Fresh, Tally, tallyVars
  <2>4. Verdicts'
    BY <1>1, <2>1 DEF Verdicts, RoundIsDecided, Collecting
  <2>5. Multiplier >= Unit /\ mode = "round" =>
          \A m \in capped : partial[m] >= incumbent'.sum
    <3> SUFFICES ASSUME Multiplier >= Unit, mode = "round", NEW m \in capped PROVE partial[m] >= incumbent'.sum
      OBVIOUS
    <3>1. m \in Neighbours /\ partial[m] \in Nat /\ partial[m] >= incumbent.sum
      BY SumsAreNumbers DEF Bounds, TypeOK
    <3>2. incumbent.sum \in Nat /\ incumbent'.sum \in Nat
      BY <2>1 DEF TypeOK, Evaluations
    <3> QED
      BY <2>1, <3>1, <3>2
  <2>6. Bounds'
    BY <1>1, <2>1, <2>5 DEF Bounds, Collecting, tallyVars
  <2> QED
    BY <1>2, <1>3, <2>2, <2>3, <2>4, <2>6
<1> QED
  BY <1>4, <1>5, <1>6, <1>7

(* Dropping the scheduler, and the reset before it.                        *)
LEMMA EndKeeps ==
  ASSUME IInv, Finished \/ Dropped
  PROVE  IInv'
<1> USE DEF IInv
<1>1. /\ UNCHANGED <<mode, toOffer, round, nid, verdict, endVars, unsaved>>
      /\ UNCHANGED <<tallyVars, evalVars>>
      /\ UNCHANGED <<cancelled, interrupted, owed, running, events>>
      /\ phase' \in {"dropping", "over"}
  BY DEF Finished, Dropped, NewBatch, Close
<1>2. CASE Finished
  <2>1. NewBatch /\ batchId' = batchId + 1 /\ closed' = closed
    BY <1>2 DEF Finished, NewBatch
  <2> QED
    BY <1>1, <2>1, NewBatchKeeps, QuietSavable
       DEF TypeOK, OffIsDecided, Fresh, Tally, Verdicts, RoundIsDecided, Bounds, BoundFrom,
           Collecting, Phases, tallyVars, evalVars, endVars
<1>3. CASE Dropped
  <2>1. batchId' = batchId /\ closed'
    BY <1>3 DEF Dropped, Close
  <2>2. NoneAhead' /\ OnePlace' /\ KilledAreOff'
    BY <1>1, <2>1, Quiet DEF tallyVars
  <2> QED
    BY <1>1, <2>1, <2>2
       DEF TypeOK, OffIsDecided, Fresh, Tally, Verdicts, RoundIsDecided, Bounds, BoundFrom,
           Collecting, Phases, Savable, tallyVars, evalVars
<1> QED
  BY <1>2, <1>3

(* An error ends the call: what was not written is then not promised.      *)
LEMMA FailKeeps ==
  ASSUME IInv, SubmitFails \/ WriteFails
  PROVE  IInv'
<1> USE DEF IInv
<1>1. /\ UNCHANGED <<mode, toOffer, round, nid, verdict, expired, unsaved>>
      /\ UNCHANGED <<tallyVars, evalVars>>
      /\ UNCHANGED <<batchId, cancelled, interrupted, closed, owed, running>>
      /\ failed' = TRUE /\ phase' = "idle"
  BY DEF SubmitFails, WriteFails, Fail, ReadEvent, svars
<1>2. events' \in Seq(Events) /\ NoneAhead' /\ OnePlace' /\ KilledAreOff'
  <2>1. CASE SubmitFails
    <3>1. UNCHANGED <<batchId, cancelled, owed, running, events, got>>
      BY <2>1 DEF SubmitFails, svars, tallyVars
    <3> QED
      BY <3>1, Quiet DEF TypeOK
  <2>2. CASE WriteFails
    <3>1. ReadEvent /\ got' = got
      BY <1>1, <2>2 DEF WriteFails, tallyVars
    <3> QED
      BY <3>1, ReadKeeps, ReadOnePlace
  <2> QED
    BY <2>1, <2>2
<1>3. TypeOK'
  BY <1>1, <1>2 DEF TypeOK, tallyVars, evalVars, Phases
<1>4. Fresh' /\ OffIsDecided' /\ Savable'
  BY <1>1 DEF Fresh, OffIsDecided, Savable, tallyVars
<1>5. Tally' /\ Verdicts' /\ Bounds'
  BY <1>1 DEF Tally, Verdicts, RoundIsDecided, Bounds, Collecting, tallyVars, evalVars
<1> QED
  BY <1>2, <1>3, <1>4, <1>5

LEMMA SubmitKeeps ==
  ASSUME IInv, Evaluate \/ Descend
  PROVE  IInv'
<1> USE DEF IInv
<1>1. PICK S \in SUBSET Neighbours, m \in {"single", "round"} :
        Submit(S, m) /\ UNCHANGED <<current, incumbent>>
        /\ (m = "round" => bound' = BoundFrom(incumbent))
  <2>1. CASE Evaluate
    BY <2>1, ProbeAssumption DEF Evaluate
  <2>2. CASE Descend
    BY <2>2 DEF Descend, evalVars, Bounds
  <2> QED
    BY <2>1, <2>2
<1>2. /\ NewBatch /\ phase' = "forget" /\ mode' = m /\ toOffer' = S /\ round' = S
      /\ got' = [n \in Neighbours |-> <<>>] /\ partial' = [n \in Neighbours |-> 0]
      /\ done' = {} /\ nDone' = 0 /\ capped' = {} /\ untrue' = {}
      /\ verdict' = NoNeighbour /\ UNCHANGED <<endVars, unsaved>>
      /\ batchId' = batchId + 1
      /\ UNCHANGED <<cancelled, interrupted, closed, owed, running, events>>
  BY <1>1 DEF Submit, NewBatch
<1>3. /\ NoneAhead' /\ OnePlace' /\ KilledAreOff' /\ OffIsDecided'
      /\ \A n \in Neighbours, i \in Instances : ~Out(<<batchId, n, i>>)'
  BY <1>2, NewBatchKeeps DEF OffIsDecided
<1>4. TypeOK'
  BY <1>1, <1>2 DEF TypeOK, Phases
<1>5. Fresh'
  BY <1>2, <1>3 DEF Fresh
<1>6. Tally'
  <2>1. Items(<<>>) = {} /\ Len(<<>>) = 0 /\ Cardinality({}) = 0
    BY FS_EmptySet DEF Items
  <2> QED
    BY <1>2, <2>1 DEF Tally
<1>7. Verdicts' /\ Bounds'
  BY <1>1, <1>2 DEF Verdicts, RoundIsDecided, Bounds, BoundFrom, Collecting
<1>8. Savable'
  BY <1>2, QuietSavable DEF endVars
<1> QED
  BY <1>3, <1>4, <1>5, <1>6, <1>7, <1>8

(* What is forgotten was called off of stale batches only.                 *)
LEMMA ForgetKeeps ==
  ASSUME IInv, SubmitForget
  PROVE  IInv'
<1> USE DEF IInv
<1>1. /\ phase = "forget" /\ phase' = "offer"
      /\ UNCHANGED <<mode, toOffer, round, nid, verdict, endVars, unsaved>>
      /\ UNCHANGED <<tallyVars, evalVars>>
      /\ UNCHANGED <<batchId, interrupted, closed, owed, running, events>>
      /\ cancelled' = {} /\ \A t \in cancelled : IsStale(t)
  BY DEF SubmitForget, Forget
<1>2. TypeOK'
  BY <1>1 DEF TypeOK, tallyVars, evalVars, Phases
<1>3. NoneAhead' /\ OnePlace' /\ OffIsDecided'
  BY <1>1 DEF NoneAhead, OnePlace, Out, Reports, OffIsDecided, tallyVars
<1>4. KilledAreOff'
  BY <1>1 DEF KilledAreOff, CalledOff, IsStale
<1>5. Fresh' /\ Tally'
  BY <1>1 DEF Fresh, Out, Reports, Tally, tallyVars
<1>6. Verdicts' /\ Bounds'
  BY <1>1 DEF Verdicts, RoundIsDecided, Bounds, BoundFrom, Collecting, tallyVars, evalVars
<1>7. Savable'
  BY <1>1, QuietSavable DEF endVars
<1> QED
  BY <1>2, <1>3, <1>4, <1>5, <1>6, <1>7

(* The hits come as results of the task, one for each.                     *)
HitsOf(n, hits) ==
  [k \in DOMAIN hits |-> Result(<<batchId, n, hits[k]>>, "line", FALSE, FALSE)]

LEMMA HitEvents ==
  ASSUME batchId \in Nat, NEW n \in Neighbours, NEW hits \in InstanceLists,
         NEW es, es = HitsOf(n, hits)
  PROVE  /\ es \in Seq(Events) /\ DOMAIN es = DOMAIN hits
         /\ \A k \in DOMAIN es :
              /\ es[k].kind = "Completed" /\ ~es[k].killed /\ ~es[k].cacheable
              /\ es[k].run = <<batchId, n, hits[k]>> /\ hits[k] \in Instances
         /\ \A j, k \in DOMAIN es : es[j].run = es[k].run => j = k
<1>1. hits \in Seq(Instances) /\ \A j, k \in DOMAIN hits : hits[j] = hits[k] => j = k
  BY ListsAssumption
<1>2. DOMAIN hits = 1 .. Len(hits) /\ Len(hits) \in Nat
  BY <1>1, LenProperties
<1>3. ASSUME NEW k \in DOMAIN hits
      PROVE  /\ es[k] \in Events
             /\ es[k].kind = "Completed" /\ ~es[k].killed /\ ~es[k].cacheable
             /\ es[k].run = <<batchId, n, hits[k]>> /\ hits[k] \in Instances
  <2>1. hits[k] \in Instances
    BY <1>1
  <2>2. <<batchId, n, hits[k]>> \in AllRuns
    BY <2>1 DEF AllRuns
  <2> QED
    BY <2>1, <2>2 DEF HitsOf, Result, Events, Statuses
<1>4. es \in Seq(Events)
  <2>1. es \in [1 .. Len(hits) -> Events]
    BY <1>2, <1>3 DEF HitsOf, Result
  <2> QED
    BY <1>2, <2>1, SeqDef
<1>5. ASSUME NEW j \in DOMAIN es, NEW k \in DOMAIN es, es[j].run = es[k].run
      PROVE  j = k
  <2>1. j \in DOMAIN hits /\ k \in DOMAIN hits
    BY <1>5 DEF HitsOf, Result
  <2>2. es[j].run = <<batchId, n, hits[j]>> /\ es[k].run = <<batchId, n, hits[k]>>
    BY <1>3, <2>1
  <2>3. hits[j] = hits[k]
    <3>1. <<batchId, n, hits[j]>> = <<batchId, n, hits[k]>>
      BY <1>5, <2>2
    <3> QED
      BY <3>1
  <2> QED
    BY <1>1, <2>1, <2>3
<1>6. DOMAIN es = DOMAIN hits
  BY DEF HitsOf, Result
<1> QED
  BY <1>3, <1>4, <1>5, <1>6

(* A task has its runs owed or reported at once, none of them twice.       *)
LEMMA TaskKeeps ==
  ASSUME IInv, NEW n \in toOffer, SubmitTask(n)
  PROVE  IInv'
<1> USE DEF IInv
<1>1. /\ phase = "offer" /\ toOffer' = toOffer \ {n} /\ phase' \in {"head", "offer"}
      /\ UNCHANGED <<mode, round, nid, verdict, endVars, unsaved>>
      /\ UNCHANGED <<tallyVars, evalVars>>
  BY DEF SubmitTask
<1>2. PICK misses \in InstanceLists, hits \in InstanceLists : Accept(n, misses, hits)
  BY DEF SubmitTask
<1>3. PICK es : es = HitsOf(n, hits)
  OBVIOUS
<1>4. /\ n \in Neighbours /\ batchId \in Nat /\ events \in Seq(Events)
      /\ misses \in Seq(Instances) /\ Items(misses) \subseteq Instances
  BY ListsAssumption, ItemsAreFinite DEF TypeOK
<1>5. /\ Items(misses) \cap Items(hits) = {}
      /\ owed' = owed \cup {<<batchId, n, i>> : i \in Items(misses)}
      /\ events' = IF closed THEN events ELSE events \o es
      /\ UNCHANGED <<batchId, cancelled, interrupted, closed, running>>
  BY <1>2, <1>3 DEF Accept, Deliver, HitsOf
<1>6. /\ es \in Seq(Events) /\ DOMAIN es = DOMAIN hits
      /\ \A k \in DOMAIN es :
           /\ es[k].kind = "Completed" /\ ~es[k].killed /\ ~es[k].cacheable
           /\ es[k].run = <<batchId, n, hits[k]>> /\ hits[k] \in Instances
      /\ \A j, k \in DOMAIN es : es[j].run = es[k].run => j = k
  BY <1>3, <1>4, HitEvents
<1>7. /\ events' \in Seq(Events)
      /\ \A k \in DOMAIN events : k \in DOMAIN events' /\ events'[k] = events[k]
      /\ \A k \in DOMAIN events' :
           \/ k \in DOMAIN events /\ events'[k] = events[k]
           \/ k \notin DOMAIN events /\ k - Len(events) \in DOMAIN es /\ k \in Int
              /\ events'[k] = es[k - Len(events)]
  BY <1>4, <1>5, <1>6, CatEvents
<1>8. owed' \subseteq AllRuns
  BY <1>4, <1>5 DEF TypeOK, AllRuns
<1>9. TypeOK'
  BY <1>1, <1>5, <1>7, <1>8 DEF TypeOK, tallyVars, evalVars, Phases
<1>10. NoneAhead'
  <2>1. \A r \in owed' \cup running' : r[1] <= batchId
    BY <1>4, <1>5 DEF NoneAhead
  <2>2. \A k \in DOMAIN events' : events'[k].run[1] <= batchId
    BY <1>4, <1>6, <1>7 DEF NoneAhead
  <2> QED
    BY <1>5, <2>1, <2>2 DEF NoneAhead
(* The task had no runs, and nothing was counted for anybody.              *)
<1>11. /\ \A i \in Instances : ~Out(<<batchId, n, i>>)
       /\ \A m \in Neighbours : Items(got'[m]) = {}
  BY <1>1 DEF Fresh, Items, tallyVars
<1>12. ASSUME NEW k \in DOMAIN events', NEW r, Reports(k, r)'
       PROVE  \/ k \in DOMAIN events /\ Reports(k, r)
              \/ /\ k \notin DOMAIN events /\ k \in Int /\ k - Len(events) \in DOMAIN es
                 /\ r = es[k - Len(events)].run
                 /\ \E i \in Items(hits) : r = <<batchId, n, i>>
  <2>1. CASE k \in DOMAIN events /\ events'[k] = events[k]
    BY <1>12, <2>1 DEF Reports
  <2>2. CASE k \notin DOMAIN events /\ k - Len(events) \in DOMAIN es /\ k \in Int
             /\ events'[k] = es[k - Len(events)]
    <3>1. r = es[k - Len(events)].run
      BY <1>12, <2>2 DEF Reports
    <3>2. /\ es[k - Len(events)].run = <<batchId, n, hits[k - Len(events)]>>
          /\ k - Len(events) \in DOMAIN hits
      BY <1>6, <2>2
    <3>3. hits[k - Len(events)] \in Items(hits)
      BY <3>2 DEF Items
    <3> QED
      BY <2>2, <3>1, <3>2, <3>3
  <2> QED
    BY <1>7, <2>1, <2>2
<1>13. ASSUME NEW m \in Neighbours, NEW i \in Instances, NEW q, q = <<batchId, m, i>>, m # n
       PROVE  /\ q \in owed' <=> q \in owed
              /\ \A k \in DOMAIN events' : Reports(k, q)' => k \in DOMAIN events /\ Reports(k, q)
  BY <1>5, <1>12, <1>13
<1>14. Placed'
  <2> SUFFICES ASSUME NEW m \in Neighbours, NEW i \in Instances, NEW q, q = <<batchId, m, i>>
               PROVE  /\ q \in owed' => q \notin running'
                      /\ \A k \in DOMAIN events' : Reports(k, q)' =>
                           /\ q \notin owed' \cup running'
                           /\ \A j \in DOMAIN events' : Reports(j, q)' => j = k
    BY <1>5 DEF Placed
  <2>1. CASE m # n
    <3>1. /\ q \in owed => q \notin running
          /\ \A k \in DOMAIN events : Reports(k, q) =>
               /\ q \notin owed \cup running
               /\ \A j \in DOMAIN events : Reports(j, q) => j = k
      BY DEF OnePlace
    <3> QED
      BY <1>5, <1>13, <2>1, <3>1
  <2>2. CASE m = n
    <3>1. q \notin owed \cup running /\ \A k \in DOMAIN events : ~Reports(k, q)
      BY <1>11, <2>2 DEF Out
    <3>2. ASSUME NEW k \in DOMAIN events', Reports(k, q)'
          PROVE  /\ k \in Int /\ k - Len(events) \in DOMAIN es
                 /\ q = es[k - Len(events)].run /\ i \in Items(hits)
      BY <1>12, <2>2, <3>1, <3>2
    <3>3. \A k \in DOMAIN events' : Reports(k, q)' => q \notin owed' \cup running'
      BY <1>5, <2>2, <3>1, <3>2
    <3>4. ASSUME NEW k \in DOMAIN events', NEW j \in DOMAIN events',
                 Reports(k, q)', Reports(j, q)'
          PROVE  j = k
      <4>1. j - Len(events) = k - Len(events) /\ j \in Int /\ k \in Int
        BY <1>6, <3>2, <3>4
      <4>2. Len(events) \in Nat
        BY <1>4, LenProperties
      <4> QED
        BY <4>1, <4>2
    <3>5. q \in owed' => q \notin running'
      BY <1>5, <3>1
    <3> QED
      BY <3>3, <3>4, <3>5
  <2> QED
    BY <2>1, <2>2
<1>15. OnePlace'
  BY <1>11, <1>14 DEF OnePlace, Placed
<1>16. Fresh'
  <2>1. ASSUME NEW m \in toOffer', NEW i \in Instances, NEW q, q = <<batchId, m, i>>, Out(q)'
        PROVE  FALSE
    <3>1. m \in Neighbours /\ m # n /\ m \in toOffer
      BY <1>1, <2>1 DEF TypeOK
    <3>2. Out(q)
      BY <1>5, <1>13, <2>1, <3>1 DEF Out
    <3> QED
      BY <1>1, <2>1, <3>1, <3>2 DEF Fresh
  <2>2. \A m \in Neighbours : got'[m] = <<>>
    BY <1>1 DEF Fresh, tallyVars
  <2> QED
    BY <1>5, <2>1, <2>2 DEF Fresh
<1>17. KilledAreOff' /\ OffIsDecided'
  BY <1>1, <1>5, <1>6, <1>7 DEF KilledAreOff, CalledOff, IsStale, TaskOf, OffIsDecided, tallyVars
<1>18. Tally' /\ Verdicts' /\ Bounds'
  BY <1>1 DEF Tally, Verdicts, RoundIsDecided, Bounds, BoundFrom, Collecting, tallyVars, evalVars
<1>19. Savable'
  BY <1>1, <1>5, <1>7 DEF Savable, Reports, endVars
<1> QED
  BY <1>9, <1>10, <1>15, <1>16, <1>17, <1>18, <1>19

-----------------------------------------------------------------------------
(* The theorems.                                                           *)

LEMMA InitEstablishes == LSInit => IInv
<1> SUFFICES ASSUME LSInit PROVE IInv
  OBVIOUS
<1>1. Items(<<>>) = {} /\ Len(<<>>) = 0 /\ Cardinality({}) = 0
  BY FS_EmptySet DEF Items
<1>2. NoEval \in Evaluations /\ <<>> \in Seq(Events) /\ <<>> \in Seq(Instances)
  BY DEF NoEval, Evaluations
<1>3. TypeOK
  BY <1>2 DEF LSInit, SInit, TypeOK, Phases
<1>4. NoneAhead /\ OnePlace /\ Fresh /\ KilledAreOff /\ OffIsDecided
  BY DEF LSInit, SInit, NoneAhead, OnePlace, Out, Reports, Fresh, KilledAreOff, OffIsDecided
<1>5. Tally /\ Verdicts /\ Bounds /\ Savable
  BY <1>1 DEF LSInit, SInit, Tally, Verdicts, RoundIsDecided, Bounds, Collecting, Savable
<1> QED
  BY <1>3, <1>4, <1>5 DEF IInv

LEMMA StutterKeeps ==
  ASSUME IInv, UNCHANGED vars
  PROVE  IInv'
<1>1. IInv' <=> IInv
  BY DEF vars, svars, ilsVars, loopVars, tallyVars, evalVars, IInv, TypeOK, NoneAhead,
         OnePlace, Out, Reports, Fresh, KilledAreOff, CalledOff, IsStale, TaskOf,
         OffIsDecided, Tally, Verdicts, RoundIsDecided, Stop, endVars, Bounds, BoundFrom, Savable
<1> QED
  BY <1>1

LEMMA StepKeeps == IInv /\ [Next]_vars => IInv'
<1> SUFFICES ASSUME IInv, [Next]_vars PROVE IInv'
  OBVIOUS
<1>1. CASE CallStep
  BY <1>1, ForgetKeeps, TaskKeeps, SubmitKeeps, StillKeeps, LoopHeadKeeps, PassOverKeeps,
     CountKeeps, RejectKeeps, CompleteKeeps, FailKeeps DEF CallStep
<1>2. CASE Evaluate \/ Finished \/ Dropped
  BY <1>2, SubmitKeeps, EndKeeps
<1>3. CASE Workers
  BY <1>3, WorkKeeps DEF Workers
<1>4. CASE Expire \/ Interrupt \/ Over
  BY <1>4, StopKeeps, StillKeeps
<1>5. CASE UNCHANGED vars
  BY <1>5, StutterKeeps
<1> QED
  BY <1>1, <1>2, <1>3, <1>4, <1>5 DEF Next

(* The inductive invariant of the whole local search                       *)
(* (src/ils/bls.rs:358-693, 829-1025).                                     *)
THEOREM Invariance == Spec => []IInv
<1>1. LSInit => IInv
  BY InitEstablishes
<1>2. IInv /\ [Next]_vars => IInv'
  BY StepKeeps
<1> QED
  BY <1>1, <1>2, PTL DEF Spec

(* What a neighbour is judged by are its own results, one per instance.    *)
THEOREM OwnResultsCount == Spec => []TallyIsTrue
<1>1. IInv => TallyIsTrue
  BY DEF IInv, TypeOK, Tally, TallyIsTrue
<1> QED
  BY <1>1, Invariance, PTL

(* A round without a winner that was not stopped has decided everybody.    *)
THEOREM NobodySkipped == Spec => []RoundIsDecided
<1>1. IInv => RoundIsDecided
  BY DEF IInv, Verdicts
<1> QED
  BY <1>1, Invariance, PTL

(* Capping ends nothing that could have become the incumbent, whenever     *)
(* bound_multiplier is 1 or more.                                          *)
THEOREM CappingIsSafe == Spec => []CappedCannotWin
<1>1. IInv => CappedCannotWin
  BY DEF IInv, Bounds, CappedCannotWin
<1> QED
  BY <1>1, Invariance, PTL

(* What a worker concluded is cached or still to be read, as long as the   *)
(* database has reported no error.                                         *)
THEOREM ConclusionsAreSaved == Spec => []NothingLost
<1>1. IInv => NothingLost
  BY DEF IInv, Savable, Reports, NothingLost
<1> QED
  BY <1>1, Invariance, PTL

(* A descent moves to a neighbour measured on everything, and from one     *)
(* measured whole to a strictly better one.                                *)
THEOREM DescentImproves == Spec => StepsImprove
<1>1. IInv /\ [Next]_vars => StepImproves
  <2> SUFFICES ASSUME IInv, [Next]_vars, phase = "drain", phase' = "descend"
               PROVE  /\ current'.complete /\ Items(got[verdict]) = Instances
                      /\ current.complete => current'.sum < current.sum
    BY DEF StepImproves
  <2>1. Drained
    <3>1. ~(SubmitForget \/ SubmitFails \/ WriteFails \/ Evaluated \/ Descend \/ Return \/ LoopHead \/ RecvTimeout
            \/ TakeDispatched \/ SkipResult \/ CountResult)
      BY DEF SubmitForget, SubmitFails, WriteFails, Fail, Evaluated, Descend, Return, LoopHead, RecvTimeout,
             TakeDispatched, SkipResult, CountResult
    <3>2. ~(CheckCapping \/ Complete \/ CheckFutureTelling \/ KeepCollecting \/ Drain)
      BY DEF CheckCapping, Complete, CheckFutureTelling, KeepCollecting, Drain, loopVars
    <3>3. ~(Evaluate \/ Finished \/ Dropped \/ Workers \/ Expire \/ Interrupt \/ Over)
      BY DEF Evaluate, Finished, Dropped, Workers, Work, Expire, Interrupt, Over,
             ilsVars, loopVars
    <3>4. ~ \E n \in toOffer : SubmitTask(n)
      BY DEF SubmitTask
    <3>5. ~ UNCHANGED vars
      BY DEF vars, ilsVars, loopVars
    <3> QED
      BY <3>1, <3>2, <3>3, <3>4, <3>5 DEF Next, CallStep
  <2>2. /\ mode = "round" /\ verdict # NoNeighbour
        /\ current' = [complete |-> TRUE, n |-> N, sum |-> partial[verdict]]
    BY <2>1 DEF Drained, IInv, TypeOK
  <2>3. Len(got[verdict]) = N /\ (current.complete => partial[verdict] < current.sum)
    BY <2>2 DEF IInv, Verdicts
  <2>4. verdict \in Neighbours /\ got[verdict] \in Seq(Instances)
    BY <2>2 DEF IInv, TypeOK
  <2>5. Cardinality(Items(got[verdict])) = Cardinality(Instances)
    BY <2>3, <2>4 DEF IInv, Tally, N
  <2>6. Items(got[verdict]) = Instances
    BY <2>4, <2>5, ItemsAreFinite, InstancesAssumption, FS_Subset
  <2> QED
    BY <2>2, <2>3, <2>6
<1> QED
  BY <1>1, Invariance, PTL DEF Spec, StepsImprove
=============================================================================
