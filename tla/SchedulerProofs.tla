--------------------------- MODULE SchedulerProofs ---------------------------
(***************************************************************************)
(* What is proved about Scheduler, for every set of workers, neighbours    *)
(* and instances and every number of batches.                              *)
(*                                                                         *)
(* The proof is by the inductive invariant IInv.  Next is split into the   *)
(* steps of the workers, of the ILS thread and of the environment; each    *)
(* group has a lemma on what it leaves alone (WorkerFrames, IlsFrames,     *)
(* EnvFrames) and one lemma per conjunct of IInv.  InvStep puts them       *)
(* together; the theorems follow from Invariance.  The last part shows     *)
(* that the scheduler implements EvalService.                              *)
(***************************************************************************)
EXTENDS Scheduler, FiniteSetTheorems, TLAPS

(* A run is its task together with an instance, and is determined by the   *)
(* two.                                                                    *)
LEMMA RunParts ==
  /\ \A r \in Runs : Task(r) \in Tasks /\ r[3] \in Instances
  /\ \A t \in Tasks, i \in Instances :
       /\ <<t[1], t[2], i>> \in Runs
       /\ Task(<<t[1], t[2], i>>) = t
       /\ <<t[1], t[2], i>>[3] = i
  /\ \A q, r \in Runs : Task(q) = Task(r) /\ q[3] = r[3] => q = r
BY DEF Runs, Tasks, Task

(* Past the claim a worker stands for a run of the task it holds a handle  *)
(* of, and that run counts as taken.                                       *)
LEMMA ClaimedIsRun ==
  ASSUME TypeOK, ClaimsAreUnique, NEW w \in Workers, pc[w] \in ClaimedPCs
  PROVE  /\ Claimed(w) \in Runs
         /\ Task(Claimed(w)) = handle[w]
         /\ handle[w] \in Tasks
         /\ Taken(Claimed(w))
<1>1. /\ handle[w] \in Tasks
      /\ index[w] < Len(missing[handle[w]])
      /\ index[w] < next[handle[w]]
  BY DEF ClaimsAreUnique, ClaimedPCs
<1>2. /\ index[w] + 1 \in DOMAIN missing[handle[w]]
      /\ missing[handle[w]][index[w] + 1] \in Instances
      /\ index[w] + 1 <= next[handle[w]]
  BY <1>1 DEF TypeOK
<1>3. handle[w] = <<handle[w][1], handle[w][2]>>
  BY <1>1 DEF Tasks
<1>4. Claimed(w) \in Runs /\ Task(Claimed(w)) = handle[w]
  BY <1>1, <1>2, <1>3 DEF Claimed, Runs, Tasks, Task
<1>5. Taken(Claimed(w))
  BY <1>2, <1>4 DEF Taken, Claimed
<1> QED BY <1>1, <1>4, <1>5

(* Two workers never stand for the same run: an index is claimed once and  *)
(* no list names an instance twice.                                        *)
LEMMA ClaimedDistinct ==
  ASSUME TypeOK, ClaimsAreUnique, NEW v \in Workers, NEW w \in Workers,
         pc[v] \in ClaimedPCs, pc[w] \in ClaimedPCs, Claimed(v) = Claimed(w)
  PROVE  v = w
<1>1. handle[v] = handle[w] /\ handle[v] \in Tasks
  BY ClaimedIsRun
<1>2. /\ index[v] + 1 \in DOMAIN missing[handle[v]]
      /\ index[w] + 1 \in DOMAIN missing[handle[v]]
      /\ missing[handle[v]][index[v] + 1] = missing[handle[v]][index[w] + 1]
  BY <1>1 DEF TypeOK, ClaimsAreUnique, Claimed
<1>3. missing[handle[v]] \in InstanceLists
  BY <1>1, <1>2 DEF ClaimsAreUnique
<1>4. index[v] + 1 = index[w] + 1
  BY <1>2, <1>3, InstanceListsAssumption
<1> QED BY <1>1, <1>4 DEF ClaimsAreUnique, TypeOK

WorkerTypeOK ==
  /\ pc \in [Workers -> PCs]
  /\ handle \in [Workers -> Tasks \cup {NoTask}]
  /\ index \in [Workers -> Nat]
  /\ outcome \in [Workers -> Statuses \cup {"none"}]

(* A jump to a known place keeps the type of pc.                           *)
LEMMA GotoType ==
  ASSUME TypeOK, NEW w \in Workers, NEW l \in PCs, Goto(w, l)
  PROVE  pc' \in [Workers -> PCs]
BY DEF TypeOK, Goto

(* Dropping a handle keeps the types of the variables of the workers.      *)
LEMMA DropHandleType ==
  ASSUME TypeOK, NEW w \in Workers, DropHandle(w)
  PROVE  WorkerTypeOK'
<1>1. pc' \in [Workers -> PCs]
  BY GotoType DEF DropHandle, PCs
<1> QED BY <1>1 DEF TypeOK, DropHandle, WorkerTypeOK

(* The scheduler is created with well-typed state.                         *)
LEMMA TypeInit == Init => TypeOK
<1> SUFFICES ASSUME Init PROVE TypeOK
  OBVIOUS
<1>1. target \in Targets
  BY DEF Init, Targets
<1>2. missing \in [Tasks -> Seq(Instances)] /\ proc \in [Runs -> {"none"} \cup Live \cup Ended]
  BY DEF Init
<1>3. WorkerTypeOK
  BY DEF Init, WorkerTypeOK, PCs
<1>4. workQ \in Seq(Tasks) /\ events \in Seq(Events)
  BY DEF Init
<1> QED BY <1>1, <1>2, <1>3, <1>4 DEF Init, TypeOK, WorkerTypeOK, IlsPCs

(* What a step of worker w can change, action by action.                   *)
WorkerFrame(w) ==
  /\ UNCHANGED <<batchId, cancelled, missing, interrupted, ils, toOffer, target, victims>>
  /\ \A v \in Workers \ {w} : /\ pc'[v] = pc[v]
                              /\ handle'[v] = handle[v]
                              /\ index'[v] = index[v]
                              /\ outcome'[v] = outcome[v]
  /\ Receive(w) \/ (UNCHANGED workQ /\ handle'[w] \in {handle[w], NoTask})
  /\ Claim(w) \/ UNCHANGED next
  /\ Report(w) \/ UNCHANGED reported
  /\ Announce(w) \/ Report(w) \/ UNCHANGED events
  /\ Spawn(w) \/ Terminate(w) \/ Escalate(w) \/ UNCHANGED proc
  /\ Register(w) \/ Release(w) \/ UNCHANGED active
  /\ pc'[w] \in ClaimedPCs =>
       \/ Claim(w)
       \/ pc[w] \in ClaimedPCs /\ handle'[w] = handle[w] /\ index'[w] = index[w]
  /\ pc'[w] \notin {"recv", "exit"} =>
       \/ Receive(w)
       \/ pc[w] \notin {"recv", "exit"} /\ handle'[w] = handle[w]

(* What one worker step can touch: its own thread variables, the queue,    *)
(* its claim counter and its own process, never the variables of submit,   *)
(* reset or of another worker.                                             *)
LEMMA WorkerFrames ==
  ASSUME TypeOK, NEW w \in Workers, Worker(w)
  PROVE  WorkerFrame(w)
<1> USE DEF TypeOK, WorkerFrame, Goto, ClaimedPCs, sharedVars, workerVars, ilsVars
<1>1. CASE Receive(w)
  <2>1. /\ UNCHANGED <<batchId, cancelled, missing, next, interrupted, reported, events,
                       proc, active, ils, toOffer, target, victims>>
        /\ \A v \in Workers \ {w} : /\ pc'[v] = pc[v]
                                    /\ handle'[v] = handle[v]
                                    /\ index'[v] = index[v]
                                    /\ outcome'[v] = outcome[v]
        /\ pc'[w] = "stale"
    BY <1>1 DEF Receive
  <2> QED BY <1>1, <2>1
<1>2. CASE Retire(w)
  BY <1>2 DEF Retire
<1>3. CASE CheckHandle(w)
  BY <1>3 DEF CheckHandle, DropHandle
<1>4. CASE Claim(w)
  BY <1>4 DEF Claim, DropHandle
<1>5. CASE CheckBatch(w)
  BY <1>5 DEF CheckBatch, DropHandle
<1>6. CASE CheckCancelled(w)
  BY <1>6 DEF CheckCancelled, DropHandle
<1>7. CASE Announce(w)
  BY <1>7 DEF Announce
<1>8. CASE Spawn(w)
  BY <1>8 DEF Spawn
<1>9. CASE SpawnFails(w)
  BY <1>9 DEF SpawnFails
<1>10. CASE Register(w)
  BY <1>10 DEF Register
<1>11. CASE Poll(w) \/ PollCancelled(w)
  BY <1>11 DEF Poll, PollCancelled
<1>12. CASE TryWait(w)
  BY <1>12 DEF TryWait
<1>13. CASE Terminate(w)
  BY <1>13 DEF Terminate
<1>14. CASE Escalate(w)
  BY <1>14 DEF Escalate
<1>15. CASE Reap(w)
  BY <1>15 DEF Reap
<1>16. CASE Release(w)
  BY <1>16 DEF Release, DropHandle
<1>17. CASE Report(w)
  BY <1>17 DEF Report
<1> QED BY <1>1, <1>2, <1>3, <1>4, <1>5, <1>6, <1>7, <1>8, <1>9, <1>10, <1>11, <1>12, <1>13, <1>14, <1>15, <1>16, <1>17 DEF Worker

(* What a step of the ILS thread can change, call by call.                 *)
IlsFrame ==
  /\ UNCHANGED <<workerVars, next, active, interrupted>>
  /\ Offer \/ UNCHANGED <<missing, workQ, reported>>
  /\ Offer \/ Take \/ UNCHANGED events
  /\ TermGroups \/ KillGroups \/ UNCHANGED proc
  /\ SubmitBump \/ Reset \/ Drop \/ UNCHANGED batchId
  /\ SubmitClear \/ (\E n \in Neighbours : CancelInsert(n)) \/ UNCHANGED cancelled
  /\ SubmitBump \/ Offer \/ ((Reset \/ Drop) /\ toOffer' = {}) \/ UNCHANGED toOffer
  /\ Snapshot \/ KillGroups \/ UNCHANGED victims
  /\ \/ Reset \/ Drop \/ KillGroups
     \/ \E n \in Neighbours : CancelInsert(n)
     \/ UNCHANGED target

(* What the ILS thread can touch: nothing of the workers, and of the       *)
(* batches only the id and the cancellations.                              *)
LEMMA IlsFrames ==
  ASSUME Ils
  PROVE  IlsFrame
<1> USE DEF IlsFrame, sharedVars, workerVars, ilsVars
<1>1. CASE SubmitBump
  BY <1>1 DEF SubmitBump
<1>2. CASE SubmitClear
  BY <1>2 DEF SubmitClear
<1>3. CASE Offer
  BY <1>3 DEF Offer, OfferTask
<1>4. CASE SubmitDone
  BY <1>4 DEF SubmitDone
<1>5. CASE Take
  BY <1>5 DEF Take
<1>6. CASE \E n \in Neighbours : CancelInsert(n)
  BY <1>6 DEF CancelInsert
<1>7. CASE Reset \/ Drop
  BY <1>7 DEF Reset, Drop, ResetBump
<1>8. CASE Leave
  BY <1>8 DEF Leave
<1>9. CASE Snapshot
  BY <1>9 DEF Snapshot
<1>10. CASE TermGroups
  BY <1>10 DEF TermGroups, Signal
<1>11. CASE KillGroups
  BY <1>11 DEF KillGroups, Signal
<1>12. CASE Drained
  BY <1>12 DEF Drained
<1> QED BY <1>1, <1>2, <1>3, <1>4, <1>5, <1>6, <1>7, <1>8, <1>9, <1>10, <1>11, <1>12 DEF Ils

(* A worker step keeps the types.                                          *)
LEMMA TypeWorker ==
  ASSUME IInv, NEW w \in Workers, Worker(w)
  PROVE  TypeOK'
<1>a. TypeOK /\ ClaimsAreUnique /\ ProcessFollowsWorker
  BY DEF IInv
<1>b. pc[w] \in ClaimedPCs => Claimed(w) \in Runs
  BY <1>a, ClaimedIsRun
<1>c. pc[w] \notin {"recv", "exit"} => handle[w] \in Tasks
  BY <1>a DEF ClaimsAreUnique
<1>d. WorkerTypeOK
  BY <1>a DEF TypeOK, WorkerTypeOK
<1>1. CASE Receive(w)
  BY <1>a, <1>1 DEF TypeOK, Receive, Goto, PCs, sharedVars, workerVars, ilsVars
<1>2. CASE Claim(w)
  <2>1. WorkerTypeOK'
    <3>1. CASE DropHandle(w)
      BY <1>a, <3>1, DropHandleType
    <3>2. CASE index' = [index EXCEPT ![w] = next[handle[w]]] /\ Goto(w, "checkBatch")
               /\ UNCHANGED <<handle, outcome>>
      BY <1>a, <1>c, <1>2, <3>2, GotoType DEF Claim, PCs, TypeOK, WorkerTypeOK
    <3> QED BY <1>2, <3>1, <3>2 DEF Claim
  <2>2. next' \in [Tasks -> Nat]
    BY <1>a, <1>c, <1>2 DEF Claim, ClaimedNext, TypeOK
  <2> QED
    BY <1>a, <1>2, <2>1, <2>2 DEF Claim, TypeOK, WorkerTypeOK, ilsVars
<1>3. CASE Announce(w)
  <2>1. Dispatched(Claimed(w)) \in Events
    BY <1>b, <1>3 DEF Dispatched, Events, Announce, ClaimedPCs
  <2>2. events' \in Seq(Events)
    BY <1>a, <1>3, <2>1 DEF Announce, Send, TypeOK
  <2> QED BY <1>a, <1>3, <2>2, GotoType DEF Announce, TypeOK, PCs, sharedVars, ilsVars
<1>4. CASE Report(w)
  <2>1. outcome[w] \in Statuses
    BY <1>a, <1>4 DEF Report, TypeOK, ProcessFollowsWorker
  <2>2. Completed(Claimed(w), outcome[w], TRUE, proc[Claimed(w)] = "killed") \in Events
    BY <1>b, <1>4, <2>1 DEF Completed, Events, Report, ClaimedPCs
  <2>3. \E e \in Events : Send(<<e>>)
    BY <1>4, <2>2, Zenon DEF Report
  <2>6. events' \in Seq(Events)
    BY <1>a, <2>3 DEF Send, TypeOK
  <2>4. WorkerTypeOK'
    BY <1>a, <1>4, GotoType DEF Report, TypeOK, PCs, WorkerTypeOK
  <2>5. reported' \in SUBSET Runs
    BY <1>a, <1>b, <1>4 DEF Report, ClaimedPCs, TypeOK
  <2> QED BY <1>a, <1>4, <2>6, <2>4, <2>5 DEF Report, TypeOK, WorkerTypeOK, sharedVars, ilsVars
<1>5. CASE CheckHandle(w) \/ CheckBatch(w) \/ CheckCancelled(w)
  <2>1. CASE DropHandle(w)
    <3>1. WorkerTypeOK'
      BY <1>a, <2>1, DropHandleType
    <3> QED BY <1>a, <1>5, <3>1 DEF CheckHandle, CheckBatch, CheckCancelled, TypeOK,
                                    WorkerTypeOK, sharedVars, ilsVars
  <2>2. CASE ~DropHandle(w)
    <3>1. \E l \in {"claim", "checkCancelled", "announce"} : Goto(w, l)
      BY <1>5, <2>2 DEF CheckHandle, CheckBatch, CheckCancelled
    <3>2. pc' \in [Workers -> PCs]
      BY <1>a, <3>1, GotoType DEF PCs
    <3> QED BY <1>a, <1>5, <2>2, <3>2 DEF CheckHandle, CheckBatch, CheckCancelled, TypeOK,
                                          sharedVars, ilsVars
  <2> QED BY <2>1, <2>2
<1>6. CASE Spawn(w) \/ SpawnFails(w)
  <2>1. WorkerTypeOK'
    BY <1>a, <1>d, <1>6, GotoType DEF Spawn, SpawnFails, PCs, WorkerTypeOK, Statuses
  <2>2. proc' \in [Runs -> {"none"} \cup Live \cup Ended]
    BY <1>a, <1>6 DEF Spawn, SpawnFails, TypeOK, Live
  <2> QED BY <1>a, <1>6, <2>1, <2>2 DEF Spawn, SpawnFails, TypeOK, WorkerTypeOK,
                                        sharedVars, ilsVars
<1>7. CASE Register(w) \/ Release(w)
  <2>1. WorkerTypeOK'
    BY <1>a, <1>d, <1>7, DropHandleType, GotoType DEF Register, Release, PCs, WorkerTypeOK
  <2>2. active' \in SUBSET Runs
    BY <1>a, <1>b, <1>7 DEF Register, Release, TypeOK, ClaimedPCs
  <2> QED BY <1>a, <1>7, <2>1, <2>2 DEF Register, Release, TypeOK, WorkerTypeOK, ilsVars
<1>8. CASE Retire(w) \/ Poll(w) \/ PollCancelled(w) \/ TryWait(w) \/ Reap(w)
  <2>1. WorkerTypeOK'
    BY <1>a, <1>d, <1>8, GotoType DEF Retire, Poll, PollCancelled, TryWait, Reap, PCs, WorkerTypeOK
  <2> QED BY <1>a, <1>8, <2>1 DEF Retire, Poll, PollCancelled, TryWait, Reap, TypeOK, WorkerTypeOK,
                                  sharedVars, ilsVars
<1>9. CASE Terminate(w) \/ Escalate(w)
  <2>1. WorkerTypeOK'
    BY <1>a, <1>d, <1>9, GotoType DEF Terminate, Escalate, PCs, WorkerTypeOK, workerVars
  <2>2. proc' \in [Runs -> {"none"} \cup Live \cup Ended]
    BY <1>a, <1>9 DEF Terminate, Escalate, Signal, TypeOK, Live
  <2> QED BY <1>a, <1>9, <2>1, <2>2 DEF Terminate, Escalate, TypeOK, WorkerTypeOK,
                                        sharedVars, ilsVars
<1> QED BY <1>1, <1>2, <1>3, <1>4, <1>5, <1>6, <1>7, <1>8, <1>9 DEF Worker

(* A step of submit, cancel_neighbor, reset or drop keeps the types.       *)
LEMMA TypeIls ==
  ASSUME IInv, Ils
  PROVE  TypeOK'
<1>a. TypeOK /\ FreshIsUntouched
  BY DEF IInv
<1>1. CASE SubmitBump
  BY <1>a, <1>1 DEF SubmitBump, TypeOK, IlsPCs, workerVars
<1>2. CASE SubmitClear
  BY <1>a, <1>2 DEF SubmitClear, TypeOK, IlsPCs, workerVars
<1>3. CASE Offer
  <2> SUFFICES ASSUME NEW n \in toOffer, NEW m \in InstanceLists, NEW hits \in InstanceLists,
                      OfferTask(n, m, hits)
               PROVE  TypeOK'
    BY <1>a, <1>3 DEF Offer
  <2>1. /\ n \in Neighbours
        /\ batchId \in Batches
        /\ m \in Seq(Instances) /\ hits \in Seq(Instances)
    BY <1>a, InstanceListsAssumption DEF TypeOK, OfferTask, FreshIsUntouched
  <2>2. <<batchId, n>> \in Tasks
    BY <2>1 DEF Tasks
  <2>3. [k \in 1 .. SlotCount(m) |-> <<batchId, n>>] \in Seq(Tasks)
    <3>1. SlotCount(m) \in Nat
      BY <2>1, WorkersAssumption, FS_CardinalityType DEF SlotCount
    <3> QED BY <2>2, <3>1
  <2>4. \A k \in DOMAIN hits :
          /\ <<batchId, n, hits[k]>> \in Runs
          /\ Completed(<<batchId, n, hits[k]>>, "line", FALSE, FALSE) \in Events
    BY <2>1 DEF Runs, Completed, Events, Statuses
  <2>5. [k \in DOMAIN hits |-> Completed(<<batchId, n, hits[k]>>, "line", FALSE, FALSE)]
          \in Seq(Events)
    <3> DEFINE e(k) == Completed(<<batchId, n, hits[k]>>, "line", FALSE, FALSE)
    <3>1. DOMAIN hits = 1 .. Len(hits) /\ Len(hits) \in Nat
      BY <2>1
    <3>2. \A k \in 1 .. Len(hits) : e(k) \in Events
      BY <2>4, <3>1
    <3> HIDE DEF e
    <3>3. [k \in 1 .. Len(hits) |-> e(k)] \in Seq(Events)
      BY <3>1, <3>2
    <3> QED BY <3>1, <3>3 DEF e
  <2>6. events' \in Seq(Events)
    BY <1>a, <2>5 DEF OfferTask, Send, TypeOK
  <2>7. workQ' \in Seq(Tasks)
    BY <1>a, <2>3 DEF OfferTask, TypeOK
  <2>8. missing' \in [Tasks -> Seq(Instances)]
    BY <1>a, <2>1, <2>2 DEF OfferTask, TypeOK
  <2>9. reported' \in SUBSET Runs
    BY <1>a, <2>4 DEF OfferTask, TypeOK
  <2> QED BY <1>a, <2>6, <2>7, <2>8, <2>9 DEF OfferTask, TypeOK, workerVars
<1>4. CASE SubmitDone \/ Leave \/ Drained \/ Take
  <2>1. events' \in Seq(Events)
    <3>1. CASE Take
      BY <1>a, <3>1 DEF Take, TypeOK
    <3>2. CASE ~Take
      BY <1>a, <1>4, <3>2 DEF SubmitDone, Leave, Drained, TypeOK
    <3> QED BY <3>1, <3>2
  <2>2. ils' \in IlsPCs
    BY <1>a, <1>4 DEF SubmitDone, Leave, Drained, Take, TypeOK, IlsPCs, ilsVars
  <2> QED BY <1>a, <1>4, <2>1, <2>2 DEF SubmitDone, Leave, Drained, Take, TypeOK,
                                        sharedVars, workerVars, ilsVars
<1>5. CASE \E n \in Neighbours : CancelInsert(n)
  <2> SUFFICES ASSUME NEW n \in Neighbours, CancelInsert(n)
               PROVE  TypeOK'
    BY <1>5
  <2>1. <<batchId, n>> \in Tasks /\ <<batchId, n>> \in Nat \X Neighbours
    BY <1>a DEF CancelInsert, FreshIsUntouched, Tasks, TypeOK
  <2>2. target' \in Targets
    BY <2>1 DEF CancelInsert, Targets
  <2> QED BY <1>a, <2>1, <2>2 DEF CancelInsert, TypeOK, IlsPCs, workerVars
<1>6. CASE Reset \/ Drop
  BY <1>a, <1>6 DEF Reset, Drop, ResetBump, TypeOK, IlsPCs, workerVars, Targets
<1>7. CASE Snapshot
  BY <1>a, <1>7 DEF Snapshot, TypeOK, IlsPCs, sharedVars, workerVars
<1>8. CASE TermGroups \/ KillGroups
  <2>1. proc' \in [Runs -> {"none"} \cup Live \cup Ended]
    BY <1>a, <1>8 DEF TermGroups, KillGroups, Signal, TypeOK, Live
  <2>2. target' \in Targets /\ ils' \in IlsPCs
    BY <1>a, <1>8 DEF TermGroups, KillGroups, TypeOK, IlsPCs, Targets
  <2> QED BY <1>a, <1>8, <2>1, <2>2 DEF TermGroups, KillGroups, TypeOK, sharedVars, workerVars
<1> QED BY <1>a, <1>1, <1>2, <1>3, <1>4, <1>5, <1>6, <1>7, <1>8 DEF Ils

(***************************************************************************)
(* Tasks that submit has not reached are untouched.                        *)
(***************************************************************************)
LEMMA FreshWorker ==
  ASSUME IInv, NEW w \in Workers, Worker(w)
  PROVE  FreshIsUntouched'
<1>a. /\ TypeOK /\ FreshIsUntouched /\ ClaimsAreUnique
      /\ WorkerFrame(w)
  BY WorkerFrames DEF IInv
<1>b. \A t \in Tasks : Fresh(t)' <=> Fresh(t)
  BY <1>a DEF Fresh, WorkerFrame
<1>1. ASSUME NEW t \in Tasks, Fresh(t)
      PROVE  /\ missing'[t] = <<>>
             /\ next'[t] = 0
             /\ \A v \in Workers : handle'[v] # t
             /\ \A k \in DOMAIN workQ' : workQ'[k] # t
  <2>1. missing'[t] = <<>>
    BY <1>a, <1>1 DEF FreshIsUntouched, WorkerFrame
  <2>2. next'[t] = 0
    <3>1. CASE Claim(w)
      <4>1. handle[w] # t
        BY <1>a, <1>1 DEF FreshIsUntouched
      <4> QED BY <1>a, <1>1, <3>1, <4>1 DEF Claim, ClaimedNext, FreshIsUntouched, TypeOK
    <3> QED BY <1>a, <1>1, <3>1 DEF FreshIsUntouched, WorkerFrame
  <2>3. (\A k \in DOMAIN workQ' : workQ'[k] # t) /\ handle'[w] # t
    <3>1. CASE Receive(w)
      <4>1. /\ Len(workQ) > 0 /\ workQ \in Seq(Tasks)
            /\ \A k \in DOMAIN workQ : workQ[k] # t
        BY <1>a, <1>1, <3>1 DEF Receive, TypeOK, FreshIsUntouched
      <4>2. Head(workQ) # t /\ \A k \in DOMAIN Tail(workQ) : Tail(workQ)[k] # t
        BY <4>1
      <4> QED BY <1>a, <3>1, <4>2 DEF Receive, TypeOK
    <3>2. CASE ~Receive(w)
      <4>1. t # NoTask
        BY DEF Tasks, NoTask
      <4> QED BY <1>a, <1>1, <3>2, <4>1 DEF FreshIsUntouched, WorkerFrame
    <3> QED BY <3>1, <3>2
  <2> QED BY <1>a, <1>1, <2>1, <2>2, <2>3 DEF FreshIsUntouched, WorkerFrame
<1>2. \A r \in reported' : ~Fresh(Task(r))'
  <2>1. CASE Report(w)
    <3>1. pc[w] \in ClaimedPCs /\ reported' = reported \cup {Claimed(w)}
      BY <2>1 DEF Report, ClaimedPCs
    <3>2. Task(Claimed(w)) = handle[w] /\ handle[w] \in Tasks
      BY <1>a, <3>1, ClaimedIsRun
    <3>3. ~Fresh(handle[w])
      BY <1>a, <3>2 DEF FreshIsUntouched
    <3>4. \A r \in reported' : Task(r) \in Tasks /\ ~Fresh(Task(r))
      BY <1>a, <3>1, <3>2, <3>3 DEF FreshIsUntouched, TypeOK, Runs, Tasks, Task
    <3> QED BY <1>b, <3>4 DEF Task
  <2>2. CASE ~Report(w)
    <3>1. \A r \in reported' : Task(r) \in Tasks /\ ~Fresh(Task(r))
      BY <1>a, <2>2, RunParts DEF FreshIsUntouched, WorkerFrame, TypeOK
    <3> QED BY <1>b, <3>1 DEF Task
  <2> QED BY <2>1, <2>2
<1> QED BY <1>a, <1>b, <1>1, <1>2 DEF FreshIsUntouched, WorkerFrame

(* A step of the ILS thread leaves alone the tasks submit has still to     *)
(* enqueue, except the one it enqueues.                                    *)
LEMMA FreshIls ==
  ASSUME IInv, TypeOK', Ils
  PROVE  FreshIsUntouched'
<1>a. TypeOK /\ FreshIsUntouched /\ IlsFrame
  BY IlsFrames DEF IInv
<1>1. CASE Offer
  <2> SUFFICES ASSUME NEW n \in toOffer, NEW m \in InstanceLists, NEW hits \in InstanceLists,
                      OfferTask(n, m, hits)
               PROVE  FreshIsUntouched'
    BY <1>1 DEF Offer
  <2> DEFINE t0 == <<batchId, n>>
  <2>1. t0 \in Tasks /\ Fresh(t0) /\ n \in Neighbours
    BY <1>a DEF OfferTask, FreshIsUntouched, Fresh, Tasks, TypeOK
  <2>2. \A t \in Tasks : Fresh(t)' => Fresh(t) /\ t # t0
    <3>1. /\ UNCHANGED <<batchId, target>> /\ toOffer' = toOffer \ {n}
          /\ target.kind = "none" /\ batchId \in Nat
      BY <1>a DEF OfferTask, FreshIsUntouched, TypeOK
    <3>2. \A t \in Tasks : Fresh(t)' => Fresh(t)
      BY <3>1 DEF Fresh
    <3>3. ASSUME NEW t \in Tasks, Fresh(t)' PROVE t # t0
      BY <3>1, <3>3 DEF Fresh
    <3> QED BY <3>2, <3>3
  <2>3. \A t \in Tasks : Fresh(t)' => \A k \in DOMAIN workQ' : workQ'[k] # t
    <3>1. SlotCount(m) \in Nat
      BY InstanceListsAssumption, WorkersAssumption, FS_CardinalityType DEF SlotCount
    <3>2. workQ \in Seq(Tasks)
      BY <1>a DEF TypeOK
    <3> HIDE DEF t0
    <3>3. workQ' = workQ \o [k \in 1 .. SlotCount(m) |-> t0]
      BY DEF OfferTask, t0
    <3>5. [k \in 1 .. SlotCount(m) |-> t0] \in Seq({t0})
      BY <3>1
    <3>4. \A k \in DOMAIN workQ' : \/ workQ'[k] = t0
                                   \/ k \in DOMAIN workQ /\ workQ'[k] = workQ[k]
      BY <3>1, <3>2, <3>3, <3>5
    <3> QED BY <1>a, <2>2, <3>4 DEF FreshIsUntouched
  <2>4. \A r \in reported' : Task(r) \in Tasks /\ (Task(r) = t0 \/ ~Fresh(Task(r)))
    <3>1. \A k \in DOMAIN hits : Task(<<batchId, n, hits[k]>>) = t0
      BY DEF Task
    <3>2. reported' = reported \cup {<<batchId, n, hits[k]>> : k \in DOMAIN hits}
      BY DEF OfferTask
    <3>3. \A r \in reported : Task(r) \in Tasks /\ ~Fresh(Task(r))
      BY <1>a, RunParts DEF FreshIsUntouched, TypeOK
    <3> HIDE DEF t0
    <3>4. ASSUME NEW r \in reported' PROVE Task(r) \in Tasks /\ (Task(r) = t0 \/ ~Fresh(Task(r)))
      <4>1. CASE r \in reported
        BY <3>3, <4>1
      <4>2. CASE \E k \in DOMAIN hits : r = <<batchId, n, hits[k]>>
        BY <2>1, <3>1, <4>2
      <4> QED BY <3>2, <4>1, <4>2
    <3> QED BY <3>4
  <2>5. \A r \in reported' : ~Fresh(Task(r))'
    BY <2>2, <2>4 DEF Task
  <2>6. \A t \in Tasks : Fresh(t)' => missing'[t] = <<>> /\ next'[t] = 0
                                      /\ \A w \in Workers : handle'[w] # t
    BY <1>a, <2>2 DEF OfferTask, FreshIsUntouched, TypeOK, workerVars
  <2>7. toOffer' # {} => ils' \in {"clear", "offer"}
    BY <1>a DEF OfferTask
  <2>8. /\ target'.kind # "none" <=> ils' \in {"snapshot", "term", "kill"}
        /\ ils' \in {"clear", "offer", "open"} \/ target'.kind = "neighbour" =>
             batchId' \in Batches
    BY <1>a DEF OfferTask, FreshIsUntouched
  <2> QED BY <2>3, <2>5, <2>6, <2>7, <2>8 DEF FreshIsUntouched
<1>2. CASE ~Offer
  <2>1. UNCHANGED <<missing, next, handle, workQ, reported>>
    BY <1>a, <1>2 DEF IlsFrame, workerVars
  <2>2. /\ \A t \in Tasks : Fresh(t)' => Fresh(t)
        /\ toOffer' # {} => ils' \in {"clear", "offer"}
        /\ target'.kind # "none" <=> ils' \in {"snapshot", "term", "kill"}
        /\ ils' \in {"clear", "offer", "open"} \/ target'.kind = "neighbour" =>
             batchId' \in Batches
    <3> USE <1>a DEF Fresh, FreshIsUntouched, sharedVars
    <3>1. CASE SubmitBump
      BY <3>1, BoundsAssumption DEF SubmitBump, TypeOK, Tasks, Batches
    <3>2. CASE SubmitClear
      BY <3>2 DEF SubmitClear
    <3>3. CASE SubmitDone
      BY <3>3 DEF SubmitDone
    <3>4. CASE Take
      BY <3>4 DEF Take, ilsVars
    <3>5. CASE Reset \/ Drop
      BY <3>5 DEF Reset, Drop, ResetBump, TypeOK, Tasks, Batches
    <3>6. CASE Leave
      BY <3>6 DEF Leave
    <3>7. CASE Snapshot
      BY <3>7 DEF Snapshot
    <3>8. CASE TermGroups
      BY <3>8 DEF TermGroups
    <3>9. CASE KillGroups
      BY <3>9 DEF KillGroups
    <3>10. CASE Drained
      BY <3>10 DEF Drained
    <3>11. CASE \E n \in Neighbours : CancelInsert(n)
      BY <3>11 DEF CancelInsert
    <3> QED BY <1>2, <3>1, <3>2, <3>3, <3>4, <3>5, <3>6, <3>7, <3>8, <3>9, <3>10, <3>11 DEF Ils
  <2>3. \A r \in reported : Task(r) \in Tasks /\ ~Fresh(Task(r))
    BY <1>a, RunParts DEF FreshIsUntouched, TypeOK
  <2>4. \A r \in reported' : ~Fresh(Task(r))'
    BY <2>1, <2>2, <2>3 DEF Task
  <2> QED BY <1>a, <2>1, <2>2, <2>4 DEF FreshIsUntouched
<1> QED BY <1>1, <1>2

(* So does every step that touches neither queue, handles nor batches.     *)
LEMMA FreshEnv ==
  ASSUME FreshIsUntouched,
         UNCHANGED <<batchId, workQ, missing, next, handle, reported, ils, toOffer, target>>
  PROVE  FreshIsUntouched'
BY DEF FreshIsUntouched, Fresh, Task

(***************************************************************************)
(* Claims.                                                                 *)
(***************************************************************************)
LEMMA ClaimsWorker ==
  ASSUME IInv, TypeOK', NEW w \in Workers, Worker(w)
  PROVE  ClaimsAreUnique'
<1>a. TypeOK /\ ClaimsAreUnique /\ WorkerFrame(w)
  BY WorkerFrames DEF IInv
<1>1. \A t \in Tasks : missing'[t] = <<>> \/ missing'[t] \in InstanceLists
  BY <1>a DEF ClaimsAreUnique, WorkerFrame
<1>2. \A v \in Workers : pc'[v] \notin {"recv", "exit"} => handle'[v] \in Tasks
  <2>1. CASE Receive(w)
    <3>1. handle'[w] \in Tasks
      BY <1>a, <2>1 DEF Receive, TypeOK
    <3> QED BY <1>a, <3>1 DEF ClaimsAreUnique, WorkerFrame
  <2>2. CASE ~Receive(w)
    BY <1>a, <2>2 DEF ClaimsAreUnique, WorkerFrame
  <2> QED BY <2>1, <2>2
<1>3. CASE Claim(w) /\ next[handle[w]] < Len(missing[handle[w]])
  <2>1. handle[w] \in Tasks /\ pc[w] \notin ClaimedPCs
    BY <1>a, <1>3 DEF Claim, ClaimsAreUnique, ClaimedPCs
  <2>2. /\ index'[w] = next[handle[w]] /\ UNCHANGED handle
        /\ next' = [next EXCEPT ![handle[w]] = @ + 1]
    BY <1>a, <1>3 DEF Claim, ClaimedNext, TypeOK
  <2>3. \A t \in Tasks : next[t] \in Nat /\ next'[t] \in Nat /\ next'[t] >= next[t]
    BY <1>a, <2>1, <2>2 DEF TypeOK
  <2>4. index'[w] < Len(missing'[handle'[w]]) /\ index'[w] < next'[handle'[w]]
    BY <1>a, <1>3, <2>1, <2>2 DEF TypeOK, WorkerFrame
  <2>5. \A v \in Workers \ {w} : pc'[v] \in ClaimedPCs =>
          /\ pc[v] \in ClaimedPCs
          /\ handle[v] \in Tasks
          /\ index[v] \in Nat
          /\ index'[v] < Len(missing'[handle'[v]])
          /\ index'[v] < next[handle'[v]]
          /\ index'[v] < next'[handle'[v]]
    <3> SUFFICES ASSUME NEW v \in Workers \ {w}, pc'[v] \in ClaimedPCs
                 PROVE  /\ pc[v] \in ClaimedPCs
                        /\ handle[v] \in Tasks
                        /\ index[v] \in Nat
                        /\ index'[v] < Len(missing'[handle'[v]])
                        /\ index'[v] < next[handle'[v]]
                        /\ index'[v] < next'[handle'[v]]
      OBVIOUS
    <3>1. /\ pc'[v] = pc[v] /\ handle'[v] = handle[v] /\ index'[v] = index[v]
          /\ missing' = missing
      BY <1>a DEF WorkerFrame
    <3>2. /\ handle[v] \in Tasks
          /\ index[v] < Len(missing[handle[v]])
          /\ index[v] < next[handle[v]]
      BY <1>a, <3>1 DEF ClaimsAreUnique, ClaimedPCs
    <3>3. index[v] \in Nat
      BY <1>a DEF TypeOK
    <3> QED BY <2>3, <3>1, <3>2, <3>3
  <2>6. \A v \in Workers \ {w} : pc'[v] \in ClaimedPCs /\ handle'[v] = handle'[w] =>
          index'[v] # index'[w]
    BY <1>a, <2>1, <2>2, <2>3, <2>5 DEF TypeOK, WorkerFrame
  <2> QED BY <1>a, <1>1, <1>2, <2>4, <2>5, <2>6 DEF ClaimsAreUnique, WorkerFrame
<1>4. CASE ~(Claim(w) /\ next[handle[w]] < Len(missing[handle[w]]))
  <2>1. pc'[w] \in ClaimedPCs =>
          pc[w] \in ClaimedPCs /\ handle'[w] = handle[w] /\ index'[w] = index[w]
    BY <1>a, <1>4 DEF WorkerFrame, Claim, DropHandle, Goto, TypeOK, ClaimedPCs
  <2>2. \A t \in Tasks : next[t] \in Nat /\ next'[t] \in Nat /\ next'[t] >= next[t]
    <3>1. CASE Claim(w)
      <4>1. handle[w] \in Tasks
        BY <1>a, <3>1 DEF Claim, ClaimsAreUnique
      <4> QED BY <1>a, <3>1, <4>1 DEF Claim, ClaimedNext, TypeOK
    <3> QED BY <1>a, <3>1 DEF WorkerFrame, TypeOK
  <2>3. \A v \in Workers : pc'[v] \in ClaimedPCs =>
          /\ pc[v] \in ClaimedPCs /\ handle'[v] = handle[v] /\ index'[v] = index[v]
          /\ handle[v] \in Tasks
          /\ index[v] \in Nat
          /\ index[v] < Len(missing[handle[v]])
          /\ index[v] < next[handle[v]]
    BY <1>a, <2>1 DEF ClaimsAreUnique, WorkerFrame, ClaimedPCs, TypeOK
  <2>4. \A v \in Workers : pc'[v] \in ClaimedPCs =>
          /\ index'[v] < Len(missing'[handle'[v]])
          /\ index'[v] < next'[handle'[v]]
    BY <1>a, <2>2, <2>3 DEF WorkerFrame
  <2>5. \A u, v \in Workers :
          /\ pc'[u] \in ClaimedPCs
          /\ pc'[v] \in ClaimedPCs
          /\ handle'[u] = handle'[v]
          /\ index'[u] = index'[v]
          => u = v
    BY <1>a, <2>3 DEF ClaimsAreUnique
  <2> QED BY <1>1, <1>2, <2>4, <2>5 DEF ClaimsAreUnique, ClaimedPCs
<1> QED BY <1>3, <1>4

(* A task is enqueued with a list nobody has an index into.                *)
LEMMA ClaimsIls ==
  ASSUME IInv, TypeOK', Ils
  PROVE  ClaimsAreUnique'
<1>a. TypeOK /\ FreshIsUntouched /\ ClaimsAreUnique /\ IlsFrame
  BY IlsFrames DEF IInv
<1>1. CASE Offer
  <2> SUFFICES ASSUME NEW n \in toOffer, NEW m \in InstanceLists, NEW hits \in InstanceLists,
                      OfferTask(n, m, hits)
               PROVE  ClaimsAreUnique'
    BY <1>1 DEF Offer
  <2>1. \A v \in Workers : handle[v] \in Tasks => missing'[handle[v]] = missing[handle[v]]
    BY <1>a DEF OfferTask, FreshIsUntouched, Fresh, TypeOK
  <2>2. \A t \in Tasks : missing'[t] = <<>> \/ missing'[t] \in InstanceLists
    BY <1>a DEF OfferTask, ClaimsAreUnique, TypeOK
  <2>3. UNCHANGED <<pc, handle, index, next>>
    BY <1>a DEF IlsFrame, workerVars
  <2> QED BY <1>a, <2>1, <2>2, <2>3 DEF ClaimsAreUnique, ClaimedPCs
<1>2. CASE ~Offer
  BY <1>a, <1>2 DEF IlsFrame, workerVars, ClaimsAreUnique
<1> QED BY <1>1, <1>2

(* Claims stay unique while lists, counters and handles stay.              *)
LEMMA ClaimsEnv ==
  ASSUME ClaimsAreUnique, UNCHANGED <<missing, next, pc, handle, index>>
  PROVE  ClaimsAreUnique'
BY DEF ClaimsAreUnique

(***************************************************************************)
(* Processes and the workers that look after them.                         *)
(***************************************************************************)

(* What ProcessFollowsWorker says of one worker.                           *)
FollowsAt(v) ==
  /\ pc[v] \in {"checkBatch", "checkCancelled", "announce", "spawn"} =>
       proc[Claimed(v)] = "none"
  /\ pc[v] \in {"register", "poll", "pollCancelled", "tryWait", "terminate", "reap"} =>
       proc[Claimed(v)] # "none"
  /\ pc[v] \in {"release", "report"} => proc[Claimed(v)] \notin Live
  /\ pc[v] = "report" <=> outcome[v] # "none" /\ pc[v] # "release"

(* A position once behind next_index stays behind it.                      *)
LEMMA TakenStays ==
  ASSUME TypeOK, TypeOK', NEW r \in Runs, Taken(r), UNCHANGED missing,
         \A t \in Tasks : next'[t] >= next[t]
  PROVE  Taken(r)'
<1>1. Task(r) \in Tasks
  BY RunParts
<1>2. PICK k \in DOMAIN missing[Task(r)] :
        k <= next[Task(r)] /\ missing[Task(r)][k] = r[3]
  BY DEF Taken
<1>3. k \in Nat /\ next[Task(r)] \in Nat /\ next'[Task(r)] \in Nat
  BY <1>1, <1>2 DEF TypeOK
<1>4. k <= next'[Task(r)]
  BY <1>1, <1>2, <1>3
<1> QED BY <1>2, <1>4 DEF Taken, Task

(* fetch_add only moves next_index forward.                                *)
LEMMA NextGrows ==
  ASSUME IInv, NEW w \in Workers, Worker(w)
  PROVE  \A t \in Tasks : next'[t] >= next[t]
<1>a. TypeOK /\ ClaimsAreUnique /\ WorkerFrame(w)
  BY WorkerFrames DEF IInv
<1>1. CASE Claim(w)
  <2>1. handle[w] \in Tasks
    BY <1>a, <1>1 DEF Claim, ClaimsAreUnique
  <2> QED BY <1>a, <1>1, <2>1 DEF Claim, ClaimedNext, TypeOK
<1> QED BY <1>a, <1>1 DEF WorkerFrame, TypeOK

(* A worker touches only the process of the run it has claimed.            *)
LEMMA WorkerProcs ==
  ASSUME IInv, NEW w \in Workers, Worker(w)
  PROVE  \A r \in Runs :
           /\ proc[r] # "none" => proc'[r] # "none"
           /\ proc'[r] # proc[r] =>
                /\ r = Claimed(w)
                /\ pc[w] \in {"spawn", "terminate", "reap"}
                /\ pc[w] = "spawn" => proc[r] = "none" /\ proc'[r] = "running" /\ pc'[w] = "register"
                /\ pc[w] # "spawn" => proc[r] \in Live /\ proc'[r] \in {"termed", "killing"}
<1>a. TypeOK /\ ClaimsAreUnique /\ ProcessFollowsWorker /\ WorkerFrame(w)
  BY WorkerFrames DEF IInv
<1>1. CASE Spawn(w)
  <2>1. /\ proc' = [proc EXCEPT ![Claimed(w)] = "running"]
        /\ pc[w] = "spawn" /\ pc'[w] = "register"
    BY <1>a, <1>1 DEF Spawn, Goto, TypeOK
  <2>2. proc[Claimed(w)] = "none"
    BY <1>a, <2>1 DEF ProcessFollowsWorker
  <2> QED BY <1>a, <2>1, <2>2 DEF TypeOK
<1>2. CASE Terminate(w) \/ Escalate(w)
  <2>1. /\ pc[w] \in {"terminate", "reap"}
        /\ \E sig \in {"termed", "killing"} : Signal({Claimed(w)}, sig)
    BY <1>2 DEF Terminate, Escalate
  <2> QED BY <1>a, <2>1 DEF TypeOK, Signal
<1>3. CASE ~Spawn(w) /\ ~Terminate(w) /\ ~Escalate(w)
  BY <1>a, <1>3 DEF WorkerFrame
<1> QED BY <1>1, <1>2, <1>3

(* The worker that moves: its new place agrees with the process of the run *)
(* it has claimed.                                                         *)
LEMMA FollowsSelf ==
  ASSUME IInv, TypeOK', NEW w \in Workers, Worker(w)
  PROVE  FollowsAt(w)'
<1>a. TypeOK /\ ClaimsAreUnique /\ ProcessFollowsWorker /\ WorkerFrame(w)
  BY WorkerFrames DEF IInv
<1>b. FollowsAt(w)
  BY <1>a DEF ProcessFollowsWorker, FollowsAt
<1> USE <1>a, <1>b DEF FollowsAt, Goto, sharedVars, workerVars, ilsVars, Live, Ended
<1>1. CASE DropHandle(w)
  BY <1>1 DEF DropHandle, TypeOK
<1>2. CASE Receive(w) \/ Retire(w)
  BY <1>2 DEF Receive, Retire, TypeOK
<1>3. CASE Claim(w) /\ ~DropHandle(w)
  <2>1. /\ handle[w] \in Tasks
        /\ index' = [index EXCEPT ![w] = next[handle[w]]]
        /\ pc' = [pc EXCEPT ![w] = "checkBatch"]
        /\ next[handle[w]] \in Nat
        /\ next[handle[w]] < Len(missing[handle[w]])
        /\ UNCHANGED <<handle, missing, proc, outcome>>
    BY <1>3 DEF Claim, ClaimsAreUnique, TypeOK
  <2> DEFINE r == <<handle[w][1], handle[w][2], missing[handle[w]][next[handle[w]] + 1]>>
  <2>2. /\ r \in Runs /\ Task(r) = handle[w]
        /\ next[handle[w]] + 1 \in DOMAIN missing[handle[w]]
        /\ missing[handle[w]][next[handle[w]] + 1] = r[3]
    BY <2>1, RunParts DEF TypeOK
  <2>3. ~Taken(r)
    <3> HIDE DEF r
    <3>1. \A k \in DOMAIN missing[handle[w]] :
            missing[handle[w]][k] = r[3] => k = next[handle[w]] + 1
      <4>1. missing[handle[w]] \in InstanceLists
        BY <2>1, <2>2 DEF ClaimsAreUnique
      <4> QED BY <2>2, <4>1, InstanceListsAssumption
    <3> QED BY <2>1, <2>2, <3>1 DEF Taken
  <2>4. proc[r] = "none"
    BY <2>2, <2>3 DEF ProcessFollowsWorker
  <2>5. Claimed(w)' = r
    BY <2>1 DEF Claimed, TypeOK
  <2> HIDE DEF r
  <2>6. pc'[w] = "checkBatch" /\ outcome'[w] = "none" /\ pc[w] = "claim"
    BY <1>3, <2>1 DEF Claim, TypeOK
  <2> QED BY <2>1, <2>4, <2>5, <2>6
<1>4. CASE CheckHandle(w) /\ ~DropHandle(w)
  BY <1>4 DEF CheckHandle, TypeOK
<1>5. CASE ~DropHandle(w) /\ (CheckBatch(w) \/ CheckCancelled(w))
  BY <1>5 DEF CheckBatch, CheckCancelled, Claimed, TypeOK
<1>6. CASE Announce(w)
  BY <1>6 DEF Announce, Claimed, TypeOK
<1>7. CASE Spawn(w)
  <2>1. Claimed(w) \in Runs
    BY <1>7, ClaimedIsRun DEF Spawn, ClaimedPCs
  <2> QED BY <1>7, <2>1 DEF Spawn, Claimed, TypeOK
<1>8. CASE SpawnFails(w)
  BY <1>8 DEF SpawnFails, Claimed, TypeOK
<1>9. CASE Register(w) \/ Poll(w) \/ PollCancelled(w) \/ Reap(w)
  BY <1>9 DEF Register, Poll, PollCancelled, Reap, Claimed, TypeOK
<1>10. CASE TryWait(w)
  BY <1>10 DEF TryWait, Claimed, TypeOK, Statuses
<1>11. CASE Terminate(w) \/ Escalate(w)
  BY <1>11, ClaimedIsRun DEF Terminate, Escalate, Signal, Claimed, TypeOK, ClaimedPCs
<1>12. CASE Release(w) /\ ~DropHandle(w)
  BY <1>12 DEF Release, Claimed, TypeOK
<1>13. CASE Report(w)
  BY <1>13 DEF Report, TypeOK
<1> QED BY <1>1, <1>2, <1>3, <1>4, <1>5, <1>6, <1>7, <1>8, <1>9, <1>10, <1>11, <1>12, <1>13
        DEF Worker

(* The workers that do not move: nobody else touched the process of the    *)
(* run they have claimed.                                                  *)
LEMMA FollowsOther ==
  ASSUME IInv, NEW w \in Workers, Worker(w), NEW v \in Workers, v # w
  PROVE  FollowsAt(v)'
<1>a. TypeOK /\ ClaimsAreUnique /\ ProcessFollowsWorker /\ WorkerFrame(w)
  BY WorkerFrames DEF IInv
<1>1. /\ pc'[v] = pc[v] /\ handle'[v] = handle[v] /\ index'[v] = index[v]
      /\ outcome'[v] = outcome[v] /\ missing' = missing
  BY <1>a DEF WorkerFrame
<1>2. Claimed(v)' = Claimed(v)
  BY <1>1 DEF Claimed
<1>3. pc[v] \in ClaimedPCs => proc'[Claimed(v)] = proc[Claimed(v)]
  <2> SUFFICES ASSUME pc[v] \in ClaimedPCs, proc'[Claimed(v)] # proc[Claimed(v)]
               PROVE  FALSE
    OBVIOUS
  <2>1. Claimed(v) \in Runs
    BY <1>a, ClaimedIsRun
  <2>2. Claimed(v) = Claimed(w) /\ pc[w] \in {"spawn", "terminate", "reap"}
    BY <2>1, WorkerProcs
  <2> QED BY <1>a, <2>2, ClaimedDistinct DEF ClaimedPCs
<1>4. FollowsAt(v)
  BY <1>a DEF ProcessFollowsWorker, FollowsAt
<1> QED BY <1>1, <1>2, <1>3, <1>4 DEF FollowsAt, ClaimedPCs, Live

(* A worker step keeps processes and workers in agreement.                 *)
LEMMA ProcessWorker ==
  ASSUME IInv, TypeOK', NEW w \in Workers, Worker(w)
  PROVE  ProcessFollowsWorker'
<1>a. TypeOK /\ ClaimsAreUnique /\ ProcessFollowsWorker /\ WorkerFrame(w)
  BY WorkerFrames DEF IInv
<1>1. ASSUME NEW r \in Runs, proc'[r] # "none"
      PROVE  Taken(r)'
  <2>1. Taken(r)
    <3>1. CASE proc'[r] = proc[r]
      BY <1>a, <1>1, <3>1 DEF ProcessFollowsWorker
    <3>2. CASE proc'[r] # proc[r]
      BY <1>a, <3>2, WorkerProcs, ClaimedIsRun DEF ClaimedPCs
    <3> QED BY <3>1, <3>2
  <2> QED BY <1>a, <2>1, TakenStays, NextGrows DEF WorkerFrame
<1>2. \A r \in active' : proc'[r] # "none"
  <2>1. \A r \in active' : r \in Runs /\ proc[r] # "none"
    <3>1. CASE Register(w)
      <4>1. Claimed(w) \in Runs /\ proc[Claimed(w)] # "none"
        BY <1>a, <3>1, ClaimedIsRun DEF Register, ClaimedPCs, ProcessFollowsWorker
      <4> QED BY <1>a, <3>1, <4>1 DEF Register, ProcessFollowsWorker, TypeOK
    <3>2. CASE ~Register(w)
      BY <1>a, <3>2 DEF WorkerFrame, Release, ProcessFollowsWorker, TypeOK
    <3> QED BY <3>1, <3>2
  <2> QED BY <2>1, WorkerProcs
<1>3. ASSUME NEW r \in Runs, proc'[r] \in Live
      PROVE  \E v \in Workers : Supervises(v, r)'
  <2>1. CASE Spawn(w) /\ r = Claimed(w)
    <3>1. pc'[w] = "register" /\ UNCHANGED <<handle, index, missing>>
      BY <1>a, <2>1 DEF Spawn, Goto, TypeOK, sharedVars
    <3>2. Claimed(w)' = r
      BY <2>1, <3>1 DEF Claimed
    <3> QED BY <3>1, <3>2 DEF Supervises
  <2>2. CASE ~(Spawn(w) /\ r = Claimed(w))
    <3>1. proc[r] \in Live
      BY <1>a, <1>3, <2>2, WorkerProcs
         DEF Live, Worker, Receive, Retire, CheckHandle, Claim, CheckBatch, CheckCancelled,
             Announce, SpawnFails, Register, Poll, PollCancelled, TryWait, Terminate, Escalate, Reap,
             Release, Report, WorkerFrame
    <3>2. PICK v \in Workers : Supervises(v, r)
      BY <1>a, <3>1 DEF ProcessFollowsWorker
    <3>3. CASE v # w
      BY <1>a, <3>2, <3>3 DEF Supervises, Claimed, WorkerFrame
    <3>4. CASE v = w
      <4>1. /\ pc[w] \in {"register", "poll", "pollCancelled", "tryWait", "terminate", "reap"}
            /\ Claimed(w) = r
        BY <3>2, <3>4 DEF Supervises
      <4>2. proc[r] \notin Ended
        BY <3>1 DEF Live, Ended
      <4>3. /\ pc'[w] \in {"register", "poll", "pollCancelled", "tryWait", "terminate", "reap"}
            /\ UNCHANGED <<handle, index, missing>>
        BY <1>a, <4>1, <4>2 DEF TypeOK, Goto, sharedVars, workerVars, ilsVars,
             Worker, Receive, Retire, CheckHandle, Claim, CheckBatch, CheckCancelled,
             Announce, Spawn, SpawnFails, Register, Poll, PollCancelled, TryWait, Terminate, Escalate, Reap,
             Release, Report
      <4> QED BY <4>1, <4>3 DEF Supervises, Claimed
    <3> QED BY <3>3, <3>4
  <2> QED BY <2>1, <2>2
<1>4. \A v \in Workers : FollowsAt(v)'
  BY FollowsSelf, FollowsOther
<1> QED BY <1>1, <1>2, <1>3, <1>4 DEF ProcessFollowsWorker, FollowsAt

(* The signals of the ILS thread, and the ends of processes, move a live   *)
(* process on and touch nothing else.                                      *)
ProcsMoveOn ==
  \A r \in Runs : proc'[r] # proc[r] =>
    proc[r] \in Live /\ proc'[r] \in {"termed", "killing", "exited", "killed"}

(* So does a step in which live processes are signalled or end, and        *)
(* nothing else.                                                           *)
LEMMA ProcessMoves ==
  ASSUME ProcessFollowsWorker, ProcsMoveOn,
         UNCHANGED <<missing, next, active, pc, handle, index, outcome>>,
         active \subseteq Runs,
         \A w \in Workers : pc[w] \in ClaimedPCs => Claimed(w) \in Runs
  PROVE  ProcessFollowsWorker'
<1>1. \A r \in Runs : /\ proc[r] # "none" <=> proc'[r] # "none"
                      /\ proc'[r] \in Live => proc[r] \in Live
  BY DEF ProcsMoveOn, Live
<1>2. \A r \in Runs : Taken(r)' <=> Taken(r)
  BY DEF Taken, Task
<1>3. \A w \in Workers : Claimed(w)' = Claimed(w)
  BY DEF Claimed
<1>4. \A w \in Workers, r \in Runs : Supervises(w, r)' <=> Supervises(w, r)
  BY <1>3 DEF Supervises
<1>5. \A r \in active' : proc'[r] # "none"
  BY <1>1 DEF ProcessFollowsWorker
<1>6. \A w \in Workers : FollowsAt(w)'
  <2> SUFFICES ASSUME NEW w \in Workers
               PROVE  FollowsAt(w)'
    OBVIOUS
  <2>1. FollowsAt(w)
    BY DEF ProcessFollowsWorker, FollowsAt
  <2>2. pc[w] \in ClaimedPCs => Claimed(w) \in Runs
    OBVIOUS
  <2> QED BY <1>1, <1>3, <2>1, <2>2 DEF FollowsAt, ClaimedPCs, Live
<1>7. \A r \in Runs : proc'[r] # "none" => Taken(r)'
  BY <1>1, <1>2 DEF ProcessFollowsWorker
<1>8. \A r \in Runs : proc'[r] \in Live => \E w \in Workers : Supervises(w, r)'
  <2> SUFFICES ASSUME NEW r \in Runs, proc'[r] \in Live
               PROVE  \E w \in Workers : Supervises(w, r)'
    OBVIOUS
  <2>1. PICK w \in Workers : Supervises(w, r)
    BY <1>1 DEF ProcessFollowsWorker
  <2> QED BY <1>4, <2>1
<1> QED BY <1>5, <1>6, <1>7, <1>8 DEF ProcessFollowsWorker, FollowsAt, Live

(* A task that submit enqueues had nothing taken and nobody working on it. *)
LEMMA OfferKeeps ==
  ASSUME IInv, NEW n \in toOffer, NEW m \in InstanceLists, NEW hits \in InstanceLists,
         OfferTask(n, m, hits)
  PROVE  /\ \A t \in Tasks : t # <<batchId, n>> => missing'[t] = missing[t]
         /\ missing[<<batchId, n>>] = <<>> /\ next[<<batchId, n>>] = 0
         /\ missing'[<<batchId, n>>] = m
         /\ \A w \in Workers : pc[w] \in ClaimedPCs => Claimed(w)' = Claimed(w)
         /\ \A r \in Runs : Taken(r) => Task(r) # <<batchId, n>> /\ Taken(r)'
<1>a. TypeOK /\ FreshIsUntouched /\ ClaimsAreUnique
  BY DEF IInv
<1> DEFINE t0 == <<batchId, n>>
<1>1. t0 \in Tasks /\ Fresh(t0)
  BY <1>a DEF OfferTask, FreshIsUntouched, Fresh, Tasks, TypeOK
<1>2. missing' = [missing EXCEPT ![t0] = m] /\ UNCHANGED <<next, handle, index>>
  BY DEF OfferTask, workerVars
<1>3. missing[t0] = <<>> /\ next[t0] = 0 /\ \A w \in Workers : handle[w] # t0
  BY <1>a, <1>1 DEF FreshIsUntouched
<1> HIDE DEF t0
<1>4. \A t \in Tasks : t # t0 => missing'[t] = missing[t]
  BY <1>a, <1>2 DEF TypeOK
<1>5. \A w \in Workers : pc[w] \in ClaimedPCs => Claimed(w)' = Claimed(w)
  BY <1>a, <1>2, <1>3, <1>4, ClaimedIsRun DEF Claimed
<1>6. \A r \in Runs : Taken(r) => Task(r) # t0 /\ Taken(r)'
  BY <1>2, <1>3, <1>4, RunParts DEF Taken, Task
<1>7. missing'[t0] = m
  BY <1>a, <1>1, <1>2 DEF TypeOK
<1> QED BY <1>3, <1>4, <1>5, <1>6, <1>7 DEF t0

(* So does a step of the ILS thread, which only enqueues tasks that are    *)
(* untouched and signals processes.                                        *)
LEMMA ProcessIls ==
  ASSUME IInv, Ils
  PROVE  ProcessFollowsWorker'
<1>a. TypeOK /\ ClaimsAreUnique /\ ProcessFollowsWorker /\ IlsFrame
  BY IlsFrames DEF IInv
<1>1. CASE Offer
  <2> PICK n \in toOffer, m \in InstanceLists, hits \in InstanceLists : OfferTask(n, m, hits)
    BY <1>1 DEF Offer
  <2>1. UNCHANGED <<active, proc, pc, outcome>>
    BY DEF OfferTask, workerVars
  <2>2. \A w \in Workers : pc[w] \in ClaimedPCs => Claimed(w)' = Claimed(w)
    BY OfferKeeps
  <2>3. \A r \in Runs : Taken(r) => Taken(r)'
    BY OfferKeeps
  <2>4. \A r \in Runs : proc'[r] # "none" => Taken(r)'
    BY <1>a, <2>1, <2>3 DEF ProcessFollowsWorker
  <2>5. \A w \in Workers : FollowsAt(w)'
    <3> SUFFICES ASSUME NEW w \in Workers
                 PROVE  FollowsAt(w)'
      OBVIOUS
    <3>1. FollowsAt(w)
      BY <1>a DEF ProcessFollowsWorker, FollowsAt
    <3> QED BY <2>1, <2>2, <3>1 DEF FollowsAt, ClaimedPCs, Live
  <2>6. \A r \in Runs : proc'[r] \in Live => \E w \in Workers : Supervises(w, r)'
    <3>1. \A r \in Runs, w \in Workers : Supervises(w, r) => Supervises(w, r)'
      BY <2>1, <2>2 DEF Supervises, ClaimedPCs
    <3> QED BY <1>a, <2>1, <3>1 DEF ProcessFollowsWorker, Live
  <2> QED BY <1>a, <2>1, <2>4, <2>5, <2>6 DEF ProcessFollowsWorker, FollowsAt, Live
<1>2. CASE ~Offer
  <2>1. ProcsMoveOn
    <3>1. CASE TermGroups \/ KillGroups
      BY <1>a, <3>1 DEF TermGroups, KillGroups, Signal, ProcsMoveOn, TypeOK
    <3> QED BY <1>a, <3>1 DEF IlsFrame, ProcsMoveOn
  <2>2. UNCHANGED <<missing, next, active, pc, handle, index, outcome>>
    BY <1>a, <1>2 DEF IlsFrame, workerVars
  <2>3. \A w \in Workers : pc[w] \in ClaimedPCs => Claimed(w) \in Runs
    BY <1>a, ClaimedIsRun
  <2> QED BY <1>a, <2>1, <2>2, <2>3, ProcessMoves DEF TypeOK
<1> QED BY <1>1, <1>2

(* The steps of the environment: a process ends, or a signal arrives.      *)
Env == (\E r \in Runs : Exit(r) \/ Die(r)) \/ Interrupt \/ Terminated

(* What the environment can touch: processes end, a signal sets the flag.  *)
LEMMA EnvFrames ==
  ASSUME TypeOK, Env
  PROVE  /\ UNCHANGED <<batchId, cancelled, workQ, missing, next, active, events,
                        workerVars, reported, ilsVars>>
         /\ ProcsMoveOn
         /\ \A r \in Runs : proc'[r] = "killed" => proc[r] \in {"termed", "killing", "killed"}
         /\ \A r \in Runs : proc'[r] \in {"termed", "killing"} => proc'[r] = proc[r]
         /\ interrupted => interrupted'
         /\ TypeOK'
<1>1. CASE \E r \in Runs : Exit(r) \/ Die(r)
  <2> PICK q \in Runs : Exit(q) \/ Die(q)
    BY <1>1
  <2>1. UNCHANGED <<sharedVars, events, workerVars, reported, ilsVars>>
    BY DEF Exit, Die
  <2>2. \/ proc[q] \in {"running", "termed"} /\ proc' = [proc EXCEPT ![q] = "exited"]
        \/ proc[q] \in {"termed", "killing"} /\ proc' = [proc EXCEPT ![q] = "killed"]
    BY DEF Exit, Die
  <2>3. proc' \in [Runs -> {"none"} \cup Live \cup Ended]
    BY <2>2 DEF TypeOK, Ended
  <2> QED BY <2>1, <2>2, <2>3 DEF TypeOK, ProcsMoveOn, Live, sharedVars, workerVars, ilsVars
<1>2. CASE Interrupt
  BY <1>2 DEF Interrupt, ProcsMoveOn, TypeOK, workerVars, ilsVars
<1>3. CASE Terminated
  BY <1>3 DEF Terminated, ProcsMoveOn, TypeOK, vars, sharedVars, workerVars, ilsVars
<1> QED BY <1>1, <1>2, <1>3 DEF Env

(* A process that ends is still looked after by the worker that waits for  *)
(* it.                                                                     *)
LEMMA ProcessEnv ==
  ASSUME IInv, Env
  PROVE  ProcessFollowsWorker'
<1>1. TypeOK /\ ClaimsAreUnique /\ ProcessFollowsWorker
  BY DEF IInv
<1>2. ProcsMoveOn /\ UNCHANGED <<missing, next, active, pc, handle, index, outcome>>
  BY <1>1, EnvFrames DEF workerVars
<1>3. \A w \in Workers : pc[w] \in ClaimedPCs => Claimed(w) \in Runs
  BY <1>1, ClaimedIsRun
<1> QED BY <1>1, <1>2, <1>3, ProcessMoves DEF TypeOK

(***************************************************************************)
(* Signals.                                                                *)
(***************************************************************************)

(* What a worker holds, or a process was started for, is not of a batch    *)
(* still to come.                                                          *)
LEMMA BegunIsOld ==
  ASSUME IInv
  PROVE  /\ \A t \in Tasks : t[1] \in Nat
         /\ \A w \in Workers : handle[w] \in Tasks => handle[w][1] <= batchId
         /\ \A r \in Runs : proc[r] # "none" =>
              /\ Task(r) \in Tasks /\ Task(r)[1] <= batchId
              /\ target.kind = "all" => Task(r)[1] # batchId
<1>a. TypeOK /\ FreshIsUntouched /\ ProcessFollowsWorker
  BY DEF IInv
<1>1. \A t \in Tasks : t[1] \in Nat
  BY DEF Tasks, Batches
<1>2. \A t \in Tasks : t[1] <= batchId \/ Fresh(t)
  BY <1>a, <1>1 DEF Fresh, TypeOK
<1>3. \A w \in Workers : handle[w] \in Tasks => handle[w][1] <= batchId
  BY <1>a, <1>2 DEF FreshIsUntouched
<1>4. ASSUME NEW r \in Runs, proc[r] # "none"
      PROVE  Task(r) \in Tasks /\ ~Fresh(Task(r))
  BY <1>a, <1>4, RunParts DEF ProcessFollowsWorker, Taken, FreshIsUntouched
<1>5. \A t \in Tasks : target.kind = "all" /\ t[1] = batchId => Fresh(t)
  BY DEF Fresh
<1> QED BY <1>1, <1>2, <1>3, <1>4, <1>5

(* Nothing makes unwanted work wanted again.                               *)
LEMMA UnwantedStays ==
  ASSUME TypeOK, SignalsAreJustified, NEW t \in Tasks, t[1] <= batchId, Unwanted(t),
         t[1] \in Nat,
         batchId' \in {batchId, batchId + 1},
         interrupted => interrupted',
         cancelled \subseteq cancelled' \/ (ils = "clear" /\ UNCHANGED batchId)
  PROVE  Unwanted(t)'
<1>1. interrupted \/ t[1] # batchId \/ t \in cancelled
  BY DEF Unwanted, Stale
<1>2. batchId \in Nat
  BY DEF TypeOK
<1>3. t \in cancelled => t \in cancelled' \/ t[1] # batchId'
  BY <1>2 DEF SignalsAreJustified
<1> QED BY <1>1, <1>2, <1>3 DEF Unwanted, Stale

(* A worker goes to terminate only for what it has just seen to be         *)
(* unwanted.                                                               *)
LEMMA SignalsWorker ==
  ASSUME IInv, NEW w \in Workers, Worker(w)
  PROVE  SignalsAreJustified'
<1>a. /\ TypeOK /\ ClaimsAreUnique /\ ProcessFollowsWorker /\ SignalsAreJustified
      /\ KillsOnlyUnwanted /\ WorkerFrame(w)
  BY WorkerFrames DEF IInv, SignalsAreJustified
<1>b. UNCHANGED <<batchId, cancelled, interrupted, ils, target, victims>>
  BY <1>a DEF WorkerFrame
<1>c. \A t : Unwanted(t)' <=> Unwanted(t)
  BY <1>b DEF Unwanted, Stale
<1>1. \A v \in Workers : pc'[v] \in {"terminate", "reap"} => Unwanted(handle[v])
  <2>1. \A v \in Workers \ {w} : pc'[v] = pc[v]
    BY <1>a DEF WorkerFrame
  <2>2. pc'[w] \in {"terminate", "reap"} => Unwanted(handle[w])
    <3>1. CASE Poll(w) \/ PollCancelled(w) \/ Terminate(w) \/ Escalate(w)
      BY <1>a, <3>1 DEF Poll, PollCancelled, Terminate, Escalate, Goto, TypeOK, SignalsAreJustified,
         Unwanted, Stale
    <3>2. CASE ~(Poll(w) \/ PollCancelled(w) \/ Terminate(w) \/ Escalate(w))
      <4>1. pc'[w] \notin {"terminate", "reap"}
        BY <1>a, <3>2 DEF TypeOK, Goto, DropHandle, Worker, Receive, Retire, CheckHandle,
             Claim, CheckBatch, CheckCancelled, Announce, Spawn, SpawnFails, Register,
             TryWait, Reap, Release, Report
      <4> QED BY <4>1
    <3> QED BY <3>1, <3>2
  <2> QED BY <1>a, <2>1, <2>2 DEF SignalsAreJustified
<1>2. \A v \in Workers : pc'[v] \in {"terminate", "reap"} => Unwanted(handle[v])'
  <2>1. \A v \in Workers : pc'[v] \in {"terminate", "reap"} => handle'[v] = handle[v]
    BY <1>a DEF WorkerFrame, ClaimedPCs, Claim, DropHandle, Goto, TypeOK
  <2> QED BY <1>1, <1>b, <2>1 DEF Unwanted, Stale
<1>3. \A r \in victims' : Unwanted(Task(r))' /\ proc'[r] # "none"
  BY <1>a, <1>b, <1>c, WorkerProcs DEF SignalsAreJustified, TypeOK, Task
<1>4. KillsOnlyUnwanted'
  <2> SUFFICES ASSUME NEW r \in Runs, proc'[r] \in {"termed", "killing", "killed"}
               PROVE  Unwanted(Task(r))'
    BY DEF KillsOnlyUnwanted
  <2>1. Unwanted(Task(r))
    <3>1. CASE proc'[r] = proc[r]
      BY <1>a, <3>1 DEF KillsOnlyUnwanted
    <3>2. CASE proc'[r] # proc[r]
      <4>1. r = Claimed(w) /\ pc[w] \in {"terminate", "reap"}
        BY <3>2, WorkerProcs
      <4>2. Task(r) = handle[w]
        BY <1>a, <4>1, ClaimedIsRun DEF ClaimedPCs
      <4> QED BY <1>a, <4>1, <4>2 DEF SignalsAreJustified
    <3> QED BY <3>1, <3>2
  <2> QED BY <1>c, <2>1 DEF Task
<1> QED BY <1>a, <1>b, <1>2, <1>3, <1>4 DEF SignalsAreJustified

(* reset bumps the batch id, and cancel_neighbor records the neighbour,    *)
(* before either looks for processes to terminate; submit bumps before it  *)
(* clears.                                                                 *)
LEMMA SignalsIls ==
  ASSUME IInv, TypeOK', Ils
  PROVE  SignalsAreJustified'
<1>a. /\ TypeOK /\ FreshIsUntouched /\ ClaimsAreUnique /\ ProcessFollowsWorker
      /\ SignalsAreJustified /\ KillsOnlyUnwanted /\ IlsFrame
  BY IlsFrames DEF IInv, SignalsAreJustified
<1>b. batchId \in Nat /\ \A t \in cancelled : t[1] \in Nat
  BY <1>a DEF TypeOK
<1>1. /\ batchId' \in {batchId, batchId + 1}
      /\ interrupted => interrupted'
      /\ cancelled \subseteq cancelled' \/ (ils = "clear" /\ UNCHANGED batchId)
  <2>1. CASE SubmitClear
    BY <1>a, <2>1 DEF SubmitClear
  <2>2. CASE ~SubmitClear
    BY <1>a, <2>2 DEF IlsFrame, SubmitBump, Reset, Drop, ResetBump, CancelInsert
  <2> QED BY <2>1, <2>2
<1>2. \A t \in Tasks : t[1] <= batchId /\ Unwanted(t) => Unwanted(t)'
  BY <1>a, <1>1, UnwantedStays, BegunIsOld
<1>3. \A t \in cancelled' : t[1] <= batchId' /\ (ils' = "clear" => t[1] < batchId')
  <2>1. CASE SubmitBump
    BY <1>a, <1>b, <2>1 DEF SubmitBump, SignalsAreJustified
  <2>2. CASE \E n \in Neighbours : CancelInsert(n)
    BY <1>a, <1>b, <2>2 DEF CancelInsert, SignalsAreJustified
  <2>3. CASE SubmitClear
    BY <2>3 DEF SubmitClear
  <2>4. CASE ~SubmitBump /\ ~SubmitClear /\ ~\E n \in Neighbours : CancelInsert(n)
    <3>1. UNCHANGED cancelled /\ batchId' >= batchId
      BY <1>a, <1>b, <1>1, <2>4 DEF IlsFrame
    <3>2. ils' # "clear" \/ (ils = "clear" /\ UNCHANGED batchId)
      BY <1>a, <2>4 DEF Ils, Offer, OfferTask, SubmitDone, Take, Reset, Drop, ResetBump,
           Leave, Snapshot, TermGroups, KillGroups, Drained, ilsVars, sharedVars
    <3>3. batchId' \in Nat
      BY <1>b, <1>1
    <3>4. \A t \in cancelled : t[1] <= batchId'
      BY <1>a, <1>b, <3>1, <3>3 DEF SignalsAreJustified
    <3> QED BY <1>a, <1>b, <3>1, <3>2, <3>4 DEF SignalsAreJustified
  <2> QED BY <2>1, <2>2, <2>3, <2>4
<1>4. \A w \in Workers : pc'[w] \in {"terminate", "reap"} => Unwanted(handle[w])'
  <2>1. UNCHANGED <<pc, handle>>
    BY <1>a DEF IlsFrame, workerVars
  <2>2. ASSUME NEW w \in Workers, pc[w] \in {"terminate", "reap"}
        PROVE  Unwanted(handle[w])'
    <3>1. handle[w] \in Tasks /\ handle[w][1] <= batchId
      BY <1>a, <2>2, ClaimedIsRun, BegunIsOld DEF ClaimedPCs
    <3>2. Unwanted(handle[w])
      BY <1>a, <2>2 DEF SignalsAreJustified
    <3>3. \E t \in Tasks : t = handle[w] /\ t = handle'[w] /\ Unwanted(t)'
      BY <1>2, <2>1, <3>1, <3>2
    <3> QED BY <3>3, <2>1 DEF Unwanted, Stale
  <2> QED BY <2>1, <2>2 DEF Unwanted, Stale
<1>5. ils' = "snapshot" =>
        /\ target'.kind = "neighbour" => target'.task \in cancelled'
        /\ target'.kind \in {"batch", "drop"} => target'.batch < batchId'
        /\ target'.kind # "none"
  <2> USE <1>a, <1>b DEF SignalsAreJustified
  <2>1. CASE \E n \in Neighbours : CancelInsert(n)
    BY <2>1 DEF CancelInsert
  <2>2. CASE Reset \/ Drop
    BY <2>2 DEF Reset, Drop, ResetBump
  <2>3. CASE KillGroups
    BY <2>3 DEF KillGroups
  <2>4. CASE SubmitBump \/ SubmitClear \/ Offer \/ SubmitDone \/ Leave \/ Snapshot
             \/ TermGroups \/ Drained \/ Take
    BY <2>4 DEF SubmitBump, SubmitClear, Offer, OfferTask, SubmitDone, Leave, Snapshot,
         TermGroups, Drained, Take, ilsVars, sharedVars
  <2> QED BY <2>1, <2>2, <2>3, <2>4 DEF Ils
<1>6. \A r \in Runs : proc[r] # "none" /\ Unwanted(Task(r)) => Unwanted(Task(r))'
  BY <1>2, BegunIsOld DEF Task
<1>7. \A r \in Runs : proc[r] # "none" => proc'[r] # "none"
  <2>1. CASE TermGroups \/ KillGroups
    BY <1>a, <2>1 DEF TermGroups, KillGroups, Signal
  <2> QED BY <1>a, <2>1 DEF IlsFrame
<1>8. \A r \in victims' : Unwanted(Task(r))' /\ proc'[r] # "none"
  <2>1. CASE Snapshot
    <3>1. \A r \in victims' : r \in Runs /\ proc[r] # "none" /\ Matches(r)
      BY <1>a, <2>1 DEF Snapshot, ProcessFollowsWorker, TypeOK
    <3>2. ASSUME NEW r \in Runs, proc[r] # "none", Matches(r)
          PROVE  Unwanted(Task(r))
      <4>1. ils = "snapshot" /\ target.kind \in {"neighbour", "batch", "drop", "all"}
        BY <1>a, <2>1 DEF Snapshot, SignalsAreJustified, TypeOK, Targets
      <4>2. CASE target.kind = "neighbour"
        BY <1>a, <3>2, <4>1, <4>2 DEF Matches, SignalsAreJustified, Unwanted
      <4>3. CASE target.kind \in {"batch", "drop"}
        <5>1. r[1] < batchId
          BY <1>a, <3>2, <4>1, <4>3 DEF Matches, SignalsAreJustified
        <5>2. r[1] \in Nat
          BY DEF Runs, Batches
        <5> QED BY <1>b, <5>1, <5>2 DEF Unwanted, Stale, Task
      <4>4. CASE target.kind = "all"
        BY <3>2, <4>4, BegunIsOld DEF Unwanted, Stale
      <4> QED BY <4>1, <4>2, <4>3, <4>4
    <3> QED BY <1>6, <1>7, <3>1, <3>2
  <2>2. CASE ~Snapshot
    <3>1. \A r \in victims' : r \in victims /\ r \in Runs
      BY <1>a, <2>2 DEF IlsFrame, KillGroups, TypeOK
    <3> QED BY <1>a, <1>6, <1>7, <3>1 DEF SignalsAreJustified
  <2> QED BY <2>1, <2>2
<1>9. KillsOnlyUnwanted'
  <2> SUFFICES ASSUME NEW r \in Runs, proc'[r] \in {"termed", "killing", "killed"}
               PROVE  Unwanted(Task(r))'
    BY DEF KillsOnlyUnwanted
  <2>1. CASE proc'[r] = proc[r]
    BY <1>a, <1>6, <2>1 DEF KillsOnlyUnwanted
  <2>2. CASE proc'[r] # proc[r]
    <3>1. r \in victims
      BY <1>a, <2>2 DEF IlsFrame, TermGroups, KillGroups, Signal
    <3> QED BY <1>a, <1>6, <3>1 DEF SignalsAreJustified
  <2> QED BY <2>1, <2>2
<1> QED BY <1>3, <1>4, <1>5, <1>8, <1>9 DEF SignalsAreJustified

(* A process that ends, or a signal that arrives, makes nothing wanted     *)
(* again.                                                                  *)
LEMMA SignalsEnv ==
  ASSUME IInv, Env
  PROVE  SignalsAreJustified'
<1>a. /\ TypeOK /\ ClaimsAreUnique /\ ProcessFollowsWorker /\ SignalsAreJustified
      /\ KillsOnlyUnwanted
  BY DEF IInv, SignalsAreJustified
<1>b. /\ UNCHANGED <<batchId, cancelled, pc, handle, ils, target, victims>>
      /\ interrupted => interrupted'
      /\ ProcsMoveOn
      /\ \A r \in Runs : proc'[r] = "killed" => proc[r] \in {"termed", "killing", "killed"}
      /\ \A r \in Runs : proc'[r] \in {"termed", "killing"} => proc'[r] = proc[r]
  BY <1>a, EnvFrames DEF workerVars, ilsVars
<1>1. \A t : Unwanted(t) => Unwanted(t)'
  BY <1>b DEF Unwanted, Stale
<1>2. \A r \in victims : r \in Runs /\ proc'[r] # "none"
  BY <1>a, <1>b DEF SignalsAreJustified, ProcsMoveOn, TypeOK
<1>3. \A r \in victims' : Unwanted(Task(r))' /\ proc'[r] # "none"
  BY <1>a, <1>b, <1>1, <1>2 DEF SignalsAreJustified, Task
<1>4. \A w \in Workers : pc'[w] \in {"terminate", "reap"} => Unwanted(handle[w])'
  BY <1>a, <1>b DEF SignalsAreJustified, Unwanted, Stale
<1>5. KillsOnlyUnwanted'
  BY <1>a, <1>b, <1>1 DEF KillsOnlyUnwanted, Task
<1> QED BY <1>a, <1>b, <1>3, <1>4, <1>5 DEF SignalsAreJustified

(***************************************************************************)
(* Results and events.                                                     *)
(***************************************************************************)
(* An element of an appended sequence is an element of one of the two.     *)
LEMMA AppendParts ==
  ASSUME NEW S, NEW a \in Seq(S), NEW b \in Seq(S)
  PROVE  /\ DOMAIN a = 1 .. Len(a) /\ Len(a) \in Nat
         /\ \A k \in DOMAIN (a \o b) :
              \/ k \in DOMAIN a /\ (a \o b)[k] = a[k]
              \/ /\ k \in Nat /\ k > Len(a) /\ k - Len(a) \in DOMAIN b
                 /\ (a \o b)[k] = b[k - Len(a)]
OBVIOUS

(* Events are appended: none but the new ones has to be looked at.         *)
LEMMA EventsAppended ==
  ASSUME TypeOK, ReportedIsSpent,
         NEW es \in Seq(Events), Send(es),
         \A k \in DOMAIN es : es[k].run \notin reported,
         \A k \in DOMAIN es : es[k].kind = "Completed" => es[k].run \in reported',
         \A j, k \in DOMAIN es :
           es[j].kind = "Completed" /\ es[k].kind = "Completed" /\ es[j].run = es[k].run
             => j = k,
         \A j, k \in DOMAIN es :
           es[j].kind = "Completed" /\ es[k].kind = "Dispatched" => es[j].run # es[k].run,
         reported \subseteq reported'
  PROVE  /\ \A k \in DOMAIN events' :
              events'[k].kind = "Completed" => events'[k].run \in reported'
         /\ \A j, k \in DOMAIN events' :
              /\ events'[j].kind = "Completed"
              /\ events'[k].kind = "Completed"
              /\ events'[j].run = events'[k].run
              => j = k
         /\ DispatchedFirst'
<1>a. /\ events \in Seq(Events)
      /\ \A k \in DOMAIN events :
           events[k].kind = "Completed" => events[k].run \in reported
      /\ \A j, k \in DOMAIN events :
           /\ events[j].kind = "Completed"
           /\ events[k].kind = "Completed"
           /\ events[j].run = events[k].run
           => j = k
      /\ \A j, k \in DOMAIN events :
           /\ events[j].kind = "Completed"
           /\ events[k].kind = "Dispatched"
           /\ events[j].run = events[k].run
           => k < j
  BY DEF TypeOK, ReportedIsSpent, ReportedOnce, DispatchedFirst
<1>1. CASE events' = events
  BY <1>a, <1>1 DEF DispatchedFirst
<1>2. CASE events' = events \o es
  <2>1. /\ DOMAIN events = 1 .. Len(events) /\ Len(events) \in Nat
        /\ DOMAIN es = 1 .. Len(es) /\ Len(es) \in Nat
    BY <1>a
  <2>2. \A k \in DOMAIN events' :
          \/ k \in DOMAIN events /\ events'[k] = events[k]
          \/ /\ k \in Nat /\ k > Len(events) /\ k - Len(events) \in DOMAIN es
             /\ events'[k] = es[k - Len(events)]
    BY <1>a, <1>2, AppendParts
  <2>3. \A k \in DOMAIN events' :
          events'[k].kind = "Completed" => events'[k].run \in reported'
    BY <1>a, <2>2
  <2>4. ASSUME NEW j \in DOMAIN events', NEW k \in DOMAIN events',
               events'[j].kind = "Completed", events'[k].kind = "Completed",
               events'[j].run = events'[k].run
        PROVE  j = k
    <3>1. CASE j \in DOMAIN events /\ events'[j] = events[j]
      <4>1. events'[k].run \in reported
        BY <1>a, <2>4, <3>1
      <4>2. k \in DOMAIN events /\ events'[k] = events[k]
        BY <2>2, <4>1
      <4> QED BY <1>a, <2>4, <3>1, <4>2
    <3>2. CASE /\ j \in Nat /\ j > Len(events) /\ j - Len(events) \in DOMAIN es
               /\ events'[j] = es[j - Len(events)]
      <4>1. events'[k].run \notin reported
        BY <2>4, <3>2
      <4>2. /\ k \in Nat /\ k - Len(events) \in DOMAIN es
            /\ events'[k] = es[k - Len(events)]
        BY <1>a, <2>2, <2>4, <4>1
      <4>3. j - Len(events) = k - Len(events)
        BY <2>4, <3>2, <4>2
      <4> QED BY <2>1, <3>2, <4>2, <4>3
    <3> QED BY <2>2, <3>1, <3>2
  <2>5. ASSUME NEW j \in DOMAIN events', NEW k \in DOMAIN events',
               events'[j].kind = "Completed", events'[k].kind = "Dispatched",
               events'[j].run = events'[k].run
        PROVE  k < j
    <3>1. CASE j \in DOMAIN events /\ events'[j] = events[j]
      <4>1. events'[k].run \in reported
        BY <1>a, <2>5, <3>1
      <4>2. k \in DOMAIN events /\ events'[k] = events[k]
        BY <2>2, <4>1
      <4> QED BY <1>a, <2>5, <3>1, <4>2
    <3>2. CASE /\ j \in Nat /\ j > Len(events) /\ j - Len(events) \in DOMAIN es
               /\ events'[j] = es[j - Len(events)]
      <4>1. k \in DOMAIN events
        BY <2>2, <2>5, <3>2
      <4> QED BY <2>1, <3>2, <4>1
    <3> QED BY <2>2, <3>1, <3>2
  <2> QED BY <2>3, <2>4, <2>5 DEF DispatchedFirst
<1> QED BY <1>1, <1>2 DEF Send

(* A claimed position is the only one of its instance.                     *)
LEMMA OnePosition ==
  ASSUME TypeOK, ClaimsAreUnique, NEW t \in Tasks, NEW j \in DOMAIN missing[t],
         NEW k \in DOMAIN missing[t], missing[t][j] = missing[t][k]
  PROVE  j = k
<1>1. missing[t] \in InstanceLists
  BY DEF ClaimsAreUnique
<1> QED BY <1>1, InstanceListsAssumption

(* A worker reports the run it has claimed, which nobody reported before   *)
(* and nobody can claim again.                                             *)
LEMMA ReportedWorker ==
  ASSUME IInv, TypeOK', NEW w \in Workers, Worker(w)
  PROVE  ReportedIsSpent'
<1>a. TypeOK /\ ClaimsAreUnique /\ ReportedIsSpent /\ ReportedOnce /\ WorkerFrame(w)
  BY WorkerFrames DEF IInv, ReportedIsSpent
<1>b. missing' = missing
  BY <1>a DEF WorkerFrame
<1>c. reported \subseteq reported'
  BY <1>a DEF WorkerFrame, Report
<1>1. \A r \in reported' : \A k \in DOMAIN missing'[Task(r)] :
        missing'[Task(r)][k] = r[3] => k <= next'[Task(r)]
  <2> SUFFICES ASSUME NEW r \in reported', NEW k \in DOMAIN missing[Task(r)],
                      missing[Task(r)][k] = r[3]
               PROVE  k <= next'[Task(r)]
    BY <1>b
  <2>1. r \in Runs /\ Task(r) \in Tasks
    BY RunParts DEF TypeOK
  <2>2. k <= next[Task(r)]
    <3>1. CASE r \in reported
      BY <1>a, <3>1 DEF ReportedIsSpent
    <3>2. CASE r \notin reported
      <4>1. pc[w] = "report" /\ r = Claimed(w)
        BY <1>a, <3>2 DEF WorkerFrame, Report
      <4>2. Taken(r)
        BY <1>a, <4>1, ClaimedIsRun DEF ClaimedPCs
      <4> QED BY <1>a, <2>1, <4>2, OnePosition DEF Taken
    <3> QED BY <3>1, <3>2
  <2>3. next'[Task(r)] >= next[Task(r)]
    BY <2>1, NextGrows
  <2>4. k \in Nat /\ next[Task(r)] \in Nat /\ next'[Task(r)] \in Nat
    BY <1>a, <2>1 DEF TypeOK
  <2> QED BY <2>2, <2>3, <2>4
<1>2. \A v \in Workers : pc'[v] \in ClaimedPCs => Claimed(v)' \notin reported'
  <2> SUFFICES ASSUME NEW v \in Workers, pc'[v] \in ClaimedPCs
               PROVE  Claimed(v)' \notin reported'
    OBVIOUS
  <2>1. CASE pc[v] \in ClaimedPCs /\ handle'[v] = handle[v] /\ index'[v] = index[v]
    <3>1. Claimed(v)' = Claimed(v)
      BY <1>b, <2>1 DEF Claimed
    <3>2. Claimed(v) \notin reported
      BY <1>a, <2>1 DEF ReportedOnce
    <3>3. CASE Report(w)
      <4>1. v # w
        BY <1>a, <3>3 DEF Report, Goto, ClaimedPCs, TypeOK
      <4>2. Claimed(v) # Claimed(w)
        BY <1>a, <2>1, <3>3, <4>1, ClaimedDistinct DEF Report, ClaimedPCs
      <4> QED BY <3>1, <3>2, <3>3, <4>2 DEF Report
    <3> QED BY <1>a, <3>1, <3>2, <3>3 DEF WorkerFrame
  <2>2. CASE ~(pc[v] \in ClaimedPCs /\ handle'[v] = handle[v] /\ index'[v] = index[v])
    <3>1. v = w /\ Claim(w)
      BY <1>a, <2>2 DEF WorkerFrame
    <3>2. /\ handle[w] \in Tasks /\ UNCHANGED <<handle, reported>>
          /\ index' = [index EXCEPT ![w] = next[handle[w]]]
          /\ next[handle[w]] \in Nat
          /\ next[handle[w]] < Len(missing[handle[w]])
          /\ missing[handle[w]] \in Seq(Instances)
      <4>1. pc'[w] # "recv"
        BY <3>1 DEF ClaimedPCs
      <4>2. ~DropHandle(w)
        BY <1>a, <4>1 DEF DropHandle, Goto, TypeOK
      <4> QED BY <1>a, <3>1, <4>2 DEF Claim, ClaimsAreUnique, TypeOK
    <3> DEFINE r == <<handle[w][1], handle[w][2], missing[handle[w]][next[handle[w]] + 1]>>
    <3>3. /\ r \in Runs /\ Task(r) = handle[w]
          /\ next[handle[w]] + 1 \in DOMAIN missing[handle[w]]
          /\ missing[handle[w]][next[handle[w]] + 1] = r[3]
      BY <3>2, RunParts
    <3>4. Claimed(w)' = r
      BY <1>a, <1>b, <3>2 DEF Claimed, TypeOK
    <3> HIDE DEF r
    <3>5. r \notin reported
      <4> SUFFICES ASSUME r \in reported PROVE FALSE
        OBVIOUS
      <4>1. next[handle[w]] + 1 <= next[handle[w]]
        BY <1>a, <3>3 DEF ReportedIsSpent
      <4> QED BY <3>2, <4>1
    <3> QED BY <3>1, <3>2, <3>4, <3>5
  <2> QED BY <2>1, <2>2
<1>3. /\ \A k \in DOMAIN events' :
           events'[k].kind = "Completed" => events'[k].run \in reported'
      /\ \A j, k \in DOMAIN events' :
           /\ events'[j].kind = "Completed"
           /\ events'[k].kind = "Completed"
           /\ events'[j].run = events'[k].run
           => j = k
      /\ DispatchedFirst'
  <2>1. CASE Announce(w)
    <3>1. pc[w] \in ClaimedPCs /\ Send(<<Dispatched(Claimed(w))>>)
      BY <2>1 DEF Announce, ClaimedPCs
    <3>2. Claimed(w) \in Runs /\ Claimed(w) \notin reported
      BY <1>a, <3>1, ClaimedIsRun DEF ReportedOnce
    <3>3. PICK e \in Events : /\ e.kind = "Dispatched" /\ e.run = Claimed(w)
                             /\ Send(<<e>>)
      BY <3>1, <3>2 DEF Dispatched, Events
    <3> DEFINE es == <<e>>
    <3>4. es \in Seq(Events) /\ DOMAIN es = {1} /\ es[1] = e
      OBVIOUS
    <3>5. Send(es)
      BY <3>3
    <3> HIDE DEF es
    <3> QED BY <1>a, <1>c, <3>2, <3>3, <3>4, <3>5, EventsAppended
  <2>2. CASE Report(w)
    <3>1. /\ pc[w] \in ClaimedPCs /\ outcome[w] \in Statuses
          /\ reported' = reported \cup {Claimed(w)}
      BY <1>a, <2>2 DEF Report, ClaimedPCs, TypeOK, IInv, ProcessFollowsWorker
    <3>2. Claimed(w) \in Runs /\ Claimed(w) \notin reported
      BY <1>a, <3>1, ClaimedIsRun DEF ReportedOnce
    <3> DEFINE c == Completed(Claimed(w), outcome[w], TRUE, proc[Claimed(w)] = "killed")
    <3>3. c \in Events /\ c.kind = "Completed" /\ c.run = Claimed(w)
      BY <3>1, <3>2 DEF Completed, Events
    <3>4. Send(<<c>>)
      BY <2>2, Zenon DEF Report
    <3> DEFINE es == <<c>>
    <3> HIDE DEF c
    <3>5. es \in Seq(Events) /\ DOMAIN es = {1} /\ es[1] = c
      BY <3>3
    <3>6. Send(es)
      BY <3>4
    <3> HIDE DEF es
    <3> QED BY <1>a, <1>c, <3>1, <3>2, <3>3, <3>5, <3>6, EventsAppended
  <2>3. CASE ~Announce(w) /\ ~Report(w)
    BY <1>a, <2>3 DEF WorkerFrame, ReportedIsSpent, ReportedOnce, DispatchedFirst
  <2> QED BY <2>1, <2>2, <2>3
<1> QED BY <1>1, <1>2, <1>3 DEF ReportedIsSpent, ReportedOnce

(* A cache hit is reported for an instance its task does not list.         *)
LEMMA ReportedIls ==
  ASSUME IInv, TypeOK', Ils
  PROVE  ReportedIsSpent'
<1>a. /\ TypeOK /\ FreshIsUntouched /\ ClaimsAreUnique /\ ReportedIsSpent /\ ReportedOnce
      /\ DispatchedFirst /\ IlsFrame
  BY IlsFrames DEF IInv, ReportedIsSpent
<1>1. CASE Offer
  <2> PICK n \in toOffer, m \in InstanceLists, hits \in InstanceLists :
        OfferTask(n, m, hits) /\ Partition(m, hits)
    BY <1>1 DEF Offer
  <2> DEFINE t0 == <<batchId, n>>
             hit(k) == <<batchId, n, hits[k]>>
  <2>1. /\ \A t \in Tasks : t # t0 => missing'[t] = missing[t]
        /\ missing'[t0] = m
        /\ \A w \in Workers : pc[w] \in ClaimedPCs => Claimed(w)' = Claimed(w)
    BY OfferKeeps
  <2>2. t0 \in Tasks /\ Fresh(t0) /\ n \in Neighbours /\ batchId \in Batches
    BY <1>a DEF OfferTask, FreshIsUntouched, Fresh, Tasks, TypeOK
  <2>3. \A r \in reported : r \in Runs /\ Task(r) \in Tasks /\ Task(r) # t0
    <3> HIDE DEF t0
    <3> QED BY <1>a, <2>2, RunParts DEF FreshIsUntouched, TypeOK
  <2>4. /\ hits \in Seq(Instances)
        /\ \A j, k \in DOMAIN hits : hits[j] = hits[k] => j = k
        /\ \A k \in DOMAIN hits : \A j \in DOMAIN m : m[j] # hits[k]
    BY InstanceListsAssumption DEF Partition
  <2>5. \A k \in DOMAIN hits : /\ hit(k) \in Runs /\ Task(hit(k)) = t0
                               /\ hit(k)[3] = hits[k] /\ hit(k) \notin reported
    <3>1. \A k \in DOMAIN hits : /\ hit(k) \in Runs /\ Task(hit(k)) = t0
                                 /\ hit(k)[3] = hits[k]
      BY <2>2, <2>4 DEF Runs, Task
    <3> QED BY <2>3, <3>1
  <2>6. reported' = reported \cup {hit(k) : k \in DOMAIN hits} /\ UNCHANGED <<next, pc>>
    BY DEF OfferTask, workerVars
  <2> DEFINE es == [k \in DOMAIN hits |-> Completed(hit(k), "line", FALSE, FALSE)]
  <2>7. /\ es \in Seq(Events) /\ DOMAIN es = DOMAIN hits
        /\ \A k \in DOMAIN hits : es[k].kind = "Completed" /\ es[k].run = hit(k)
    <3>1. DOMAIN hits = 1 .. Len(hits) /\ Len(hits) \in Nat
      BY <2>4
    <3>2. \A k \in DOMAIN hits : Completed(hit(k), "line", FALSE, FALSE) \in Events
      BY <2>5 DEF Completed, Events, Statuses
    <3>3. \A k \in DOMAIN hits : /\ es[k].kind = "Completed"
                                 /\ es[k].run = hit(k)
      BY DEF Completed
    <3> DEFINE c(k) == Completed(hit(k), "line", FALSE, FALSE)
    <3> HIDE DEF c
    <3>4. \A k \in 1 .. Len(hits) : c(k) \in Events
      BY <3>1, <3>2 DEF c
    <3>5. [k \in 1 .. Len(hits) |-> c(k)] \in Seq(Events)
      BY <3>1, <3>4
    <3>6. es \in Seq(Events)
      BY <3>1, <3>5 DEF c
    <3> QED BY <3>3, <3>6
  <2>8. Send(es)
    BY Zenon DEF OfferTask
  <2>9. \A j, k \in DOMAIN hits : hit(j) = hit(k) => j = k
    BY <2>4
  <2> HIDE DEF t0, hit, es
  <2>10. /\ \A k \in DOMAIN events' :
              events'[k].kind = "Completed" => events'[k].run \in reported'
         /\ \A j, k \in DOMAIN events' :
              /\ events'[j].kind = "Completed"
              /\ events'[k].kind = "Completed"
              /\ events'[j].run = events'[k].run
              => j = k
         /\ DispatchedFirst'
    BY <1>a, <2>5, <2>6, <2>7, <2>8, <2>9, EventsAppended
  <2>11. \A r \in reported' : \A k \in DOMAIN missing'[Task(r)] :
           missing'[Task(r)][k] = r[3] => k <= next'[Task(r)]
    <3>1. ASSUME NEW r \in reported PROVE \A k \in DOMAIN missing'[Task(r)] :
             missing'[Task(r)][k] = r[3] => k <= next'[Task(r)]
      BY <1>a, <2>1, <2>3, <2>6, <3>1 DEF ReportedIsSpent
    <3>2. ASSUME NEW j \in DOMAIN hits
          PROVE  \A k \in DOMAIN missing'[Task(hit(j))] :
                   missing'[Task(hit(j))][k] # hit(j)[3]
      BY <2>1, <2>4, <2>5
    <3> QED BY <2>6, <3>1, <3>2
  <2>12. \A w \in Workers : pc'[w] \in ClaimedPCs => Claimed(w)' \notin reported'
    <3> SUFFICES ASSUME NEW w \in Workers, pc[w] \in ClaimedPCs
                 PROVE  Claimed(w)' \notin reported'
      BY <2>6 DEF ClaimedPCs
    <3>1. Claimed(w)' = Claimed(w) /\ Claimed(w) \notin reported
      BY <1>a, <2>1 DEF ReportedOnce
    <3>2. Task(Claimed(w)) # t0
      BY <1>a, <2>2, ClaimedIsRun DEF FreshIsUntouched
    <3> QED BY <2>5, <2>6, <3>1, <3>2
  <2> QED BY <2>10, <2>11, <2>12 DEF ReportedIsSpent, ReportedOnce
<1>2. CASE ~Offer
  <2>1. /\ UNCHANGED <<missing, next, reported, pc>>
        /\ \A w \in Workers : Claimed(w)' = Claimed(w)
    BY <1>a, <1>2 DEF IlsFrame, workerVars, Claimed
  <2>2. CASE Take
    <3>1. /\ events \in Seq(Events) /\ events # <<>>
          /\ events' = Tail(events)
      BY <1>a, <2>2 DEF Take, TypeOK
    <3>2. \A k \in DOMAIN events' : /\ k \in Nat /\ k + 1 \in DOMAIN events
                                    /\ events'[k] = events[k + 1]
      BY <3>1
    <3>3. \A k \in DOMAIN events' :
            events'[k].kind = "Completed" => events'[k].run \in reported
      BY <1>a, <3>2 DEF ReportedIsSpent
    <3>4. \A j, k \in DOMAIN events' :
              /\ events'[j].kind = "Completed"
              /\ events'[k].kind = "Completed"
              /\ events'[j].run = events'[k].run
              => j = k
      <4>1. ASSUME NEW j \in DOMAIN events', NEW k \in DOMAIN events',
                   events'[j].kind = "Completed", events'[k].kind = "Completed",
                   events'[j].run = events'[k].run
            PROVE  j = k
        <5>1. j + 1 = k + 1
          BY <1>a, <3>2, <4>1 DEF ReportedOnce
        <5> QED BY <3>2, <5>1
      <4> QED BY <4>1
    <3>5. \A j, k \in DOMAIN events' :
              /\ events'[j].kind = "Completed"
              /\ events'[k].kind = "Dispatched"
              /\ events'[j].run = events'[k].run
              => k < j
      <4>1. ASSUME NEW j \in DOMAIN events', NEW k \in DOMAIN events',
                   events'[j].kind = "Completed", events'[k].kind = "Dispatched",
                   events'[j].run = events'[k].run
            PROVE  k < j
        <5>1. k + 1 < j + 1
          BY <1>a, <3>2, <4>1 DEF DispatchedFirst
        <5> QED BY <3>2, <5>1
      <4> QED BY <4>1
    <3> QED BY <1>a, <2>1, <3>3, <3>4, <3>5
            DEF ReportedIsSpent, ReportedOnce, DispatchedFirst, ClaimedPCs
  <2>3. CASE ~Take
    BY <1>a, <1>2, <2>1, <2>3 DEF IlsFrame, ReportedIsSpent, ReportedOnce, DispatchedFirst, ClaimedPCs
  <2> QED BY <2>2, <2>3
<1> QED BY <1>1, <1>2

(* Nothing changes about results when nobody sends or claims.              *)
LEMMA ReportedEnv ==
  ASSUME ReportedIsSpent, UNCHANGED <<missing, next, events, reported, pc, handle, index>>
  PROVE  ReportedIsSpent'
<1>1. \A w \in Workers : Claimed(w)' = Claimed(w)
  BY DEF Claimed
<1> QED BY <1>1 DEF ReportedIsSpent, ReportedOnce, DispatchedFirst, ClaimedPCs

(***************************************************************************)
(* The inductive invariant, and what follows from it.                      *)
(***************************************************************************)
(* The invariant holds of a new scheduler.                                 *)
LEMMA InvInit == Init => IInv
<1> SUFFICES ASSUME Init PROVE IInv
  OBVIOUS
<1>1. TypeOK
  BY TypeInit
<1>2. FreshIsUntouched
  BY DEF Init, FreshIsUntouched, NoTask, Tasks
<1>3. ClaimsAreUnique
  BY DEF Init, ClaimsAreUnique, ClaimedPCs
<1>4. ProcessFollowsWorker
  BY DEF Init, ProcessFollowsWorker, Live
<1>5. SignalsAreJustified
  BY DEF Init, SignalsAreJustified, KillsOnlyUnwanted
<1>6. ReportedIsSpent
  BY DEF Init, ReportedIsSpent, ReportedOnce, DispatchedFirst, ClaimedPCs
<1> QED BY <1>1, <1>2, <1>3, <1>4, <1>5, <1>6 DEF IInv

(* Every step of the threads, the processes and the signal handler keeps   *)
(* the invariant.                                                          *)
LEMMA InvStep == IInv /\ [Next]_vars => IInv'
<1> SUFFICES ASSUME IInv, [Next]_vars PROVE IInv'
  OBVIOUS
<1>1. ASSUME NEW w \in Workers, Worker(w) PROVE IInv'
  BY <1>1, TypeWorker, FreshWorker, ClaimsWorker, ProcessWorker, SignalsWorker,
     ReportedWorker DEF IInv
<1>2. CASE Ils
  BY <1>2, TypeIls, FreshIls, ClaimsIls, ProcessIls, SignalsIls, ReportedIls DEF IInv
<1>3. CASE Env
  <2>1. /\ TypeOK'
        /\ UNCHANGED <<batchId, workQ, missing, next, events, pc, handle, index, reported,
                       ils, toOffer, target>>
    BY <1>3, EnvFrames DEF IInv, workerVars, ilsVars
  <2> QED BY <1>3, <2>1, FreshEnv, ClaimsEnv, ProcessEnv, SignalsEnv, ReportedEnv DEF IInv
<1>4. CASE UNCHANGED vars
  <2>1. Terminated \/ UNCHANGED vars
    BY <1>4
  <2>2. /\ TypeOK' /\ FreshIsUntouched' /\ ClaimsAreUnique'
    BY <1>4, FreshEnv, ClaimsEnv DEF IInv, TypeOK, vars, sharedVars, workerVars, ilsVars
  <2>3. ProcsMoveOn /\ \A w \in Workers : pc[w] \in ClaimedPCs => Claimed(w) \in Runs
    BY <1>4, ClaimedIsRun DEF IInv, ProcsMoveOn, vars
  <2>4. ProcessFollowsWorker'
    BY <1>4, <2>3, ProcessMoves DEF IInv, TypeOK, vars, sharedVars, workerVars
  <2>5. SignalsAreJustified'
    BY <1>4 DEF IInv, SignalsAreJustified, KillsOnlyUnwanted, Unwanted, Stale, Task,
                vars, sharedVars, workerVars, ilsVars
  <2>6. ReportedIsSpent'
    BY <1>4, ReportedEnv DEF IInv, vars, sharedVars, workerVars
  <2> QED BY <2>2, <2>4, <2>5, <2>6 DEF IInv
<1> QED BY <1>1, <1>2, <1>3, <1>4 DEF Next, Env

(* The inductive invariant of the scheduler (src/eval.rs:177-414,          *)
(* 445-624): claims are unique, processes follow their workers, signals go *)
(* to unwanted work only, and every result is spent when it is sent.       *)
THEOREM Invariance == Spec => []IInv
<1> QED BY InvInit, InvStep, PTL DEF Spec

(* Every variable keeps its type, whatever the threads do.                 *)
THEOREM TypeCorrect == Spec => []TypeOK
<1>1. IInv => TypeOK
  BY DEF IInv
<1> QED BY <1>1, Invariance, PTL

(* terminate_groups and the poll loops end only solvers that nobody waits  *)
(* for: however the calls of the ILS thread interleave with the workers,   *)
(* no result that is still wanted is the result of a killed process.       *)
THEOREM KillsAreSafe == Spec => []KillsOnlyUnwanted
<1>1. IInv => KillsOnlyUnwanted
  BY DEF IInv, SignalsAreJustified
<1> QED BY <1>1, Invariance, PTL

(* A solver process that run_wrapper_process spawned is watched by exactly *)
(* one worker until it is reaped.                                          *)
THEOREM LiveSupervision == Spec => []LiveIsSupervised
<1>1. IInv => LiveIsSupervised
  <2> SUFFICES ASSUME IInv, NEW r \in Runs, proc[r] \in Live
               PROVE  \E w \in Workers :
                        /\ Supervises(w, r)
                        /\ \A v \in Workers : Supervises(v, r) => v = w
    BY DEF LiveIsSupervised
  <2>1. PICK w \in Workers : Supervises(w, r)
    BY DEF IInv, ProcessFollowsWorker
  <2>2. \A v \in Workers : Supervises(v, r) => v = w
    BY <2>1, ClaimedDistinct DEF IInv, Supervises, ClaimedPCs
  <2> QED BY <2>1, <2>2
<1> QED BY <1>1, Invariance, PTL

(* Each (neighbour, instance) of a batch yields at most one Completed.     *)
THEOREM ResultsOnce == Spec => []ReportedOnce
<1>1. IInv => ReportedOnce
  BY DEF IInv, ReportedIsSpent
<1> QED BY <1>1, Invariance, PTL

(* A Dispatched precedes its Completed in the event channel.               *)
THEOREM AnnouncedFirst == Spec => []DispatchedFirst
<1>1. IInv => DispatchedFirst
  BY DEF IInv, ReportedIsSpent
<1> QED BY <1>1, Invariance, PTL

(* Worker threads that share next_index never start a run twice, nor one   *)
(* whose result is there already.                                          *)
THEOREM RunsStartOnce == Spec => StartedOnce
<1>1. IInv /\ [Next]_vars =>
        \A r \in Runs : proc'[r] = "running" /\ proc[r] # "running" =>
          proc[r] = "none" /\ r \notin reported
  <2> SUFFICES ASSUME IInv, [Next]_vars, NEW r \in Runs,
                      proc'[r] = "running", proc[r] # "running"
               PROVE  proc[r] = "none" /\ r \notin reported
    OBVIOUS
  <2>1. PICK w \in Workers : Worker(w)
    <3>1. ~Env
      BY EnvFrames DEF IInv, ProcsMoveOn
    <3>2. ~Ils
      BY IlsFrames DEF IlsFrame, TermGroups, KillGroups, Signal
    <3> QED BY <3>1, <3>2 DEF Next, Env, vars
  <2>2. r = Claimed(w) /\ pc[w] = "spawn" /\ proc[r] = "none"
    BY <2>1, WorkerProcs
  <2> QED BY <2>2 DEF IInv, ReportedIsSpent, ReportedOnce, ClaimedPCs
<1> QED BY <1>1, Invariance, PTL DEF Spec, StartedOnce

(***************************************************************************)
(* The scheduler implements the evaluation service.  Besides IInv this     *)
(* needs SparesTheWanted: who signals or gives up a run knows that it is   *)
(* unwanted.  Then every step of a worker, of the ILS thread and of the    *)
(* environment is a step of EvalService or leaves its variables alone.     *)
(***************************************************************************)

CalledOff(t) == Stale(t) \/ t \in cancelled

(* The worker has ended its run, or is about to, and will not report it.   *)
GivingUp(w) == pc[w] = "reap" \/ (pc[w] = "release" /\ outcome[w] = "none")

Collecting == {"register", "poll", "pollCancelled", "tryWait", "terminate", "release", "report"}

Signalled == {"termed", "killing", "killed"}

(* A run is given up only when it is unwanted; a signal that was not sent  *)
(* by the run's own worker is about work that was called off.              *)
SparesTheWanted ==
  /\ \A w \in Workers : GivingUp(w) => Unwanted(handle[w])
  /\ \A r \in victims : CalledOff(Task(r))
  /\ \A w \in Workers :
       /\ pc[w] \in Collecting
       /\ ~GivingUp(w)
       /\ proc[Claimed(w)] \in Signalled
       => CalledOff(handle[w])

(* What was called off stays so.                                           *)
LEMMA CalledOffStays ==
  ASSUME IInv, Ils, NEW t \in Tasks, t[1] <= batchId, CalledOff(t)
  PROVE  CalledOff(t)'
<1>a. TypeOK /\ SignalsAreJustified /\ IlsFrame
  BY IlsFrames DEF IInv
<1>1. batchId \in Nat /\ t[1] \in Nat
  BY <1>a, BegunIsOld DEF TypeOK
<1>2. batchId' \in {batchId, batchId + 1}
  BY <1>a DEF IlsFrame, SubmitBump, Reset, Drop, ResetBump
<1>3. t \in cancelled => t \in cancelled' \/ (t[1] < batchId /\ UNCHANGED batchId)
  <2>1. CASE SubmitClear
    BY <1>a, <2>1 DEF SubmitClear, SignalsAreJustified
  <2>2. CASE ~SubmitClear
    BY <1>a, <2>2 DEF IlsFrame, CancelInsert
  <2> QED BY <2>1, <2>2
<1> QED BY <1>1, <1>2, <1>3 DEF CalledOff, Stale

(* Where a worker goes from where it stands.                               *)
Moves ==
  {<<"recv", "stale">>, <<"recv", "exit">>, <<"stale", "recv">>, <<"stale", "claim">>,
   <<"claim", "recv">>, <<"claim", "checkBatch">>,
   <<"checkBatch", "recv">>, <<"checkBatch", "checkCancelled">>,
   <<"checkCancelled", "recv">>, <<"checkCancelled", "announce">>,
   <<"announce", "spawn">>, <<"spawn", "register">>, <<"spawn", "report">>,
   <<"register", "poll">>, <<"poll", "pollCancelled">>, <<"poll", "terminate">>,
   <<"pollCancelled", "tryWait">>, <<"pollCancelled", "terminate">>,
   <<"tryWait", "poll">>, <<"tryWait", "release">>, <<"terminate", "reap">>,
   <<"reap", "reap">>, <<"reap", "release">>, <<"release", "recv">>,
   <<"release", "report">>, <<"report", "claim">>}

(* A step of a worker is one of its moves; a run that was collected has an *)
(* outcome, and is reported, and one that was ended has none.              *)
LEMMA WorkerMoves ==
  ASSUME TypeOK, NEW w \in Workers, Worker(w)
  PROVE  /\ <<pc[w], pc'[w]>> \in Moves
         /\ pc[w] = "tryWait" /\ pc'[w] = "release" => outcome'[w] # "none"
         /\ pc[w] = "reap" => outcome'[w] = outcome[w]
         /\ pc[w] = "release" => (pc'[w] = "recv" <=> outcome[w] = "none")
<1> USE DEF TypeOK, Goto, Moves
<1>1. CASE Receive(w) \/ Retire(w) \/ CheckHandle(w)
  BY <1>1 DEF Receive, Retire, CheckHandle, DropHandle
<1>2. CASE Claim(w) \/ CheckBatch(w) \/ CheckCancelled(w)
  BY <1>2 DEF Claim, CheckBatch, CheckCancelled, DropHandle
<1>3. CASE Announce(w) \/ Spawn(w) \/ SpawnFails(w) \/ Register(w) \/ Poll(w) \/ PollCancelled(w)
  BY <1>3 DEF Announce, Spawn, SpawnFails, Register, Poll, PollCancelled
<1>4. CASE TryWait(w)
  BY <1>4 DEF TryWait, Statuses
<1>5. CASE Terminate(w) \/ Escalate(w) \/ Reap(w)
  BY <1>5 DEF Terminate, Escalate, Reap, workerVars
<1>6. CASE Release(w)
  BY <1>6 DEF Release, DropHandle
<1>7. CASE Report(w)
  BY <1>7 DEF Report
<1> QED BY <1>1, <1>2, <1>3, <1>4, <1>5, <1>6, <1>7 DEF Worker

(* A worker goes to reap only for what it has seen to be unwanted.         *)
LEMMA SparesWorker ==
  ASSUME IInv, SparesTheWanted, NEW w \in Workers, Worker(w)
  PROVE  SparesTheWanted'
<1>a. /\ TypeOK /\ ClaimsAreUnique /\ ProcessFollowsWorker /\ SignalsAreJustified
      /\ WorkerFrame(w)
  BY WorkerFrames DEF IInv
<1>b. UNCHANGED <<batchId, cancelled, interrupted, missing, victims>>
  BY <1>a DEF WorkerFrame
<1>c. \A t : CalledOff(t)' <=> CalledOff(t)
  BY <1>b DEF CalledOff, Stale
<1>d. \A v \in Workers \ {w} :
        /\ pc'[v] = pc[v] /\ handle'[v] = handle[v] /\ Claimed(v)' = Claimed(v)
        /\ GivingUp(v)' <=> GivingUp(v)
  BY <1>a, <1>b DEF WorkerFrame, Claimed, GivingUp
<1>e. /\ <<pc[w], pc'[w]>> \in Moves
      /\ pc[w] = "tryWait" /\ pc'[w] = "release" => outcome'[w] # "none"
      /\ pc[w] = "reap" => outcome'[w] = outcome[w] /\ outcome[w] = "none"
      /\ pc[w] = "release" => (pc'[w] = "recv" <=> outcome[w] = "none")
  BY <1>a, WorkerMoves DEF ProcessFollowsWorker
<1>f. pc[w] \in Collecting \cup {"spawn", "reap"} /\ pc'[w] \in Collecting \cup {"reap"} =>
        handle'[w] = handle[w] /\ Claimed(w)' = Claimed(w) /\ Claimed(w) \in Runs
  <2>1. ASSUME pc[w] \in Collecting \cup {"spawn", "reap"}, pc'[w] \in Collecting \cup {"reap"}
        PROVE  handle'[w] = handle[w] /\ index'[w] = index[w] /\ Claimed(w) \in Runs
    <3>1. pc[w] \in ClaimedPCs /\ pc'[w] \in ClaimedPCs /\ ~Claim(w)
      BY <2>1 DEF ClaimedPCs, Claim, Collecting
    <3> QED BY <1>a, <3>1, ClaimedIsRun DEF WorkerFrame
  <2> QED BY <1>b, <2>1 DEF Claimed
<1>1. GivingUp(w)' => pc[w] \in {"terminate", "reap"}
  BY <1>e DEF GivingUp, Moves
<1>2. ASSUME NEW v \in Workers, GivingUp(v)' PROVE Unwanted(handle[v])'
  <2>1. Unwanted(handle[v]) /\ handle'[v] = handle[v]
    <3>1. CASE v = w
      <4>1. pc[w] \in {"terminate", "reap"} /\ pc'[w] \in {"reap", "release"}
        BY <1>1, <1>2, <3>1 DEF GivingUp
      <4> QED BY <1>a, <1>f, <3>1, <4>1 DEF SignalsAreJustified, Collecting
    <3>2. CASE v # w
      BY <1>2, <1>d, <3>2 DEF SparesTheWanted
    <3> QED BY <3>1, <3>2
  <2> QED BY <1>b, <2>1 DEF Unwanted, Stale
<1>3. \A r \in victims' : CalledOff(Task(r))'
  BY <1>b, <1>c DEF SparesTheWanted, Task
<1>4. ASSUME NEW v \in Workers, pc'[v] \in Collecting, ~GivingUp(v)',
             proc'[Claimed(v)'] \in Signalled
      PROVE  CalledOff(handle[v])'
  <2>1. CASE v # w
    <3>1. /\ pc[v] = pc'[v] /\ handle'[v] = handle[v] /\ Claimed(v)' = Claimed(v)
          /\ ~GivingUp(v)
      BY <1>4, <1>d, <2>1
    <3>2. pc[v] \in ClaimedPCs /\ Claimed(v) \in Runs
      BY <1>a, <1>4, <3>1, ClaimedIsRun DEF ClaimedPCs, Collecting
    <3>3. proc'[Claimed(v)] = proc[Claimed(v)]
      <4>1. Claimed(v) = Claimed(w) => pc[w] \notin ClaimedPCs
        BY <1>a, <2>1, <3>2, ClaimedDistinct
      <4> QED BY <3>2, <4>1, WorkerProcs DEF ClaimedPCs
    <3>4. CalledOff(handle[v])
      BY <1>4, <3>1, <3>3 DEF SparesTheWanted
    <3> QED BY <1>b, <3>1, <3>4 DEF CalledOff, Stale
  <2>2. CASE v = w
    <3>1. pc[w] \in (Collecting \ {"terminate"}) \cup {"spawn"} /\ ~GivingUp(w)
      BY <1>4, <1>e, <2>2 DEF GivingUp, Moves, Collecting
    <3>2. /\ handle'[w] = handle[w] /\ Claimed(w)' = Claimed(w) /\ Claimed(w) \in Runs
      BY <1>4, <1>f, <2>2, <3>1
    <3>3. pc[w] # "spawn" /\ proc'[Claimed(w)] = proc[Claimed(w)]
      <4>1. proc'[Claimed(w)] # proc[Claimed(w)] =>
              pc[w] = "spawn" /\ proc'[Claimed(w)] = "running"
        BY <3>1, <3>2, WorkerProcs DEF Collecting, GivingUp
      <4>2. pc[w] = "spawn" => proc[Claimed(w)] = "none"
        BY <1>a DEF ProcessFollowsWorker
      <4> QED BY <1>4, <2>2, <3>2, <4>1, <4>2 DEF Signalled
    <3>4. CalledOff(handle[w])
      BY <1>4, <2>2, <3>1, <3>2, <3>3 DEF SparesTheWanted
    <3> QED BY <1>b, <2>2, <3>2, <3>4 DEF CalledOff, Stale
  <2> QED BY <2>1, <2>2
<1> QED BY <1>2, <1>3, <1>4 DEF SparesTheWanted

(* What cancel_neighbor, reset and drop find and signal was called off     *)
(* before they look.                                                       *)
LEMMA SparesIls ==
  ASSUME IInv, IInv', SparesTheWanted, Ils
  PROVE  SparesTheWanted'
<1>a. /\ TypeOK /\ ClaimsAreUnique /\ ProcessFollowsWorker /\ SignalsAreJustified
      /\ IlsFrame
  BY IlsFrames DEF IInv
<1>b. UNCHANGED <<pc, handle, index, outcome>> /\ \A w : GivingUp(w)' <=> GivingUp(w)
  BY <1>a DEF IlsFrame, workerVars, GivingUp
<1>c. \A w \in Workers : pc[w] \in ClaimedPCs =>
        Claimed(w)' = Claimed(w) /\ Claimed(w) \in Runs /\ Task(Claimed(w)) = handle[w]
        /\ handle[w] \in Tasks /\ handle[w][1] <= batchId
  <2>1. CASE Offer
    BY <1>a, <2>1, OfferKeeps, ClaimedIsRun, BegunIsOld DEF Offer
  <2>2. CASE ~Offer
    BY <1>a, <1>b, <2>2, ClaimedIsRun, BegunIsOld DEF IlsFrame, Claimed
  <2> QED BY <2>1, <2>2
<1>d. \A t \in Tasks : t[1] <= batchId /\ CalledOff(t) => CalledOff(t)'
  BY CalledOffStays
<1>1. ASSUME NEW w \in Workers, GivingUp(w)' PROVE Unwanted(handle[w])'
  <2>1. handle[w] \in Tasks /\ handle[w][1] <= batchId
    BY <1>1, <1>b, <1>c DEF GivingUp, ClaimedPCs
  <2>2. interrupted \/ CalledOff(handle[w])
    BY <1>1, <1>b DEF SparesTheWanted, Unwanted, CalledOff
  <2>3. \E t \in Tasks : t = handle[w] /\ t = handle'[w] /\ (interrupted' \/ CalledOff(t)')
    BY <1>a, <1>b, <1>d, <2>1, <2>2 DEF IlsFrame
  <2> QED BY <2>3 DEF Unwanted, CalledOff, Stale
<1>2. ASSUME NEW r \in victims' PROVE CalledOff(Task(r))'
  <2>1. r \in Runs /\ proc[r] # "none" /\ CalledOff(Task(r))
    <3>1. CASE Snapshot
      <4>1. r \in active /\ Matches(r) /\ ils = "snapshot"
        BY <1>2, <3>1 DEF Snapshot
      <4>2. r \in Runs /\ proc[r] # "none" /\ r[1] \in Nat /\ batchId \in Nat
        BY <1>a, <4>1 DEF ProcessFollowsWorker, TypeOK, Runs, Batches
      <4>3. target.kind \in {"neighbour", "batch", "drop", "all"}
        BY <1>a, <4>1 DEF SignalsAreJustified, TypeOK, Targets
      <4>4. CASE target.kind = "neighbour"
        BY <1>a, <4>1, <4>2, <4>4 DEF Matches, SignalsAreJustified, CalledOff
      <4>5. CASE target.kind \in {"batch", "drop"}
        BY <1>a, <4>1, <4>2, <4>5 DEF Matches, SignalsAreJustified, CalledOff, Stale, Task
      <4>6. CASE target.kind = "all"
        BY <4>2, <4>6, BegunIsOld DEF CalledOff, Stale
      <4> QED BY <4>2, <4>3, <4>4, <4>5, <4>6
    <3>2. CASE ~Snapshot
      BY <1>a, <1>2, <3>2 DEF IlsFrame, KillGroups, TypeOK, SparesTheWanted, SignalsAreJustified
    <3> QED BY <3>1, <3>2
  <2> QED BY <1>d, <2>1, BegunIsOld DEF Task
<1>3. ASSUME NEW w \in Workers, pc'[w] \in Collecting, ~GivingUp(w)',
             proc'[Claimed(w)'] \in Signalled
      PROVE  CalledOff(handle[w])'
  <2>1. /\ pc[w] \in Collecting /\ ~GivingUp(w) /\ Claimed(w)' = Claimed(w) /\ Claimed(w) \in Runs
        /\ handle[w] \in Tasks /\ handle[w][1] <= batchId /\ Task(Claimed(w)) = handle[w]
    BY <1>3, <1>b, <1>c DEF ClaimedPCs, Collecting
  <2>2. CalledOff(handle[w])
    <3>1. CASE proc'[Claimed(w)] = proc[Claimed(w)]
      BY <1>3, <2>1, <3>1 DEF SparesTheWanted
    <3>2. CASE proc'[Claimed(w)] # proc[Claimed(w)]
      <4>1. Claimed(w) \in victims
        BY <1>a, <2>1, <3>2 DEF IlsFrame, TermGroups, KillGroups, Signal
      <4> QED BY <2>1, <4>1 DEF SparesTheWanted
    <3> QED BY <3>1, <3>2
  <2>3. \E t \in Tasks : t = handle[w] /\ t = handle'[w] /\ CalledOff(t)'
    BY <1>b, <1>d, <2>1, <2>2
  <2> QED BY <2>3 DEF CalledOff, Stale
<1> QED BY <1>1, <1>2, <1>3 DEF SparesTheWanted

(* A process that ends does so by itself, or by a signal sent before.      *)
LEMMA SparesEnv ==
  ASSUME IInv, SparesTheWanted, Env
  PROVE  SparesTheWanted'
<1>a. TypeOK /\ ClaimsAreUnique
  BY DEF IInv
<1>b. /\ UNCHANGED <<batchId, cancelled, missing, pc, handle, index, outcome, victims>>
      /\ interrupted => interrupted'
      /\ \A r \in Runs : proc'[r] \in Signalled => proc[r] \in Signalled
  BY <1>a, EnvFrames DEF workerVars, ilsVars, Signalled
<1>c. /\ \A t : CalledOff(t)' <=> CalledOff(t)
      /\ \A t : Unwanted(t) => Unwanted(t)'
      /\ \A w : (GivingUp(w)' <=> GivingUp(w)) /\ Claimed(w)' = Claimed(w)
  BY <1>b DEF CalledOff, Unwanted, Stale, GivingUp, Claimed
<1>1. \A w \in Workers : pc[w] \in Collecting => Claimed(w) \in Runs
  BY <1>a, ClaimedIsRun DEF ClaimedPCs, Collecting
<1>2. \A w \in Workers : GivingUp(w)' => Unwanted(handle[w])'
  BY <1>b, <1>c DEF SparesTheWanted, Unwanted, Stale
<1>3. \A r \in victims' : CalledOff(Task(r))'
  BY <1>b, <1>c DEF SparesTheWanted, Task
<1>4. ASSUME NEW w \in Workers, pc'[w] \in Collecting, ~GivingUp(w)',
             proc'[Claimed(w)'] \in Signalled
      PROVE  CalledOff(handle[w])'
  <2>1. CalledOff(handle[w])
    BY <1>4, <1>b, <1>c, <1>1 DEF SparesTheWanted
  <2> QED BY <1>b, <2>1 DEF CalledOff, Stale
<1> QED BY <1>2, <1>3, <1>4 DEF SparesTheWanted

(* Nothing is given up, signalled or collected in a new scheduler, and     *)
(* every step keeps to the rule.                                           *)
LEMMA SparesInv == Spec => []SparesTheWanted
<1>1. Init => SparesTheWanted
  BY DEF Init, SparesTheWanted, GivingUp, Collecting
<1>2. IInv /\ IInv' /\ SparesTheWanted /\ [Next]_vars => SparesTheWanted'
  <2> SUFFICES ASSUME IInv, IInv', SparesTheWanted, [Next]_vars PROVE SparesTheWanted'
    OBVIOUS
  <2>1. CASE \E w \in Workers : Worker(w)
    BY <2>1, SparesWorker
  <2>2. CASE Ils
    BY <2>2, SparesIls
  <2>3. CASE Env
    BY <2>3, SparesEnv
  <2>4. CASE UNCHANGED vars
    BY <2>4 DEF SparesTheWanted, GivingUp, CalledOff, Unwanted, Stale, Task, Claimed,
         vars, sharedVars, workerVars, ilsVars
  <2> QED BY <2>1, <2>2, <2>3, <2>4 DEF Next, Env
<1> QED BY <1>1, <1>2, Invariance, PTL DEF Spec

(* Where a claimed run is not announced yet, and where it is.              *)
EarlyPCs == {"checkBatch", "checkCancelled", "announce"}

LatePCs == ClaimedPCs \ EarlyPCs

(* The run waits at a position no worker has claimed.                      *)
Ahead(r) ==
  \E k \in DOMAIN missing[Task(r)] :
    k > next[Task(r)] /\ missing[Task(r)][k] = r[3]

(* A run is owed while it waits or its worker still checks, and under way  *)
(* while its worker is past the announcement.                              *)
LEMMA Views ==
  /\ \A r : r \in Owed <=> \/ r \in Runs /\ Ahead(r)
                           \/ \E v \in Workers : pc[v] \in EarlyPCs /\ r = Claimed(v)
  /\ \A r : r \in Underway <=> \E v \in Workers : pc[v] \in LatePCs /\ r = Claimed(v)
  /\ (\A r : r \in Owed <=> \/ r \in Runs /\ Ahead(r)
                            \/ \E v \in Workers : pc[v] \in EarlyPCs /\ r = Claimed(v))'
  /\ (\A r : r \in Underway <=> \E v \in Workers : pc[v] \in LatePCs /\ r = Claimed(v))'
BY DEF Owed, Underway, Ahead, EarlyPCs, LatePCs

(* A claimed run is in one of the two sets, and by its worker alone.       *)
LEMMA ClaimedView ==
  ASSUME IInv, NEW w \in Workers, pc[w] \in ClaimedPCs
  PROVE  /\ ~Ahead(Claimed(w))
         /\ \A v \in Workers \ {w} : pc[v] \in ClaimedPCs => Claimed(v) # Claimed(w)
         /\ pc[w] \in EarlyPCs => Claimed(w) \in Owed /\ Claimed(w) \notin Underway
         /\ pc[w] \in LatePCs => Claimed(w) \in Underway /\ Claimed(w) \notin Owed
<1>a. TypeOK /\ ClaimsAreUnique
  BY DEF IInv
<1>b. EarlyPCs \subseteq ClaimedPCs /\ LatePCs \subseteq ClaimedPCs
      /\ EarlyPCs \cap LatePCs = {}
  BY DEF EarlyPCs, LatePCs, ClaimedPCs
<1>1. ~Ahead(Claimed(w))
  <2> SUFFICES ASSUME Ahead(Claimed(w)) PROVE FALSE
    OBVIOUS
  <2>1. Taken(Claimed(w)) /\ Task(Claimed(w)) \in Tasks
    BY <1>a, ClaimedIsRun
  <2>2. PICK j \in DOMAIN missing[Task(Claimed(w))] :
          j > next[Task(Claimed(w))] /\ missing[Task(Claimed(w))][j] = Claimed(w)[3]
    BY DEF Ahead
  <2>3. PICK k \in DOMAIN missing[Task(Claimed(w))] :
          k <= next[Task(Claimed(w))] /\ missing[Task(Claimed(w))][k] = Claimed(w)[3]
    BY <2>1 DEF Taken
  <2>4. j = k
    BY <1>a, <2>1, <2>2, <2>3, OnePosition
  <2>5. next[Task(Claimed(w))] \in Nat /\ j \in Nat
    BY <1>a, <2>1, <2>2 DEF TypeOK
  <2> QED BY <2>2, <2>3, <2>4, <2>5
<1>2. \A v \in Workers \ {w} : pc[v] \in ClaimedPCs => Claimed(v) # Claimed(w)
  BY <1>a, ClaimedDistinct
<1> QED BY <1>b, <1>1, <1>2, Views

(* Only the claiming worker's own run changes sides, and as its pc says.   *)
LEMMA WorkerView ==
  ASSUME IInv, NEW w \in Workers, Worker(w), ~Claim(w)
  PROVE  /\ Owed' = IF pc[w] \in EarlyPCs /\ pc'[w] \notin EarlyPCs
                    THEN Owed \ {Claimed(w)} ELSE Owed
         /\ pc'[w] \in EarlyPCs => pc[w] \in EarlyPCs
         /\ Underway' = IF pc'[w] \in LatePCs THEN Underway \cup {Claimed(w)}
                        ELSE IF pc[w] \in LatePCs THEN Underway \ {Claimed(w)}
                        ELSE Underway
<1>a. TypeOK /\ WorkerFrame(w)
  BY WorkerFrames DEF IInv
<1>b. EarlyPCs \subseteq ClaimedPCs /\ LatePCs \subseteq ClaimedPCs
      /\ EarlyPCs \cap LatePCs = {}
  BY DEF EarlyPCs, LatePCs, ClaimedPCs
<1>c. <<pc[w], pc'[w]>> \in Moves
  BY <1>a, WorkerMoves
<1>1. pc'[w] \in EarlyPCs => pc[w] \in EarlyPCs
  <2>1. pc[w] = "claim" => Claim(w)
    BY DEF Worker, Receive, Retire, CheckHandle, CheckBatch, CheckCancelled, Announce,
       Spawn, SpawnFails, Register, Poll, PollCancelled, TryWait, Terminate, Escalate, Reap, Release, Report
  <2> QED BY <1>c, <2>1 DEF Moves, EarlyPCs
<1>2. \A r \in Runs : Ahead(r)' <=> Ahead(r)
  BY <1>a DEF WorkerFrame, Ahead, Task
<1>3. \A v \in Workers \ {w} : pc'[v] = pc[v] /\ Claimed(v)' = Claimed(v)
  BY <1>a DEF WorkerFrame, Claimed
<1>4. pc'[w] \in ClaimedPCs => pc[w] \in ClaimedPCs /\ Claimed(w)' = Claimed(w)
  BY <1>a DEF WorkerFrame, Claimed
<1>5. pc[w] \in ClaimedPCs =>
        /\ ~Ahead(Claimed(w))
        /\ \A v \in Workers \ {w} : pc[v] \in ClaimedPCs => Claimed(v) # Claimed(w)
  BY ClaimedView
<1>6. \A r : r \in Owed' <=>
        r \in IF pc[w] \in EarlyPCs /\ pc'[w] \notin EarlyPCs
              THEN Owed \ {Claimed(w)} ELSE Owed
  BY <1>b, <1>1, <1>2, <1>3, <1>4, <1>5, Views
<1>7. \A r : r \in Underway' <=>
        r \in IF pc'[w] \in LatePCs THEN Underway \cup {Claimed(w)}
              ELSE IF pc[w] \in LatePCs THEN Underway \ {Claimed(w)}
              ELSE Underway
  BY <1>b, <1>3, <1>4, <1>5, Views
<1> QED BY <1>1, <1>6, <1>7

(* Claiming takes a run from the list to the worker: it stays owed.        *)
LEMMA ClaimView ==
  ASSUME IInv, TypeOK', NEW w \in Workers, Claim(w)
  PROVE  Owed' = Owed /\ Underway' = Underway
<1>a. TypeOK /\ ClaimsAreUnique /\ WorkerFrame(w)
  BY WorkerFrames DEF IInv, Worker
<1>b. EarlyPCs \subseteq ClaimedPCs /\ LatePCs \subseteq ClaimedPCs
      /\ EarlyPCs \cap LatePCs = {} /\ "checkBatch" \in EarlyPCs
      /\ "claim" \notin ClaimedPCs /\ "recv" \notin ClaimedPCs
  BY DEF EarlyPCs, LatePCs, ClaimedPCs
<1>c. pc[w] = "claim" /\ handle[w] \in Tasks
  BY <1>a DEF Claim, ClaimsAreUnique
<1> DEFINE h == handle[w]
           n == next[h]
<1>d. /\ n \in Nat /\ missing[h] \in Seq(Instances) /\ missing' = missing
      /\ next'[h] = n + 1
      /\ \A t \in Tasks \ {h} : next'[t] = next[t]
  BY <1>a, <1>c DEF TypeOK, Claim, ClaimedNext
<1>e. \A v \in Workers \ {w} : pc'[v] = pc[v] /\ Claimed(v)' = Claimed(v)
  BY <1>a DEF WorkerFrame, Claimed
<1>1. \A r \in Runs : Task(r) # h => (Ahead(r)' <=> Ahead(r))
  BY <1>d, RunParts DEF Ahead, Task
<1>2. CASE n < Len(missing[h])
  <2>1. /\ pc'[w] = "checkBatch" /\ handle'[w] = h /\ index'[w] = n
    BY <1>a, <1>2 DEF Claim, Goto, TypeOK
  <2>2. n + 1 \in DOMAIN missing[h] /\ missing[h][n + 1] \in Instances
    BY <1>2, <1>d
  <2>3. Claimed(w)' = <<h[1], h[2], missing[h][n + 1]>>
    BY <1>d, <2>1 DEF Claimed
  <2>4. /\ Claimed(w)' \in Runs /\ Task(Claimed(w)') = h
        /\ Claimed(w)'[3] = missing[h][n + 1]
    BY <1>c, <2>2, <2>3, RunParts
  <2>5. Ahead(Claimed(w)')
    BY <1>d, <2>2, <2>4 DEF Ahead
  <2>6. \A r \in Runs : Task(r) = h => (Ahead(r) <=> Ahead(r)' \/ r = Claimed(w)')
    <3> TAKE r \in Runs
    <3> HAVE Task(r) = h
    <3>1. Ahead(r)' <=> \E k \in DOMAIN missing[h] : k > n + 1 /\ missing[h][k] = r[3]
      BY <1>d DEF Ahead, Task
    <3>2. Ahead(r) <=> \E k \in DOMAIN missing[h] : k > n /\ missing[h][k] = r[3]
      BY DEF Ahead
    <3>3. \A k \in DOMAIN missing[h] : k > n <=> k > n + 1 \/ k = n + 1
      BY <1>d
    <3>4. r[3] = missing[h][n + 1] <=> r = Claimed(w)'
      BY <2>4, RunParts
    <3> QED BY <2>2, <3>1, <3>2, <3>3, <3>4
  <2>7. \A r \in Runs : Ahead(r) <=> Ahead(r)' \/ r = Claimed(w)'
    BY <1>1, <2>4, <2>6
  <2>8. \A r : r \in Owed' <=> r \in Owed
    BY <1>b, <1>c, <1>e, <2>1, <2>4, <2>5, <2>7, Views
  <2>9. \A r : r \in Underway' <=> r \in Underway
    BY <1>b, <1>c, <1>e, <2>1, Views
  <2> QED BY <2>8, <2>9
<1>3. CASE ~(n < Len(missing[h]))
  <2>1. pc'[w] = "recv"
    BY <1>a, <1>3 DEF Claim, DropHandle, Goto, TypeOK
  <2>2. \A r \in Runs : Ahead(r)' <=> Ahead(r)
    <3>1. \A k \in DOMAIN missing[h] : ~(k > n) /\ ~(k > n + 1)
      BY <1>3, <1>d
    <3>2. \A r \in Runs : Task(r) = h => ~Ahead(r) /\ ~Ahead(r)'
      BY <1>d, <3>1 DEF Ahead, Task
    <3> QED BY <1>1, <3>2
  <2>3. \A r : r \in Owed' <=> r \in Owed
    BY <1>b, <1>c, <1>e, <2>1, <2>2, Views
  <2>4. \A r : r \in Underway' <=> r \in Underway
    BY <1>b, <1>c, <1>e, <2>1, Views
  <2> QED BY <2>3, <2>4
<1> QED BY <1>2, <1>3

(* A step of a worker announces, reports or gives up its run, or is not    *)
(* seen by the ILS thread.                                                 *)
LEMMA ServiceWorker ==
  ASSUME IInv, TypeOK', SparesTheWanted, NEW w \in Workers, Worker(w)
  PROVE  Service!SNext \/ UNCHANGED Service!svars
<1>a. /\ TypeOK /\ ClaimsAreUnique /\ ProcessFollowsWorker /\ WorkerFrame(w)
  BY WorkerFrames DEF IInv
<1>b. UNCHANGED <<batchId, cancelled, interrupted>> /\ ils' = ils
      /\ (ils = "dropped")' = (ils = "dropped")
  BY <1>a DEF WorkerFrame
<1>c. pc[w] \in ClaimedPCs =>
        /\ Task(Claimed(w)) = handle[w]
        /\ pc[w] \in EarlyPCs => Claimed(w) \in Owed /\ Claimed(w) \notin Underway
        /\ pc[w] \in LatePCs => Claimed(w) \in Underway /\ Claimed(w) \notin Owed
  BY <1>a, ClaimedIsRun, ClaimedView
<1>d. ~Claim(w) =>
         /\ Owed' = IF pc[w] \in EarlyPCs /\ pc'[w] \notin EarlyPCs
                    THEN Owed \ {Claimed(w)} ELSE Owed
         /\ pc'[w] \in EarlyPCs => pc[w] \in EarlyPCs
         /\ Underway' = IF pc'[w] \in LatePCs THEN Underway \cup {Claimed(w)}
                        ELSE IF pc[w] \in LatePCs THEN Underway \ {Claimed(w)}
                        ELSE Underway
  BY WorkerView
<1>e. <<pc[w], pc'[w]>> \in Moves
  BY <1>a, WorkerMoves
<1> DEFINE r == Claimed(w)
<1>g. ASSUME pc[w] \in ClaimedPCs, pc'[w] \notin ClaimedPCs, Unwanted(handle[w]),
             UNCHANGED events, ~Claim(w)
      PROVE  Service!SNext
  <2>1. pc[w] \in EarlyPCs \/ pc[w] \in LatePCs
    BY <1>g DEF LatePCs
  <2>2. pc'[w] \notin EarlyPCs /\ pc'[w] \notin LatePCs
    BY <1>g DEF EarlyPCs, LatePCs, ClaimedPCs
  <2>3. r \in Owed \cup Underway /\ Owed' = Owed \ {r} /\ Underway' = Underway \ {r}
    BY <1>c, <1>d, <1>g, <2>1, <2>2 DEF LatePCs
  <2>4. Service!NotWanted(Service!TaskOf(r))
    BY <1>c, <1>g DEF Service!NotWanted, Service!CalledOff, Service!IsStale,
       Service!TaskOf, Task, Unwanted, Stale
  <2>5. Service!GiveUp(r)
    BY <1>b, <1>g, <2>3, <2>4 DEF Service!GiveUp
  <2> QED BY <2>3, <2>5 DEF Service!SNext
<1>1. CASE Claim(w)
  <2>1. Owed' = Owed /\ Underway' = Underway /\ UNCHANGED events
    BY <1>1, ClaimView DEF Claim
  <2> QED BY <1>b, <2>1 DEF Service!svars
<1>2. CASE CheckBatch(w) \/ CheckCancelled(w)
  <2>1. /\ pc[w] \in EarlyPCs /\ pc[w] \in ClaimedPCs /\ ~Claim(w) /\ UNCHANGED events
    BY <1>2 DEF CheckBatch, CheckCancelled, Claim, EarlyPCs, ClaimedPCs
  <2>2. CASE pc'[w] \in EarlyPCs
    <3>1. pc'[w] \notin LatePCs /\ pc[w] \notin LatePCs
      BY <2>1, <2>2 DEF LatePCs
    <3> QED BY <1>b, <1>d, <2>1, <2>2, <3>1 DEF Service!svars
  <2>3. CASE pc'[w] \notin EarlyPCs
    <3>1. Unwanted(handle[w]) /\ pc'[w] = "recv"
      BY <1>2, <1>a, <2>3 DEF CheckBatch, CheckCancelled, DropHandle, Goto, EarlyPCs,
         Unwanted, TypeOK
    <3> QED BY <1>g, <2>1, <3>1 DEF ClaimedPCs
  <2> QED BY <2>2, <2>3
<1>3. CASE Announce(w)
  <2>1. /\ pc[w] \in EarlyPCs /\ pc[w] \in ClaimedPCs /\ pc'[w] \in LatePCs
        /\ pc'[w] \notin EarlyPCs /\ ~Claim(w)
    BY <1>3, <1>a DEF Announce, Goto, Claim, EarlyPCs, LatePCs, ClaimedPCs, TypeOK
  <2>2. r \in Owed /\ Owed' = Owed \ {r} /\ Underway' = Underway \cup {r}
    BY <1>c, <1>d, <2>1
  <2>3. Service!Deliver(<<Service!Announcement(r)>>)
    BY <1>3 DEF Announce, Send, Dispatched, Service!Deliver, Service!Announcement
  <2>4. Service!Begin(r)
    BY <1>b, <2>2, <2>3 DEF Service!Begin
  <2> QED BY <2>2, <2>4 DEF Service!SNext
<1>4. CASE Release(w)
  <2>1. pc[w] = "release" /\ pc[w] \in ClaimedPCs /\ pc[w] \in LatePCs /\ ~Claim(w)
        /\ UNCHANGED events
    BY <1>4 DEF Release, Claim, LatePCs, ClaimedPCs, EarlyPCs
  <2>2. CASE outcome[w] = "none"
    <3>1. pc'[w] = "recv" /\ Unwanted(handle[w])
      BY <1>4, <1>a, <2>1, <2>2 DEF Release, DropHandle, Goto, TypeOK, SparesTheWanted, GivingUp
    <3> QED BY <1>g, <2>1, <3>1 DEF ClaimedPCs
  <2>3. CASE outcome[w] # "none"
    <3>1. pc'[w] = "report" /\ pc'[w] \in LatePCs
      BY <1>4, <1>a, <2>3 DEF Release, Goto, TypeOK, LatePCs, ClaimedPCs, EarlyPCs
    <3>2. pc[w] \notin EarlyPCs
      BY <2>1 DEF LatePCs
    <3>3. Owed' = Owed /\ Underway' = Underway
      BY <1>c, <1>d, <2>1, <3>1, <3>2
    <3> QED BY <1>b, <2>1, <3>3 DEF Service!svars
  <2> QED BY <2>2, <2>3
<1>5. CASE Report(w)
  <2>1. /\ pc[w] = "report" /\ pc[w] \in ClaimedPCs /\ pc[w] \in LatePCs /\ pc'[w] = "claim"
        /\ ~Claim(w) /\ pc[w] \notin EarlyPCs /\ pc'[w] \notin LatePCs
    BY <1>5, <1>a DEF Report, Claim, Goto, TypeOK, LatePCs, ClaimedPCs, EarlyPCs
  <2>2. r \in Underway /\ Owed' = Owed /\ Underway' = Underway \ {r}
    BY <1>c, <1>d, <2>1
  <2>3. outcome[w] \in Service!Statuses
    BY <1>a, <2>1 DEF TypeOK, ProcessFollowsWorker, Statuses, Service!Statuses
  <2> DEFINE k == (proc[r] = "killed")
  <2>4. Service!Deliver(<<Service!Result(r, outcome[w], TRUE, k)>>)
    BY <1>5 DEF Report, Send, Completed, Service!Deliver, Service!Result
  <2>5. k => Service!CalledOff(Service!TaskOf(r))
    <3>1. k => CalledOff(handle[w])
      BY <2>1 DEF SparesTheWanted, GivingUp, Collecting, Signalled
    <3> QED BY <1>c, <2>1, <3>1 DEF CalledOff, Stale, Task, Service!CalledOff,
         Service!IsStale, Service!TaskOf
  <2>6. Service!Finish(r, outcome[w], k)
    BY <1>b, <2>2, <2>4, <2>5 DEF Service!Finish
  <2>7. k \in BOOLEAN
    OBVIOUS
  <2> QED BY <2>2, <2>3, <2>6, <2>7 DEF Service!SNext
<1>6. CASE Receive(w) \/ Retire(w) \/ CheckHandle(w)
  <2>1. ~Claim(w) /\ pc[w] \notin EarlyPCs /\ pc[w] \notin LatePCs /\ pc'[w] \notin LatePCs
        /\ UNCHANGED events
    <3>1. pc[w] \in {"recv", "stale"} /\ UNCHANGED events
      BY <1>6 DEF Receive, Retire, CheckHandle
    <3> QED BY <1>e, <3>1 DEF Moves, Claim, LatePCs, EarlyPCs, ClaimedPCs
  <2> QED BY <1>b, <1>d, <2>1 DEF Service!svars
<1>7. CASE Spawn(w) \/ SpawnFails(w) \/ Register(w) \/ Poll(w) \/ PollCancelled(w) \/ TryWait(w)
           \/ Terminate(w) \/ Escalate(w) \/ Reap(w)
  <2>1. pc[w] \in {"spawn", "register", "poll", "pollCancelled", "tryWait", "terminate", "reap"}
        /\ UNCHANGED events
    BY <1>7 DEF Spawn, SpawnFails, Register, Poll, PollCancelled, TryWait, Terminate, Escalate, Reap
  <2>2. ~Claim(w) /\ pc[w] \notin EarlyPCs /\ pc[w] \in LatePCs /\ pc'[w] \in LatePCs
        /\ pc[w] \in ClaimedPCs
    BY <1>e, <2>1 DEF Moves, Claim, LatePCs, EarlyPCs, ClaimedPCs
  <2>3. Owed' = Owed /\ Underway' = Underway
    BY <1>c, <1>d, <2>2
  <2> QED BY <1>b, <2>1, <2>3 DEF Service!svars
<1> QED BY <1>1, <1>2, <1>3, <1>4, <1>5, <1>6, <1>7 DEF Worker

(* One task of submit: what is not a cache hit becomes owed.               *)
LEMMA ServiceOffer ==
  ASSUME IInv, Offer
  PROVE  Service!SNext
<1>a. TypeOK /\ FreshIsUntouched /\ IlsFrame
  BY IlsFrames DEF IInv, Ils
<1> PICK n \in toOffer, m \in InstanceLists, hits \in InstanceLists :
           Partition(m, hits) /\ OfferTask(n, m, hits)
  BY DEF Offer
<1> DEFINE t0 == <<batchId, n>>
<1>1. /\ n \in Neighbours /\ t0 \in Tasks /\ t0[1] = batchId /\ t0[2] = n
      /\ m \in Seq(Instances) /\ ils = "offer" /\ ils' = ils
      /\ next' = next /\ UNCHANGED <<batchId, cancelled, interrupted, pc, handle, index>>
  BY <1>a, InstanceListsAssumption DEF TypeOK, OfferTask, FreshIsUntouched, Tasks, workerVars
<1>2. /\ \A t \in Tasks : t # t0 => missing'[t] = missing[t]
      /\ missing[t0] = <<>> /\ next[t0] = 0 /\ missing'[t0] = m
      /\ \A w \in Workers : pc[w] \in ClaimedPCs => Claimed(w)' = Claimed(w)
  BY OfferKeeps
<1>3. \A w \in Workers : handle[w] # t0
  BY <1>a, <1>1 DEF FreshIsUntouched, Fresh
<1>4. \A w \in Workers : pc[w] \in ClaimedPCs =>
        Claimed(w) \in Runs /\ Task(Claimed(w)) # t0
  BY <1>a, <1>3, ClaimedIsRun DEF IInv
<1>b. EarlyPCs \subseteq ClaimedPCs /\ LatePCs \subseteq ClaimedPCs
  BY DEF EarlyPCs, LatePCs, ClaimedPCs
<1> DEFINE new == {<<batchId, n, i>> : i \in Service!Items(m)}
<1>5. \A r : r \in new <=> r \in Runs /\ Task(r) = t0 /\ \E k \in DOMAIN m : m[k] = r[3]
  <2>1. \A i \in Instances : /\ <<batchId, n, i>> \in Runs
                            /\ Task(<<batchId, n, i>>) = t0 /\ <<batchId, n, i>>[3] = i
    BY <1>1, RunParts
  <2>2. \A r \in Runs : Task(r) = t0 => r = <<batchId, n, r[3]>>
    BY DEF Runs, Task
  <2>3. \A k \in DOMAIN m : m[k] \in Instances
    BY <1>1
  <2> QED BY <2>1, <2>2, <2>3 DEF Service!Items
<1>6. \A r \in Runs : Task(r) = t0 =>
        /\ ~Ahead(r)
        /\ Ahead(r)' <=> \E k \in DOMAIN m : m[k] = r[3]
  <2>1. \A k \in DOMAIN m : k > 0
    BY <1>1
  <2> QED BY <1>1, <1>2, <2>1 DEF Ahead, Task
<1>7. \A r \in Runs : Task(r) # t0 => (Ahead(r)' <=> Ahead(r))
  BY <1>1, <1>2, RunParts DEF Ahead, Task
<1>8. \A r : r \in Owed' <=> r \in Owed \/ r \in new
  BY <1>1, <1>2, <1>5, <1>6, <1>7, <1>b, Views
<1>9. \A r : r \in Underway' <=> r \in Underway
  BY <1>1, <1>2, <1>b, Views
<1>10. \A i \in Instances : <<batchId, n, i>> \notin Owed \cup Underway
  <2> TAKE i \in Instances
  <2>1. <<batchId, n, i>> \in Runs /\ Task(<<batchId, n, i>>) = t0
    BY <1>1, RunParts
  <2> QED BY <1>4, <1>6, <1>b, <2>1, Views
<1>11. Service!Items(m) \cap Service!Items(hits) = {}
  BY DEF Partition, Service!Items
<1>12. Service!Deliver([k \in DOMAIN hits |->
          Service!Result(<<batchId, n, hits[k]>>, "line", FALSE, FALSE)])
  BY DEF OfferTask, Send, Completed, Service!Deliver, Service!Result
<1>13. Owed' = Owed \cup new /\ Underway' = Underway
       /\ (ils = "dropped")' = (ils = "dropped")
  BY <1>1, <1>8, <1>9
<1>14. Service!Accept(n, m, hits)
  BY <1>1, <1>10, <1>11, <1>12, <1>13 DEF Service!Accept
<1> QED BY <1>1, <1>14 DEF Service!SNext

(* Each call of the ILS thread is a call of the service, or not seen.      *)
LEMMA ServiceIls ==
  ASSUME IInv, Ils
  PROVE  Service!SNext \/ UNCHANGED Service!svars
<1>a. TypeOK /\ SignalsAreJustified /\ IlsFrame
  BY IlsFrames DEF IInv
<1>b. ~Offer => Owed' = Owed /\ Underway' = Underway
  BY <1>a DEF IlsFrame, workerVars, Owed, Underway, Claimed, Task
<1>c. UNCHANGED interrupted
  BY <1>a DEF IlsFrame
<1>1. CASE Offer
  BY <1>1, ServiceOffer
<1>2. CASE SubmitBump \/ Reset \/ Drop
  <2>1. /\ ~Offer /\ batchId' = batchId + 1 /\ UNCHANGED <<cancelled, events>>
        /\ ils # "dropped" /\ ils' # "dropped"
    BY <1>2 DEF SubmitBump, Reset, Drop, Unwinding, ResetBump, Offer, OfferTask
  <2>2. Service!NewBatch
    BY <1>b, <1>c, <2>1 DEF Service!NewBatch
  <2> QED BY <2>2 DEF Service!SNext
<1>3. CASE SubmitClear
  <2>1. /\ ~Offer /\ cancelled' = {} /\ UNCHANGED <<batchId, events>>
        /\ ils = "clear" /\ ils' = "offer"
    BY <1>3 DEF SubmitClear, Offer, OfferTask
  <2>2. \A t \in cancelled : Service!IsStale(t)
    BY <1>a, <2>1 DEF SignalsAreJustified, Service!IsStale, TypeOK
  <2>3. Service!Forget
    BY <1>b, <1>c, <2>1, <2>2 DEF Service!Forget
  <2> QED BY <2>3 DEF Service!SNext
<1>4. CASE \E n \in Neighbours : CancelInsert(n)
  <2> PICK n \in Neighbours : CancelInsert(n)
    BY <1>4
  <2>1. /\ ~Offer /\ UNCHANGED <<batchId, events>> /\ cancelled' = cancelled \cup {<<batchId, n>>}
        /\ ils = "open" /\ ils' = "snapshot"
    BY DEF CancelInsert, Offer, OfferTask
  <2>2. Service!CallOff(n)
    BY <1>b, <1>c, <2>1 DEF Service!CallOff
  <2> QED BY <2>2 DEF Service!SNext
<1>5. CASE Take
  <2>1. /\ ~Offer /\ events # <<>> /\ events' = Tail(events)
        /\ UNCHANGED <<batchId, cancelled, ils>>
    BY <1>5 DEF Take, Offer, OfferTask, sharedVars, ilsVars
  <2>2. Service!ReadEvent
    BY <1>b, <1>c, <2>1 DEF Service!ReadEvent
  <2> QED BY <2>2 DEF Service!SNext
<1>6. CASE KillGroups
  <2>1. /\ ~Offer /\ ils = "kill" /\ UNCHANGED <<batchId, cancelled, events>>
    BY <1>6 DEF KillGroups, Offer, OfferTask, sharedVars
  <2>2. CASE ils' = "dropped"
    <3>1. Service!Close
      BY <1>b, <1>c, <2>1, <2>2 DEF Service!Close
    <3> QED BY <3>1 DEF Service!SNext
  <2>3. CASE ils' # "dropped"
    BY <1>b, <1>c, <2>1, <2>3 DEF Service!svars
  <2> QED BY <2>2, <2>3
<1>7. CASE SubmitDone \/ Leave \/ Snapshot \/ TermGroups \/ Drained
  <2>1. /\ ils # "dropped" /\ ils' # "dropped" /\ UNCHANGED <<batchId, cancelled, events>>
    BY <1>7 DEF SubmitDone, Leave, Snapshot, TermGroups, Drained, sharedVars
  <2>2. Owed' = Owed /\ Underway' = Underway
    BY <1>7 DEF SubmitDone, Leave, Snapshot, TermGroups, Drained, sharedVars, workerVars,
       Owed, Underway, Claimed, Task
  <2> QED BY <1>c, <2>1, <2>2 DEF Service!svars
<1> QED BY <1>1, <1>2, <1>3, <1>4, <1>5, <1>6, <1>7 DEF Ils

(* The ends of processes are not seen; a signal is.                        *)
LEMMA ServiceEnv ==
  ASSUME IInv, Env
  PROVE  Service!SNext \/ UNCHANGED Service!svars
<1>1. UNCHANGED <<batchId, cancelled, missing, next, events, workerVars, ils>>
  BY EnvFrames DEF IInv, ilsVars
<1>2. Owed' = Owed /\ Underway' = Underway /\ (ils = "dropped")' = (ils = "dropped")
  BY <1>1 DEF workerVars, Owed, Underway, Claimed, Task
<1>3. CASE Interrupt
  <2>1. Service!Signalled
    BY <1>1, <1>2, <1>3 DEF Interrupt, Service!Signalled
  <2> QED BY <2>1 DEF Service!SNext
<1>4. CASE ~Interrupt
  <2>1. UNCHANGED interrupted
    BY <1>4 DEF Env, Exit, Die, Terminated, vars, sharedVars
  <2> QED BY <1>1, <1>2, <2>1 DEF Service!svars
<1> QED BY <1>3, <1>4

(* The worker pool (src/eval.rs:177-414, 445-624) keeps the promises of    *)
(* EvalService: seen through the event channel, the claims of next_index,  *)
(* the checks before and during a run, submit, cancel_neighbor, reset and  *)
(* drop announce and report each run at most once and in that order, give  *)
(* up only what nobody wants, and let a result of a killed solver through  *)
(* only for work that was called off.                                      *)
THEOREM Refinement == Spec => ImplementsService
<1>1. Init => Service!SInit
  <2> SUFFICES ASSUME Init PROVE Service!SInit
    OBVIOUS
  <2>1. Owed = {} /\ Underway = {}
    <3>1. \A r \in Runs : ~Ahead(r)
      <4>1. \A r \in Runs : DOMAIN missing[Task(r)] = {}
        BY RunParts DEF Init
      <4> QED BY <4>1 DEF Ahead
    <3>2. \A w \in Workers : pc[w] \notin EarlyPCs /\ pc[w] \notin LatePCs
      BY DEF Init, EarlyPCs, LatePCs, ClaimedPCs
    <3>3. (\A r : r \notin Owed) /\ (\A r : r \notin Underway)
      BY <3>1, <3>2, Views
    <3> QED BY <3>3
  <2> QED BY <2>1 DEF Init, Service!SInit
<1>2. IInv /\ IInv' /\ SparesTheWanted /\ [Next]_vars => [Service!SNext]_(Service!svars)
  <2> SUFFICES ASSUME IInv, IInv', SparesTheWanted, [Next]_vars
               PROVE  Service!SNext \/ UNCHANGED Service!svars
    OBVIOUS
  <2>1. CASE \E w \in Workers : Worker(w)
    BY <2>1, ServiceWorker DEF IInv
  <2>2. CASE Ils
    BY <2>2, ServiceIls
  <2>3. CASE Env
    BY <2>3, ServiceEnv
  <2>4. CASE UNCHANGED vars
    BY <2>4 DEF vars, sharedVars, workerVars, ilsVars, Service!svars, Owed, Underway,
       Claimed, Task
  <2> QED BY <2>1, <2>2, <2>3, <2>4 DEF Next, Env
<1> QED BY <1>1, <1>2, Invariance, SparesInv, PTL DEF Spec, ImplementsService, Service!SSpec
=============================================================================
