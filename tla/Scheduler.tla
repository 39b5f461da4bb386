------------------------------ MODULE Scheduler ------------------------------
(***************************************************************************)
(* The parallel evaluation scheduler of src/eval.rs: a pool of worker      *)
(* threads that run solver processes, the queue of work batches, the event *)
(* channel back to the ILS thread, and the two ways the ILS thread calls   *)
(* work off: reset (a whole batch) and cancel_neighbor (one neighbour).    *)
(*                                                                         *)
(* A task is <<batch_id, neighbor_id>>; a run is <<batch_id, neighbor_id,  *)
(* instance>>: one solver call, and also the name of its process, because  *)
(* process ids are taken to be fresh.  Every read and write of a variable  *)
(* that two threads share is a step of its own.                            *)
(***************************************************************************)
EXTENDS Naturals, Sequences, FiniteSets

CONSTANTS
  Workers,       \* the worker threads
  Neighbours,    \* the neighbor_ids of a batch
  Instances,     \* the active problem instances
  InstanceLists,     \* the lists missing_indices can name, in instance order
  MaxBatch,      \* bound of the model: the last batch_id a submit may get
  MayInterrupt   \* bound of the model: whether a signal may arrive

ASSUME BoundsAssumption == MaxBatch \in Nat /\ MayInterrupt \in BOOLEAN

ASSUME NeighboursAssumption == IsFiniteSet(Neighbours)

ASSUME WorkersAssumption == IsFiniteSet(Workers) /\ Workers # {}

(* A task never lists an instance twice: EvalTask.instances pairs distinct *)
(* database ids with paths, and missing_indices is filled in that order.   *)
ASSUME InstanceListsAssumption ==
  \A m \in InstanceLists :
    /\ m \in Seq(Instances)
    /\ \A j, k \in DOMAIN m : m[j] = m[k] => j = k

Batches == 1 .. MaxBatch
Tasks   == Batches \X Neighbours
Runs    == Batches \X Neighbours \X Instances

NoTask == <<>>

VARIABLES
  batchId,     \* Scheduler::batch_id
  cancelled,   \* Scheduler::cancelled_neighbors
  workQ,       \* the work channel: one handle of a task per worker slot
  missing,     \* WorkBatch::missing_indices of each task, as instances
  next,        \* WorkBatch::next_index, shared by all handles of a task
  events,      \* the event channel, oldest first
  active,      \* active_process_groups
  interrupted, \* the flag the signal handler sets
  proc,        \* the process of each run
  pc,          \* where each worker thread stands
  handle,      \* the task a worker holds a handle of
  index,       \* the index it claimed
  outcome,     \* the status of the run it has just collected
  reported,    \* history: the runs a Completed was sent for
  ils,         \* where the ILS thread stands
  toOffer,     \* the neighbours submit has still to enqueue
  target,      \* what the ILS thread is terminating
  victims      \* the process groups it found under the lock

sharedVars == <<batchId, cancelled, workQ, missing, next, active, interrupted>>
workerVars == <<pc, handle, index, outcome>>
ilsVars    == <<ils, toOffer, target, victims>>
vars == <<sharedVars, events, proc, workerVars, reported, ilsVars>>

-----------------------------------------------------------------------------
Dispatched(r) == [kind |-> "Dispatched", run |-> r]

(* killed is a history field: the process was ended by a signal.  The code *)
(* cannot tell, the properties can.                                        *)
Completed(r, st, fromSolver, k) ==
  [kind |-> "Completed", run |-> r, status |-> st, cacheable |-> fromSolver,
   killed |-> k]

Statuses == {"line", "UNKNOWN"}

Events ==
  [kind : {"Dispatched"}, run : Runs] \cup
  [kind : {"Completed"}, run : Runs, status : Statuses,
   cacheable : BOOLEAN, killed : BOOLEAN]

Task(r) == <<r[1], r[2]>>

Listed(t) == {missing[t][k] : k \in DOMAIN missing[t]}

(* The run a worker has claimed: missing_indices.get(index).               *)
Claimed(w) == <<handle[w][1], handle[w][2], missing[handle[w]][index[w] + 1]>>

Live == {"running", "termed", "killing"}
Ended == {"exited", "killed"}

Stale(t) == t[1] # batchId

(* What the poll loop of run_wrapper_process looks for: nobody wants the   *)
(* result of this task any more.                                           *)
Unwanted(t) == interrupted \/ Stale(t) \/ t \in cancelled

(* A signal to a process group: nothing happens to one that has ended.     *)
Signal(procs, sig) ==
  proc' = [r \in Runs |->
             IF r \in procs /\ proc[r] \in Live /\ proc[r] # "killing"
             THEN sig ELSE proc[r]]

(* Mutant: the channel hands events over in the wrong order.               *)
SendInFront(es) == events' = IF ils = "dropped" THEN events ELSE es \o events

(* A send fails silently once the receiver is gone with the Scheduler.     *)
Send(es) == events' = IF ils = "dropped" THEN events ELSE events \o es

Goto(w, l) == pc' = [pc EXCEPT ![w] = l]

-----------------------------------------------------------------------------
Init ==
  /\ batchId = 0
  /\ cancelled = {}
  /\ workQ = <<>>
  /\ missing = [t \in Tasks |-> <<>>]
  /\ next = [t \in Tasks |-> 0]
  /\ events = <<>>
  /\ active = {}
  /\ interrupted = FALSE
  /\ proc = [r \in Runs |-> "none"]
  /\ pc = [w \in Workers |-> "recv"]
  /\ handle = [w \in Workers |-> NoTask]
  /\ index = [w \in Workers |-> 0]
  /\ outcome = [w \in Workers |-> "none"]
  /\ reported = {}
  /\ ils = "idle"
  /\ toOffer = {}
  /\ target = [kind |-> "none"]
  /\ victims = {}

-----------------------------------------------------------------------------
(* The worker threads.                                                     *)

(* Back to work_rx.recv(); the handle and everything claimed is dropped.   *)
DropHandle(w) ==
  /\ Goto(w, "recv")
  /\ handle' = [handle EXCEPT ![w] = NoTask]
  /\ index' = [index EXCEPT ![w] = 0]
  /\ outcome' = [outcome EXCEPT ![w] = "none"]

Receive(w) ==
  /\ pc[w] = "recv"
  /\ workQ # <<>>
  /\ handle' = [handle EXCEPT ![w] = Head(workQ)]
  /\ workQ' = Tail(workQ)
  /\ Goto(w, "stale")
  /\ UNCHANGED <<batchId, cancelled, missing, next, active, interrupted, events,
                 proc, index, outcome, reported, ilsVars>>

(* recv fails once the sender is dropped and the queue is empty.           *)
Retire(w) ==
  /\ pc[w] = "recv"
  /\ workQ = <<>>
  /\ ils = "dropped"
  /\ Goto(w, "exit")
  /\ UNCHANGED <<sharedVars, events, proc, handle, index, outcome, reported,
                 ilsVars>>

CheckHandle(w) ==
  /\ pc[w] = "stale"
  /\ IF Stale(handle[w])
     THEN DropHandle(w)
     ELSE Goto(w, "claim") /\ UNCHANGED <<handle, index, outcome>>
  /\ UNCHANGED <<sharedVars, events, proc, reported, ilsVars>>

(* Mutant: the shared counter is read but not advanced.                    *)
ClaimedNextStuck(w) == next' = next

ClaimedNext(w) == next' = [next EXCEPT ![handle[w]] = @ + 1]

Claim(w) ==
  /\ pc[w] = "claim"
  /\ ClaimedNext(w)
  /\ IF next[handle[w]] < Len(missing[handle[w]])
     THEN /\ index' = [index EXCEPT ![w] = next[handle[w]]]
          /\ Goto(w, "checkBatch")
          /\ UNCHANGED <<handle, outcome>>
     ELSE DropHandle(w)
  /\ UNCHANGED <<batchId, cancelled, workQ, missing, active, interrupted, events,
                 proc, reported, ilsVars>>

CheckBatch(w) ==
  /\ pc[w] = "checkBatch"
  /\ IF Stale(handle[w])
     THEN DropHandle(w)
     ELSE Goto(w, "checkCancelled") /\ UNCHANGED <<handle, index, outcome>>
  /\ UNCHANGED <<sharedVars, events, proc, reported, ilsVars>>

CheckCancelled(w) ==
  /\ pc[w] = "checkCancelled"
  /\ IF handle[w] \in cancelled
     THEN DropHandle(w)
     ELSE Goto(w, "announce") /\ UNCHANGED <<handle, index, outcome>>
  /\ UNCHANGED <<sharedVars, events, proc, reported, ilsVars>>

Announce(w) ==
  /\ pc[w] = "announce"
  /\ Send(<<Dispatched(Claimed(w))>>)
  /\ Goto(w, "spawn")
  /\ UNCHANGED <<sharedVars, proc, handle, index, outcome, reported, ilsVars>>

Spawn(w) ==
  /\ pc[w] = "spawn"
  /\ proc' = [proc EXCEPT ![Claimed(w)] = "running"]
  /\ Goto(w, "register")
  /\ UNCHANGED <<sharedVars, events, handle, index, outcome, reported, ilsVars>>

(* spawn()? failed: run_solver_inner turns the error into an UNKNOWN.      *)
SpawnFails(w) ==
  /\ pc[w] = "spawn"
  /\ outcome' = [outcome EXCEPT ![w] = "UNKNOWN"]
  /\ Goto(w, "report")
  /\ UNCHANGED <<sharedVars, events, proc, handle, index, reported, ilsVars>>

Register(w) ==
  /\ pc[w] = "register"
  /\ active' = active \cup {Claimed(w)}
  /\ Goto(w, "poll")
  /\ UNCHANGED <<batchId, cancelled, workQ, missing, next, interrupted, events,
                 proc, handle, index, outcome, reported, ilsVars>>

(* Mutant: the loop leaves an unwanted child without terminating it.       *)
PollAbandons(w) ==
  /\ pc[w] = "poll"
  /\ Goto(w, IF interrupted \/ Stale(handle[w]) THEN "release" ELSE "pollCancelled")
  /\ UNCHANGED <<sharedVars, events, proc, handle, index, outcome, reported,
                 ilsVars>>

(* Mutant: the loop relies on reset to find the children of a stale batch. *)
PollIgnoresBatch(w) ==
  /\ pc[w] = "poll"
  /\ Goto(w, IF interrupted THEN "terminate" ELSE "pollCancelled")
  /\ UNCHANGED <<sharedVars, events, proc, handle, index, outcome, reported,
                 ilsVars>>

(* interrupted and batch_id are read one after the other, but the one is   *)
(* only ever set and the other only grows: a worker that found neither a   *)
(* reason to stop would have found none had it read both at the first.     *)
Poll(w) ==
  /\ pc[w] = "poll"
  /\ Goto(w, IF interrupted \/ Stale(handle[w]) THEN "terminate"
             ELSE "pollCancelled")
  /\ UNCHANGED <<sharedVars, events, proc, handle, index, outcome, reported,
                 ilsVars>>

(* A submit in between may have cleared the set.                           *)
PollCancelled(w) ==
  /\ pc[w] = "pollCancelled"
  /\ Goto(w, IF handle[w] \in cancelled THEN "terminate" ELSE "tryWait")
  /\ UNCHANGED <<sharedVars, events, proc, handle, index, outcome, reported,
                 ilsVars>>

(* What the run printed is read when it is collected: a run may crash      *)
(* without a result line, and one ended by a signal may have printed one.  *)
TryWait(w) ==
  /\ pc[w] = "tryWait"
  /\ IF proc[Claimed(w)] \in Ended
     THEN /\ \E st \in Statuses : outcome' = [outcome EXCEPT ![w] = st]
          /\ Goto(w, "release")
     ELSE Goto(w, "poll") /\ UNCHANGED outcome
  /\ UNCHANGED <<sharedVars, events, proc, handle, index, reported, ilsVars>>

(* terminate_child_process_group: TERM, 100 ms, KILL if needed, wait.  A   *)
(* process here is the leader of its group, the only one the code looks at *)
(* before it sends KILL and waits.                                         *)
Terminate(w) ==
  /\ pc[w] = "terminate"
  /\ Signal({Claimed(w)}, "termed")
  /\ Goto(w, "reap")
  /\ UNCHANGED <<sharedVars, events, handle, index, outcome, reported, ilsVars>>

Escalate(w) ==
  /\ pc[w] = "reap"
  /\ proc[Claimed(w)] \in Live \ {"killing"}
  /\ Signal({Claimed(w)}, "killing")
  /\ UNCHANGED <<sharedVars, events, workerVars, reported, ilsVars>>

Reap(w) ==
  /\ pc[w] = "reap"
  /\ proc[Claimed(w)] \in Ended
  /\ Goto(w, "release")
  /\ UNCHANGED <<sharedVars, events, proc, handle, index, outcome, reported,
                 ilsVars>>

(* Mutant: a run that was called off is reported like any other.           *)
ReleaseReports(w) ==
  /\ pc[w] = "release"
  /\ active' = active \ {Claimed(w)}
  /\ Goto(w, "report")
  /\ UNCHANGED <<batchId, cancelled, workQ, missing, next, interrupted, events,
                 proc, handle, index, outcome, reported, ilsVars>>

Release(w) ==
  /\ pc[w] = "release"
  /\ active' = active \ {Claimed(w)}
  /\ IF outcome[w] = "none"
     THEN DropHandle(w)
     ELSE Goto(w, "report") /\ UNCHANGED <<handle, index, outcome>>
  /\ UNCHANGED <<batchId, cancelled, workQ, missing, next, interrupted, events,
                 proc, reported, ilsVars>>

Report(w) ==
  /\ pc[w] = "report"
  /\ Send(<<Completed(Claimed(w), outcome[w], TRUE,
                      proc[Claimed(w)] = "killed")>>)
  /\ reported' = reported \cup {Claimed(w)}
  /\ outcome' = [outcome EXCEPT ![w] = "none"]
  /\ index' = [index EXCEPT ![w] = 0]
  /\ Goto(w, "claim")
  /\ UNCHANGED <<sharedVars, proc, handle, ilsVars>>

Worker(w) ==
  \/ Receive(w) \/ Retire(w) \/ CheckHandle(w) \/ Claim(w) \/ CheckBatch(w)
  \/ CheckCancelled(w) \/ Announce(w) \/ Spawn(w) \/ SpawnFails(w)
  \/ Register(w) \/ Poll(w) \/ PollCancelled(w) \/ TryWait(w) \/ Terminate(w)
  \/ Escalate(w) \/ Reap(w) \/ Release(w) \/ Report(w)

-----------------------------------------------------------------------------
(* The solver processes and the signal handler.                            *)

Exit(r) ==
  /\ proc[r] \in {"running", "termed"}
  /\ proc' = [proc EXCEPT ![r] = "exited"]
  /\ UNCHANGED <<sharedVars, events, workerVars, reported, ilsVars>>

Die(r) ==
  /\ proc[r] \in {"termed", "killing"}
  /\ proc' = [proc EXCEPT ![r] = "killed"]
  /\ UNCHANGED <<sharedVars, events, workerVars, reported, ilsVars>>

Interrupt ==
  /\ MayInterrupt
  /\ ~interrupted
  /\ interrupted' = TRUE
  /\ UNCHANGED <<batchId, cancelled, workQ, missing, next, active, events, proc,
                 workerVars, reported, ilsVars>>

-----------------------------------------------------------------------------
(* The ILS thread: submit.                                                 *)

SubmitBump ==
  /\ ils = "idle"
  /\ batchId < MaxBatch
  /\ batchId' = batchId + 1
  /\ toOffer' \in (SUBSET Neighbours) \ {{}}
  /\ ils' = "clear"
  /\ UNCHANGED <<cancelled, workQ, missing, next, active, interrupted, events,
                 proc, workerVars, reported, target, victims>>

SubmitClear ==
  /\ ils = "clear"
  /\ cancelled' = {}
  /\ ils' = "offer"
  /\ UNCHANGED <<batchId, workQ, missing, next, active, interrupted, events, proc,
                 workerVars, reported, toOffer, target, victims>>

(* Mutant: one worker slot too few.                                        *)
SlotCountShort(m) ==
  IF Cardinality(Workers) < Len(m) THEN Cardinality(Workers) ELSE Len(m) - 1

SlotCount(m) ==
  IF Cardinality(Workers) < Len(m) THEN Cardinality(Workers) ELSE Len(m)

(* One task of the batch: its cache hits go to the event channel, the rest *)
(* to min(n_workers, misses) handles.  The sends are one step: no reader   *)
(* can tell a handle that is not yet sent from one not yet received.       *)
OfferTask(n, m, hits) ==
  LET t == <<batchId, n>> IN
  /\ ils = "offer"
  /\ n \in toOffer
  /\ missing' = [missing EXCEPT ![t] = m]
  /\ workQ' = workQ \o [k \in 1 .. SlotCount(m) |-> t]
  /\ Send([k \in DOMAIN hits |->
             Completed(<<batchId, n, hits[k]>>, "line", FALSE, FALSE)])
  /\ reported' = reported \cup {<<batchId, n, hits[k]>> : k \in DOMAIN hits}
  /\ toOffer' = toOffer \ {n}
  /\ UNCHANGED <<batchId, cancelled, next, active, interrupted, proc, workerVars,
                 ils, target, victims>>

(* Mutant: a hit is returned and enqueued as well.                         *)
PartitionOverlaps(m, hits) ==
  {hits[k] : k \in DOMAIN hits} \cup {m[k] : k \in DOMAIN m} = Instances

Partition(m, hits) ==
  /\ {hits[k] : k \in DOMAIN hits} \cap {m[k] : k \in DOMAIN m} = {}
  /\ {hits[k] : k \in DOMAIN hits} \cup {m[k] : k \in DOMAIN m} = Instances

Offer ==
  \E n \in toOffer : \E m, hits \in InstanceLists :
    Partition(m, hits) /\ OfferTask(n, m, hits)

SubmitDone ==
  /\ ils = "offer"
  /\ toOffer = {}
  /\ ils' = "open"
  /\ UNCHANGED <<sharedVars, events, proc, workerVars, reported, toOffer, target,
                 victims>>

(* The ILS thread: the event loop, cancel_neighbor, reset, drop.           *)

Take ==
  /\ ils \in {"open", "drain"}
  /\ events # <<>>
  /\ events' = Tail(events)
  /\ UNCHANGED <<sharedVars, proc, workerVars, reported, ilsVars>>

(* Mutant: cancel_neighbor kills what runs and leaves the task valid.      *)
CancelOnlyKills(n) ==
  /\ ils = "open"
  /\ <<batchId, n>> \notin cancelled
  /\ target' = [kind |-> "neighbour", task |-> <<batchId, n>>]
  /\ ils' = "snapshot"
  /\ UNCHANGED <<batchId, cancelled, workQ, missing, next, active, interrupted,
                 events, proc, workerVars, reported, toOffer, victims>>

CancelInsert(n) ==
  /\ ils = "open"
  /\ <<batchId, n>> \notin cancelled
  /\ cancelled' = cancelled \cup {<<batchId, n>>}
  /\ target' = [kind |-> "neighbour", task |-> <<batchId, n>>]
  /\ ils' = "snapshot"
  /\ UNCHANGED <<batchId, workQ, missing, next, active, interrupted, events, proc,
                 workerVars, reported, toOffer, victims>>

(* Mutant: reset kills the batch but leaves its id valid.                  *)
ResetBumpKeepsBatch(k) ==
  /\ batchId' = batchId
  /\ target' = [kind |-> k, batch |-> batchId]
  /\ ils' = "snapshot"
  /\ UNCHANGED <<cancelled, workQ, missing, next, active, interrupted, events,
                 proc, workerVars, reported, toOffer, victims>>

(* fetch_add returns the batch being invalidated.  Drop calls reset too.   *)
ResetBump(k) ==
  /\ batchId' = batchId + 1
  /\ target' = [kind |-> k, batch |-> batchId]
  /\ ils' = "snapshot"
  /\ toOffer' = {}
  /\ UNCHANGED <<cancelled, workQ, missing, next, active, interrupted, events,
                 proc, workerVars, reported, victims>>

Reset == ils = "open" /\ ResetBump("batch")

(* Mutant: dropping the Scheduler kills what runs and invalidates nothing. *)
DropOnlyKills ==
  /\ ils \in {"idle", "open"}
  /\ target' = [kind |-> "all"]
  /\ ils' = "snapshot"
  /\ UNCHANGED <<sharedVars, events, proc, workerVars, reported, toOffer, victims>>

(* An error of the database unwinds the ILS thread out of a submit, before *)
(* any of its tasks, or out of reading the channel.                        *)
Unwinding == (ils = "offer" /\ toOffer # {}) \/ ils \in {"open", "drain"}

Drop == (ils = "idle" \/ Unwinding) /\ ResetBump("drop")

(* A batch whose deadline has passed may be left without a reset.          *)
Leave ==
  /\ ils = "open"
  /\ ils' = "idle"
  /\ UNCHANGED <<sharedVars, events, proc, workerVars, reported, toOffer, target,
                 victims>>

Matches(r) ==
  CASE target.kind = "neighbour" -> Task(r) = target.task
    [] target.kind \in {"batch", "drop"} -> r[1] = target.batch
    [] OTHER -> TRUE

Snapshot ==
  /\ ils = "snapshot"
  /\ victims' = {r \in active : Matches(r)}
  /\ ils' = "term"
  /\ UNCHANGED <<sharedVars, events, proc, workerVars, reported, toOffer, target>>

TermGroups ==
  /\ ils = "term"
  /\ Signal(victims, "termed")
  /\ ils' = "kill"
  /\ UNCHANGED <<sharedVars, events, workerVars, reported, toOffer, target,
                 victims>>

(* After the KILL: a round goes on, a reset is followed by a drain, a drop *)
(* by one more pass over every group that is left.                         *)
KillGroups ==
  /\ ils = "kill"
  /\ Signal(victims, "killing")
  /\ victims' = {}
  /\ \/ target.kind = "neighbour" /\ ils' = "open" /\ target' = [kind |-> "none"]
     \/ target.kind = "batch" /\ ils' = "drain" /\ target' = [kind |-> "none"]
     \/ target.kind = "drop" /\ ils' = "snapshot" /\ target' = [kind |-> "all"]
     \/ target.kind = "all" /\ ils' = "dropped" /\ target' = [kind |-> "none"]
  /\ UNCHANGED <<sharedVars, events, workerVars, reported, toOffer>>

Drained ==
  /\ ils = "drain"
  /\ events = <<>>
  /\ ils' = "idle"
  /\ UNCHANGED <<sharedVars, events, proc, workerVars, reported, toOffer, target,
                 victims>>

Ils ==
  \/ SubmitBump \/ SubmitClear \/ Offer \/ SubmitDone \/ Take
  \/ \E n \in Neighbours : CancelInsert(n)
  \/ Reset \/ Drop \/ Leave \/ Snapshot \/ TermGroups \/ KillGroups \/ Drained

(* The program after the run: the Scheduler dropped, every thread gone.    *)
Terminated ==
  /\ ils = "dropped"
  /\ \A w \in Workers : pc[w] = "exit"
  /\ UNCHANGED vars

-----------------------------------------------------------------------------
Next ==
  \/ \E w \in Workers : Worker(w)
  \/ \E r \in Runs : Exit(r) \/ Die(r)
  \/ Interrupt
  \/ Ils
  \/ Terminated

Spec == Init /\ [][Next]_vars

(* Threads are scheduled fairly.  The ILS thread completes a call it has   *)
(* begun; nothing obliges it to begin one.  The system delivers SIGKILL;   *)
(* a solver is not assumed to end by itself.                               *)
Call == SubmitClear \/ Offer \/ SubmitDone \/ Snapshot \/ TermGroups \/ KillGroups

ThreadFairness ==
  /\ \A w \in Workers : WF_vars(Worker(w))
  /\ WF_vars(Call)
  /\ \A r \in Runs : WF_vars(proc[r] = "killing" /\ Die(r))

FairSpec == Spec /\ ThreadFairness

(* The wrapper contract of docs/reference/protocol.md: a call ends by      *)
(* itself, at its cutoff at the latest.  The scheduler has no watchdog.    *)
SolverFairness == \A r \in Runs : WF_vars(Exit(r) \/ Die(r))

-----------------------------------------------------------------------------
PCs == {"recv", "stale", "claim", "checkBatch", "checkCancelled", "announce",
        "spawn", "register", "poll", "pollCancelled", "tryWait", "terminate", "reap",
        "release", "report", "exit"}

ClaimedPCs == {"checkBatch", "checkCancelled", "announce", "spawn", "register",
               "poll", "pollCancelled", "tryWait", "terminate", "reap", "release",
               "report"}

IlsPCs == {"idle", "clear", "offer", "open", "snapshot", "term", "kill", "drain",
           "dropped"}

Targets ==
  [kind : {"none", "all"}] \cup [kind : {"neighbour"}, task : Tasks] \cup
  [kind : {"batch", "drop"}, batch : Nat]

(* The type of every variable.                                             *)
TypeOK ==
  /\ batchId \in Nat
  /\ cancelled \in SUBSET (Nat \X Neighbours)
  /\ workQ \in Seq(Tasks)
  /\ missing \in [Tasks -> Seq(Instances)]
  /\ next \in [Tasks -> Nat]
  /\ events \in Seq(Events)
  /\ active \in SUBSET Runs
  /\ interrupted \in BOOLEAN
  /\ proc \in [Runs -> {"none"} \cup Live \cup Ended]
  /\ pc \in [Workers -> PCs]
  /\ handle \in [Workers -> Tasks \cup {NoTask}]
  /\ index \in [Workers -> Nat]
  /\ outcome \in [Workers -> Statuses \cup {"none"}]
  /\ reported \in SUBSET Runs
  /\ ils \in IlsPCs
  /\ toOffer \in SUBSET Neighbours
  /\ target \in Targets
  /\ victims \in SUBSET Runs

(* A signal reaches only work that nobody wants: whatever reset,           *)
(* cancel_neighbor and the poll loops do to each other, a solver that is   *)
(* terminated belongs to a stale batch, to a cancelled neighbour or to an  *)
(* interrupted run, and still does whenever its end is looked at.          *)
KillsOnlyUnwanted ==
  \A r \in Runs :
    proc[r] \in {"termed", "killing", "killed"} => Unwanted(Task(r))

(* The worker that supervises a run: between spawn and the collected exit. *)
Supervises(w, r) ==
  /\ pc[w] \in {"register", "poll", "pollCancelled", "tryWait", "terminate", "reap"}
  /\ Claimed(w) = r

(* No solver runs that no worker will ever look at, and no two workers     *)
(* look after the same one.                                                *)
LiveIsSupervised ==
  \A r \in Runs : proc[r] \in Live =>
    \E w \in Workers :
      /\ Supervises(w, r)
      /\ \A v \in Workers : Supervises(v, r) => v = w

(* Handles of one task sit in several workers at once and share next_index;*)
(* still no instance is started twice for a neighbour, nor started when    *)
(* its result was a cache hit or is already on its way.                    *)
StartedOnce ==
  [][\A r \in Runs :
       proc'[r] = "running" /\ proc[r] # "running" =>
         proc[r] = "none" /\ r \notin reported]_vars

(* Each result is sent once: a neighbour never gets more results than it   *)
(* has instances, which is how NeighbourRound recognises a complete one.   *)
ReportedOnce ==
  /\ \A j, k \in DOMAIN events :
       /\ events[j].kind = "Completed"
       /\ events[k].kind = "Completed"
       /\ events[j].run = events[k].run
       => j = k
  /\ \A w \in Workers : pc[w] \in ClaimedPCs => Claimed(w) \notin reported

(* SchedulerEvent's promise: a Dispatched is seen before its Completed.    *)
DispatchedFirst ==
  \A j, k \in DOMAIN events :
    /\ events[j].kind = "Completed"
    /\ events[k].kind = "Dispatched"
    /\ events[j].run = events[k].run
    => k < j

(* A solver nobody wants is gone in the end, also one that was spawned or  *)
(* registered after reset or cancel_neighbor took its snapshot.  (Unwanted *)
(* work stays unwanted and an ended process stays ended: that none is left *)
(* infinitely often says that each of them ends.)                          *)
UnwantedDies ==
  []<>(\A r \in Runs : proc[r] \in Live => ~Unwanted(Task(r)))

(* Every instance that was enqueued gets its result, unless the work is    *)
(* called off: no handle, index or event is lost between the threads.      *)
(* Wrappers must end by themselves for it: there is no watchdog.           *)
WantedCompletes ==
  SolverFairness =>
    []<>(\A r \in Runs :
           r[3] \in Listed(Task(r)) => r \in reported \/ Unwanted(Task(r)))

(* Dropping the Scheduler stops it: all workers leave their loop and no    *)
(* solver is left behind, although Drop does not join the threads.         *)
DropQuiesces ==
  []<>(ils = "dropped" =>
         /\ \A w \in Workers : pc[w] = "exit"
         /\ \A r \in Runs : proc[r] \notin Live)

-----------------------------------------------------------------------------
(* The abstract service this scheduler implements.                         *)

(* Runs no worker has announced: beyond next_index, or claimed just now.   *)
Owed ==
  {r \in Runs : \E k \in DOMAIN missing[Task(r)] :
                  k > next[Task(r)] /\ missing[Task(r)][k] = r[3]} \cup
  {Claimed(w) : w \in {v \in Workers :
                         pc[v] \in {"checkBatch", "checkCancelled", "announce"}}}

Underway ==
  {Claimed(w) : w \in {v \in Workers :
     pc[v] \in ClaimedPCs \ {"checkBatch", "checkCancelled", "announce"}}}

Service == INSTANCE EvalService
             WITH owed <- Owed, running <- Underway, closed <- (ils = "dropped")

(* The worker pool keeps the promises of EvalService.                      *)
ImplementsService == Service!SSpec

-----------------------------------------------------------------------------
(* The inductive invariant behind the theorems of SchedulerProofs.         *)

(* Tasks submit has not enqueued yet: of a later batch, of the submission  *)
(* under way, or of a batch id that only a reset ever had.                 *)
Fresh(t) ==
  \/ t[1] > batchId
  \/ /\ t[1] = batchId
     /\ t[2] \in toOffer \/ target.kind \in {"batch", "drop", "all"}

FreshIsUntouched ==
  /\ \A t \in Tasks : Fresh(t) =>
       /\ missing[t] = <<>>
       /\ next[t] = 0
       /\ \A w \in Workers : handle[w] # t
       /\ \A k \in DOMAIN workQ : workQ[k] # t
  /\ \A r \in reported : ~Fresh(Task(r))
  /\ toOffer # {} => ils \in {"clear", "offer"}
  /\ target.kind # "none" <=> ils \in {"snapshot", "term", "kill"}
  /\ ils \in {"clear", "offer", "open"} \/ target.kind = "neighbour" =>
       batchId \in Batches

(* An index is claimed by one worker, and below the shared counter.        *)
ClaimsAreUnique ==
  /\ \A t \in Tasks : missing[t] = <<>> \/ missing[t] \in InstanceLists
  /\ \A w \in Workers :
       /\ pc[w] \notin {"recv", "exit"} => handle[w] \in Tasks
       /\ pc[w] \in ClaimedPCs =>
            /\ index[w] < Len(missing[handle[w]])
            /\ index[w] < next[handle[w]]
  /\ \A v, w \in Workers :
       /\ pc[v] \in ClaimedPCs
       /\ pc[w] \in ClaimedPCs
       /\ handle[v] = handle[w]
       /\ index[v] = index[w]
       => v = w

(* The run was handed out: its position is behind the shared counter.      *)
Taken(r) ==
  \E k \in DOMAIN missing[Task(r)] :
    k <= next[Task(r)] /\ missing[Task(r)][k] = r[3]

(* How the process of a run follows the worker that claimed it.            *)
ProcessFollowsWorker ==
  /\ \A r \in Runs : proc[r] # "none" => Taken(r)
  /\ \A r \in active : proc[r] # "none"
  /\ \A r \in Runs : proc[r] \in Live => \E w \in Workers : Supervises(w, r)
  /\ \A w \in Workers :
       /\ pc[w] \in {"checkBatch", "checkCancelled", "announce", "spawn"} =>
            proc[Claimed(w)] = "none"
       /\ pc[w] \in {"register", "poll", "pollCancelled", "tryWait", "terminate", "reap"} =>
            proc[Claimed(w)] # "none"
       /\ pc[w] \in {"release", "report"} => proc[Claimed(w)] \notin Live
       /\ pc[w] = "report" <=> outcome[w] # "none" /\ pc[w] # "release"

(* Whoever sends a signal has seen that the work is unwanted, and it stays *)
(* so: batch ids grow, and submit clears only cancellations of old batches.*)
SignalsAreJustified ==
  /\ \A t \in cancelled : t[1] <= batchId /\ (ils = "clear" => t[1] < batchId)
  /\ \A w \in Workers :
       pc[w] \in {"terminate", "reap"} => Unwanted(handle[w])
  /\ ils = "snapshot" =>
       /\ target.kind = "neighbour" => target.task \in cancelled
       /\ target.kind \in {"batch", "drop"} => target.batch < batchId
       /\ target.kind # "none"
  /\ \A r \in victims : Unwanted(Task(r)) /\ proc[r] # "none"
  /\ KillsOnlyUnwanted

(* A result leaves nothing of its run behind.                              *)
ReportedIsSpent ==
  /\ \A r \in reported : \A k \in DOMAIN missing[Task(r)] :
       missing[Task(r)][k] = r[3] => k <= next[Task(r)]
  /\ \A k \in DOMAIN events :
       events[k].kind = "Completed" => events[k].run \in reported
  /\ ReportedOnce
  /\ DispatchedFirst

IInv ==
  /\ TypeOK
  /\ FreshIsUntouched
  /\ ClaimsAreUnique
  /\ ProcessFollowsWorker
  /\ SignalsAreJustified
  /\ ReportedIsSpent
=============================================================================
