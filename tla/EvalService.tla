----------------------------- MODULE EvalService -----------------------------
(***************************************************************************)
(* What the scheduler of src/eval.rs promises the ILS thread, without      *)
(* threads, handles and processes: every run of the current batch is       *)
(* announced at most once and then reported at most once, in that order,   *)
(* on one FIFO channel; a run is given up only when nobody wants it; a     *)
(* result of a run that a signal cut short belongs to work that was called *)
(* off; and a cancellation is forgotten only when its batch is stale       *)
(* anyway.  Late events of stale batches and of cancelled neighbours do    *)
(* reach the channel: sorting them out is the reader's part.               *)
(***************************************************************************)
EXTENDS Naturals, Sequences

CONSTANTS
  Neighbours,    \* the neighbor_ids of a batch
  Instances,     \* the active problem instances
  InstanceLists  \* the sublists of the active instance list

VARIABLES
  batchId,     \* the current batch
  cancelled,   \* tasks called off within their batch
  interrupted, \* the process received a signal
  closed,      \* the scheduler was dropped: sends are lost
  owed,        \* runs submitted and not announced yet
  running,     \* runs announced and not reported yet
  events       \* the channel, oldest first

svars == <<batchId, cancelled, interrupted, closed, owed, running, events>>

AllRuns == Nat \X Neighbours \X Instances

Statuses == {"line", "UNKNOWN"}

Items(l)      == {l[k] : k \in DOMAIN l}
TaskOf(r)     == <<r[1], r[2]>>
IsStale(t)    == t[1] # batchId
CalledOff(t)  == IsStale(t) \/ t \in cancelled
NotWanted(t)  == interrupted \/ CalledOff(t)
Announcement(r) == [kind |-> "Dispatched", run |-> r]
Result(r, st, fromSolver, k) ==
  [kind |-> "Completed", run |-> r, status |-> st, cacheable |-> fromSolver,
   killed |-> k]
Deliver(es) == events' = IF closed THEN events ELSE events \o es

SInit ==
  /\ batchId = 0
  /\ cancelled = {}
  /\ interrupted = FALSE
  /\ closed = FALSE
  /\ owed = {}
  /\ running = {}
  /\ events = <<>>

-----------------------------------------------------------------------------
(* The calls of the ILS thread.                                            *)

(* submit and reset both begin by moving to a new batch id.                *)
NewBatch ==
  /\ batchId' = batchId + 1
  /\ UNCHANGED <<cancelled, interrupted, closed, owed, running, events>>

Forget ==
  /\ \A t \in cancelled : IsStale(t)
  /\ cancelled' = {}
  /\ UNCHANGED <<batchId, interrupted, closed, owed, running, events>>

(* One task of submit: the hits are reported at once, the misses are owed. *)
Accept(n, misses, hits) ==
  LET run(i) == <<batchId, n, i>> IN
  /\ Items(misses) \cap Items(hits) = {}
  /\ \A i \in Instances : run(i) \notin owed \cup running
  /\ owed' = owed \cup {run(i) : i \in Items(misses)}
  /\ Deliver([k \in DOMAIN hits |-> Result(run(hits[k]), "line", FALSE, FALSE)])
  /\ UNCHANGED <<batchId, cancelled, interrupted, closed, running>>

CallOff(n) ==
  /\ cancelled' = cancelled \cup {<<batchId, n>>}
  /\ UNCHANGED <<batchId, interrupted, closed, owed, running, events>>

ReadEvent ==
  /\ events # <<>>
  /\ events' = Tail(events)
  /\ UNCHANGED <<batchId, cancelled, interrupted, closed, owed, running>>

Close ==
  /\ ~closed
  /\ closed' = TRUE
  /\ UNCHANGED <<batchId, cancelled, interrupted, owed, running, events>>

-----------------------------------------------------------------------------
(* The workers, as far as the channel shows them.                          *)

Begin(r) ==
  /\ r \in owed
  /\ owed' = owed \ {r}
  /\ running' = running \cup {r}
  /\ Deliver(<<Announcement(r)>>)
  /\ UNCHANGED <<batchId, cancelled, interrupted, closed>>

(* A run cut short by a signal is reported only when it was called off: one *)
(* that is merely interrupted is given up by the worker that ends it.       *)
Finish(r, st, k) ==
  /\ r \in running
  /\ k => CalledOff(TaskOf(r))
  /\ running' = running \ {r}
  /\ Deliver(<<Result(r, st, TRUE, k)>>)
  /\ UNCHANGED <<batchId, cancelled, interrupted, closed, owed>>

GiveUp(r) ==
  /\ r \in owed \cup running
  /\ NotWanted(TaskOf(r))
  /\ owed' = owed \ {r}
  /\ running' = running \ {r}
  /\ UNCHANGED <<batchId, cancelled, interrupted, closed, events>>

Signalled ==
  /\ interrupted' = TRUE
  /\ UNCHANGED <<batchId, cancelled, closed, owed, running, events>>

SNext ==
  \/ NewBatch \/ Forget \/ ReadEvent \/ Close \/ Signalled
  \/ \E n \in Neighbours :
       \/ CallOff(n)
       \/ \E misses, hits \in InstanceLists : Accept(n, misses, hits)
  \/ \E r \in owed \cup running :
       \/ Begin(r) \/ GiveUp(r)
       \/ \E st \in Statuses, k \in BOOLEAN : Finish(r, st, k)

SSpec == SInit /\ [][SNext]_svars
=============================================================================
