---------------------------- MODULE StageAttempt ----------------------------
(***************************************************************************)
(* What the dispatcher, the claim path and recovery promise about a row of *)
(* stage_assignments, with leases, credentials, loads and clocks forgotten:*)
(* a row is queued, owned by exactly one worker under one attempt number,  *)
(* or done.  Ownership never passes from one worker to another directly;   *)
(* it goes back through the queue under the next attempt number, and only  *)
(* while attempts remain.  The scheduler may give a row up from either.    *)
(* A transaction may move several rows at once (a reaper recovers a batch),*)
(* each of them along this life cycle.                                     *)
(***************************************************************************)
EXTENDS Integers

CONSTANTS Assignments, Workers, NoWorker, MaxAttempts

VARIABLE row   \* row[a] = [phase, attempt, owner]

Absent == [phase |-> "absent", attempt |-> 1, owner |-> NoWorker]

Init == row = [a \in Assignments |-> Absent]

\* dispatch_stage with no worker to give the row to.
Create(r, s) ==
    /\ r.phase = "absent"
    /\ s.phase = "queued"
    /\ s.owner = NoWorker

\* dispatch_stage straight to a worker.
CreateOwned(r, s) ==
    /\ r.phase = "absent"
    /\ s.phase = "owned"
    /\ s.owner \in Workers

\* claim_assignment: the queued attempt starts.
Start(r, s) ==
    /\ r.phase = "queued"
    /\ s = [phase |-> "owned", attempt |-> r.attempt, owner |-> s.owner]
    /\ s.owner \in Workers

\* submit_result, recovery with no attempt left, or an exhausted dispatch.
Finish(r, s) ==
    /\ r.phase = "owned"
    /\ s = [phase |-> "done", attempt |-> r.attempt, owner |-> NoWorker]

\* recover_assignment with an attempt left.
Requeue(r, s) ==
    /\ r.phase = "owned"
    /\ r.attempt < MaxAttempts
    /\ s = [phase |-> "queued", attempt |-> r.attempt + 1, owner |-> NoWorker]

\* the exhausted dispatch cancels a row nobody has started.
Cancel(r, s) ==
    /\ r.phase = "queued"
    /\ s = [phase |-> "done", attempt |-> r.attempt, owner |-> NoWorker]

RowStep(r, s) ==
    \/ Create(r, s) \/ CreateOwned(r, s) \/ Start(r, s)
    \/ Finish(r, s) \/ Requeue(r, s) \/ Cancel(r, s)

Next == \A a \in Assignments : row'[a] = row[a] \/ RowStep(row[a], row'[a])

Spec == Init /\ [][Next]_row
=============================================================================
