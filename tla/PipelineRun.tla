---------------------------- MODULE PipelineRun ----------------------------
(***************************************************************************)
(* One pipeline run: the workflow graph it walks, the scheduler's jobs, its *)
(* stage assignments, review gates, spend reservations and dead letters.   *)
(*                                                                         *)
(* One action is one transaction, except the review timeout: it reads the  *)
(* gate without a lock and writes it back later, so a reviewer's decision  *)
(* may commit in between (TimeoutRead, TimeoutWrite).                      *)
(*                                                                         *)
(* An assignment is a row keyed by stage and attempt (its idempotency      *)
(* key); which worker holds it, and for how long, is the subject of        *)
(* StageLease.  Whether the workspace can afford a reservation, is over    *)
(* its concurrency limit or has a free worker depends on other runs and is *)
(* left open.  Sessions do not autoflush: a query sees what was flushed,   *)
(* not what the same handler has just assigned.                            *)
(***************************************************************************)
EXTENDS Integers, FiniteSets, FiniteSetsExt

CONSTANTS
    WorkStages,         \* stages a worker runs
    ReviewStages,       \* stages with is_review_gate
    Finals,             \* stages with is_terminal
    First,              \* the stage with the lowest ordinal
    OnSuccess,          \* targets of the on_success transitions of a stage
    OnApproved,         \* targets of the on_review_approved transitions
    OnRejected,         \* targets of the on_review_rejected transitions
    Released,           \* stages that only an approval leads to
    MaxAttempts,        \* WorkflowStage.max_attempts
    NoWorkerMaxRetries, \* NO_WORKER_MAX_RETRIES
    GateIds,            \* review_gates rows the model has room for
    MaxClicks,          \* bound on uses of the two dead-letter buttons
    BadKey              \* a job's ref_table that names no stage

Stages == WorkStages \cup ReviewStages \cup Finals

\* The three kinds of stage are disjoint, the workers' stages finitely many,
\* and transitions stay in the graph.
ASSUME GraphAssumption ==
    /\ First \in WorkStages
    /\ IsFiniteSet(WorkStages)
    /\ WorkStages \cap ReviewStages = {}
    /\ WorkStages \cap Finals = {}
    /\ ReviewStages \cap Finals = {}
    /\ OnSuccess \in [WorkStages -> SUBSET Stages]
    /\ OnApproved \in [ReviewStages -> SUBSET Stages]
    /\ OnRejected \in [ReviewStages -> SUBSET Stages]
    /\ BadKey \notin Stages

\* Released is closed: it holds the final stages, and the only transitions
\* into it from outside are those of an approval.
ASSUME ReleasedAssumption ==
    /\ Finals \subseteq Released /\ Released \subseteq Stages
    /\ First \notin Released
    /\ \A s \in WorkStages \ Released : OnSuccess[s] \cap Released = {}
    /\ \A s \in ReviewStages \ Released : OnRejected[s] \cap Released = {}

ASSUME BoundsAssumption ==
    /\ MaxAttempts \in Nat \ {0}
    /\ NoWorkerMaxRetries \in Nat \ {0}
    /\ MaxClicks \in Nat
    /\ IsFiniteSet(GateIds)

VARIABLES
    run,        \* pipeline_runs: status, pause_reason, current_stage
    jobs,       \* how many PENDING job_schedule rows of each kind there are
    rows,       \* stage_assignments by idempotency key
    gates,      \* review_gates, each with its REVIEW_TIMEOUT job
    reading,    \* gates a timeout handler has read and not yet written
    reserved,   \* stages with an open spend_reservations row
    dead,       \* PENDING dead_letter_jobs rows of this run
    decisions,  \* review_decisions: <<gate, approved>>
    started,    \* attempts that reached a worker: <<stage, attempt>>
    clicks      \* uses of retry_failed_jobs and clear_dead_letter_queue

vars == <<run, jobs, rows, gates, reading, reserved, dead, decisions, started, clicks>>

\* The largest attempt number: a dispatch that was put off raises it, and so
\* does each use of the retry button.
MaxNumber ==
    MaxClicks + (IF NoWorkerMaxRetries > MaxAttempts
                 THEN NoWorkerMaxRetries ELSE MaxAttempts)

Terminal == {"succeeded", "failed", "cancelled"}
OpenRow == {"pending", "inflight"}
RowKey == WorkStages \X (1 .. MaxNumber)
JobKey == [kind : {"stage", "retry"}, stage : WorkStages \cup {BadKey},
           attempt : 0 .. MaxNumber]
NoGate == [stage |-> First, status |-> "none", level |-> 0, timer |-> FALSE]

TypeOK ==
    /\ run \in [status : {"absent", "running", "paused"} \cup Terminal,
                pause  : {"none", "spend_hold", "review_gate"},
                stage  : Stages]
    /\ jobs \in [JobKey -> Nat]
    /\ rows \in [RowKey -> {"none", "completed", "failed", "cancelled"} \cup OpenRow]
    /\ gates \in [GateIds -> [stage  : Stages,
                              status : {"none", "awaiting", "approved", "rejected",
                                        "escalated", "timed_out"},
                              level  : {0, 1},
                              timer  : BOOLEAN]]
    /\ reading \in SUBSET GateIds
    /\ reserved \in SUBSET WorkStages
    /\ dead \in SUBSET [table   : {"pipeline_runs", "stage_assignments", "job_schedule"},
                        stage   : WorkStages \cup {BadKey},
                        attempt : 0 .. MaxNumber]
    /\ decisions \in SUBSET (GateIds \X BOOLEAN)
    /\ started \in SUBSET RowKey
    /\ clicks \in 0 .. MaxClicks

-----------------------------------------------------------------------------
(* Pieces of handlers. *)

Job(kind, s, n) == [kind |-> kind, stage |-> s, attempt |-> n]
DeadLetter(table, s, n) == [table |-> table, stage |-> s, attempt |-> n]

\* enqueue_stage.
EnqueueStage(s, n) ==
    [jobs EXCEPT ![Job(IF n = 0 THEN "stage" ELSE "retry", s, n)] = @ + 1]

Retire(j) == [jobs EXCEPT ![j] = @ - 1]

Awaiting == {g \in GateIds : gates[g].status = "awaiting"}
Unused == {g \in GateIds : gates[g].status = "none"}

\* Mutant: pause_for_review does not look for an earlier gate.
AlreadyAwaitingNever == FALSE

\* pause_for_review returns the gate that is awaiting, if there is one.
AlreadyAwaiting == Awaiting # {}

\* pause_for_review, gate row and timeout job.
OpenGate(gs, s) ==
    [gs EXCEPT ![CHOOSE g \in Unused : TRUE] =
        [stage |-> s, status |-> "awaiting", level |-> 0, timer |-> TRUE]]

\* _advance_or_finish from stage s along one of the matching targets, for a
\* handler that has already made the run r and the gates gs.  The search for
\* a gate that is still awaiting reads the flushed rows, gates.
AdvanceOrFinish(s, targets, r, gs) ==
    \/ \E t \in targets \cap Finals :
          /\ run' = [r EXCEPT !.stage = t, !.status = "succeeded"]
          /\ UNCHANGED jobs /\ gates' = gs
    \/ \E t \in targets \cap ReviewStages :
          \/ /\ AlreadyAwaiting
             /\ run' = [r EXCEPT !.stage = t]
             /\ UNCHANGED jobs /\ gates' = gs
          \/ /\ ~AlreadyAwaiting
             /\ Unused # {}
             /\ gates' = OpenGate(gs, t)
             /\ run' = [stage |-> t, status |-> "paused", pause |-> "review_gate"]
             /\ UNCHANGED jobs
    \/ \E t \in targets \cap WorkStages :
          /\ run' = [r EXCEPT !.stage = t]
          /\ jobs' = EnqueueStage(t, 0)
          /\ gates' = gs

\* _fail_run: the status, and every open reservation of the run released.
FailRun(r) ==
    /\ run' = [r EXCEPT !.status = "failed"]
    /\ reserved' = {}

\* Mutant: the kind of cap is stored where the reason of the pause belongs.
SpendRefusedWithKind(s) ==
    /\ run' = [run EXCEPT !.status = "paused", !.pause = "daily"]
    /\ reserved' = reserved \ {s}

\* reserve_spend for stage s, refused: a prior reservation of the stage is
\* gone and the run is on hold.
SpendRefused(s) ==
    /\ run' = [run EXCEPT !.status = "paused", !.pause = "spend_hold"]
    /\ reserved' = reserved \ {s}

-----------------------------------------------------------------------------
Init ==
    /\ run = [status |-> "absent", pause |-> "none", stage |-> First]
    /\ jobs = [j \in JobKey |-> 0]
    /\ rows = [k \in RowKey |-> "none"]
    /\ gates = [g \in GateIds |-> NoGate]
    /\ reading = {}
    /\ reserved = {}
    /\ dead = {}
    /\ decisions = {}
    /\ started = {}
    /\ clicks = 0

\* start_run.
StartRun ==
    /\ run.status = "absent"
    /\ run' = [run EXCEPT !.status = "running"]
    /\ jobs' = EnqueueStage(First, 0)
    /\ UNCHANGED <<rows, gates, reading, reserved, dead, decisions, started, clicks>>

\* Mutant: the job queued by start_run is not cancelled.
CreateContentJobOrphan ==
    /\ run.status = "absent"
    /\ \E t \in OnSuccess[First] \cap ReviewStages :
          /\ gates' = OpenGate(gates, t)
          /\ run' = [stage |-> t, status |-> "paused", pause |-> "review_gate"]
    /\ jobs' = EnqueueStage(First, 0)
    /\ UNCHANGED <<rows, reading, reserved, dead, decisions, started, clicks>>

\* create_content_job: the desk writes the draft itself, so one transaction
\* starts the run, reserves and commits the spend, succeeds the first stage,
\* cancels the job start_run queued, and insists on an awaiting gate.
CreateContentJob ==
    /\ run.status = "absent"
    /\ Unused # {}
    /\ \E t \in OnSuccess[First] \cap ReviewStages :
          /\ gates' = OpenGate(gates, t)
          /\ run' = [stage |-> t, status |-> "paused", pause |-> "review_gate"]
    /\ UNCHANGED <<jobs, rows, reading, reserved, dead, decisions, started, clicks>>

(* ---- scheduler.py: process_leased_job of a STAGE or RETRY job ---- *)

\* A job that names no stage makes the INSERT of its assignment fail, and the
\* exception rolls back the whole tick, every other job of the batch included.
TickRaises == /\ run.status = "running"
              /\ \E j \in JobKey : jobs[j] > 0 /\ j.stage = BadKey

\* BACKPRESSURE: put off under the next attempt number, or given up.
Backpressure(j) ==
    /\ jobs[j] > 0
    /\ IF j.attempt + 1 < NoWorkerMaxRetries
       THEN /\ jobs' = [Retire(j) EXCEPT ![[j EXCEPT !.attempt = @ + 1]] = @ + 1]
            /\ UNCHANGED <<rows, reserved, dead>>
       ELSE /\ j.stage # BadKey
            /\ jobs' = Retire(j)
            /\ reserved' = {}
            /\ rows' = [k \in RowKey |->
                          IF k[1] = j.stage /\ rows[k] \in OpenRow
                          THEN "cancelled" ELSE rows[k]]
            /\ dead' = dead \cup {DeadLetter("job_schedule", j.stage, j.attempt + 1)}
    /\ UNCHANGED <<run, gates, reading, decisions, started, clicks>>

\* SKIPPED: the run is over or waits for a reviewer.
Skipped(j) ==
    /\ jobs[j] > 0
    /\ run.status \in Terminal \/ (run.status = "paused" /\ run.pause # "spend_hold")
    /\ jobs' = Retire(j)
    /\ UNCHANGED <<run, rows, gates, reading, reserved, dead, decisions, started, clicks>>

\* The run is running and the tick will commit; job j is dispatched as the
\* assignment with key Key(j).
Dispatchable(j) == jobs[j] > 0 /\ run.status = "running" /\ ~TickRaises

Key(j) == <<j.stage, j.attempt + 1>>

\* IDEMPOTENT: there is an assignment under this key already.
Idempotent(j) ==
    /\ Dispatchable(j)
    /\ rows[Key(j)] # "none"
    /\ jobs' = Retire(j)
    /\ UNCHANGED <<run, rows, gates, reading, reserved, dead, decisions, started, clicks>>

\* DISPATCHED: a worker was free and the spend was reserved.
Dispatched(j) ==
    /\ Dispatchable(j)
    /\ rows[Key(j)] = "none"
    /\ jobs' = Retire(j)
    /\ rows' = [rows EXCEPT ![Key(j)] = "inflight"]
    /\ reserved' = reserved \cup {j.stage}
    /\ started' = started \cup {Key(j)}
    /\ UNCHANGED <<run, gates, reading, dead, decisions, clicks>>

\* NO_WORKER: the assignment waits to be claimed.
NoWorker(j) ==
    /\ Dispatchable(j)
    /\ rows[Key(j)] = "none"
    /\ jobs' = Retire(j)
    /\ rows' = [rows EXCEPT ![Key(j)] = "pending"]
    /\ UNCHANGED <<run, gates, reading, reserved, dead, decisions, started, clicks>>

\* SPEND_HOLD: the run is put on hold and the job stays queued.  A job of a
\* run already on hold changes nothing.
SpendHold(j) ==
    /\ Dispatchable(j)
    /\ rows[Key(j)] = "none"
    /\ SpendRefused(j.stage)
    /\ UNCHANGED <<jobs, rows, gates, reading, dead, decisions, started, clicks>>

(* ---- workers ---- *)

\* claim_assignment: the spend gate, then the row.  The run's status is not
\* looked at.
Claim(k) ==
    /\ rows[k] = "pending"
    /\ rows' = [rows EXCEPT ![k] = "inflight"]
    /\ reserved' = reserved \cup {k[1]}
    /\ started' = started \cup {k}
    /\ UNCHANGED <<run, jobs, gates, reading, dead, decisions, clicks>>

ClaimOverBudget(k) ==
    /\ rows[k] = "pending"
    /\ k[1] \notin reserved
    /\ SpendRefused(k[1])
    /\ UNCHANGED <<jobs, rows, gates, reading, dead, decisions, started, clicks>>

\* submit_result, success: the spend is committed and the run advances unless
\* it is over.
SubmitSuccess(k) ==
    /\ rows[k] = "inflight"
    /\ rows' = [rows EXCEPT ![k] = "completed"]
    /\ reserved' = reserved \ {k[1]}
    /\ IF run.status \in Terminal
       THEN UNCHANGED <<run, jobs, gates>>
       ELSE AdvanceOrFinish(k[1], OnSuccess[k[1]], run, gates)
    /\ UNCHANGED <<reading, dead, decisions, started, clicks>>

\* Mutants: one retry too many; a retry under the attempt number just used; a
\* retry queued twice.
MayRetryOnceMore(n) == n <= MaxAttempts

RetryJobSameAttempt(k) == EnqueueStage(k[1], k[2] - 1)

RetryJobTwice(k) == [EnqueueStage(k[1], k[2]) EXCEPT ![Job("stage", k[1], k[2])] = @ + 1]

\* handle_stage_failure: attempts are left, and the job of the next one.
MayRetry(n) == n < MaxAttempts

RetryJob(k) == EnqueueStage(k[1], k[2])

\* submit_result, failure: retried under the next attempt number while the
\* error is retryable and attempts are left, else the run fails.
SubmitFailure(k, retryable) ==
    /\ rows[k] = "inflight"
    /\ rows' = [rows EXCEPT ![k] = "failed"]
    /\ IF retryable /\ MayRetry(k[2])
       THEN /\ jobs' = RetryJob(k)
            /\ reserved' = reserved \ {k[1]}
            /\ UNCHANGED <<run, dead>>
       ELSE /\ dead' = dead \cup {DeadLetter("pipeline_runs", k[1], k[2])}
            /\ FailRun(run)
            /\ UNCHANGED jobs
    /\ UNCHANGED <<gates, reading, decisions, started, clicks>>

\* Mutants: a crash costs no attempt; the requeued row keeps its reservation.
RecoverFree(k) ==
    /\ rows[k] = "inflight"
    /\ rows' = [rows EXCEPT ![k] = "pending"]
    /\ reserved' = reserved \ {k[1]}
    /\ UNCHANGED <<run, jobs, gates, reading, dead, decisions, started, clicks>>

RecoverHolding(k) ==
    /\ rows[k] = "inflight" /\ k[2] < MaxAttempts
    /\ rows[<<k[1], k[2] + 1>>] = "none"
    /\ rows' = [rows EXCEPT ![k] = "none", ![<<k[1], k[2] + 1>>] = "pending"]
    /\ UNCHANGED <<run, jobs, gates, reading, reserved, dead, decisions, started, clicks>>

\* recover_assignment: requeued under the next key, or failed for good.  When
\* the next key is taken the UPDATE violates its unique constraint and the
\* sweep rolls back.
Recover(k) ==
    /\ rows[k] = "inflight"
    /\ IF k[2] + 1 > MaxAttempts
       THEN /\ rows' = [rows EXCEPT ![k] = "failed"]
            /\ dead' = dead \cup {DeadLetter("stage_assignments", k[1], k[2])}
            /\ IF run.status \in Terminal
               THEN UNCHANGED <<run, reserved>> ELSE FailRun(run)
       ELSE LET next == <<k[1], k[2] + 1>>
            IN  /\ rows[next] = "none"
                /\ rows' = [rows EXCEPT ![k] = "none", ![next] = "pending"]
                /\ reserved' = reserved \ {k[1]}
                /\ UNCHANGED <<run, dead>>
    /\ UNCHANGED <<jobs, gates, reading, decisions, started, clicks>>

(* ---- review gates ---- *)

\* submit_review_decision: the review_decisions row.
SubmitReviewDecision(g, approved) == decisions' = decisions \cup {<<g, approved>>}

\* resume_from_review: a rejection with no transition of its own fails the run,
\* every other decision sets it going along the transition.
ResumeFromReview(g, approved) ==
    LET s       == gates[g].stage
        targets == IF approved THEN OnApproved[s] ELSE OnRejected[s]
        decided == [gates EXCEPT ![g].status = IF approved THEN "approved" ELSE "rejected"]
        resumed == [run EXCEPT !.status = "running", !.pause = "none"]
    IN  \/ /\ ~approved /\ targets = {}
           /\ FailRun([run EXCEPT !.pause = "none"])
           /\ gates' = decided /\ UNCHANGED jobs
        \/ /\ approved /\ targets = {}
           /\ run' = resumed
           /\ gates' = decided /\ UNCHANGED <<jobs, reserved>>
        \/ /\ AdvanceOrFinish(s, targets, resumed, decided)
           /\ UNCHANGED reserved

\* decide_review_gate with the gate locked: the decision is recorded, its event
\* delivered and applied.  The relay catches an exception of the consumer, so
\* an approval with no transition to follow is kept all the same.
Decide(g, approved) ==
    /\ gates[g].status = "awaiting"
    /\ SubmitReviewDecision(g, approved)
    /\ ResumeFromReview(g, approved)
    /\ UNCHANGED <<rows, reading, dead, started, clicks>>

\* handle_review_timeout up to its test of the status: a gate that is no
\* longer awaiting ends the job.
TimeoutRead(g) ==
    /\ gates[g].timer /\ g \notin reading
    /\ \/ /\ gates[g].status # "awaiting"
          /\ ~TickRaises
          /\ gates' = [gates EXCEPT ![g].timer = FALSE]
          /\ UNCHANGED reading
       \/ /\ gates[g].status = "awaiting"
          /\ reading' = reading \cup {g}
          /\ UNCHANGED gates
    /\ UNCHANGED <<run, jobs, rows, reserved, dead, decisions, started, clicks>>

\* Mutant: a gate nobody decides is approved by its timeout.
TimeoutWriteApproving(g) ==
    /\ g \in reading
    /\ reading' = reading \ {g}
    /\ AdvanceOrFinish(gates[g].stage, OnApproved[gates[g].stage],
                       [run EXCEPT !.status = "running", !.pause = "none"],
                       [gates EXCEPT ![g].status = "approved"])
    /\ UNCHANGED <<rows, reserved, dead, decisions, started, clicks>>

\* The rest of handle_review_timeout, for a gate that was awaiting when read.
\* Its second branch, for a gate escalated before, is never reached: such a
\* gate is not awaiting.
TimeoutWrite(g) ==
    /\ g \in reading
    /\ ~TickRaises
    /\ reading' = reading \ {g}
    /\ IF gates[g].level = 0
       THEN /\ gates' = [gates EXCEPT ![g].status = "escalated", ![g].level = 1]
            /\ UNCHANGED <<run, reserved>>
       ELSE /\ gates' = [gates EXCEPT ![g].status = "timed_out", ![g].timer = FALSE]
            /\ FailRun(run)
    /\ UNCHANGED <<jobs, rows, dead, decisions, started, clicks>>

(* ---- operators ---- *)

\* retry_failed_jobs.  A dead letter of the run is requeued under its job_type,
\* "stage:<key>", which names no stage; one of an assignment under the stage;
\* one of a job is passed over.  Then every failed assignment is requeued too,
\* unless a retry was queued before: the jobs just added are not flushed.
RequeuedAs(d) ==
    Job("retry", IF d.table = "pipeline_runs" THEN BadKey ELSE d.stage, d.attempt)

RetryFailedJobs ==
    LET entries  == {d \in dead : d.table # "job_schedule"}
        retries  == {j \in JobKey : j.kind = "retry" /\ jobs[j] > 0}
        failed   == {k \in RowKey : retries = {} /\ rows[k] = "failed"}
        added(j) == Cardinality({d \in entries : RequeuedAs(d) = j})
                    + Cardinality({k \in failed : Job("retry", k[1], k[2]) = j})
    IN  /\ run.status # "absent"
        /\ clicks < MaxClicks
        /\ clicks' = clicks + 1
        /\ dead' = dead \ entries
        /\ IF run.status \in {"succeeded", "cancelled"} \/ (entries = {} /\ failed = {})
           THEN UNCHANGED <<run, jobs>>
           ELSE /\ jobs' = [j \in JobKey |-> jobs[j] + added(j)]
                /\ run' = IF run.status = "failed"
                          THEN [run EXCEPT !.status = "running"] ELSE run
        /\ UNCHANGED <<rows, gates, reading, reserved, decisions, started>>

\* clear_dead_letter_queue.
ClearDeadLetterQueue ==
    /\ dead # {}
    /\ clicks < MaxClicks
    /\ clicks' = clicks + 1
    /\ dead' = {}
    /\ UNCHANGED <<run, jobs, rows, gates, reading, reserved, decisions, started>>

\* cancel_run: open assignments and reservations go, queued jobs and gates stay.
CancelRun ==
    /\ run.status \notin Terminal \cup {"absent"}
    /\ run' = [run EXCEPT !.status = "cancelled"]
    /\ rows' = [k \in RowKey |-> IF rows[k] \in OpenRow THEN "cancelled" ELSE rows[k]]
    /\ reserved' = {}
    /\ UNCHANGED <<jobs, gates, reading, dead, decisions, started, clicks>>

-----------------------------------------------------------------------------
ProcessJob ==
    \E j \in JobKey :
        \/ Backpressure(j)
        \/ Skipped(j)
        \/ Idempotent(j)
        \/ Dispatched(j)
        \/ NoWorker(j)
        \/ SpendHold(j)

ClaimRow == \E k \in RowKey : Claim(k) \/ ClaimOverBudget(k)

EndTenure ==
    \E k \in RowKey : \/ SubmitSuccess(k)
                      \/ \E retryable \in BOOLEAN : SubmitFailure(k, retryable)
                      \/ Recover(k)

Review ==
    \E g \in GateIds : \/ \E approved \in BOOLEAN : Decide(g, approved)
                       \/ TimeoutRead(g)
                       \/ TimeoutWrite(g)

Operator == RetryFailedJobs \/ ClearDeadLetterQueue \/ CancelRun

Next == StartRun \/ CreateContentJob \/ ProcessJob \/ ClaimRow \/ EndTenure
                 \/ Review \/ Operator

\* The scheduler keeps ticking (automation.py restarts its loop after an error)
\* and a job or a timeout that is due is eventually processed; a worker for the
\* stage keeps polling for claims; a tenure ends (StageLease, TenureEnds).
\* Nothing is assumed of reviewers and operators.
Fairness ==
    /\ WF_vars(ProcessJob)
    /\ WF_vars(ClaimRow)
    /\ WF_vars(EndTenure)
    /\ \A g \in GateIds : WF_vars(TimeoutRead(g)) /\ WF_vars(TimeoutWrite(g))

Spec == Init /\ [][Next]_vars /\ Fairness

-----------------------------------------------------------------------------
(* Properties. *)

Queued == {j \in JobKey : jobs[j] > 0}
Open == {k \in RowKey : rows[k] \in OpenRow}
InFlight == {k \in RowKey : rows[k] = "inflight"}
Approvals == {g \in GateIds : <<g, TRUE>> \in decisions}

\* Nothing past a review gate without a human: while no review_decisions row
\* approves, no job, assignment, gate or run stands at a stage that only an
\* approval leads to, so the run is not SUCCEEDED, whatever workers, timeouts,
\* retries of dead letters and cancellations do.
NothingReleasedUnapproved ==
    Approvals = {} =>
        /\ run.stage \notin Released /\ run.status # "succeeded"
        /\ \A j \in Queued : j.stage \notin Released
        /\ \A k \in RowKey : rows[k] # "none" => k[1] \notin Released
        /\ \A g \in Awaiting : gates[g].stage \notin Released

\* At most one gate of a run awaits a decision (pause_for_review reads it with
\* scalar_one_or_none, which raises on two).
OneGateAwaiting == \A g, h \in Awaiting : g = h

\* Until an operator uses a dead-letter button, the run has at most one thing going on:
\* one job, one open assignment or one awaiting gate.  Hence no result is
\* applied twice and the run advances once per stage.
OneToken ==
    clicks = 0 =>
        /\ \A j \in Queued : jobs[j] = 1
        /\ Cardinality(Queued) + Cardinality(Open) + Cardinality(Awaiting) <= 1

\* Until an operator uses a dead-letter button, a RUNNING run always has something
\* going on, at its current stage, or a dead letter says why not.
RunningRunMoves ==
    clicks = 0 /\ run.status = "running" =>
        \/ \E j \in Queued : j.stage = run.stage
        \/ \E k \in Open : k[1] = run.stage
        \/ \E d \in dead : d.table = "job_schedule" /\ d.stage = run.stage

\* Until an operator uses a dead-letter button, money is reserved exactly for the
\* stages a worker is working on: no failure, recovery, cancellation or
\* dead letter leaves budget held, and no work runs unreserved.
ReservedIffInFlight ==
    clicks = 0 => reserved = {k[1] : k \in InFlight}

\* "A stage can never start more than max_attempts times" (recovery.py), for
\* retries after failures, recoveries and dispatches put off taken together.
StageStartsBounded ==
    clicks = 0 =>
        \A s \in WorkStages :
            Cardinality({n \in 1 .. MaxNumber : <<s, n>> \in started}) <= MaxAttempts

\* No attempt reaches a worker twice: an assignment that starts was not started
\* under the same stage and attempt number before.
NoRestart ==
    [][\A k \in RowKey :
          clicks = 0 /\ rows[k] # "inflight" /\ rows'[k] = "inflight" => k \notin started]_vars

\* How many things are going on: queued jobs, open assignments, awaiting gates.
GoingOn ==
    MapThenSumSet(LAMBDA j : jobs[j], JobKey) + Cardinality(Open) + Cardinality(Awaiting)

\* However often the dead-letter buttons were used and whatever workers, timeouts,
\* reviewers and recoveries do at once, only retry_failed_jobs adds to what is
\* going on in a run: a job that is processed, a result that is applied and a
\* gate that is decided each lead to one next thing at most.
OnlyRetriesAddWork ==
    [][run.status # "absent" /\ ~RetryFailedJobs => GoingOn' <= GoingOn]_vars

\* A run that is going on comes to its end, to a gate or to a spend hold, or a
\* dead letter is left for an operator: neither results nor the dispatches put
\* off keep it going for ever.
RunSettles ==
    (run.status = "running") ~> (run.status # "running" \/ dead # {} \/ clicks > 0)

(* What the code's comments promise of gates and jobs. *)

\* "already decided - stale timeout, no-op" (controller.py, handle_review_timeout):
\* a decided gate keeps its decision.
DecisionStands ==
    [][\A g \in GateIds :
          gates[g].status \in {"approved", "rejected"} =>
              gates'[g].status = gates[g].status]_vars

\* "Re-arm a second, longer timeout before falling through to a terminal
\* decision" (controller.py, handle_review_timeout): a run whose gate was escalated
\* does not stay paused at it for ever.
EscalationEnds ==
    \A g \in GateIds :
        (gates[g].status = "escalated" /\ run.status = "paused" /\ run.stage = gates[g].stage)
            ~> (run.status # "paused")
=============================================================================
