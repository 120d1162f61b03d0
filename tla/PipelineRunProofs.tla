------------------------- MODULE PipelineRunProofs --------------------------
(***************************************************************************)
(* Theorems about PipelineRun, for every workflow graph, every limit and   *)
(* any number of gates and uses of the dead-letter buttons.                *)
(*                                                                         *)
(* Three inductive invariants, each on top of the one before.  RunInv is   *)
(* about rows of every kind by themselves: types, attempt numbers, gates.  *)
(* ReleaseInv follows the stages that only an approval leads to.  Token    *)
(* says what the one strand of a run nobody has retried is at: nothing, a  *)
(* queued job, an open assignment or an awaiting gate.  A fourth one,      *)
(* OrderInv, needs a workflow whose transitions lead forward.              *)
(*                                                                         *)
(* The last section is about runs that were retried: it counts what is     *)
(* going on, and only the retry button makes that more.                    *)
(***************************************************************************)
EXTENDS PipelineRun, SumTheorems, TLAPS, FiniteSetTheorems

-----------------------------------------------------------------------------
(* Types and attempt numbers. *)

RunRow == [status : {"absent", "running", "paused"} \cup Terminal,
           pause  : {"none", "spend_hold", "review_gate"},
           stage  : Stages]
RowTable == [RowKey -> {"none", "completed", "failed", "cancelled"} \cup OpenRow]
GateRow == [stage  : Stages,
            status : {"none", "awaiting", "approved", "rejected", "escalated", "timed_out"},
            level  : {0, 1},
            timer  : BOOLEAN]
DeadRow == [table   : {"pipeline_runs", "stage_assignments", "job_schedule"},
            stage   : WorkStages \cup {BadKey},
            attempt : 0 .. MaxNumber]

\* The attempt numbers a run uses without the retry button.
Tries == IF NoWorkerMaxRetries > MaxAttempts THEN NoWorkerMaxRetries ELSE MaxAttempts

\* Attempt numbers grow by one with each use of the retry button: a queued job
\* makes an assignment under the number after its own.
Numbered ==
    /\ \A j \in JobKey : jobs[j] > 0 => j.attempt < clicks + Tries
    /\ \A k \in RowKey : rows[k] # "none" => k[2] <= clicks + Tries
    /\ \A d \in dead : d.attempt <= clicks + Tries

\* A gate row stands for a review stage, and one that awaits a decision or is
\* being read by a timeout was not escalated before.
GateRows ==
    \A g \in GateIds :
        /\ gates[g].status # "none" \/ g \in reading => gates[g].stage \in ReviewStages
        /\ gates[g].status = "awaiting" \/ g \in reading => gates[g].level = 0

NoJobs(q) == \A j \in JobKey : q[j] = 0
NoRows(a) == \A k \in RowKey : a[k] \notin OpenRow
NoGates(gs) == \A g \in GateIds : gs[g].status # "awaiting"

\* A run that was not started has nothing.
NotBegun ==
    run.status = "absent" =>
        /\ run.stage = First /\ started = {}
        /\ NoJobs(jobs) /\ NoGates(gates) /\ reserved = {}
        /\ \A k \in RowKey : rows[k] = "none"

RunInv ==
    /\ TypeOK
    /\ IsFiniteSet(dead)
    /\ Numbered
    /\ GateRows
    /\ NotBegun

\* TypeOK by the rows it is about.
LEMMA TypeParts ==
    TypeOK <=> /\ run \in RunRow
               /\ jobs \in [JobKey -> Nat]
               /\ rows \in RowTable
               /\ gates \in [GateIds -> GateRow]
               /\ reading \in SUBSET GateIds
               /\ reserved \in SUBSET WorkStages
               /\ dead \in SUBSET DeadRow
               /\ decisions \in SUBSET (GateIds \X BOOLEAN)
               /\ started \in SUBSET RowKey
               /\ clicks \in 0 .. MaxClicks
  BY Zenon DEF TypeOK, RunRow, RowTable, GateRow, DeadRow

\* The same after a step.
LEMMA TypePartsNext ==
    TypeOK' <=> /\ run' \in RunRow
                /\ jobs' \in [JobKey -> Nat]
                /\ rows' \in RowTable
                /\ gates' \in [GateIds -> GateRow]
                /\ reading' \in SUBSET GateIds
                /\ reserved' \in SUBSET WorkStages
                /\ dead' \in SUBSET DeadRow
                /\ decisions' \in SUBSET (GateIds \X BOOLEAN)
                /\ started' \in SUBSET RowKey
                /\ clicks' \in 0 .. MaxClicks
  BY Zenon DEF TypeOK, RunRow, RowTable, GateRow, DeadRow

\* The bounds of attempt numbers.
LEMMA Numbers ==
    /\ Tries \in Nat /\ MaxNumber \in Nat
    /\ MaxNumber = MaxClicks + Tries
    /\ MaxAttempts \in Nat /\ NoWorkerMaxRetries \in Nat
    /\ 0 < MaxAttempts /\ MaxAttempts <= Tries
    /\ 0 < NoWorkerMaxRetries /\ NoWorkerMaxRetries <= Tries
    /\ MaxClicks \in Nat
  BY BoundsAssumption DEF Tries, MaxNumber

\* There are finitely many keys of assignments.
LEMMA RowKeyFinite == IsFiniteSet(RowKey)
  <1>1. IsFiniteSet(1 .. MaxNumber)
    BY Numbers, FS_Interval
  <1> QED BY <1>1, GraphAssumption, FS_Product DEF RowKey

\* A key is a stage and a number.
LEMMA RowKeyParts ==
    ASSUME NEW k \in RowKey
    PROVE  k[1] \in WorkStages /\ k[2] \in 1 .. MaxNumber /\ k = <<k[1], k[2]>>
  BY DEF RowKey

\* The columns of a job.
LEMMA JobParts ==
    ASSUME NEW j \in JobKey
    PROVE  /\ j.stage \in WorkStages \cup {BadKey} /\ j.attempt \in 0 .. MaxNumber
           /\ j.kind \in {"stage", "retry"}
  BY DEF JobKey

\* Jobs the handlers make are keys of the job table.
LEMMA JobInKeys ==
    ASSUME NEW s \in WorkStages \cup {BadKey}, NEW n \in 0 .. MaxNumber
    PROVE  /\ Job("retry", s, n) \in JobKey /\ Job("stage", s, n) \in JobKey
           /\ Job(IF n = 0 THEN "stage" ELSE "retry", s, n) \in JobKey
           /\ \A kind \in {"stage", "retry"} :
                  /\ Job(kind, s, n).stage = s /\ Job(kind, s, n).attempt = n
                  /\ Job(kind, s, n).kind = kind
  BY DEF Job, JobKey

\* A job added to the table, and one taken from it.
LEMMA JobAdded ==
    ASSUME NEW q \in [JobKey -> Nat], NEW j \in JobKey
    PROVE  /\ [q EXCEPT ![j] = @ + 1] \in [JobKey -> Nat]
           /\ \A i \in JobKey :
                [q EXCEPT ![j] = @ + 1][i] = IF i = j THEN q[j] + 1 ELSE q[i]
  OBVIOUS

\* A queue with one job less.
LEMMA JobTaken ==
    ASSUME NEW q \in [JobKey -> Nat], NEW j \in JobKey, q[j] > 0
    PROVE  /\ [q EXCEPT ![j] = @ - 1] \in [JobKey -> Nat]
           /\ \A i \in JobKey :
                [q EXCEPT ![j] = @ - 1][i] = IF i = j THEN q[j] - 1 ELSE q[i]
  <1>1. q[j] \in Nat /\ q[j] - 1 \in Nat
    OBVIOUS
  <1> QED BY <1>1

\* enqueue_stage and the retirement of a job, on the table of jobs.
LEMMA Enqueued ==
    ASSUME TypeOK, NEW s \in WorkStages \cup {BadKey}, NEW n \in 0 .. MaxNumber
    PROVE  /\ EnqueueStage(s, n) \in [JobKey -> Nat]
           /\ \E j \in JobKey :
                /\ j.stage = s /\ j.attempt = n
                /\ \A i \in JobKey :
                     EnqueueStage(s, n)[i] = IF i = j THEN jobs[j] + 1 ELSE jobs[i]
  <1> DEFINE j == Job(IF n = 0 THEN "stage" ELSE "retry", s, n)
  <1>1. j \in JobKey /\ j.stage = s /\ j.attempt = n
    BY JobInKeys
  <1>2. EnqueueStage(s, n) = [jobs EXCEPT ![j] = @ + 1]
    BY Zenon DEF EnqueueStage
  <1>3. jobs \in [JobKey -> Nat]
    BY TypeParts
  <1> HIDE DEF j
  <1> QED BY <1>1, <1>2, <1>3, JobAdded

(* One job of stage s and attempt n is added to the table q.               *)
Adds(j, s, n, q, q2) ==
  /\ j.stage = s /\ j.attempt = n
  /\ \A i \in JobKey : q2[i] = IF i = j THEN q[j] + 1 ELSE q[i]

\* That is what enqueue_stage does.
LEMMA EnqueueAdds ==
    ASSUME TypeOK, NEW s \in WorkStages \cup {BadKey}, NEW n \in 0 .. MaxNumber
    PROVE  \E j \in JobKey : Adds(j, s, n, jobs, EnqueueStage(s, n))
  BY Enqueued DEF Adds

\* start_run queues a job.
LEMMA FirstJob ==
    ASSUME TypeOK
    PROVE  \E j \in JobKey : EnqueueStage(First, 0)[j] > 0
  <1> DEFINE j == Job("stage", First, 0)
  <1>1. 0 \in 0 .. MaxNumber /\ First \in WorkStages \cup {BadKey}
    BY Numbers, GraphAssumption
  <1>2. j \in JobKey
    BY <1>1, JobInKeys
  <1>3. EnqueueStage(First, 0) = [jobs EXCEPT ![j] = @ + 1]
    BY DEF EnqueueStage
  <1>4. jobs \in [JobKey -> Nat]
    BY TypeParts
  <1> HIDE DEF j
  <1> QED BY <1>2, <1>3, <1>4

\* A job that was processed leaves the queue.
LEMMA Retired ==
    ASSUME TypeOK, NEW j \in JobKey, jobs[j] > 0
    PROVE  /\ Retire(j) \in [JobKey -> Nat]
           /\ \A i \in JobKey : Retire(j)[i] = IF i = j THEN jobs[j] - 1 ELSE jobs[i]
  <1>1. jobs \in [JobKey -> Nat]
    BY TypeParts
  <1> QED BY <1>1, JobTaken DEF Retire

\* pause_for_review fills one unused gate row and leaves the others alone.
NewGate(s) == [stage |-> s, status |-> "awaiting", level |-> 0, timer |-> TRUE]

\* Opening a gate uses a fresh identifier and changes no other gate.
LEMMA GateOpened ==
    ASSUME NEW gs \in [GateIds -> GateRow], NEW s \in Stages, Unused # {}
    PROVE  /\ OpenGate(gs, s) \in [GateIds -> GateRow]
           /\ \E x \in Unused :
                \A g \in GateIds : OpenGate(gs, s)[g] = IF g = x THEN NewGate(s) ELSE gs[g]
  <1> DEFINE x == CHOOSE g \in Unused : TRUE
  <1>1. x \in Unused /\ x \in GateIds
    BY Zenon DEF Unused
  <1>2. OpenGate(gs, s) = [gs EXCEPT ![x] = NewGate(s)]
    BY Zenon DEF OpenGate, NewGate
  <1>3. NewGate(s) \in GateRow
    BY DEF NewGate, GateRow
  <1> HIDE DEF x
  <1> QED BY <1>1, <1>2, <1>3

\* The ways _advance_or_finish goes on to a target: it finishes the run, finds
\* a gate awaiting and only moves on, opens a gate, or queues a stage.
Finishes(t, r, gs) ==
    /\ t \in Finals
    /\ run' = [r EXCEPT !.stage = t, !.status = "succeeded"]
    /\ jobs' = jobs /\ gates' = gs

PassesGate(t, r, gs) ==
    /\ t \in ReviewStages /\ Awaiting # {}
    /\ run' = [r EXCEPT !.stage = t]
    /\ jobs' = jobs /\ gates' = gs

OpensGate(t, gs) ==
    /\ t \in ReviewStages /\ Awaiting = {}
    /\ run' = [stage |-> t, status |-> "paused", pause |-> "review_gate"]
    /\ jobs' = jobs
    /\ \E x \in Unused :
          \A g \in GateIds : gates'[g] = IF g = x THEN NewGate(t) ELSE gs[g]

QueuesStage(t, r, gs) ==
    /\ t \in WorkStages
    /\ run' = [r EXCEPT !.stage = t]
    /\ gates' = gs
    /\ \E j \in JobKey :
          /\ j.stage = t /\ j.attempt = 0
          /\ \A i \in JobKey : jobs'[i] = IF i = j THEN jobs[j] + 1 ELSE jobs[i]

GoesOn(t, r, gs) ==
    Finishes(t, r, gs) \/ PassesGate(t, r, gs) \/ OpensGate(t, gs) \/ QueuesStage(t, r, gs)

\* _advance_or_finish keeps the types and goes on to one of the targets.
LEMMA Advance ==
    ASSUME TypeOK, NEW s, NEW targets, targets \subseteq Stages,
           NEW STATE r, r \in RunRow, NEW STATE gs, gs \in [GateIds -> GateRow],
           AdvanceOrFinish(s, targets, r, gs)
    PROVE  /\ run' \in RunRow /\ jobs' \in [JobKey -> Nat] /\ gates' \in [GateIds -> GateRow]
           /\ \E t \in targets : GoesOn(t, r, gs)
  <1>0. jobs \in [JobKey -> Nat]
    BY TypeParts
  <1>1. CASE \E t \in targets \cap Finals :
                /\ run' = [r EXCEPT !.stage = t, !.status = "succeeded"]
                /\ UNCHANGED jobs /\ gates' = gs
    <2> PICK t \in targets \cap Finals :
                /\ run' = [r EXCEPT !.stage = t, !.status = "succeeded"]
                /\ UNCHANGED jobs /\ gates' = gs
      BY <1>1
    <2>1. run' \in RunRow
      BY DEF RunRow, Terminal
    <2>2. GoesOn(t, r, gs)
      BY Zenon DEF GoesOn, Finishes
    <2> QED BY <1>0, <2>1, <2>2
  <1>2. CASE \E t \in targets \cap ReviewStages :
                /\ AlreadyAwaiting
                /\ run' = [r EXCEPT !.stage = t]
                /\ UNCHANGED jobs /\ gates' = gs
    <2> PICK t \in targets \cap ReviewStages :
                /\ AlreadyAwaiting
                /\ run' = [r EXCEPT !.stage = t]
                /\ UNCHANGED jobs /\ gates' = gs
      BY <1>2
    <2>1. run' \in RunRow
      BY DEF RunRow, Terminal
    <2>2. GoesOn(t, r, gs)
      BY Zenon DEF GoesOn, PassesGate, AlreadyAwaiting
    <2> QED BY <1>0, <2>1, <2>2
  <1>3. CASE \E t \in targets \cap ReviewStages :
                /\ ~AlreadyAwaiting
                /\ Unused # {}
                /\ gates' = OpenGate(gs, t)
                /\ run' = [stage |-> t, status |-> "paused", pause |-> "review_gate"]
                /\ UNCHANGED jobs
    <2> PICK t \in targets \cap ReviewStages :
                /\ ~AlreadyAwaiting
                /\ Unused # {}
                /\ gates' = OpenGate(gs, t)
                /\ run' = [stage |-> t, status |-> "paused", pause |-> "review_gate"]
                /\ UNCHANGED jobs
      BY <1>3
    <2>1. run' \in RunRow
      BY DEF RunRow, Terminal
    <2>2. t \in Stages
      OBVIOUS
    <2>3. /\ gates' \in [GateIds -> GateRow]
          /\ \E x \in Unused :
                \A g \in GateIds : gates'[g] = IF g = x THEN NewGate(t) ELSE gs[g]
      BY <2>2, GateOpened
    <2>4. GoesOn(t, r, gs)
      BY <2>3, Zenon DEF GoesOn, OpensGate, AlreadyAwaiting
    <2> QED BY <1>0, <2>1, <2>3, <2>4
  <1>4. CASE \E t \in targets \cap WorkStages :
                /\ run' = [r EXCEPT !.stage = t]
                /\ jobs' = EnqueueStage(t, 0)
                /\ gates' = gs
    <2> PICK t \in targets \cap WorkStages :
                /\ run' = [r EXCEPT !.stage = t]
                /\ jobs' = EnqueueStage(t, 0)
                /\ gates' = gs
      BY <1>4
    <2>1. run' \in RunRow
      BY DEF RunRow, Terminal
    <2>2. 0 \in 0 .. MaxNumber
      BY Numbers
    <2>3. /\ jobs' \in [JobKey -> Nat]
          /\ \E j \in JobKey :
               /\ j.stage = t /\ j.attempt = 0
               /\ \A i \in JobKey : jobs'[i] = IF i = j THEN jobs[j] + 1 ELSE jobs[i]
      BY <2>2, Enqueued
    <2>4. GoesOn(t, r, gs)
      BY <2>3, Zenon DEF GoesOn, QueuesStage
    <2> QED BY <2>1, <2>3, <2>4
  <1> QED
    <2>1. \/ \E t \in targets \cap Finals :
                /\ run' = [r EXCEPT !.stage = t, !.status = "succeeded"]
                /\ UNCHANGED jobs /\ gates' = gs
          \/ \E t \in targets \cap ReviewStages :
                /\ AlreadyAwaiting
                /\ run' = [r EXCEPT !.stage = t]
                /\ UNCHANGED jobs /\ gates' = gs
          \/ \E t \in targets \cap ReviewStages :
                /\ ~AlreadyAwaiting
                /\ Unused # {}
                /\ gates' = OpenGate(gs, t)
                /\ run' = [stage |-> t, status |-> "paused", pause |-> "review_gate"]
                /\ UNCHANGED jobs
          \/ \E t \in targets \cap WorkStages :
                /\ run' = [r EXCEPT !.stage = t]
                /\ jobs' = EnqueueStage(t, 0)
                /\ gates' = gs
      BY Zenon DEF AdvanceOrFinish
    <2> QED BY <1>1, <1>2, <1>3, <1>4, <2>1

-----------------------------------------------------------------------------
(* RunInv is inductive, one lemma per group of handlers. *)

\* What has a job, an assignment or a gate awaiting was started.
LEMMA Begun ==
    ASSUME RunInv
    PROVE  /\ \A j \in JobKey : jobs[j] > 0 => run.status # "absent"
           /\ \A k \in RowKey : rows[k] # "none" => run.status # "absent"
           /\ \A g \in GateIds : gates[g].status = "awaiting" => run.status # "absent"
  BY DEF RunInv, NotBegun, NoJobs, NoGates

\* Starting a run, by the API or by the content desk, keeps RunInv.
LEMMA StartInv ==
    ASSUME RunInv, StartRun \/ CreateContentJob PROVE RunInv'
  <1> USE DEF RunInv
  <1>0. /\ run \in RunRow /\ jobs \in [JobKey -> Nat] /\ gates \in [GateIds -> GateRow]
        /\ First \in WorkStages \cup {BadKey} /\ 0 \in 0 .. MaxNumber /\ First \in Stages
        /\ clicks \in Nat
    BY TypeParts, Numbers, GraphAssumption DEF Stages
  <1>1. CASE StartRun
    <2>1. run' \in RunRow /\ run'.status = "running"
      BY <1>0, <1>1 DEF StartRun, RunRow
    <2>2. PICK j \in JobKey :
            /\ j.stage = First /\ j.attempt = 0
            /\ \A i \in JobKey : jobs'[i] = IF i = j THEN jobs[j] + 1 ELSE jobs[i]
      BY <1>0, <1>1, Enqueued DEF StartRun
    <2>3. jobs' \in [JobKey -> Nat]
      BY <1>0, <1>1, Enqueued DEF StartRun
    <2>4. TypeOK'
      BY <2>1, <2>3, <1>1, TypeParts, TypePartsNext DEF StartRun
    <2>5. Numbered'
      <3>1. \A i \in JobKey : jobs'[i] > 0 => i.attempt < clicks' + Tries
        BY <1>0, <1>1, <2>2, Numbers DEF StartRun, Numbered
      <3> QED BY <1>1, <3>1 DEF StartRun, Numbered
    <2>6. GateRows'
      BY <1>1 DEF StartRun, GateRows
    <2>7. NotBegun'
      BY <2>1 DEF NotBegun
    <2> QED BY <1>1, <2>4, <2>5, <2>6, <2>7 DEF StartRun
  <1>2. CASE CreateContentJob
    <2>0. OnSuccess[First] \subseteq Stages
      BY GraphAssumption
    <2>1. PICK t \in OnSuccess[First] \cap ReviewStages :
            /\ gates' = OpenGate(gates, t)
            /\ run' = [stage |-> t, status |-> "paused", pause |-> "review_gate"]
      BY <1>2 DEF CreateContentJob
    <2>2. t \in Stages
      BY <2>0
    <2>3. run' \in RunRow
      BY <2>1, <2>2 DEF RunRow
    <2>4. Unused # {}
      BY <1>2 DEF CreateContentJob
    <2>5. gates' \in [GateIds -> GateRow]
      BY <1>0, <2>1, <2>2, <2>4, GateOpened
    <2>6. PICK x \in Unused :
            \A g \in GateIds : gates'[g] = IF g = x THEN NewGate(t) ELSE gates[g]
      BY <1>0, <2>1, <2>2, <2>4, GateOpened
    <2>7. TypeOK'
      BY <1>2, <2>3, <2>5, TypeParts, TypePartsNext DEF CreateContentJob
    <2>8. Numbered'
      BY <1>2 DEF CreateContentJob, Numbered
    <2>9. GateRows'
      BY <1>2, <2>1, <2>6 DEF CreateContentJob, GateRows, NewGate
    <2>10. NotBegun'
      BY <2>1 DEF NotBegun
    <2> QED BY <1>2, <2>7, <2>8, <2>9, <2>10 DEF CreateContentJob
  <1> QED BY <1>1, <1>2

\* Every outcome of process_leased_job keeps RunInv.
LEMMA ProcessJobInv ==
    ASSUME RunInv, NEW j \in JobKey,
           Backpressure(j) \/ Skipped(j) \/ Idempotent(j) \/ Dispatched(j)
             \/ NoWorker(j) \/ SpendHold(j)
    PROVE  RunInv'
  <1> USE DEF RunInv
  <1>0. /\ run \in RunRow /\ jobs \in [JobKey -> Nat] /\ gates \in [GateIds -> GateRow]
        /\ rows \in RowTable /\ reserved \in SUBSET WorkStages /\ dead \in SUBSET DeadRow
        /\ started \in SUBSET RowKey
        /\ clicks \in 0 .. MaxClicks
    BY TypeParts
  <1>1. jobs[j] > 0 /\ run.status # "absent"
    <2>1. jobs[j] > 0
      BY DEF Backpressure, Skipped, Idempotent, Dispatched, NoWorker, SpendHold, Dispatchable
    <2> QED BY <2>1, Begun
  <1>2. j.attempt < clicks + Tries /\ j.attempt \in 0 .. MaxNumber
        /\ j.stage \in WorkStages \cup {BadKey}
    BY <1>1, JobParts DEF Numbered
  <1>3. /\ Retire(j) \in [JobKey -> Nat]
        /\ \A i \in JobKey : Retire(j)[i] = IF i = j THEN jobs[j] - 1 ELSE jobs[i]
    BY <1>1, Retired
  <1>4. j.attempt + 1 \in 1 .. MaxNumber
    BY <1>0, <1>2, Numbers
  <1>5. Dispatchable(j) => Key(j) \in RowKey /\ j.stage \in WorkStages
                           /\ Key(j)[1] = j.stage /\ Key(j)[2] = j.attempt + 1
    BY <1>2, <1>4 DEF Dispatchable, TickRaises, Key, RowKey
  <1>6. CASE Backpressure(j) /\ j.attempt + 1 < NoWorkerMaxRetries
    <2> DEFINE i == [j EXCEPT !.attempt = @ + 1]
    <2>1. i \in JobKey /\ i.attempt = j.attempt + 1
      BY <1>4 DEF JobKey
    <2>2. jobs' = [Retire(j) EXCEPT ![i] = @ + 1]
      BY <1>6, Zenon DEF Backpressure
    <2> HIDE DEF i
    <2>3. jobs' \in [JobKey -> Nat]
      BY <1>3, <2>1, <2>2, JobAdded
    <2>4. \A x \in JobKey : jobs'[x] > 0 => jobs[x] > 0 \/ x = i
      BY <1>0, <1>3, <2>1, <2>2, JobAdded
    <2>5. UNCHANGED <<rows, reserved, dead, run, gates, reading, decisions, started, clicks>>
      BY <1>6, Zenon DEF Backpressure
    <2>6. TypeOK'
      BY <2>3, <2>5, TypeParts, TypePartsNext
    <2>7. Numbered'
      <3>1. i.attempt < clicks + Tries
        BY <1>0, <1>2, <1>6, <2>1, Numbers
      <3> QED BY <2>4, <2>5, <3>1 DEF Numbered
    <2>8. GateRows'
      BY <2>5 DEF GateRows
    <2>9. NotBegun'
      BY <1>1, <2>5 DEF NotBegun
    <2> QED BY <2>5, <2>6, <2>7, <2>8, <2>9
  <1>7. CASE Backpressure(j) /\ ~(j.attempt + 1 < NoWorkerMaxRetries)
    <2> DEFINE d == DeadLetter("job_schedule", j.stage, j.attempt + 1)
    <2>1. /\ jobs' = Retire(j) /\ reserved' = {}
          /\ rows' = [k \in RowKey |-> IF k[1] = j.stage /\ rows[k] \in OpenRow
                                       THEN "cancelled" ELSE rows[k]]
          /\ dead' = dead \cup {d}
      BY <1>7, Zenon DEF Backpressure
    <2>2. UNCHANGED <<run, gates, reading, decisions, started, clicks>>
      BY <1>7, Zenon DEF Backpressure
    <2>3. d \in DeadRow /\ d.attempt = j.attempt + 1
      BY <1>2, <1>4 DEF DeadLetter, DeadRow
    <2> HIDE DEF d
    <2>4. rows' \in RowTable
      BY <1>0, <2>1 DEF RowTable
    <2>5. TypeOK'
      BY <1>0, <1>3, <2>1, <2>2, <2>3, <2>4, TypeParts, TypePartsNext
    <2>6. IsFiniteSet(dead')
      BY <2>1, FS_AddElement
    <2>7. Numbered'
      <3>1. \A i \in JobKey : jobs'[i] > 0 => i.attempt < clicks' + Tries
        BY <1>0, <1>3, <2>1, <2>2 DEF Numbered
      <3>2. \A k \in RowKey : rows'[k] # "none" => k[2] <= clicks' + Tries
        BY <2>1, <2>2 DEF Numbered, OpenRow
      <3>3. \A e \in dead' : e.attempt <= clicks' + Tries
        BY <1>0, <1>2, <2>1, <2>2, <2>3, Numbers DEF Numbered
      <3> QED BY <3>1, <3>2, <3>3 DEF Numbered
    <2>8. GateRows'
      BY <2>2 DEF GateRows
    <2>9. NotBegun'
      BY <1>1, <2>2 DEF NotBegun
    <2> QED BY <2>5, <2>6, <2>7, <2>8, <2>9
  <1>8. CASE Skipped(j) \/ Idempotent(j)
    <2>1. /\ jobs' = Retire(j)
          /\ UNCHANGED <<run, rows, gates, reading, reserved, dead, decisions, started, clicks>>
      BY <1>8, Zenon DEF Skipped, Idempotent
    <2>2. TypeOK'
      BY <1>3, <2>1, TypeParts, TypePartsNext
    <2>3. Numbered'
      BY <1>0, <1>3, <2>1 DEF Numbered
    <2>4. GateRows'
      BY <2>1 DEF GateRows
    <2>5. NotBegun'
      BY <1>1, <2>1 DEF NotBegun
    <2> QED BY <2>1, <2>2, <2>3, <2>4, <2>5
  <1>9. CASE Dispatched(j) \/ NoWorker(j)
    <2>1. /\ jobs' = Retire(j) /\ Dispatchable(j)
          /\ rows' = [rows EXCEPT ![Key(j)] = "inflight"]
             \/ rows' = [rows EXCEPT ![Key(j)] = "pending"]
          /\ reserved' \in SUBSET (reserved \cup {j.stage})
          /\ started' \in SUBSET (started \cup {Key(j)})
          /\ UNCHANGED <<run, gates, reading, dead, decisions, clicks>>
      BY <1>9 DEF Dispatched, NoWorker
    <2>2. Key(j) \in RowKey /\ j.stage \in WorkStages /\ Key(j)[2] = j.attempt + 1
      BY <1>5, <2>1
    <2>3. rows' \in RowTable
      BY <1>0, <2>1, <2>2 DEF RowTable, OpenRow
    <2>4. TypeOK'
      BY <1>0, <1>3, <2>1, <2>2, <2>3, TypeParts, TypePartsNext
    <2>5. Numbered'
      <3>1. \A i \in JobKey : jobs'[i] > 0 => i.attempt < clicks' + Tries
        BY <1>0, <1>3, <2>1 DEF Numbered
      <3>2. \A k \in RowKey : rows'[k] # "none" => k = Key(j) \/ rows[k] # "none"
        BY <1>0, <2>1, <2>2 DEF RowTable
      <3>3. Key(j)[2] <= clicks + Tries
        BY <1>0, <1>2, <2>2, Numbers
      <3>4. \A k \in RowKey : rows'[k] # "none" => k[2] <= clicks' + Tries
        BY <2>1, <3>2, <3>3 DEF Numbered
      <3> QED BY <2>1, <3>1, <3>4 DEF Numbered
    <2>6. GateRows'
      BY <2>1 DEF GateRows
    <2>7. NotBegun'
      BY <1>1, <2>1 DEF NotBegun
    <2> QED BY <2>1, <2>4, <2>5, <2>6, <2>7
  <1>10. CASE SpendHold(j)
    <2>1. /\ run' = [run EXCEPT !.status = "paused", !.pause = "spend_hold"]
          /\ reserved' = reserved \ {j.stage}
          /\ UNCHANGED <<jobs, rows, gates, reading, dead, decisions, started, clicks>>
      BY <1>10, Zenon DEF SpendHold, SpendRefused
    <2>2. run' \in RunRow /\ run'.status = "paused"
      BY <1>0, <2>1 DEF RunRow
    <2>3. TypeOK'
      BY <1>0, <2>1, <2>2, TypeParts, TypePartsNext
    <2>4. Numbered' /\ GateRows' /\ NotBegun'
      BY <2>1, <2>2 DEF Numbered, GateRows, NotBegun
    <2> QED BY <2>1, <2>3, <2>4
  <1> QED BY <1>6, <1>7, <1>8, <1>9, <1>10

\* A claim, granted or refused for its budget, keeps RunInv.
LEMMA ClaimInv ==
    ASSUME RunInv, NEW k \in RowKey, Claim(k) \/ ClaimOverBudget(k)
    PROVE  RunInv'
  <1> USE DEF RunInv
  <1>0. /\ run \in RunRow /\ rows \in RowTable /\ reserved \in SUBSET WorkStages
        /\ started \in SUBSET RowKey /\ k[1] \in WorkStages
    BY TypeParts, RowKeyParts
  <1>1. rows[k] # "none" /\ run.status # "absent"
    <2>1. rows[k] # "none"
      BY DEF Claim, ClaimOverBudget
    <2> QED BY <2>1, Begun
  <1>2. CASE Claim(k)
    <2>1. rows' \in RowTable
      BY <1>0, <1>2 DEF Claim, RowTable, OpenRow
    <2>2. TypeOK'
      BY <1>0, <1>2, <2>1, TypeParts, TypePartsNext DEF Claim
    <2>3. \A l \in RowKey : rows'[l] # "none" => rows[l] # "none"
      BY <1>0, <1>1, <1>2 DEF Claim, RowTable
    <2>4. Numbered' /\ GateRows' /\ NotBegun'
      BY <1>1, <1>2, <2>3 DEF Claim, Numbered, GateRows, NotBegun
    <2> QED BY <1>2, <2>2, <2>4 DEF Claim
  <1>3. CASE ClaimOverBudget(k)
    <2>1. run' \in RunRow /\ run'.status = "paused"
      BY <1>0, <1>3 DEF ClaimOverBudget, SpendRefused, RunRow
    <2>2. TypeOK'
      BY <1>0, <1>3, <2>1, TypeParts, TypePartsNext DEF ClaimOverBudget, SpendRefused
    <2>3. Numbered' /\ GateRows' /\ NotBegun'
      BY <1>3, <2>1 DEF ClaimOverBudget, Numbered, GateRows, NotBegun
    <2> QED BY <1>3, <2>2, <2>3 DEF ClaimOverBudget
  <1> QED BY <1>2, <1>3

\* Assignments to the status and the stage of a run.
LEMMA RunUpdates ==
    ASSUME NEW r \in RunRow, NEW t
    PROVE  /\ [r EXCEPT !.stage = t].stage = t /\ [r EXCEPT !.stage = t].status = r.status
           /\ [r EXCEPT !.stage = t, !.status = "succeeded"].stage = t
           /\ [r EXCEPT !.stage = t, !.status = "succeeded"].status = "succeeded"
  BY DEF RunRow

\* The statuses a run can have after _advance_or_finish: those of r, or later.
LEMMA GoesOnStatus ==
    ASSUME NEW STATE r, NEW STATE gs, NEW t, GoesOn(t, r, gs), r \in RunRow, t \in Stages
    PROVE  /\ run'.stage = t
           /\ run'.status \in {r.status, "succeeded", "paused"}
           /\ run'.status = "succeeded" => r.status = "succeeded" \/ t \in Finals
  <1>1. \/ t \in Finals /\ run' = [r EXCEPT !.stage = t, !.status = "succeeded"]
        \/ run' = [r EXCEPT !.stage = t]
        \/ run' = [stage |-> t, status |-> "paused", pause |-> "review_gate"]
    BY Zenon DEF GoesOn, Finishes, PassesGate, OpensGate, QueuesStage
  <1>2. CASE t \in Finals /\ run' = [r EXCEPT !.stage = t, !.status = "succeeded"]
    BY <1>2, RunUpdates
  <1>3. CASE run' = [r EXCEPT !.stage = t]
    BY <1>3, RunUpdates
  <1>4. CASE run' = [stage |-> t, status |-> "paused", pause |-> "review_gate"]
    BY <1>4
  <1> QED BY <1>1, <1>2, <1>3, <1>4

\* The jobs and gates after _advance_or_finish.
LEMMA GoesOnRows ==
    ASSUME TypeOK, NEW STATE r, NEW STATE gs, NEW t, GoesOn(t, r, gs)
    PROVE  /\ \A i \in JobKey : jobs'[i] > 0 =>
                  jobs[i] > 0 \/ (i.stage = t /\ i.attempt = 0 /\ t \in WorkStages)
           /\ \A g \in GateIds :
                  gates'[g] = gs[g] \/ (gates'[g] = NewGate(t) /\ t \in ReviewStages)
  <1>1. jobs \in [JobKey -> Nat]
    BY TypeParts
  <1>2. CASE Finishes(t, r, gs) \/ PassesGate(t, r, gs)
    BY <1>2 DEF Finishes, PassesGate
  <1>3. CASE OpensGate(t, gs)
    <2>1. jobs' = jobs /\ t \in ReviewStages
      BY <1>3 DEF OpensGate
    <2>2. PICK x \in Unused :
            \A g \in GateIds : gates'[g] = IF g = x THEN NewGate(t) ELSE gs[g]
      BY <1>3 DEF OpensGate
    <2> QED BY <2>1, <2>2
  <1>4. CASE QueuesStage(t, r, gs)
    BY <1>1, <1>4 DEF QueuesStage
  <1> QED BY <1>2, <1>3, <1>4 DEF GoesOn

\* A successful result keeps RunInv, wherever the workflow goes on.
LEMMA SubmitSuccessInv ==
    ASSUME RunInv, NEW k \in RowKey, SubmitSuccess(k)
    PROVE  RunInv'
  <1> USE DEF RunInv
  <1>0. /\ run \in RunRow /\ rows \in RowTable /\ reserved \in SUBSET WorkStages
        /\ k[1] \in WorkStages /\ gates \in [GateIds -> GateRow] /\ clicks \in Nat
    BY TypeParts, RowKeyParts, Numbers
  <1>1. rows[k] # "none" /\ run.status # "absent"
    <2>1. rows[k] # "none"
      BY DEF SubmitSuccess
    <2> QED BY <2>1, Begun
  <1>2. /\ rows' = [rows EXCEPT ![k] = "completed"] /\ reserved' = reserved \ {k[1]}
        /\ UNCHANGED <<reading, dead, decisions, started, clicks>>
    BY DEF SubmitSuccess
  <1>3. rows' \in RowTable
    BY <1>0, <1>2 DEF RowTable
  <1>4. \A l \in RowKey : rows'[l] # "none" => l[2] <= clicks' + Tries
    <2>1. \A l \in RowKey : rows'[l] # "none" => rows[l] # "none"
      BY <1>0, <1>1, <1>2 DEF RowTable
    <2> QED BY <1>2, <2>1 DEF Numbered
  <1>5. CASE run.status \in Terminal
    <2>1. UNCHANGED <<run, jobs, gates>>
      BY <1>5, Zenon DEF SubmitSuccess
    <2>2. TypeOK'
      BY <1>0, <1>2, <1>3, <2>1, TypeParts, TypePartsNext
    <2>3. Numbered' /\ GateRows' /\ NotBegun'
      BY <1>1, <1>2, <1>4, <2>1 DEF Numbered, GateRows, NotBegun
    <2> QED BY <1>2, <2>2, <2>3
  <1>6. CASE run.status \notin Terminal
    <2>1. AdvanceOrFinish(k[1], OnSuccess[k[1]], run, gates)
      BY <1>6, Zenon DEF SubmitSuccess
    <2>2. OnSuccess[k[1]] \subseteq Stages
      BY <1>0, GraphAssumption
    <2>3. run' \in RunRow /\ jobs' \in [JobKey -> Nat] /\ gates' \in [GateIds -> GateRow]
      BY <1>0, <2>1, <2>2, Advance
    <2>4. PICK t \in OnSuccess[k[1]] : GoesOn(t, run, gates)
      BY <1>0, <2>1, <2>2, Advance
    <2>5. TypeOK'
      BY <1>0, <1>2, <1>3, <2>3, TypeParts, TypePartsNext
    <2>6. Numbered'
      <3>1. \A i \in JobKey : jobs'[i] > 0 => jobs[i] > 0 \/ i.attempt = 0
        BY <2>4, GoesOnRows
      <3>2. \A i \in JobKey : jobs'[i] > 0 => i.attempt < clicks' + Tries
        BY <1>0, <1>2, <3>1, Numbers DEF Numbered
      <3> QED BY <1>2, <1>4, <3>2 DEF Numbered
    <2>7. GateRows'
      <3>1. \A g \in GateIds :
              gates'[g] = gates[g] \/ (gates'[g] = NewGate(t) /\ t \in ReviewStages)
        BY <2>4, GoesOnRows
      <3> QED BY <1>2, <3>1 DEF GateRows, NewGate
    <2>8. run'.status # "absent"
      <3>1. run'.status \in {run.status, "succeeded", "paused"}
        BY <1>0, <2>2, <2>4, GoesOnStatus
      <3> QED BY <1>1, <3>1
    <2> QED BY <1>2, <2>5, <2>6, <2>7, <2>8 DEF NotBegun
  <1> QED BY <1>5, <1>6

\* A failed result keeps RunInv: a retry, or a failed run.
LEMMA SubmitFailureInv ==
    ASSUME RunInv, NEW k \in RowKey, NEW retryable \in BOOLEAN, SubmitFailure(k, retryable)
    PROVE  RunInv'
  <1> USE DEF RunInv
  <1>0. /\ run \in RunRow /\ rows \in RowTable /\ reserved \in SUBSET WorkStages
        /\ k[1] \in WorkStages /\ dead \in SUBSET DeadRow /\ clicks \in Nat
        /\ k[2] \in 1 .. MaxNumber /\ k[2] \in 0 .. MaxNumber /\ jobs \in [JobKey -> Nat]
    BY TypeParts, RowKeyParts, Numbers
  <1>1. rows[k] # "none" /\ run.status # "absent" /\ k[2] <= clicks + Tries
    <2>1. rows[k] # "none"
      BY DEF SubmitFailure
    <2> QED BY <2>1, Begun DEF Numbered
  <1>2. /\ rows' = [rows EXCEPT ![k] = "failed"]
        /\ UNCHANGED <<gates, reading, decisions, started, clicks>>
    BY Zenon DEF SubmitFailure
  <1>3. rows' \in RowTable
    BY <1>0, <1>2 DEF RowTable
  <1>4. \A l \in RowKey : rows'[l] # "none" => l[2] <= clicks' + Tries
    <2>1. \A l \in RowKey : rows'[l] # "none" => rows[l] # "none"
      BY <1>0, <1>1, <1>2 DEF RowTable
    <2> QED BY <1>2, <2>1 DEF Numbered
  <1>5. CASE retryable /\ MayRetry(k[2])
    <2>1. /\ jobs' = EnqueueStage(k[1], k[2]) /\ reserved' = reserved \ {k[1]}
          /\ UNCHANGED <<run, dead>>
      BY <1>5, Zenon DEF SubmitFailure, RetryJob
    <2>2. jobs' \in [JobKey -> Nat]
      BY <1>0, <2>1, Enqueued
    <2>3. PICK j \in JobKey :
            /\ j.stage = k[1] /\ j.attempt = k[2]
            /\ \A i \in JobKey : jobs'[i] = IF i = j THEN jobs[j] + 1 ELSE jobs[i]
      BY <1>0, <2>1, Enqueued
    <2>4. TypeOK'
      BY <1>0, <1>2, <1>3, <2>1, <2>2, TypeParts, TypePartsNext
    <2>5. Numbered'
      <3>1. \A i \in JobKey : jobs'[i] > 0 => i.attempt < clicks' + Tries
        BY <1>0, <1>2, <1>5, <2>3, Numbers DEF Numbered, MayRetry
      <3> QED BY <1>2, <1>4, <2>1, <3>1 DEF Numbered
    <2>6. GateRows' /\ NotBegun'
      BY <1>1, <1>2, <2>1 DEF GateRows, NotBegun
    <2> QED BY <2>1, <2>4, <2>5, <2>6
  <1>6. CASE ~(retryable /\ MayRetry(k[2]))
    <2> DEFINE d == DeadLetter("pipeline_runs", k[1], k[2])
    <2>1. /\ dead' = dead \cup {d} /\ run' = [run EXCEPT !.status = "failed"] /\ reserved' = {}
          /\ UNCHANGED jobs
      BY <1>6, Zenon DEF SubmitFailure, FailRun
    <2>2. d \in DeadRow /\ d.attempt = k[2]
      BY <1>0 DEF DeadLetter, DeadRow
    <2> HIDE DEF d
    <2>3. run' \in RunRow /\ run'.status = "failed"
      BY <1>0, <2>1 DEF RunRow, Terminal
    <2>4. TypeOK'
      BY <1>0, <1>2, <1>3, <2>1, <2>2, <2>3, TypeParts, TypePartsNext
    <2>5. Numbered'
      BY <1>1, <1>2, <1>4, <2>1, <2>2 DEF Numbered
    <2>6. GateRows' /\ NotBegun'
      BY <1>2, <2>3 DEF GateRows, NotBegun
    <2>7. IsFiniteSet(dead')
      BY <2>1, FS_AddElement
    <2> QED BY <2>4, <2>5, <2>6, <2>7
  <1> QED BY <1>5, <1>6

\* The recovery of an expired assignment keeps RunInv.
LEMMA RecoverInv ==
    ASSUME RunInv, NEW k \in RowKey, Recover(k)
    PROVE  RunInv'
  <1> USE DEF RunInv
  <1>0. /\ run \in RunRow /\ rows \in RowTable /\ reserved \in SUBSET WorkStages
        /\ k[1] \in WorkStages /\ dead \in SUBSET DeadRow /\ clicks \in Nat
        /\ k[2] \in 1 .. MaxNumber /\ k[2] \in 0 .. MaxNumber
    BY TypeParts, RowKeyParts, Numbers
  <1>1. rows[k] # "none" /\ run.status # "absent" /\ k[2] <= clicks + Tries
    <2>1. rows[k] # "none"
      BY DEF Recover
    <2> QED BY <2>1, Begun DEF Numbered
  <1>2. UNCHANGED <<jobs, gates, reading, decisions, started, clicks>>
    BY Zenon DEF Recover
  <1>3. CASE k[2] + 1 > MaxAttempts
    <2> DEFINE d == DeadLetter("stage_assignments", k[1], k[2])
    <2>1. rows' = [rows EXCEPT ![k] = "failed"] /\ dead' = dead \cup {d}
      BY <1>3, Zenon DEF Recover
    <2>2. \/ UNCHANGED <<run, reserved>>
          \/ run' = [run EXCEPT !.status = "failed"] /\ reserved' = {}
      BY <1>3, Zenon DEF Recover, FailRun
    <2>3. d \in DeadRow /\ d.attempt = k[2]
      BY <1>0 DEF DeadLetter, DeadRow
    <2> HIDE DEF d
    <2>4. run' \in RunRow /\ run'.status # "absent"
      BY <1>0, <1>1, <2>2 DEF RunRow, Terminal
    <2>5. rows' \in RowTable /\ \A l \in RowKey : rows'[l] # "none" => rows[l] # "none"
      BY <1>0, <1>1, <2>1 DEF RowTable
    <2>6. TypeOK'
      BY <1>0, <1>2, <2>1, <2>2, <2>3, <2>4, <2>5, TypeParts, TypePartsNext
    <2>7. Numbered'
      BY <1>1, <1>2, <2>1, <2>3, <2>5 DEF Numbered
    <2>8. GateRows' /\ NotBegun'
      BY <1>2, <2>4 DEF GateRows, NotBegun
    <2>9. IsFiniteSet(dead')
      BY <2>1, FS_AddElement
    <2> QED BY <2>6, <2>7, <2>8, <2>9
  <1>4. CASE ~(k[2] + 1 > MaxAttempts)
    <2> DEFINE next == <<k[1], k[2] + 1>>
    <2>1. /\ rows' = [rows EXCEPT ![k] = "none", ![next] = "pending"]
          /\ reserved' = reserved \ {k[1]}
          /\ UNCHANGED <<run, dead>>
      BY <1>4, Zenon DEF Recover
    <2>2. next \in RowKey /\ next[2] <= Tries /\ next[2] \in Nat
      BY <1>0, <1>4, Numbers DEF RowKey
    <2> HIDE DEF next
    <2>3. rows' \in RowTable /\ \A l \in RowKey : rows'[l] # "none" => rows[l] # "none" \/ l = next
      BY <1>0, <1>1, <2>1, <2>2 DEF RowTable, OpenRow
    <2>4. TypeOK'
      BY <1>0, <1>2, <2>1, <2>3, TypeParts, TypePartsNext
    <2>5. Numbered'
      <3>1. next[2] <= clicks + Tries
        BY <1>0, <2>2, Numbers
      <3> QED BY <1>2, <2>1, <2>3, <3>1 DEF Numbered
    <2>6. GateRows' /\ NotBegun'
      BY <1>1, <1>2, <2>1 DEF GateRows, NotBegun
    <2> QED BY <2>1, <2>4, <2>5, <2>6
  <1> QED BY <1>3, <1>4

\* The run and the gates that resume_from_review makes before it goes on.
ResumedRun == [run EXCEPT !.status = "running", !.pause = "none"]
DecidedStatus(approved) == IF approved THEN "approved" ELSE "rejected"
Decided(g, approved) == [gates EXCEPT ![g].status = DecidedStatus(approved)]
TargetsOf(s, approved) == IF approved THEN OnApproved[s] ELSE OnRejected[s]

\* What resume_from_review makes of a run, its jobs and its gates.
LEMMA ResumeTypes ==
    ASSUME TypeOK, NEW g \in GateIds, NEW approved \in BOOLEAN
    PROVE  /\ ResumedRun \in RunRow /\ ResumedRun.status = "running"
           /\ ResumedRun.stage = run.stage
           /\ Decided(g, approved) \in [GateIds -> GateRow]
           /\ \A h \in GateIds : h # g => Decided(g, approved)[h] = gates[h]
           /\ Decided(g, approved)[g].status # "awaiting"
           /\ Decided(g, approved)[g].status # "none"
           /\ Decided(g, approved)[g].stage = gates[g].stage
           /\ Decided(g, approved)[g].level = gates[g].level
  <1>0. run \in RunRow /\ gates \in [GateIds -> GateRow] /\ gates[g] \in GateRow
    BY TypeParts
  <1>1. /\ ResumedRun \in RunRow /\ ResumedRun.status = "running"
        /\ ResumedRun.stage = run.stage
    BY <1>0 DEF ResumedRun, RunRow
  <1>2. DecidedStatus(approved) \in {"approved", "rejected"}
    BY DEF DecidedStatus
  <1> DEFINE row == [gates[g] EXCEPT !.status = DecidedStatus(approved)]
  <1>3. /\ row \in GateRow /\ row.status = DecidedStatus(approved)
        /\ row.stage = gates[g].stage /\ row.level = gates[g].level
    BY <1>0, <1>2 DEF GateRow
  <1>4. Decided(g, approved) = [gates EXCEPT ![g] = row]
    BY Zenon DEF Decided
  <1> HIDE DEF row
  <1> QED BY <1>0, <1>1, <1>2, <1>3, <1>4

\* What a decision does: it records itself, decides the gate, and fails the
\* run, sets it going with nowhere to go, or goes on to a target.
LEMMA DecideEffect ==
    ASSUME RunInv, NEW g \in GateIds, NEW approved \in BOOLEAN, Decide(g, approved)
    PROVE  /\ gates[g].status = "awaiting" /\ gates[g].stage \in ReviewStages
           /\ run.status # "absent"
           /\ decisions' = decisions \cup {<<g, approved>>}
           /\ UNCHANGED <<rows, reading, dead, started, clicks>>
           /\ TargetsOf(gates[g].stage, approved) \subseteq Stages
           /\ run' \in RunRow /\ jobs' \in [JobKey -> Nat] /\ gates' \in [GateIds -> GateRow]
           /\ \/ /\ run' = [run EXCEPT !.status = "failed", !.pause = "none"]
                 /\ gates' = Decided(g, approved) /\ jobs' = jobs /\ reserved' = {}
              \/ /\ approved /\ TargetsOf(gates[g].stage, approved) = {}
                 /\ run' = ResumedRun
                 /\ gates' = Decided(g, approved) /\ jobs' = jobs /\ reserved' = reserved
              \/ /\ \E t \in TargetsOf(gates[g].stage, approved) :
                       GoesOn(t, ResumedRun, Decided(g, approved))
                 /\ reserved' = reserved
  <1> DEFINE targets == TargetsOf(gates[g].stage, approved)
  <1>0. /\ gates[g].status = "awaiting"
        /\ decisions' = decisions \cup {<<g, approved>>}
        /\ UNCHANGED <<rows, reading, dead, started, clicks>>
        /\ ResumeFromReview(g, approved)
    BY Zenon DEF Decide, SubmitReviewDecision
  <1>1. gates[g].stage \in ReviewStages /\ run.status # "absent"
    BY <1>0, Begun DEF RunInv, GateRows
  <1>2. targets \subseteq Stages
    BY <1>1, GraphAssumption DEF TargetsOf
  <1>3. /\ TypeOK /\ run \in RunRow /\ jobs \in [JobKey -> Nat]
        /\ ResumedRun \in RunRow /\ Decided(g, approved) \in [GateIds -> GateRow]
    BY TypeParts, ResumeTypes DEF RunInv
  <1>4. \/ /\ FailRun([run EXCEPT !.pause = "none"])
           /\ gates' = Decided(g, approved) /\ UNCHANGED jobs
        \/ /\ approved /\ targets = {}
           /\ run' = ResumedRun
           /\ gates' = Decided(g, approved) /\ UNCHANGED <<jobs, reserved>>
        \/ /\ AdvanceOrFinish(gates[g].stage, targets, ResumedRun, Decided(g, approved))
           /\ UNCHANGED reserved
    BY <1>0, Zenon DEF ResumeFromReview, ResumedRun, Decided, DecidedStatus, TargetsOf
  <1> HIDE DEF targets
  <1>5. CASE /\ FailRun([run EXCEPT !.pause = "none"])
             /\ gates' = Decided(g, approved) /\ UNCHANGED jobs
    <2>1. run' = [[run EXCEPT !.pause = "none"] EXCEPT !.status = "failed"] /\ reserved' = {}
      BY <1>5, Zenon DEF FailRun
    <2>2. /\ run' = [run EXCEPT !.status = "failed", !.pause = "none"]
          /\ run' \in RunRow
      BY <1>3, <2>1 DEF RunRow, Terminal
    <2> QED BY <1>0, <1>1, <1>2, <1>3, <1>5, <2>1, <2>2 DEF targets
  <1>6. CASE /\ approved /\ targets = {}
             /\ run' = ResumedRun
             /\ gates' = Decided(g, approved) /\ UNCHANGED <<jobs, reserved>>
    BY <1>0, <1>1, <1>2, <1>3, <1>6, Zenon DEF targets
  <1>7. CASE /\ AdvanceOrFinish(gates[g].stage, targets, ResumedRun, Decided(g, approved))
             /\ UNCHANGED reserved
    <2>1. /\ run' \in RunRow /\ jobs' \in [JobKey -> Nat] /\ gates' \in [GateIds -> GateRow]
          /\ \E t \in targets : GoesOn(t, ResumedRun, Decided(g, approved))
      BY <1>2, <1>3, <1>7, Advance
    <2> QED BY <1>0, <1>1, <1>2, <1>7, <2>1, Zenon DEF targets
  <1> QED BY <1>4, <1>5, <1>6, <1>7

\* A decision at a gate keeps RunInv.
LEMMA DecideInv ==
    ASSUME RunInv, NEW g \in GateIds, NEW approved \in BOOLEAN, Decide(g, approved)
    PROVE  RunInv'
  <1> USE DEF RunInv
  <1> DEFINE targets == TargetsOf(gates[g].stage, approved)
  <1>0. /\ gates[g].status = "awaiting" /\ gates[g].stage \in ReviewStages
        /\ run.status # "absent"
        /\ decisions' = decisions \cup {<<g, approved>>}
        /\ UNCHANGED <<rows, reading, dead, started, clicks>>
        /\ run' \in RunRow /\ jobs' \in [JobKey -> Nat] /\ gates' \in [GateIds -> GateRow]
        /\ targets \subseteq Stages
    BY DecideEffect, Zenon
  <1>1. /\ ResumedRun \in RunRow /\ ResumedRun.status = "running"
        /\ \A h \in GateIds : h # g => Decided(g, approved)[h] = gates[h]
        /\ Decided(g, approved)[g].status # "awaiting"
        /\ Decided(g, approved)[g].stage = gates[g].stage
        /\ Decided(g, approved)[g].level = gates[g].level
        /\ run \in RunRow /\ clicks \in Nat /\ decisions \in SUBSET (GateIds \X BOOLEAN)
        /\ reserved \in SUBSET WorkStages
    BY ResumeTypes, TypeParts, Numbers
  <1> HIDE DEF targets
  <1>2. \/ /\ run' = [run EXCEPT !.status = "failed", !.pause = "none"]
           /\ gates' = Decided(g, approved) /\ jobs' = jobs /\ reserved' = {}
        \/ /\ run' = ResumedRun
           /\ gates' = Decided(g, approved) /\ jobs' = jobs /\ reserved' = reserved
        \/ /\ \E t \in targets : GoesOn(t, ResumedRun, Decided(g, approved))
           /\ reserved' = reserved
    BY DecideEffect, Zenon DEF targets
  <1>3. TypeOK'
    <2>1. reserved' \in SUBSET WorkStages
      BY <1>1, <1>2
    <2>2. decisions' \in SUBSET (GateIds \X BOOLEAN)
      BY <1>0, <1>1
    <2> QED BY <1>0, <2>1, <2>2, TypeParts, TypePartsNext
  <1>4. run'.status # "absent"
    <2>1. CASE run' = [run EXCEPT !.status = "failed", !.pause = "none"]
      BY <1>1, <2>1 DEF RunRow
    <2>2. CASE run' = ResumedRun
      BY <1>1, <2>2
    <2>3. CASE \E t \in targets : GoesOn(t, ResumedRun, Decided(g, approved))
      <3> PICK t \in targets : GoesOn(t, ResumedRun, Decided(g, approved))
        BY <2>3
      <3>1. run'.status \in {ResumedRun.status, "succeeded", "paused"}
        BY <1>0, <1>1, GoesOnStatus
      <3> QED BY <1>1, <3>1
    <2> QED BY <1>2, <2>1, <2>2, <2>3
  <1>5. \A i \in JobKey : jobs'[i] > 0 => jobs[i] > 0 \/ i.attempt = 0
    BY <1>2, GoesOnRows
  <1>6. \A h \in GateIds : \/ gates'[h] = Decided(g, approved)[h]
                           \/ gates'[h].stage \in ReviewStages /\ gates'[h].level = 0
    <2>1. CASE \E t \in targets : GoesOn(t, ResumedRun, Decided(g, approved))
      <3> PICK t \in targets : GoesOn(t, ResumedRun, Decided(g, approved))
        BY <2>1
      <3>1. \A h \in GateIds : \/ gates'[h] = Decided(g, approved)[h]
                               \/ gates'[h] = NewGate(t) /\ t \in ReviewStages
        BY GoesOnRows
      <3> QED BY <3>1 DEF NewGate
    <2> QED BY <1>2, <2>1
  <1>7. Numbered'
    <2>1. \A i \in JobKey : jobs'[i] > 0 => i.attempt < clicks' + Tries
      BY <1>0, <1>1, <1>5, Numbers DEF Numbered
    <2> QED BY <1>0, <2>1 DEF Numbered
  <1>8. GateRows'
    BY <1>0, <1>1, <1>6 DEF GateRows
  <1> QED BY <1>0, <1>3, <1>4, <1>7, <1>8 DEF NotBegun

\* Both halves of the review timeout keep RunInv.
LEMMA TimeoutInv ==
    ASSUME RunInv, NEW g \in GateIds, TimeoutRead(g) \/ TimeoutWrite(g)
    PROVE  RunInv'
  <1> USE DEF RunInv
  <1>0. /\ run \in RunRow /\ gates \in [GateIds -> GateRow] /\ gates[g] \in GateRow
        /\ reading \in SUBSET GateIds
    BY TypeParts
  <1>1. CASE TimeoutRead(g)
    <2>1. UNCHANGED <<run, jobs, rows, reserved, dead, decisions, started, clicks>>
      BY <1>1, Zenon DEF TimeoutRead
    <2>2. CASE gates[g].status # "awaiting"
      <3> DEFINE row == [gates[g] EXCEPT !.timer = FALSE]
      <3>1. gates' = [gates EXCEPT ![g] = row] /\ reading' = reading
        BY <1>1, <2>2, Zenon DEF TimeoutRead
      <3>2. /\ row \in GateRow /\ row.status = gates[g].status
            /\ row.stage = gates[g].stage /\ row.level = gates[g].level
        BY <1>0 DEF GateRow
      <3> HIDE DEF row
      <3>3. TypeOK'
        BY <1>0, <2>1, <3>1, <3>2, TypeParts, TypePartsNext
      <3>4. GateRows'
        BY <1>0, <3>1, <3>2 DEF GateRows
      <3>5. Numbered' /\ NotBegun'
        BY <1>0, <2>1, <3>1, <3>2 DEF Numbered, NotBegun, NoJobs, NoGates
      <3> QED BY <2>1, <3>3, <3>4, <3>5
    <2>3. CASE gates[g].status = "awaiting"
      <3>1. gates' = gates /\ reading' = reading \cup {g}
        BY <1>1, <2>3, Zenon DEF TimeoutRead
      <3>2. TypeOK'
        BY <1>0, <2>1, <3>1, TypeParts, TypePartsNext
      <3>3. GateRows' /\ Numbered' /\ NotBegun'
        BY <2>1, <2>3, <3>1 DEF GateRows, Numbered, NotBegun, NoJobs, NoGates
      <3> QED BY <2>1, <3>2, <3>3
    <2> QED BY <2>2, <2>3
  <1>2. CASE TimeoutWrite(g)
    <2>0. gates[g].level = 0
      BY <1>2 DEF TimeoutWrite, GateRows
    <2>1. /\ reading' = reading \ {g}
          /\ UNCHANGED <<run, jobs, rows, reserved, dead, decisions, started, clicks>>
      BY <1>2, <2>0, Zenon DEF TimeoutWrite
    <2> DEFINE row == [gates[g] EXCEPT !.status = "escalated", !.level = 1]
    <2>2. gates' = [gates EXCEPT ![g] = row]
      BY <1>2, <2>0, Zenon DEF TimeoutWrite
    <2>3. row \in GateRow /\ row.status = "escalated" /\ row.stage = gates[g].stage
      BY <1>0 DEF GateRow
    <2> HIDE DEF row
    <2>4. TypeOK'
      BY <1>0, <2>1, <2>2, <2>3, TypeParts, TypePartsNext
    <2>5. gates[g].stage \in ReviewStages
      BY <1>2 DEF TimeoutWrite, GateRows
    <2>6. Numbered' /\ NotBegun'
      BY <1>0, <2>1, <2>2, <2>3 DEF Numbered, NotBegun, NoJobs, NoGates
    <2>7. GateRows'
      BY <1>0, <2>1, <2>2, <2>3, <2>5 DEF GateRows
    <2> QED BY <2>1, <2>4, <2>6, <2>7
  <1> QED BY <1>1, <1>2

\* The jobs that the retry button adds, by what they come from.
RetryEntries == {d \in dead : d.table # "job_schedule"}
FailedRows ==
    {k \in RowKey : {j \in JobKey : j.kind = "retry" /\ jobs[j] > 0} = {} /\ rows[k] = "failed"}
AddedJobs(j) == Cardinality({d \in RetryEntries : RequeuedAs(d) = j})
                + Cardinality({k \in FailedRows : Job("retry", k[1], k[2]) = j})

\* What the retry button does.
LEMMA RetryEffect ==
    ASSUME RunInv, RetryFailedJobs
    PROVE  /\ run.status # "absent" /\ clicks < MaxClicks /\ clicks' = clicks + 1
           /\ dead' = dead \ RetryEntries
           /\ UNCHANGED <<rows, gates, reading, reserved, decisions, started>>
           /\ run' = run \/ (run.status = "failed" /\ run' = [run EXCEPT !.status = "running"])
           /\ jobs' \in [JobKey -> Nat]
           /\ \A j \in JobKey : jobs'[j] > 0 =>
                 \/ jobs[j] > 0
                 \/ \E d \in dead : j = RequeuedAs(d)
                 \/ \E k \in RowKey : rows[k] = "failed" /\ j = Job("retry", k[1], k[2])
  <1>0. jobs \in [JobKey -> Nat] /\ IsFiniteSet(dead)
    BY TypeParts DEF RunInv
  <1>1. /\ run.status # "absent" /\ clicks < MaxClicks /\ clicks' = clicks + 1
        /\ dead' = dead \ RetryEntries
        /\ UNCHANGED <<rows, gates, reading, reserved, decisions, started>>
        /\ run' = run \/ (run.status = "failed" /\ run' = [run EXCEPT !.status = "running"])
    BY Zenon DEF RetryFailedJobs, RetryEntries
  <1>2. jobs' = jobs \/ jobs' = [j \in JobKey |-> jobs[j] + AddedJobs(j)]
    BY Zenon DEF RetryFailedJobs, RetryEntries, FailedRows, AddedJobs
  <1>3. ASSUME NEW j \in JobKey
        PROVE  /\ AddedJobs(j) \in Nat
               /\ AddedJobs(j) > 0 =>
                     \/ \E d \in dead : j = RequeuedAs(d)
                     \/ \E k \in RowKey : rows[k] = "failed" /\ j = Job("retry", k[1], k[2])
    <2> DEFINE D == {d \in RetryEntries : RequeuedAs(d) = j}
               K == {k \in FailedRows : Job("retry", k[1], k[2]) = j}
    <2>1. D \in SUBSET dead /\ K \in SUBSET RowKey
      BY DEF RetryEntries, FailedRows
    <2>2. IsFiniteSet(D) /\ IsFiniteSet(K)
      BY <1>0, <2>1, RowKeyFinite, FS_Subset
    <2>3. Cardinality(D) \in Nat /\ Cardinality(K) \in Nat
      BY <2>2, FS_CardinalityType
    <2>4. AddedJobs(j) = Cardinality(D) + Cardinality(K)
      BY DEF AddedJobs
    <2>5. (D = {} => Cardinality(D) = 0) /\ (K = {} => Cardinality(K) = 0)
      BY FS_EmptySet
    <2>6. D # {} => \E d \in dead : j = RequeuedAs(d)
      BY DEF RetryEntries
    <2>7. K # {} => \E k \in RowKey : rows[k] = "failed" /\ j = Job("retry", k[1], k[2])
      BY DEF FailedRows
    <2> HIDE DEF D, K
    <2> QED BY <2>3, <2>4, <2>5, <2>6, <2>7
  <1>4. jobs' \in [JobKey -> Nat]
    BY <1>0, <1>2, <1>3
  <1>5. \A j \in JobKey : jobs'[j] > 0 => jobs[j] > 0 \/ AddedJobs(j) > 0
    BY <1>0, <1>2, <1>3
  <1> QED BY <1>1, <1>3, <1>4, <1>5, Zenon

\* The number and the stage under which a dead letter is requeued.
LEMMA RequeuedParts ==
    ASSUME NEW d \in DeadRow
    PROVE  /\ RequeuedAs(d).attempt = d.attempt
           /\ RequeuedAs(d).stage \in {d.stage, BadKey}
  BY DEF RequeuedAs, Job

\* The retry button keeps RunInv.
LEMMA RetryInv ==
    ASSUME RunInv, RetryFailedJobs PROVE RunInv'
  <1>0. /\ RunInv /\ run \in RunRow /\ clicks \in 0 .. MaxClicks /\ MaxClicks \in Nat
        /\ dead \in SUBSET DeadRow /\ IsFiniteSet(dead)
    BY TypeParts, Numbers DEF RunInv
  <1>1. /\ run.status # "absent" /\ clicks < MaxClicks /\ clicks' = clicks + 1
        /\ dead' \in SUBSET dead
        /\ UNCHANGED <<rows, gates, reading, reserved, decisions, started>>
        /\ run' = run \/ run' = [run EXCEPT !.status = "running"]
        /\ jobs' \in [JobKey -> Nat]
    BY RetryEffect
  <1>2. \A j \in JobKey : jobs'[j] > 0 =>
                 \/ jobs[j] > 0
                 \/ \E d \in dead : j = RequeuedAs(d)
                 \/ \E k \in RowKey : rows[k] = "failed" /\ j = Job("retry", k[1], k[2])
    BY RetryEffect, Zenon
  <1>3. run' \in RunRow /\ run'.status # "absent"
    BY <1>0, <1>1 DEF RunRow
  <1>4. TypeOK'
    BY <1>0, <1>1, <1>3, TypeParts, TypePartsNext DEF RunInv
  <1>5. IsFiniteSet(dead')
    BY <1>0, <1>1, FS_Subset
  <1>6. Numbered'
    <2>1. ASSUME NEW j \in JobKey, jobs'[j] > 0 PROVE j.attempt < clicks' + Tries
      <3>0. clicks \in Nat /\ Tries \in Nat /\ j.attempt \in Nat
        BY <1>0, Numbers, JobParts
      <3>1. CASE jobs[j] > 0
        BY <1>0, <1>1, <3>0, <3>1 DEF RunInv, Numbered
      <3>2. CASE \E d \in dead : j = RequeuedAs(d)
        <4> PICK d \in dead : j = RequeuedAs(d)
          BY <3>2
        <4>1. j.attempt = d.attempt /\ d.attempt <= clicks + Tries
          BY <1>0, RequeuedParts DEF RunInv, Numbered
        <4> QED BY <1>1, <3>0, <4>1
      <3>3. CASE \E k \in RowKey : rows[k] = "failed" /\ j = Job("retry", k[1], k[2])
        <4> PICK k \in RowKey : rows[k] = "failed" /\ j = Job("retry", k[1], k[2])
          BY <3>3
        <4>1. j.attempt = k[2] /\ k[2] <= clicks + Tries
          BY DEF RunInv, Numbered, Job
        <4> QED BY <1>1, <3>0, <4>1
      <3> QED BY <1>2, <2>1, <3>1, <3>2, <3>3
    <2>2. \A k \in RowKey : rows'[k] # "none" => k[2] <= clicks' + Tries
      <3>1. \A k \in RowKey : k[2] \in Nat
        BY RowKeyParts, Numbers
      <3> QED BY <1>0, <1>1, <3>1, Numbers DEF RunInv, Numbered
    <2>3. \A d \in dead' : d.attempt <= clicks' + Tries
      <3>1. \A d \in dead : d.attempt \in Nat
        BY <1>0, Numbers DEF DeadRow
      <3> QED BY <1>0, <1>1, <3>1, Numbers DEF RunInv, Numbered
    <2> QED BY <2>1, <2>2, <2>3 DEF Numbered
  <1>7. GateRows' /\ NotBegun'
    BY <1>1, <1>3 DEF RunInv, GateRows, NotBegun
  <1> QED BY <1>4, <1>5, <1>6, <1>7 DEF RunInv

\* Clearing the dead letters keeps RunInv.
LEMMA ClearInv ==
    ASSUME RunInv, ClearDeadLetterQueue PROVE RunInv'
  <1> USE DEF RunInv
  <1>0. clicks \in 0 .. MaxClicks /\ MaxClicks \in Nat
    BY TypeParts, Numbers
  <1>1. /\ clicks' = clicks + 1 /\ clicks < MaxClicks /\ dead' = {}
        /\ UNCHANGED <<run, jobs, rows, gates, reading, reserved, decisions, started>>
    BY DEF ClearDeadLetterQueue
  <1>2. TypeOK'
    BY <1>0, <1>1, TypeParts, TypePartsNext
  <1>3. Numbered'
    <2>1. /\ \A j \in JobKey : j.attempt \in Nat
          /\ \A k \in RowKey : k[2] \in Nat
      BY JobParts, RowKeyParts, Numbers
    <2> QED BY <1>0, <1>1, <2>1, Numbers DEF Numbered
  <1>4. GateRows' /\ NotBegun' /\ IsFiniteSet(dead')
    BY <1>1, FS_EmptySet DEF GateRows, NotBegun, NoJobs, NoGates
  <1> QED BY <1>2, <1>3, <1>4

\* cancel_run keeps RunInv.
LEMMA CancelInv ==
    ASSUME RunInv, CancelRun PROVE RunInv'
  <1> USE DEF RunInv
  <1>0. run \in RunRow /\ rows \in RowTable
    BY TypeParts
  <1>1. /\ run' = [run EXCEPT !.status = "cancelled"] /\ reserved' = {}
        /\ rows' = [k \in RowKey |-> IF rows[k] \in OpenRow THEN "cancelled" ELSE rows[k]]
        /\ UNCHANGED <<jobs, gates, reading, dead, decisions, started, clicks>>
    BY DEF CancelRun
  <1>2. run' \in RunRow /\ run'.status = "cancelled"
    BY <1>0, <1>1 DEF RunRow, Terminal
  <1>3. rows' \in RowTable /\ \A k \in RowKey : rows'[k] # "none" => rows[k] # "none"
    BY <1>0, <1>1 DEF RowTable, OpenRow
  <1>4. TypeOK'
    BY <1>1, <1>2, <1>3, TypeParts, TypePartsNext
  <1>5. Numbered' /\ GateRows' /\ NotBegun'
    BY <1>1, <1>2, <1>3 DEF Numbered, GateRows, NotBegun
  <1> QED BY <1>1, <1>4, <1>5

\* RunInv holds before the run is started.
LEMMA RunInvInit == Init => RunInv
  <1> SUFFICES ASSUME Init PROVE RunInv
    OBVIOUS
  <1> USE DEF Init
  <1>0. First \in Stages
    BY GraphAssumption DEF Stages
  <1>1. run \in RunRow /\ rows \in RowTable /\ jobs \in [JobKey -> Nat]
    BY <1>0 DEF RunRow, RowTable
  <1>2. gates \in [GateIds -> GateRow]
    BY <1>0 DEF NoGate, GateRow
  <1>3. clicks \in 0 .. MaxClicks
    BY Numbers
  <1>4. TypeOK
    BY <1>1, <1>2, <1>3, TypeParts
  <1>5. IsFiniteSet(dead)
    BY FS_EmptySet
  <1>6. Numbered /\ GateRows /\ NotBegun
    BY DEF Numbered, GateRows, NotBegun, NoJobs, NoGates, NoGate
  <1> QED BY <1>4, <1>5, <1>6 DEF RunInv

\* Every step of the run keeps RunInv.
LEMMA RunInvStep == RunInv /\ [Next]_vars => RunInv'
  <1> SUFFICES ASSUME RunInv, [Next]_vars PROVE RunInv'
    OBVIOUS
  <1>1. CASE StartRun \/ CreateContentJob
    BY <1>1, StartInv
  <1>2. CASE ProcessJob
    BY <1>2, ProcessJobInv DEF ProcessJob
  <1>3. CASE ClaimRow
    BY <1>3, ClaimInv DEF ClaimRow
  <1>4. CASE EndTenure
    BY <1>4, SubmitSuccessInv, SubmitFailureInv, RecoverInv DEF EndTenure
  <1>5. CASE Review
    BY <1>5, DecideInv, TimeoutInv DEF Review
  <1>6. CASE Operator
    BY <1>6, RetryInv, ClearInv, CancelInv DEF Operator
  <1>7. CASE UNCHANGED vars
    BY <1>7 DEF vars, RunInv, TypeOK, Numbered, GateRows, NotBegun, NoJobs, NoGates
  <1> QED BY <1>1, <1>2, <1>3, <1>4, <1>5, <1>6, <1>7 DEF Next

\* The inductive invariant about the rows of a run holds throughout.
THEOREM RunInvariant == Spec => []RunInv
  BY RunInvInit, RunInvStep, PTL DEF Spec

\* Every row and counter of a run has its type; the attempt numbers stay below
\* their bound whatever retries, put-off dispatches, recoveries and operators do.
THEOREM RunTyped == Spec => []TypeOK
  <1>1. RunInv => TypeOK
    BY DEF RunInv
  <1> QED BY <1>1, RunInvariant, PTL

-----------------------------------------------------------------------------
(* One gate awaits a decision, with the retry button or without. *)

\* The steps that do not open a gate leave no more of them awaiting.
LEMMA GateSteps ==
    ASSUME RunInv, [Next]_vars
    PROVE  \/ \A g \in GateIds : gates'[g].status = "awaiting" => gates[g].status = "awaiting"
           \/ /\ NoGates(gates)
              /\ \E x \in GateIds :
                    \A g \in GateIds : gates'[g].status = "awaiting" => g = x
  <1>0. TypeOK /\ gates \in [GateIds -> GateRow] /\ run \in RunRow
    BY TypeParts DEF RunInv
  <1>1. ASSUME NEW STATE r, NEW STATE gs, NEW t, GoesOn(t, r, gs),
               \A g \in GateIds : gs[g].status = "awaiting" => gates[g].status = "awaiting"
        PROVE  \/ \A g \in GateIds : gates'[g].status = "awaiting" => gates[g].status = "awaiting"
               \/ /\ NoGates(gates)
                  /\ \E x \in GateIds :
                        \A g \in GateIds : gates'[g].status = "awaiting" => g = x
    <2>1. CASE OpensGate(t, gs)
      <3>1. PICK x \in Unused :
              \A g \in GateIds : gates'[g] = IF g = x THEN NewGate(t) ELSE gs[g]
        BY <2>1 DEF OpensGate
      <3>2. NoGates(gates) /\ x \in GateIds
        BY <2>1 DEF OpensGate, NoGates, Awaiting, Unused
      <3> QED BY <1>1, <3>1, <3>2 DEF NoGates
    <2>2. CASE gates' = gs
      BY <1>1, <2>2
    <2> QED BY <1>1, <2>1, <2>2 DEF GoesOn, Finishes, PassesGate, QueuesStage
  <1>2. CASE gates' = gates
    BY <1>2
  <1>3. CASE CreateContentJob
    <2>1. NoGates(gates)
      BY <1>3 DEF RunInv, NotBegun, CreateContentJob
    <2>2. PICK t \in OnSuccess[First] \cap ReviewStages : gates' = OpenGate(gates, t)
      BY <1>3 DEF CreateContentJob
    <2>3. Unused # {}
      BY <1>3 DEF CreateContentJob
    <2>4. t \in Stages
      BY DEF Stages
    <2>5. PICK x \in Unused :
            \A g \in GateIds : gates'[g] = IF g = x THEN NewGate(t) ELSE gates[g]
      BY <1>0, <2>2, <2>3, <2>4, GateOpened
    <2>6. x \in GateIds
      BY DEF Unused
    <2> QED BY <2>1, <2>5, <2>6 DEF NoGates
  <1>4. ASSUME NEW k \in RowKey, SubmitSuccess(k), gates' # gates
        PROVE  \/ \A g \in GateIds : gates'[g].status = "awaiting" => gates[g].status = "awaiting"
               \/ /\ NoGates(gates)
                  /\ \E x \in GateIds :
                        \A g \in GateIds : gates'[g].status = "awaiting" => g = x
    <2>1. AdvanceOrFinish(k[1], OnSuccess[k[1]], run, gates)
      BY <1>4, Zenon DEF SubmitSuccess
    <2>2. OnSuccess[k[1]] \subseteq Stages
      BY RowKeyParts, GraphAssumption
    <2>3. PICK t \in OnSuccess[k[1]] : GoesOn(t, run, gates)
      BY <1>0, <2>1, <2>2, Advance
    <2> QED BY <1>1, <2>3
  <1>5. ASSUME NEW g \in GateIds, NEW approved \in BOOLEAN, Decide(g, approved)
        PROVE  \/ \A h \in GateIds : gates'[h].status = "awaiting" => gates[h].status = "awaiting"
               \/ /\ NoGates(gates)
                  /\ \E x \in GateIds :
                        \A h \in GateIds : gates'[h].status = "awaiting" => h = x
    <2>1. \A h \in GateIds :
            Decided(g, approved)[h].status = "awaiting" => gates[h].status = "awaiting"
      BY <1>0, ResumeTypes
    <2>2. \/ gates' = Decided(g, approved)
          \/ \E t \in TargetsOf(gates[g].stage, approved) :
                GoesOn(t, ResumedRun, Decided(g, approved))
      BY <1>5, DecideEffect, Zenon
    <2> QED BY <1>1, <2>1, <2>2
  <1>6. ASSUME NEW g \in GateIds, TimeoutRead(g) \/ TimeoutWrite(g)
        PROVE  \A h \in GateIds : gates'[h].status = "awaiting" => gates[h].status = "awaiting"
    <2>0. gates[g] \in GateRow
      BY <1>0
    <2>1. CASE gates' = [gates EXCEPT ![g].timer = FALSE]
      BY <1>0, <2>0, <2>1 DEF GateRow
    <2>2. CASE gates' = [gates EXCEPT ![g].status = "escalated", ![g].level = 1]
      BY <1>0, <2>0, <2>2 DEF GateRow
    <2>3. CASE gates' = [gates EXCEPT ![g].status = "timed_out", ![g].timer = FALSE]
      BY <1>0, <2>0, <2>3 DEF GateRow
    <2> QED BY <1>6, <2>1, <2>2, <2>3 DEF TimeoutRead, TimeoutWrite
  <1>7. \/ gates' = gates \/ CreateContentJob
        \/ \E k \in RowKey : SubmitSuccess(k)
        \/ \E g \in GateIds : \E approved \in BOOLEAN : Decide(g, approved)
        \/ \E g \in GateIds : TimeoutRead(g) \/ TimeoutWrite(g)
    BY Zenon DEF Next, vars, StartRun, ProcessJob, Backpressure, Skipped, Idempotent,
         Dispatched, NoWorker, SpendHold, ClaimRow, Claim, ClaimOverBudget, EndTenure,
         SubmitFailure, Recover, Review, Operator, RetryFailedJobs, ClearDeadLetterQueue,
         CancelRun
  <1> QED BY <1>2, <1>3, <1>4, <1>5, <1>6, <1>7

\* At most one gate of a run awaits a decision, whatever workers, timeouts and
\* operators do: pause_for_review looks for one first, and its
\* scalar_one_or_none never meets two.
THEOREM OneGateAtATime == Spec => []OneGateAwaiting
  <1>1. Init => OneGateAwaiting
    BY DEF Init, OneGateAwaiting, Awaiting, NoGate
  <1>2. RunInv /\ OneGateAwaiting /\ [Next]_vars => OneGateAwaiting'
    BY GateSteps DEF OneGateAwaiting, Awaiting, NoGates
  <1> QED BY <1>1, <1>2, RunInvariant, PTL DEF Spec

-----------------------------------------------------------------------------
(* Nothing past a gate without an approval. *)

\* The dead letters belong to the invariant too: the retry button makes jobs
\* of them.
ReleaseInv ==
    /\ NothingReleasedUnapproved
    /\ Approvals = {} => \A d \in dead : d.stage \notin Released

\* The invariant with the sets Queued and Awaiting spelled out.
Held ==
    /\ run.stage \notin Released /\ run.status # "succeeded"
    /\ \A j \in JobKey : jobs[j] > 0 => j.stage \notin Released
    /\ \A k \in RowKey : rows[k] # "none" => k[1] \notin Released
    /\ \A g \in GateIds : gates[g].status = "awaiting" => gates[g].stage \notin Released
    /\ \A d \in dead : d.stage \notin Released

\* ReleaseInv says that a run without an approval is held.
LEMMA HeldIsReleaseInv ==
    /\ ReleaseInv <=> (Approvals = {} => Held)
    /\ ReleaseInv' <=> (Approvals' = {} => Held')
  <1>1. ReleaseInv <=> (Approvals = {} => Held)
    BY DEF ReleaseInv, NothingReleasedUnapproved, Held, Queued, Awaiting
  <1>2. ReleaseInv' <=> (Approvals' = {} => Held')
    BY DEF ReleaseInv, NothingReleasedUnapproved, Held, Queued, Awaiting
  <1> QED BY <1>1, <1>2

\* _advance_or_finish to a stage that is not released releases nothing.
LEMMA GoesOnHeld ==
    ASSUME RunInv, Held, NEW STATE r, NEW STATE gs, NEW t, GoesOn(t, r, gs), r \in RunRow,
           t \in Stages, t \notin Released, r.status # "succeeded",
           \A g \in GateIds : gs[g].status = "awaiting" => gates[g] = gs[g]
    PROVE  /\ run'.stage \notin Released /\ run'.status # "succeeded"
           /\ \A j \in JobKey : jobs'[j] > 0 => j.stage \notin Released
           /\ \A g \in GateIds : gates'[g].status = "awaiting" => gates'[g].stage \notin Released
  <1>1. run'.stage = t /\ (run'.status = "succeeded" => t \in Finals)
    BY GoesOnStatus
  <1>2. t \notin Finals
    BY ReleasedAssumption
  <1>3. TypeOK
    BY DEF RunInv
  <1>4. \A i \in JobKey : jobs'[i] > 0 => jobs[i] > 0 \/ i.stage = t
    BY <1>3, GoesOnRows
  <1>5. \A g \in GateIds : gates'[g] = gs[g] \/ gates'[g] = NewGate(t)
    BY <1>3, GoesOnRows
  <1>6. NewGate(t).stage = t
    BY DEF NewGate
  <1> QED BY <1>1, <1>2, <1>4, <1>5, <1>6 DEF Held

\* No step releases anything without an approval.
LEMMA ReleaseStep == RunInv /\ ReleaseInv /\ [Next]_vars => ReleaseInv'
  <1> SUFFICES ASSUME RunInv, ReleaseInv, [Next]_vars, Approvals' = {} PROVE Held'
    BY HeldIsReleaseInv
  <1>0. /\ TypeOK /\ run \in RunRow /\ gates \in [GateIds -> GateRow]
        /\ jobs \in [JobKey -> Nat] /\ rows \in RowTable /\ dead \in SUBSET DeadRow
    BY TypeParts DEF RunInv
  <1>1. decisions \subseteq decisions'
    BY Zenon DEF Next, vars, StartRun, CreateContentJob, ProcessJob, Backpressure, Skipped,
         Idempotent, Dispatched, NoWorker, SpendHold, ClaimRow, Claim, ClaimOverBudget,
         EndTenure, SubmitSuccess, SubmitFailure, Recover, Review, Decide,
         SubmitReviewDecision, TimeoutRead, TimeoutWrite, Operator, RetryFailedJobs,
         ClearDeadLetterQueue, CancelRun
  <1>2. Approvals = {}
    BY <1>1 DEF Approvals
  <1>3. Held
    BY <1>2, HeldIsReleaseInv
  <1>4. BadKey \notin Released /\ First \notin Released /\ First \in WorkStages
    BY GraphAssumption, ReleasedAssumption
  <1>5. OnSuccess[First] \cap Released = {}
    BY <1>4, ReleasedAssumption
  <1>6. CASE StartRun
    <2>1. \A i \in JobKey : jobs'[i] > 0 => jobs[i] > 0 \/ i.stage = First
      <3>1. 0 \in 0 .. MaxNumber /\ First \in WorkStages \cup {BadKey}
        BY <1>4, Numbers
      <3>2. PICK j \in JobKey : Adds(j, First, 0, jobs, EnqueueStage(First, 0))
        BY <1>0, <3>1, EnqueueAdds
      <3>3. jobs' = EnqueueStage(First, 0)
        BY <1>6 DEF StartRun
      <3> QED BY <3>2, <3>3 DEF Adds
    <2>2. run'.stage = run.stage /\ run'.status = "running"
      BY <1>0, <1>6 DEF StartRun, RunRow
    <2> QED BY <1>3, <1>4, <1>6, <2>1, <2>2 DEF StartRun, Held
  <1>7. CASE CreateContentJob
    <2>1. PICK t \in OnSuccess[First] \cap ReviewStages :
            /\ gates' = OpenGate(gates, t)
            /\ run' = [stage |-> t, status |-> "paused", pause |-> "review_gate"]
      BY <1>7 DEF CreateContentJob
    <2>2. t \in Stages /\ t \notin Released /\ Unused # {}
      BY <1>5, <1>7 DEF Stages, CreateContentJob
    <2>3. \A g \in GateIds : gates'[g] = NewGate(t) \/ gates'[g] = gates[g]
      BY <1>0, <2>1, <2>2, GateOpened
    <2>4. NewGate(t).stage = t /\ run'.stage = t /\ run'.status = "paused"
      BY <2>1 DEF NewGate
    <2> QED BY <1>3, <1>7, <2>2, <2>3, <2>4 DEF CreateContentJob, Held
  <1>8. ASSUME NEW j \in JobKey, jobs[j] > 0, Backpressure(j) PROVE Held'
    <2>1. j.stage \notin Released
      BY <1>3, <1>8 DEF Held
    <2>2. j.attempt \in Nat
      BY JobParts, Numbers
    <2>3. /\ Retire(j) \in [JobKey -> Nat]
          /\ \A i \in JobKey : Retire(j)[i] > 0 => jobs[i] > 0
      BY <1>0, <1>8, Retired
    <2>4. CASE j.attempt + 1 < NoWorkerMaxRetries
      <3> DEFINE i == [j EXCEPT !.attempt = @ + 1]
      <3>1. i \in JobKey /\ i.stage = j.stage
        <4>1. j.attempt + 1 \in 0 .. MaxNumber
          BY <2>2, <2>4, Numbers
        <4> QED BY <4>1 DEF JobKey
      <3>2. jobs' = [Retire(j) EXCEPT ![i] = @ + 1]
        BY <1>8, <2>4, Zenon DEF Backpressure
      <3>3. UNCHANGED <<rows, dead, run, gates>>
        BY <1>8, <2>4, Zenon DEF Backpressure
      <3> HIDE DEF i
      <3>4. \A x \in JobKey : jobs'[x] > 0 => jobs[x] > 0 \/ x = i
        BY <2>3, <3>1, <3>2
      <3> QED BY <1>3, <2>1, <3>1, <3>3, <3>4 DEF Held
    <2>5. CASE ~(j.attempt + 1 < NoWorkerMaxRetries)
      <3>1. /\ jobs' = Retire(j)
            /\ rows' = [k \in RowKey |-> IF k[1] = j.stage /\ rows[k] \in OpenRow
                                         THEN "cancelled" ELSE rows[k]]
            /\ dead' = dead \cup {DeadLetter("job_schedule", j.stage, j.attempt + 1)}
            /\ UNCHANGED <<run, gates>>
        BY <1>8, <2>5, Zenon DEF Backpressure
      <3>2. \A k \in RowKey : rows'[k] # "none" => rows[k] # "none"
        BY <3>1 DEF OpenRow
      <3>3. \A d \in dead' : d \in dead \/ d.stage = j.stage
        BY <3>1 DEF DeadLetter
      <3> QED BY <1>3, <2>1, <2>3, <3>1, <3>2, <3>3 DEF Held
    <2> QED BY <2>4, <2>5
  <1>9. ASSUME NEW j \in JobKey, Skipped(j) \/ Idempotent(j) PROVE Held'
    <2>1. jobs[j] > 0 /\ jobs' = Retire(j) /\ UNCHANGED <<run, rows, gates, dead>>
      BY <1>9 DEF Skipped, Idempotent, Dispatchable
    <2>2. \A i \in JobKey : jobs'[i] > 0 => jobs[i] > 0
      BY <1>0, <2>1, Retired
    <2> QED BY <1>3, <2>1, <2>2 DEF Held
  <1>10. ASSUME NEW j \in JobKey, Dispatched(j) \/ NoWorker(j) PROVE Held'
    <2>1. /\ jobs[j] > 0 /\ jobs' = Retire(j) /\ UNCHANGED <<run, gates, dead>>
          /\ rows' = [rows EXCEPT ![Key(j)] = "inflight"]
             \/ rows' = [rows EXCEPT ![Key(j)] = "pending"]
      BY <1>10 DEF Dispatched, NoWorker, Dispatchable
    <2>2. \A i \in JobKey : jobs'[i] > 0 => jobs[i] > 0
      BY <1>0, <2>1, Retired
    <2>3. \A k \in RowKey : rows'[k] # "none" => rows[k] # "none" \/ k = Key(j)
      BY <1>0, <2>1 DEF RowTable
    <2>4. Key(j)[1] = j.stage /\ j.stage \notin Released
      BY <1>3, <2>1 DEF Key, Held
    <2> QED BY <1>3, <2>1, <2>2, <2>3, <2>4 DEF Held
  <1>11. ASSUME NEW s, SpendRefused(s), UNCHANGED <<jobs, rows, gates, dead>> PROVE Held'
    <2>1. run'.stage = run.stage /\ run'.status = "paused"
      BY <1>0, <1>11 DEF SpendRefused, RunRow
    <2> QED BY <1>3, <1>11, <2>1 DEF Held
  <1>12. ASSUME NEW k \in RowKey, Claim(k) PROVE Held'
    <2>1. \A l \in RowKey : rows'[l] # "none" => rows[l] # "none"
      BY <1>0, <1>12 DEF Claim, RowTable
    <2> QED BY <1>3, <1>12, <2>1 DEF Claim, Held
  <1>13. ASSUME NEW k \in RowKey, SubmitSuccess(k) PROVE Held'
    <2>1. \A l \in RowKey : rows'[l] # "none" => rows[l] # "none"
      BY <1>0, <1>13 DEF SubmitSuccess, RowTable
    <2>2. dead' = dead
      BY <1>13 DEF SubmitSuccess
    <2>3. CASE run.status \in Terminal
      <3>1. UNCHANGED <<run, jobs, gates>>
        BY <1>13, <2>3, Zenon DEF SubmitSuccess
      <3> QED BY <1>3, <2>1, <2>2, <3>1 DEF Held
    <2>4. CASE run.status \notin Terminal
      <3>1. AdvanceOrFinish(k[1], OnSuccess[k[1]], run, gates)
        BY <1>13, <2>4, Zenon DEF SubmitSuccess
      <3>2. k[1] \in WorkStages /\ k[1] \notin Released
        BY <1>3, <1>13, RowKeyParts DEF SubmitSuccess, Held
      <3>3. OnSuccess[k[1]] \subseteq Stages /\ OnSuccess[k[1]] \cap Released = {}
        BY <3>2, GraphAssumption, ReleasedAssumption
      <3>4. PICK t \in OnSuccess[k[1]] : GoesOn(t, run, gates)
        BY <1>0, <3>1, <3>3, Advance
      <3>5. t \in Stages /\ t \notin Released /\ run.status # "succeeded"
        BY <1>3, <3>3 DEF Held
      <3>6. /\ run'.stage \notin Released /\ run'.status # "succeeded"
            /\ \A j \in JobKey : jobs'[j] > 0 => j.stage \notin Released
            /\ \A g \in GateIds : gates'[g].status = "awaiting" => gates'[g].stage \notin Released
        BY <1>0, <1>3, <3>4, <3>5, GoesOnHeld
      <3> QED BY <1>3, <2>1, <2>2, <3>6 DEF Held
    <2> QED BY <2>3, <2>4
  <1>14. ASSUME NEW k \in RowKey, NEW retryable \in BOOLEAN, SubmitFailure(k, retryable)
         PROVE  Held'
    <2>1. \A l \in RowKey : rows'[l] # "none" => rows[l] # "none"
      BY <1>0, <1>14 DEF SubmitFailure, RowTable
    <2>2. k[1] \notin Released /\ k[1] \in WorkStages \cup {BadKey} /\ k[2] \in 0 .. MaxNumber
      BY <1>3, <1>14, RowKeyParts, Numbers DEF SubmitFailure, Held
    <2>3. gates' = gates
      BY <1>14, Zenon DEF SubmitFailure
    <2>4. CASE retryable /\ MayRetry(k[2])
      <3>1. jobs' = EnqueueStage(k[1], k[2]) /\ UNCHANGED <<run, dead>>
        BY <1>14, <2>4, Zenon DEF SubmitFailure, RetryJob
      <3>2. \A i \in JobKey : jobs'[i] > 0 => jobs[i] > 0 \/ i.stage = k[1]
        <4>1. PICK j \in JobKey : Adds(j, k[1], k[2], jobs, EnqueueStage(k[1], k[2]))
          <5>1. k[1] \in WorkStages \cup {BadKey} /\ k[2] \in 0 .. MaxNumber /\ TypeOK
            BY <1>0, <2>2
          <5> QED BY <5>1, EnqueueAdds
        <4> QED BY <3>1, <4>1 DEF Adds
      <3> QED BY <1>3, <2>1, <2>2, <2>3, <3>1, <3>2 DEF Held
    <2>5. CASE ~(retryable /\ MayRetry(k[2]))
      <3>1. /\ dead' = dead \cup {DeadLetter("pipeline_runs", k[1], k[2])}
            /\ run' = [run EXCEPT !.status = "failed"] /\ jobs' = jobs
        BY <1>14, <2>5, Zenon DEF SubmitFailure, FailRun
      <3>2. \A d \in dead' : d \in dead \/ d.stage = k[1]
        BY <3>1 DEF DeadLetter
      <3>3. run'.stage = run.stage /\ run'.status = "failed"
        BY <1>0, <3>1 DEF RunRow
      <3> QED BY <1>3, <2>1, <2>2, <2>3, <3>1, <3>2, <3>3 DEF Held
    <2> QED BY <2>4, <2>5
  <1>15. ASSUME NEW k \in RowKey, Recover(k) PROVE Held'
    <2>1. k[1] \notin Released /\ rows[k] # "none"
      BY <1>3, <1>15 DEF Recover, Held
    <2>2. UNCHANGED <<jobs, gates>>
      BY <1>15, Zenon DEF Recover
    <2>3. run' = run \/ run' = [run EXCEPT !.status = "failed"]
      BY <1>15, Zenon DEF Recover, FailRun
    <2>4. run'.stage = run.stage /\ run'.status \in {run.status, "failed"}
      BY <1>0, <2>3 DEF RunRow
    <2>5. dead' = dead \/ dead' = dead \cup {DeadLetter("stage_assignments", k[1], k[2])}
      BY <1>15, Zenon DEF Recover
    <2>6. \A d \in dead' : d \in dead \/ d.stage = k[1]
      BY <2>5 DEF DeadLetter
    <2> DEFINE next == <<k[1], k[2] + 1>>
    <2>7. \/ rows' = [rows EXCEPT ![k] = "failed"]
          \/ rows' = [rows EXCEPT ![k] = "none", ![next] = "pending"]
      BY <1>15, Zenon DEF Recover
    <2>8. next[1] = k[1]
      OBVIOUS
    <2> HIDE DEF next
    <2>9. \A l \in RowKey : rows'[l] # "none" => rows[l] # "none" \/ l = next
      BY <1>0, <2>1, <2>7 DEF RowTable
    <2> QED BY <1>3, <2>1, <2>2, <2>4, <2>6, <2>8, <2>9 DEF Held
  <1>16. ASSUME NEW g \in GateIds, NEW approved \in BOOLEAN, Decide(g, approved) PROVE Held'
    <2>1. /\ gates[g].status = "awaiting" /\ gates[g].stage \in ReviewStages
          /\ decisions' = decisions \cup {<<g, approved>>}
          /\ UNCHANGED <<rows, dead>>
          /\ TargetsOf(gates[g].stage, approved) \subseteq Stages
      BY <1>16, DecideEffect, Zenon
    <2>2. approved = FALSE
      <3>1. approved => g \in Approvals'
        BY <2>1 DEF Approvals
      <3> QED BY <3>1
    <2>3. gates[g].stage \in ReviewStages \ Released
      BY <1>3, <2>1 DEF Held
    <2>4. TargetsOf(gates[g].stage, approved) \cap Released = {}
      BY <2>2, <2>3, ReleasedAssumption DEF TargetsOf
    <2>5. /\ ResumedRun \in RunRow /\ ResumedRun.status = "running"
          /\ \A h \in GateIds : h # g => Decided(g, approved)[h] = gates[h]
          /\ Decided(g, approved)[g].status # "awaiting"
      BY <1>0, ResumeTypes
    <2>6. CASE /\ run' = [run EXCEPT !.status = "failed", !.pause = "none"]
               /\ gates' = Decided(g, approved) /\ jobs' = jobs
      <3>1. run'.stage = run.stage /\ run'.status = "failed"
        BY <1>0, <2>6 DEF RunRow
      <3> QED BY <1>3, <2>1, <2>5, <2>6, <3>1 DEF Held
    <2>7. CASE \E t \in TargetsOf(gates[g].stage, approved) :
                  GoesOn(t, ResumedRun, Decided(g, approved))
      <3> PICK t \in TargetsOf(gates[g].stage, approved) :
                  GoesOn(t, ResumedRun, Decided(g, approved))
        BY <2>7
      <3>1. t \in Stages /\ t \notin Released
        BY <2>1, <2>4
      <3>2. ResumedRun.status # "succeeded"
        BY <2>5
      <3>3. \A h \in GateIds :
              Decided(g, approved)[h].status = "awaiting" => gates[h] = Decided(g, approved)[h]
        BY <2>5
      <3>4. /\ run'.stage \notin Released /\ run'.status # "succeeded"
            /\ \A j \in JobKey : jobs'[j] > 0 => j.stage \notin Released
            /\ \A h \in GateIds : gates'[h].status = "awaiting" => gates'[h].stage \notin Released
        BY <1>3, <2>5, <3>1, <3>2, <3>3, GoesOnHeld
      <3> QED BY <1>3, <2>1, <3>4 DEF Held
    <2> QED BY <1>16, <2>2, <2>6, <2>7, DecideEffect, Zenon
  <1>17. ASSUME NEW g \in GateIds, TimeoutRead(g) PROVE Held'
    <2>0. gates[g] \in GateRow
      BY <1>0
    <2>1. UNCHANGED <<run, jobs, rows, dead>>
      BY <1>17, Zenon DEF TimeoutRead
    <2>2. gates' = gates \/ gates' = [gates EXCEPT ![g].timer = FALSE]
      BY <1>17, Zenon DEF TimeoutRead
    <2>3. \A h \in GateIds : gates'[h].status = gates[h].status /\ gates'[h].stage = gates[h].stage
      BY <1>0, <2>0, <2>2 DEF GateRow
    <2> QED BY <1>3, <2>1, <2>3 DEF Held
  <1>18. ASSUME NEW g \in GateIds, TimeoutWrite(g) PROVE Held'
    <2>0. gates[g] \in GateRow /\ gates[g].level = 0
      BY <1>0, <1>18 DEF TimeoutWrite, RunInv, GateRows
    <2>1. UNCHANGED <<run, jobs, rows, dead>>
      BY <1>18, <2>0, Zenon DEF TimeoutWrite
    <2>2. gates' = [gates EXCEPT ![g].status = "escalated", ![g].level = 1]
      BY <1>18, <2>0, Zenon DEF TimeoutWrite
    <2>3. \A h \in GateIds : gates'[h].status = "awaiting" => gates'[h] = gates[h]
      BY <1>0, <2>0, <2>2 DEF GateRow
    <2> QED BY <1>3, <2>1, <2>3 DEF Held
  <1>19. CASE RetryFailedJobs
    <2>1. /\ dead' \in SUBSET dead /\ UNCHANGED <<rows, gates>>
          /\ run' = run \/ run' = [run EXCEPT !.status = "running"]
      BY <1>19, RetryEffect
    <2>2. run'.stage = run.stage /\ run'.status \in {run.status, "running"}
      BY <1>0, <2>1 DEF RunRow
    <2>3. \A j \in JobKey : jobs'[j] > 0 =>
                 \/ jobs[j] > 0
                 \/ \E d \in dead : j = RequeuedAs(d)
                 \/ \E k \in RowKey : rows[k] = "failed" /\ j = Job("retry", k[1], k[2])
      BY <1>19, RetryEffect, Zenon
    <2>4. \A d \in dead : RequeuedAs(d).stage \notin Released
      BY <1>0, <1>3, <1>4, RequeuedParts DEF Held
    <2>5. \A k \in RowKey : rows[k] = "failed" => Job("retry", k[1], k[2]).stage \notin Released
      BY <1>3 DEF Job, Held
    <2>6. \A j \in JobKey : jobs'[j] > 0 => j.stage \notin Released
      BY <1>3, <2>3, <2>4, <2>5 DEF Held
    <2> QED BY <1>3, <2>1, <2>2, <2>6 DEF Held
  <1>20. CASE ClearDeadLetterQueue
    BY <1>3, <1>20 DEF ClearDeadLetterQueue, Held
  <1>21. CASE CancelRun
    <2>1. run'.stage = run.stage /\ run'.status = "cancelled"
      BY <1>0, <1>21 DEF CancelRun, RunRow
    <2>2. \A k \in RowKey : rows'[k] # "none" => rows[k] # "none"
      BY <1>21 DEF CancelRun, OpenRow
    <2> QED BY <1>3, <1>21, <2>1, <2>2 DEF CancelRun, Held
  <1>22. CASE UNCHANGED vars
    BY <1>3, <1>22 DEF vars, Held
  <1>23. CASE ProcessJob
    <2> PICK j \in JobKey : \/ Backpressure(j) \/ Skipped(j) \/ Idempotent(j)
                            \/ Dispatched(j) \/ NoWorker(j) \/ SpendHold(j)
      BY <1>23, Zenon DEF ProcessJob
    <2>1. Backpressure(j) => jobs[j] > 0
      BY DEF Backpressure
    <2>2. SpendHold(j) => SpendRefused(j.stage) /\ UNCHANGED <<jobs, rows, gates, dead>>
      BY Zenon DEF SpendHold
    <2> QED BY <1>8, <1>9, <1>10, <1>11, <2>1, <2>2
  <1>24. CASE ClaimRow
    <2> PICK k \in RowKey : Claim(k) \/ ClaimOverBudget(k)
      BY <1>24, Zenon DEF ClaimRow
    <2>1. ClaimOverBudget(k) => SpendRefused(k[1]) /\ UNCHANGED <<jobs, rows, gates, dead>>
      BY Zenon DEF ClaimOverBudget
    <2> QED BY <1>11, <1>12, <2>1
  <1>25. CASE EndTenure
    BY <1>13, <1>14, <1>15, <1>25 DEF EndTenure
  <1>26. CASE Review
    BY <1>16, <1>17, <1>18, <1>26 DEF Review
  <1> QED BY <1>6, <1>7, <1>19, <1>20, <1>21, <1>22, <1>23, <1>24, <1>25, <1>26 DEF Next, Operator

\* ReleaseInv holds throughout.
THEOREM ReleaseInvariant == Spec => []ReleaseInv
  <1>1. Init => ReleaseInv
    BY ReleasedAssumption
       DEF Init, ReleaseInv, NothingReleasedUnapproved, Queued, Awaiting, NoGate
  <1> QED BY <1>1, ReleaseStep, RunInvariant, PTL DEF Spec

\* In any workflow whose released stages are entered only by an approval, no
\* run gets to one of them while no reviewer approved: neither workers nor
\* timeouts, dead letters and the buttons of an operator get it there.
THEOREM ApprovalComesFirst == Spec => []NothingReleasedUnapproved
  <1>1. ReleaseInv => NothingReleasedUnapproved
    BY DEF ReleaseInv
  <1> QED BY <1>1, ReleaseInvariant, PTL

-----------------------------------------------------------------------------
(* The one strand of a run that no operator has retried. *)

\* With r the run, q the jobs, a the assignments, gs the gates and v the stages
\* with a reservation: nothing is going on, or a job is queued, an assignment is
\* open or a gate is awaiting, each at the stage of the run, and nothing else.
AtRest(q, a, gs, v) == NoJobs(q) /\ NoRows(a) /\ NoGates(gs) /\ v = {}

AtJob(j, r, q, a, gs, v) ==
    /\ q[j] = 1 /\ \A i \in JobKey : i # j => q[i] = 0
    /\ j.stage = r.stage
    /\ NoRows(a) /\ NoGates(gs) /\ v = {}

AtRow(k, r, q, a, gs, v) ==
    /\ a[k] \in OpenRow /\ \A l \in RowKey : l # k => a[l] \notin OpenRow
    /\ k[1] = r.stage /\ r.status \notin Terminal
    /\ v = IF a[k] = "inflight" THEN {k[1]} ELSE {}
    /\ NoJobs(q) /\ NoGates(gs)

AtGate(g, r, q, a, gs, v) ==
    /\ gs[g].status = "awaiting"
    /\ \A h \in GateIds : h # g => gs[h].status # "awaiting"
    /\ gs[g].stage = r.stage /\ r.status # "running"
    /\ NoJobs(q) /\ NoRows(a) /\ v = {}

Strand(r, q, a, gs, v) ==
    \/ AtRest(q, a, gs, v)
    \/ \E j \in JobKey : AtJob(j, r, q, a, gs, v)
    \/ \E k \in RowKey : AtRow(k, r, q, a, gs, v)
    \/ \E g \in GateIds : AtGate(g, r, q, a, gs, v)

Token == clicks = 0 => Strand(run, jobs, rows, gates, reserved)

\* Anything that is going on is the strand.
LEMMA StrandAt ==
    ASSUME NEW r, NEW q, NEW a, NEW gs, NEW v, Strand(r, q, a, gs, v)
    PROVE  /\ \A j \in JobKey : q[j] > 0 => AtJob(j, r, q, a, gs, v)
           /\ \A k \in RowKey : a[k] \in OpenRow => AtRow(k, r, q, a, gs, v)
           /\ \A g \in GateIds : gs[g].status = "awaiting" => AtGate(g, r, q, a, gs, v)
  <1> USE DEF NoJobs, NoRows, NoGates
  <1>1. CASE AtRest(q, a, gs, v)
    BY <1>1 DEF AtRest
  <1>2. CASE \E j \in JobKey : AtJob(j, r, q, a, gs, v)
    <2> PICK j \in JobKey : AtJob(j, r, q, a, gs, v)
      BY <1>2
    <2>1. \A i \in JobKey : q[i] > 0 => i = j
      BY DEF AtJob
    <2> QED BY <2>1 DEF AtJob
  <1>3. CASE \E k \in RowKey : AtRow(k, r, q, a, gs, v)
    <2> PICK k \in RowKey : AtRow(k, r, q, a, gs, v)
      BY <1>3
    <2>1. \A l \in RowKey : a[l] \in OpenRow => l = k
      BY DEF AtRow
    <2>2. \A j \in JobKey : ~(q[j] > 0)
      BY DEF AtRow
    <2>3. \A g \in GateIds : gs[g].status # "awaiting"
      BY DEF AtRow
    <2> QED BY <2>1, <2>2, <2>3
  <1>4. CASE \E g \in GateIds : AtGate(g, r, q, a, gs, v)
    <2> PICK g \in GateIds : AtGate(g, r, q, a, gs, v)
      BY <1>4
    <2>1. \A h \in GateIds : gs[h].status = "awaiting" => h = g
      BY DEF AtGate
    <2>2. \A j \in JobKey : ~(q[j] > 0)
      BY DEF AtGate
    <2>3. \A k \in RowKey : a[k] \notin OpenRow
      BY DEF AtGate
    <2> QED BY <2>1, <2>2, <2>3
  <1> QED BY <1>1, <1>2, <1>3, <1>4 DEF Strand

\* When nothing else is left, _advance_or_finish makes the next strand.
LEMMA GoesOnStrand ==
    ASSUME NEW STATE r, NEW STATE gs, NEW t, GoesOn(t, r, gs), t \in Stages, r \in RunRow,
           NoJobs(jobs), NoRows(rows'), NoGates(gs), reserved' = {}
    PROVE  Strand(run', jobs', rows', gates', reserved')
  <1>0. run'.stage = t
    BY GoesOnStatus
  <1>1. CASE Finishes(t, r, gs) \/ PassesGate(t, r, gs)
    <2>1. jobs' = jobs /\ gates' = gs
      BY <1>1 DEF Finishes, PassesGate
    <2>2. AtRest(jobs', rows', gates', reserved')
      BY <2>1 DEF AtRest
    <2> QED BY <2>2 DEF Strand
  <1>2. CASE OpensGate(t, gs)
    <2>1. PICK x \in Unused :
            \A g \in GateIds : gates'[g] = IF g = x THEN NewGate(t) ELSE gs[g]
      BY <1>2 DEF OpensGate
    <2>2. x \in GateIds /\ jobs' = jobs /\ run'.status = "paused"
      BY <1>2 DEF OpensGate, Unused
    <2>3. AtGate(x, run', jobs', rows', gates', reserved')
      BY <1>0, <2>1, <2>2 DEF AtGate, NewGate, NoGates
    <2> QED BY <2>2, <2>3 DEF Strand
  <1>3. CASE QueuesStage(t, r, gs)
    <2>1. gates' = gs
      BY <1>3 DEF QueuesStage
    <2>2. PICK j \in JobKey :
            /\ j.stage = t /\ j.attempt = 0
            /\ \A i \in JobKey : jobs'[i] = IF i = j THEN jobs[j] + 1 ELSE jobs[i]
      BY <1>3 DEF QueuesStage
    <2>3. AtJob(j, run', jobs', rows', gates', reserved')
      BY <1>0, <2>1, <2>2 DEF AtJob, NoJobs
    <2> QED BY <2>3 DEF Strand
  <1> QED BY <1>1, <1>2, <1>3 DEF GoesOn

\* No step goes back in the use of the buttons.
LEMMA ClicksGrow ==
    ASSUME RunInv, [Next]_vars PROVE clicks' = 0 => clicks = 0 /\ clicks' = clicks
  <1>0. clicks \in Nat
    BY TypeParts, Numbers DEF RunInv
  <1>1. clicks' = clicks \/ clicks' = clicks + 1
    BY Zenon DEF Next, vars, StartRun, CreateContentJob, ProcessJob, Backpressure, Skipped,
         Idempotent, Dispatched, NoWorker, SpendHold, ClaimRow, Claim, ClaimOverBudget,
         EndTenure, SubmitSuccess, SubmitFailure, Recover, Review, Decide,
         TimeoutRead, TimeoutWrite, Operator, RetryFailedJobs,
         ClearDeadLetterQueue, CancelRun
  <1> QED BY <1>0, <1>1

\* The end of an assignment leaves nothing open.
LEMMA RowClosed ==
    ASSUME RunInv, NEW k \in RowKey, AtRow(k, run, jobs, rows, gates, reserved),
           NEW s \in {"completed", "failed", "cancelled"}, rows' = [rows EXCEPT ![k] = s]
    PROVE  NoRows(rows') /\ NoJobs(jobs) /\ NoGates(gates) /\ reserved \ {k[1]} = {}
  <1>1. rows \in RowTable
    BY TypeParts DEF RunInv
  <1> QED BY <1>1 DEF AtRow, NoRows, OpenRow, RowTable

\* Every step but a button keeps the strand one.
LEMMA TokenStep == RunInv /\ Token /\ [Next]_vars => Token'
  <1> SUFFICES ASSUME RunInv, Token, [Next]_vars, clicks' = 0
               PROVE  Strand(run', jobs', rows', gates', reserved')
    BY DEF Token
  <1>0. /\ TypeOK /\ run \in RunRow /\ gates \in [GateIds -> GateRow]
        /\ jobs \in [JobKey -> Nat] /\ rows \in RowTable /\ dead \in SUBSET DeadRow
    BY TypeParts DEF RunInv
  <1>1. clicks = 0 /\ clicks' = clicks
    BY ClicksGrow
  <1>2. Strand(run, jobs, rows, gates, reserved)
    BY <1>1 DEF Token
  <1>3. /\ \A j \in JobKey : jobs[j] > 0 => AtJob(j, run, jobs, rows, gates, reserved)
        /\ \A k \in RowKey : rows[k] \in OpenRow => AtRow(k, run, jobs, rows, gates, reserved)
        /\ \A g \in GateIds : gates[g].status = "awaiting"
                                => AtGate(g, run, jobs, rows, gates, reserved)
    BY <1>2, StrandAt
  <1>4. First \in WorkStages
    BY GraphAssumption
  <1>5. CASE StartRun
    <2>1. NoJobs(jobs) /\ NoGates(gates) /\ reserved = {} /\ run.stage = First /\ NoRows(rows)
      BY <1>5 DEF StartRun, RunInv, NotBegun, NoRows, OpenRow
    <2>2. 0 \in 0 .. MaxNumber /\ First \in WorkStages \cup {BadKey}
      BY <1>4, Numbers
    <2>3. PICK j \in JobKey : Adds(j, First, 0, jobs, EnqueueStage(First, 0))
      BY <1>0, <2>2, EnqueueAdds
    <2>4. run'.stage = run.stage
      BY <1>0, <1>5 DEF StartRun, RunRow
    <2>5. AtJob(j, run', jobs', rows', gates', reserved')
      BY <1>5, <2>1, <2>3, <2>4 DEF StartRun, Adds, AtJob, NoJobs
    <2> QED BY <2>5 DEF Strand
  <1>6. CASE CreateContentJob
    <2>1. NoJobs(jobs) /\ NoGates(gates) /\ reserved = {} /\ NoRows(rows)
      BY <1>6 DEF CreateContentJob, RunInv, NotBegun, NoRows, OpenRow
    <2>2. PICK t \in OnSuccess[First] \cap ReviewStages :
            /\ gates' = OpenGate(gates, t)
            /\ run' = [stage |-> t, status |-> "paused", pause |-> "review_gate"]
      BY <1>6 DEF CreateContentJob
    <2>3. t \in Stages /\ Unused # {}
      BY <1>6 DEF Stages, CreateContentJob
    <2>4. PICK x \in Unused :
            \A g \in GateIds : gates'[g] = IF g = x THEN NewGate(t) ELSE gates[g]
      BY <1>0, <2>2, <2>3, GateOpened
    <2>5. x \in GateIds /\ run'.stage = t /\ run'.status = "paused"
      BY <2>2 DEF Unused
    <2>6. AtGate(x, run', jobs', rows', gates', reserved')
      BY <1>6, <2>1, <2>4, <2>5 DEF CreateContentJob, AtGate, NewGate, NoGates
    <2> QED BY <2>5, <2>6 DEF Strand
  <1>7. ASSUME NEW j \in JobKey, Backpressure(j)
        PROVE  Strand(run', jobs', rows', gates', reserved')
    <2>1. jobs[j] > 0 /\ j.attempt \in Nat
      BY <1>7, JobParts, Numbers DEF Backpressure
    <2>2. AtJob(j, run, jobs, rows, gates, reserved)
      BY <1>3, <2>1
    <2>3. \A i \in JobKey : Retire(j)[i] = 0
      BY <1>0, <2>1, <2>2, Retired DEF AtJob
    <2>4. CASE j.attempt + 1 < NoWorkerMaxRetries
      <3> DEFINE i == [j EXCEPT !.attempt = @ + 1]
      <3>1. i \in JobKey /\ i.stage = j.stage
        <4>1. j.attempt + 1 \in 0 .. MaxNumber
          BY <2>1, <2>4, Numbers
        <4> QED BY <4>1 DEF JobKey
      <3>2. jobs' = [Retire(j) EXCEPT ![i] = @ + 1]
        BY <1>7, <2>4, Zenon DEF Backpressure
      <3>3. UNCHANGED <<rows, reserved, run, gates>>
        BY <1>7, <2>4, Zenon DEF Backpressure
      <3> HIDE DEF i
      <3>4. \A x \in JobKey : jobs'[x] = IF x = i THEN 1 ELSE 0
        <4>1. Retire(j) \in [JobKey -> Nat]
          BY <1>0, <2>1, Retired
        <4> QED BY <2>3, <3>1, <3>2, <4>1
      <3>5. AtJob(i, run', jobs', rows', gates', reserved')
        BY <2>2, <3>1, <3>3, <3>4 DEF AtJob
      <3> QED BY <3>1, <3>5 DEF Strand
    <2>5. CASE ~(j.attempt + 1 < NoWorkerMaxRetries)
      <3>1. /\ jobs' = Retire(j) /\ reserved' = {}
            /\ rows' = [k \in RowKey |-> IF k[1] = j.stage /\ rows[k] \in OpenRow
                                         THEN "cancelled" ELSE rows[k]]
            /\ UNCHANGED <<run, gates>>
        BY <1>7, <2>5, Zenon DEF Backpressure
      <3>2. AtRest(jobs', rows', gates', reserved')
        BY <2>2, <2>3, <3>1 DEF AtJob, AtRest, NoJobs, NoRows
      <3> QED BY <3>2 DEF Strand
    <2> QED BY <2>4, <2>5
  <1>8. ASSUME NEW j \in JobKey, Skipped(j) \/ Idempotent(j)
        PROVE  Strand(run', jobs', rows', gates', reserved')
    <2>1. jobs[j] > 0 /\ jobs' = Retire(j) /\ UNCHANGED <<run, rows, gates, reserved>>
      BY <1>8 DEF Skipped, Idempotent, Dispatchable
    <2>2. AtJob(j, run, jobs, rows, gates, reserved)
      BY <1>3, <2>1
    <2>3. AtRest(jobs', rows', gates', reserved')
      BY <1>0, <2>1, <2>2, Retired DEF AtJob, AtRest, NoJobs
    <2> QED BY <2>3 DEF Strand
  <1>9. ASSUME NEW j \in JobKey, Dispatched(j) \/ NoWorker(j)
        PROVE  Strand(run', jobs', rows', gates', reserved')
    <2>1. /\ jobs[j] > 0 /\ jobs' = Retire(j) /\ UNCHANGED <<run, gates>> /\ Dispatchable(j)
          /\ \/ /\ rows' = [rows EXCEPT ![Key(j)] = "inflight"]
                /\ reserved' = reserved \cup {j.stage}
             \/ rows' = [rows EXCEPT ![Key(j)] = "pending"] /\ reserved' = reserved
      BY <1>9 DEF Dispatched, NoWorker, Dispatchable
    <2>2. AtJob(j, run, jobs, rows, gates, reserved)
      BY <1>3, <2>1
    <2>3. Key(j) \in RowKey /\ Key(j)[1] = j.stage
      <3>1. j.stage \in WorkStages
        BY <2>1, JobParts DEF Dispatchable, TickRaises
      <3>2. j.attempt + 1 \in 1 .. MaxNumber
        BY <1>1, <2>1, JobParts, Numbers DEF RunInv, Numbered
      <3> QED BY <3>1, <3>2 DEF Key, RowKey
    <2>4. NoJobs(jobs')
      BY <1>0, <2>1, <2>2, Retired DEF AtJob, NoJobs
    <2>5. run.status \notin Terminal
      BY <2>1 DEF Dispatchable, Terminal
    <2>6. AtRow(Key(j), run', jobs', rows', gates', reserved')
      BY <1>0, <2>1, <2>2, <2>3, <2>4, <2>5 DEF AtJob, AtRow, NoRows, OpenRow, RowTable
    <2> QED BY <2>3, <2>6 DEF Strand
  <1>10. ASSUME NEW j \in JobKey, SpendHold(j)
         PROVE  Strand(run', jobs', rows', gates', reserved')
    <2>1. /\ jobs[j] > 0 /\ UNCHANGED <<jobs, rows, gates>>
          /\ reserved' = reserved \ {j.stage}
          /\ run' = [run EXCEPT !.status = "paused", !.pause = "spend_hold"]
      BY <1>10 DEF SpendHold, SpendRefused, Dispatchable
    <2>2. AtJob(j, run, jobs, rows, gates, reserved)
      BY <1>3, <2>1
    <2>3. run'.stage = run.stage
      BY <1>0, <2>1 DEF RunRow
    <2>4. AtJob(j, run', jobs', rows', gates', reserved')
      BY <2>1, <2>2, <2>3 DEF AtJob
    <2> QED BY <2>4 DEF Strand
  <1>11. ASSUME NEW k \in RowKey, Claim(k)
         PROVE  Strand(run', jobs', rows', gates', reserved')
    <2>1. AtRow(k, run, jobs, rows, gates, reserved) /\ rows[k] = "pending"
      BY <1>3, <1>11 DEF Claim, OpenRow
    <2>2. AtRow(k, run', jobs', rows', gates', reserved')
      BY <1>0, <1>11, <2>1 DEF Claim, AtRow, OpenRow, RowTable
    <2> QED BY <2>2 DEF Strand
  <1>12. ASSUME NEW k \in RowKey, ClaimOverBudget(k)
         PROVE  Strand(run', jobs', rows', gates', reserved')
    <2>1. AtRow(k, run, jobs, rows, gates, reserved) /\ rows[k] = "pending"
      BY <1>3, <1>12 DEF ClaimOverBudget, OpenRow
    <2>2. /\ UNCHANGED <<jobs, rows, gates>> /\ reserved' = reserved \ {k[1]}
          /\ run' = [run EXCEPT !.status = "paused", !.pause = "spend_hold"]
      BY <1>12, Zenon DEF ClaimOverBudget, SpendRefused
    <2>3. run'.stage = run.stage /\ run'.status \notin Terminal
      BY <1>0, <2>2 DEF RunRow, Terminal
    <2>4. AtRow(k, run', jobs', rows', gates', reserved')
      BY <2>1, <2>2, <2>3 DEF AtRow
    <2> QED BY <2>4 DEF Strand
  <1>13. ASSUME NEW k \in RowKey, SubmitSuccess(k)
         PROVE  Strand(run', jobs', rows', gates', reserved')
    <2>1. AtRow(k, run, jobs, rows, gates, reserved)
      BY <1>3, <1>13 DEF SubmitSuccess, OpenRow
    <2>2. /\ rows' = [rows EXCEPT ![k] = "completed"] /\ reserved' = reserved \ {k[1]}
          /\ run.status \notin Terminal
      BY <1>13, <2>1 DEF SubmitSuccess, AtRow
    <2>3. NoRows(rows') /\ NoJobs(jobs) /\ NoGates(gates) /\ reserved' = {}
      BY <2>1, <2>2, RowClosed
    <2>4. AdvanceOrFinish(k[1], OnSuccess[k[1]], run, gates)
      BY <1>13, <2>2, Zenon DEF SubmitSuccess
    <2>5. OnSuccess[k[1]] \subseteq Stages
      BY RowKeyParts, GraphAssumption
    <2>6. PICK t \in OnSuccess[k[1]] : GoesOn(t, run, gates)
      BY <1>0, <2>4, <2>5, Advance
    <2> QED BY <1>0, <2>3, <2>5, <2>6, GoesOnStrand
  <1>14. ASSUME NEW k \in RowKey, NEW retryable \in BOOLEAN, SubmitFailure(k, retryable)
         PROVE  Strand(run', jobs', rows', gates', reserved')
    <2>1. AtRow(k, run, jobs, rows, gates, reserved)
      BY <1>3, <1>14 DEF SubmitFailure, OpenRow
    <2>2. rows' = [rows EXCEPT ![k] = "failed"] /\ gates' = gates
      BY <1>14, Zenon DEF SubmitFailure
    <2>3. NoRows(rows') /\ NoJobs(jobs) /\ NoGates(gates) /\ reserved \ {k[1]} = {}
      BY <2>1, <2>2, RowClosed
    <2>4. CASE retryable /\ MayRetry(k[2])
      <3>1. /\ jobs' = EnqueueStage(k[1], k[2]) /\ reserved' = reserved \ {k[1]} /\ run' = run
        BY <1>14, <2>4, Zenon DEF SubmitFailure, RetryJob
      <3>2. k[1] \in WorkStages \cup {BadKey} /\ k[2] \in 0 .. MaxNumber
        BY RowKeyParts, Numbers
      <3>3. PICK j \in JobKey : Adds(j, k[1], k[2], jobs, EnqueueStage(k[1], k[2]))
        BY <1>0, <3>2, EnqueueAdds
      <3>4. k[1] = run.stage
        BY <2>1 DEF AtRow
      <3>5. AtJob(j, run', jobs', rows', gates', reserved')
        BY <2>2, <2>3, <3>1, <3>3, <3>4 DEF Adds, AtJob, NoJobs
      <3> QED BY <3>5 DEF Strand
    <2>5. CASE ~(retryable /\ MayRetry(k[2]))
      <3>1. jobs' = jobs /\ reserved' = {}
        BY <1>14, <2>5, Zenon DEF SubmitFailure, FailRun
      <3>2. AtRest(jobs', rows', gates', reserved')
        BY <2>2, <2>3, <3>1 DEF AtRest
      <3> QED BY <3>2 DEF Strand
    <2> QED BY <2>4, <2>5
  <1>15. ASSUME NEW k \in RowKey, Recover(k)
         PROVE  Strand(run', jobs', rows', gates', reserved')
    <2>1. AtRow(k, run, jobs, rows, gates, reserved) /\ rows[k] = "inflight"
      BY <1>3, <1>15 DEF Recover, OpenRow
    <2>2. UNCHANGED <<jobs, gates>> /\ run.status \notin Terminal
      BY <1>15, <2>1 DEF Recover, AtRow
    <2>3. CASE k[2] + 1 > MaxAttempts
      <3>1. rows' = [rows EXCEPT ![k] = "failed"] /\ reserved' = {}
        BY <1>15, <2>2, <2>3, Zenon DEF Recover, FailRun
      <3>2. NoRows(rows') /\ NoJobs(jobs) /\ NoGates(gates)
        BY <2>1, <3>1, RowClosed
      <3>3. AtRest(jobs', rows', gates', reserved')
        BY <2>2, <3>1, <3>2 DEF AtRest
      <3> QED BY <3>3 DEF Strand
    <2>4. CASE ~(k[2] + 1 > MaxAttempts)
      <3> DEFINE next == <<k[1], k[2] + 1>>
      <3>1. /\ rows' = [rows EXCEPT ![k] = "none", ![next] = "pending"]
            /\ reserved' = reserved \ {k[1]} /\ run' = run
        BY <1>15, <2>4, Zenon DEF Recover
      <3>2. next \in RowKey /\ next[1] = k[1] /\ next # k
        <4>1. k[2] + 1 \in 1 .. MaxNumber /\ k[2] \in Nat
          BY <1>1, <2>4, RowKeyParts, Numbers
        <4> QED BY <4>1, RowKeyParts DEF RowKey
      <3> HIDE DEF next
      <3>3. \A l \in RowKey : rows'[l] = IF l = next THEN "pending"
                                         ELSE IF l = k THEN "none" ELSE rows[l]
        BY <1>0, <3>1, <3>2 DEF RowTable
      <3>4. AtRow(next, run', jobs', rows', gates', reserved')
        <4>1. rows'[next] = "pending" /\ \A l \in RowKey : l # next => rows'[l] \notin OpenRow
          BY <2>1, <3>2, <3>3 DEF AtRow, OpenRow
        <4>2. /\ next[1] = run'.stage /\ run'.status \notin Terminal
              /\ NoJobs(jobs') /\ NoGates(gates') /\ reserved' = {}
          BY <2>1, <2>2, <3>1, <3>2 DEF AtRow
        <4> QED BY <4>1, <4>2 DEF AtRow, OpenRow
      <3> QED BY <3>2, <3>4 DEF Strand
    <2> QED BY <2>3, <2>4
  <1>16. ASSUME NEW g \in GateIds, NEW approved \in BOOLEAN, Decide(g, approved)
         PROVE  Strand(run', jobs', rows', gates', reserved')
    <2>1. /\ gates[g].status = "awaiting" /\ rows' = rows
          /\ TargetsOf(gates[g].stage, approved) \subseteq Stages
      BY <1>16, DecideEffect, Zenon
    <2>2. AtGate(g, run, jobs, rows, gates, reserved)
      BY <1>3, <2>1
    <2>3. ResumedRun \in RunRow /\ NoGates(Decided(g, approved))
      BY <1>0, <2>2, ResumeTypes DEF AtGate, NoGates
    <2>4. NoJobs(jobs) /\ NoRows(rows') /\ reserved = {}
      BY <2>1, <2>2 DEF AtGate
    <2>5. CASE /\ gates' = Decided(g, approved) /\ jobs' = jobs
               /\ reserved' = reserved \/ reserved' = {}
      <3>1. AtRest(jobs', rows', gates', reserved')
        BY <2>3, <2>4, <2>5 DEF AtRest
      <3> QED BY <3>1 DEF Strand
    <2>6. CASE /\ \E t \in TargetsOf(gates[g].stage, approved) :
                     GoesOn(t, ResumedRun, Decided(g, approved))
               /\ reserved' = reserved
      <3> PICK t \in TargetsOf(gates[g].stage, approved) :
                  GoesOn(t, ResumedRun, Decided(g, approved))
        BY <2>6
      <3>1. t \in Stages /\ reserved' = {}
        BY <2>1, <2>4, <2>6
      <3> QED BY <2>3, <2>4, <3>1, GoesOnStrand
    <2> QED BY <1>16, <2>5, <2>6, DecideEffect, Zenon
  <1>17. ASSUME NEW g \in GateIds, TimeoutRead(g) \/ TimeoutWrite(g)
         PROVE  Strand(run', jobs', rows', gates', reserved')
    <2>0. gates[g] \in GateRow /\ (TimeoutWrite(g) => gates[g].level = 0)
      BY <1>0, <1>17 DEF TimeoutWrite, RunInv, GateRows
    <2>1. UNCHANGED <<run, jobs, rows, reserved>>
      BY <1>17, <2>0, Zenon DEF TimeoutRead, TimeoutWrite
    <2>2. \/ gates' = gates \/ gates' = [gates EXCEPT ![g].timer = FALSE]
          \/ gates' = [gates EXCEPT ![g].status = "escalated", ![g].level = 1]
      BY <1>17, <2>0, Zenon DEF TimeoutRead, TimeoutWrite
    <2>3. \/ \A h \in GateIds : gates'[h].status = gates[h].status
                                /\ gates'[h].stage = gates[h].stage
          \/ /\ gates'[g].status = "escalated"
             /\ \A h \in GateIds : h # g => gates'[h] = gates[h]
      BY <1>0, <2>0, <2>2 DEF GateRow
    <2>4. CASE AtRest(jobs, rows, gates, reserved)
      <3>1. AtRest(jobs', rows', gates', reserved')
        BY <2>1, <2>3, <2>4 DEF AtRest, NoGates
      <3> QED BY <3>1 DEF Strand
    <2>5. CASE \E j \in JobKey : AtJob(j, run, jobs, rows, gates, reserved)
      <3> PICK j \in JobKey : AtJob(j, run, jobs, rows, gates, reserved)
        BY <2>5
      <3>1. AtJob(j, run', jobs', rows', gates', reserved')
        BY <2>1, <2>3 DEF AtJob, NoGates
      <3> QED BY <3>1 DEF Strand
    <2>6. CASE \E k \in RowKey : AtRow(k, run, jobs, rows, gates, reserved)
      <3> PICK k \in RowKey : AtRow(k, run, jobs, rows, gates, reserved)
        BY <2>6
      <3>1. AtRow(k, run', jobs', rows', gates', reserved')
        BY <2>1, <2>3 DEF AtRow, NoGates
      <3> QED BY <3>1 DEF Strand
    <2>7. CASE \E x \in GateIds : AtGate(x, run, jobs, rows, gates, reserved)
      <3> PICK x \in GateIds : AtGate(x, run, jobs, rows, gates, reserved)
        BY <2>7
      <3>1. CASE \A h \in GateIds : gates'[h].status = gates[h].status
                                    /\ gates'[h].stage = gates[h].stage
        <4>1. AtGate(x, run', jobs', rows', gates', reserved')
          BY <2>1, <3>1 DEF AtGate
        <4> QED BY <4>1 DEF Strand
      <3>2. CASE /\ gates'[g].status = "escalated"
                 /\ \A h \in GateIds : h # g => gates'[h] = gates[h]
        <4>1. CASE x = g
          <5>1. AtRest(jobs', rows', gates', reserved')
            BY <2>1, <3>2, <4>1 DEF AtGate, AtRest, NoGates
          <5> QED BY <5>1 DEF Strand
        <4>2. CASE x # g
          <5>1. AtGate(x, run', jobs', rows', gates', reserved')
            BY <2>1, <3>2, <4>2 DEF AtGate
          <5> QED BY <5>1 DEF Strand
        <4> QED BY <4>1, <4>2
      <3> QED BY <2>3, <3>1, <3>2
    <2> QED BY <1>2, <2>4, <2>5, <2>6, <2>7 DEF Strand
  <1>18. CASE RetryFailedJobs \/ ClearDeadLetterQueue
    <2>1. clicks' = clicks + 1
      BY <1>18, Zenon DEF RetryFailedJobs, ClearDeadLetterQueue
    <2> QED BY <1>1, <2>1
  <1>19. CASE CancelRun
    <2>1. /\ UNCHANGED <<jobs, gates>> /\ reserved' = {}
          /\ run' = [run EXCEPT !.status = "cancelled"]
          /\ rows' = [k \in RowKey |-> IF rows[k] \in OpenRow THEN "cancelled" ELSE rows[k]]
      BY <1>19 DEF CancelRun
    <2>2. run'.stage = run.stage /\ run'.status = "cancelled"
      BY <1>0, <2>1 DEF RunRow
    <2>3. NoRows(rows')
      BY <2>1 DEF NoRows, OpenRow
    <2>4. CASE AtRest(jobs, rows, gates, reserved)
               \/ \E k \in RowKey : AtRow(k, run, jobs, rows, gates, reserved)
      <3>1. AtRest(jobs', rows', gates', reserved')
        BY <2>1, <2>3, <2>4 DEF AtRest, AtRow
      <3> QED BY <3>1 DEF Strand
    <2>5. CASE \E j \in JobKey : AtJob(j, run, jobs, rows, gates, reserved)
      <3> PICK j \in JobKey : AtJob(j, run, jobs, rows, gates, reserved)
        BY <2>5
      <3>1. AtJob(j, run', jobs', rows', gates', reserved')
        BY <2>1, <2>2, <2>3 DEF AtJob
      <3> QED BY <3>1 DEF Strand
    <2>6. CASE \E g \in GateIds : AtGate(g, run, jobs, rows, gates, reserved)
      <3> PICK g \in GateIds : AtGate(g, run, jobs, rows, gates, reserved)
        BY <2>6
      <3>1. AtGate(g, run', jobs', rows', gates', reserved')
        BY <2>1, <2>2, <2>3 DEF AtGate
      <3> QED BY <3>1 DEF Strand
    <2> QED BY <1>2, <2>4, <2>5, <2>6 DEF Strand
  <1>20. CASE UNCHANGED vars
    BY <1>2, <1>20 DEF vars
  <1>21. CASE ProcessJob
    BY <1>7, <1>8, <1>9, <1>10, <1>21 DEF ProcessJob
  <1>22. CASE ClaimRow
    BY <1>11, <1>12, <1>22 DEF ClaimRow
  <1>23. CASE EndTenure
    BY <1>13, <1>14, <1>15, <1>23 DEF EndTenure
  <1>24. CASE Review
    BY <1>16, <1>17, <1>24 DEF Review
  <1> QED BY <1>5, <1>6, <1>18, <1>19, <1>20, <1>21, <1>22, <1>23, <1>24 DEF Next, Operator

\* Token holds throughout.
THEOREM TokenInvariant == Spec => []Token
  <1>1. Init => Token
    <2> SUFFICES ASSUME Init PROVE AtRest(jobs, rows, gates, reserved)
      BY DEF Token, Strand
    <2> QED BY DEF Init, AtRest, NoJobs, NoRows, NoGates, NoGate, OpenRow
  <1> QED BY <1>1, TokenStep, RunInvariant, PTL DEF Spec

\* Until an operator uses a dead-letter button a run has at most one thing going
\* on, in every workflow: one job, one open assignment or one awaiting gate.
THEOREM OneThingAtATime == Spec => []OneToken
  <1>1. RunInv /\ Token => OneToken
    <2> SUFFICES ASSUME RunInv, Token, clicks = 0
                 PROVE  /\ \A j \in Queued : jobs[j] = 1
                        /\ Cardinality(Queued) + Cardinality(Open) + Cardinality(Awaiting) <= 1
      BY DEF OneToken
    <2>0. jobs \in [JobKey -> Nat]
      BY TypeParts DEF RunInv
    <2>1. Cardinality({}) = 0
      BY FS_EmptySet
    <2>2. CASE AtRest(jobs, rows, gates, reserved)
      <3>1. Queued = {} /\ Open = {} /\ Awaiting = {}
        BY <2>2 DEF AtRest, NoJobs, NoRows, NoGates, Queued, Open, Awaiting
      <3> QED BY <2>1, <3>1
    <2>3. CASE \E j \in JobKey : AtJob(j, run, jobs, rows, gates, reserved)
      <3> PICK j \in JobKey : AtJob(j, run, jobs, rows, gates, reserved)
        BY <2>3
      <3>1. Queued = {j} /\ Open = {} /\ Awaiting = {} /\ jobs[j] = 1
        BY DEF AtJob, NoRows, NoGates, Queued, Open, Awaiting
      <3>2. Cardinality({j}) = 1
        BY FS_Singleton
      <3>3. Cardinality(Queued) + Cardinality(Open) + Cardinality(Awaiting) = 1
        BY <2>1, <3>1, <3>2
      <3> QED BY <3>1, <3>3
    <2>4. CASE \E k \in RowKey : AtRow(k, run, jobs, rows, gates, reserved)
      <3> PICK k \in RowKey : AtRow(k, run, jobs, rows, gates, reserved)
        BY <2>4
      <3>1. Queued = {} /\ Open = {k} /\ Awaiting = {}
        BY DEF AtRow, NoJobs, NoGates, Queued, Open, Awaiting
      <3>2. Cardinality({k}) = 1
        BY FS_Singleton
      <3>3. Cardinality(Queued) + Cardinality(Open) + Cardinality(Awaiting) = 1
        BY <2>1, <3>1, <3>2
      <3> QED BY <3>1, <3>3
    <2>5. CASE \E g \in GateIds : AtGate(g, run, jobs, rows, gates, reserved)
      <3> PICK g \in GateIds : AtGate(g, run, jobs, rows, gates, reserved)
        BY <2>5
      <3>1. Queued = {} /\ Open = {} /\ Awaiting = {g}
        BY DEF AtGate, NoJobs, NoRows, Queued, Open, Awaiting
      <3>2. Cardinality({g}) = 1
        BY FS_Singleton
      <3>3. Cardinality(Queued) + Cardinality(Open) + Cardinality(Awaiting) = 1
        BY <2>1, <3>1, <3>2
      <3> QED BY <3>1, <3>3
    <2> QED BY <2>2, <2>3, <2>4, <2>5 DEF Token, Strand
  <1> QED BY <1>1, RunInvariant, TokenInvariant, PTL

\* Until an operator uses a dead-letter button, money is reserved exactly for
\* the stages a worker is working on, in every workflow: dispatch, claim,
\* result, recovery, a refused budget, cancellation and failure agree on it.
THEOREM ReservationsMatchWork == Spec => []ReservedIffInFlight
  <1>1. Token => ReservedIffInFlight
    <2> SUFFICES ASSUME Token, clicks = 0 PROVE reserved = {k[1] : k \in InFlight}
      BY DEF ReservedIffInFlight
    <2>1. CASE \A k \in RowKey : rows[k] # "inflight"
      <3>1. InFlight = {}
        BY <2>1 DEF InFlight
      <3>2. reserved = {}
        BY <2>1 DEF Token, Strand, AtRest, AtJob, AtRow, AtGate
      <3> QED BY <3>1, <3>2
    <2>2. CASE \E k \in RowKey : rows[k] = "inflight"
      <3> PICK k \in RowKey : rows[k] = "inflight"
        BY <2>2
      <3>1. AtRow(k, run, jobs, rows, gates, reserved)
        BY StrandAt DEF Token, OpenRow
      <3>2. InFlight = {k} /\ reserved = {k[1]}
        BY <3>1 DEF AtRow, InFlight, OpenRow
      <3> QED BY <3>2
    <2> QED BY <2>1, <2>2
  <1> QED BY <1>1, TokenInvariant, PTL

-----------------------------------------------------------------------------
(* Workflows whose transitions lead forward. *)

\* Every transition leads to a stage with a higher ordinal.  The code does not
\* ask this of a workflow; the one it makes has it.  With a transition back to
\* an earlier stage, the assignment keys of the first time are still taken.
LeadsForward(ordinal) ==
    /\ ordinal \in [Stages -> Nat]
    /\ \A s \in WorkStages : \A t \in OnSuccess[s] : ordinal[s] < ordinal[t]
    /\ \A s \in ReviewStages : \A t \in OnApproved[s] \cup OnRejected[s] : ordinal[s] < ordinal[t]

\* The keys of stage s that have been used.
Used(k) == rows[k] # "none" \/ k \in started

\* The run has not been beyond its stage; a queued job and an open assignment
\* come after every attempt of their stage, and every attempt that was followed
\* by another was below the limit.
OrderInv(ordinal) ==
    clicks = 0 =>
        /\ \A k \in RowKey : Used(k) => ordinal[k[1]] <= ordinal[run.stage]
        /\ \A j \in JobKey : jobs[j] > 0 =>
              \A k \in RowKey : k[1] = j.stage =>
                  /\ Used(k) => k[2] <= j.attempt
                  /\ k \in started => k[2] < MaxAttempts
        /\ \A k, l \in RowKey : rows[k] \in OpenRow /\ l[1] = k[1] =>
              /\ Used(l) => l[2] <= k[2]
              /\ l \in started /\ rows[k] = "pending" => l[2] < k[2] /\ l[2] < MaxAttempts
        /\ \A k, l \in started : k[1] = l[1] /\ k[2] < l[2] => k[2] < MaxAttempts

\* The ordinal of the run's stage grows with _advance_or_finish, and a stage
\* that is new has no attempts.
LEMMA GoesOnOrder ==
    ASSUME RunInv, NEW ordinal, LeadsForward(ordinal), OrderInv(ordinal), clicks = 0,
           NEW STATE r, NEW STATE gs, NEW t, GoesOn(t, r, gs), t \in Stages, r \in RunRow,
           ordinal[run.stage] < ordinal[t],
           NoJobs(jobs), NoRows(rows'), started' = started,
           \A k \in RowKey : rows'[k] # "none" => rows[k] # "none"
    PROVE  OrderInv(ordinal)'
  <1>0. run.stage \in Stages /\ ordinal[run.stage] \in Nat /\ ordinal[t] \in Nat
        /\ TypeOK /\ started \in SUBSET RowKey
    BY TypeParts DEF RunInv, RunRow, LeadsForward
  <1>1. run'.stage = t
    BY GoesOnStatus
  <1>2. \A k \in RowKey : ordinal[k[1]] \in Nat
    BY RowKeyParts DEF LeadsForward, Stages
  <1>3. \A k \in RowKey : Used(k)' => Used(k)
    BY DEF Used
  <1>4. \A k \in RowKey : Used(k) => ordinal[k[1]] <= ordinal[run.stage]
    BY DEF OrderInv
  <1>5. \A k \in RowKey : Used(k)' => ordinal[k[1]] < ordinal[t]
    BY <1>0, <1>2, <1>3, <1>4
  <1>6. \A k \in RowKey : Used(k)' => ordinal[k[1]] <= ordinal[run'.stage]
    BY <1>0, <1>1, <1>2, <1>5
  <1>7. \A k \in RowKey : k \in started' => Used(k)'
    BY DEF Used
  <1>8. ASSUME NEW j \in JobKey, jobs'[j] > 0, NEW k \in RowKey, k[1] = j.stage
        PROVE  ~Used(k)'
    <2>1. j.stage = t
      BY <1>0, <1>8, GoesOnRows DEF NoJobs
    <2> QED BY <1>0, <1>5, <1>8, <2>1
  <1>9. \A k \in RowKey : rows'[k] \notin OpenRow
    BY DEF NoRows
  <1>10. \A k, l \in started' : k[1] = l[1] /\ k[2] < l[2] => k[2] < MaxAttempts
    BY DEF OrderInv
  <1> QED BY <1>6, <1>7, <1>8, <1>9, <1>10 DEF OrderInv

\* Steps that add neither a job nor an attempt keep the order.
LEMMA OrderKept ==
    ASSUME NEW ordinal, OrderInv(ordinal), clicks = 0, run'.stage = run.stage,
           started' = started, \A j \in JobKey : jobs'[j] > 0 => jobs[j] > 0,
           \A k \in RowKey : rows'[k] # "none" => rows[k] # "none",
           \A k \in RowKey : rows'[k] \in OpenRow => rows'[k] = rows[k]
    PROVE  OrderInv(ordinal)'
  <1>1. \A k \in RowKey : Used(k)' => Used(k)
    BY DEF Used
  <1>2. \A k \in RowKey : Used(k)' => ordinal[k[1]] <= ordinal[run'.stage]
    BY <1>1 DEF OrderInv
  <1>3. \A j \in JobKey : jobs'[j] > 0 =>
          \A k \in RowKey : k[1] = j.stage =>
              /\ Used(k)' => k[2] <= j.attempt
              /\ k \in started' => k[2] < MaxAttempts
    BY <1>1 DEF OrderInv
  <1>4. \A k, l \in RowKey : rows'[k] \in OpenRow /\ l[1] = k[1] =>
          /\ Used(l)' => l[2] <= k[2]
          /\ l \in started' /\ rows'[k] = "pending" => l[2] < k[2] /\ l[2] < MaxAttempts
    BY <1>1 DEF OrderInv
  <1>5. \A k, l \in started' : k[1] = l[1] /\ k[2] < l[2] => k[2] < MaxAttempts
    BY DEF OrderInv
  <1> QED BY <1>2, <1>3, <1>4, <1>5 DEF OrderInv

\* A new job of a stage, and nothing else, keeps the order when it comes after
\* the attempts there were and they were below the limit.
LEMMA OrderWithJob ==
    ASSUME NEW ordinal, OrderInv(ordinal), clicks = 0, run'.stage = run.stage,
           started' = started, NEW j \in JobKey,
           \A i \in JobKey : jobs'[i] > 0 => i = j,
           NoRows(rows'),
           \A k \in RowKey : rows'[k] # "none" => rows[k] # "none",
           \A k \in RowKey : k[1] = j.stage =>
               /\ Used(k) => k[2] <= j.attempt
               /\ k \in started => k[2] < MaxAttempts
    PROVE  OrderInv(ordinal)'
  <1>1. \A k \in RowKey : Used(k)' => Used(k)
    BY DEF Used
  <1>2. \A k \in RowKey : Used(k)' => ordinal[k[1]] <= ordinal[run'.stage]
    BY <1>1 DEF OrderInv
  <1>3. \A i \in JobKey : jobs'[i] > 0 =>
          \A k \in RowKey : k[1] = i.stage =>
              /\ Used(k)' => k[2] <= i.attempt
              /\ k \in started' => k[2] < MaxAttempts
    BY <1>1
  <1>4. \A k \in RowKey : rows'[k] \notin OpenRow
    BY DEF NoRows
  <1>5. \A k, l \in started' : k[1] = l[1] /\ k[2] < l[2] => k[2] < MaxAttempts
    BY DEF OrderInv
  <1> QED BY <1>2, <1>3, <1>4, <1>5 DEF OrderInv

\* A new open assignment, and nothing else, keeps the order when its number is
\* the highest and the attempts that were started before it are below the limit.
LEMMA OrderWithRow ==
    ASSUME RunInv, NEW ordinal, OrderInv(ordinal), clicks = 0, run'.stage = run.stage,
           NEW k \in RowKey, k[1] = run.stage, ordinal[run.stage] \in Nat,
           started' = started \/ (started' = started \cup {k} /\ rows'[k] # "pending"),
           NoJobs(jobs'),
           \A l \in RowKey : l # k => rows'[l] \notin OpenRow,
           \A l \in RowKey : rows'[l] # "none" => rows[l] # "none" \/ l = k,
           \A l \in RowKey : l[1] = k[1] =>
               /\ Used(l) => l[2] <= k[2]
               /\ l \in started => l[2] < k[2] /\ l[2] < MaxAttempts
    PROVE  OrderInv(ordinal)'
  <1>0. /\ k[2] \in Nat /\ started \in SUBSET RowKey /\ started' \in SUBSET RowKey
        /\ \A l \in RowKey : l[2] \in Nat
    BY RowKeyParts, Numbers, TypeParts DEF RunInv
  <1>1. \A l \in RowKey : Used(l)' => Used(l) \/ l = k
    BY DEF Used
  <1>2. \A l \in RowKey : Used(l)' => ordinal[l[1]] <= ordinal[run'.stage]
    BY <1>1 DEF OrderInv
  <1>3. \A j \in JobKey : ~(jobs'[j] > 0)
    BY DEF NoJobs
  <1>4. ASSUME NEW m \in RowKey, NEW l \in RowKey, rows'[m] \in OpenRow, l[1] = m[1]
        PROVE  /\ Used(l)' => l[2] <= m[2]
               /\ l \in started' /\ rows'[m] = "pending" => l[2] < m[2] /\ l[2] < MaxAttempts
    <2>1. m = k
      BY <1>4
    <2>2. Used(l)' => l[2] <= k[2]
      BY <1>0, <1>1, <1>4, <2>1
    <2>3. l \in started' /\ rows'[k] = "pending" => l \in started
      OBVIOUS
    <2> QED BY <1>4, <2>1, <2>2, <2>3
  <1>5. ASSUME NEW m \in started', NEW l \in started', m[1] = l[1], m[2] < l[2]
        PROVE  m[2] < MaxAttempts
    <2>1. m \in RowKey /\ l \in RowKey
      BY <1>0
    <2>2. CASE m \in started /\ l \in started
      BY <1>5, <2>2 DEF OrderInv
    <2>3. CASE m \in started /\ l = k
      BY <1>5, <2>1, <2>3
    <2>4. CASE m = k /\ l \in started
      BY <1>0, <1>5, <2>1, <2>4
    <2>5. CASE m = k /\ l = k
      BY <1>0, <1>5, <2>5
    <2> QED BY <1>5, <2>2, <2>3, <2>4, <2>5
  <1> QED BY <1>2, <1>3, <1>4, <1>5 DEF OrderInv

\* Every step but a button keeps the order, in a workflow that leads forward.
LEMMA OrderStep ==
    ASSUME NEW ordinal, LeadsForward(ordinal)
    PROVE  RunInv /\ Token /\ OrderInv(ordinal) /\ [Next]_vars => OrderInv(ordinal)'
  <1> SUFFICES ASSUME RunInv, Token, OrderInv(ordinal), [Next]_vars, clicks' = 0
               PROVE  OrderInv(ordinal)'
    BY DEF OrderInv
  <1>0. /\ TypeOK /\ run \in RunRow /\ gates \in [GateIds -> GateRow]
        /\ jobs \in [JobKey -> Nat] /\ rows \in RowTable /\ started \in SUBSET RowKey
    BY TypeParts DEF RunInv
  <1>1. clicks = 0 /\ clicks' = clicks
    BY ClicksGrow
  <1>2. Strand(run, jobs, rows, gates, reserved)
    BY <1>1 DEF Token
  <1>3. /\ \A j \in JobKey : jobs[j] > 0 => AtJob(j, run, jobs, rows, gates, reserved)
        /\ \A k \in RowKey : rows[k] \in OpenRow => AtRow(k, run, jobs, rows, gates, reserved)
        /\ \A g \in GateIds : gates[g].status = "awaiting"
                                => AtGate(g, run, jobs, rows, gates, reserved)
    BY <1>2, StrandAt
  <1>4. ordinal[run.stage] \in Nat
    BY <1>0 DEF RunRow, LeadsForward
  <1>5. CASE StartRun
    <2>1. /\ NoJobs(jobs) /\ started = {} /\ \A k \in RowKey : rows[k] = "none"
      BY <1>5 DEF StartRun, RunInv, NotBegun
    <2>2. /\ started' = {} /\ \A k \in RowKey : rows'[k] = "none"
      BY <1>5, <2>1 DEF StartRun
    <2> QED BY <2>2 DEF OrderInv, Used, OpenRow
  <1>6. CASE CreateContentJob
    <2>1. started = {} /\ \A k \in RowKey : rows[k] = "none"
      BY <1>6 DEF CreateContentJob, RunInv, NotBegun
    <2>2. started' = {} /\ \A k \in RowKey : rows'[k] = "none"
      BY <1>6, <2>1 DEF CreateContentJob
    <2> QED BY <2>2 DEF OrderInv, Used, OpenRow
  <1>7. ASSUME NEW j \in JobKey, Backpressure(j) PROVE OrderInv(ordinal)'
    <2>1. jobs[j] > 0 /\ j.attempt \in Nat /\ started' = started /\ run' = run
      BY <1>7, JobParts, Numbers DEF Backpressure
    <2>2. AtJob(j, run, jobs, rows, gates, reserved)
      BY <1>3, <2>1
    <2>3. /\ Retire(j) \in [JobKey -> Nat] /\ \A i \in JobKey : Retire(j)[i] = 0
      BY <1>0, <2>1, <2>2, Retired DEF AtJob
    <2>4. CASE j.attempt + 1 < NoWorkerMaxRetries
      <3> DEFINE i == [j EXCEPT !.attempt = @ + 1]
      <3>1. i \in JobKey /\ i.stage = j.stage /\ i.attempt = j.attempt + 1
        <4>1. j.attempt + 1 \in 0 .. MaxNumber
          BY <2>1, <2>4, Numbers
        <4> QED BY <4>1 DEF JobKey
      <3>2. jobs' = [Retire(j) EXCEPT ![i] = @ + 1] /\ rows' = rows
        BY <1>7, <2>4, Zenon DEF Backpressure
      <3> HIDE DEF i
      <3>3. \A x \in JobKey : jobs'[x] > 0 => x = i
        BY <2>3, <3>1, <3>2
      <3>4. NoRows(rows')
        BY <2>2, <3>2 DEF AtJob
      <3>5. \A k \in RowKey : k[1] = i.stage =>
               /\ Used(k) => k[2] <= i.attempt
               /\ k \in started => k[2] < MaxAttempts
        <4>1. \A k \in RowKey : k[2] \in Nat
          BY RowKeyParts, Numbers
        <4> QED BY <1>1, <2>1, <3>1, <4>1 DEF OrderInv
      <3> QED BY <1>1, <2>1, <3>1, <3>2, <3>3, <3>4, <3>5, OrderWithJob
    <2>5. CASE ~(j.attempt + 1 < NoWorkerMaxRetries)
      <3>1. /\ jobs' = Retire(j)
            /\ rows' = [k \in RowKey |-> IF k[1] = j.stage /\ rows[k] \in OpenRow
                                         THEN "cancelled" ELSE rows[k]]
        BY <1>7, <2>5, Zenon DEF Backpressure
      <3>2. rows' = rows
        BY <1>0, <2>2, <3>1 DEF AtJob, NoRows, RowTable
      <3>3. \A i \in JobKey : jobs'[i] > 0 => jobs[i] > 0
        BY <2>3, <3>1
      <3> QED BY <1>1, <2>1, <3>2, <3>3, OrderKept
    <2> QED BY <2>4, <2>5
  <1>8. ASSUME NEW j \in JobKey, Skipped(j) \/ Idempotent(j) PROVE OrderInv(ordinal)'
    <2>1. jobs[j] > 0 /\ jobs' = Retire(j) /\ UNCHANGED <<run, rows, started>>
      BY <1>8 DEF Skipped, Idempotent, Dispatchable
    <2>2. \A i \in JobKey : jobs'[i] > 0 => jobs[i] > 0
      BY <1>0, <2>1, Retired
    <2> QED BY <1>1, <2>1, <2>2, OrderKept
  <1>9. ASSUME NEW j \in JobKey, Dispatched(j) \/ NoWorker(j) PROVE OrderInv(ordinal)'
    <2>1. /\ jobs[j] > 0 /\ jobs' = Retire(j) /\ UNCHANGED <<run, gates>> /\ Dispatchable(j)
          /\ \/ /\ rows' = [rows EXCEPT ![Key(j)] = "inflight"]
                /\ started' = started \cup {Key(j)}
             \/ rows' = [rows EXCEPT ![Key(j)] = "pending"] /\ started' = started
      BY <1>9 DEF Dispatched, NoWorker, Dispatchable
    <2>2. AtJob(j, run, jobs, rows, gates, reserved)
      BY <1>3, <2>1
    <2>3. Key(j) \in RowKey /\ Key(j)[1] = j.stage /\ Key(j)[2] = j.attempt + 1
      <3>1. j.stage \in WorkStages
        BY <2>1, JobParts DEF Dispatchable, TickRaises
      <3>2. j.attempt + 1 \in 1 .. MaxNumber
        BY <1>1, <2>1, JobParts, Numbers DEF RunInv, Numbered
      <3> QED BY <3>1, <3>2 DEF Key, RowKey
    <2> DEFINE k == Key(j)
    <2>4. NoJobs(jobs') /\ k[1] = run.stage
      BY <1>0, <2>1, <2>2, <2>3, Retired DEF AtJob, NoJobs
    <2>5. \A l \in RowKey : l # k => rows'[l] = rows[l]
      BY <1>0, <2>1, <2>3 DEF RowTable
    <2>6. \A l \in RowKey : l[1] = k[1] =>
             /\ Used(l) => l[2] <= k[2]
             /\ l \in started => l[2] < k[2] /\ l[2] < MaxAttempts
      <3>1. \A l \in RowKey : l[2] \in Nat
        BY RowKeyParts, Numbers
      <3>2. j.attempt \in Nat
        BY JobParts, Numbers
      <3>3. \A l \in RowKey : l[1] = k[1] =>
               /\ Used(l) => l[2] <= j.attempt
               /\ l \in started => l[2] < MaxAttempts
        BY <1>1, <2>1, <2>3 DEF OrderInv
      <3>4. \A l \in RowKey : l \in started => Used(l)
        BY DEF Used
      <3> QED BY <2>3, <3>1, <3>2, <3>3, <3>4
    <2>7. started' = started \/ (started' = started \cup {k} /\ rows'[k] # "pending")
      BY <1>0, <2>1, <2>3 DEF RowTable
    <2>8. \A l \in RowKey : l # k => rows'[l] \notin OpenRow
      BY <2>2, <2>5 DEF AtJob, NoRows
    <2> HIDE DEF k
    <2> QED BY <1>1, <1>4, <2>1, <2>3, <2>4, <2>5, <2>6, <2>7, <2>8, OrderWithRow DEF k
  <1>10. ASSUME NEW s, SpendRefused(s), UNCHANGED <<jobs, rows, started>>
         PROVE  OrderInv(ordinal)'
    <2>1. run'.stage = run.stage
      BY <1>0, <1>10 DEF SpendRefused, RunRow
    <2> QED BY <1>1, <1>10, <2>1, OrderKept
  <1>11. ASSUME NEW k \in RowKey, Claim(k) PROVE OrderInv(ordinal)'
    <2>1. AtRow(k, run, jobs, rows, gates, reserved) /\ rows[k] = "pending"
      BY <1>3, <1>11 DEF Claim, OpenRow
    <2>2. /\ rows' = [rows EXCEPT ![k] = "inflight"] /\ started' = started \cup {k}
          /\ UNCHANGED <<run, jobs>>
      BY <1>11 DEF Claim
    <2>3. rows'[k] = "inflight" /\ \A l \in RowKey : l # k => rows'[l] = rows[l]
      BY <1>0, <2>2 DEF RowTable
    <2>4. \A l \in RowKey : l[1] = k[1] =>
             /\ Used(l) => l[2] <= k[2]
             /\ l \in started => l[2] < k[2] /\ l[2] < MaxAttempts
      BY <1>1, <2>1 DEF OrderInv, OpenRow
    <2>5. /\ k[1] = run.stage /\ NoJobs(jobs')
          /\ \A l \in RowKey : l # k => rows'[l] \notin OpenRow
      BY <2>1, <2>2, <2>3 DEF AtRow
    <2> QED BY <1>1, <1>4, <2>2, <2>3, <2>4, <2>5, OrderWithRow
  <1>12. ASSUME NEW k \in RowKey, SubmitSuccess(k) PROVE OrderInv(ordinal)'
    <2>1. AtRow(k, run, jobs, rows, gates, reserved)
      BY <1>3, <1>12 DEF SubmitSuccess, OpenRow
    <2>2. /\ rows' = [rows EXCEPT ![k] = "completed"] /\ started' = started
          /\ run.status \notin Terminal /\ k[1] = run.stage /\ rows[k] # "none"
      BY <1>12, <2>1 DEF SubmitSuccess, AtRow
    <2>3. NoRows(rows') /\ NoJobs(jobs)
      BY <2>1, <2>2, RowClosed
    <2>4. AdvanceOrFinish(k[1], OnSuccess[k[1]], run, gates)
      BY <1>12, <2>2, Zenon DEF SubmitSuccess
    <2>5. OnSuccess[k[1]] \subseteq Stages /\ k[1] \in WorkStages
      BY RowKeyParts, GraphAssumption
    <2>6. PICK t \in OnSuccess[k[1]] : GoesOn(t, run, gates)
      BY <1>0, <2>4, <2>5, Advance
    <2>7. ordinal[run.stage] < ordinal[t] /\ t \in Stages
      BY <2>2, <2>5 DEF LeadsForward
    <2>8. \A l \in RowKey : rows'[l] # "none" => rows[l] # "none"
      BY <1>0, <2>2 DEF RowTable
    <2> QED BY <1>0, <1>1, <2>2, <2>3, <2>6, <2>7, <2>8, GoesOnOrder
  <1>13. ASSUME NEW k \in RowKey, NEW retryable \in BOOLEAN, SubmitFailure(k, retryable)
         PROVE  OrderInv(ordinal)'
    <2>1. AtRow(k, run, jobs, rows, gates, reserved) /\ rows[k] = "inflight"
      BY <1>3, <1>13 DEF SubmitFailure, OpenRow
    <2>2. rows' = [rows EXCEPT ![k] = "failed"] /\ started' = started
      BY <1>13, Zenon DEF SubmitFailure
    <2>3. NoRows(rows') /\ NoJobs(jobs)
      BY <2>1, <2>2, RowClosed
    <2>4. \A l \in RowKey : rows'[l] # "none" => rows[l] # "none"
      BY <1>0, <2>1, <2>2 DEF RowTable
    <2>5. \A l \in RowKey : l[1] = k[1] => (Used(l) => l[2] <= k[2])
      BY <1>1, <2>1 DEF OrderInv, OpenRow
    <2>6. CASE retryable /\ MayRetry(k[2])
      <3>1. jobs' = EnqueueStage(k[1], k[2]) /\ run' = run
        BY <1>13, <2>6, Zenon DEF SubmitFailure, RetryJob
      <3>2. k[1] \in WorkStages \cup {BadKey} /\ k[2] \in 0 .. MaxNumber
        BY RowKeyParts, Numbers
      <3>3. PICK j \in JobKey : Adds(j, k[1], k[2], jobs, EnqueueStage(k[1], k[2]))
        BY <1>0, <3>2, EnqueueAdds
      <3>4. \A i \in JobKey : jobs'[i] > 0 => i = j
        BY <2>3, <3>1, <3>3 DEF Adds, NoJobs
      <3>5. \A l \in RowKey : l[1] = j.stage =>
               /\ Used(l) => l[2] <= j.attempt
               /\ l \in started => l[2] < MaxAttempts
        <4>1. k[2] < MaxAttempts /\ k[2] \in Nat /\ MaxAttempts \in Nat
          BY <2>6, <3>2, Numbers DEF MayRetry
        <4>2. \A l \in RowKey : l[2] \in Nat /\ (l \in started => Used(l))
          BY RowKeyParts, Numbers DEF Used
        <4>3. j.stage = k[1] /\ j.attempt = k[2]
          BY <3>3 DEF Adds
        <4> QED BY <2>5, <4>1, <4>2, <4>3
      <3> QED BY <1>1, <2>2, <2>3, <2>4, <3>1, <3>4, <3>5, OrderWithJob
    <2>7. CASE ~(retryable /\ MayRetry(k[2]))
      <3>1. jobs' = jobs /\ run' = [run EXCEPT !.status = "failed"]
        BY <1>13, <2>7, Zenon DEF SubmitFailure, FailRun
      <3>2. run'.stage = run.stage
        BY <1>0, <3>1 DEF RunRow
      <3>3. \A l \in RowKey : rows'[l] \notin OpenRow
        BY <2>3 DEF NoRows
      <3> QED BY <1>1, <2>2, <2>4, <3>1, <3>2, <3>3, OrderKept
    <2> QED BY <2>6, <2>7
  <1>14. ASSUME NEW k \in RowKey, Recover(k) PROVE OrderInv(ordinal)'
    <2>1. AtRow(k, run, jobs, rows, gates, reserved) /\ rows[k] = "inflight"
      BY <1>3, <1>14 DEF Recover, OpenRow
    <2>2. UNCHANGED <<jobs, started>> /\ run.status \notin Terminal
      BY <1>14, <2>1 DEF Recover, AtRow
    <2>3. CASE k[2] + 1 > MaxAttempts
      <3>1. rows' = [rows EXCEPT ![k] = "failed"] /\ run' = [run EXCEPT !.status = "failed"]
        BY <1>14, <2>2, <2>3, Zenon DEF Recover, FailRun
      <3>2. \A l \in RowKey : rows'[l] \notin OpenRow
        BY <2>1, <3>1, RowClosed DEF NoRows
      <3>3. run'.stage = run.stage
        BY <1>0, <3>1 DEF RunRow
      <3>4. \A l \in RowKey : rows'[l] # "none" => rows[l] # "none"
        BY <1>0, <2>1, <3>1 DEF RowTable
      <3> QED BY <1>1, <2>2, <3>2, <3>3, <3>4, OrderKept
    <2>4. CASE ~(k[2] + 1 > MaxAttempts)
      <3> DEFINE next == <<k[1], k[2] + 1>>
      <3>1. rows' = [rows EXCEPT ![k] = "none", ![next] = "pending"] /\ run' = run
        BY <1>14, <2>4, Zenon DEF Recover
      <3>0. k[2] + 1 \in 1 .. MaxNumber /\ k[2] \in Nat /\ k[2] < MaxAttempts
            /\ MaxAttempts \in Nat
        BY <1>1, <2>4, RowKeyParts, Numbers
      <3>2. next \in RowKey /\ next[1] = k[1] /\ next[2] = k[2] + 1 /\ next # k
        BY <3>0, RowKeyParts DEF RowKey
      <3> HIDE DEF next
      <3>3. \A l \in RowKey : rows'[l] = IF l = next THEN "pending"
                                         ELSE IF l = k THEN "none" ELSE rows[l]
        BY <1>0, <3>1, <3>2 DEF RowTable
      <3>4. \A l \in RowKey : l # next => rows'[l] \notin OpenRow
        BY <2>1, <3>2, <3>3 DEF AtRow, OpenRow
      <3>5. \A l \in RowKey : l[1] = next[1] =>
               /\ Used(l) => l[2] <= next[2]
               /\ l \in started => l[2] < next[2] /\ l[2] < MaxAttempts
        <4>1. \A l \in RowKey : l[1] = k[1] => (Used(l) => l[2] <= k[2])
          BY <1>1, <2>1 DEF OrderInv, OpenRow
        <4>2. \A l \in RowKey : l[2] \in Nat /\ (l \in started => Used(l))
          BY RowKeyParts, Numbers DEF Used
        <4> QED BY <3>0, <3>2, <4>1, <4>2
      <3>6. NoJobs(jobs') /\ next[1] = run.stage
        BY <2>1, <2>2, <3>2 DEF AtRow
      <3>7. \A l \in RowKey : rows'[l] # "none" => rows[l] # "none" \/ l = next
        BY <3>3
      <3> QED BY <1>1, <1>4, <2>2, <3>1, <3>2, <3>4, <3>5, <3>6, <3>7, OrderWithRow
    <2> QED BY <2>3, <2>4
  <1>15. ASSUME NEW g \in GateIds, NEW approved \in BOOLEAN, Decide(g, approved)
         PROVE  OrderInv(ordinal)'
    <2>1. /\ gates[g].status = "awaiting" /\ rows' = rows /\ started' = started
          /\ gates[g].stage \in ReviewStages
          /\ TargetsOf(gates[g].stage, approved) \subseteq Stages
      BY <1>15, DecideEffect, Zenon
    <2>2. AtGate(g, run, jobs, rows, gates, reserved)
      BY <1>3, <2>1
    <2>3. ResumedRun \in RunRow /\ ResumedRun.stage = run.stage
      BY <1>0, ResumeTypes
    <2>4. NoJobs(jobs) /\ NoRows(rows') /\ gates[g].stage = run.stage
      BY <2>1, <2>2 DEF AtGate
    <2>5. CASE /\ run' = ResumedRun \/ run' = [run EXCEPT !.status = "failed", !.pause = "none"]
               /\ jobs' = jobs
      <3>1. run'.stage = run.stage
        BY <1>0, <2>3, <2>5 DEF RunRow
      <3> QED BY <1>1, <2>1, <2>5, <3>1, OrderKept
    <2>6. CASE \E t \in TargetsOf(gates[g].stage, approved) :
                  GoesOn(t, ResumedRun, Decided(g, approved))
      <3> PICK t \in TargetsOf(gates[g].stage, approved) :
                  GoesOn(t, ResumedRun, Decided(g, approved))
        BY <2>6
      <3>1. t \in Stages /\ ordinal[run.stage] < ordinal[t]
        BY <2>1, <2>4 DEF TargetsOf, LeadsForward
      <3> QED BY <1>1, <2>1, <2>3, <2>4, <3>1, GoesOnOrder
    <2> QED BY <1>15, <2>5, <2>6, DecideEffect, Zenon
  <1>16. ASSUME NEW g \in GateIds, TimeoutRead(g) \/ TimeoutWrite(g) PROVE OrderInv(ordinal)'
    <2>0. TimeoutWrite(g) => gates[g].level = 0
      BY DEF TimeoutWrite, RunInv, GateRows
    <2>1. UNCHANGED <<run, jobs, rows, started>>
      BY <1>16, <2>0, Zenon DEF TimeoutRead, TimeoutWrite
    <2> QED BY <1>1, <2>1, OrderKept
  <1>17. CASE RetryFailedJobs \/ ClearDeadLetterQueue
    <2>1. clicks' = clicks + 1
      BY <1>17, Zenon DEF RetryFailedJobs, ClearDeadLetterQueue
    <2> QED BY <1>1, <2>1
  <1>18. CASE CancelRun
    <2>1. /\ UNCHANGED <<jobs, started>>
          /\ run' = [run EXCEPT !.status = "cancelled"]
          /\ rows' = [k \in RowKey |-> IF rows[k] \in OpenRow THEN "cancelled" ELSE rows[k]]
      BY <1>18 DEF CancelRun
    <2>2. run'.stage = run.stage
      BY <1>0, <2>1 DEF RunRow
    <2>3. \A k \in RowKey : /\ rows'[k] # "none" => rows[k] # "none"
                            /\ rows'[k] \notin OpenRow
      BY <2>1 DEF OpenRow
    <2> QED BY <1>1, <2>1, <2>2, <2>3, OrderKept
  <1>19. CASE UNCHANGED vars
    BY <1>1, <1>19, OrderKept DEF vars
  <1>20. CASE ProcessJob
    <2> PICK j \in JobKey : \/ Backpressure(j) \/ Skipped(j) \/ Idempotent(j)
                            \/ Dispatched(j) \/ NoWorker(j) \/ SpendHold(j)
      BY <1>20, Zenon DEF ProcessJob
    <2>1. SpendHold(j) => SpendRefused(j.stage) /\ UNCHANGED <<jobs, rows, started>>
      BY Zenon DEF SpendHold
    <2> QED BY <1>7, <1>8, <1>9, <1>10, <2>1
  <1>21. CASE ClaimRow
    <2> PICK k \in RowKey : Claim(k) \/ ClaimOverBudget(k)
      BY <1>21, Zenon DEF ClaimRow
    <2>1. ClaimOverBudget(k) => SpendRefused(k[1]) /\ UNCHANGED <<jobs, rows, started>>
      BY Zenon DEF ClaimOverBudget
    <2> QED BY <1>10, <1>11, <2>1
  <1>22. CASE EndTenure
    BY <1>12, <1>13, <1>14, <1>22 DEF EndTenure
  <1>23. CASE Review
    BY <1>15, <1>16, <1>23 DEF Review
  <1> QED BY <1>5, <1>6, <1>17, <1>18, <1>19, <1>20, <1>21, <1>22, <1>23 DEF Next, Operator

\* OrderInv holds throughout, in a workflow that leads forward.
THEOREM OrderInvariant ==
    ASSUME NEW CONSTANT ordinal, LeadsForward(ordinal)
    PROVE  Spec => []OrderInv(ordinal)
  <1>1. Init => OrderInv(ordinal)
    <2> SUFFICES ASSUME Init PROVE OrderInv(ordinal)
      OBVIOUS
    <2>1. started = {} /\ \A k \in RowKey : rows[k] = "none"
      BY DEF Init
    <2> QED BY <2>1 DEF OrderInv, Used, OpenRow
  <1>2. RunInv /\ Token /\ OrderInv(ordinal) /\ [Next]_vars => OrderInv(ordinal)'
    BY OrderStep
  <1> QED BY <1>1, <1>2, RunInvariant, TokenInvariant, PTL DEF Spec

\* In a workflow that leads forward, a stage starts at most MaxAttempts times
\* until an operator uses a dead-letter button, although put-off dispatches
\* raise the attempt number beyond it: a start at the limit or above is the
\* last one (handle_stage_failure, recover_assignment).
THEOREM StartsAreBounded ==
    ASSUME NEW CONSTANT ordinal, LeadsForward(ordinal)
    PROVE  Spec => []StageStartsBounded
  <1>1. RunInv /\ OrderInv(ordinal) => StageStartsBounded
    <2> SUFFICES ASSUME RunInv, OrderInv(ordinal), clicks = 0, NEW s \in WorkStages
                 PROVE  Cardinality({n \in 1 .. MaxNumber : <<s, n>> \in started}) <= MaxAttempts
      BY DEF StageStartsBounded
    <2> DEFINE N == {n \in 1 .. MaxNumber : <<s, n>> \in started}
               L == 1 .. MaxAttempts - 1
    <2>0. MaxAttempts \in Nat /\ MaxAttempts > 0 /\ MaxNumber \in Nat
      BY Numbers
    <2>1. IsFiniteSet(L) /\ Cardinality(L) = MaxAttempts - 1
      <3>1. 1 \in Int /\ MaxAttempts - 1 \in Int
        BY <2>0
      <3>2. /\ IsFiniteSet(L)
            /\ Cardinality(L) = IF 1 > MaxAttempts - 1 THEN 0 ELSE MaxAttempts - 1 - 1 + 1
        BY <3>1, FS_Interval
      <3> QED BY <2>0, <3>2
    <2>2. \A m, n \in N : m < n => m < MaxAttempts
      <3> SUFFICES ASSUME NEW m \in N, NEW n \in N, m < n PROVE m < MaxAttempts
        OBVIOUS
      <3>1. <<s, m>> \in started /\ <<s, n>> \in started
        OBVIOUS
      <3>2. <<s, m>>[1] = <<s, n>>[1] /\ <<s, m>>[2] < <<s, n>>[2]
        OBVIOUS
      <3> QED BY <3>1, <3>2 DEF OrderInv
    <2>3. CASE \A n \in N : n < MaxAttempts
      <3>1. N \in SUBSET L
        BY <2>0, <2>3
      <3>2. IsFiniteSet(N) /\ Cardinality(N) <= Cardinality(L)
        BY <2>1, <3>1, FS_Subset
      <3>3. Cardinality(N) \in Nat
        BY <3>2, FS_CardinalityType
      <3> QED BY <2>0, <2>1, <3>2, <3>3
    <2>4. CASE \E n \in N : n >= MaxAttempts
      <3> PICK top \in N : top >= MaxAttempts
        BY <2>4
      <3>0. top \in Nat
        BY <2>0
      <3>1. N \in SUBSET (L \cup {top})
        <4> SUFFICES ASSUME NEW m \in N, m # top PROVE m \in L
          OBVIOUS
        <4>1. m \in Nat /\ m >= 1
          BY <2>0
        <4>2. CASE m < top
          BY <2>0, <2>2, <4>1, <4>2
        <4>3. CASE top < m
          BY <2>0, <2>2, <3>0, <4>3
        <4> QED BY <3>0, <4>1, <4>2, <4>3
      <3> HIDE DEF N, L
      <3>2. /\ IsFiniteSet(L \cup {top})
            /\ Cardinality(L \cup {top}) = IF top \in L THEN Cardinality(L) ELSE Cardinality(L) + 1
        BY <2>1, FS_AddElement
      <3>3. IsFiniteSet(N) /\ Cardinality(N) <= Cardinality(L \cup {top})
        BY <3>1, <3>2, FS_Subset
      <3>4. Cardinality(N) \in Nat
        BY <3>3, FS_CardinalityType
      <3>5. Cardinality(L \cup {top}) <= MaxAttempts
        BY <2>0, <2>1, <3>2
      <3>6. Cardinality(L \cup {top}) \in Nat
        BY <3>2, FS_CardinalityType
      <3> QED BY <2>0, <3>3, <3>4, <3>5, <3>6 DEF N
    <2> QED
      <3>1. (\A n \in N : n < MaxAttempts) \/ (\E n \in N : n >= MaxAttempts)
        BY <2>0
      <3> QED BY <2>3, <2>4, <3>1
  <1>2. Spec => []OrderInv(ordinal)
    BY OrderInvariant
  <1> QED BY <1>1, <1>2, RunInvariant, PTL

\* In a workflow that leads forward, no attempt reaches a worker twice until an
\* operator uses a dead-letter button: the key of an assignment that is claimed
\* or dispatched is new (recover_assignment, dispatch_stage).
THEOREM NoAttemptRestarts ==
    ASSUME NEW CONSTANT ordinal, LeadsForward(ordinal)
    PROVE  Spec => NoRestart
  <1>1. RunInv /\ OrderInv(ordinal) /\ [Next]_vars
          => [\A k \in RowKey : clicks = 0 /\ rows[k] # "inflight" /\ rows'[k] = "inflight"
                                  => k \notin started]_vars
    <2> SUFFICES ASSUME RunInv, OrderInv(ordinal), [Next]_vars, clicks = 0,
                        NEW k \in RowKey, rows[k] # "inflight", rows'[k] = "inflight"
                 PROVE  k \notin started
      OBVIOUS
    <2>0. rows \in RowTable /\ k[2] \in Nat /\ k[1] \in WorkStages
      BY TypeParts, RowKeyParts, Numbers DEF RunInv
    <2>1. CASE \E j \in JobKey : Dispatched(j) \/ NoWorker(j)
      <3> PICK j \in JobKey : Dispatched(j) \/ NoWorker(j)
        BY <2>1
      <3>1. /\ jobs[j] > 0
            /\ rows' = [rows EXCEPT ![Key(j)] = "inflight"]
               \/ rows' = [rows EXCEPT ![Key(j)] = "pending"]
        BY DEF Dispatched, NoWorker, Dispatchable
      <3>2. k = Key(j)
        BY <2>0, <3>1 DEF RowTable
      <3>3. k[1] = j.stage /\ k[2] = j.attempt + 1 /\ j.attempt \in Nat
        BY <3>2, JobParts, Numbers DEF Key
      <3> QED BY <2>0, <3>1, <3>3 DEF OrderInv, Used
    <2>2. CASE \E l \in RowKey : Claim(l)
      <3> PICK l \in RowKey : Claim(l)
        BY <2>2
      <3>1. l = k /\ rows[k] = "pending"
        BY <2>0 DEF Claim, RowTable
      <3>2. k \in started => k[2] < k[2]
        BY <3>1 DEF OrderInv, OpenRow
      <3> QED BY <2>0, <3>2
    <2>3. CASE \E l \in RowKey : \/ SubmitSuccess(l)
                                 \/ \E retryable \in BOOLEAN : SubmitFailure(l, retryable)
                                 \/ Recover(l)
      <3> PICK l \in RowKey : \/ SubmitSuccess(l)
                              \/ \E retryable \in BOOLEAN : SubmitFailure(l, retryable)
                              \/ Recover(l)
        BY <2>3
      <3>1. \/ rows' = [rows EXCEPT ![l] = "completed"]
            \/ rows' = [rows EXCEPT ![l] = "failed"]
            \/ rows' = [rows EXCEPT ![l] = "none", ![<<l[1], l[2] + 1>>] = "pending"]
        BY Zenon DEF SubmitSuccess, SubmitFailure, Recover
      <3> QED BY <2>0, <3>1 DEF RowTable
    <2>4. CASE rows' = rows
      BY <2>4
    <2>5. CASE \E j \in JobKey : Backpressure(j)
      <3> PICK j \in JobKey : Backpressure(j)
        BY <2>5
      <3>1. \/ rows' = rows
            \/ rows' = [l \in RowKey |-> IF l[1] = j.stage /\ rows[l] \in OpenRow
                                         THEN "cancelled" ELSE rows[l]]
        BY Zenon DEF Backpressure
      <3> QED BY <3>1
    <2>6. CASE CancelRun
      BY <2>6 DEF CancelRun
    <2>7. \/ \E j \in JobKey : Dispatched(j) \/ NoWorker(j)
          \/ \E l \in RowKey : Claim(l)
          \/ \E l \in RowKey : \/ SubmitSuccess(l)
                               \/ \E retryable \in BOOLEAN : SubmitFailure(l, retryable)
                               \/ Recover(l)
          \/ \E j \in JobKey : Backpressure(j)
          \/ CancelRun
          \/ rows' = rows
      BY Zenon DEF Next, vars, StartRun, CreateContentJob, ProcessJob, Skipped, Idempotent,
           SpendHold, ClaimRow, ClaimOverBudget, EndTenure, Review, Decide, TimeoutRead,
           TimeoutWrite, Operator, RetryFailedJobs, ClearDeadLetterQueue
    <2> QED BY <2>1, <2>2, <2>3, <2>4, <2>5, <2>6, <2>7
  <1>2. Spec => []OrderInv(ordinal)
    BY OrderInvariant
  <1> QED BY <1>1, <1>2, RunInvariant, PTL DEF Spec, NoRestart

-----------------------------------------------------------------------------
(* A running run has something going on. *)

\* An approval leads somewhere, and no decision leads straight to a next gate.
\* The code does not ask this of a workflow either: without the first a decided
\* run is left RUNNING with nothing queued, and without the second too, because
\* pause_for_review still reads the decided gate as awaiting.
GatesLeadOn ==
    \A s \in ReviewStages :
        /\ OnApproved[s] # {}
        /\ (OnApproved[s] \cup OnRejected[s]) \cap ReviewStages = {}

StuckLetter(d, s) == d.table = "job_schedule" /\ d.stage = s

Moving ==
    clicks = 0 /\ run.status = "running" =>
        \/ \E j \in JobKey : jobs[j] > 0
        \/ \E k \in RowKey : rows[k] \in OpenRow
        \/ \E d \in dead : StuckLetter(d, run.stage)

\* No step leaves a running run without a job, an open assignment or a letter.
LEMMA MovingStep ==
    ASSUME NEW ordinal, LeadsForward(ordinal), GatesLeadOn
    PROVE  RunInv /\ Token /\ OrderInv(ordinal) /\ Moving /\ [Next]_vars => Moving'
  <1> SUFFICES ASSUME RunInv, Token, OrderInv(ordinal), Moving, [Next]_vars, clicks' = 0,
                      run'.status = "running"
               PROVE  \/ \E j \in JobKey : jobs'[j] > 0
                      \/ \E k \in RowKey : rows'[k] \in OpenRow
                      \/ \E d \in dead' : StuckLetter(d, run'.stage)
    BY DEF Moving
  <1> DEFINE Goal == \/ \E j \in JobKey : jobs'[j] > 0
                     \/ \E k \in RowKey : rows'[k] \in OpenRow
                     \/ \E d \in dead' : StuckLetter(d, run'.stage)
  <1>0. /\ TypeOK /\ run \in RunRow /\ gates \in [GateIds -> GateRow]
        /\ jobs \in [JobKey -> Nat] /\ rows \in RowTable
    BY TypeParts DEF RunInv
  <1>1. clicks = 0
    BY ClicksGrow
  <1>2. /\ \A j \in JobKey : jobs[j] > 0 => AtJob(j, run, jobs, rows, gates, reserved)
        /\ \A k \in RowKey : rows[k] \in OpenRow => AtRow(k, run, jobs, rows, gates, reserved)
        /\ \A g \in GateIds : gates[g].status = "awaiting"
                                => AtGate(g, run, jobs, rows, gates, reserved)
    BY <1>1, StrandAt DEF Token
  <1>3. CASE UNCHANGED <<run, jobs, rows, dead>>
    <2>1. Goal
      BY <1>1, <1>3 DEF Moving
    <2> QED BY <2>1
  <1>4. CASE StartRun
    <2>1. PICK j \in JobKey : EnqueueStage(First, 0)[j] > 0
      BY <1>0, FirstJob
    <2>2. jobs' = EnqueueStage(First, 0)
      BY <1>4 DEF StartRun
    <2> QED BY <2>1, <2>2
  <1>5. CASE CreateContentJob
    <2>1. PICK t \in OnSuccess[First] \cap ReviewStages :
            run' = [stage |-> t, status |-> "paused", pause |-> "review_gate"]
      BY <1>5 DEF CreateContentJob
    <2> QED BY <2>1
  <1>6. ASSUME NEW j \in JobKey, Backpressure(j) PROVE Goal
    <2>1. jobs[j] > 0 /\ j.attempt \in Nat /\ run' = run
      BY <1>6, JobParts, Numbers DEF Backpressure
    <2>2. CASE j.attempt + 1 < NoWorkerMaxRetries
      <3> DEFINE i == [j EXCEPT !.attempt = @ + 1]
      <3>1. i \in JobKey
        <4>1. j.attempt + 1 \in 0 .. MaxNumber
          BY <2>1, <2>2, Numbers
        <4> QED BY <4>1 DEF JobKey
      <3>2. jobs' = [Retire(j) EXCEPT ![i] = @ + 1]
        BY <1>6, <2>2, Zenon DEF Backpressure
      <3> HIDE DEF i
      <3>3. jobs'[i] > 0
        BY <1>0, <2>1, <3>1, <3>2, Retired
      <3> QED BY <3>1, <3>3
    <2>3. CASE ~(j.attempt + 1 < NoWorkerMaxRetries)
      <3> DEFINE d == DeadLetter("job_schedule", j.stage, j.attempt + 1)
      <3>1. d \in dead'
        BY <1>6, <2>3, Zenon DEF Backpressure
      <3>2. j.stage = run.stage
        BY <1>2, <2>1 DEF AtJob
      <3>3. StuckLetter(d, run'.stage)
        BY <2>1, <3>2 DEF StuckLetter, DeadLetter
      <3> QED BY <3>1, <3>3
    <2> QED BY <2>2, <2>3
  <1>7. ASSUME NEW j \in JobKey, Skipped(j) PROVE Goal
    <2>1. run.status # "running" /\ run' = run
      BY <1>7 DEF Skipped, Terminal
    <2> QED BY <2>1
  <1>8. ASSUME NEW j \in JobKey, Idempotent(j) PROVE Goal
    <2>1. /\ jobs[j] > 0 /\ Dispatchable(j) /\ rows[Key(j)] # "none"
      BY <1>8 DEF Idempotent, Dispatchable
    <2>2. Key(j) \in RowKey /\ Key(j)[1] = j.stage /\ Key(j)[2] = j.attempt + 1
      <3>1. j.stage \in WorkStages
        BY <2>1, JobParts DEF Dispatchable, TickRaises
      <3>2. j.attempt + 1 \in 1 .. MaxNumber
        BY <1>1, <2>1, JobParts, Numbers DEF RunInv, Numbered
      <3> QED BY <3>1, <3>2 DEF Key, RowKey
    <2>3. Key(j)[2] <= j.attempt
      BY <1>1, <2>1, <2>2 DEF OrderInv, Used
    <2>4. j.attempt \in Nat
      BY JobParts, Numbers
    <2> QED BY <2>2, <2>3, <2>4
  <1>9. ASSUME NEW j \in JobKey, Dispatched(j) \/ NoWorker(j) PROVE Goal
    <2>1. /\ Dispatchable(j) /\ jobs[j] > 0
          /\ rows' = [rows EXCEPT ![Key(j)] = "inflight"]
             \/ rows' = [rows EXCEPT ![Key(j)] = "pending"]
      BY <1>9 DEF Dispatched, NoWorker, Dispatchable
    <2>2. Key(j) \in RowKey
      <3>1. j.stage \in WorkStages
        BY <2>1, JobParts DEF Dispatchable, TickRaises
      <3>2. j.attempt + 1 \in 1 .. MaxNumber
        BY <1>1, <2>1, JobParts, Numbers DEF RunInv, Numbered
      <3> QED BY <3>1, <3>2 DEF Key, RowKey
    <2>3. rows'[Key(j)] \in OpenRow
      BY <1>0, <2>1, <2>2 DEF RowTable, OpenRow
    <2> QED BY <2>2, <2>3
  <1>10. ASSUME NEW s, SpendRefused(s) PROVE Goal
    <2>1. run'.status = "paused"
      BY <1>0, <1>10 DEF SpendRefused, RunRow
    <2> QED BY <2>1
  <1>11. ASSUME NEW k \in RowKey, Claim(k) PROVE Goal
    <2>1. rows'[k] \in OpenRow
      BY <1>0, <1>11 DEF Claim, RowTable, OpenRow
    <2> QED BY <2>1
  <1>12. ASSUME NEW STATE r, NEW STATE gs, NEW t, GoesOn(t, r, gs), r \in RunRow,
                Awaiting = {} \/ t \notin ReviewStages
         PROVE  Goal
    <2>1. CASE Finishes(t, r, gs)
      <3>1. run'.status = "succeeded"
        BY <1>12, <2>1, RunUpdates DEF Finishes
      <3> QED BY <3>1
    <2>2. CASE PassesGate(t, r, gs)
      BY <1>12, <2>2 DEF PassesGate
    <2>3. CASE OpensGate(t, gs)
      <3>1. run' = [stage |-> t, status |-> "paused", pause |-> "review_gate"]
        BY <2>3 DEF OpensGate
      <3> QED BY <3>1
    <2>4. CASE QueuesStage(t, r, gs)
      <3>1. PICK j \in JobKey :
              \A i \in JobKey : jobs'[i] = IF i = j THEN jobs[j] + 1 ELSE jobs[i]
        BY <2>4 DEF QueuesStage
      <3>2. jobs'[j] > 0
        BY <1>0, <3>1
      <3> QED BY <3>2
    <2> QED BY <1>12, <2>1, <2>2, <2>3, <2>4 DEF GoesOn
  <1>13. ASSUME NEW k \in RowKey, SubmitSuccess(k) PROVE Goal
    <2>1. AtRow(k, run, jobs, rows, gates, reserved)
      BY <1>2, <1>13 DEF SubmitSuccess, OpenRow
    <2>2. Awaiting = {} /\ run.status \notin Terminal
      BY <2>1 DEF AtRow, NoGates, Awaiting
    <2>3. AdvanceOrFinish(k[1], OnSuccess[k[1]], run, gates)
      BY <1>13, <2>2, Zenon DEF SubmitSuccess
    <2>4. OnSuccess[k[1]] \subseteq Stages
      BY RowKeyParts, GraphAssumption
    <2>5. PICK t \in OnSuccess[k[1]] : GoesOn(t, run, gates)
      BY <1>0, <2>3, <2>4, Advance
    <2> QED BY <1>0, <1>12, <2>2, <2>5
  <1>14. ASSUME NEW k \in RowKey, NEW retryable \in BOOLEAN, SubmitFailure(k, retryable)
         PROVE  Goal
    <2>1. CASE retryable /\ MayRetry(k[2])
      <3>1. jobs' = EnqueueStage(k[1], k[2])
        BY <1>14, <2>1, Zenon DEF SubmitFailure, RetryJob
      <3>2. k[1] \in WorkStages \cup {BadKey} /\ k[2] \in 0 .. MaxNumber /\ TypeOK
        BY <1>0, RowKeyParts, Numbers
      <3>3. PICK j \in JobKey :
              /\ j.stage = k[1] /\ j.attempt = k[2]
              /\ \A i \in JobKey :
                   EnqueueStage(k[1], k[2])[i] = IF i = j THEN jobs[j] + 1 ELSE jobs[i]
        <4> HIDE DEF Goal
        <4> DEFINE s == k[1]
        <4> DEFINE n == k[2]
        <4>1. s \in WorkStages \cup {BadKey} /\ n \in 0 .. MaxNumber /\ TypeOK
          BY <3>2
        <4> HIDE DEF s, n
        <4>2. \E j \in JobKey :
                /\ j.stage = s /\ j.attempt = n
                /\ \A i \in JobKey :
                     EnqueueStage(s, n)[i] = IF i = j THEN jobs[j] + 1 ELSE jobs[i]
          BY <4>1, Enqueued
        <4> QED BY <4>2 DEF s, n
      <3>4. jobs'[j] > 0
        BY <1>0, <3>1, <3>3
      <3> QED BY <3>4
    <2>2. CASE ~(retryable /\ MayRetry(k[2]))
      <3>1. run' = [run EXCEPT !.status = "failed"]
        BY <1>14, <2>2, Zenon DEF SubmitFailure, FailRun
      <3>2. run'.status = "failed"
        BY <1>0, <3>1 DEF RunRow
      <3> QED BY <3>2
    <2> QED BY <2>1, <2>2
  <1>15. ASSUME NEW k \in RowKey, Recover(k) PROVE Goal
    <2>1. AtRow(k, run, jobs, rows, gates, reserved)
      BY <1>2, <1>15 DEF Recover, OpenRow
    <2>2. run.status \notin Terminal
      BY <2>1 DEF AtRow
    <2>3. CASE k[2] + 1 > MaxAttempts
      <3>1. run' = [run EXCEPT !.status = "failed"]
        BY <1>15, <2>2, <2>3, Zenon DEF Recover, FailRun
      <3>2. run'.status = "failed"
        BY <1>0, <3>1 DEF RunRow
      <3> QED BY <3>2
    <2>4. CASE ~(k[2] + 1 > MaxAttempts)
      <3> DEFINE next == <<k[1], k[2] + 1>>
      <3>1. rows' = [rows EXCEPT ![k] = "none", ![next] = "pending"]
        BY <1>15, <2>4, Zenon DEF Recover
      <3>2. next \in RowKey
        <4>1. k[2] + 1 \in 1 .. MaxNumber
          BY <2>4, RowKeyParts, Numbers
        <4> QED BY <4>1, RowKeyParts DEF RowKey
      <3> HIDE DEF next
      <3>3. rows'[next] \in OpenRow
        BY <1>0, <3>1, <3>2 DEF RowTable, OpenRow
      <3> QED BY <3>2, <3>3
    <2> QED BY <2>3, <2>4
  <1>16. ASSUME NEW g \in GateIds, NEW approved \in BOOLEAN, Decide(g, approved) PROVE Goal
    <2>1. /\ gates[g].stage \in ReviewStages /\ ResumedRun \in RunRow
      BY <1>0, <1>16, DecideEffect, ResumeTypes
    <2>2. CASE run' = [run EXCEPT !.status = "failed", !.pause = "none"]
      <3>1. run'.status = "failed"
        BY <1>0, <2>2 DEF RunRow
      <3> QED BY <3>1
    <2>3. ~(approved /\ TargetsOf(gates[g].stage, approved) = {})
      BY <2>1 DEF GatesLeadOn, TargetsOf
    <2>4. \A t \in TargetsOf(gates[g].stage, approved) : t \notin ReviewStages
      BY <2>1 DEF GatesLeadOn, TargetsOf
    <2>5. CASE \E t \in TargetsOf(gates[g].stage, approved) :
                  GoesOn(t, ResumedRun, Decided(g, approved))
      <3> HIDE DEF Goal
      <3> QED BY <1>12, <2>1, <2>4, <2>5
    <2> QED BY <1>16, <2>2, <2>3, <2>5, DecideEffect, Zenon
  <1>17. ASSUME NEW g \in GateIds, TimeoutRead(g) \/ TimeoutWrite(g) PROVE Goal
    <2>0. TimeoutWrite(g) => gates[g].level = 0
      BY DEF TimeoutWrite, RunInv, GateRows
    <2>1. UNCHANGED <<run, jobs, rows, dead>>
      BY <1>17, <2>0, Zenon DEF TimeoutRead, TimeoutWrite
    <2> QED BY <1>3, <2>1
  <1>18. CASE RetryFailedJobs \/ ClearDeadLetterQueue
    <2>1. clicks' = clicks + 1
      BY <1>18, Zenon DEF RetryFailedJobs, ClearDeadLetterQueue
    <2> QED BY <1>1, <2>1
  <1>19. CASE CancelRun
    <2>1. run'.status = "cancelled"
      BY <1>0, <1>19 DEF CancelRun, RunRow
    <2> QED BY <2>1
  <1> HIDE DEF Goal
  <1>20. CASE ProcessJob
    <2> PICK j \in JobKey : \/ Backpressure(j) \/ Skipped(j) \/ Idempotent(j)
                            \/ Dispatched(j) \/ NoWorker(j) \/ SpendHold(j)
      BY <1>20, Zenon DEF ProcessJob
    <2>1. SpendHold(j) => SpendRefused(j.stage)
      BY Zenon DEF SpendHold
    <2>2. Goal
      BY <1>6, <1>7, <1>8, <1>9, <1>10, <2>1
    <2> QED BY <2>2 DEF Goal
  <1>21. CASE ClaimRow
    <2> PICK k \in RowKey : Claim(k) \/ ClaimOverBudget(k)
      BY <1>21, Zenon DEF ClaimRow
    <2>1. ClaimOverBudget(k) => SpendRefused(k[1])
      BY Zenon DEF ClaimOverBudget
    <2>2. Goal
      BY <1>10, <1>11, <2>1
    <2> QED BY <2>2 DEF Goal
  <1>22. CASE EndTenure
    <2>1. Goal
      BY <1>13, <1>14, <1>15, <1>22 DEF EndTenure
    <2> QED BY <2>1 DEF Goal
  <1>23. CASE Review
    <2>1. Goal
      BY <1>16, <1>17, <1>23 DEF Review
    <2> QED BY <2>1 DEF Goal
  <1>24. CASE UNCHANGED vars
    BY <1>3, <1>24 DEF vars
  <1> QED BY <1>4, <1>5, <1>18, <1>19, <1>20, <1>21, <1>22, <1>23, <1>24 DEF Next, Operator

\* In a workflow that leads forward and whose gates lead on, a RUNNING run has a
\* job or an open assignment at its stage, or a dead letter says why not, until
\* an operator uses a dead-letter button.
THEOREM RunningRunsMove ==
    ASSUME NEW CONSTANT ordinal, LeadsForward(ordinal), GatesLeadOn
    PROVE  Spec => []RunningRunMoves
  <1>1. Init => Moving
    BY DEF Init, Moving
  <1>2. RunInv /\ Token /\ OrderInv(ordinal) /\ Moving /\ [Next]_vars => Moving'
    BY MovingStep
  <1>3. Token /\ Moving => RunningRunMoves
    <2> SUFFICES ASSUME Token, Moving, clicks = 0, run.status = "running"
                 PROVE  \/ \E j \in Queued : j.stage = run.stage
                        \/ \E k \in Open : k[1] = run.stage
                        \/ \E d \in dead : d.table = "job_schedule" /\ d.stage = run.stage
      BY DEF RunningRunMoves
    <2>1. /\ \A j \in JobKey : jobs[j] > 0 => AtJob(j, run, jobs, rows, gates, reserved)
          /\ \A k \in RowKey : rows[k] \in OpenRow => AtRow(k, run, jobs, rows, gates, reserved)
      BY StrandAt DEF Token
    <2>2. CASE \E j \in JobKey : jobs[j] > 0
      BY <2>1, <2>2 DEF AtJob, Queued
    <2>3. CASE \E k \in RowKey : rows[k] \in OpenRow
      BY <2>1, <2>3 DEF AtRow, Open
    <2> QED BY <2>2, <2>3 DEF Moving, StuckLetter
  <1>4. Spec => []OrderInv(ordinal)
    BY OrderInvariant
  <1> QED BY <1>1, <1>2, <1>3, <1>4, RunInvariant, TokenInvariant, PTL DEF Spec

-----------------------------------------------------------------------------
(* What is going on in a run, however often it was retried. *)

\* The open assignments and the awaiting gates.
OpenIn(a) == {k \in RowKey : a[k] \in OpenRow}
AwaitingIn(gs) == {g \in GateIds : gs[g].status = "awaiting"}

\* How many things are going on: queued jobs, open assignments, awaiting gates.
Strands(q, a, gs) ==
    Total(q, JobKey) + Cardinality(OpenIn(a)) + Cardinality(AwaitingIn(gs))

\* There are finitely many kinds of jobs.
LEMMA JobKeyFinite == IsFiniteSet(JobKey)
  <1> DEFINE K == {"stage", "retry"}
             S == WorkStages \cup {BadKey}
             N == 0 .. MaxNumber
             P == (K \X S) \X N
             f == [p \in P |-> [kind |-> p[1][1], stage |-> p[1][2], attempt |-> p[2]]]
  <1>1. IsFiniteSet(K)
    <2>1. IsFiniteSet({}) /\ K = ({} \cup {"stage"}) \cup {"retry"}
      BY FS_EmptySet
    <2> HIDE DEF K
    <2> QED BY <2>1, FS_AddElement
  <1>2. IsFiniteSet(S)
    BY GraphAssumption, FS_AddElement
  <1>3. IsFiniteSet(N)
    BY Numbers, FS_Interval
  <1>4. IsFiniteSet(P)
    <2> HIDE DEF K, S, N
    <2>1. IsFiniteSet(K \X S)
      BY <1>1, <1>2, FS_Product
    <2> QED BY <1>3, <2>1, FS_Product
  <1>5. f \in [P -> JobKey]
    BY DEF JobKey
  <1>6. \A j \in JobKey : \E p \in P : f[p] = j
    <2> TAKE j \in JobKey
    <2> DEFINE p == <<<<j.kind, j.stage>>, j.attempt>>
    <2>1. p \in P /\ f[p] = j
      BY DEF JobKey
    <2> QED BY <2>1
  <1>7. f \in Surjection(P, JobKey)
    <2> HIDE DEF f, P
    <2> QED BY <1>5, <1>6 DEF Surjection
  <1> HIDE DEF f, P
  <1> QED BY <1>4, <1>7, FS_Surjection

\* A job more.
LEMMA QueueGains ==
    ASSUME NEW q \in [JobKey -> Nat], NEW q2 \in [JobKey -> Nat], NEW j \in JobKey,
           \A i \in JobKey : q2[i] = IF i = j THEN q[j] + 1 ELSE q[i]
    PROVE  Total(q2, JobKey) = Total(q, JobKey) + 1
  BY JobKeyFinite, TotalGains

\* A job less.
LEMMA QueueLoses ==
    ASSUME NEW q \in [JobKey -> Nat], NEW q2 \in [JobKey -> Nat], NEW j \in JobKey, q[j] > 0,
           \A i \in JobKey : q2[i] = IF i = j THEN q[j] - 1 ELSE q[i]
    PROVE  Total(q2, JobKey) = Total(q, JobKey) - 1
  <1>1. \A i \in JobKey : q[i] = IF i = j THEN q2[j] + 1 ELSE q2[i]
    BY Z3
  <1>2. Total(q, JobKey) = Total(q2, JobKey) + 1
    BY <1>1, QueueGains
  <1>3. Total(q2, JobKey) \in Nat
    BY JobKeyFinite, TotalType
  <1> QED BY <1>2, <1>3

\* A set of keys with one more or one less, or a part of it.
LEMMA Counted ==
    ASSUME NEW S, IsFiniteSet(S), NEW T, NEW x
    PROVE  /\ Cardinality(S) \in Nat
           /\ T \subseteq S => Cardinality(T) <= Cardinality(S) /\ Cardinality(T) \in Nat
           /\ T = S \ {x} /\ x \in S => Cardinality(T) = Cardinality(S) - 1
           /\ T = S \cup {x} => Cardinality(T) <= Cardinality(S) + 1 /\ Cardinality(T) \in Nat
  <1>1. Cardinality(S) \in Nat
    BY FS_CardinalityType
  <1>2. ASSUME T \subseteq S PROVE Cardinality(T) <= Cardinality(S) /\ Cardinality(T) \in Nat
    <2>1. T \in SUBSET S
      BY <1>2
    <2>2. IsFiniteSet(T) /\ Cardinality(T) <= Cardinality(S)
      BY <2>1, FS_Subset
    <2> QED BY <2>2, FS_CardinalityType
  <1>3. ASSUME T = S \ {x}, x \in S PROVE Cardinality(T) = Cardinality(S) - 1
    BY <1>3, FS_RemoveElement
  <1>4. ASSUME T = S \cup {x}
        PROVE  Cardinality(T) <= Cardinality(S) + 1 /\ Cardinality(T) \in Nat
    <2>1. Cardinality(S \cup {x}) = IF x \in S THEN Cardinality(S) ELSE Cardinality(S) + 1
      BY FS_AddElement
    <2>2. Cardinality(T) = Cardinality(S) \/ Cardinality(T) = Cardinality(S) + 1
      BY <1>4, <2>1
    <2> QED BY <1>1, <2>2
  <1> QED BY <1>1, <1>2, <1>3, <1>4

\* There are finitely many assignments and gates.
LEMMA StrandSets ==
    ASSUME NEW a, NEW gs, NEW q \in [JobKey -> Nat]
    PROVE  /\ IsFiniteSet(OpenIn(a)) /\ IsFiniteSet(AwaitingIn(gs))
           /\ Cardinality(OpenIn(a)) \in Nat /\ Cardinality(AwaitingIn(gs)) \in Nat
           /\ Total(q, JobKey) \in Nat
  <1>1. OpenIn(a) \in SUBSET RowKey /\ AwaitingIn(gs) \in SUBSET GateIds
    BY DEF OpenIn, AwaitingIn
  <1>2. IsFiniteSet(OpenIn(a)) /\ IsFiniteSet(AwaitingIn(gs))
    BY <1>1, RowKeyFinite, BoundsAssumption, FS_Subset
  <1>3. Total(q, JobKey) \in Nat
    BY JobKeyFinite, TotalType
  <1> QED BY <1>2, <1>3, FS_CardinalityType

\* _advance_or_finish adds one thing at most: a queued stage or a gate.
LEMMA GoesOnAddsOne ==
    ASSUME jobs \in [JobKey -> Nat], jobs' \in [JobKey -> Nat],
           NEW STATE r, NEW STATE gs, NEW t, GoesOn(t, r, gs)
    PROVE  Total(jobs', JobKey) + Cardinality(AwaitingIn(gates'))
             <= Total(jobs, JobKey) + Cardinality(AwaitingIn(gs)) + 1
  <1>0. /\ Total(jobs, JobKey) \in Nat /\ Total(jobs', JobKey) \in Nat
        /\ IsFiniteSet(AwaitingIn(gs)) /\ Cardinality(AwaitingIn(gs)) \in Nat
        /\ Cardinality(AwaitingIn(gates')) \in Nat
    BY StrandSets
  <1>1. CASE Finishes(t, r, gs) \/ PassesGate(t, r, gs)
    <2>1. jobs' = jobs /\ gates' = gs
      BY <1>1 DEF Finishes, PassesGate
    <2> QED BY <1>0, <2>1
  <1>2. CASE OpensGate(t, gs)
    <2>1. PICK x \in Unused :
            \A g \in GateIds : gates'[g] = IF g = x THEN NewGate(t) ELSE gs[g]
      BY <1>2 DEF OpensGate
    <2>2. x \in GateIds /\ jobs' = jobs /\ NewGate(t).status = "awaiting"
      BY <1>2 DEF OpensGate, Unused, NewGate
    <2>3. AwaitingIn(gates') = AwaitingIn(gs) \cup {x}
      BY <2>1, <2>2 DEF AwaitingIn
    <2>4. Cardinality(AwaitingIn(gates')) <= Cardinality(AwaitingIn(gs)) + 1
      BY <1>0, <2>3, Counted
    <2> QED BY <1>0, <2>2, <2>4
  <1>3. CASE QueuesStage(t, r, gs)
    <2>1. gates' = gs
      BY <1>3 DEF QueuesStage
    <2>2. PICK j \in JobKey :
            \A i \in JobKey : jobs'[i] = IF i = j THEN jobs[j] + 1 ELSE jobs[i]
      BY <1>3 DEF QueuesStage
    <2>3. Total(jobs', JobKey) = Total(jobs, JobKey) + 1
      BY <2>2, QueueGains
    <2> QED BY <1>0, <2>1, <2>3
  <1> QED BY <1>1, <1>2, <1>3 DEF GoesOn

\* A run that has begun has, after a step other than the retry button, no more
\* going on than before.
LEMMA StrandsStep ==
    ASSUME RunInv, Next, run.status # "absent", ~RetryFailedJobs
    PROVE  Strands(jobs', rows', gates') <= Strands(jobs, rows, gates)
  <1> DEFINE Q == Total(jobs, JobKey)
             Q2 == Total(jobs', JobKey)
             O == Cardinality(OpenIn(rows))
             O2 == Cardinality(OpenIn(rows'))
             G == Cardinality(AwaitingIn(gates))
             G2 == Cardinality(AwaitingIn(gates'))
             Goal == Strands(jobs', rows', gates') <= Strands(jobs, rows, gates)
  <1>0. /\ TypeOK /\ run \in RunRow /\ gates \in [GateIds -> GateRow]
        /\ jobs \in [JobKey -> Nat] /\ rows \in RowTable /\ clicks \in 0 .. MaxClicks
    BY TypeParts DEF RunInv
  <1>1. jobs' \in [JobKey -> Nat] /\ rows' \in RowTable
    BY RunInvStep, TypePartsNext DEF RunInv
  <1>2. /\ Q \in Nat /\ O \in Nat /\ G \in Nat /\ Q2 \in Nat /\ O2 \in Nat /\ G2 \in Nat
        /\ IsFiniteSet(OpenIn(rows)) /\ IsFiniteSet(AwaitingIn(gates))
    BY <1>0, <1>1, StrandSets
  <1>3. Q2 + O2 + G2 <= Q + O + G => Goal
    BY DEF Strands
  <1>4. /\ jobs' = jobs => Q2 = Q
        /\ rows' = rows => O2 = O
        /\ gates' = gates => G2 = G
    OBVIOUS
  <1>5. ASSUME NEW j \in JobKey, jobs[j] > 0, jobs' = Retire(j) PROVE Q2 = Q - 1
    <2>1. \A i \in JobKey : jobs'[i] = IF i = j THEN jobs[j] - 1 ELSE jobs[i]
      BY <1>0, <1>5, Retired
    <2> QED BY <1>0, <1>1, <1>5, <2>1, QueueLoses
  <1>6. ASSUME NEW k \in RowKey, NEW s, s \in {"completed", "failed"}, rows[k] = "inflight",
               rows' = [rows EXCEPT ![k] = s]
        PROVE  O2 = O - 1
    <2>1. OpenIn(rows') = OpenIn(rows) \ {k} /\ k \in OpenIn(rows)
      BY <1>0, <1>6 DEF OpenIn, OpenRow, RowTable
    <2> QED BY <1>2, <2>1, Counted
  <1>7. ASSUME \A k \in RowKey : rows'[k] \in OpenRow => rows[k] \in OpenRow PROVE O2 <= O
    <2>1. OpenIn(rows') \subseteq OpenIn(rows)
      BY <1>7 DEF OpenIn
    <2> QED BY <1>2, <2>1, Counted
  <1>8. ASSUME \A g \in GateIds : gates'[g].status = "awaiting" => gates[g].status = "awaiting"
        PROVE  G2 <= G
    <2>1. AwaitingIn(gates') \subseteq AwaitingIn(gates)
      BY <1>8 DEF AwaitingIn
    <2> QED BY <1>2, <2>1, Counted
  <1> HIDE DEF Q, Q2, O, O2, G, G2, Goal
  <1>9. ASSUME NEW j \in JobKey, Backpressure(j) PROVE Goal
    <2>1. jobs[j] > 0 /\ j.attempt \in Nat /\ gates' = gates
      BY <1>9, JobParts, Numbers DEF Backpressure
    <2>2. CASE j.attempt + 1 < NoWorkerMaxRetries
      <3> DEFINE i == [j EXCEPT !.attempt = @ + 1]
                 q == Retire(j)
      <3>1. i \in JobKey
        <4>1. j.attempt + 1 \in 0 .. MaxNumber
          BY <2>1, <2>2, Numbers
        <4> QED BY <4>1 DEF JobKey
      <3>2. jobs' = [q EXCEPT ![i] = @ + 1] /\ rows' = rows
        BY <1>9, <2>2, Zenon DEF Backpressure
      <3>3. q \in [JobKey -> Nat] /\ \A x \in JobKey : q[x] = IF x = j THEN jobs[j] - 1 ELSE jobs[x]
        BY <1>0, <2>1, Retired
      <3> HIDE DEF i, q
      <3>4. \A x \in JobKey : jobs'[x] = IF x = i THEN q[i] + 1 ELSE q[x]
        BY <3>1, <3>2, <3>3, JobAdded
      <3>5. Total(q, JobKey) = Q - 1
        BY <1>0, <2>1, <3>3, QueueLoses DEF Q
      <3>6. Q2 = Total(q, JobKey) + 1
        BY <1>1, <3>1, <3>3, <3>4, QueueGains DEF Q2
      <3> QED BY <1>2, <1>3, <1>4, <2>1, <3>2, <3>5, <3>6
    <2>3. CASE ~(j.attempt + 1 < NoWorkerMaxRetries)
      <3>1. /\ jobs' = Retire(j)
            /\ rows' = [k \in RowKey |-> IF k[1] = j.stage /\ rows[k] \in OpenRow
                                         THEN "cancelled" ELSE rows[k]]
        BY <1>9, <2>3, Zenon DEF Backpressure
      <3>2. O2 <= O
        BY <1>7, <3>1 DEF OpenRow
      <3> QED BY <1>2, <1>3, <1>4, <1>5, <2>1, <3>1, <3>2
    <2> QED BY <2>2, <2>3
  <1>10. ASSUME NEW j \in JobKey, Skipped(j) \/ Idempotent(j) PROVE Goal
    <2>1. jobs[j] > 0 /\ jobs' = Retire(j) /\ rows' = rows /\ gates' = gates
      BY <1>10 DEF Skipped, Idempotent, Dispatchable
    <2> QED BY <1>2, <1>3, <1>4, <1>5, <2>1
  <1>11. ASSUME NEW j \in JobKey, Dispatched(j) \/ NoWorker(j) PROVE Goal
    <2>1. /\ jobs[j] > 0 /\ jobs' = Retire(j) /\ gates' = gates /\ Dispatchable(j)
          /\ \E s \in OpenRow : rows' = [rows EXCEPT ![Key(j)] = s]
      BY <1>11 DEF Dispatched, NoWorker, Dispatchable, OpenRow
    <2>2. Key(j) \in RowKey
      <3>1. j.stage \in WorkStages
        BY <2>1, JobParts DEF Dispatchable, TickRaises
      <3>2. j.attempt + 1 \in 1 .. MaxNumber
        BY <1>0, <2>1, JobParts, Numbers DEF RunInv, Numbered
      <3> QED BY <3>1, <3>2 DEF Key, RowKey
    <2>3. OpenIn(rows') = OpenIn(rows) \cup {Key(j)}
      BY <1>0, <2>1, <2>2 DEF OpenIn, OpenRow, RowTable
    <2>4. O2 <= O + 1
      BY <1>2, <2>3, Counted DEF O, O2
    <2> QED BY <1>2, <1>3, <1>4, <1>5, <2>1, <2>4
  <1>12. ASSUME UNCHANGED <<jobs, rows, gates>> PROVE Goal
    BY <1>2, <1>3, <1>4, <1>12
  <1>13. ASSUME NEW k \in RowKey, Claim(k) PROVE Goal
    <2>1. jobs' = jobs /\ gates' = gates /\ rows[k] = "pending"
          /\ rows' = [rows EXCEPT ![k] = "inflight"]
      BY <1>13 DEF Claim
    <2>2. O2 <= O
      BY <1>0, <1>7, <2>1 DEF OpenRow, RowTable
    <2> QED BY <1>2, <1>3, <1>4, <2>1, <2>2
  <1>14. ASSUME NEW k \in RowKey, SubmitSuccess(k) PROVE Goal
    <2>1. O2 = O - 1
      BY <1>6, <1>14 DEF SubmitSuccess
    <2>2. CASE run.status \in Terminal
      <3>1. jobs' = jobs /\ gates' = gates
        BY <1>14, <2>2 DEF SubmitSuccess
      <3> QED BY <1>2, <1>3, <1>4, <2>1, <3>1
    <2>3. CASE run.status \notin Terminal
      <3>1. AdvanceOrFinish(k[1], OnSuccess[k[1]], run, gates)
        BY <1>14, <2>3, Zenon DEF SubmitSuccess
      <3>2. OnSuccess[k[1]] \subseteq Stages
        BY RowKeyParts, GraphAssumption
      <3>3. PICK t \in OnSuccess[k[1]] : GoesOn(t, run, gates)
        BY <1>0, <3>1, <3>2, Advance
      <3>4. Q2 + G2 <= Q + G + 1
        BY <1>0, <1>1, <3>3, GoesOnAddsOne DEF Q, Q2, G, G2
      <3> QED BY <1>2, <1>3, <2>1, <3>4
    <2> QED BY <2>2, <2>3
  <1>15. ASSUME NEW k \in RowKey, NEW retryable \in BOOLEAN, SubmitFailure(k, retryable) PROVE Goal
    <2>1. rows[k] = "inflight" /\ rows' = [rows EXCEPT ![k] = "failed"] /\ gates' = gates
      BY <1>15, Zenon DEF SubmitFailure
    <2>2. O2 = O - 1
      BY <1>6, <2>1
    <2>3. Q2 <= Q + 1
      <3>1. CASE retryable /\ MayRetry(k[2])
        <4>1. jobs' = EnqueueStage(k[1], k[2])
          BY <1>15, <3>1, Zenon DEF SubmitFailure, RetryJob
        <4>2. k[1] \in WorkStages \cup {BadKey} /\ k[2] \in 0 .. MaxNumber
          BY RowKeyParts, Numbers
        <4>3. PICK j \in JobKey : \A i \in JobKey : jobs'[i] = IF i = j THEN jobs[j] + 1 ELSE jobs[i]
          BY <1>0, <4>1, <4>2, Enqueued
        <4>4. Q2 = Q + 1
          BY <1>0, <1>1, <4>3, QueueGains DEF Q, Q2
        <4> QED BY <1>2, <4>4
      <3>2. CASE ~(retryable /\ MayRetry(k[2]))
        <4>1. jobs' = jobs
          BY <1>15, <3>2, Zenon DEF SubmitFailure
        <4> QED BY <1>2, <1>4, <4>1
      <3> QED BY <3>1, <3>2
    <2> QED BY <1>2, <1>3, <1>4, <2>1, <2>2, <2>3
  <1>16. ASSUME NEW k \in RowKey, Recover(k) PROVE Goal
    <2>1. rows[k] = "inflight" /\ jobs' = jobs /\ gates' = gates
      BY <1>16 DEF Recover
    <2>2. CASE k[2] + 1 > MaxAttempts
      <3>1. rows' = [rows EXCEPT ![k] = "failed"]
        BY <1>16, <2>2, Zenon DEF Recover
      <3>2. O2 = O - 1
        BY <1>6, <2>1, <3>1
      <3> QED BY <1>2, <1>3, <1>4, <2>1, <3>2
    <2>3. CASE ~(k[2] + 1 > MaxAttempts)
      <3> DEFINE next == <<k[1], k[2] + 1>>
      <3>1. rows' = [rows EXCEPT ![k] = "none", ![next] = "pending"]
        BY <1>16, <2>3, Zenon DEF Recover
      <3>2. next \in RowKey /\ next # k
        <4>1. k[2] + 1 \in 1 .. MaxNumber /\ k[2] \in Nat
          BY <2>3, RowKeyParts, Numbers
        <4> QED BY <4>1, RowKeyParts DEF RowKey
      <3> HIDE DEF next
      <3> DEFINE rest == OpenIn(rows) \ {k}
      <3>3. OpenIn(rows') = rest \cup {next} /\ k \in OpenIn(rows)
        BY <1>0, <2>1, <3>1, <3>2 DEF OpenIn, OpenRow, RowTable
      <3>4. IsFiniteSet(rest) /\ Cardinality(rest) = O - 1
        BY <1>2, <3>3, FS_RemoveElement, Counted DEF O
      <3> HIDE DEF rest
      <3>5. O2 <= Cardinality(rest) + 1
        BY <3>3, <3>4, Counted DEF O2
      <3> QED BY <1>2, <1>3, <1>4, <2>1, <3>4, <3>5
    <2> QED BY <2>2, <2>3
  <1>17. ASSUME NEW g \in GateIds, NEW approved \in BOOLEAN, Decide(g, approved) PROVE Goal
    <2> DEFINE gs == Decided(g, approved)
               D == Cardinality(AwaitingIn(gs))
    <2>1. gates[g].status = "awaiting" /\ rows' = rows
      BY <1>17, DecideEffect, Zenon
    <2>2. AwaitingIn(gs) = AwaitingIn(gates) \ {g} /\ g \in AwaitingIn(gates)
      BY <1>0, <2>1, ResumeTypes DEF AwaitingIn
    <2>3. D = G - 1
      BY <1>2, <2>2, Counted DEF G
    <2>4. CASE gates' = gs /\ jobs' = jobs
      <3>1. G2 = D
        BY <2>4 DEF G2
      <3> QED BY <1>2, <1>3, <1>4, <2>1, <2>3, <2>4, <3>1
    <2>5. CASE \E t \in TargetsOf(gates[g].stage, approved) : GoesOn(t, ResumedRun, gs)
      <3> PICK t \in TargetsOf(gates[g].stage, approved) : GoesOn(t, ResumedRun, gs)
        BY <2>5
      <3>1. Q2 + G2 <= Q + D + 1
        BY <1>0, <1>1, GoesOnAddsOne DEF Q, Q2, G2
      <3> HIDE DEF D
      <3> QED BY <1>2, <1>3, <1>4, <2>1, <2>3, <3>1
    <2> QED BY <1>17, <2>4, <2>5, DecideEffect, Zenon
  <1>18. ASSUME NEW g \in GateIds, TimeoutRead(g) \/ TimeoutWrite(g) PROVE Goal
    <2>1. jobs' = jobs /\ rows' = rows
      BY <1>18, Zenon DEF TimeoutRead, TimeoutWrite
    <2>2. \/ gates' = gates \/ gates' = [gates EXCEPT ![g].timer = FALSE]
          \/ gates' = [gates EXCEPT ![g].status = "escalated", ![g].level = 1]
          \/ gates' = [gates EXCEPT ![g].status = "timed_out", ![g].timer = FALSE]
      BY <1>18, Zenon DEF TimeoutRead, TimeoutWrite
    <2>3. \A h \in GateIds : gates'[h].status = "awaiting" => gates[h].status = "awaiting"
      BY <1>0, <2>2 DEF GateRow
    <2>4. G2 <= G
      BY <1>8, <2>3
    <2> QED BY <1>2, <1>3, <1>4, <2>1, <2>4
  <1>19. ASSUME CancelRun PROVE Goal
    <2>1. /\ jobs' = jobs /\ gates' = gates
          /\ rows' = [k \in RowKey |-> IF rows[k] \in OpenRow THEN "cancelled" ELSE rows[k]]
      BY <1>19 DEF CancelRun
    <2>2. O2 <= O
      BY <1>7, <2>1 DEF OpenRow
    <2> QED BY <1>2, <1>3, <1>4, <2>1, <2>2
  <1>20. CASE ProcessJob
    BY <1>9, <1>10, <1>11, <1>12, <1>20 DEF Goal, ProcessJob, SpendHold
  <1>21. CASE ClaimRow
    BY <1>12, <1>13, <1>21 DEF Goal, ClaimRow, ClaimOverBudget
  <1>22. CASE EndTenure
    BY <1>14, <1>15, <1>16, <1>22 DEF Goal, EndTenure
  <1>23. CASE Review
    BY <1>17, <1>18, <1>23 DEF Goal, Review
  <1>24. CASE Operator
    BY <1>12, <1>19, <1>24 DEF Goal, Operator, ClearDeadLetterQueue
  <1>25. ~StartRun /\ ~CreateContentJob
    BY DEF StartRun, CreateContentJob
  <1> QED BY <1>20, <1>21, <1>22, <1>23, <1>24, <1>25 DEF Next, Goal

\* GoingOn counts the strands, before a step and after it.
LEMMA GoingOnIsStrands ==
    /\ GoingOn = Strands(jobs, rows, gates)
    /\ GoingOn' = Strands(jobs', rows', gates')
  BY DEF GoingOn, Strands, Open, Awaiting, OpenIn, AwaitingIn, MapThenSumSet, MapThenFoldSet,
         Total, Sums, Pick

\* Only retry_failed_jobs adds to what is going on in a run that was started
\* (process_leased_job, submit_result, recover_assignment, decide_review_gate).
THEOREM WorkAddedByRetries == Spec => OnlyRetriesAddWork
  <1>1. RunInv /\ [Next]_vars =>
            [run.status # "absent" /\ ~RetryFailedJobs => GoingOn' <= GoingOn]_vars
    BY GoingOnIsStrands, StrandsStep
  <1> QED BY <1>1, RunInvariant, PTL DEF Spec, OnlyRetriesAddWork

FailedAssignments == {k \in RowKey : rows[k] = "failed"}

\* The retry button queues one job for each dead letter and each failed
\* assignment that it finds.
LEMMA RetryAdds ==
    ASSUME RunInv, RetryFailedJobs
    PROVE  Strands(jobs', rows', gates')
             <= Strands(jobs, rows, gates) + Cardinality(dead) + Cardinality(FailedAssignments)
  <1>0. /\ jobs \in [JobKey -> Nat] /\ dead \in SUBSET DeadRow /\ IsFiniteSet(dead)
    BY TypeParts DEF RunInv
  <1>1. rows' = rows /\ gates' = gates /\ jobs' \in [JobKey -> Nat]
    BY RetryEffect
  <1>2. jobs' = jobs \/ jobs' = [j \in JobKey |-> jobs[j] + AddedJobs(j)]
    BY Zenon DEF RetryFailedJobs, RetryEntries, FailedRows, AddedJobs
  <1> DEFINE f == [d \in RetryEntries |-> RequeuedAs(d)]
             g == [k \in FailedRows |-> Job("retry", k[1], k[2])]
             df == Fibres(f, RetryEntries, JobKey)
             dg == Fibres(g, FailedRows, JobKey)
  <1>3. RetryEntries \in SUBSET dead /\ FailedRows \in SUBSET FailedAssignments
        /\ FailedAssignments \in SUBSET RowKey
    BY DEF RetryEntries, FailedRows, FailedAssignments
  <1>4. IsFiniteSet(FailedAssignments)
    BY <1>3, RowKeyFinite, FS_Subset
  <1>5. /\ IsFiniteSet(RetryEntries) /\ Cardinality(RetryEntries) <= Cardinality(dead)
        /\ IsFiniteSet(FailedRows) /\ Cardinality(FailedRows) <= Cardinality(FailedAssignments)
    BY <1>0, <1>3, <1>4, FS_Subset
  <1>6. /\ Cardinality(RetryEntries) \in Nat /\ Cardinality(dead) \in Nat
        /\ Cardinality(FailedRows) \in Nat /\ Cardinality(FailedAssignments) \in Nat
    BY <1>0, <1>4, <1>5, FS_CardinalityType
  <1>7. \A d \in RetryEntries : f[d] \in JobKey
    <2> TAKE d \in RetryEntries
    <2>1. d \in DeadRow /\ d.attempt \in 0 .. MaxNumber /\ d.stage \in WorkStages \cup {BadKey}
      BY <1>0, <1>3 DEF DeadRow
    <2> QED BY <2>1, JobInKeys DEF RequeuedAs
  <1>8. \A k \in FailedRows : g[k] \in JobKey
    <2> TAKE k \in FailedRows
    <2>1. k[1] \in WorkStages \cup {BadKey} /\ k[2] \in 0 .. MaxNumber
      BY <1>3, RowKeyParts, Numbers
    <2> QED BY <2>1, JobInKeys
  <1>9. ASSUME NEW j \in JobKey
        PROVE  AddedJobs(j) = df[j] + dg[j] /\ df[j] \in Nat /\ dg[j] \in Nat
    <2> DEFINE D == {d \in RetryEntries : RequeuedAs(d) = j}
               K == {k \in FailedRows : Job("retry", k[1], k[2]) = j}
    <2>1. D = {d \in RetryEntries : f[d] = j} /\ K = {k \in FailedRows : g[k] = j}
      OBVIOUS
    <2>2. df[j] = Cardinality(D) /\ dg[j] = Cardinality(K)
      BY <2>1 DEF Fibres
    <2>3. D \in SUBSET RetryEntries /\ K \in SUBSET FailedRows
      OBVIOUS
    <2>4. AddedJobs(j) = Cardinality(D) + Cardinality(K)
      BY DEF AddedJobs
    <2> HIDE DEF D, K, f, g, df, dg
    <2>5. IsFiniteSet(D) /\ IsFiniteSet(K)
      BY <1>5, <2>3, FS_Subset
    <2> QED BY <2>2, <2>4, <2>5, FS_CardinalityType
  <1>10. /\ Total(df, JobKey) = Cardinality(RetryEntries)
         /\ Total(dg, JobKey) = Cardinality(FailedRows)
    <2> HIDE DEF f, g
    <2> QED BY <1>5, <1>7, <1>8, JobKeyFinite, TotalFibres
  <1> HIDE DEF f, g, df, dg
  <1> DEFINE both == [j \in JobKey |-> df[j] + dg[j]]
             more == [j \in JobKey |-> jobs[j] + AddedJobs(j)]
  <1>11. \A j \in JobKey : both[j] = df[j] + dg[j] /\ both[j] \in Nat
                           /\ more[j] = jobs[j] + both[j]
    BY <1>9
  <1> HIDE DEF both
  <1>12. Total(both, JobKey) = Total(df, JobKey) + Total(dg, JobKey)
    BY <1>9, <1>11, JobKeyFinite, TotalPlus
  <1>13. Total(more, JobKey) = Total(jobs, JobKey) + Total(both, JobKey)
    <2> HIDE DEF more
    <2> QED BY <1>0, <1>11, JobKeyFinite, TotalPlus
  <1>14. jobs' = jobs \/ jobs' = more
    BY <1>2
  <1> HIDE DEF more
  <1>15. /\ Total(jobs, JobKey) \in Nat
         /\ Cardinality(OpenIn(rows)) \in Nat /\ Cardinality(AwaitingIn(gates)) \in Nat
    BY <1>0, StrandSets
  <1>16. Total(jobs', JobKey)
           <= Total(jobs, JobKey) + Cardinality(dead) + Cardinality(FailedAssignments)
    BY <1>5, <1>6, <1>10, <1>12, <1>13, <1>14, <1>15
  <1>17. Total(jobs', JobKey) \in Nat
    BY <1>1, StrandSets
  <1> QED BY <1>1, <1>6, <1>15, <1>16, <1>17 DEF Strands

\* And retry_failed_jobs adds no more than the dead letters and the failed
\* assignments it finds, each of them once.
THEOREM RetriesAddWhatFailed ==
    Spec => [][RetryFailedJobs =>
                  Strands(jobs, rows, gates)'
                    <= Strands(jobs, rows, gates) + Cardinality(dead)
                       + Cardinality(FailedAssignments)]_vars
  <1>1. RunInv /\ RetryFailedJobs =>
            Strands(jobs, rows, gates)'
              <= Strands(jobs, rows, gates) + Cardinality(dead) + Cardinality(FailedAssignments)
    <2> SUFFICES ASSUME RunInv, RetryFailedJobs
                 PROVE  Strands(jobs', rows', gates')
                          <= Strands(jobs, rows, gates) + Cardinality(dead)
                             + Cardinality(FailedAssignments)
      BY DEF Strands, AwaitingIn, OpenIn
    <2> QED BY RetryAdds
  <1> QED BY <1>1, RunInvariant, PTL
=============================================================================
