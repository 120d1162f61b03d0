--------------------------- MODULE SchedulerQueue ----------------------------
(***************************************************************************)
(* The queue of stage jobs of several workspaces: what a scheduler tick    *)
(* leases (app/orchestration/scheduler.py), how a dispatch ends, and the   *)
(* back-pressure that the maintenance tick computes from the assignments   *)
(* that wait for a worker (app/orchestration/backpressure.py).             *)
(*                                                                         *)
(* A tick leases and processes its jobs in one transaction.  `queue' holds *)
(* the pending jobs that are due, by run_after: a job that is put off gets *)
(* a run_after in the future, and comes due behind those due before.  Each *)
(* job is for a stage of its own.                                          *)
(***************************************************************************)
EXTENDS Naturals, Sequences, SequencesExt, FiniteSets, FiniteSetsExt, TLC

CONSTANTS Workspaces,
          JobsOf,               \* the jobs of each workspace
          Tier,                 \* the priority of each workspace's jobs
          SchedulerBatch,       \* scheduler_batch_size
          PerTick,              \* max_per_scheduler_tick
          SoftLimit, HardLimit, \* of pending assignments
          MaxConcurrent,        \* max_concurrent_assignments of a workspace
          NoWorkerMaxRetries

ASSUME QueueAssumption ==
  /\ SchedulerBatch \in Nat \ {0} /\ PerTick \in Nat \ {0}
  /\ SoftLimit \in Nat \ {0} /\ HardLimit \in Nat /\ SoftLimit <= HardLimit
  /\ MaxConcurrent \in Nat \ {0} /\ NoWorkerMaxRetries \in Nat \ {0}
  /\ Tier \in [Workspaces -> Nat]
  /\ \A v, w \in Workspaces : v # w => JobsOf[v] \cap JobsOf[w] = {}

VARIABLES queue,          \* the due jobs, by run_after
          job,            \* job_schedule
          row,            \* the assignment of a job, as far as it is counted
          pressure        \* workspace_backpressure_state

queueVars == <<queue, job, row, pressure>>

Jobs == UNION {JobsOf[v] : v \in Workspaces}
WorkspaceOf == [j \in Jobs |-> CHOOSE v \in Workspaces : j \in JobsOf[v]]

QueueInit ==
  /\ queue = <<>>
  /\ job = [j \in Jobs |-> [status |-> "new", attempt |-> 0]]
  /\ row = [j \in Jobs |-> "none"]
  /\ pressure = [v \in Workspaces |-> "normal"]

(* A stage is scheduled, to run at once.                                   *)
ScheduleStage(j) ==
  /\ job[j].status = "new"
  /\ job' = [job EXCEPT ![j].status = "pending"]
  /\ queue' = Append(queue, j)
  /\ UNCHANGED <<row, pressure>>

(* The run_after of a job that was put off has come.                       *)
ComesDue(j) ==
  /\ job[j].status = "pending" /\ j \notin Range(queue)
  /\ queue' = Append(queue, j)
  /\ UNCHANGED <<job, row, pressure>>


(* effective_scheduler_tick_limit                                          *)
EffectiveTickLimit(v) ==
  IF pressure[v] = "throttled" THEN Max({1, PerTick \div 2}) ELSE PerTick

(* Due jobs by their place in the queue.                                   *)
WorkspaceAt(i) == WorkspaceOf[queue[i]]

(* ORDER BY priority DESC, run_after                                       *)
MoreUrgent(i, k) ==
  \/ Tier[WorkspaceAt(i)] > Tier[WorkspaceAt(k)]
  \/ Tier[WorkspaceAt(i)] = Tier[WorkspaceAt(k)] /\ i < k

(* What a tick fetches: LIMIT 3 * batch_size.                              *)
Candidates ==
  {i \in DOMAIN queue :
     Cardinality({k \in DOMAIN queue : MoreUrgent(k, i)}) < 3 * SchedulerBatch}

(* by_workspace of the candidates c, and where each of them stands in it.  *)
Peers(c, i) == {k \in c : WorkspaceAt(k) = WorkspaceAt(i)}
Cursors(c) == [i \in c |-> Cardinality({k \in Peers(c, i) : MoreUrgent(k, i)})]

Allowed(cursor) == {i \in DOMAIN cursor : cursor[i] < EffectiveTickLimit(WorkspaceAt(i))}

(* Round robin: the n-th job of each workspace before the next one of any, *)
(* in the order in which the workspaces have their first candidate.        *)
LeasedBefore(cursor, i, k) ==
  \/ cursor[i] < cursor[k]
  \/ /\ cursor[i] = cursor[k]
     /\ \E first \in Peers(DOMAIN cursor, i) :
          \A l \in Peers(DOMAIN cursor, k) : MoreUrgent(first, l)

Leased(cursor) ==
  LET allowed == Allowed(cursor)
  IN {i \in allowed : Cardinality({k \in allowed : LeasedBefore(cursor, k, i)}) < SchedulerBatch}

(* The leased jobs, in the order of their leases.                          *)
LeaseOrder(cursor) ==
  LET leased == Leased(cursor)
  IN {s \in [1 .. Cardinality(leased) -> leased] :
        \A m, n \in DOMAIN s : m < n => LeasedBefore(cursor, s[m], s[n])}

(* What stays in the queue, in its order.                                  *)
QueueWithout(gone) ==
  LET kept[n \in 0 .. Len(queue)] ==
        IF n = 0 THEN <<>>
        ELSE IF n \in gone THEN kept[n - 1] ELSE Append(kept[n - 1], queue[n])
  IN kept[Len(queue)]

InFlightOf(rows, v) == Cardinality({j \in JobsOf[v] : rows[j] = "inflight"})

(* dispatch_stage and the outcome process_leased_job makes of it.  What    *)
(* the run and the workers allow is one of "worker", "nobody", "hold" and  *)
(* "over"; a workspace with too much in flight is asked about first.  A    *)
(* job whose run is on SPEND_HOLD is put off at no cost, as often as that. *)
Processed(s, j, allows) ==
  LET again == [s.job[j] EXCEPT !.attempt = @ + 1]
  IN IF InFlightOf(s.row, WorkspaceOf[j]) >= MaxConcurrent
     THEN [s EXCEPT !.job[j] = IF again.attempt >= NoWorkerMaxRetries
                               THEN [again EXCEPT !.status = "cancelled"] ELSE again]
     ELSE CASE allows = "worker" -> [s EXCEPT !.job[j].status = "done", !.row[j] = "inflight"]
            [] allows = "nobody" -> [s EXCEPT !.job[j].status = "done", !.row[j] = "pending"]
            [] allows = "hold" -> s
            [] allows = "over" -> [s EXCEPT !.job[j].status = "cancelled"]

(* The jobs of a tick, one after the other.                                *)
TickProcessed(leased, allows) ==
  LET after[n \in 0 .. Len(leased)] ==
        IF n = 0 THEN [job |-> job, row |-> row]
        ELSE Processed(after[n - 1], queue[leased[n]], allows[n])
  IN after[Len(leased)]

(* _scheduler_tick: reap_expired_leases finds no job, as none is left      *)
(* leased by a transaction.                                                *)
SchedulerTick ==
  /\ queue # <<>>
  /\ \E cursor \in {Cursors(Candidates)} : \E leased \in LeaseOrder(cursor) :
       /\ leased # <<>>
       /\ queue' = QueueWithout(Range(leased))
       /\ \E allows \in [DOMAIN leased -> {"worker", "nobody", "hold", "over"}] :
          \E end \in {TickProcessed(leased, allows)} :
            job' = end.job /\ row' = end.row
  /\ UNCHANGED pressure

(* A worker claims the row, or finishes it; or it is recovered.            *)
RowMoves(j) ==
  /\ \/ row[j] = "pending" /\ row' = [row EXCEPT ![j] = "inflight"]
     \/ row[j] = "inflight" /\ \E next \in {"pending", "finished"} : row' = [row EXCEPT ![j] = next]
  /\ UNCHANGED <<queue, job, pressure>>

PendingDepth(v) == Cardinality({j \in JobsOf[v] : row[j] = "pending"})

ClassifyDepth(depth) ==
  IF depth >= HardLimit THEN "throttled" ELSE IF depth >= SoftLimit THEN "pressured" ELSE "normal"

(* Only workspaces with a pending row are looked at.                       *)
EvaluateBackpressure ==
  /\ pressure' = [v \in Workspaces |-> IF PendingDepth(v) > 0 THEN ClassifyDepth(PendingDepth(v))
                                       ELSE pressure[v]]
  /\ pressure' # pressure
  /\ UNCHANGED <<queue, job, row>>

QueueNext ==
  \/ \E j \in Jobs : ScheduleStage(j) \/ ComesDue(j) \/ RowMoves(j)
  \/ SchedulerTick \/ EvaluateBackpressure

QueueTypeOK ==
  /\ queue \in Seq(Jobs)
  /\ \A j \in Range(queue) : job[j].status = "pending"
  /\ \A j \in Jobs : job[j].attempt <= NoWorkerMaxRetries
  /\ pressure \in [Workspaces -> {"normal", "pressured", "throttled"}]
=============================================================================
