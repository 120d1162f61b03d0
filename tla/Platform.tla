------------------------------ MODULE Platform -------------------------------
(***************************************************************************)
(* The processes around the assignments: the replicas of the automation    *)
(* service with the outbox relay, the workers with their HTTP protocol,    *)
(* and the job queue with its back-pressure.  What each of the three reads *)
(* of the others is a choice of its own model (an event is emitted, a row  *)
(* is dispatched, a row moves), so no variable is shared and a behaviour   *)
(* is that of one of them.                                                 *)
(***************************************************************************)
EXTENDS Automation, WorkerClient, SchedulerQueue

VARIABLE part             \* which of them, never changed

vars == <<part, automationVars, workerVars, queueVars>>

Init ==
  /\ part \in {"automation", "workers", "queue"}
  /\ AutomationInit
  /\ WorkerInit
  /\ QueueInit

Next ==
  /\ \/ part = "automation" /\ AutomationNext /\ UNCHANGED <<workerVars, queueVars>>
     \/ part = "workers" /\ WorkerNext /\ UNCHANGED <<automationVars, queueVars>>
     \/ part = "queue" /\ QueueNext /\ UNCHANGED <<automationVars, workerVars>>
  /\ UNCHANGED part

(* The loop of a replica goes on, a stopped process is started again by    *)
(* its container, and time passes.  The scheduler loop goes on as well.    *)
Fairness ==
  /\ \A r \in Replicas : WF_automationVars(part = "automation" /\ LoopStep(r))
  /\ WF_automationVars(part = "automation" /\ LeaseRunsOut)
  /\ WF_queueVars(part = "queue" /\ SchedulerTick)

Spec == Init /\ [][Next]_vars /\ Fairness

(***************************************************************************)
(* Properties; those of the relay and its lease are stated in Automation.  *)
(***************************************************************************)
TypeOK ==
  /\ part \in {"automation", "workers", "queue"}
  /\ AutomationTypeOK
  /\ WorkerTypeOK
  /\ QueueTypeOK

(* The executor is called at most once for an assignment, over all its     *)
(* attempts, and a completed one was executed: lost answers, claims sent   *)
(* again, expired leases, recoveries and crashes in any order never make a *)
(* worker repeat what may have been billed (ensure_provider_effect_key,    *)
(* run_one).                                                               *)
ExecutedOnce ==
  \A a \in Assignments :
    /\ executed[a] <= 1
    /\ assignment[a].status = "completed" => executed[a] = 1

(* The load a process reports is what it works on, one assignment or none, *)
(* until an ack or a submit of it is lost or refused: then it reports one  *)
(* too many until it is restarted (claim_next, submit, run_one).           *)
LoadIsWhatItHolds ==
  \A w \in Workers :
    ~client[w].lost =>
      client[w].load = IF client[w].at \in {"granted", "executing", "submitting"} THEN 1 ELSE 0

(* A job of a higher tier than j's is leased.                              *)
OutrankedBy(j, k) ==
  /\ Tier[WorkspaceOf[k]] > Tier[WorkspaceOf[j]]
  /\ k \in Range(queue) /\ k \notin Range(queue')

==============================================================================
