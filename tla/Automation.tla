----------------------------- MODULE Automation ------------------------------
(***************************************************************************)
(* Replicas of the automation service and the lease that lets one of them  *)
(* run the relay loop (app/automation.py).  The three loops run the same   *)
(* code, each with a lease row of its own and a tick of its own; the relay *)
(* loop is modelled, with the tick of OutboxRelay.                         *)
(*                                                                         *)
(* Time is abstracted to whether the lease has expired: it does so if its  *)
(* owner is paused, which may happen at any step, or is gone.  Renewing a  *)
(* lease that has not expired then changes nothing that is modelled.       *)
(***************************************************************************)
EXTENDS OutboxRelay

CONSTANTS MaxFailures,    \* supervision failures before the process stops
          MaxFaults,      \* bound: pauses, crashes, stops and outages
          NoOwner, Gone   \* no owner_id, the owner_id of a process that is no more

ASSUME AutomationAssumption ==
  /\ MaxFailures \in Nat \ {0} /\ MaxFaults \in Nat
  /\ NoOwner \notin Replicas /\ Gone \notin Replicas

VARIABLES lease,          \* the automation_leases row of the loop
          at,             \* where each replica's loop is
          failures,       \* supervision failures of each replica's process
          faults,         \* faults so far
          lapsed          \* replicas whose lease expired in their tick

autoVars == <<lease, at, failures, faults, lapsed>>
automationVars == <<relayVars, autoVars>>

AutomationLease == [owner : Replicas \cup {NoOwner, Gone}, live : BOOLEAN,
                    error : BOOLEAN]

LoopState == {"waiting", "tick", "succeeded", "raised", "down"}

FreeLease == [owner |-> NoOwner, live |-> FALSE, error |-> FALSE]

AutomationInit ==
  /\ RelayInit
  /\ lease = FreeLease
  /\ at = [r \in Replicas |-> "waiting"]
  /\ failures = [r \in Replicas |-> 0]
  /\ faults = 0
  /\ lapsed = {}

Owns(r) == lease.owner = r /\ lease.live

(* Mutant: a replica takes the lease whoever has it.                       *)
TryClaimAlways(r) ==
  /\ at[r] = "waiting"
  /\ lease' = [lease EXCEPT !.owner = r, !.live = TRUE]
  /\ at' = [at EXCEPT ![r] = "tick"]
  /\ lapsed' = lapsed \ {r}
  /\ UNCHANGED <<relayVars, failures, faults>>

TryClaim(r) ==
  /\ at[r] = "waiting"
  /\ lease.owner \in {NoOwner, r} \/ ~lease.live
  /\ lease' = [lease EXCEPT !.owner = r, !.live = TRUE]
  /\ at' = [at EXCEPT ![r] = "tick"]
  /\ lapsed' = lapsed \ {r}
  /\ UNCHANGED <<relayVars, failures, faults>>

(* _outbox_relay_tick: poll, handlers, commit.                             *)
TickStep(r) ==
  /\ at[r] = "tick"
  /\ \/ (PollAndLock(r) \/ RunHandlers(r)) /\ UNCHANGED at
     \/ CommitTick(r) /\ at' = [at EXCEPT ![r] = "succeeded"]
  /\ UNCHANGED <<lease, failures, faults, lapsed>>

(* The tick raises and is rolled back: by its second insert of the         *)
(* checkpoint, or as the database is out of reach.                         *)
TickRaises(r) ==
  /\ at[r] = "tick" /\ tx[r].open
  /\ \/ tx[r].read /\ CheckpointTaken(tx[r].seen, Result(r)) /\ UNCHANGED faults
     \/ faults < MaxFaults /\ faults' = faults + 1
  /\ RollbackTick(r)
  /\ at' = [at EXCEPT ![r] = "raised"]
  /\ UNCHANGED <<lease, failures, lapsed>>

(* The tick raises as the handler of one of its events failed in the       *)
(* database, as often as that handler does.                                *)
DeliveryAborts(r, i) ==
  /\ at[r] = "tick"
  /\ HandlerAborts(r, i)
  /\ at' = [at EXCEPT ![r] = "raised"]
  /\ UNCHANGED <<lease, failures, faults, lapsed>>

(* The heartbeat finds the lease expired or taken: the tick is cancelled   *)
(* and its transaction rolled back.                                        *)
OwnershipLost(r) ==
  /\ at[r] = "tick" /\ ~Owns(r)
  /\ RollbackTick(r)
  /\ at' = [at EXCEPT ![r] = "waiting"]
  /\ UNCHANGED <<lease, failures, faults, lapsed>>

(* The result is recorded by an owner whose lease has not expired.         *)
Record(r) ==
  /\ at[r] \in {"succeeded", "raised"}
  /\ lease' = IF Owns(r) THEN [lease EXCEPT !.error = at[r] = "raised"] ELSE lease
  /\ at' = [at EXCEPT ![r] = "waiting"]
  /\ UNCHANGED <<relayVars, failures, faults, lapsed>>

(* What the service gives back when it ends: the leases it still holds.    *)
Released(r) == IF Owns(r) THEN [lease EXCEPT !.owner = NoOwner, !.live = FALSE] ELSE lease

(* A claim, a heartbeat or a record fails: the loop begins again after a   *)
(* pause, and the process ends at the limit.  The count is never reset.    *)
ControlFails(r) ==
  /\ at[r] # "down"
  /\ faults < MaxFaults
  /\ faults' = faults + 1
  /\ RollbackTick(r)
  /\ failures' = [failures EXCEPT ![r] = @ + 1]
  /\ IF failures[r] + 1 >= MaxFailures
     THEN lease' = Released(r) /\ at' = [at EXCEPT ![r] = "down"]
     ELSE at' = [at EXCEPT ![r] = "waiting"] /\ UNCHANGED lease
  /\ UNCHANGED lapsed

(* SIGTERM: the tick is waited for, and cancelled when that takes too      *)
(* long; then the leases are released.                                     *)
Stopped(r) ==
  /\ at[r] \in {"waiting", "tick"}
  /\ faults < MaxFaults
  /\ faults' = faults + 1
  /\ RollbackTick(r)
  /\ lease' = Released(r)
  /\ at' = [at EXCEPT ![r] = "down"]
  /\ UNCHANGED <<failures, lapsed>>

Crash(r) ==
  /\ at[r] # "down"
  /\ faults < MaxFaults
  /\ faults' = faults + 1
  /\ RollbackTick(r)
  /\ at' = [at EXCEPT ![r] = "down"]
  /\ UNCHANGED <<lease, failures, lapsed>>

(* The owner_id is made of host name and process id: a new process may     *)
(* have the old one's or another.                                          *)
Restart(r) ==
  /\ at[r] = "down"
  /\ at' = [at EXCEPT ![r] = "waiting"]
  /\ failures' = [failures EXCEPT ![r] = 0]
  /\ \/ UNCHANGED lease
     \/ lease.owner = r /\ lease' = [lease EXCEPT !.owner = Gone]
  /\ UNCHANGED <<relayVars, faults, lapsed>>

LoopStep(r) ==
  \/ TryClaim(r) \/ TickStep(r) \/ OwnershipLost(r) \/ Record(r) \/ Restart(r)
  \/ TickRaises(r) \/ \E i \in DOMAIN events : DeliveryAborts(r, i)

(* The owner is paused for longer than the lease lasts.                    *)
OwnerPauses ==
  /\ lease.live
  /\ faults < MaxFaults
  /\ faults' = faults + 1
  /\ lease' = [lease EXCEPT !.live = FALSE]
  /\ lapsed' = lapsed \cup {r \in Replicas : lease.owner = r /\ at[r] = "tick"}
  /\ UNCHANGED <<relayVars, at, failures>>

(* The lease of a process that is no more runs out.                        *)
LeaseRunsOut ==
  /\ lease.live
  /\ lease.owner = Gone \/ (lease.owner \in Replicas /\ at[lease.owner] = "down")
  /\ lease' = [lease EXCEPT !.live = FALSE]
  /\ UNCHANGED <<relayVars, at, failures, faults, lapsed>>

Produce ==
  /\ (\E handled \in BOOLEAN : Emit(handled)) \/ (\E raises \in BOOLEAN : EmitAndDispatch(raises))
  /\ UNCHANGED autoVars

AutomationNext ==
  \/ \E r \in Replicas : LoopStep(r) \/ ControlFails(r) \/ Stopped(r) \/ Crash(r)
  \/ OwnerPauses \/ LeaseRunsOut \/ Produce

(***************************************************************************)
(* Properties                                                              *)
(***************************************************************************)
AutomationTypeOK ==
  /\ RelayTypeOK
  /\ lease \in AutomationLease
  /\ at \in [Replicas -> LoopState]
  /\ failures \in [Replicas -> 0 .. MaxFailures]
  /\ faults \in 0 .. MaxFaults
  /\ lapsed \subseteq Replicas

(* No event is applied twice, and one that is given up is a dead letter    *)
(* (dispatch_one, poll_and_dispatch), with two replicas in their ticks at  *)
(* once, ticks cancelled, aborted by a handler, and processes killed.      *)
AppliedAtMostOnce ==
  /\ \A i, j \in DOMAIN applied : applied[i] = applied[j] => i = j
  /\ \A i \in DOMAIN events : events[i].status = "poison" => i \in dead

(* An event that is marked dispatched was applied by the consumer that has *)
(* a handler for it: "exactly-once effect", "already applied by this       *)
(* consumer" (dispatch_one).                                               *)
DispatchedWasApplied ==
  \A i \in DOMAIN events :
    events[i].status = "dispatched" /\ events[i].handled => i \in Range(applied)

(* Two replicas are in a tick of the loop only if the lease of one of them *)
(* expired during its tick: claims, restarts with the old owner_id, stops  *)
(* and late records never make two owners (try_claim_automation_loop,      *)
(* release_owned_automation_loops).                                        *)
OverlapNeedsLapse ==
  \A r, q \in Replicas :
    r # q /\ at[r] = "tick" /\ at[q] = "tick" => r \in lapsed \/ q \in lapsed

(* Every event is dispatched or given up in the end, however often its     *)
(* handler raises and replicas are paused, killed or replaced, unless      *)
(* handlers abort the ticks for ever: those ticks count no attempt and     *)
(* keep what they have locked from being settled (dispatch_one,            *)
(* poll_and_dispatch, _outbox_relay_tick).                                 *)
EventSettles ==
  \/ []<><<\E r \in Replicas : \E i \in DOMAIN events : DeliveryAborts(r, i)>>_automationVars
  \/ \A i \in 1 .. MaxEvents :
       (i \in DOMAIN events) ~> (i \in DOMAIN events /\ events[i].status # "pending")
==============================================================================
