---------------------------- MODULE WorkerClient -----------------------------
(***************************************************************************)
(* The worker process and its HTTP protocol (apps/worker/worker/client.py, *)
(* main.py) against the worker endpoints of the API: register, heartbeat,  *)
(* claim, ack, submit, deregister, and the provider effect keys.           *)
(*                                                                         *)
(* Requests and answers may be lost.  A call whose answer changes what the *)
(* client knows of its load is two steps, with heartbeats in between.  A   *)
(* lease may expire whenever it is held: the client renews it until the    *)
(* executor returns, unless it is paused, cut off or at the maximum tenure.*)
(* Spend and provider budgets, modelled elsewhere, only put a claim off.   *)
(***************************************************************************)
EXTENDS Naturals, FiniteSets, FiniteSetsExt

CONSTANTS Workers,
          Pinned,               \* the workers of a workspace; the others are global
          Assignments,          \* of one workspace
          MaxConcurrency,       \* of each worker
          MaxAttempts,          \* of each assignment
          MaxClaimTries,        \* _CLAIM_NETWORK_RETRY_ATTEMPTS
          MaxMishaps,           \* bound: lost messages, crashes, shutdowns
          Nobody, NoWork, NoBeat

ASSUME WorkerAssumption ==
  /\ Pinned \subseteq Workers
  /\ MaxConcurrency \in Nat \ {0}
  /\ MaxAttempts \in Nat \ {0}
  /\ MaxClaimTries \in Nat \ {0}
  /\ MaxMishaps \in Nat

VARIABLES assignment,     \* stage_assignments, by id
          keys,           \* provider_effect_keys
          registry,       \* worker_registrations
          client,         \* the process of each worker
          beat,           \* current_load of the heartbeat under way
          executed,       \* calls of the executor for an assignment
          mishaps

workerVars == <<assignment, keys, registry, client, beat, executed, mishaps>>

InFlight == {"dispatched", "acknowledged"}
Terminal == {"completed", "failed"}

NewAssignment == [status |-> "new", holder |-> Nobody, attempt |-> 1,
                  token |-> FALSE, live |-> FALSE]

Started == [at |-> "idle", on |-> NoWork, load |-> 0, tries |-> 0,
            success |-> FALSE, lost |-> FALSE]
Down == [Started EXCEPT !.at = "down"]

Online == [status |-> "online", load |-> 0]

WorkerInit ==
  /\ assignment = [a \in Assignments |-> NewAssignment]
  /\ keys = {}
  /\ registry = [w \in Workers |-> Online]
  /\ client = [w \in Workers |-> Started]
  /\ beat = [w \in Workers |-> NoBeat]
  /\ executed = [a \in Assignments |-> 0]
  /\ mishaps = 0

Mishap == mishaps < MaxMishaps /\ mishaps' = mishaps + 1

(***************************************************************************)
(* The API                                                                 *)
(***************************************************************************)
Holdings(w) == {a \in Assignments : assignment[a].status \in InFlight /\ assignment[a].holder = w}

(* current_load + 1, busy at the limit.                                    *)
SlotTaken(r) == [load |-> r.load + 1,
                 status |-> IF r.load + 1 >= MaxConcurrency THEN "busy" ELSE r.status]

(* _release_worker_slot, and the end of submit_result.                     *)
SlotFreed(r) ==
  LET n == IF r.load > 0 THEN r.load - 1 ELSE 0
  IN [load |-> n, status |-> IF r.status = "busy" /\ n < MaxConcurrency THEN "online" ELSE r.status]

(* recover_assignment, for a row in flight.                                *)
Recovered(x) ==
  IF x.attempt + 1 > MaxAttempts
  THEN [NewAssignment EXCEPT !.status = "failed", !.attempt = x.attempt]
  ELSE [NewAssignment EXCEPT !.status = "pending", !.attempt = x.attempt + 1]

Reaped(w) ==
  [a \in Assignments |-> IF a \in Holdings(w) THEN Recovered(assignment[a]) ELSE assignment[a]]

(* Push: the scheduler gives a new row to a worker with a free slot, whose *)
(* process is not told, or leaves it to be claimed.                        *)
DispatchStage(a) ==
  LET free == {w \in Workers : registry[w].status \in {"online", "busy"}
                                 /\ registry[w].load < MaxConcurrency}
  IN /\ assignment[a].status = "new"
     /\ \/ \E w \in free :
             /\ assignment' = [assignment EXCEPT ![a].status = "dispatched", ![a].holder = w,
                                                 ![a].live = TRUE]
             /\ registry' = [registry EXCEPT ![w] = SlotTaken(@)]
        \/ /\ free = {}
           /\ assignment' = [assignment EXCEPT ![a].status = "pending"]
           /\ UNCHANGED registry
     /\ UNCHANGED <<keys, client, beat, executed, mishaps>>

LeaseExpires(a) ==
  /\ assignment[a].live
  /\ assignment' = [assignment EXCEPT ![a].live = FALSE]
  /\ UNCHANGED <<keys, registry, client, beat, executed, mishaps>>

ReapExpiredLease(a) ==
  /\ assignment[a].status \in InFlight /\ ~assignment[a].live
  /\ assignment' = [assignment EXCEPT ![a] = Recovered(@)]
  /\ registry' = [registry EXCEPT ![assignment[a].holder] = SlotFreed(@)]
  /\ UNCHANGED <<keys, client, beat, executed, mishaps>>

(* mark_stale_workers_offline and the reaping that follows it: no          *)
(* heartbeat was accepted for long, as the process is down, its load is    *)
(* refused or its heartbeats are lost.                                     *)
MarkStaleOffline(w) ==
  /\ registry[w].status \in {"online", "busy"}
  /\ \/ (client[w].at = "down" \/ client[w].load > MaxConcurrency) /\ UNCHANGED mishaps
     \/ Mishap
  /\ registry' = [registry EXCEPT ![w] = [status |-> "offline", load |-> 0]]
  /\ assignment' = Reaped(w)
  /\ UNCHANGED <<keys, client, beat, executed>>

(* Mutant: the key is made for each attempt.                               *)
DefaultEffectKeyOfAttempt(a) == <<a, assignment[a].attempt>>

(* default_effect_key: the attempt is not part of it.                      *)
DefaultEffectKey(a) == <<a>>

(***************************************************************************)
(* The process                                                             *)
(***************************************************************************)
SendHeartbeat(w) ==
  /\ client[w].at # "down" /\ beat[w] = NoBeat
  /\ beat' = [beat EXCEPT ![w] = client[w].load]
  /\ UNCHANGED <<assignment, keys, registry, client, executed, mishaps>>

(* Status and load are written as they were sent: busy with any load.      *)
(* Refused: a load above max_concurrency, and any for a worker that has    *)
(* deregistered.                                                           *)
HeartbeatHandled(w) ==
  /\ beat[w] # NoBeat
  /\ registry' = IF beat[w] > MaxConcurrency \/ registry[w].status = "deregistered"
                 THEN registry
                 ELSE [registry EXCEPT ![w] = [load |-> beat[w],
                         status |-> IF beat[w] > 0 THEN "busy" ELSE "online"]]
  /\ beat' = [beat EXCEPT ![w] = NoBeat]
  /\ UNCHANGED <<assignment, keys, client, executed, mishaps>>

(* claim_next makes a token: what was claimed with another is not found    *)
(* again.                                                                  *)
StartClaim(w) ==
  /\ client[w].at = "idle"
  /\ client' = [client EXCEPT ![w].at = "claiming", ![w].tries = 0]
  /\ assignment' = [a \in Assignments |->
       IF assignment[a].holder = w THEN [assignment[a] EXCEPT !.token = FALSE]
       ELSE assignment[a]]
  /\ UNCHANGED <<keys, registry, beat, executed, mishaps>>

Replayed(w) == {a \in Holdings(w) : assignment[a].token /\ assignment[a].status = "dispatched"}

Claimable == {a \in Assignments : assignment[a].status = "pending"}

Eligible(w) == registry[w].status = "online" /\ registry[w].load < MaxConcurrency

(* What the server does with the claim, and the row it answers with.       *)
ClaimHandled(w, answer) ==
  \/ /\ answer \in Replayed(w)
     /\ UNCHANGED <<assignment, registry>>
  \/ /\ Replayed(w) = {} /\ Eligible(w) /\ answer \in Claimable
     /\ assignment' = [assignment EXCEPT ![answer].status = "dispatched", ![answer].holder = w,
                                         ![answer].token = TRUE, ![answer].live = TRUE]
     /\ registry' = [registry EXCEPT ![w] = SlotTaken(@)]
  \/ /\ answer = NoWork /\ Replayed(w) = {}
     /\ ~Eligible(w) \/ Claimable = {}
     /\ UNCHANGED <<assignment, registry>>

Claim(w) ==
  /\ client[w].at = "claiming"
  /\ \E answer \in Assignments \cup {NoWork} :
       /\ ClaimHandled(w, answer)
       /\ client' = [client EXCEPT ![w].at = "answered", ![w].on = answer]
  /\ UNCHANGED <<keys, beat, executed, mishaps>>

(* The request or the answer is lost: the same token is sent again, a      *)
(* number of times.                                                        *)
ClaimLost(w) ==
  /\ client[w].at = "claiming"
  /\ Mishap
  /\ \/ \E answer \in Assignments \cup {NoWork} : ClaimHandled(w, answer)
     \/ UNCHANGED <<assignment, registry>>
  /\ client' = [client EXCEPT ![w].tries = @ + 1,
                  ![w].at = IF client[w].tries + 1 < MaxClaimTries THEN "claiming" ELSE "idle"]
  /\ UNCHANGED <<keys, beat, executed>>

ReceiveClaim(w) ==
  /\ client[w].at = "answered"
  /\ client' = IF client[w].on = NoWork
               THEN [client EXCEPT ![w].at = "idle"]
               ELSE [client EXCEPT ![w].at = "granted", ![w].load = @ + 1]
  /\ UNCHANGED <<assignment, keys, registry, beat, executed, mishaps>>

(* The cycle ends by an exception: the load is not taken back.             *)
CycleFailed(w) == [client EXCEPT ![w].at = "idle", ![w].on = NoWork, ![w].lost = TRUE]

Owned(w) == assignment[client[w].on].holder = w

AckAccepted(w) ==
  LET a == client[w].on
  IN /\ Owned(w) /\ assignment[a].live /\ assignment[a].status = "dispatched"
     /\ assignment' = [assignment EXCEPT ![a].status = "acknowledged"]
     /\ keys' = keys \cup {DefaultEffectKey(a)}

(* A key that is new is the leave to execute; otherwise an attempt before  *)
(* this one may have executed, and a failure is submitted.                 *)
Ack(w) ==
  /\ client[w].at = "granted"
  /\ AckAccepted(w)
  /\ client' = [client EXCEPT ![w].success = FALSE, ![w].at =
                  IF DefaultEffectKey(client[w].on) \in keys THEN "submitting" ELSE "executing"]
  /\ UNCHANGED <<registry, beat, executed, mishaps>>

AckFails(w) ==
  /\ client[w].at = "granted"
  /\ \/ Mishap /\ (AckAccepted(w) \/ UNCHANGED <<assignment, keys>>)
     \/ /\ ~(Owned(w) /\ assignment[client[w].on].live
               /\ assignment[client[w].on].status = "dispatched")
        /\ UNCHANGED <<assignment, keys, mishaps>>
  /\ client' = CycleFailed(w)
  /\ UNCHANGED <<registry, beat, executed>>

(* The executor is called; it may raise or return a failure.               *)
Execute(w) ==
  /\ client[w].at = "executing"
  /\ executed' = [executed EXCEPT ![client[w].on] = @ + 1]
  /\ \E success \in BOOLEAN :
       client' = [client EXCEPT ![w].at = "submitting", ![w].success = success]
  /\ UNCHANGED <<assignment, keys, registry, beat, mishaps>>

SubmitReplayed(w) ==
  LET a == client[w].on
  IN assignment[a].status \in Terminal /\ (Owned(w) \/ w \in Pinned)

SubmitCurrent(w) ==
  LET a == client[w].on
  IN Owned(w) /\ assignment[a].live /\ assignment[a].status \in InFlight

SubmitAccepted(w) ==
  \/ SubmitReplayed(w) /\ UNCHANGED <<assignment, registry>>
  \/ /\ SubmitCurrent(w)
     /\ assignment' = [assignment EXCEPT ![client[w].on].live = FALSE, ![client[w].on].status =
                         IF client[w].success THEN "completed" ELSE "failed"]
     /\ registry' = [registry EXCEPT ![w] = SlotFreed(@)]

(* Mutant: the load is given back only for what succeeded.                 *)
SubmitKeepsLoad(w) ==
  /\ client[w].at = "submitting"
  /\ SubmitAccepted(w)
  /\ client' = [client EXCEPT ![w].at = "idle", ![w].on = NoWork,
                  ![w].load = IF @ > 0 /\ client[w].success THEN @ - 1 ELSE @]
  /\ UNCHANGED <<keys, beat, executed, mishaps>>

Submit(w) ==
  /\ client[w].at = "submitting"
  /\ SubmitAccepted(w)
  /\ client' = [client EXCEPT ![w].at = "idle", ![w].on = NoWork,
                              ![w].load = IF @ > 0 THEN @ - 1 ELSE @]
  /\ UNCHANGED <<keys, beat, executed, mishaps>>

SubmitFails(w) ==
  /\ client[w].at = "submitting"
  /\ \/ Mishap /\ (SubmitAccepted(w) \/ UNCHANGED <<assignment, registry>>)
     \/ ~SubmitReplayed(w) /\ ~SubmitCurrent(w) /\ UNCHANGED <<assignment, registry, mishaps>>
  /\ client' = CycleFailed(w)
  /\ UNCHANGED <<keys, beat, executed>>

ProcessDies(w) ==
  /\ client[w].at # "down"
  /\ Mishap
  /\ client' = [client EXCEPT ![w] = Down]
  /\ UNCHANGED <<assignment, keys, registry, beat, executed>>

(* SIGTERM, seen between two cycles: drain, deregister.                    *)
Shutdown(w) ==
  /\ client[w].at = "idle"
  /\ Mishap
  /\ client' = [client EXCEPT ![w] = Down]
  /\ assignment' = Reaped(w)
  /\ registry' = [registry EXCEPT ![w] = [status |-> "deregistered", load |-> 0]]
  /\ UNCHANGED <<keys, beat, executed>>

(* The process is started again and registers.                             *)
Register(w) ==
  /\ client[w].at = "down"
  /\ client' = [client EXCEPT ![w] = Started]
  /\ assignment' = Reaped(w)
  /\ registry' = [registry EXCEPT ![w] = Online]
  /\ UNCHANGED <<keys, beat, executed, mishaps>>

WorkerNext ==
  \/ \E a \in Assignments : DispatchStage(a) \/ LeaseExpires(a) \/ ReapExpiredLease(a)
  \/ \E w \in Workers :
       \/ MarkStaleOffline(w) \/ SendHeartbeat(w) \/ HeartbeatHandled(w)
       \/ StartClaim(w) \/ Claim(w) \/ ClaimLost(w) \/ ReceiveClaim(w)
       \/ Ack(w) \/ AckFails(w) \/ Execute(w) \/ Submit(w) \/ SubmitFails(w)
       \/ ProcessDies(w) \/ Shutdown(w) \/ Register(w)

WorkerTypeOK ==
  /\ \A a \in Assignments :
       /\ assignment[a].status \in {"new", "pending"} \cup InFlight \cup Terminal
       /\ assignment[a].attempt \in 1 .. MaxAttempts
       /\ assignment[a].status \in InFlight => assignment[a].holder \in Workers
  /\ \A w \in Workers :
       /\ registry[w].load \in 0 .. MaxConcurrency
       /\ client[w].at \in {"granted", "executing", "submitting"} => client[w].on \in Assignments
=============================================================================
