---------------------------- MODULE PlatformProofs ----------------------------
(***************************************************************************)
(* Theorems about the processes around the assignments, for every set of   *)
(* workers, assignments and replicas and every value of the settings.      *)
(*                                                                         *)
(* Workers: a provider effect key, once stored, is never removed, and only *)
(* the ack that stores it lets a process execute.  So of all the processes *)
(* that ever held an assignment one may be executing it, before anyone     *)
(* has; and a result that says success comes from it.                      *)
(*                                                                         *)
(* Automation: a replica in its tick owns the live lease of the loop, or   *)
(* its lease expired in the tick.                                          *)
(*                                                                         *)
(* Relay: what a tick has locked stays pending until it commits, so that   *)
(* no event is handled by two ticks, and the checkpoint a tick has read is *)
(* one of the applied events for ever.  A tick dispatches its batch event  *)
(* by event; that each prefix of the batch leaves the outbox sound is an   *)
(* induction, written as the choice of a shortest prefix that does not.    *)
(*                                                                         *)
(* Queue: urgency and the round-robin order are strict total orders of the *)
(* places in the queue, and what a tick takes is the first so many of a    *)
(* finite set in such an order.  The jobs it leased are then processed one *)
(* by one, which is an induction over prefixes again.                      *)
(***************************************************************************)
EXTENDS Platform, SumTheorems, TLAPS

-----------------------------------------------------------------------------
(* Workers *)

AssignmentStatus == {"new", "pending"} \cup InFlight \cup Terminal
WorkerStatus == {"online", "busy", "offline", "deregistered"}

StageRow == [status : AssignmentStatus, holder : Workers \cup {Nobody},
             attempt : 1 .. MaxAttempts, token : BOOLEAN, live : BOOLEAN]

Registration == [status : WorkerStatus, load : 0 .. MaxConcurrency]

Cycle == {"idle", "claiming", "answered", "granted", "executing", "submitting", "down"}
Holding == {"granted", "executing", "submitting"}

WorkerProcess == [at : Cycle, on : Assignments \cup {NoWork}, load : Nat, tries : Nat,
                  success : BOOLEAN, lost : BOOLEAN]

HeldRow(x) == x \in StageRow /\ (x.status \in InFlight => x.holder \in Workers)

WorkerRows ==
  /\ assignment \in [Assignments -> StageRow]
  /\ \A a \in Assignments : HeldRow(assignment[a])
  /\ registry \in [Workers -> Registration]
  /\ client \in [Workers -> WorkerProcess]
  /\ \A w \in Workers : client[w].at \in Holding => client[w].on \in Assignments
  /\ beat \in [Workers -> Nat \cup {NoBeat}]
  /\ executed \in [Assignments -> Nat]

(* Before the key is stored nobody has executed.  Whoever is executing is  *)
(* the only one, and nobody has before.                                    *)
OneExecutor ==
  /\ \A a \in Assignments : executed[a] <= 1
  /\ \A a \in Assignments : DefaultEffectKey(a) \notin keys => executed[a] = 0
  /\ \A w \in Workers : client[w].at = "executing" =>
       DefaultEffectKey(client[w].on) \in keys /\ executed[client[w].on] = 0
  /\ \A w, v \in Workers :
       client[w].at = "executing" /\ client[v].at = "executing" /\ client[w].on = client[v].on
         => w = v

(* A success is reported, and stored, only of what was executed.           *)
SuccessWasExecuted ==
  /\ \A w \in Workers :
       client[w].at = "submitting" /\ client[w].success => executed[client[w].on] = 1
  /\ \A a \in Assignments : assignment[a].status = "completed" => executed[a] = 1

WorkerInv == WorkerRows /\ OneExecutor /\ SuccessWasExecuted /\ LoadIsWhatItHolds

\* Two assignments have different effect keys.
LEMMA EffectKeyInjective ==
  ASSUME NEW a, NEW b, DefaultEffectKey(a) = DefaultEffectKey(b) PROVE a = b
  BY DEF DefaultEffectKey

\* recover_assignment leaves a row that nobody holds and that is not completed.
LEMMA RecoveredRow ==
  ASSUME NEW x \in StageRow
  PROVE  HeldRow(Recovered(x)) /\ Recovered(x).status # "completed"
  <1>1. x.attempt \in 1 .. MaxAttempts
    BY DEF StageRow
  <1>2. PICK st \in {"failed", "pending"}, n \in 1 .. MaxAttempts :
          Recovered(x) = [NewAssignment EXCEPT !.status = st, !.attempt = n]
    <2>1. CASE x.attempt + 1 > MaxAttempts
      BY <1>1, <2>1 DEF Recovered
    <2>2. CASE ~(x.attempt + 1 > MaxAttempts)
      <3>1. x.attempt + 1 \in 1 .. MaxAttempts
        BY <1>1, <2>2, WorkerAssumption
      <3> QED BY <2>2, <3>1 DEF Recovered
    <2> QED BY <2>1, <2>2
  <1>3. Recovered(x) = [status |-> st, holder |-> Nobody, attempt |-> n,
                        token |-> FALSE, live |-> FALSE]
    BY <1>2 DEF NewAssignment
  <1> QED BY <1>3 DEF StageRow, HeldRow, AssignmentStatus, InFlight, Terminal

\* Slots are counted between zero and max_concurrency.
LEMMA SlotTypes ==
  ASSUME NEW r \in Registration
  PROVE  /\ SlotFreed(r) \in Registration
         /\ r.load < MaxConcurrency => SlotTaken(r) \in Registration
  BY WorkerAssumption DEF SlotFreed, SlotTaken, Registration, WorkerStatus

(* What a step may do to the rows: only what was executed is completed.    *)
RowsMoved ==
  /\ assignment' \in [Assignments -> StageRow]
  /\ \A a \in Assignments : HeldRow(assignment'[a])
  /\ \A a \in Assignments :
       assignment'[a].status = "completed" =>
         assignment[a].status = "completed" \/ executed[a] = 1
  /\ registry' \in [Workers -> Registration]

\* Recovering the rows of a worker is such a step.
LEMMA ReapedRows ==
  ASSUME WorkerRows, NEW w \in Workers, assignment' = Reaped(w),
         registry' \in [Workers -> Registration]
  PROVE  RowsMoved
  <1>1. \A a \in Assignments :
          /\ HeldRow(assignment'[a])
          /\ assignment'[a].status = "completed" => assignment[a].status = "completed"
    BY RecoveredRow DEF WorkerRows, Reaped
  <1>2. assignment' \in [Assignments -> StageRow]
    BY <1>1 DEF HeldRow, Reaped
  <1> QED BY <1>1, <1>2 DEF RowsMoved

\* One row replaced by one that is not newly completed, or was executed, is such
\* a step.
LEMMA RowReplaced ==
  ASSUME WorkerRows, NEW a \in Assignments, NEW x, HeldRow(x),
         x.status = "completed" => assignment[a].status = "completed" \/ executed[a] = 1,
         assignment' = [assignment EXCEPT ![a] = x],
         registry' \in [Workers -> Registration]
  PROVE  RowsMoved
  BY DEF WorkerRows, RowsMoved, HeldRow

\* A step of the server that tells the process nothing keeps the invariant.
LEMMA ServerStep ==
  ASSUME WorkerInv, RowsMoved, UNCHANGED <<keys, client, beat, executed>>
  PROVE  WorkerInv'
  BY DEF WorkerInv, WorkerRows, RowsMoved, HeldRow, OneExecutor, SuccessWasExecuted,
     LoadIsWhatItHolds, DefaultEffectKey

\* A step of the process of one worker that neither executes nor begins to, and
\* whose process afterwards reports no success, keeps the invariant.
LEMMA ProcessStep ==
  ASSUME WorkerInv, RowsMoved, NEW w \in Workers, NEW c \in WorkerProcess,
         client' = [client EXCEPT ![w] = c], keys \subseteq keys',
         beat' = beat, executed' = executed,
         c.at \in Holding => c.on \in Assignments,
         c.at # "executing",
         ~(c.at = "submitting" /\ c.success),
         ~c.lost => c.load = IF c.at \in Holding THEN 1 ELSE 0
  PROVE  WorkerInv'
  <1>1. /\ client'[w] = c /\ client' \in [Workers -> WorkerProcess]
        /\ \A v \in Workers \ {w} : client'[v] = client[v]
    BY DEF WorkerInv, WorkerRows
  <1>2. WorkerRows'
    BY <1>1 DEF WorkerInv, WorkerRows, RowsMoved, HeldRow
  <1>3. OneExecutor'
    BY <1>1 DEF WorkerInv, OneExecutor, DefaultEffectKey
  <1>4. SuccessWasExecuted'
    BY <1>1 DEF WorkerInv, RowsMoved, SuccessWasExecuted
  <1>5. LoadIsWhatItHolds'
    BY <1>1 DEF WorkerInv, LoadIsWhatItHolds, Holding
  <1> QED BY <1>2, <1>3, <1>4, <1>5 DEF WorkerInv

\* A heartbeat under way says what the process knew when it was sent; it writes
\* the registry only within max_concurrency.
LEMMA HeartbeatStep ==
  ASSUME WorkerInv, NEW w \in Workers, SendHeartbeat(w) \/ HeartbeatHandled(w)
  PROVE  WorkerInv'
  <1>1. CASE SendHeartbeat(w)
    <2>1. client[w].load \in Nat
      BY DEF WorkerInv, WorkerRows, WorkerProcess
    <2>2. /\ beat' = [beat EXCEPT ![w] = client[w].load]
          /\ UNCHANGED <<assignment, keys, registry, client, executed>>
      BY <1>1 DEF SendHeartbeat
    <2> QED BY <2>1, <2>2 DEF WorkerInv, WorkerRows, HeldRow, OneExecutor, DefaultEffectKey,
               SuccessWasExecuted, LoadIsWhatItHolds
  <1>2. CASE HeartbeatHandled(w)
    <2>1. /\ beat' = [beat EXCEPT ![w] = NoBeat] /\ beat[w] \in Nat
          /\ UNCHANGED <<assignment, keys, client, executed>>
      BY <1>2 DEF HeartbeatHandled, WorkerInv, WorkerRows
    <2>2. registry' \in [Workers -> Registration]
      <3> DEFINE new == [load |-> beat[w], status |-> IF beat[w] > 0 THEN "busy" ELSE "online"]
      <3>1. beat[w] <= MaxConcurrency => new \in Registration
        BY <2>1, WorkerAssumption DEF Registration, WorkerStatus
      <3>2. registry' = registry \/ (beat[w] <= MaxConcurrency
                                      /\ registry' = [registry EXCEPT ![w] = new])
        BY <1>2, <2>1, WorkerAssumption DEF HeartbeatHandled
      <3> HIDE DEF new
      <3> QED BY <3>1, <3>2 DEF WorkerInv, WorkerRows
    <2> QED BY <2>1, <2>2 DEF WorkerInv, WorkerRows, HeldRow, OneExecutor, DefaultEffectKey,
               SuccessWasExecuted, LoadIsWhatItHolds
  <1> QED BY <1>1, <1>2

\* Dispatch, expiry, recovery and the marking of stale workers.
LEMMA ApiStep ==
  ASSUME WorkerInv,
         \/ \E a \in Assignments : DispatchStage(a) \/ LeaseExpires(a) \/ ReapExpiredLease(a)
         \/ \E w \in Workers : MarkStaleOffline(w)
  PROVE  WorkerInv'
  <1> USE DEF WorkerInv
  <1>1. ASSUME NEW a \in Assignments, DispatchStage(a) PROVE WorkerInv'
    <2>0. assignment[a] \in StageRow /\ assignment[a].status = "new"
      BY <1>1 DEF DispatchStage, WorkerRows
    <2>1. ASSUME NEW w \in Workers, registry[w].load < MaxConcurrency,
                 assignment' = [assignment EXCEPT ![a].status = "dispatched",
                                                  ![a].holder = w, ![a].live = TRUE],
                 registry' = [registry EXCEPT ![w] = SlotTaken(@)]
          PROVE  RowsMoved
      <3> DEFINE x == [assignment[a] EXCEPT !.status = "dispatched", !.holder = w,
                                            !.live = TRUE]
      <3>1. HeldRow(x) /\ x.status = "dispatched"
        BY <2>0 DEF HeldRow, StageRow, AssignmentStatus, InFlight
      <3>2. assignment' = [assignment EXCEPT ![a] = x]
        BY <2>1, Zenon
      <3>3. registry' \in [Workers -> Registration]
        BY <2>1, SlotTypes DEF WorkerRows
      <3> HIDE DEF x
      <3> QED BY <3>1, <3>2, <3>3, RowReplaced
    <2>2. ASSUME assignment' = [assignment EXCEPT ![a].status = "pending"], UNCHANGED registry
          PROVE  RowsMoved
      <3> DEFINE x == [assignment[a] EXCEPT !.status = "pending"]
      <3>1. HeldRow(x) /\ x.status = "pending"
        BY <2>0 DEF HeldRow, StageRow, AssignmentStatus, InFlight
      <3>2. assignment' = [assignment EXCEPT ![a] = x]
        BY <2>2
      <3> HIDE DEF x
      <3> QED BY <2>2, <3>1, <3>2, RowReplaced DEF WorkerRows
    <2>3. RowsMoved
      BY <1>1, <2>1, <2>2 DEF DispatchStage
    <2> HIDE DEF WorkerInv
    <2> QED BY <1>1, <2>3, ServerStep DEF DispatchStage
  <1>2. ASSUME NEW a \in Assignments, LeaseExpires(a) PROVE WorkerInv'
    <2> DEFINE x == [assignment[a] EXCEPT !.live = FALSE]
    <2>1. HeldRow(x) /\ x.status = assignment[a].status
      BY DEF HeldRow, StageRow, WorkerRows
    <2>2. assignment' = [assignment EXCEPT ![a] = x] /\ registry' = registry
      BY <1>2 DEF LeaseExpires
    <2> HIDE DEF x
    <2>3. RowsMoved
      BY <2>1, <2>2, RowReplaced DEF WorkerRows
    <2> HIDE DEF WorkerInv
    <2> QED BY <1>2, <2>3, ServerStep DEF LeaseExpires
  <1>3. ASSUME NEW a \in Assignments, ReapExpiredLease(a) PROVE WorkerInv'
    <2> DEFINE x == Recovered(assignment[a])
    <2>1. HeldRow(x) /\ x.status # "completed"
      BY RecoveredRow DEF WorkerRows
    <2>2. assignment' = [assignment EXCEPT ![a] = x]
      BY <1>3 DEF ReapExpiredLease
    <2>3. registry' \in [Workers -> Registration]
      BY <1>3, SlotTypes DEF ReapExpiredLease, WorkerRows, HeldRow
    <2> HIDE DEF x
    <2>4. RowsMoved
      BY <2>1, <2>2, <2>3, RowReplaced
    <2> HIDE DEF WorkerInv
    <2> QED BY <1>3, <2>4, ServerStep DEF ReapExpiredLease
  <1>4. ASSUME NEW w \in Workers, MarkStaleOffline(w) PROVE WorkerInv'
    <2>1. [status |-> "offline", load |-> 0] \in Registration
      BY WorkerAssumption DEF Registration, WorkerStatus
    <2>2. registry' \in [Workers -> Registration]
      BY <1>4, <2>1 DEF MarkStaleOffline, WorkerRows
    <2>3. RowsMoved
      BY <1>4, <2>2, ReapedRows DEF MarkStaleOffline
    <2> HIDE DEF WorkerInv
    <2> QED BY <1>4, <2>3, ServerStep DEF MarkStaleOffline
  <1> HIDE DEF WorkerInv
  <1> QED BY <1>1, <1>2, <1>3, <1>4

\* A step that leaves rows and registry alone, and one that only takes tokens
\* from rows, move the rows.
LEMMA RowsUnmoved ==
  ASSUME WorkerRows, UNCHANGED <<assignment, registry>> PROVE RowsMoved
  BY DEF WorkerRows, RowsMoved

\* What the server does with a claim.
LEMMA ClaimMovesRows ==
  ASSUME WorkerRows, NEW w \in Workers, NEW answer \in Assignments \cup {NoWork},
         ClaimHandled(w, answer)
  PROVE  RowsMoved
  <1>1. CASE UNCHANGED <<assignment, registry>>
    BY <1>1, RowsUnmoved
  <1>2. ASSUME Eligible(w), answer \in Claimable,
               assignment' = [assignment EXCEPT ![answer].status = "dispatched",
                 ![answer].holder = w, ![answer].token = TRUE, ![answer].live = TRUE],
               registry' = [registry EXCEPT ![w] = SlotTaken(@)]
        PROVE  RowsMoved
    <2> DEFINE x == [assignment[answer] EXCEPT !.status = "dispatched", !.holder = w,
                                               !.token = TRUE, !.live = TRUE]
    <2>1. answer \in Assignments /\ assignment[answer] \in StageRow
      BY <1>2 DEF Claimable, WorkerRows
    <2>2. HeldRow(x) /\ x.status = "dispatched"
      BY <2>1 DEF HeldRow, StageRow, AssignmentStatus, InFlight
    <2>3. assignment' = [assignment EXCEPT ![answer] = x]
      BY <1>2, Zenon
    <2>4. registry' \in [Workers -> Registration]
      BY <1>2, SlotTypes DEF WorkerRows, Eligible
    <2> HIDE DEF x
    <2> QED BY <2>1, <2>2, <2>3, <2>4, RowReplaced
  <1> QED BY <1>1, <1>2 DEF ClaimHandled

\* An accepted ack.
LEMMA AckMovesRows ==
  ASSUME WorkerRows, NEW w \in Workers, client[w].on \in Assignments, AckAccepted(w),
         registry' = registry
  PROVE  RowsMoved /\ keys \subseteq keys'
  <1> DEFINE a == client[w].on
             x == [assignment[a] EXCEPT !.status = "acknowledged"]
  <1>1. assignment[a] \in StageRow /\ HeldRow(assignment[a])
    BY DEF WorkerRows
  <1>2. HeldRow(x) /\ x.status = "acknowledged"
    <2>1. assignment[a].status = "dispatched"
      BY DEF AckAccepted
    <2> HIDE DEF a
    <2> QED BY <1>1, <2>1 DEF HeldRow, StageRow, AssignmentStatus, InFlight
  <1>3. assignment' = [assignment EXCEPT ![a] = x] /\ keys \subseteq keys'
    BY DEF AckAccepted
  <1> HIDE DEF x, a
  <1>4. a \in Assignments
    BY DEF a
  <1> QED BY <1>2, <1>3, <1>4, RowReplaced DEF WorkerRows

\* Claims, their loss and their answers.
LEMMA ClaimStep ==
  ASSUME WorkerInv, NEW w \in Workers,
         StartClaim(w) \/ Claim(w) \/ ClaimLost(w) \/ ReceiveClaim(w)
  PROVE  WorkerInv'
  <1>0. /\ client[w] \in WorkerProcess /\ WorkerRows
        /\ ~client[w].lost => client[w].load = IF client[w].at \in Holding THEN 1 ELSE 0
    BY DEF WorkerInv, WorkerRows, LoadIsWhatItHolds, Holding
  <1>1. CASE StartClaim(w)
    <2> DEFINE c == [client[w] EXCEPT !.at = "claiming", !.tries = 0]
    <2>1. client' = [client EXCEPT ![w] = c]
      BY <1>1, Zenon DEF StartClaim
    <2>2. /\ c \in WorkerProcess /\ c.at = "claiming" /\ c.lost = client[w].lost
          /\ c.load = client[w].load /\ client[w].at = "idle"
      BY <1>0, <1>1 DEF WorkerProcess, Cycle, StartClaim
    <2>3. \A a \in Assignments :
            HeldRow(assignment'[a]) /\ assignment'[a].status = assignment[a].status
      BY <1>0, <1>1 DEF StartClaim, WorkerRows, HeldRow, StageRow
    <2>4. assignment' \in [Assignments -> StageRow]
      BY <1>1, <2>3 DEF StartClaim, HeldRow
    <2>5. RowsMoved /\ UNCHANGED <<keys, beat, executed>>
      BY <1>0, <1>1, <2>3, <2>4 DEF RowsMoved, StartClaim, WorkerRows
    <2> HIDE DEF c
    <2> QED BY <1>0, <2>1, <2>2, <2>5, ProcessStep DEF Holding
  <1>2. CASE Claim(w)
    <2>1. PICK answer \in Assignments \cup {NoWork} :
            /\ ClaimHandled(w, answer)
            /\ client' = [client EXCEPT ![w].at = "answered", ![w].on = answer]
      BY <1>2 DEF Claim
    <2> DEFINE c == [client[w] EXCEPT !.at = "answered", !.on = answer]
    <2>2. client' = [client EXCEPT ![w] = c]
      BY <2>1, Zenon
    <2>3. /\ c \in WorkerProcess /\ c.at = "answered" /\ c.lost = client[w].lost
          /\ c.load = client[w].load /\ client[w].at = "claiming"
      BY <1>0, <1>2 DEF WorkerProcess, Cycle, Claim
    <2>4. RowsMoved /\ UNCHANGED <<keys, beat, executed>>
      BY <1>0, <1>2, <2>1, ClaimMovesRows DEF Claim
    <2> HIDE DEF c
    <2> QED BY <1>0, <2>2, <2>3, <2>4, ProcessStep DEF Holding
  <1>3. CASE ClaimLost(w)
    <2> DEFINE n == client[w].tries + 1
               end == IF n < MaxClaimTries THEN "claiming" ELSE "idle"
               c == [client[w] EXCEPT !.tries = n, !.at = end]
    <2>1. client' = [client EXCEPT ![w] = c] /\ client[w].at = "claiming"
      BY <1>3, Zenon DEF ClaimLost
    <2>0. n \in Nat /\ end \in {"claiming", "idle"}
      BY <1>0 DEF WorkerProcess
    <2> HIDE DEF n, end
    <2>2. /\ c \in WorkerProcess /\ c.at = end /\ c.lost = client[w].lost
          /\ c.load = client[w].load
      BY <1>0, <2>0 DEF WorkerProcess, Cycle
    <2>3. RowsMoved /\ UNCHANGED <<keys, beat, executed>>
      <3>1. ASSUME NEW answer \in Assignments \cup {NoWork}, ClaimHandled(w, answer)
            PROVE  RowsMoved
        BY <1>0, <3>1, ClaimMovesRows
      <3>2. ASSUME UNCHANGED <<assignment, registry>> PROVE RowsMoved
        BY <3>2, RowsUnmoved DEF WorkerInv
      <3> QED BY <1>3, <3>1, <3>2, Zenon DEF ClaimLost
    <2> HIDE DEF c
    <2> QED BY <1>0, <2>0, <2>1, <2>2, <2>3, ProcessStep DEF Holding
  <1>4. CASE ReceiveClaim(w)
    <2>1. /\ RowsMoved /\ UNCHANGED <<keys, beat, executed>> /\ client[w].at = "answered"
      BY <1>0, <1>4, RowsUnmoved DEF ReceiveClaim
    <2>2. CASE client[w].on = NoWork
      <3> DEFINE c == [client[w] EXCEPT !.at = "idle"]
      <3>1. client' = [client EXCEPT ![w] = c]
        BY <1>4, <2>2, Zenon DEF ReceiveClaim
      <3>2. /\ c \in WorkerProcess /\ c.at = "idle" /\ c.lost = client[w].lost
            /\ c.load = client[w].load
        BY <1>0 DEF WorkerProcess, Cycle
      <3> HIDE DEF c
      <3> QED BY <1>0, <2>1, <3>1, <3>2, ProcessStep DEF Holding
    <2>3. CASE client[w].on # NoWork
      <3> DEFINE n == client[w].load + 1
                 c == [client[w] EXCEPT !.at = "granted", !.load = n]
      <3>0. n \in Nat
        BY <1>0 DEF WorkerProcess
      <3>1. client' = [client EXCEPT ![w] = c]
        BY <1>4, <2>3, Zenon DEF ReceiveClaim
      <3>2. /\ c \in WorkerProcess /\ c.at = "granted" /\ c.lost = client[w].lost
            /\ c.load = client[w].load + 1 /\ c.on = client[w].on
        <4> HIDE DEF n
        <4>1. /\ c \in WorkerProcess /\ c.at = "granted" /\ c.lost = client[w].lost
              /\ c.load = n /\ c.on = client[w].on
          BY <1>0, <3>0 DEF WorkerProcess, Cycle
        <4> QED BY <4>1 DEF n
      <3>3. c.on \in Assignments /\ client[w].load \in Nat
        BY <1>0, <2>3, <3>2 DEF WorkerProcess
      <3>4. ~c.lost => c.load = 1
        BY <1>0, <2>1, <3>2, <3>3 DEF Holding
      <3> HIDE DEF c
      <3> QED BY <2>1, <3>1, <3>2, <3>3, <3>4, ProcessStep DEF Holding
    <2> QED BY <2>2, <2>3
  <1> QED BY <1>1, <1>2, <1>3, <1>4

\* A cycle that ends by an exception, and a process that ends or begins.
LEMMA CycleEnds ==
  ASSUME WorkerInv, RowsMoved, NEW w \in Workers, keys \subseteq keys',
         beat' = beat, executed' = executed,
         \/ client' = CycleFailed(w)
         \/ client' = [client EXCEPT ![w] = Down]
         \/ client' = [client EXCEPT ![w] = Started]
  PROVE  WorkerInv'
  <1>1. client[w] \in WorkerProcess
    BY DEF WorkerInv, WorkerRows
  <1>2. CASE client' = CycleFailed(w)
    <2> DEFINE c == [client[w] EXCEPT !.at = "idle", !.on = NoWork, !.lost = TRUE]
    <2>1. client' = [client EXCEPT ![w] = c]
      BY <1>2, Zenon DEF CycleFailed
    <2>2. c \in WorkerProcess /\ c.at = "idle" /\ c.lost
      BY <1>1 DEF WorkerProcess, Cycle
    <2> HIDE DEF c
    <2> QED BY <2>1, <2>2, ProcessStep DEF Holding
  <1>3. /\ Down \in WorkerProcess /\ Down.at = "down" /\ Down.load = 0
        /\ Started \in WorkerProcess /\ Started.at = "idle" /\ Started.load = 0
    BY DEF Down, Started, WorkerProcess, Cycle
  <1>4. CASE client' = [client EXCEPT ![w] = Down]
    BY <1>3, <1>4, ProcessStep DEF Holding
  <1>5. CASE client' = [client EXCEPT ![w] = Started]
    BY <1>3, <1>5, ProcessStep DEF Holding
  <1> QED BY <1>2, <1>4, <1>5

\* The ack is the leave to execute if it stored the effect key; nobody else can
\* be executing then.
LEMMA AckStep ==
  ASSUME WorkerInv, NEW w \in Workers, Ack(w) \/ AckFails(w) PROVE WorkerInv'
  <1>0. /\ client[w] \in WorkerProcess /\ WorkerRows
        /\ ~client[w].lost => client[w].load = IF client[w].at \in Holding THEN 1 ELSE 0
    BY DEF WorkerInv, WorkerRows, LoadIsWhatItHolds, Holding
  <1>1. client[w].at = "granted" /\ client[w].on \in Assignments
    BY DEF Ack, AckFails, WorkerInv, WorkerRows, Holding
  <1>2. CASE AckFails(w)
    <2>1. ASSUME AckAccepted(w) PROVE RowsMoved /\ keys \subseteq keys'
      BY <1>0, <1>1, <1>2, <2>1, AckMovesRows DEF AckFails
    <2>2. ASSUME UNCHANGED <<assignment, keys>> PROVE RowsMoved /\ keys \subseteq keys'
      BY <1>0, <1>2, <2>2, RowsUnmoved DEF AckFails
    <2>3. RowsMoved /\ keys \subseteq keys'
      BY <1>2, <2>1, <2>2, Zenon DEF AckFails
    <2> QED BY <1>2, <2>3, CycleEnds DEF AckFails
  <1>3. CASE Ack(w)
    <2> DEFINE a == client[w].on
    <2>1. RowsMoved /\ keys \subseteq keys' /\ UNCHANGED <<registry, beat, executed>>
      BY <1>0, <1>1, <1>3, AckMovesRows DEF Ack
    <2>2. CASE DefaultEffectKey(a) \in keys
      <3> DEFINE c == [client[w] EXCEPT !.success = FALSE, !.at = "submitting"]
      <3>1. client' = [client EXCEPT ![w] = c]
        BY <1>3, <2>2, Zenon DEF Ack
      <3>2. /\ c \in WorkerProcess /\ c.at = "submitting" /\ ~c.success /\ c.on = a
            /\ c.lost = client[w].lost /\ c.load = client[w].load
        BY <1>0 DEF WorkerProcess, Cycle
      <3>3. ~c.lost => c.load = 1
        BY <1>0, <1>1, <3>2 DEF Holding
      <3> HIDE DEF c
      <3> QED BY <1>1, <2>1, <3>1, <3>2, <3>3, ProcessStep DEF Holding
    <2>3. CASE DefaultEffectKey(a) \notin keys
      <3> DEFINE c == [client[w] EXCEPT !.success = FALSE, !.at = "executing"]
      <3>1. client' = [client EXCEPT ![w] = c]
        BY <1>3, <2>3, Zenon DEF Ack
      <3>2. /\ c \in WorkerProcess /\ c.at = "executing" /\ c.on = a
            /\ c.lost = client[w].lost /\ c.load = client[w].load
        BY <1>0 DEF WorkerProcess, Cycle
      <3>3. ~c.lost => c.load = 1
        BY <1>0, <1>1, <3>2 DEF Holding
      <3> HIDE DEF c
      <3>4. /\ client'[w] = c /\ client' \in [Workers -> WorkerProcess]
            /\ \A v \in Workers \ {w} : client'[v] = client[v]
        BY <3>1, <3>2 DEF WorkerInv, WorkerRows
      <3>5. /\ executed[a] = 0 /\ DefaultEffectKey(a) \in keys'
            /\ \A v \in Workers : client[v].at = "executing" => client[v].on # a
        BY <1>1, <1>3, <2>3 DEF WorkerInv, OneExecutor, Ack, AckAccepted
      <3>6. WorkerRows'
        BY <1>1, <2>1, <3>2, <3>4 DEF WorkerInv, WorkerRows, RowsMoved, HeldRow
      <3>7. OneExecutor'
        BY <1>1, <2>1, <3>2, <3>4, <3>5 DEF WorkerInv, OneExecutor, DefaultEffectKey
      <3>8. SuccessWasExecuted'
        BY <2>1, <3>2, <3>4 DEF WorkerInv, RowsMoved, SuccessWasExecuted
      <3>9. LoadIsWhatItHolds'
        BY <3>2, <3>3, <3>4 DEF WorkerInv, LoadIsWhatItHolds
      <3> QED BY <3>6, <3>7, <3>8, <3>9 DEF WorkerInv
    <2> QED BY <2>2, <2>3
  <1> QED BY <1>2, <1>3

\* The executor is called by the only process that may, for the first time.
LEMMA ExecuteStep ==
  ASSUME WorkerInv, NEW w \in Workers, Execute(w) PROVE WorkerInv'
  <1> DEFINE a == client[w].on
  <1>0. /\ client[w] \in WorkerProcess /\ WorkerRows /\ a \in Assignments
        /\ client[w].at = "executing" /\ executed[a] = 0
        /\ ~client[w].lost => client[w].load = 1
        /\ DefaultEffectKey(a) \in keys
    BY DEF WorkerInv, WorkerRows, LoadIsWhatItHolds, Holding, Execute, OneExecutor
  <1>1. PICK success \in BOOLEAN :
          client' = [client EXCEPT ![w].at = "submitting", ![w].success = success]
    BY DEF Execute
  <1> DEFINE c == [client[w] EXCEPT !.at = "submitting", !.success = success]
  <1>2. client' = [client EXCEPT ![w] = c]
    BY <1>1, Zenon
  <1>3. /\ c \in WorkerProcess /\ c.at = "submitting" /\ c.on = a
        /\ c.lost = client[w].lost /\ c.load = client[w].load
    BY <1>0 DEF WorkerProcess, Cycle
  <1> HIDE DEF c
  <1>4. /\ client'[w] = c /\ client' \in [Workers -> WorkerProcess]
        /\ \A v \in Workers \ {w} : client'[v] = client[v]
    BY <1>2, <1>3 DEF WorkerInv, WorkerRows
  <1>5. /\ executed' \in [Assignments -> Nat] /\ executed'[a] = 1
        /\ \A b \in Assignments \ {a} : executed'[b] = executed[b]
        /\ UNCHANGED <<assignment, keys, registry, beat>>
    BY <1>0 DEF Execute, WorkerRows
  <1>6. \A v \in Workers \ {w} : client[v].at = "executing" => client[v].on # a
    BY <1>0 DEF WorkerInv, OneExecutor
  <1> HIDE DEF a
  <1>7. WorkerRows'
    BY <1>0, <1>3, <1>4, <1>5 DEF WorkerRows, HeldRow
  <1>8. OneExecutor'
    <2>1. \A v \in Workers : client'[v].at = "executing" =>
            v # w /\ client'[v] = client[v] /\ client[v].on \in Assignments \ {a}
      BY <1>3, <1>4, <1>6 DEF WorkerInv, WorkerRows, Holding
    <2> QED BY <1>0, <1>5, <2>1 DEF WorkerInv, OneExecutor, DefaultEffectKey
  <1>9. SuccessWasExecuted'
    <2>1. \A b \in Assignments : executed[b] = 1 => executed'[b] = 1
      BY <1>0, <1>5
    <2>2. \A v \in Workers : client[v].at = "submitting" => client[v].on \in Assignments
      BY DEF WorkerInv, WorkerRows, Holding
    <2> QED BY <1>3, <1>4, <1>5, <2>1, <2>2 DEF WorkerInv, SuccessWasExecuted
  <1>10. LoadIsWhatItHolds'
    BY <1>0, <1>3, <1>4 DEF WorkerInv, LoadIsWhatItHolds
  <1> QED BY <1>7, <1>8, <1>9, <1>10 DEF WorkerInv

\* A submit that the server accepts completes only what its process executed.
LEMMA SubmitMovesRows ==
  ASSUME WorkerInv, NEW w \in Workers, client[w].at = "submitting", SubmitAccepted(w)
  PROVE  RowsMoved
  <1> DEFINE a == client[w].on
             end == IF client[w].success THEN "completed" ELSE "failed"
             x == [assignment[a] EXCEPT !.live = FALSE, !.status = end]
  <1>0. a \in Assignments /\ WorkerRows /\ assignment[a] \in StageRow
    BY DEF WorkerInv, WorkerRows, Holding
  <1>1. CASE UNCHANGED <<assignment, registry>>
    BY <1>0, <1>1, RowsUnmoved
  <1>2. ASSUME assignment' = [assignment EXCEPT ![a].live = FALSE, ![a].status = end],
               registry' = [registry EXCEPT ![w] = SlotFreed(@)]
        PROVE  RowsMoved
    <2>1. end = "completed" => executed[a] = 1
      BY DEF WorkerInv, SuccessWasExecuted
    <2>2. end \in {"completed", "failed"}
      OBVIOUS
    <2>3. assignment' = [assignment EXCEPT ![a] = x]
      BY <1>2, Zenon
    <2>4. registry' \in [Workers -> Registration]
      BY <1>0, <1>2, SlotTypes DEF WorkerRows
    <2> HIDE DEF end, a
    <2>5. HeldRow(x) /\ x.status = end
      BY <1>0, <2>2 DEF HeldRow, StageRow, AssignmentStatus, InFlight, Terminal
    <2> HIDE DEF x
    <2> QED BY <1>0, <2>1, <2>3, <2>4, <2>5, RowReplaced
  <1> QED BY <1>1, <1>2 DEF SubmitAccepted

\* Submits, accepted or not, and processes that end and begin.
LEMMA EndStep ==
  ASSUME WorkerInv, NEW w \in Workers,
         Submit(w) \/ SubmitFails(w) \/ ProcessDies(w) \/ Shutdown(w) \/ Register(w)
  PROVE  WorkerInv'
  <1>0. client[w] \in WorkerProcess /\ WorkerRows
    BY DEF WorkerInv, WorkerRows
  <1>1. CASE Submit(w)
    <2> DEFINE n == IF client[w].load > 0 THEN client[w].load - 1 ELSE client[w].load
               c == [client[w] EXCEPT !.at = "idle", !.on = NoWork, !.load = n]
    <2>1. client' = [client EXCEPT ![w] = c] /\ client[w].at = "submitting"
      BY <1>1, Zenon DEF Submit
    <2>2. n \in Nat /\ (~client[w].lost => n = 0)
      BY <1>0, <2>1 DEF WorkerProcess, WorkerInv, LoadIsWhatItHolds
    <2> HIDE DEF n
    <2>3. c \in WorkerProcess /\ c.at = "idle" /\ c.lost = client[w].lost /\ c.load = n
      BY <1>0, <2>2 DEF WorkerProcess, Cycle
    <2>4. RowsMoved /\ UNCHANGED <<keys, beat, executed>>
      BY <1>1, <2>1, SubmitMovesRows DEF Submit
    <2> HIDE DEF c
    <2> QED BY <2>1, <2>2, <2>3, <2>4, ProcessStep DEF Holding
  <1>2. CASE SubmitFails(w)
    <2>1. ASSUME SubmitAccepted(w) PROVE RowsMoved
      BY <1>2, <2>1, SubmitMovesRows DEF SubmitFails
    <2>2. ASSUME UNCHANGED <<assignment, registry>> PROVE RowsMoved
      BY <1>0, <2>2, RowsUnmoved
    <2>3. RowsMoved
      BY <1>2, <2>1, <2>2, Zenon DEF SubmitFails
    <2> QED BY <1>2, <2>3, CycleEnds DEF SubmitFails
  <1>3. CASE ProcessDies(w)
    <2>1. RowsMoved
      BY <1>0, <1>3, RowsUnmoved DEF ProcessDies
    <2> QED BY <1>3, <2>1, CycleEnds DEF ProcessDies
  <1>4. CASE Shutdown(w)
    <2>1. [status |-> "deregistered", load |-> 0] \in Registration
      BY WorkerAssumption DEF Registration, WorkerStatus
    <2>2. registry' \in [Workers -> Registration]
      BY <1>0, <1>4, <2>1 DEF Shutdown, WorkerRows
    <2>3. RowsMoved
      BY <1>0, <1>4, <2>2, ReapedRows DEF Shutdown
    <2> QED BY <1>4, <2>3, CycleEnds DEF Shutdown
  <1>5. CASE Register(w)
    <2>1. Online \in Registration
      BY WorkerAssumption DEF Online, Registration, WorkerStatus
    <2>2. registry' \in [Workers -> Registration]
      BY <1>0, <1>5, <2>1 DEF Register, WorkerRows
    <2>3. RowsMoved
      BY <1>0, <1>5, <2>2, ReapedRows DEF Register
    <2> QED BY <1>5, <2>3, CycleEnds DEF Register
  <1> QED BY <1>1, <1>2, <1>3, <1>4, <1>5

\* The workers' invariant holds at the start, after every step of theirs and
\* after every step that is not theirs.
LEMMA WorkerInductive ==
  /\ WorkerInit => WorkerInv
  /\ WorkerInv /\ WorkerNext => WorkerInv'
  /\ WorkerInv /\ UNCHANGED workerVars => WorkerInv'
  <1>1. WorkerInit => WorkerInv
    <2>1. /\ NewAssignment \in StageRow /\ NewAssignment.status = "new"
          /\ HeldRow(NewAssignment)
      BY WorkerAssumption DEF NewAssignment, StageRow, HeldRow, AssignmentStatus, InFlight
    <2>2. Started \in WorkerProcess /\ Started.at = "idle" /\ Started.load = 0
      BY DEF Started, WorkerProcess, Cycle
    <2>3. Online \in Registration
      BY WorkerAssumption DEF Online, Registration, WorkerStatus
    <2> QED BY <2>1, <2>2, <2>3 DEF WorkerInit, WorkerInv, WorkerRows, OneExecutor,
               SuccessWasExecuted, LoadIsWhatItHolds, Holding
  <1>2. WorkerInv /\ WorkerNext => WorkerInv'
    BY ApiStep, HeartbeatStep, ClaimStep, AckStep, ExecuteStep, EndStep DEF WorkerNext
  <1>3. WorkerInv /\ UNCHANGED workerVars => WorkerInv'
    BY DEF workerVars, WorkerInv, WorkerRows, HeldRow, OneExecutor, DefaultEffectKey,
       SuccessWasExecuted, LoadIsWhatItHolds
  <1> QED BY <1>1, <1>2, <1>3

\* The workers' invariant holds in every reachable state.
THEOREM WorkerInvariant == Spec => []WorkerInv
  <1>1. Init => WorkerInv
    BY WorkerInductive DEF Init
  <1>2. WorkerInv /\ [Next]_vars => WorkerInv'
    BY WorkerInductive DEF Next, vars
  <1> QED BY <1>1, <1>2, PTL DEF Spec

\* The executor is called at most once for an assignment, whatever is lost, sent
\* again, recovered or restarted, and what is completed was executed
\* (ensure_provider_effect_key, run_one).
THEOREM EveryAssignmentExecutedOnce == Spec => []ExecutedOnce
  <1>1. WorkerInv => ExecutedOnce
    BY DEF WorkerInv, OneExecutor, SuccessWasExecuted, ExecutedOnce
  <1> QED BY <1>1, WorkerInvariant, PTL

\* A process that lost no ack and no submit reports the load it has (claim_next,
\* submit).
THEOREM ReportedLoadIsHeld == Spec => []LoadIsWhatItHolds
  <1>1. WorkerInv => LoadIsWhatItHolds
    BY DEF WorkerInv
  <1> QED BY <1>1, WorkerInvariant, PTL

-----------------------------------------------------------------------------
(* Automation: the lease of the loop *)

AutomationRows ==
  /\ lease \in AutomationLease
  /\ at \in [Replicas -> LoopState]
  /\ failures \in [Replicas -> 0 .. MaxFailures]
  /\ faults \in 0 .. MaxFaults
  /\ lapsed \subseteq Replicas

(* A process that has used up its failures is down.                        *)
FailuresBounded == \A r \in Replicas : at[r] # "down" => failures[r] < MaxFailures

(* A replica in its tick owns the lease, if its lease did not expire.      *)
TickOwns == \A r \in Replicas : at[r] = "tick" => r \in lapsed \/ Owns(r)

AutomationInv == AutomationRows /\ FailuresBounded /\ TickOwns

\* A step that moves one replica out of its tick, or leaves it where it is, and
\* takes no live lease from another replica keeps the invariant.
LEMMA LoopMoves ==
  ASSUME AutomationInv, NEW r \in Replicas, NEW to \in LoopState,
         at' = [at EXCEPT ![r] = to], lease' \in AutomationLease,
         failures' \in [Replicas -> 0 .. MaxFailures],
         faults' \in 0 .. MaxFaults, lapsed' = lapsed,
         to # "down" => failures'[r] < MaxFailures,
         \A q \in Replicas \ {r} : failures'[q] = failures[q],
         to # "tick",
         \A q \in Replicas \ {r} : lease.owner = q => lease'.owner = q /\ lease'.live = lease.live
  PROVE  AutomationInv'
  <1>1. /\ at' \in [Replicas -> LoopState] /\ at'[r] = to
        /\ \A q \in Replicas \ {r} : at'[q] = at[q]
    BY DEF AutomationInv, AutomationRows
  <1>2. AutomationRows' /\ FailuresBounded'
    BY <1>1 DEF AutomationInv, AutomationRows, FailuresBounded
  <1>3. TickOwns'
    BY <1>1 DEF AutomationInv, TickOwns, Owns
  <1> QED BY <1>2, <1>3 DEF AutomationInv

\* Giving back the leases one holds takes none from another.
LEMMA ReleasedLease ==
  ASSUME lease \in AutomationLease, NEW r \in Replicas
  PROVE  /\ Released(r) \in AutomationLease
         /\ \A q \in Replicas \ {r} : lease.owner = q => Released(r) = lease
  BY DEF Released, Owns, AutomationLease

\* Every step of the loop, every fault and every expiry keeps the invariant.
LEMMA AutomationStep == AutomationInv /\ AutomationNext => AutomationInv'
  <1> SUFFICES ASSUME AutomationInv, AutomationNext PROVE AutomationInv'
    OBVIOUS
  <1>0. AutomationRows /\ FailuresBounded /\ TickOwns
    BY DEF AutomationInv
  <1>1. ASSUME NEW r \in Replicas, TryClaim(r) PROVE AutomationInv'
    <2> DEFINE new == [lease EXCEPT !.owner = r, !.live = TRUE]
    <2>1. /\ at[r] = "waiting" /\ lease' = new /\ at' = [at EXCEPT ![r] = "tick"]
          /\ lapsed' = lapsed \ {r} /\ UNCHANGED <<failures, faults>>
          /\ lease.owner \in {NoOwner, r} \/ ~lease.live
      BY <1>1 DEF TryClaim
    <2>2. new \in AutomationLease /\ new.owner = r /\ new.live
      BY <1>0 DEF AutomationRows, AutomationLease
    <2> HIDE DEF new
    <2>3. /\ at' \in [Replicas -> LoopState] /\ at'[r] = "tick"
          /\ \A q \in Replicas \ {r} : at'[q] = at[q]
      BY <1>0, <2>1 DEF AutomationRows, LoopState
    <2>4. \A q \in Replicas \ {r} : ~Owns(q)
      BY <2>1, AutomationAssumption DEF Owns
    <2>5. TickOwns'
      BY <1>0, <2>1, <2>2, <2>3, <2>4 DEF TickOwns, Owns
    <2>6. AutomationRows' /\ FailuresBounded'
      BY <1>0, <2>1, <2>2, <2>3 DEF AutomationRows, FailuresBounded
    <2> QED BY <2>5, <2>6 DEF AutomationInv
  <1>2. ASSUME NEW r \in Replicas, TickStep(r) PROVE AutomationInv'
    <2>1. UNCHANGED <<lease, failures, faults, lapsed>> /\ at[r] = "tick"
      BY <1>2 DEF TickStep
    <2>2. CASE UNCHANGED at
      BY <1>0, <2>1, <2>2 DEF AutomationInv, AutomationRows, FailuresBounded, TickOwns, Owns
    <2>3. CASE at' = [at EXCEPT ![r] = "succeeded"]
      BY <1>0, <2>1, <2>3, LoopMoves DEF AutomationRows, FailuresBounded, LoopState
    <2> QED BY <1>2, <2>2, <2>3 DEF TickStep
  <1>3. ASSUME NEW r \in Replicas, OwnershipLost(r) \/ TickRaises(r) \/ \E i : DeliveryAborts(r, i)
        PROVE  AutomationInv'
    <2>1. /\ \E to \in {"waiting", "raised"} : at' = [at EXCEPT ![r] = to]
          /\ UNCHANGED <<lease, failures, lapsed>> /\ at[r] = "tick"
          /\ faults' = faults \/ (faults < MaxFaults /\ faults' = faults + 1)
      BY <1>3 DEF OwnershipLost, TickRaises, DeliveryAborts
    <2>2. faults' \in 0 .. MaxFaults
      BY <1>0, <2>1, AutomationAssumption DEF AutomationRows
    <2>3. PICK to \in {"waiting", "raised"} : at' = [at EXCEPT ![r] = to]
      BY <2>1
    <2>4. to \in LoopState /\ to # "tick" /\ failures'[r] < MaxFailures
      BY <1>0, <2>1, <2>3 DEF LoopState, FailuresBounded
    <2> QED BY <1>0, <2>1, <2>2, <2>3, <2>4, LoopMoves DEF AutomationRows
  <1>4. ASSUME NEW r \in Replicas, Record(r) PROVE AutomationInv'
    <2>1. /\ at' = [at EXCEPT ![r] = "waiting"] /\ at[r] \in {"succeeded", "raised"}
          /\ UNCHANGED <<failures, faults, lapsed>>
      BY <1>4 DEF Record
    <2>2. lease' \in AutomationLease /\ lease'.owner = lease.owner /\ lease'.live = lease.live
      <3> DEFINE e == (at[r] = "raised")
      <3>1. e \in BOOLEAN
        OBVIOUS
      <3>2. lease' = lease \/ lease' = [lease EXCEPT !.error = e]
        BY <1>4, Zenon DEF Record
      <3> HIDE DEF e
      <3> QED BY <1>0, <3>1, <3>2 DEF AutomationRows, AutomationLease
    <2> QED BY <1>0, <2>1, <2>2, LoopMoves DEF AutomationRows, FailuresBounded, LoopState
  <1>5. ASSUME NEW r \in Replicas, Restart(r) PROVE AutomationInv'
    <2>1. /\ at' = [at EXCEPT ![r] = "waiting"] /\ failures' = [failures EXCEPT ![r] = 0]
          /\ UNCHANGED <<faults, lapsed>>
      BY <1>5 DEF Restart
    <2>2. /\ lease' \in AutomationLease
          /\ \A q \in Replicas \ {r} : lease.owner = q => lease' = lease
      BY <1>0, <1>5 DEF Restart, AutomationRows, AutomationLease
    <2>3. /\ failures' \in [Replicas -> 0 .. MaxFailures] /\ failures'[r] < MaxFailures
          /\ \A q \in Replicas \ {r} : failures'[q] = failures[q]
      BY <1>0, <2>1, AutomationAssumption DEF AutomationRows
    <2>4. "waiting" \in LoopState
      BY DEF LoopState
    <2> QED BY <1>0, <2>1, <2>2, <2>3, <2>4, LoopMoves DEF AutomationRows
  <1>6. ASSUME NEW r \in Replicas, ControlFails(r) PROVE AutomationInv'
    <2> DEFINE n == failures[r] + 1
    <2>1. /\ failures' = [failures EXCEPT ![r] = n] /\ lapsed' = lapsed
          /\ at[r] # "down" /\ faults < MaxFaults /\ faults' = faults + 1
      BY <1>6 DEF ControlFails
    <2>2. n \in 0 .. MaxFailures
      BY <1>0, <2>1, AutomationAssumption DEF AutomationRows, FailuresBounded
    <2>3. /\ failures' \in [Replicas -> 0 .. MaxFailures] /\ failures'[r] = n
          /\ \A q \in Replicas \ {r} : failures'[q] = failures[q]
          /\ faults' \in 0 .. MaxFaults
      <3>1. faults' \in 0 .. MaxFaults
        BY <1>0, <2>1, AutomationAssumption DEF AutomationRows
      <3> HIDE DEF n
      <3> QED BY <1>0, <2>1, <2>2, <3>1 DEF AutomationRows
    <2>4. CASE n >= MaxFailures
      <3>1. lease' = Released(r) /\ at' = [at EXCEPT ![r] = "down"]
        BY <1>6, <2>4 DEF ControlFails
      <3> QED BY <1>0, <2>1, <2>3, <3>1, LoopMoves, ReleasedLease DEF AutomationRows, LoopState
    <2>5. CASE ~(n >= MaxFailures)
      <3>1. lease' = lease /\ at' = [at EXCEPT ![r] = "waiting"]
        BY <1>6, <2>5 DEF ControlFails
      <3>2. n < MaxFailures
        BY <2>2, <2>5, AutomationAssumption
      <3> QED BY <1>0, <2>1, <2>3, <3>1, <3>2, LoopMoves DEF AutomationRows, LoopState
    <2> QED BY <2>4, <2>5
  <1>7. ASSUME NEW r \in Replicas, Stopped(r) \/ Crash(r) PROVE AutomationInv'
    <2>1. /\ at' = [at EXCEPT ![r] = "down"] /\ UNCHANGED <<failures, lapsed>>
          /\ lease' = lease \/ lease' = Released(r)
          /\ faults < MaxFaults /\ faults' = faults + 1
      BY <1>7 DEF Stopped, Crash
    <2>2. faults' \in 0 .. MaxFaults
      BY <1>0, <2>1, AutomationAssumption DEF AutomationRows
    <2> QED BY <1>0, <2>1, <2>2, LoopMoves, ReleasedLease DEF AutomationRows, LoopState
  <1>8. ASSUME OwnerPauses PROVE AutomationInv'
    <2>1. /\ lapsed' = lapsed \cup {r \in Replicas : lease.owner = r /\ at[r] = "tick"}
          /\ UNCHANGED <<at, failures>> /\ lease' = [lease EXCEPT !.live = FALSE]
          /\ faults < MaxFaults /\ faults' = faults + 1
      BY <1>8 DEF OwnerPauses
    <2>2. faults' \in 0 .. MaxFaults
      BY <1>0, <2>1, AutomationAssumption DEF AutomationRows
    <2>3. lease' \in AutomationLease /\ lease'.owner = lease.owner
      BY <1>0, <2>1 DEF AutomationRows, AutomationLease
    <2> QED BY <1>0, <2>1, <2>2, <2>3 DEF AutomationInv, AutomationRows, FailuresBounded,
               TickOwns, Owns
  <1>9. ASSUME LeaseRunsOut PROVE AutomationInv'
    <2>1. /\ lease' = [lease EXCEPT !.live = FALSE]
          /\ lease.owner = Gone \/ (lease.owner \in Replicas /\ at[lease.owner] = "down")
          /\ UNCHANGED <<at, failures, faults, lapsed>>
      BY <1>9 DEF LeaseRunsOut
    <2>2. lease' \in AutomationLease
      BY <1>0, <2>1 DEF AutomationRows, AutomationLease
    <2>3. \A r \in Replicas : at[r] = "tick" => lease.owner # r
      BY <2>1, AutomationAssumption
    <2> QED BY <1>0, <2>1, <2>2, <2>3 DEF AutomationInv, AutomationRows, FailuresBounded,
               TickOwns, Owns
  <1>10. ASSUME Produce PROVE AutomationInv'
    BY <1>0, <1>10 DEF Produce, autoVars, AutomationInv, AutomationRows, FailuresBounded,
       TickOwns, Owns
  <1> QED BY <1>1, <1>2, <1>3, <1>4, <1>5, <1>6, <1>7, <1>8, <1>9, <1>10
             DEF AutomationNext, LoopStep

\* The invariant of the loop's lease holds in every reachable state.
THEOREM AutomationInvariant == Spec => []AutomationInv
  <1>1. Init => AutomationInv
    BY AutomationAssumption DEF Init, AutomationInit, AutomationInv, AutomationRows,
       FailuresBounded, TickOwns, AutomationLease, FreeLease, LoopState
  <1>2. AutomationInv /\ [Next]_vars => AutomationInv'
    <2>1. AutomationInv /\ UNCHANGED automationVars => AutomationInv'
      BY DEF automationVars, autoVars, AutomationInv, AutomationRows, FailuresBounded,
         TickOwns, Owns
    <2> QED BY <2>1, AutomationStep DEF Next, vars
  <1> QED BY <1>1, <1>2, PTL DEF Spec

\* Two replicas are in a tick of the loop only if the lease of one of them
\* expired during its tick (try_claim_automation_loop,
\* release_owned_automation_loops).
THEOREM OverlapOnlyAfterLapse == Spec => []OverlapNeedsLapse
  <1>1. AutomationInv => OverlapNeedsLapse
    BY DEF AutomationInv, TickOwns, Owns, OverlapNeedsLapse
  <1> QED BY <1>1, AutomationInvariant, PTL

-----------------------------------------------------------------------------
(* The relay: what a transaction writes *)

SeenCheckpoint == [row : BOOLEAN, last : Nat]

(* What a transaction has to write (Dispatched).                           *)
Writes == [events : Seq(OutboxEvent), checkpoint : SeenCheckpoint, applied : Seq(Nat),
           dead : SUBSET Nat]

(* The checkpoint is at an event that was applied.                         *)
KnownLast(chk, app) == chk.last = 0 \/ \E j \in DOMAIN app : app[j] = chk.last

(* What EventsAppliedOnce and DispatchedOrOvertaken say, and what they     *)
(* rest on: an applied event is not pending, and the checkpoint was        *)
(* applied.                                                                *)
Sound(evs, chk, app, dd) ==
  /\ \A i, j \in DOMAIN app : app[i] = app[j] => i = j
  /\ \A j \in DOMAIN app : app[j] \in DOMAIN evs /\ evs[app[j]].status = "dispatched"
  /\ \A i \in DOMAIN evs :
       /\ evs[i].status = "pending" => evs[i].attempts < MaxDeliveryAttempts
       /\ evs[i].status = "dispatched" /\ evs[i].handled => \E j \in DOMAIN app : app[j] >= i
       /\ evs[i].status = "poison" => i \in dd
  /\ dd \subseteq DOMAIN evs
  /\ KnownLast(chk, app)

(* The event has been tried: it is settled, or has one more attempt.       *)
Tried(e, f) == f.status # "pending" \/ f.attempts = e.attempts + 1

(* Events that were applied stay so.                                       *)
Grows(app, new) == \A j \in DOMAIN app : j \in DOMAIN new /\ new[j] = app[j]

SoundWrites(w) == w \in Writes /\ Sound(w.events, w.checkpoint, w.applied, w.dead)

(* The pending event i changes; it may be applied, and then it is          *)
(* dispatched.                                                             *)
OneEventChanges(i, evs, app, dd, evs2, chk2, app2, dd2) ==
  /\ evs \in Seq(OutboxEvent) /\ evs2 \in Seq(OutboxEvent) /\ app \in Seq(Nat)
  /\ i \in DOMAIN evs /\ evs[i].status = "pending"
  /\ DOMAIN evs2 = DOMAIN evs
  /\ \A k \in DOMAIN evs : k # i => evs2[k] = evs[k]
  /\ dd \subseteq dd2 /\ dd2 \subseteq dd \cup {i}
  /\ \/ app2 = app
     \/ app2 = Append(app, i) /\ evs2[i].status = "dispatched"
  /\ evs2[i].status = "pending" => evs2[i].attempts < MaxDeliveryAttempts
  /\ evs2[i].status = "dispatched" /\ evs2[i].handled => \E j \in DOMAIN app2 : app2[j] >= i
  /\ evs2[i].status = "poison" => i \in dd2
  /\ KnownLast(chk2, app2)

\* Such a change leaves the outbox sound, and what was applied stays applied.
LEMMA OneEventSound ==
  ASSUME NEW i, NEW evs, NEW chk, NEW app, NEW dd, Sound(evs, chk, app, dd),
         NEW evs2, NEW chk2, NEW app2, NEW dd2,
         OneEventChanges(i, evs, app, dd, evs2, chk2, app2, dd2)
  PROVE  Sound(evs2, chk2, app2, dd2) /\ Grows(app, app2)
  <1> USE DEF OneEventChanges
  <1>1. Grows(app, app2)
    <2>1. CASE app2 = app
      BY <2>1 DEF Grows
    <2>2. CASE app2 = Append(app, i)
      BY <2>2 DEF Grows
    <2> QED BY <2>1, <2>2
  <1>2. \A j \in DOMAIN app : app[j] # i
    BY DEF Sound
  <1>3. \A j \in DOMAIN app2 : j \notin DOMAIN app => app2[j] = i
    OBVIOUS
  <1>4. \A j, k \in DOMAIN app2 : j \notin DOMAIN app /\ k \notin DOMAIN app => j = k
    OBVIOUS
  <1>5. \A j, k \in DOMAIN app2 : app2[j] = app2[k] => j = k
    BY <1>1, <1>2, <1>3, <1>4 DEF Sound, Grows
  <1>6. \A j \in DOMAIN app2 : app2[j] \in DOMAIN evs2 /\ evs2[app2[j]].status = "dispatched"
    <2> TAKE j \in DOMAIN app2
    <2>1. CASE j \in DOMAIN app
      BY <1>1, <1>2, <2>1 DEF Sound, Grows
    <2>2. CASE j \notin DOMAIN app
      BY <1>3, <2>2
    <2> QED BY <2>1, <2>2
  <1>7. ASSUME NEW k \in DOMAIN evs2
        PROVE  /\ evs2[k].status = "pending" => evs2[k].attempts < MaxDeliveryAttempts
               /\ evs2[k].status = "dispatched" /\ evs2[k].handled
                    => \E j \in DOMAIN app2 : app2[j] >= k
               /\ evs2[k].status = "poison" => k \in dd2
    <2>1. CASE k = i
      BY <2>1
    <2>2. CASE k # i
      BY <1>1, <2>2 DEF Sound, Grows
    <2> QED BY <2>1, <2>2
  <1>8. dd2 \subseteq DOMAIN evs2
    BY DEF Sound
  <1> QED BY <1>1, <1>5, <1>6, <1>7, <1>8 DEF Sound

\* An attempt that failed is counted, and the event stays pending below the
\* limit only.
LEMMA FailedDeliveryIs ==
  ASSUME NEW e \in OutboxEvent, e.attempts < MaxDeliveryAttempts
  PROVE  LET x == FailedDelivery(e)
         IN  /\ x \in OutboxEvent /\ x.status \in {"pending", "poison"}
             /\ x.status = "pending" => x.attempts < MaxDeliveryAttempts
             /\ x.attempts = e.attempts + 1
  <1> DEFINE n == e.attempts + 1
             st == IF n >= MaxDeliveryAttempts THEN "poison" ELSE "pending"
             x == [e EXCEPT !.attempts = n, !.status = st]
  <1>1. n \in 0 .. MaxDeliveryAttempts
    BY RelayAssumption DEF OutboxEvent
  <1>2. st \in {"pending", "poison"} /\ (st = "pending" => n < MaxDeliveryAttempts)
    BY <1>1, RelayAssumption
  <1>3. FailedDelivery(e) = x
    BY DEF FailedDelivery
  <1> HIDE DEF n, st
  <1>4. x \in OutboxEvent /\ x.status = st /\ x.attempts = n
    BY <1>1, <1>2 DEF OutboxEvent
  <1>5. n = e.attempts + 1
    BY DEF n
  <1> QED BY <1>2, <1>3, <1>4, <1>5

\* dispatch_one, whatever it comes to, leaves the outbox sound, settles the
\* event or counts the attempt, and touches no other event.
LEMMA DispatchOneSound ==
  ASSUME NEW w, SoundWrites(w), NEW i \in DOMAIN w.events, i \in Nat \ {0},
         w.events[i].status = "pending", NEW raises
  PROVE  LET v == DispatchOne(w, i, raises)
         IN  /\ SoundWrites(v) /\ DOMAIN v.events = DOMAIN w.events
             /\ \A k \in DOMAIN w.events : k # i => v.events[k] = w.events[k]
             /\ Grows(w.applied, v.applied) /\ Tried(w.events[i], v.events[i])
  <1> DEFINE e == w.events[i]
             marked == [e EXCEPT !.status = "dispatched"]
             failed == FailedDelivery(e)
             v == DispatchOne(w, i, raises)
  <1>1. /\ w \in Writes /\ w.events \in Seq(OutboxEvent) /\ w.checkpoint \in SeenCheckpoint
        /\ w.applied \in Seq(Nat) /\ w.dead \in SUBSET Nat
        /\ Sound(w.events, w.checkpoint, w.applied, w.dead)
    BY DEF SoundWrites, Writes
  <1>2. e \in OutboxEvent /\ e.attempts < MaxDeliveryAttempts
    BY <1>1 DEF Sound
  <1>3. marked \in OutboxEvent /\ marked.status = "dispatched" /\ marked.handled = e.handled
    BY <1>2 DEF OutboxEvent
  <1>4. /\ failed \in OutboxEvent /\ failed.status \in {"pending", "poison"}
        /\ failed.status = "pending" => failed.attempts < MaxDeliveryAttempts
        /\ failed.attempts = e.attempts + 1
    <2> HIDE DEF e
    <2> QED BY <1>2, FailedDeliveryIs
  <1>5. ASSUME NEW x \in OutboxEvent
        PROVE  /\ [w.events EXCEPT ![i] = x] \in Seq(OutboxEvent)
               /\ DOMAIN [w.events EXCEPT ![i] = x] = DOMAIN w.events
               /\ [w.events EXCEPT ![i] = x][i] = x
               /\ \A k \in DOMAIN w.events : k # i => [w.events EXCEPT ![i] = x][k] = w.events[k]
    BY <1>1
  <1> DEFINE passed == [w.events EXCEPT ![i] = marked]
             counted == [w.events EXCEPT ![i] = failed]
  <1>6. CASE ~e.handled \/ w.checkpoint.last >= i
    <2>1. v = [w EXCEPT !.events = passed]
      BY <1>1, <1>6 DEF DispatchOne, Writes
    <2>2. /\ v.events = passed /\ v.checkpoint = w.checkpoint /\ v.applied = w.applied
          /\ v.dead = w.dead /\ v \in Writes
      <3>1. passed \in Seq(OutboxEvent)
        BY <1>3, <1>5
      <3> HIDE DEF passed, v
      <3> QED BY <1>1, <2>1, <3>1 DEF Writes
    <2>3. marked.handled => \E j \in DOMAIN w.applied : w.applied[j] >= i
      BY <1>1, <1>3, <1>6 DEF Sound, KnownLast, SeenCheckpoint
    <2> HIDE DEF e, marked, failed, v
    <2>4. Sound(passed, w.checkpoint, w.applied, w.dead) /\ Grows(w.applied, w.applied)
      <3>1. KnownLast(w.checkpoint, w.applied)
        BY <1>1 DEF Sound
      <3> DEFINE evs2 == passed
      <3>2. /\ evs2 \in Seq(OutboxEvent) /\ DOMAIN evs2 = DOMAIN w.events /\ evs2[i] = marked
            /\ \A k \in DOMAIN w.events : k # i => evs2[k] = w.events[k]
        BY <1>3, <1>5
      <3> HIDE DEF evs2
      <3>4. /\ evs2[i].status = "dispatched"
            /\ evs2[i].handled => \E j \in DOMAIN w.applied : w.applied[j] >= i
            /\ w.events[i].status = "pending"
        BY <1>3, <2>3, <3>2
      <3>5. OneEventChanges(i, w.events, w.applied, w.dead, evs2, w.checkpoint, w.applied, w.dead)
        BY <1>1, <3>1, <3>2, <3>4 DEF OneEventChanges
      <3>3. Sound(evs2, w.checkpoint, w.applied, w.dead) /\ Grows(w.applied, w.applied)
        BY <1>1, <3>5, OneEventSound
      <3> QED BY <3>3 DEF evs2
    <2>5. SoundWrites(v)
      BY <2>2, <2>4 DEF SoundWrites
    <2>6. Grows(w.applied, v.applied) /\ DOMAIN v.events = DOMAIN w.events
          /\ \A k \in DOMAIN w.events : k # i => v.events[k] = w.events[k]
      BY <1>3, <1>5, <2>2, <2>4
    <2>7. Tried(w.events[i], v.events[i])
      BY <1>3, <1>5, <2>2 DEF Tried
    <2> QED BY <2>5, <2>6, <2>7 DEF v
  <1>7. CASE e.handled /\ ~(w.checkpoint.last >= i) /\ i \in raises
    <2> DEFINE chk == [w.checkpoint EXCEPT !.row = TRUE]
               dd == IF failed.status = "poison" THEN w.dead \cup {i} ELSE w.dead
    <2>1. v = [events |-> counted, checkpoint |-> chk, applied |-> w.applied, dead |-> dd]
      BY <1>1, <1>7 DEF DispatchOne, Writes
    <2>2. chk \in SeenCheckpoint /\ chk.last = w.checkpoint.last
      BY <1>1 DEF SeenCheckpoint
    <2>3. /\ dd \in SUBSET Nat /\ w.dead \subseteq dd /\ dd \subseteq w.dead \cup {i}
          /\ failed.status = "poison" => i \in dd
      BY <1>1
    <2>4. KnownLast(chk, w.applied)
      BY <1>1, <2>2 DEF Sound, KnownLast
    <2> DEFINE evs2 == counted
    <2>5. /\ evs2 \in Seq(OutboxEvent) /\ DOMAIN evs2 = DOMAIN w.events /\ evs2[i] = failed
          /\ \A k \in DOMAIN w.events : k # i => evs2[k] = w.events[k]
      BY <1>4, <1>5
    <2>6. /\ v.events = evs2 /\ v.checkpoint = chk /\ v.applied = w.applied /\ v.dead = dd
          /\ v \in Writes
      <3> HIDE DEF evs2, chk, dd, v
      <3>1. v = [events |-> evs2, checkpoint |-> chk, applied |-> w.applied, dead |-> dd]
        BY <2>1 DEF evs2
      <3> QED BY <1>1, <2>2, <2>3, <2>5, <3>1 DEF Writes
    <2> HIDE DEF e, marked, failed, v, evs2, chk, dd
    <2>7. Sound(evs2, chk, w.applied, dd) /\ Grows(w.applied, w.applied)
      <3>1. /\ evs2[i].status \in {"pending", "poison"}
            /\ evs2[i].status = "pending" => evs2[i].attempts < MaxDeliveryAttempts
            /\ evs2[i].status = "poison" => i \in dd
            /\ w.events[i].status = "pending"
        BY <1>4, <2>3, <2>5
      <3>2. OneEventChanges(i, w.events, w.applied, w.dead, evs2, chk, w.applied, dd)
        BY <1>1, <2>3, <2>4, <2>5, <3>1 DEF OneEventChanges
      <3> QED BY <1>1, <3>2, OneEventSound
    <2>8. SoundWrites(v)
      BY <2>6, <2>7 DEF SoundWrites
    <2>9. Grows(w.applied, v.applied) /\ DOMAIN v.events = DOMAIN w.events
          /\ \A k \in DOMAIN w.events : k # i => v.events[k] = w.events[k]
      BY <2>5, <2>6, <2>7
    <2>10. Tried(w.events[i], v.events[i])
      BY <1>4, <2>5, <2>6 DEF Tried, e
    <2> QED BY <2>8, <2>9, <2>10 DEF v
  <1>8. CASE e.handled /\ ~(w.checkpoint.last >= i) /\ i \notin raises
    <2> DEFINE chk == [row |-> TRUE, last |-> i]
               app == Append(w.applied, i)
    <2>1. v = [events |-> passed, checkpoint |-> chk, applied |-> app, dead |-> w.dead]
      BY <1>1, <1>8 DEF DispatchOne, Writes, SeenCheckpoint
    <2>2. chk \in SeenCheckpoint /\ chk.last = i
      BY DEF SeenCheckpoint
    <2>3. app \in Seq(Nat) /\ \E j \in DOMAIN app : app[j] = i
      <3>1. Len(w.applied) + 1 \in DOMAIN app /\ app[Len(w.applied) + 1] = i
        BY <1>1
      <3> QED BY <1>1, <3>1
    <2>4. KnownLast(chk, app) /\ \E j \in DOMAIN app : app[j] >= i
      BY <2>2, <2>3 DEF KnownLast
    <2> DEFINE evs2 == passed
    <2>5. /\ evs2 \in Seq(OutboxEvent) /\ DOMAIN evs2 = DOMAIN w.events /\ evs2[i] = marked
          /\ \A k \in DOMAIN w.events : k # i => evs2[k] = w.events[k]
      BY <1>3, <1>5
    <2>6. /\ v.events = evs2 /\ v.checkpoint = chk /\ v.applied = app /\ v.dead = w.dead
          /\ v \in Writes
      <3> HIDE DEF evs2, chk, app, v
      <3>1. v = [events |-> evs2, checkpoint |-> chk, applied |-> app, dead |-> w.dead]
        BY <2>1 DEF evs2
      <3> QED BY <1>1, <2>2, <2>3, <2>5, <3>1 DEF Writes
    <2>10. app = Append(w.applied, i)
      OBVIOUS
    <2> HIDE DEF e, marked, failed, v, evs2, chk, app
    <2>7. Sound(evs2, chk, app, w.dead) /\ Grows(w.applied, app)
      <3>1. /\ evs2[i].status = "dispatched"
            /\ w.events[i].status = "pending"
        BY <1>3, <2>5
      <3>2. OneEventChanges(i, w.events, w.applied, w.dead, evs2, chk, app, w.dead)
        BY <1>1, <2>4, <2>5, <2>10, <3>1 DEF OneEventChanges
      <3> QED BY <1>1, <3>2, OneEventSound
    <2>8. SoundWrites(v)
      BY <2>6, <2>7 DEF SoundWrites
    <2>9. Grows(w.applied, v.applied) /\ DOMAIN v.events = DOMAIN w.events
          /\ \A k \in DOMAIN w.events : k # i => v.events[k] = w.events[k]
      BY <2>5, <2>6, <2>7
    <2>11. Tried(w.events[i], v.events[i])
      BY <1>3, <2>5, <2>6 DEF Tried
    <2> QED BY <2>8, <2>9, <2>11 DEF v
  <1> QED BY <1>6, <1>7, <1>8

-----------------------------------------------------------------------------
(* The relay: a batch, event by event *)

(* f has what a transaction has to write after each prefix of its batch.   *)
PrefixWrites(start, batch, raises, m, f) ==
  f = [n \in 0 .. m |-> IF n = 0 THEN start ELSE DispatchOne(f[n - 1], batch[n], raises)]

(* A batch that may be locked: different pending events.                   *)
Lockable(evs, batch) ==
  /\ batch \in Seq(Nat \ {0})
  /\ \A m, n \in DOMAIN batch : batch[m] = batch[n] => m = n
  /\ \A n \in DOMAIN batch : batch[n] \in DOMAIN evs /\ evs[batch[n]].status = "pending"

(* v is sound and differs from start in the first n events of the batch,   *)
(* each of which has been tried.                                           *)
Reached(start, batch, n, v) ==
  /\ SoundWrites(v) /\ DOMAIN v.events = DOMAIN start.events
  /\ \A k \in DOMAIN start.events :
       (\A j \in 1 .. n : batch[j] # k) => v.events[k] = start.events[k]
  /\ \A j \in 1 .. n : Tried(start.events[batch[j]], v.events[batch[j]])
  /\ Grows(start.applied, v.applied)

\* Of some natural numbers one is the smallest.
LEMMA SmallestNumber ==
  ASSUME NEW B, B \subseteq Nat, B # {}
  PROVE  \E n \in B : \A m \in B : n <= m
  <1>1. PICK b \in B : TRUE
    OBVIOUS
  <1>2. b \in Nat
    BY <1>1
  <1> DEFINE below == {n \in B : n <= b}
             C == {0 .. n : n \in below}
  <1>3. IsFiniteSet(0 .. b)
    BY <1>2, FS_Interval
  <1>4. C \subseteq SUBSET (0 .. b)
    BY <1>2
  <1>5. C # {}
    BY <1>1, <1>2
  <1>6. PICK T \in C : \A U \in C : U \subseteq T => U = T
    <2> DEFINE S == 0 .. b
    <2>1. IsFiniteSet(S) /\ C \subseteq SUBSET S
      BY <1>3, <1>4
    <2> HIDE DEF C, S
    <2> QED BY <2>1, <1>5, SmallestSet
  <1>7. PICK n \in below : T = 0 .. n
    OBVIOUS
  <1>8. n \in Nat /\ n \in B /\ n <= b
    BY <1>7
  <1>9. ASSUME NEW m \in B PROVE n <= m
    <2>1. SUFFICES ASSUME m < n PROVE FALSE
      BY <1>8
    <2>2. m \in Nat /\ m \in below
      BY <1>2, <1>8, <2>1
    <2>3. 0 .. m \in C /\ 0 .. m \subseteq 0 .. n
      BY <1>8, <2>1, <2>2
    <2>4. 0 .. m = 0 .. n
      <3> HIDE DEF C
      <3> QED BY <1>6, <1>7, <2>3
    <2>5. n \in 0 .. n /\ n \notin 0 .. m
      BY <1>8, <2>1, <2>2
    <2> QED BY <2>4, <2>5
  <1> QED BY <1>8, <1>9

\* The recursion over a batch has a solution for every length.
LEMMA PrefixesExist ==
  ASSUME NEW start, NEW batch, NEW raises, NEW m \in Nat
  PROVE  \E f : PrefixWrites(start, batch, raises, m, f)
  <1> DEFINE B == {k \in Nat : ~ \E f : PrefixWrites(start, batch, raises, k, f)}
  <1>1. SUFFICES ASSUME B # {} PROVE FALSE
    OBVIOUS
  <1>2. PICK k \in B : \A l \in B : k <= l
    <2>1. B \subseteq Nat
      OBVIOUS
    <2> HIDE DEF B
    <2> QED BY <1>1, <2>1, SmallestNumber
  <1>3. k \in Nat /\ ~ \E f : PrefixWrites(start, batch, raises, k, f)
    OBVIOUS
  <1>4. CASE k = 0
    <2> DEFINE f == [n \in 0 .. 0 |-> start]
    <2>1. PrefixWrites(start, batch, raises, k, f)
      BY <1>4 DEF PrefixWrites
    <2> QED BY <1>3, <2>1
  <1>5. CASE k # 0
    <2>1. k - 1 \in Nat /\ k - 1 \notin B
      BY <1>2, <1>3, <1>5
    <2>2. PICK g : PrefixWrites(start, batch, raises, k - 1, g)
      BY <2>1
    <2> DEFINE last == DispatchOne(g[k - 1], batch[k], raises)
               f == [n \in 0 .. k |-> IF n = k THEN last ELSE g[n]]
    <2>3. \A n \in 0 .. k - 1 :
            g[n] = IF n = 0 THEN start ELSE DispatchOne(g[n - 1], batch[n], raises)
      BY <2>2 DEF PrefixWrites
    <2>4. f[k] = last /\ \A n \in 0 .. k - 1 : f[n] = g[n]
      <3> HIDE DEF last
      <3> QED BY <1>3
    <2>5. ASSUME NEW n \in 0 .. k
          PROVE  f[n] = IF n = 0 THEN start ELSE DispatchOne(f[n - 1], batch[n], raises)
      <3> HIDE DEF f
      <3>1. CASE n = k
        <4>1. f[n - 1] = g[k - 1] /\ n # 0
          BY <1>3, <1>5, <2>4, <3>1
        <4> QED BY <2>4, <3>1, <4>1
      <3>2. CASE n # k
        <4>1. n \in 0 .. k - 1 /\ (n # 0 => n - 1 \in 0 .. k - 1)
          BY <1>3, <3>2
        <4>2. f[n] = g[n] /\ (n # 0 => f[n - 1] = g[n - 1])
          BY <2>4, <4>1
        <4> QED BY <2>3, <4>1, <4>2
      <3> QED BY <3>1, <3>2
    <2>6. f = [n \in 0 .. k |-> f[n]]
      OBVIOUS
    <2> HIDE DEF f
    <2>7. PrefixWrites(start, batch, raises, k, f)
      BY <2>5, <2>6 DEF PrefixWrites
    <2> QED BY <1>3, <2>7
  <1> QED BY <1>4, <1>5

\* Every prefix of a batch leaves the outbox sound and the other events alone.
LEMMA PrefixReached ==
  ASSUME NEW start, SoundWrites(start), NEW batch, Lockable(start.events, batch),
         NEW raises, NEW f, PrefixWrites(start, batch, raises, Len(batch), f),
         NEW m \in 0 .. Len(batch)
  PROVE  Reached(start, batch, m, f[m])
  <1> DEFINE B == {k \in 0 .. Len(batch) : ~ Reached(start, batch, k, f[k])}
  <1>0. Len(batch) \in Nat /\ DOMAIN batch = 1 .. Len(batch) /\ batch \in Seq(Nat \ {0})
    BY DEF Lockable
  <1>1. SUFFICES ASSUME B # {} PROVE FALSE
    OBVIOUS
  <1>2. PICK k \in B : \A l \in B : k <= l
    <2>1. B \subseteq Nat
      BY <1>0
    <2> HIDE DEF B
    <2> QED BY <1>1, <2>1, SmallestNumber
  <1>3. k \in 0 .. Len(batch) /\ ~ Reached(start, batch, k, f[k])
    OBVIOUS
  <1>4. f[k] = IF k = 0 THEN start ELSE DispatchOne(f[k - 1], batch[k], raises)
    BY <1>3 DEF PrefixWrites
  <1>5. k # 0
    <2>1. Grows(start.applied, start.applied)
      BY DEF Grows
    <2>2. Reached(start, batch, 0, start)
      BY <2>1 DEF Reached
    <2> QED BY <1>3, <1>4, <2>2
  <1>6. k - 1 \in 0 .. Len(batch) /\ k - 1 \notin B /\ k \in DOMAIN batch /\ k \in Nat
    BY <1>0, <1>2, <1>3, <1>5
  <1>7. Reached(start, batch, k - 1, f[k - 1])
    BY <1>6
  <1> DEFINE w == f[k - 1]
             i == batch[k]
             v == DispatchOne(w, i, raises)
  <1>8. /\ i \in Nat \ {0} /\ i \in DOMAIN start.events /\ start.events[i].status = "pending"
        /\ \A j \in 1 .. k - 1 : batch[j] # i
    BY <1>0, <1>6 DEF Lockable
  <1>9. f[k] = v
    BY <1>4, <1>5
  <1>10. Reached(start, batch, k - 1, w)
    BY <1>7
  <1> HIDE DEF w, i
  <1>11. /\ SoundWrites(w) /\ i \in DOMAIN w.events /\ w.events[i].status = "pending"
    BY <1>8, <1>10 DEF Reached
  <1>12. /\ SoundWrites(v) /\ DOMAIN v.events = DOMAIN w.events
         /\ \A x \in DOMAIN w.events : x # i => v.events[x] = w.events[x]
         /\ Grows(w.applied, v.applied) /\ Tried(w.events[i], v.events[i])
    BY <1>8, <1>11, DispatchOneSound
  <1> HIDE DEF v
  <1>13. Grows(start.applied, v.applied)
    BY <1>10, <1>12 DEF Reached, Grows
  <1>14. ASSUME NEW x \in DOMAIN start.events, \A j \in 1 .. k : batch[j] # x
         PROVE  v.events[x] = start.events[x]
    <2>1. x # i /\ \A j \in 1 .. k - 1 : batch[j] # x
      BY <1>6, <1>14, <1>5 DEF i
    <2> QED BY <1>10, <1>12, <2>1 DEF Reached
  <1>15. ASSUME NEW j \in 1 .. k PROVE Tried(start.events[batch[j]], v.events[batch[j]])
    <2>1. CASE j = k
      <3>1. w.events[i] = start.events[i] /\ batch[j] = i
        BY <1>8, <1>10, <2>1 DEF Reached, i
      <3> QED BY <1>12, <3>1
    <2>2. CASE j # k
      <3>1. j \in 1 .. k - 1 /\ j \in DOMAIN batch
        BY <1>0, <1>3, <1>6, <2>2
      <3>2. batch[j] # i /\ batch[j] \in DOMAIN start.events
        BY <1>8, <3>1 DEF Lockable
      <3>3. v.events[batch[j]] = w.events[batch[j]]
        BY <1>10, <1>12, <3>2 DEF Reached
      <3> QED BY <1>10, <3>1, <3>3 DEF Reached
    <2> QED BY <2>1, <2>2
  <1>16. Reached(start, batch, k, v)
    BY <1>10, <1>12, <1>13, <1>14, <1>15 DEF Reached
  <1> QED BY <1>3, <1>9, <1>16

(* What a transaction begins with.                                         *)
Start(evs, seen) == [events |-> evs, checkpoint |-> seen, applied |-> applied, dead |-> dead]

\* A transaction that dispatches a batch it may lock ends with a sound outbox,
\* whichever handlers raise, and changes only the events of its batch.
LEMMA DispatchedReached ==
  ASSUME NEW evs, NEW batch, NEW seen, NEW raises,
         SoundWrites(Start(evs, seen)), Lockable(evs, batch)
  PROVE  Reached(Start(evs, seen), batch, Len(batch), Dispatched(evs, batch, seen, raises))
  <1> DEFINE start == Start(evs, seen)
             f == CHOOSE g : PrefixWrites(start, batch, raises, Len(batch), g)
  <1>1. Len(batch) \in Nat
    BY DEF Lockable
  <1>2. Dispatched(evs, batch, seen, raises) = f[Len(batch)]
    BY DEF Dispatched, PrefixWrites, Start
  <1>3. start.events = evs
    BY DEF Start
  <1> HIDE DEF start
  <1>4. PrefixWrites(start, batch, raises, Len(batch), f)
    BY <1>1, PrefixesExist
  <1>5. SoundWrites(start) /\ Lockable(start.events, batch)
    BY <1>3 DEF start
  <1> HIDE DEF f
  <1>6. Len(batch) \in 0 .. Len(batch)
    BY <1>1
  <1>7. Reached(start, batch, Len(batch), f[Len(batch)])
    BY <1>4, <1>5, <1>6, PrefixReached
  <1> QED BY <1>2, <1>7 DEF start

-----------------------------------------------------------------------------
(* The relay: the ticks *)

RelayTick == [open : BOOLEAN, batch : Seq(Nat \ {0}), read : BOOLEAN,
              seen : SeenCheckpoint, raises : SUBSET Nat]

OutboxOK(evs, chk, app, dd) ==
  /\ evs \in Seq(OutboxEvent) /\ chk \in SeenCheckpoint /\ app \in Seq(Nat)
  /\ dd \in SUBSET Nat
  /\ Sound(evs, chk, app, dd)

(* No event is in two batches.                                             *)
Disjoint(b, c) == \A m \in DOMAIN b, n \in DOMAIN c : b[m] # c[n]

(* The events that ticks have locked are pending, each locked by one tick, *)
(* and the checkpoint a tick has read was applied.                         *)
TickLocks(evs, app, t) ==
  /\ t \in [Replicas -> RelayTick]
  /\ \A r \in Replicas : Lockable(evs, t[r].batch) /\ KnownLast(t[r].seen, app)
  /\ \A r, q \in Replicas : r # q => Disjoint(t[r].batch, t[q].batch)

RelayInv ==
  /\ OutboxOK(events, checkpoint, applied, dead)
  /\ TickLocks(events, applied, tx)

(* The outbox and the batches are within their bounds.                     *)
RelayBounds ==
  /\ Len(events) <= MaxEvents
  /\ \A r \in Replicas : Len(tx[r].batch) <= BatchSize

\* A replica that is in no tick has locked nothing and read nothing.
LEMMA NoTickHoldsNothing ==
  ASSUME NEW evs, NEW app
  PROVE  /\ NoTick \in RelayTick /\ NoTick.batch = <<>>
         /\ Lockable(evs, NoTick.batch) /\ KnownLast(NoTick.seen, app)
  <1>1. NoTick \in RelayTick /\ NoTick.batch = <<>> /\ NoTick.seen.last = 0
    <2>1. [row |-> FALSE, last |-> 0] \in SeenCheckpoint
      BY DEF SeenCheckpoint
    <2>2. <<>> \in Seq(Nat \ {0}) /\ {} \in SUBSET Nat
      OBVIOUS
    <2> QED BY <2>1, <2>2 DEF NoTick, RelayTick
  <1>2. Lockable(evs, <<>>)
    BY DEF Lockable
  <1> QED BY <1>1, <1>2 DEF KnownLast

(* A tick stays as it is and its events stay pending, or it is over.       *)
TickKept(evs2, x, y) ==
  \/ y = NoTick
  \/ /\ y = x
     /\ \A n \in DOMAIN x.batch : x.batch[n] \in DOMAIN evs2 /\ evs2[x.batch[n]].status = "pending"

\* Then the locks are as they were, or fewer.
LEMMA LocksKept ==
  ASSUME NEW evs, NEW app, NEW t, TickLocks(evs, app, t), NEW evs2, NEW app2, NEW t2,
         t2 \in [Replicas -> RelayTick], Grows(app, app2),
         \A q \in Replicas : TickKept(evs2, t[q], t2[q])
  PROVE  TickLocks(evs2, app2, t2)
  <1>1. ASSUME NEW q \in Replicas
        PROVE  Lockable(evs2, t2[q].batch) /\ KnownLast(t2[q].seen, app2)
    <2>1. CASE t2[q] = NoTick
      BY <2>1, NoTickHoldsNothing
    <2>2. CASE t2[q] # NoTick
      <3>1. /\ t2[q] = t[q]
            /\ \A n \in DOMAIN t[q].batch : t[q].batch[n] \in DOMAIN evs2
                                            /\ evs2[t[q].batch[n]].status = "pending"
        BY <2>2 DEF TickKept
      <3>2. Lockable(evs, t[q].batch) /\ KnownLast(t[q].seen, app)
        BY DEF TickLocks
      <3>3. Lockable(evs2, t[q].batch)
        BY <3>1, <3>2 DEF Lockable
      <3>4. KnownLast(t[q].seen, app2)
        BY <3>2 DEF KnownLast, Grows
      <3> QED BY <3>1, <3>3, <3>4
    <2> QED BY <2>1, <2>2
  <1>2. ASSUME NEW r \in Replicas, NEW q \in Replicas, r # q
        PROVE  Disjoint(t2[r].batch, t2[q].batch)
    <2>1. (t2[r].batch = <<>> \/ t2[r] = t[r]) /\ (t2[q].batch = <<>> \/ t2[q] = t[q])
      BY NoTickHoldsNothing DEF TickKept
    <2>2. Disjoint(t[r].batch, t[q].batch)
      BY <1>2 DEF TickLocks
    <2> QED BY <2>1, <2>2 DEF Disjoint
  <1> QED BY <1>1, <1>2 DEF TickLocks

\* The two forms of a sound outbox.
LEMMA OutboxWrites ==
  ASSUME NEW evs, NEW chk, NEW seen
  PROVE  /\ OutboxOK(evs, chk, applied, dead) /\ seen \in SeenCheckpoint /\ KnownLast(seen, applied)
              => SoundWrites(Start(evs, seen))
         /\ Start(evs, seen).events = evs /\ Start(evs, seen).applied = applied
  <1>1. Start(evs, seen).events = evs /\ Start(evs, seen).applied = applied
        /\ Start(evs, seen).checkpoint = seen /\ Start(evs, seen).dead = dead
    BY DEF Start
  <1>2. ASSUME OutboxOK(evs, chk, applied, dead), seen \in SeenCheckpoint, KnownLast(seen, applied)
        PROVE  SoundWrites(Start(evs, seen))
    <2>1. Start(evs, seen) \in Writes
      BY <1>2 DEF OutboxOK, Writes, Start
    <2>2. Sound(evs, seen, applied, dead)
      BY <1>2 DEF OutboxOK, Sound
    <2> QED BY <1>1, <2>1, <2>2 DEF SoundWrites
  <1> QED BY <1>1, <1>2

\* A new event is pending with no attempt, so the outbox stays sound.
LEMMA NewEventSound ==
  ASSUME NEW evs, NEW chk, NEW app, NEW dd, OutboxOK(evs, chk, app, dd), NEW h \in BOOLEAN
  PROVE  /\ OutboxOK(Append(evs, NewEvent(h)), chk, app, dd)
         /\ Append(evs, NewEvent(h))[Len(evs) + 1].status = "pending"
         /\ Len(evs) + 1 \in DOMAIN Append(evs, NewEvent(h)) /\ Len(evs) + 1 \notin DOMAIN evs
         /\ \A i \in DOMAIN evs : /\ i \in DOMAIN Append(evs, NewEvent(h))
                                  /\ Append(evs, NewEvent(h))[i] = evs[i]
  <1> DEFINE e == NewEvent(h)
             evs2 == Append(evs, e)
  <1>1. e \in OutboxEvent /\ e.status = "pending" /\ e.attempts = 0
    BY RelayAssumption DEF NewEvent, OutboxEvent
  <1>2. evs \in Seq(OutboxEvent) /\ Sound(evs, chk, app, dd)
    BY DEF OutboxOK
  <1> HIDE DEF e
  <1>3. /\ evs2 \in Seq(OutboxEvent) /\ Len(evs) + 1 \in DOMAIN evs2 /\ evs2[Len(evs) + 1] = e
        /\ Len(evs) + 1 \notin DOMAIN evs
        /\ \A i \in DOMAIN evs : i \in DOMAIN evs2 /\ evs2[i] = evs[i]
        /\ \A i \in DOMAIN evs2 : i \in DOMAIN evs \/ evs2[i] = e
    BY <1>1, <1>2
  <1> HIDE DEF evs2
  <1>4. 0 < MaxDeliveryAttempts
    BY RelayAssumption
  <1>5. Sound(evs2, chk, app, dd)
    BY <1>1, <1>2, <1>3, <1>4 DEF Sound
  <1>6. OutboxOK(evs2, chk, app, dd)
    BY <1>3, <1>5 DEF OutboxOK
  <1> QED BY <1>1, <1>3, <1>6 DEF evs2, e

\* What a transaction writes at its commit leaves the outbox sound, the
\* checkpoint it overwrites included.
LEMMA WrittenSound ==
  ASSUME OutboxOK(events, checkpoint, applied, dead), NEW seen, NEW w, SoundWrites(w),
         Grows(applied, w.applied), Written(seen, w)
  PROVE  OutboxOK(events, checkpoint, applied, dead)' /\ events' = w.events /\ applied' = w.applied
  <1>1. /\ events' = w.events /\ applied' = w.applied /\ dead' = w.dead
        /\ checkpoint' = checkpoint \/ checkpoint' = w.checkpoint
    BY DEF Written
  <1>2. /\ w.events \in Seq(OutboxEvent) /\ w.checkpoint \in SeenCheckpoint
        /\ w.applied \in Seq(Nat) /\ w.dead \in SUBSET Nat
        /\ Sound(w.events, w.checkpoint, w.applied, w.dead)
    BY DEF SoundWrites, Writes
  <1>3. checkpoint \in SeenCheckpoint /\ KnownLast(checkpoint, w.applied)
    BY DEF OutboxOK, Sound, KnownLast, Grows
  <1>4. checkpoint' \in SeenCheckpoint /\ KnownLast(checkpoint', w.applied)
    BY <1>1, <1>2, <1>3 DEF Sound
  <1>5. Sound(w.events, checkpoint', w.applied, w.dead)
    BY <1>2, <1>4 DEF Sound
  <1> QED BY <1>1, <1>2, <1>4, <1>5 DEF OutboxOK

\* A transaction that commits what it dispatched: the outbox stays sound, and
\* the events of its batch, which were tried, are the only ones that changed.
LEMMA CommitSound ==
  ASSUME OutboxOK(events, checkpoint, applied, dead),
         NEW evs, OutboxOK(evs, checkpoint, applied, dead), NEW batch, Lockable(evs, batch),
         NEW seen \in SeenCheckpoint, KnownLast(seen, applied), NEW raises,
         Written(seen, Dispatched(evs, batch, seen, raises))
  PROVE  /\ OutboxOK(events, checkpoint, applied, dead)'
         /\ Grows(applied, applied')
         /\ DOMAIN events' = DOMAIN evs
         /\ \A k \in DOMAIN evs : (\A j \in DOMAIN batch : batch[j] # k) => events'[k] = evs[k]
         /\ \A j \in DOMAIN batch : Tried(evs[batch[j]], events'[batch[j]])
  <1> DEFINE w == Dispatched(evs, batch, seen, raises)
  <1>1. SoundWrites(Start(evs, seen)) /\ Start(evs, seen).events = evs
        /\ Start(evs, seen).applied = applied
    BY OutboxWrites
  <1>2. Reached(Start(evs, seen), batch, Len(batch), w)
    BY <1>1, DispatchedReached
  <1>3. Written(seen, w)
    OBVIOUS
  <1> HIDE DEF w
  <1>4. SoundWrites(w) /\ Grows(applied, w.applied)
    BY <1>1, <1>2 DEF Reached
  <1>5. OutboxOK(events, checkpoint, applied, dead)' /\ events' = w.events /\ applied' = w.applied
    BY <1>3, <1>4, WrittenSound
  <1>6. DOMAIN batch = 1 .. Len(batch)
    BY DEF Lockable
  <1>7. /\ DOMAIN w.events = DOMAIN evs
        /\ \A k \in DOMAIN evs : (\A j \in 1 .. Len(batch) : batch[j] # k) => w.events[k] = evs[k]
        /\ \A j \in 1 .. Len(batch) : Tried(evs[batch[j]], w.events[batch[j]])
    BY <1>1, <1>2 DEF Reached
  <1> QED BY <1>4, <1>5, <1>6, <1>7

\* An event is emitted, and dispatched at once when it is a decision's.
LEMMA ProduceRelay ==
  ASSUME RelayInv, Produce
  PROVE  RelayInv'
  <1>1. /\ OutboxOK(events, checkpoint, applied, dead) /\ TickLocks(events, applied, tx)
        /\ events \in Seq(OutboxEvent) /\ tx \in [Replicas -> RelayTick]
    BY DEF RelayInv, OutboxOK, TickLocks
  <1>2. \A q \in Replicas : \A n \in DOMAIN tx[q].batch :
          tx[q].batch[n] \in DOMAIN events /\ events[tx[q].batch[n]].status = "pending"
    BY <1>1 DEF TickLocks, Lockable
  <1>3. ASSUME NEW h \in BOOLEAN, Emit(h) PROVE RelayInv'
    <2>1. events' = Append(events, NewEvent(h)) /\ UNCHANGED <<checkpoint, applied, dead, tx>>
      BY <1>3 DEF Emit
    <2>2. /\ OutboxOK(Append(events, NewEvent(h)), checkpoint, applied, dead)
          /\ \A i \in DOMAIN events : i \in DOMAIN Append(events, NewEvent(h))
                                      /\ Append(events, NewEvent(h))[i] = events[i]
      BY <1>1, NewEventSound
    <2>3. OutboxOK(events, checkpoint, applied, dead)'
      BY <2>1, <2>2
    <2>4. \A q \in Replicas : TickKept(events', tx[q], tx'[q])
      BY <1>2, <2>1, <2>2 DEF TickKept
    <2>5. Grows(applied, applied') /\ tx' \in [Replicas -> RelayTick]
      BY <1>1, <2>1 DEF Grows
    <2>6. TickLocks(events', applied', tx')
      BY <1>1, <2>4, <2>5, LocksKept
    <2> QED BY <2>3, <2>6 DEF RelayInv
  <1>4. ASSUME NEW raises \in BOOLEAN, EmitAndDispatch(raises) PROVE RelayInv'
    <2> DEFINE n == Len(events) + 1
               evs == Append(events, NewEvent(TRUE))
               rs == IF raises THEN {n} ELSE {}
    <2>1. Written(checkpoint, Dispatched(evs, <<n>>, checkpoint, rs)) /\ tx' = tx
      BY <1>4 DEF EmitAndDispatch
    <2>2. /\ OutboxOK(evs, checkpoint, applied, dead)
          /\ evs[n].status = "pending" /\ n \in DOMAIN evs /\ n \notin DOMAIN events
          /\ \A i \in DOMAIN events : i \in DOMAIN evs /\ evs[i] = events[i]
      BY <1>1, NewEventSound
    <2>3. n \in Nat \ {0}
      BY <1>1
    <2>4. checkpoint \in SeenCheckpoint /\ KnownLast(checkpoint, applied)
      BY <1>1 DEF OutboxOK, Sound
    <2> HIDE DEF n, evs, rs
    <2>5. Lockable(evs, <<n>>) /\ DOMAIN <<n>> = {1} /\ <<n>>[1] = n
      BY <2>2, <2>3 DEF Lockable
    <2>6. /\ OutboxOK(events, checkpoint, applied, dead)'
          /\ Grows(applied, applied')
          /\ DOMAIN events' = DOMAIN evs
          /\ \A k \in DOMAIN evs : (\A j \in DOMAIN <<n>> : <<n>>[j] # k) => events'[k] = evs[k]
      BY <1>1, <2>1, <2>2, <2>4, <2>5, CommitSound
    <2>7. \A i \in DOMAIN events : i \in DOMAIN events' /\ events'[i] = events[i]
      BY <2>2, <2>5, <2>6
    <2>8. \A q \in Replicas : TickKept(events', tx[q], tx'[q])
      BY <1>2, <2>1, <2>7 DEF TickKept
    <2>9. TickLocks(events', applied', tx')
      BY <1>1, <2>1, <2>6, <2>8, LocksKept
    <2> QED BY <2>6, <2>9 DEF RelayInv
  <1> QED BY <1>3, <1>4 DEF Produce

\* An emit adds one event to the outbox, dispatched at once or not.
LEMMA ProduceAddsOne ==
  ASSUME RelayInv, Produce
  PROVE  Len(events') = Len(events) + 1
  <1>1. OutboxOK(events, checkpoint, applied, dead) /\ events \in Seq(OutboxEvent)
    BY DEF RelayInv, OutboxOK
  <1>2. ASSUME NEW h \in BOOLEAN, Emit(h) PROVE Len(events') = Len(events) + 1
    <2> DEFINE e == NewEvent(h)
    <2>1. events' = Append(events, e)
      BY <1>2 DEF Emit
    <2> HIDE DEF e
    <2> QED BY <1>1, <2>1
  <1>3. ASSUME NEW raises \in BOOLEAN, EmitAndDispatch(raises)
        PROVE  Len(events') = Len(events) + 1
    <2> DEFINE n == Len(events) + 1
               e == NewEvent(TRUE)
               evs == Append(events, e)
               rs == IF raises THEN {n} ELSE {}
    <2>1. Written(checkpoint, Dispatched(evs, <<n>>, checkpoint, rs))
      BY <1>3 DEF EmitAndDispatch
    <2>2. OutboxOK(evs, checkpoint, applied, dead) /\ evs[n].status = "pending" /\ n \in DOMAIN evs
      BY <1>1, NewEventSound
    <2>3. n \in Nat \ {0}
      BY <1>1
    <2>4. checkpoint \in SeenCheckpoint /\ KnownLast(checkpoint, applied)
      BY <1>1 DEF OutboxOK, Sound
    <2> HIDE DEF e
    <2>5. Len(evs) = n
      BY <1>1
    <2> HIDE DEF n, evs, rs
    <2>6. Lockable(evs, <<n>>)
      BY <2>2, <2>3 DEF Lockable
    <2>7. OutboxOK(events, checkpoint, applied, dead)' /\ DOMAIN events' = DOMAIN evs
      BY <1>1, <2>1, <2>2, <2>4, <2>6, CommitSound
    <2>8. events' \in Seq(OutboxEvent) /\ evs \in Seq(OutboxEvent)
      BY <2>2, <2>7 DEF OutboxOK
    <2>9. Len(events') = Len(evs)
      BY <2>7, <2>8
    <2> QED BY <2>5, <2>9 DEF n
  <1> QED BY <1>2, <1>3 DEF Produce

\* A tick that is rolled back gives up its locks.
LEMMA RollbackRelay ==
  ASSUME RelayInv, NEW r \in Replicas, RollbackTick(r)
  PROVE  RelayInv'
  <1>1. /\ tx' = [tx EXCEPT ![r] = NoTick]
        /\ UNCHANGED <<events, checkpoint, applied, dead>>
    BY DEF RollbackTick
  <1>2. TickLocks(events, applied, tx) /\ tx \in [Replicas -> RelayTick]
    BY DEF RelayInv, TickLocks
  <1>3. tx' \in [Replicas -> RelayTick] /\ \A q \in Replicas : tx'[q] = NoTick \/ tx'[q] = tx[q]
    BY <1>1, <1>2, NoTickHoldsNothing
  <1>4. \A q \in Replicas : TickKept(events', tx[q], tx'[q])
    BY <1>1, <1>2, <1>3 DEF TickKept, TickLocks, Lockable
  <1>5. Grows(applied, applied')
    BY <1>1 DEF Grows
  <1>6. TickLocks(events', applied', tx')
    BY <1>2, <1>3, <1>4, <1>5, LocksKept
  <1> QED BY <1>1, <1>6 DEF RelayInv

\* A tick that commits dispatched events that no other tick has locked.
LEMMA CommitRelay ==
  ASSUME RelayInv, NEW r \in Replicas, CommitTick(r)
  PROVE  RelayInv'
  <1> DEFINE batch == tx[r].batch
             seen == tx[r].seen
  <1>1. /\ Written(seen, Dispatched(events, batch, seen, tx[r].raises))
        /\ tx' = [tx EXCEPT ![r] = NoTick]
    BY DEF CommitTick, Result
  <1>2. /\ OutboxOK(events, checkpoint, applied, dead)
        /\ TickLocks(events, applied, tx) /\ tx \in [Replicas -> RelayTick]
    BY DEF RelayInv, TickLocks
  <1>3. Lockable(events, batch) /\ KnownLast(seen, applied) /\ seen \in SeenCheckpoint
    BY <1>2 DEF TickLocks, RelayTick
  <1>4. \A q \in Replicas \ {r} : Disjoint(tx[q].batch, batch)
    BY <1>2 DEF TickLocks
  <1> HIDE DEF batch, seen
  <1>5. /\ OutboxOK(events, checkpoint, applied, dead)'
        /\ Grows(applied, applied')
        /\ DOMAIN events' = DOMAIN events
        /\ \A k \in DOMAIN events : (\A j \in DOMAIN batch : batch[j] # k) => events'[k] = events[k]
    BY <1>1, <1>2, <1>3, CommitSound
  <1>6. /\ tx' \in [Replicas -> RelayTick] /\ tx'[r] = NoTick
        /\ \A q \in Replicas \ {r} : tx'[q] = tx[q]
    BY <1>1, <1>2, NoTickHoldsNothing
  <1>7. ASSUME NEW q \in Replicas PROVE TickKept(events', tx[q], tx'[q])
    <2>1. CASE q = r
      BY <1>6, <2>1 DEF TickKept
    <2>2. CASE q # r
      <3>1. Lockable(events, tx[q].batch)
        BY <1>2 DEF TickLocks
      <3>2. \A n \in DOMAIN tx[q].batch : \A j \in DOMAIN batch : batch[j] # tx[q].batch[n]
        BY <1>4, <2>2 DEF Disjoint
      <3>3. \A n \in DOMAIN tx[q].batch :
              tx[q].batch[n] \in DOMAIN events' /\ events'[tx[q].batch[n]].status = "pending"
        BY <1>5, <3>1, <3>2 DEF Lockable
      <3> QED BY <1>6, <2>2, <3>3 DEF TickKept
    <2> QED BY <2>1, <2>2
  <1>8. TickLocks(events', applied', tx')
    BY <1>2, <1>5, <1>6, <1>7, LocksKept
  <1> QED BY <1>5, <1>8 DEF RelayInv

\* What a tick that commits has done to the events.
LEMMA CommitTries ==
  ASSUME RelayInv, NEW r \in Replicas, CommitTick(r)
  PROVE  /\ DOMAIN events' = DOMAIN events
         /\ \A k \in DOMAIN events :
              (\A j \in DOMAIN tx[r].batch : tx[r].batch[j] # k) => events'[k] = events[k]
         /\ \A j \in DOMAIN tx[r].batch : Tried(events[tx[r].batch[j]], events'[tx[r].batch[j]])
  <1> DEFINE batch == tx[r].batch
             seen == tx[r].seen
  <1>1. Written(seen, Dispatched(events, batch, seen, tx[r].raises))
    BY DEF CommitTick, Result
  <1>2. OutboxOK(events, checkpoint, applied, dead)
    BY DEF RelayInv
  <1>3. Lockable(events, batch) /\ KnownLast(seen, applied) /\ seen \in SeenCheckpoint
    BY DEF RelayInv, TickLocks, RelayTick
  <1> HIDE DEF batch, seen
  <1>4. /\ DOMAIN events' = DOMAIN events
        /\ \A k \in DOMAIN events : (\A j \in DOMAIN batch : batch[j] # k) => events'[k] = events[k]
        /\ \A j \in DOMAIN batch : Tried(events[batch[j]], events'[batch[j]])
    BY <1>1, <1>2, <1>3, CommitSound
  <1> QED BY <1>4 DEF batch

\* A poll gives different pending events that no other tick has locked, no more
\* than the limit.
LEMMA PolledIs ==
  ASSUME RelayInv, NEW r \in Replicas, NEW batch \in Polled(r)
  PROVE  /\ Lockable(events, batch)
         /\ \A q \in Replicas \ {r} : Disjoint(batch, tx[q].batch)
         /\ Len(batch) <= BatchSize
  <1> DEFINE free == {i \in DOMAIN events : events[i].status = "pending" /\ i \notin Locked(r)}
  <1>1. events \in Seq(OutboxEvent)
    BY DEF RelayInv, OutboxOK
  <1>2. /\ batch \in UNION {[1 .. n -> free] : n \in 0 .. BatchSize}
        /\ \A m, n \in DOMAIN batch : m < n => batch[m] < batch[n]
    BY DEF Polled
  <1>3. PICK l \in 0 .. BatchSize : batch \in [1 .. l -> free]
    BY <1>2
  <1>4. free \subseteq Nat \ {0} /\ \A i \in free : i \in DOMAIN events
                                     /\ events[i].status = "pending" /\ i \notin Locked(r)
    BY <1>1
  <1> HIDE DEF free
  <1>5. l \in Nat /\ DOMAIN batch = 1 .. l /\ batch \in [1 .. l -> Nat \ {0}]
    <2>1. l \in Nat
      BY <1>3, RelayAssumption
    <2>2. DOMAIN batch = 1 .. l /\ \A n \in 1 .. l : batch[n] \in Nat \ {0}
      BY <1>3, <1>4
    <2>3. batch = [n \in 1 .. l |-> batch[n]]
      BY <1>3
    <2> QED BY <2>1, <2>2, <2>3
  <1>6. batch \in Seq(Nat \ {0})
    BY <1>5
  <1>7. \A m, n \in DOMAIN batch : batch[m] = batch[n] => m = n
    <2> SUFFICES ASSUME NEW m \in DOMAIN batch, NEW n \in DOMAIN batch, m # n
                 PROVE  batch[m] # batch[n]
      OBVIOUS
    <2>1. m \in Nat /\ n \in Nat /\ batch[m] \in Nat /\ batch[n] \in Nat
      BY <1>5
    <2>2. CASE m < n
      BY <1>2, <2>1, <2>2
    <2>3. CASE n < m
      BY <1>2, <2>1, <2>3
    <2> QED BY <2>1, <2>2, <2>3
  <1>8. \A n \in DOMAIN batch : batch[n] \in free
    BY <1>3
  <1>9. Lockable(events, batch)
    BY <1>4, <1>6, <1>7, <1>8 DEF Lockable
  <1>10. ASSUME NEW q \in Replicas \ {r}, NEW m \in DOMAIN batch, NEW n \in DOMAIN tx[q].batch
         PROVE  batch[m] # tx[q].batch[n]
    <2>1. tx[q].batch[n] \in Range(tx[q].batch)
      BY DEF Range
    <2>2. tx[q].batch[n] \in Locked(r)
      BY <2>1 DEF Locked
    <2> QED BY <1>4, <1>8, <2>2
  <1>11. Len(batch) <= BatchSize
    BY <1>3, <1>5, <1>6, RelayAssumption
  <1> QED BY <1>9, <1>10, <1>11 DEF Disjoint

\* A tick locks events and reads the checkpoint.
LEMMA TickRelay ==
  ASSUME RelayInv, NEW r \in Replicas, PollAndLock(r) \/ RunHandlers(r)
  PROVE  RelayInv'
  <1>1. /\ OutboxOK(events, checkpoint, applied, dead)
        /\ TickLocks(events, applied, tx) /\ tx \in [Replicas -> RelayTick]
    BY DEF RelayInv, TickLocks
  <1>2. UNCHANGED <<events, checkpoint, applied, dead>>
    BY DEF PollAndLock, RunHandlers
  <1>3. ASSUME NEW x \in RelayTick, tx' = [tx EXCEPT ![r] = x],
               Lockable(events, x.batch), KnownLast(x.seen, applied),
               \A q \in Replicas \ {r} : Disjoint(x.batch, tx[q].batch)
        PROVE  RelayInv'
    <2>1. /\ tx' \in [Replicas -> RelayTick] /\ tx'[r] = x
          /\ \A q \in Replicas \ {r} : tx'[q] = tx[q]
      BY <1>1, <1>3
    <2>2. \A q \in Replicas : Lockable(events, tx'[q].batch) /\ KnownLast(tx'[q].seen, applied)
      BY <1>1, <1>3, <2>1 DEF TickLocks
    <2>3. ASSUME NEW p \in Replicas, NEW q \in Replicas, p # q
          PROVE  Disjoint(tx'[p].batch, tx'[q].batch)
      <3>1. CASE p = r
        BY <1>3, <2>1, <2>3, <3>1
      <3>2. CASE q = r
        BY <1>3, <2>1, <2>3, <3>2 DEF Disjoint
      <3>3. CASE p # r /\ q # r
        BY <1>1, <2>1, <2>3, <3>3 DEF TickLocks
      <3> QED BY <3>1, <3>2, <3>3
    <2>4. TickLocks(events, applied, tx')
      BY <2>1, <2>2, <2>3 DEF TickLocks
    <2> QED BY <1>1, <1>2, <2>4 DEF RelayInv
  <1>4. CASE PollAndLock(r)
    <2>1. PICK batch \in Polled(r) :
            tx' = [tx EXCEPT ![r] = [NoTick EXCEPT !.open = TRUE, !.batch = batch]]
      BY <1>4 DEF PollAndLock
    <2>2. Lockable(events, batch) /\ \A q \in Replicas \ {r} : Disjoint(batch, tx[q].batch)
      BY PolledIs
    <2> DEFINE x == [NoTick EXCEPT !.open = TRUE, !.batch = batch]
    <2>3. x \in RelayTick /\ x.batch = batch /\ x.seen = NoTick.seen
      BY <2>2, NoTickHoldsNothing DEF RelayTick, Lockable
    <2>4. tx' = [tx EXCEPT ![r] = x]
      BY <2>1
    <2> HIDE DEF x
    <2> QED BY <1>3, <2>2, <2>3, <2>4, NoTickHoldsNothing
  <1>5. CASE RunHandlers(r)
    <2>1. PICK raises \in SUBSET {i \in Range(tx[r].batch) : events[i].handled} :
            tx' = [tx EXCEPT ![r].read = TRUE, ![r].seen = checkpoint, ![r].raises = raises]
      BY <1>5 DEF RunHandlers
    <2> DEFINE x == [tx[r] EXCEPT !.read = TRUE, !.seen = checkpoint, !.raises = raises]
    <2>2. tx[r] \in RelayTick /\ Lockable(events, tx[r].batch)
          /\ \A q \in Replicas \ {r} : Disjoint(tx[r].batch, tx[q].batch)
      BY <1>1 DEF TickLocks
    <2>3. raises \in SUBSET Nat
      BY <2>1, <2>2 DEF Lockable, Range
    <2>4. checkpoint \in SeenCheckpoint /\ KnownLast(checkpoint, applied)
      BY <1>1 DEF OutboxOK, Sound
    <2>5. x \in RelayTick /\ x.batch = tx[r].batch /\ x.seen = checkpoint
      BY <2>2, <2>3, <2>4 DEF RelayTick
    <2>6. tx' = [tx EXCEPT ![r] = x]
      BY <1>1, <2>1
    <2> HIDE DEF x
    <2> QED BY <1>3, <2>2, <2>4, <2>5, <2>6
  <1> QED BY <1>4, <1>5

\* Every step of the replicas keeps the relay's invariant.
LEMMA RelayStep ==
  ASSUME RelayInv, AutomationNext
  PROVE  RelayInv'
  <1>1. ASSUME UNCHANGED relayVars PROVE RelayInv'
    BY <1>1 DEF relayVars, RelayInv, OutboxOK, Sound, TickLocks
  <1>2. ASSUME NEW r \in Replicas, LoopStep(r) PROVE RelayInv'
    <2>1. CASE TickStep(r)
      BY <2>1, TickRelay, CommitRelay DEF TickStep
    <2>2. CASE OwnershipLost(r) \/ TickRaises(r) \/ \E i : DeliveryAborts(r, i)
      BY <2>2, RollbackRelay DEF OwnershipLost, TickRaises, DeliveryAborts, HandlerAborts
    <2>3. CASE TryClaim(r) \/ Record(r) \/ Restart(r)
      BY <1>1, <2>3 DEF TryClaim, Record, Restart
    <2> QED BY <1>2, <2>1, <2>2, <2>3 DEF LoopStep
  <1>3. ASSUME NEW r \in Replicas, ControlFails(r) \/ Stopped(r) \/ Crash(r) PROVE RelayInv'
    BY <1>3, RollbackRelay DEF ControlFails, Stopped, Crash
  <1>4. ASSUME OwnerPauses \/ LeaseRunsOut PROVE RelayInv'
    BY <1>1, <1>4 DEF OwnerPauses, LeaseRunsOut
  <1> QED BY <1>2, <1>3, <1>4, ProduceRelay DEF AutomationNext

\* Locked events stay pending, each with one tick, and the outbox is sound, in
\* every reachable state.
THEOREM RelayInvariant == Spec => []RelayInv
  <1>1. Init => RelayInv
    <2> SUFFICES ASSUME Init PROVE RelayInv
      OBVIOUS
    <2>1. /\ events = <<>> /\ checkpoint = [row |-> FALSE, last |-> 0] /\ applied = <<>>
          /\ dead = {} /\ tx = [r \in Replicas |-> NoTick]
      BY DEF Init, AutomationInit, RelayInit
    <2>2. OutboxOK(events, checkpoint, applied, dead)
      BY <2>1 DEF OutboxOK, SeenCheckpoint, Sound, KnownLast
    <2>3. tx \in [Replicas -> RelayTick] /\ \A r \in Replicas : tx[r] = NoTick
      BY <2>1, NoTickHoldsNothing
    <2>4. \A r \in Replicas : Lockable(events, tx[r].batch) /\ KnownLast(tx[r].seen, applied)
                              /\ tx[r].batch = <<>>
      BY <2>3, NoTickHoldsNothing
    <2>5. \A r, q \in Replicas : Disjoint(tx[r].batch, tx[q].batch)
      BY <2>4 DEF Disjoint
    <2> QED BY <2>2, <2>3, <2>4, <2>5 DEF RelayInv, TickLocks
  <1>2. RelayInv /\ [Next]_vars => RelayInv'
    <2>1. RelayInv /\ UNCHANGED automationVars => RelayInv'
      BY DEF automationVars, relayVars, RelayInv, OutboxOK, Sound, TickLocks
    <2> QED BY <2>1, RelayStep DEF Next, vars
  <1> QED BY <1>1, <1>2, PTL DEF Spec

\* No event is applied twice, and one that is given up is a dead letter
\* (dispatch_one, poll_and_dispatch), however many replicas tick at once and
\* whenever a tick is cancelled or aborted or its process killed.
THEOREM EventsAppliedOnce == Spec => []AppliedAtMostOnce
  <1>1. RelayInv => AppliedAtMostOnce
    BY DEF RelayInv, OutboxOK, Sound, AppliedAtMostOnce
  <1> QED BY <1>1, RelayInvariant, PTL

(* An event that is dispatched was applied, or the checkpoint passed it.   *)
AppliedOrOvertaken ==
  \A i \in DOMAIN events :
    events[i].status = "dispatched" /\ events[i].handled => \E j \in Range(applied) : j >= i

\* The only way in which an event is dispatched and never applied is that a later
\* event of its aggregate was applied: what is left of DispatchedWasApplied, which
\* the code does not give (dispatch_one).
THEOREM DispatchedOrOvertaken == Spec => []AppliedOrOvertaken
  <1>1. RelayInv => AppliedOrOvertaken
    <2> SUFFICES ASSUME RelayInv PROVE AppliedOrOvertaken
      OBVIOUS
    <2>1. Sound(events, checkpoint, applied, dead)
      BY DEF RelayInv, OutboxOK
    <2>2. \A j \in DOMAIN applied : applied[j] \in Range(applied)
      BY DEF Range
    <2> QED BY <2>1, <2>2 DEF Sound, AppliedOrOvertaken
  <1> QED BY <1>1, RelayInvariant, PTL

\* Every step of the replicas keeps the outbox and the batches within their
\* bounds: a commit adds no event, and a tick holds what it polled or nothing.
LEMMA RelayBoundsStep ==
  ASSUME RelayInv, RelayBounds, AutomationNext
  PROVE  RelayBounds'
  <1>1. /\ OutboxOK(events, checkpoint, applied, dead) /\ events \in Seq(OutboxEvent)
        /\ TickLocks(events, applied, tx) /\ tx \in [Replicas -> RelayTick]
    BY DEF RelayInv, OutboxOK, TickLocks
  <1>2. ASSUME events' = events, NEW r \in Replicas, NEW x, tx' = [tx EXCEPT ![r] = x],
               Len(x.batch) <= BatchSize
        PROVE  RelayBounds'
    BY <1>1, <1>2 DEF RelayBounds
  <1>3. Len(NoTick.batch) <= BatchSize
    <2>1. NoTick.batch = <<>>
      BY NoTickHoldsNothing
    <2> QED BY <2>1, RelayAssumption
  <1>4. ASSUME NEW r \in Replicas, RollbackTick(r) PROVE RelayBounds'
    BY <1>2, <1>3, <1>4 DEF RollbackTick
  <1>5. ASSUME NEW r \in Replicas, PollAndLock(r) PROVE RelayBounds'
    <2>1. PICK batch \in Polled(r) :
            tx' = [tx EXCEPT ![r] = [NoTick EXCEPT !.open = TRUE, !.batch = batch]]
      BY <1>5 DEF PollAndLock
    <2> DEFINE x == [NoTick EXCEPT !.open = TRUE, !.batch = batch]
    <2>2. x.batch = batch
      BY NoTickHoldsNothing DEF RelayTick
    <2>3. tx' = [tx EXCEPT ![r] = x] /\ events' = events
      BY <1>5, <2>1 DEF PollAndLock
    <2> HIDE DEF x
    <2>4. Len(x.batch) <= BatchSize
      BY <2>2, PolledIs
    <2> QED BY <1>2, <2>3, <2>4
  <1>6. ASSUME NEW r \in Replicas, RunHandlers(r) PROVE RelayBounds'
    <2>1. PICK raises : tx' = [tx EXCEPT ![r].read = TRUE, ![r].seen = checkpoint, ![r].raises = raises]
      BY <1>6 DEF RunHandlers
    <2> DEFINE x == [tx[r] EXCEPT !.read = TRUE, !.seen = checkpoint, !.raises = raises]
    <2>2. x.batch = tx[r].batch
      BY <1>1 DEF RelayTick
    <2>3. tx' = [tx EXCEPT ![r] = x] /\ events' = events
      BY <1>1, <1>6, <2>1 DEF RunHandlers
    <2> HIDE DEF x
    <2>4. Len(x.batch) <= BatchSize
      BY <2>2 DEF RelayBounds
    <2> QED BY <1>2, <2>3, <2>4
  <1>7. ASSUME NEW r \in Replicas, CommitTick(r) PROVE RelayBounds'
    <2>1. DOMAIN events' = DOMAIN events /\ events' \in Seq(OutboxEvent)
      BY <1>7, CommitTries, CommitRelay DEF RelayInv, OutboxOK
    <2>2. Len(events') = Len(events)
      BY <1>1, <2>1
    <2>3. tx' = [tx EXCEPT ![r] = NoTick]
      BY <1>7 DEF CommitTick
    <2> QED BY <1>1, <1>3, <2>2, <2>3 DEF RelayBounds
  <1>8. ASSUME Produce PROVE RelayBounds'
    <2>1. RelayInv'
      BY <1>8, ProduceRelay
    <2>2. Len(events) < MaxEvents /\ tx' = tx
      BY <1>8 DEF Produce, Emit, EmitAndDispatch
    <2>3. Len(events') = Len(events) + 1
      BY <1>8, ProduceAddsOne
    <2> QED BY <1>1, <2>2, <2>3, RelayAssumption DEF RelayBounds
  <1>9. ASSUME UNCHANGED relayVars PROVE RelayBounds'
    BY <1>9 DEF relayVars, RelayBounds
  <1>10. ASSUME NEW r \in Replicas, LoopStep(r) PROVE RelayBounds'
    <2>1. CASE TickStep(r)
      BY <1>5, <1>6, <1>7, <2>1 DEF TickStep
    <2>2. CASE OwnershipLost(r) \/ TickRaises(r) \/ \E i : DeliveryAborts(r, i)
      BY <1>4, <2>2 DEF OwnershipLost, TickRaises, DeliveryAborts, HandlerAborts
    <2>3. CASE TryClaim(r) \/ Record(r) \/ Restart(r)
      BY <1>9, <2>3 DEF TryClaim, Record, Restart
    <2> QED BY <1>10, <2>1, <2>2, <2>3 DEF LoopStep
  <1>11. ASSUME NEW r \in Replicas, ControlFails(r) \/ Stopped(r) \/ Crash(r) PROVE RelayBounds'
    BY <1>4, <1>11 DEF ControlFails, Stopped, Crash
  <1>12. ASSUME OwnerPauses \/ LeaseRunsOut PROVE RelayBounds'
    BY <1>9, <1>12 DEF OwnerPauses, LeaseRunsOut
  <1> QED BY <1>8, <1>10, <1>11, <1>12 DEF AutomationNext

\* The outbox and the batches are within their bounds in every reachable state.
THEOREM RelayBounded == Spec => []RelayBounds
  <1>1. Init => RelayBounds
    <2> SUFFICES ASSUME Init PROVE RelayBounds
      OBVIOUS
    <2>1. events = <<>> /\ tx = [r \in Replicas |-> NoTick]
      BY DEF Init, AutomationInit, RelayInit
    <2>2. NoTick.batch = <<>>
      BY NoTickHoldsNothing
    <2> QED BY <2>1, <2>2, RelayAssumption DEF RelayBounds
  <1>2. RelayInv /\ RelayBounds /\ [Next]_vars => RelayBounds'
    <2>1. RelayBounds /\ UNCHANGED automationVars => RelayBounds'
      BY DEF automationVars, relayVars, RelayBounds
    <2> QED BY <2>1, RelayBoundsStep DEF Next, vars
  <1> QED BY <1>1, <1>2, RelayInvariant, PTL DEF Spec

(* A tick that commits: each event of its batch is settled, or has spent   *)
(* one of its attempts, and no other event has changed.                    *)
TriesItsBatch(r) ==
  \A i \in DOMAIN events :
    IF i \in Range(tx[r].batch) THEN Tried(events[i], events'[i]) ELSE events'[i] = events[i]

\* A tick never commits without having tried every event it locked
\* (poll_and_dispatch, dispatch_one): so an event that is polled again and
\* again is settled after MaxDeliveryAttempts ticks that commit.
THEOREM TicksTryTheirBatch ==
  Spec => [][\A r \in Replicas : CommitTick(r) => TriesItsBatch(r)]_vars
  <1>1. RelayInv => \A r \in Replicas : CommitTick(r) => TriesItsBatch(r)
    <2> SUFFICES ASSUME RelayInv, NEW r \in Replicas, CommitTick(r) PROVE TriesItsBatch(r)
      OBVIOUS
    <2> QED BY CommitTries DEF TriesItsBatch, Range
  <1> QED BY <1>1, RelayInvariant, PTL

-----------------------------------------------------------------------------
(* Finite sets in a strict total order, as a set of pairs *)

Orders(R, S) ==
  /\ \A x \in S : <<x, x>> \notin R
  /\ \A x, y, z \in S : <<x, y>> \in R /\ <<y, z>> \in R => <<x, z>> \in R
  /\ \A x, y \in S : x = y \/ <<x, y>> \in R \/ <<y, x>> \in R

Below(R, S, x) == {y \in S : <<y, x>> \in R}

(* The first n of S.                                                       *)
FirstOf(R, S, n) == {x \in S : Cardinality(Below(R, S, x)) < n}

(* The members of S one after the other.                                   *)
Listings(R, S) ==
  {s \in [1 .. Cardinality(S) -> S] : \A m, n \in DOMAIN s : m < n => <<s[m], s[n]>> \in R}

\* A part of an ordered set is ordered.
LEMMA PartOrdered ==
  ASSUME NEW R, NEW S, Orders(R, S), NEW T, T \subseteq S
  PROVE  Orders(R, T)
  BY DEF Orders

\* One member comes after all others.
LEMMA LastIn ==
  ASSUME NEW S, IsFiniteSet(S), S # {}, NEW R, Orders(R, S)
  PROVE  \E x \in S : \A y \in S : y = x \/ <<y, x>> \in R
  <1> DEFINE HasLast(T) == \E x \in T : \A y \in T : y = x \/ <<y, x>> \in R
             B == {T \in SUBSET S : T # {} /\ ~HasLast(T)}
  <1>1. SUFFICES ASSUME B # {} PROVE FALSE
    OBVIOUS
  <1>2. PICK T \in B : \A U \in B : U \subseteq T => U = T
    <2>1. B \subseteq SUBSET S
      OBVIOUS
    <2> HIDE DEF B
    <2> QED BY <1>1, <2>1, SmallestSet
  <1>3. T \subseteq S /\ T # {} /\ ~HasLast(T)
    OBVIOUS
  <1>4. PICK x \in T : TRUE
    BY <1>3
  <1>5. CASE T = {x}
    BY <1>3, <1>5
  <1>6. CASE T # {x}
    <2>1. T \ {x} \notin B /\ T \ {x} # {} /\ T \ {x} \subseteq S
      BY <1>2, <1>3, <1>4, <1>6
    <2>2. HasLast(T \ {x})
      BY <2>1
    <2>3. PICK z \in T \ {x} : \A y \in T \ {x} : y = z \/ <<y, z>> \in R
      BY <2>2
    <2>4. <<x, z>> \in R \/ <<z, x>> \in R
      BY <1>3, <1>4, <2>3 DEF Orders
    <2>5. CASE <<x, z>> \in R
      BY <1>3, <2>3, <2>5
    <2>6. CASE <<z, x>> \in R
      <3>1. ASSUME NEW y \in T PROVE y = x \/ <<y, x>> \in R
        BY <1>3, <1>4, <2>3, <2>6 DEF Orders
      <3> QED BY <1>3, <1>4, <3>1
    <2> QED BY <2>4, <2>5, <2>6
  <1> QED BY <1>5, <1>6

\* One member comes before all others.
LEMMA FirstIn ==
  ASSUME NEW S, IsFiniteSet(S), S # {}, NEW R, Orders(R, S)
  PROVE  \E x \in S : \A y \in S : y = x \/ <<x, y>> \in R
  <1> DEFINE Q == {p \in S \X S : <<p[2], p[1]>> \in R}
  <1>1. \A x, y \in S : <<x, y>> \in Q <=> <<y, x>> \in R
    OBVIOUS
  <1> HIDE DEF Q
  <1>2. Orders(Q, S)
    BY <1>1 DEF Orders
  <1>3. PICK x \in S : \A y \in S : y = x \/ <<y, x>> \in Q
    BY <1>2, LastIn
  <1> QED BY <1>1, <1>3

\* The members before one are finitely many, and fewer than those before a
\* later one.
LEMMA BelowGrows ==
  ASSUME NEW S, IsFiniteSet(S), NEW R, Orders(R, S), NEW x \in S, NEW y \in S, <<x, y>> \in R
  PROVE  /\ Cardinality(Below(R, S, x)) \in Nat /\ Cardinality(Below(R, S, y)) \in Nat
         /\ Cardinality(Below(R, S, x)) < Cardinality(Below(R, S, y))
  <1> DEFINE A == Below(R, S, x)
             B == Below(R, S, y)
  <1>1. A \subseteq B /\ B \subseteq S /\ x \in B /\ x \notin A
    BY DEF Below, Orders
  <1> HIDE DEF A, B
  <1>2. IsFiniteSet(B) /\ IsFiniteSet(A)
    BY <1>1, FS_Subset
  <1>3. Cardinality(A) <= Cardinality(B) /\ Cardinality(A) # Cardinality(B)
    BY <1>1, <1>2, FS_Subset
  <1>4. Cardinality(A) \in Nat /\ Cardinality(B) \in Nat
    BY <1>2, FS_CardinalityType
  <1>5. Cardinality(A) < Cardinality(B)
    BY <1>3, <1>4
  <1> QED BY <1>4, <1>5 DEF A, B

\* The number of members before one is a natural number.
LEMMA BelowNat ==
  ASSUME NEW S, IsFiniteSet(S), NEW R, NEW x
  PROVE  Cardinality(Below(R, S, x)) \in Nat /\ IsFiniteSet(Below(R, S, x))
  <1>1. Below(R, S, x) \subseteq S
    BY DEF Below
  <1>2. IsFiniteSet(Below(R, S, x))
    BY <1>1, FS_Subset
  <1> QED BY <1>2, FS_CardinalityType

\* The first n are at most n, whatever comes before one of them is one of
\* them, and they are n unless they are all.
LEMMA FirstOfSize ==
  ASSUME NEW S, IsFiniteSet(S), NEW R, Orders(R, S), NEW n \in Nat
  PROVE  LET T == FirstOf(R, S, n)
         IN  /\ IsFiniteSet(T) /\ Cardinality(T) \in Nat /\ Cardinality(T) <= n
             /\ \A x \in T, y \in S : <<y, x>> \in R => y \in T
             /\ T = S \/ Cardinality(T) = n
  <1> DEFINE T == FirstOf(R, S, n)
  <1>1. T \subseteq S /\ \A x \in S : x \in T <=> Cardinality(Below(R, S, x)) < n
    BY DEF FirstOf
  <1> HIDE DEF T
  <1>2. IsFiniteSet(T)
    BY <1>1, FS_Subset
  <1>3. Cardinality(T) \in Nat
    BY <1>2, FS_CardinalityType
  <1>4. ASSUME NEW x \in T, NEW y \in S, <<y, x>> \in R PROVE y \in T
    <2>1. Cardinality(Below(R, S, y)) < Cardinality(Below(R, S, x))
          /\ Cardinality(Below(R, S, x)) \in Nat /\ Cardinality(Below(R, S, y)) \in Nat
      BY <1>1, <1>4, BelowGrows
    <2> QED BY <1>1, <2>1
  <1>5. Cardinality(T) <= n
    <2>1. CASE T = {}
      BY <2>1, FS_EmptySet
    <2>2. CASE T # {}
      <3>1. PICK x \in T : \A y \in T : y = x \/ <<y, x>> \in R
        <4>1. Orders(R, T)
          BY <1>1, PartOrdered
        <4> QED BY <1>2, <2>2, <4>1, LastIn
      <3> DEFINE A == Below(R, S, x)
      <3>2. T \ {x} \subseteq A /\ Cardinality(A) < n /\ x \in S
        BY <1>1, <3>1 DEF Below
      <3>3. IsFiniteSet(A) /\ Cardinality(A) \in Nat
        BY BelowNat
      <3> HIDE DEF A
      <3>4. Cardinality(T \ {x}) <= Cardinality(A)
        BY <3>2, <3>3, FS_Subset
      <3>5. Cardinality(T \ {x}) = Cardinality(T) - 1
        BY <1>2, <3>1, FS_RemoveElement
      <3> QED BY <1>3, <3>2, <3>3, <3>4, <3>5
    <2> QED BY <2>1, <2>2
  <1>6. ASSUME T # S PROVE Cardinality(T) = n
    <2>1. S \ T # {} /\ IsFiniteSet(S \ T) /\ Orders(R, S \ T)
      BY <1>1, <1>6, FS_Subset, PartOrdered
    <2>2. PICK x \in S \ T : \A y \in S \ T : y = x \/ <<x, y>> \in R
      BY <2>1, FirstIn
    <2> DEFINE A == Below(R, S, x)
    <2>3. A \subseteq T
      BY <2>2 DEF Below, Orders
    <2>4. IsFiniteSet(A) /\ Cardinality(A) \in Nat
      BY BelowNat
    <2>5. ~(Cardinality(A) < n)
      BY <1>1, <2>2
    <2> HIDE DEF A
    <2>6. Cardinality(A) <= Cardinality(T)
      BY <1>2, <2>3, FS_Subset
    <2> QED BY <1>3, <1>5, <2>4, <2>5, <2>6
  <1> QED BY <1>2, <1>3, <1>4, <1>5, <1>6 DEF T

\* The members of a finite set can be listed.
LEMMA ListingExists ==
  ASSUME NEW S, IsFiniteSet(S), NEW R, Orders(R, S)
  PROVE  Listings(R, S) # {}
  <1> DEFINE B == {T \in SUBSET S : Listings(R, T) = {}}
  <1>1. SUFFICES ASSUME B # {} PROVE FALSE
    OBVIOUS
  <1>2. PICK T \in B : \A U \in B : U \subseteq T => U = T
    <2>1. B \subseteq SUBSET S
      OBVIOUS
    <2> HIDE DEF B
    <2> QED BY <1>1, <2>1, SmallestSet
  <1>3. T \subseteq S /\ Listings(R, T) = {}
    OBVIOUS
  <1>4. IsFiniteSet(T) /\ Orders(R, T)
    BY <1>3, FS_Subset, PartOrdered
  <1>5. CASE T = {}
    <2>1. Cardinality(T) = 0
      BY <1>5, FS_EmptySet
    <2> DEFINE s == [m \in 1 .. 0 |-> T]
    <2>2. 1 .. 0 = {} /\ DOMAIN s = {}
      OBVIOUS
    <2>3. s \in [1 .. 0 -> T]
      BY <2>2
    <2>4. s \in Listings(R, T)
      BY <2>1, <2>2, <2>3 DEF Listings
    <2> QED BY <1>3, <2>4
  <1>6. CASE T # {}
    <2>1. PICK x \in T : \A y \in T : y = x \/ <<y, x>> \in R
      BY <1>4, <1>6, LastIn
    <2> DEFINE U == T \ {x}
               n == Cardinality(T)
    <2>2. U \notin B /\ U \subseteq T /\ U \subseteq S
      BY <1>2, <1>3, <2>1
    <2>3. Listings(R, U) # {}
      BY <2>2
    <2>4. n \in Nat /\ Cardinality(U) = n - 1 /\ Cardinality(U) \in Nat
      BY <1>4, <2>1, FS_RemoveElement, FS_CardinalityType
    <2>5. \A y \in U : y \in T /\ <<y, x>> \in R
      BY <2>1
    <2> HIDE DEF n, U
    <2>6. PICK s : s \in [1 .. n - 1 -> U] /\ \A k, m \in 1 .. n - 1 : k < m => <<s[k], s[m]>> \in R
      BY <2>3, <2>4 DEF Listings
    <2> DEFINE t == [m \in 1 .. n |-> IF m = n THEN x ELSE s[m]]
    <2>7. n \in Nat \ {0}
      BY <2>4
    <2>8. \A m \in 1 .. n : m = n \/ (m \in 1 .. n - 1 /\ s[m] \in U)
      BY <2>6, <2>7
    <2>9. t \in [1 .. n -> T]
      BY <2>1, <2>5, <2>8
    <2>10. ASSUME NEW k \in 1 .. n, NEW m \in 1 .. n, k < m PROVE <<t[k], t[m]>> \in R
      <3>1. k \in 1 .. n - 1 /\ t[k] = s[k] /\ s[k] \in U
        BY <2>6, <2>7, <2>10
      <3>2. CASE m = n
        BY <2>5, <3>1, <3>2
      <3>3. CASE m # n
        <4>1. m \in 1 .. n - 1 /\ t[m] = s[m]
          BY <2>7, <3>3
        <4> QED BY <2>6, <2>10, <3>1, <4>1
      <3> QED BY <3>2, <3>3
    <2>11. t \in Listings(R, T)
      <3> DOMAIN t = 1 .. n
        OBVIOUS
      <3> HIDE DEF t
      <3> QED BY <2>9, <2>10 DEF Listings, n
    <2> QED BY <1>3, <2>11
  <1> QED BY <1>5, <1>6

\* A listing has each member once.
LEMMA ListingComplete ==
  ASSUME NEW S, IsFiniteSet(S), NEW R, Orders(R, S), NEW s \in Listings(R, S)
  PROVE  /\ s \in Seq(S) /\ Len(s) = Cardinality(S) /\ Range(s) = S
         /\ \A m, n \in DOMAIN s : s[m] = s[n] => m = n
  <1> DEFINE c == Cardinality(S)
  <1>1. c \in Nat
    BY FS_CardinalityType
  <1>2. s \in [1 .. c -> S] /\ \A m, n \in 1 .. c : m < n => <<s[m], s[n]>> \in R
    BY DEF Listings
  <1> HIDE DEF c
  <1>3. s \in Seq(S) /\ Len(s) = c /\ DOMAIN s = 1 .. c
    BY <1>1, <1>2
  <1>4. ASSUME NEW m \in 1 .. c, NEW n \in 1 .. c, s[m] = s[n] PROVE m = n
    <2>1. ~(m < n) /\ ~(n < m)
      BY <1>2, <1>4 DEF Orders
    <2> QED BY <1>1, <2>1
  <1>5. s \in Injection(1 .. c, S)
    BY <1>2, <1>3, <1>4 DEF Injection, IsInjective
  <1>6. Cardinality(1 .. c) = Cardinality(S)
    BY <1>1, FS_Interval DEF c
  <1>7. s \in Surjection(1 .. c, S)
    BY <1>5, <1>6, FS_Injection
  <1>8. Range(s) = S
    BY <1>2, <1>3, <1>7 DEF Range, Surjection
  <1> QED BY <1>3, <1>4, <1>8 DEF c

-----------------------------------------------------------------------------
(* The queue: the jobs of a tick, one after the other *)

JobRow == [status : {"new", "pending", "done", "cancelled"}, attempt : 0 .. NoWorkerMaxRetries]
RowState == {"none", "pending", "inflight", "finished"}
Pressure == {"normal", "pressured", "throttled"}
Answers == {"worker", "nobody", "hold", "over"}

(* A job waits with attempts left; it has a row when it is done, and only  *)
(* then.                                                                   *)
JobsOK(jobs, rows) ==
  /\ jobs \in [Jobs -> JobRow] /\ rows \in [Jobs -> RowState]
  /\ \A j \in Jobs :
       /\ jobs[j].status \in {"new", "pending"} => jobs[j].attempt < NoWorkerMaxRetries
       /\ rows[j] = "none" <=> jobs[j].status # "done"

Batch == [job : [Jobs -> JobRow], row : [Jobs -> RowState]]

SoundBatch(s) == s \in Batch /\ JobsOK(s.job, s.row)

(* What a tick makes of a job it leased: the job is settled, or put off,   *)
(* and at most one of its attempts is used up.                             *)
Spent(old, new) ==
  new.status \in {"pending", "done", "cancelled"} /\ new.attempt \in {old.attempt, old.attempt + 1}

(* One job is processed.                                                   *)
OneJobSpent(s, j, t) ==
  /\ SoundBatch(t)
  /\ Spent(s.job[j], t.job[j])
  /\ \A k \in Jobs : k # j => t.job[k] = s.job[k] /\ t.row[k] = s.row[k]

\* Whatever the run and the workers allow, a pending job is settled or put off
\* for an attempt at most, and the others are left as they are.
LEMMA ProcessedSpends ==
  ASSUME NEW s, SoundBatch(s), NEW j \in Jobs, s.job[j].status = "pending",
         NEW allows \in Answers
  PROVE  OneJobSpent(s, j, Processed(s, j, allows))
  <1> DEFINE t == Processed(s, j, allows)
             old == s.job[j]
             again == [old EXCEPT !.attempt = @ + 1]
  <1>0. SUFFICES OneJobSpent(s, j, t)
    OBVIOUS
  <1>1. /\ s \in Batch /\ s.job \in [Jobs -> JobRow] /\ s.row \in [Jobs -> RowState]
        /\ old \in JobRow /\ old.status = "pending" /\ s.row[j] = "none"
        /\ old.attempt \in Nat /\ old.attempt < NoWorkerMaxRetries
    BY DEF SoundBatch, JobsOK, Batch, JobRow
  <1>2. NoWorkerMaxRetries \in Nat
    BY QueueAssumption
  <1>3. again \in JobRow /\ again.status = "pending" /\ again.attempt = old.attempt + 1
    BY <1>1, <1>2 DEF JobRow
  <1>4. s.row = [s.row EXCEPT ![j] = "none"] /\ s.job = [s.job EXCEPT ![j] = old]
    BY <1>1
  <1> DEFINE Sets(new, r) ==
        /\ new \in JobRow /\ r \in RowState
        /\ t = [job |-> [s.job EXCEPT ![j] = new], row |-> [s.row EXCEPT ![j] = r]]
        /\ new.status \in {"new", "pending"} => new.attempt < NoWorkerMaxRetries
        /\ r = "none" <=> new.status # "done"
        /\ Spent(old, new)
  <1>5. ASSUME NEW new, NEW r, Sets(new, r)
        PROVE  OneJobSpent(s, j, t)
    <2> HIDE DEF t
    <2>1. /\ t.job = [s.job EXCEPT ![j] = new] /\ t.row = [s.row EXCEPT ![j] = r]
          /\ t \in Batch
      BY <1>1, <1>5 DEF Batch
    <2>2. /\ t.job[j] = new /\ t.row[j] = r
          /\ \A k \in Jobs : k # j => t.job[k] = s.job[k] /\ t.row[k] = s.row[k]
      BY <1>1, <2>1
    <2>3. JobsOK(t.job, t.row)
      BY <1>5, <2>1, <2>2 DEF JobsOK, SoundBatch, Batch
    <2> QED BY <1>5, <2>1, <2>2, <2>3 DEF OneJobSpent, SoundBatch
  <1> DEFINE over == InFlightOf(s.row, WorkspaceOf[j]) >= MaxConcurrent
  <1>6. CASE over
    <2> DEFINE new == IF again.attempt >= NoWorkerMaxRetries
                      THEN [again EXCEPT !.status = "cancelled"] ELSE again
    <2>1. t = [job |-> [s.job EXCEPT ![j] = new], row |-> s.row]
      BY <1>1, <1>6 DEF Processed, Batch
    <2>2. /\ new \in JobRow
          /\ new.status \in {"new", "pending"} => new.attempt < NoWorkerMaxRetries
          /\ new.status # "done"
          /\ Spent(old, new)
      <3> HIDE DEF again
      <3> QED BY <1>2, <1>3, <1>1 DEF Spent, JobRow
    <2> HIDE DEF new, t, over, again
    <2>4. Sets(new, "none")
      BY <1>1, <1>4, <2>1, <2>2 DEF RowState
    <2> HIDE DEF Sets
    <2> QED BY <1>5, <2>4
  <1>7. CASE ~over /\ allows \in {"worker", "nobody"}
    <2> DEFINE new == [old EXCEPT !.status = "done"]
               r == IF allows = "worker" THEN "inflight" ELSE "pending"
    <2>1. t = [job |-> [s.job EXCEPT ![j] = new], row |-> [s.row EXCEPT ![j] = r]]
      BY <1>1, <1>7 DEF Processed, Batch
    <2>2. new \in JobRow /\ new.status = "done" /\ Spent(old, new)
      BY <1>1 DEF Spent, JobRow
    <2>3. r \in RowState /\ r # "none"
      BY DEF RowState
    <2> HIDE DEF new, t, over, r
    <2>4. Sets(new, r)
      BY <1>1, <2>1, <2>2, <2>3
    <2> HIDE DEF Sets
    <2> QED BY <1>5, <2>4
  <1>8. CASE ~over /\ allows = "hold"
    <2>1. t = [job |-> s.job, row |-> s.row]
      BY <1>1, <1>8 DEF Processed, Batch
    <2>2. Spent(old, old)
      BY <1>1 DEF Spent
    <2> HIDE DEF t, over, old
    <2>4. Sets(old, "none")
      BY <1>1, <1>4, <2>1, <2>2 DEF RowState
    <2> HIDE DEF Sets
    <2> QED BY <1>5, <2>4
  <1>9. CASE ~over /\ allows = "over"
    <2> DEFINE new == [old EXCEPT !.status = "cancelled"]
    <2>1. t = [job |-> [s.job EXCEPT ![j] = new], row |-> s.row]
      BY <1>1, <1>9 DEF Processed, Batch
    <2>2. new \in JobRow /\ new.status = "cancelled" /\ Spent(old, new)
      BY <1>1 DEF Spent, JobRow
    <2> HIDE DEF new, t, over
    <2>4. Sets(new, "none")
      BY <1>1, <1>4, <2>1, <2>2 DEF RowState
    <2> HIDE DEF Sets
    <2> QED BY <1>5, <2>4
  <1>10. allows \in {"worker", "nobody"} \/ allows = "hold" \/ allows = "over"
    BY DEF Answers
  <1> HIDE DEF t, over
  <1> QED BY <1>6, <1>7, <1>8, <1>9, <1>10

(* f has what the tick has to write after each prefix of its jobs.         *)
PrefixJobs(start, q, leased, allows, m, f) ==
  f = [n \in 0 .. m |-> IF n = 0 THEN start ELSE Processed(f[n - 1], q[leased[n]], allows[n])]

(* Places of different pending jobs in the queue.                          *)
Leasable(jobs, q, leased) ==
  /\ leased \in Seq(DOMAIN q)
  /\ \A n \in DOMAIN q : q[n] \in Jobs /\ jobs[q[n]].status = "pending"
  /\ \A m, n \in DOMAIN q : q[m] = q[n] => m = n
  /\ \A m, n \in DOMAIN leased : leased[m] = leased[n] => m = n

(* v is what the first n jobs leave behind.                                *)
JobsReached(start, q, leased, n, v) ==
  /\ SoundBatch(v)
  /\ \A j \in Jobs :
       (\A m \in 1 .. n : q[leased[m]] # j) => v.job[j] = start.job[j] /\ v.row[j] = start.row[j]
  /\ \A m \in 1 .. n :
       Spent(start.job[q[leased[m]]], v.job[q[leased[m]]])

\* The recursion over the jobs of a tick has a solution for every number of them.
LEMMA PrefixJobsExist ==
  ASSUME NEW start, NEW q, NEW leased, NEW allows, NEW m \in Nat
  PROVE  \E f : PrefixJobs(start, q, leased, allows, m, f)
  <1> DEFINE B == {k \in Nat : ~ \E f : PrefixJobs(start, q, leased, allows, k, f)}
  <1>1. SUFFICES ASSUME B # {} PROVE FALSE
    OBVIOUS
  <1>2. PICK k \in B : \A l \in B : k <= l
    <2>1. B \subseteq Nat
      OBVIOUS
    <2> HIDE DEF B
    <2> QED BY <1>1, <2>1, SmallestNumber
  <1>3. k \in Nat /\ ~ \E f : PrefixJobs(start, q, leased, allows, k, f)
    OBVIOUS
  <1>4. CASE k = 0
    <2> DEFINE f == [n \in 0 .. 0 |-> start]
    <2>1. PrefixJobs(start, q, leased, allows, k, f)
      BY <1>4 DEF PrefixJobs
    <2> QED BY <1>3, <2>1
  <1>5. CASE k # 0
    <2>1. k - 1 \in Nat /\ k - 1 \notin B
      BY <1>2, <1>3, <1>5
    <2>2. PICK g : PrefixJobs(start, q, leased, allows, k - 1, g)
      BY <2>1
    <2> DEFINE last == Processed(g[k - 1], q[leased[k]], allows[k])
               f == [n \in 0 .. k |-> IF n = k THEN last ELSE g[n]]
    <2>3. \A n \in 0 .. k - 1 :
            g[n] = IF n = 0 THEN start ELSE Processed(g[n - 1], q[leased[n]], allows[n])
      BY <2>2 DEF PrefixJobs
    <2>4. f[k] = last /\ \A n \in 0 .. k - 1 : f[n] = g[n]
      <3> HIDE DEF last
      <3> QED BY <1>3
    <2>5. ASSUME NEW n \in 0 .. k
          PROVE  f[n] = IF n = 0 THEN start ELSE Processed(f[n - 1], q[leased[n]], allows[n])
      <3> HIDE DEF f
      <3>1. CASE n = k
        <4>1. f[n - 1] = g[k - 1] /\ n # 0
          BY <1>3, <1>5, <2>4, <3>1
        <4> QED BY <2>4, <3>1, <4>1
      <3>2. CASE n # k
        <4>1. n \in 0 .. k - 1 /\ (n # 0 => n - 1 \in 0 .. k - 1)
          BY <1>3, <3>2
        <4>2. f[n] = g[n] /\ (n # 0 => f[n - 1] = g[n - 1])
          BY <2>4, <4>1
        <4> QED BY <2>3, <4>1, <4>2
      <3> QED BY <3>1, <3>2
    <2>6. f = [n \in 0 .. k |-> f[n]]
      OBVIOUS
    <2> HIDE DEF f
    <2>7. PrefixJobs(start, q, leased, allows, k, f)
      BY <2>5, <2>6 DEF PrefixJobs
    <2> QED BY <1>3, <2>7
  <1> QED BY <1>4, <1>5

\* Each prefix of a tick's jobs has spent at most an attempt of every job of it,
\* and left the other jobs alone.
LEMMA PrefixJobsReached ==
  ASSUME NEW start, SoundBatch(start), NEW q, NEW leased, Leasable(start.job, q, leased),
         NEW allows \in [DOMAIN leased -> Answers],
         NEW f, PrefixJobs(start, q, leased, allows, Len(leased), f),
         NEW m \in 0 .. Len(leased)
  PROVE  JobsReached(start, q, leased, m, f[m])
  <1> DEFINE B == {k \in 0 .. Len(leased) : ~ JobsReached(start, q, leased, k, f[k])}
  <1>0. Len(leased) \in Nat /\ DOMAIN leased = 1 .. Len(leased) /\ leased \in Seq(DOMAIN q)
    BY DEF Leasable
  <1>1. SUFFICES ASSUME B # {} PROVE FALSE
    OBVIOUS
  <1>2. PICK k \in B : \A l \in B : k <= l
    <2>1. B \subseteq Nat
      BY <1>0
    <2> HIDE DEF B
    <2> QED BY <1>1, <2>1, SmallestNumber
  <1>3. k \in 0 .. Len(leased) /\ ~ JobsReached(start, q, leased, k, f[k])
    OBVIOUS
  <1>4. f[k] = IF k = 0 THEN start ELSE Processed(f[k - 1], q[leased[k]], allows[k])
    BY <1>3 DEF PrefixJobs
  <1>5. k # 0
    <2>1. JobsReached(start, q, leased, 0, start)
      BY DEF JobsReached
    <2> QED BY <1>3, <1>4, <2>1
  <1>6. k - 1 \in 0 .. Len(leased) /\ k - 1 \notin B /\ k \in DOMAIN leased /\ k \in Nat
    BY <1>0, <1>2, <1>3, <1>5
  <1>7. JobsReached(start, q, leased, k - 1, f[k - 1])
    BY <1>6
  <1> DEFINE w == f[k - 1]
             j == q[leased[k]]
             v == Processed(w, j, allows[k])
  <1>8. /\ leased[k] \in DOMAIN q /\ j \in Jobs /\ start.job[j].status = "pending"
        /\ \A i \in 1 .. k - 1 : q[leased[i]] # j /\ q[leased[i]] \in Jobs
    BY <1>0, <1>6 DEF Leasable
  <1>9. f[k] = v
    BY <1>4, <1>5
  <1>10. JobsReached(start, q, leased, k - 1, w)
    BY <1>7
  <1>11. allows[k] \in Answers
    BY <1>6
  <1> HIDE DEF w, j
  <1>12. SoundBatch(w) /\ w.job[j] = start.job[j]
    BY <1>8, <1>10 DEF JobsReached
  <1>13. OneJobSpent(w, j, v)
    BY <1>8, <1>11, <1>12, ProcessedSpends
  <1> HIDE DEF v
  <1>15. SoundBatch(v)
    BY <1>13 DEF OneJobSpent
  <1>16. Spent(start.job[j], v.job[j])
    BY <1>12, <1>13 DEF OneJobSpent
  <1>17. ASSUME NEW i \in 1 .. k - 1
         PROVE  Spent(start.job[q[leased[i]]], v.job[q[leased[i]]])
    <2> DEFINE x == q[leased[i]]
    <2>1. x \in Jobs /\ x # j
      BY <1>8
    <2>2. Spent(start.job[x], w.job[x])
      BY <1>10 DEF JobsReached
    <2> HIDE DEF x
    <2>3. v.job[x] = w.job[x]
      BY <1>13, <2>1 DEF OneJobSpent
    <2>4. Spent(start.job[x], v.job[x])
      BY <2>2, <2>3
    <2> QED BY <2>4 DEF x
  <1>18. ASSUME NEW x \in Jobs, \A i \in 1 .. k : q[leased[i]] # x
         PROVE  v.job[x] = start.job[x] /\ v.row[x] = start.row[x]
    <2>1. x # j /\ \A i \in 1 .. k - 1 : q[leased[i]] # x
      BY <1>6, <1>18, <1>5 DEF j
    <2> QED BY <1>10, <1>13, <2>1 DEF JobsReached, OneJobSpent
  <1>19. ASSUME NEW i \in 1 .. k
         PROVE  Spent(start.job[q[leased[i]]], v.job[q[leased[i]]])
    <2>1. CASE i = k
      BY <1>16, <2>1 DEF j
    <2>2. CASE i # k
      <3>1. i \in 1 .. k - 1
        BY <1>6, <2>2
      <3> QED BY <1>17, <3>1
    <2> QED BY <2>1, <2>2
  <1>20. JobsReached(start, q, leased, k, v)
    BY <1>15, <1>18, <1>19 DEF JobsReached
  <1> QED BY <1>3, <1>9, <1>20

(* What a tick begins with.                                                *)
TickStart == [job |-> job, row |-> row]

\* A tick that leases different pending jobs settles each of them or puts it off,
\* and leaves the other jobs as they are.
LEMMA TickReached ==
  ASSUME SoundBatch(TickStart), NEW leased, Leasable(job, queue, leased),
         NEW allows \in [DOMAIN leased -> Answers]
  PROVE  JobsReached(TickStart, queue, leased, Len(leased), TickProcessed(leased, allows))
  <1> DEFINE start == TickStart
             f == CHOOSE g : PrefixJobs(start, queue, leased, allows, Len(leased), g)
  <1>1. Len(leased) \in Nat
    BY DEF Leasable
  <1>2. TickProcessed(leased, allows) = f[Len(leased)]
    BY DEF TickProcessed, PrefixJobs, TickStart
  <1>3. start.job = job
    BY DEF TickStart
  <1> HIDE DEF start
  <1>4. PrefixJobs(start, queue, leased, allows, Len(leased), f)
    BY <1>1, PrefixJobsExist
  <1>5. SoundBatch(start) /\ Leasable(start.job, queue, leased)
    BY <1>3 DEF start
  <1> HIDE DEF f
  <1>6. Len(leased) \in 0 .. Len(leased)
    BY <1>1
  <1>7. JobsReached(start, queue, leased, Len(leased), f[Len(leased)])
    BY <1>4, <1>5, <1>6, PrefixJobsReached
  <1> QED BY <1>2, <1>7 DEF start

-----------------------------------------------------------------------------
(* The queue: what a tick leases *)

Urgency == {p \in (DOMAIN queue) \X (DOMAIN queue) : MoreUrgent(p[1], p[2])}

RoundRobin(cursor) ==
  {p \in (DOMAIN cursor) \X (DOMAIN cursor) : LeasedBefore(cursor, p[1], p[2])}

\* Every due job is of a workspace, whose tier is a number.
LEMMA DueTier ==
  ASSUME queue \in Seq(Jobs), NEW i \in DOMAIN queue
  PROVE  WorkspaceAt(i) \in Workspaces /\ Tier[WorkspaceAt(i)] \in Nat /\ i \in Nat
  <1>1. queue[i] \in Jobs /\ i \in Nat
    OBVIOUS
  <1>2. \E v \in Workspaces : queue[i] \in JobsOf[v]
    BY <1>1 DEF Jobs
  <1>3. WorkspaceAt(i) = CHOOSE v \in Workspaces : queue[i] \in JobsOf[v]
    BY <1>1 DEF WorkspaceAt, WorkspaceOf
  <1>4. WorkspaceAt(i) \in Workspaces
    BY <1>2, <1>3
  <1> QED BY <1>1, <1>4, QueueAssumption

\* The order of the query is total: tier, then run_after.
LEMMA UrgencyOrders ==
  ASSUME queue \in Seq(Jobs)
  PROVE  /\ IsFiniteSet(DOMAIN queue) /\ Orders(Urgency, DOMAIN queue)
         /\ \A i, k \in DOMAIN queue : <<i, k>> \in Urgency <=> MoreUrgent(i, k)
  <1>1. \A i, k \in DOMAIN queue : <<i, k>> \in Urgency <=> MoreUrgent(i, k)
    BY DEF Urgency
  <1>2. DOMAIN queue = 1 .. Len(queue) /\ Len(queue) \in Nat
    OBVIOUS
  <1>3. IsFiniteSet(DOMAIN queue)
    BY <1>2, FS_Interval
  <1>4. ASSUME NEW i \in DOMAIN queue PROVE ~MoreUrgent(i, i)
    BY <1>4, DueTier DEF MoreUrgent
  <1>5. ASSUME NEW i \in DOMAIN queue, NEW k \in DOMAIN queue
        PROVE  i = k \/ MoreUrgent(i, k) \/ MoreUrgent(k, i)
    BY <1>5, DueTier DEF MoreUrgent
  <1>6. ASSUME NEW i \in DOMAIN queue, NEW k \in DOMAIN queue, NEW l \in DOMAIN queue,
               MoreUrgent(i, k), MoreUrgent(k, l)
        PROVE  MoreUrgent(i, l)
    BY <1>6, DueTier DEF MoreUrgent
  <1> QED BY <1>1, <1>3, <1>4, <1>5, <1>6 DEF Orders

\* What the query fetches is finite, with the number of those before it in the
\* list of its workspace for the cursor of each.
LEMMA CursorsOfCandidates ==
  ASSUME queue \in Seq(Jobs), NEW c, c \subseteq DOMAIN queue, NEW cursor, cursor = Cursors(c)
  PROVE  /\ IsFiniteSet(c) /\ DOMAIN cursor = c
         /\ \A i \in c : cursor[i] \in Nat /\ cursor[i] = Cardinality(Below(Urgency, Peers(c, i), i))
         /\ \A i \in c : i \in Peers(c, i) /\ Peers(c, i) \subseteq c
                          /\ IsFiniteSet(Peers(c, i)) /\ Orders(Urgency, Peers(c, i))
  <1>1. IsFiniteSet(c)
    BY UrgencyOrders, FS_Subset
  <1>2. ASSUME NEW i \in c
        PROVE  /\ i \in Peers(c, i) /\ Peers(c, i) \subseteq c
               /\ IsFiniteSet(Peers(c, i)) /\ Orders(Urgency, Peers(c, i))
    <2>1. i \in Peers(c, i) /\ Peers(c, i) \subseteq c
      BY DEF Peers
    <2>2. Peers(c, i) \subseteq DOMAIN queue
      BY <2>1
    <2> QED BY <1>1, <2>1, <2>2, UrgencyOrders, PartOrdered, FS_Subset
  <1>3. ASSUME NEW i \in c
        PROVE  cursor[i] \in Nat /\ cursor[i] = Cardinality(Below(Urgency, Peers(c, i), i))
    <2>1. {k \in Peers(c, i) : MoreUrgent(k, i)} = Below(Urgency, Peers(c, i), i)
      BY <1>2, UrgencyOrders DEF Below
    <2>2. cursor[i] = Cardinality(Below(Urgency, Peers(c, i), i))
      BY <2>1 DEF Cursors
    <2> QED BY <1>2, <2>2, BelowNat
  <1>4. DOMAIN cursor = c
    BY DEF Cursors
  <1> QED BY <1>1, <1>2, <1>3, <1>4

\* The round robin is a total order of the candidates: jobs with the same
\* cursor are of different workspaces.
LEMMA RoundRobinOrders ==
  ASSUME queue \in Seq(Jobs), NEW c, c \subseteq DOMAIN queue, NEW cursor, cursor = Cursors(c)
  PROVE  /\ Orders(RoundRobin(cursor), c)
         /\ \A i, k \in c : <<i, k>> \in RoundRobin(cursor) <=> LeasedBefore(cursor, i, k)
  <1>1. /\ IsFiniteSet(c) /\ DOMAIN cursor = c
        /\ \A i \in c : cursor[i] \in Nat /\ cursor[i] = Cardinality(Below(Urgency, Peers(c, i), i))
        /\ \A i \in c : i \in Peers(c, i) /\ Peers(c, i) \subseteq c
                         /\ IsFiniteSet(Peers(c, i)) /\ Orders(Urgency, Peers(c, i))
    BY CursorsOfCandidates
  <1>2. Orders(Urgency, c) /\ \A i, k \in c : <<i, k>> \in Urgency <=> MoreUrgent(i, k)
    BY UrgencyOrders, PartOrdered
  <1> DEFINE Earlier(i, k) ==
               \E first \in Peers(c, i) : \A l \in Peers(c, k) : <<first, l>> \in Urgency
  <1>3. ASSUME NEW i \in c, NEW k \in c
        PROVE  LeasedBefore(cursor, i, k)
                 <=> cursor[i] < cursor[k] \/ (cursor[i] = cursor[k] /\ Earlier(i, k))
    BY <1>1, <1>2, <1>3 DEF LeasedBefore
  <1>4. ASSUME NEW i \in c, NEW k \in c, i # k, WorkspaceAt(i) = WorkspaceAt(k)
        PROVE  cursor[i] # cursor[k]
    <2> DEFINE P == Peers(c, i)
    <2>1. P = Peers(c, k)
      BY <1>4 DEF Peers
    <2>2. i \in P /\ k \in P /\ IsFiniteSet(P) /\ Orders(Urgency, P)
      BY <1>1, <2>1
    <2>3. /\ cursor[i] = Cardinality(Below(Urgency, P, i)) /\ cursor[i] \in Nat
          /\ cursor[k] = Cardinality(Below(Urgency, P, k)) /\ cursor[k] \in Nat
      BY <1>1, <2>1
    <2> HIDE DEF P
    <2>4. <<i, k>> \in Urgency \/ <<k, i>> \in Urgency
      BY <1>4, <2>2 DEF Orders
    <2>5. cursor[i] < cursor[k] \/ cursor[k] < cursor[i]
      BY <2>2, <2>3, <2>4, BelowGrows
    <2> QED BY <2>3, <2>5
  <1>5. ASSUME NEW i \in c PROVE ~Earlier(i, i)
    BY <1>1, <1>2, <1>5 DEF Orders
  <1>6. ASSUME NEW i \in c, NEW k \in c, NEW l \in c, Earlier(i, k), Earlier(k, l)
        PROVE  Earlier(i, l)
    <2>1. PICK f \in Peers(c, i) : \A x \in Peers(c, k) : <<f, x>> \in Urgency
      BY <1>6
    <2>2. PICK g \in Peers(c, k) : \A x \in Peers(c, l) : <<g, x>> \in Urgency
      BY <1>6
    <2>3. f \in c /\ g \in c /\ Peers(c, l) \subseteq c /\ <<f, g>> \in Urgency
      BY <1>1, <2>1, <2>2
    <2>4. \A x \in Peers(c, l) : <<f, x>> \in Urgency
      BY <1>2, <2>2, <2>3 DEF Orders
    <2> QED BY <2>1, <2>4
  <1>7. ASSUME NEW i \in c, NEW k \in c, WorkspaceAt(i) # WorkspaceAt(k)
        PROVE  Earlier(i, k) \/ Earlier(k, i)
    <2>1. PICK f \in Peers(c, i) : \A x \in Peers(c, i) : x = f \/ <<f, x>> \in Urgency
      <3> DEFINE P == Peers(c, i)
      <3>1. P # {} /\ IsFiniteSet(P) /\ Orders(Urgency, P)
        BY <1>1
      <3> HIDE DEF P
      <3>2. \E f \in P : \A x \in P : x = f \/ <<f, x>> \in Urgency
        BY <3>1, FirstIn
      <3> QED BY <3>2 DEF P
    <2>2. PICK g \in Peers(c, k) : \A x \in Peers(c, k) : x = g \/ <<g, x>> \in Urgency
      <3> DEFINE P == Peers(c, k)
      <3>1. P # {} /\ IsFiniteSet(P) /\ Orders(Urgency, P)
        BY <1>1
      <3> HIDE DEF P
      <3>2. \E g \in P : \A x \in P : x = g \/ <<g, x>> \in Urgency
        BY <3>1, FirstIn
      <3> QED BY <3>2 DEF P
    <2>3. f # g /\ f \in c /\ g \in c /\ Peers(c, i) \subseteq c /\ Peers(c, k) \subseteq c
      BY <1>1, <1>7 DEF Peers
    <2>4. CASE <<f, g>> \in Urgency
      <3>1. \A x \in Peers(c, k) : <<f, x>> \in Urgency
        BY <1>2, <2>2, <2>3, <2>4 DEF Orders
      <3> QED BY <2>1, <3>1
    <2>5. CASE <<g, f>> \in Urgency
      <3>1. \A x \in Peers(c, i) : <<g, x>> \in Urgency
        BY <1>2, <2>1, <2>3, <2>5 DEF Orders
      <3> QED BY <2>2, <3>1
    <2> QED BY <1>2, <2>3, <2>4, <2>5 DEF Orders
  <1> HIDE DEF Earlier
  <1>8. \A i, k \in c : <<i, k>> \in RoundRobin(cursor) <=> LeasedBefore(cursor, i, k)
    BY <1>1 DEF RoundRobin
  <1>9. ASSUME NEW i \in c PROVE <<i, i>> \notin RoundRobin(cursor)
    BY <1>1, <1>3, <1>5, <1>8, <1>9
  <1>10. ASSUME NEW i \in c, NEW k \in c
         PROVE  i = k \/ <<i, k>> \in RoundRobin(cursor) \/ <<k, i>> \in RoundRobin(cursor)
    <2>1. CASE cursor[i] # cursor[k]
      <3>1. cursor[i] < cursor[k] \/ cursor[k] < cursor[i]
        BY <1>1, <2>1
      <3> QED BY <1>3, <1>8, <3>1
    <2>2. CASE cursor[i] = cursor[k]
      BY <1>3, <1>4, <1>7, <1>8, <2>2
    <2> QED BY <2>1, <2>2
  <1>11. ASSUME NEW i \in c, NEW k \in c, NEW l \in c,
                <<i, k>> \in RoundRobin(cursor), <<k, l>> \in RoundRobin(cursor)
         PROVE  <<i, l>> \in RoundRobin(cursor)
    <2>1. cursor[i] \in Nat /\ cursor[k] \in Nat /\ cursor[l] \in Nat
      BY <1>1
    <2>2. cursor[i] < cursor[k] \/ (cursor[i] = cursor[k] /\ Earlier(i, k))
      BY <1>3, <1>8, <1>11
    <2>3. cursor[k] < cursor[l] \/ (cursor[k] = cursor[l] /\ Earlier(k, l))
      BY <1>3, <1>8, <1>11
    <2>4. cursor[i] < cursor[l] \/ (cursor[i] = cursor[l] /\ Earlier(i, l))
      BY <1>6, <2>1, <2>2, <2>3
    <2> QED BY <1>3, <1>8, <2>4
  <1> QED BY <1>8, <1>9, <1>10, <1>11 DEF Orders

\* The allowance of a workspace is never zero.
LEMMA TickLimitPositive ==
  ASSUME NEW v
  PROVE  EffectiveTickLimit(v) \in Nat \ {0}
  <1> DEFINE half == PerTick \div 2
  <1>1. PerTick \in Nat \ {0} /\ half \in Nat
    BY QueueAssumption
  <1> HIDE DEF half
  <1>2. \E x \in {1, half} : \A y \in {1, half} : x >= y
    BY <1>1
  <1>3. Max({1, half}) \in {1, half} /\ \A y \in {1, half} : Max({1, half}) >= y
    BY <1>2 DEF Max
  <1>4. Max({1, half}) \in Nat \ {0}
    BY <1>1, <1>3
  <1> QED BY <1>1, <1>4 DEF EffectiveTickLimit, half

(* The most urgent jobs that the query returns.                            *)
Fetched == FirstOf(Urgency, DOMAIN queue, 3 * SchedulerBatch)

\* A tick fetches the first of the due jobs and leases the first of those its
\* limits allow.
LEMMA TickLeasesFirst ==
  ASSUME queue \in Seq(Jobs), NEW c, c = Candidates, NEW cursor, cursor = Cursors(c)
  PROVE  /\ c = Fetched /\ c \subseteq DOMAIN queue
         /\ Allowed(cursor) \subseteq c /\ IsFiniteSet(Allowed(cursor))
         /\ Orders(RoundRobin(cursor), Allowed(cursor))
         /\ Leased(cursor) = FirstOf(RoundRobin(cursor), Allowed(cursor), SchedulerBatch)
         /\ LeaseOrder(cursor) = Listings(RoundRobin(cursor), Leased(cursor))
  <1> DEFINE A == Allowed(cursor)
             L == Leased(cursor)
             R == RoundRobin(cursor)
  <1>1. ASSUME NEW i \in DOMAIN queue
        PROVE  {k \in DOMAIN queue : MoreUrgent(k, i)} = Below(Urgency, DOMAIN queue, i)
    BY UrgencyOrders DEF Below
  <1>2. c = Fetched /\ c \subseteq DOMAIN queue
    BY <1>1 DEF Candidates, Fetched, FirstOf
  <1>3. /\ Orders(R, c) /\ IsFiniteSet(c) /\ DOMAIN cursor = c
        /\ \A i, k \in c : <<i, k>> \in R <=> LeasedBefore(cursor, i, k)
    BY <1>2, RoundRobinOrders, CursorsOfCandidates
  <1>4. A \subseteq c
    BY <1>3 DEF Allowed
  <1>5. L = {i \in A : Cardinality({k \in A : LeasedBefore(cursor, k, i)}) < SchedulerBatch}
    BY DEF Leased
  <1>6. LeaseOrder(cursor) = {s \in [1 .. Cardinality(L) -> L] :
           \A m, n \in DOMAIN s : m < n => LeasedBefore(cursor, s[m], s[n])}
    BY DEF LeaseOrder
  <1> HIDE DEF A, L, R
  <1>7. IsFiniteSet(A) /\ Orders(R, A)
    BY <1>3, <1>4, FS_Subset, PartOrdered
  <1>8. ASSUME NEW i \in A PROVE {k \in A : LeasedBefore(cursor, k, i)} = Below(R, A, i)
    BY <1>3, <1>4 DEF Below
  <1>9. L = FirstOf(R, A, SchedulerBatch) /\ L \subseteq A
    BY <1>5, <1>8 DEF FirstOf
  <1>10. ASSUME NEW s \in [1 .. Cardinality(L) -> L]
         PROVE  (\A m, n \in DOMAIN s : m < n => LeasedBefore(cursor, s[m], s[n]))
                  <=> (\A m, n \in DOMAIN s : m < n => <<s[m], s[n]>> \in R)
    <2>1. \A m \in DOMAIN s : s[m] \in c
      BY <1>4, <1>9
    <2> QED BY <1>3, <2>1
  <1>11. LeaseOrder(cursor) = Listings(R, L)
    BY <1>6, <1>10 DEF Listings
  <1> QED BY <1>2, <1>4, <1>7, <1>9, <1>11 DEF A, L, R

(* What poll_and_lease promises of a tick: a workspace has its n-th job    *)
(* only when the others have had their (n-1)-th, older jobs of a workspace *)
(* come first, no workspace and no tick has more than its limit, and no    *)
(* place of the batch is left empty while a job is allowed.                *)
TickShares ==
  LET cursor == Cursors(Candidates)
      leased == Leased(cursor)
  IN /\ \A i \in leased, k \in Allowed(cursor) : cursor[k] < cursor[i] => k \in leased
     /\ \A i \in leased, k \in DOMAIN queue : WorkspaceAt(k) = WorkspaceAt(i) /\ k < i => k \in leased
     /\ \A v \in Workspaces :
          Cardinality({i \in leased : WorkspaceAt(i) = v}) <= EffectiveTickLimit(v)
     /\ Cardinality(leased) <= SchedulerBatch
     /\ leased = Allowed(cursor) \/ Cardinality(leased) = SchedulerBatch

(* Whenever a job is due, the tick has an order to lease in, and the most  *)
(* urgent due job is in it.                                                *)
TickTakesMostUrgent ==
  queue # <<>> =>
    /\ LeaseOrder(Cursors(Candidates)) # {}
    /\ \A s \in LeaseOrder(Cursors(Candidates)) :
         \E i \in Range(s) : \A k \in DOMAIN queue : k = i \/ MoreUrgent(i, k)

\* The first job of a workspace's list is nobody's second: of two jobs of one
\* workspace the one due earlier has the smaller cursor.
LEMMA OlderFirst ==
  ASSUME queue \in Seq(Jobs), NEW c, c = Candidates, NEW cursor, cursor = Cursors(c),
         NEW i \in c, NEW k \in DOMAIN queue, WorkspaceAt(k) = WorkspaceAt(i), k < i
  PROVE  k \in c /\ cursor[k] < cursor[i] /\ cursor[k] \in Nat /\ cursor[i] \in Nat
  <1>1. c = Fetched /\ c \subseteq DOMAIN queue
    BY TickLeasesFirst
  <1>2. MoreUrgent(k, i)
    BY <1>1, DueTier DEF MoreUrgent
  <1>3. <<k, i>> \in Urgency /\ IsFiniteSet(DOMAIN queue) /\ Orders(Urgency, DOMAIN queue)
    BY <1>1, <1>2, UrgencyOrders
  <1>4. 3 * SchedulerBatch \in Nat
    BY QueueAssumption
  <1>5. k \in c
    BY <1>1, <1>3, <1>4, FirstOfSize DEF Fetched
  <1> DEFINE P == Peers(c, i)
  <1>6. P = Peers(c, k)
    BY DEF Peers
  <1>7. i \in P /\ k \in P /\ IsFiniteSet(P) /\ Orders(Urgency, P)
    BY <1>1, <1>5, <1>6, CursorsOfCandidates
  <1>8. /\ cursor[i] = Cardinality(Below(Urgency, P, i)) /\ cursor[i] \in Nat
        /\ cursor[k] = Cardinality(Below(Urgency, P, k)) /\ cursor[k] \in Nat
    BY <1>1, <1>5, <1>6, CursorsOfCandidates
  <1> HIDE DEF P
  <1> QED BY <1>3, <1>5, <1>7, <1>8, BelowGrows

\* No workspace has more jobs of a tick than its allowance.
LEMMA AllowanceKept ==
  ASSUME queue \in Seq(Jobs), NEW c, c = Candidates, NEW cursor, cursor = Cursors(c),
         NEW v \in Workspaces, NEW L, L \subseteq Allowed(cursor)
  PROVE  Cardinality({i \in L : WorkspaceAt(i) = v}) <= EffectiveTickLimit(v)
  <1> DEFINE S == {i \in L : WorkspaceAt(i) = v}
             n == EffectiveTickLimit(v)
  <1>1. n \in Nat
    BY TickLimitPositive
  <1>2. CASE S = {}
    <2>1. Cardinality(S) = 0
      BY <1>2, FS_EmptySet
    <2> QED BY <1>1, <2>1
  <1>3. CASE S # {}
    <2>1. PICK j \in S : TRUE
      BY <1>3
    <2>2. c \subseteq DOMAIN queue /\ Allowed(cursor) \subseteq c
      BY TickLeasesFirst
    <2>3. DOMAIN cursor = c
      BY <2>2, CursorsOfCandidates
    <2> DEFINE P == Peers(c, j)
               T == FirstOf(Urgency, P, n)
    <2>4. IsFiniteSet(P) /\ Orders(Urgency, P)
      BY <2>1, <2>2, CursorsOfCandidates
    <2>5. ASSUME NEW i \in S PROVE i \in T
      <3>1. i \in c /\ cursor[i] < n /\ WorkspaceAt(i) = WorkspaceAt(j)
        BY <2>1, <2>2 DEF Allowed
      <3>2. Peers(c, i) = P /\ i \in P
        BY <3>1 DEF Peers
      <3>3. cursor[i] = Cardinality(Below(Urgency, P, i))
        BY <2>2, <3>1, <3>2, CursorsOfCandidates
      <3> HIDE DEF P, n
      <3> QED BY <3>1, <3>2, <3>3 DEF FirstOf
    <2> HIDE DEF P, n
    <2>6. IsFiniteSet(T) /\ Cardinality(T) <= n /\ Cardinality(T) \in Nat
      BY <1>1, <2>4, FirstOfSize
    <2> HIDE DEF T, S
    <2>7. S \subseteq T
      BY <2>5
    <2>8. Cardinality(S) <= Cardinality(T) /\ IsFiniteSet(S)
      BY <2>6, <2>7, FS_Subset
    <2>9. Cardinality(S) \in Nat
      BY <2>8, FS_CardinalityType
    <2>10. Cardinality(S) <= n
      BY <1>1, <2>6, <2>8, <2>9
    <2> QED BY <2>10 DEF S, n
  <1> QED BY <1>2, <1>3

\* The round robin and its limits, for a queue of any length.
LEMMA Shares ==
  ASSUME queue \in Seq(Jobs)
  PROVE  TickShares
  <1> DEFINE c == Candidates
             cursor == Cursors(c)
             L == Leased(cursor)
             A == Allowed(cursor)
             R == RoundRobin(cursor)
  <1>1. /\ c \subseteq DOMAIN queue /\ A \subseteq c /\ IsFiniteSet(A) /\ Orders(R, A)
        /\ L = FirstOf(R, A, SchedulerBatch)
    BY TickLeasesFirst
  <1>2. \A i, k \in c : <<i, k>> \in R <=> LeasedBefore(cursor, i, k)
    BY <1>1, RoundRobinOrders
  <1>3. SchedulerBatch \in Nat
    BY QueueAssumption
  <1>4. \A i \in A : cursor[i] < EffectiveTickLimit(WorkspaceAt(i))
    BY DEF Allowed
  <1>5. \A i \in c, k \in DOMAIN queue :
          WorkspaceAt(k) = WorkspaceAt(i) /\ k < i =>
            k \in c /\ cursor[k] < cursor[i] /\ cursor[k] \in Nat /\ cursor[i] \in Nat
    BY OlderFirst
  <1>6. \A v \in Workspaces :
          Cardinality({i \in L : WorkspaceAt(i) = v}) <= EffectiveTickLimit(v)
    <2>1. L \subseteq A
      BY <1>1 DEF FirstOf
    <2> QED BY <2>1, AllowanceKept
  <1>7. ASSUME NEW i \in c, cursor[i] < EffectiveTickLimit(WorkspaceAt(i)) PROVE i \in A
    <2>1. DOMAIN cursor = c
      BY <1>1, CursorsOfCandidates
    <2> QED BY <1>7, <2>1 DEF Allowed
  <1>8. ASSUME NEW i \in c, NEW k \in c, cursor[i] < cursor[k] PROVE LeasedBefore(cursor, i, k)
    BY <1>8 DEF LeasedBefore
  <1> HIDE DEF c, cursor, A, L, R
  <1>9. /\ Cardinality(L) <= SchedulerBatch /\ L \subseteq A
        /\ \A i \in L, k \in A : <<k, i>> \in R => k \in L
        /\ L = A \/ Cardinality(L) = SchedulerBatch
    <2>1. L \subseteq A
      BY <1>1 DEF FirstOf
    <2> QED BY <1>1, <1>3, <2>1, FirstOfSize
  <1>10. \A i \in L, k \in A : cursor[k] < cursor[i] => k \in L
    BY <1>1, <1>2, <1>8, <1>9
  <1>11. ASSUME NEW i \in L, NEW k \in DOMAIN queue, WorkspaceAt(k) = WorkspaceAt(i), k < i
         PROVE  k \in L
    <2>1. k \in c /\ cursor[k] < cursor[i] /\ cursor[k] \in Nat /\ cursor[i] \in Nat
      BY <1>1, <1>5, <1>9, <1>11
    <2>2. cursor[i] < EffectiveTickLimit(WorkspaceAt(k)) /\ EffectiveTickLimit(WorkspaceAt(k)) \in Nat
      BY <1>4, <1>9, <1>11, TickLimitPositive
    <2>3. k \in A
      BY <1>7, <2>1, <2>2
    <2> QED BY <1>10, <2>1, <2>3
  <1> QED BY <1>6, <1>9, <1>10, <1>11 DEF TickShares, c, cursor, A, L

\* A sequence that is not the empty one has a first place.
LEMMA DomainNotEmpty ==
  ASSUME NEW T, NEW s \in Seq(T), s # <<>>
  PROVE  DOMAIN s # {}
  <1>1. Len(s) \in Nat /\ DOMAIN s = 1 .. Len(s)
    OBVIOUS
  <1>2. Len(s) # 0
    BY <1>1
  <1>3. 1 \in 1 .. Len(s)
    BY <1>1, <1>2
  <1> QED BY <1>1, <1>3

\* The most urgent job is fetched, is the first of its workspace, and no
\* workspace's turn comes before its own.
LEMMA MostUrgentTaken ==
  ASSUME queue \in Seq(Jobs)
  PROVE  TickTakesMostUrgent
  <1> DEFINE c == Candidates
             cursor == Cursors(c)
             L == Leased(cursor)
             A == Allowed(cursor)
             R == RoundRobin(cursor)
  <1>1. SUFFICES ASSUME queue # <<>> PROVE
          /\ LeaseOrder(cursor) # {}
          /\ \A s \in LeaseOrder(cursor) :
               \E i \in Range(s) : \A k \in DOMAIN queue : k = i \/ MoreUrgent(i, k)
    BY DEF TickTakesMostUrgent
  <1>2. DOMAIN queue # {} /\ IsFiniteSet(DOMAIN queue) /\ Orders(Urgency, DOMAIN queue)
    <2>1. DOMAIN queue # {}
      BY <1>1, DomainNotEmpty
    <2> QED BY <2>1, UrgencyOrders
  <1>3. PICK i \in DOMAIN queue : \A k \in DOMAIN queue : k = i \/ <<i, k>> \in Urgency
    BY <1>2, FirstIn
  <1>4. \A k \in DOMAIN queue : k = i \/ MoreUrgent(i, k)
    BY <1>3, UrgencyOrders
  <1>5. \A k \in DOMAIN queue : <<k, i>> \notin Urgency
    BY <1>2, <1>3 DEF Orders
  <1>6. /\ c = Fetched /\ c \subseteq DOMAIN queue /\ A \subseteq c /\ IsFiniteSet(A) /\ Orders(R, A)
        /\ L = FirstOf(R, A, SchedulerBatch) /\ LeaseOrder(cursor) = Listings(R, L)
    BY TickLeasesFirst
  <1>7. SchedulerBatch \in Nat /\ 0 < SchedulerBatch /\ 0 < 3 * SchedulerBatch
    BY QueueAssumption
  <1>8. ASSUME NEW S, S \subseteq DOMAIN queue PROVE Cardinality(Below(Urgency, S, i)) = 0
    <2>1. Below(Urgency, S, i) = {}
      BY <1>5, <1>8 DEF Below
    <2> QED BY <2>1, FS_EmptySet
  <1>9. i \in c
    <2>1. Cardinality(Below(Urgency, DOMAIN queue, i)) < 3 * SchedulerBatch
      BY <1>7, <1>8
    <2> QED BY <1>6, <2>1 DEF Fetched, FirstOf
  <1>10. /\ DOMAIN cursor = c
         /\ \A k \in c : cursor[k] \in Nat /\ cursor[k] = Cardinality(Below(Urgency, Peers(c, k), k))
         /\ \A k \in c : k \in Peers(c, k) /\ Peers(c, k) \subseteq c
    BY <1>6, CursorsOfCandidates
  <1>11. cursor[i] = 0
    <2>1. Peers(c, i) \subseteq DOMAIN queue
      BY <1>6, <1>9, <1>10
    <2> HIDE DEF c, cursor
    <2> QED BY <1>8, <1>9, <1>10, <2>1
  <1>12. i \in A
    <2>1. EffectiveTickLimit(WorkspaceAt(i)) \in Nat \ {0}
      BY TickLimitPositive
    <2>2. cursor[i] < EffectiveTickLimit(WorkspaceAt(i))
      BY <1>11, <2>1
    <2> QED BY <1>9, <1>10, <2>2 DEF Allowed
  <1>13. ASSUME NEW k \in c PROVE ~LeasedBefore(cursor, k, i)
    <2>1. cursor[k] \in Nat /\ ~(cursor[k] < cursor[i])
      BY <1>10, <1>11
    <2>2. ASSUME NEW first \in Peers(c, k) PROVE ~MoreUrgent(first, i)
      <3>1. first \in DOMAIN queue
        BY <1>6, <1>10, <1>13
      <3> QED BY <1>5, <3>1, UrgencyOrders
    <2>3. i \in Peers(DOMAIN cursor, i)
      BY <1>9, <1>10
    <2>4. \A first \in Peers(DOMAIN cursor, k) : ~MoreUrgent(first, i)
      BY <1>10, <2>2
    <2> HIDE DEF cursor, c
    <2> QED BY <2>1, <2>3, <2>4 DEF LeasedBefore
  <1>14. \A x, y \in c : <<x, y>> \in R <=> LeasedBefore(cursor, x, y)
    BY <1>6, RoundRobinOrders
  <1> HIDE DEF c, cursor, A, L, R
  <1>15. i \in L
    <2>1. Below(R, A, i) = {}
      BY <1>6, <1>9, <1>13, <1>14 DEF Below
    <2>2. Cardinality(Below(R, A, i)) < SchedulerBatch
      BY <1>7, <2>1, FS_EmptySet
    <2> QED BY <1>6, <1>12, <2>2 DEF FirstOf
  <1>16. IsFiniteSet(L) /\ Orders(R, L)
    <2>1. L \subseteq A
      BY <1>6 DEF FirstOf
    <2> QED BY <1>6, <2>1, FS_Subset, PartOrdered
  <1>17. Listings(R, L) # {}
    BY <1>16, ListingExists
  <1>18. \A s \in Listings(R, L) : Range(s) = L
    BY <1>16, ListingComplete
  <1> QED BY <1>4, <1>6, <1>15, <1>17, <1>18

-----------------------------------------------------------------------------
(* The queue: what a tick leaves in it *)

(* f has what is kept of each prefix of q.                                 *)
PrefixKept(q, gone, m, f) ==
  f = [n \in 0 .. m |-> IF n = 0 THEN <<>>
                        ELSE IF n \in gone THEN f[n - 1] ELSE Append(f[n - 1], q[n])]

(* s has the first n of q, each once, but for those at the places in gone. *)
Kept(q, gone, n, s) ==
  /\ s \in Seq(Jobs)
  /\ \A m \in DOMAIN s : \E i \in 1 .. n : i \notin gone /\ s[m] = q[i]
  /\ \A i \in 1 .. n : i \notin gone => \E m \in DOMAIN s : s[m] = q[i]
  /\ \A m, n2 \in DOMAIN s : s[m] = s[n2] => m = n2

\* The recursion over the queue has a solution for every length.
LEMMA PrefixKeptExists ==
  ASSUME NEW q, NEW gone, NEW m \in Nat
  PROVE  \E f : PrefixKept(q, gone, m, f)
  <1> DEFINE Step(x, n) == IF n \in gone THEN x ELSE Append(x, q[n])
             B == {k \in Nat : ~ \E f : PrefixKept(q, gone, k, f)}
  <1>1. SUFFICES ASSUME B # {} PROVE FALSE
    OBVIOUS
  <1>2. PICK k \in B : \A l \in B : k <= l
    <2>1. B \subseteq Nat
      OBVIOUS
    <2> HIDE DEF B
    <2> QED BY <1>1, <2>1, SmallestNumber
  <1>3. k \in Nat /\ ~ \E f : PrefixKept(q, gone, k, f)
    OBVIOUS
  <1>4. CASE k = 0
    <2> DEFINE f == [n \in 0 .. 0 |-> <<>>]
    <2>1. PrefixKept(q, gone, k, f)
      BY <1>4 DEF PrefixKept
    <2> QED BY <1>3, <2>1
  <1>5. CASE k # 0
    <2>1. k - 1 \in Nat /\ k - 1 \notin B
      BY <1>2, <1>3, <1>5
    <2>2. PICK g : PrefixKept(q, gone, k - 1, g)
      BY <2>1
    <2> DEFINE last == Step(g[k - 1], k)
               f == [n \in 0 .. k |-> IF n = k THEN last ELSE g[n]]
    <2>3. \A n \in 0 .. k - 1 : g[n] = IF n = 0 THEN <<>> ELSE Step(g[n - 1], n)
      BY <2>2 DEF PrefixKept
    <2>4. f[k] = last /\ \A n \in 0 .. k - 1 : f[n] = g[n]
      <3> HIDE DEF last
      <3> QED BY <1>3
    <2>5. ASSUME NEW n \in 0 .. k
          PROVE  f[n] = IF n = 0 THEN <<>> ELSE Step(f[n - 1], n)
      <3> HIDE DEF f, Step
      <3>1. CASE n = k
        <4>1. f[n - 1] = g[k - 1] /\ n # 0
          BY <1>3, <1>5, <2>4, <3>1
        <4> QED BY <2>4, <3>1, <4>1
      <3>2. CASE n # k
        <4>1. n \in 0 .. k - 1 /\ (n # 0 => n - 1 \in 0 .. k - 1)
          BY <1>3, <3>2
        <4>2. f[n] = g[n] /\ (n # 0 => f[n - 1] = g[n - 1])
          BY <2>4, <4>1
        <4> QED BY <2>3, <4>1, <4>2
      <3> QED BY <3>1, <3>2
    <2>6. f = [n \in 0 .. k |-> f[n]]
      OBVIOUS
    <2> HIDE DEF f
    <2>7. PrefixKept(q, gone, k, f)
      BY <2>5, <2>6 DEF PrefixKept
    <2> QED BY <1>3, <2>7
  <1> QED BY <1>4, <1>5

\* Each prefix of the queue is kept but for the jobs that are gone.
LEMMA PrefixIsKept ==
  ASSUME NEW q \in Seq(Jobs), \A m, n \in DOMAIN q : q[m] = q[n] => m = n,
         NEW gone, NEW f, PrefixKept(q, gone, Len(q), f), NEW m \in 0 .. Len(q)
  PROVE  Kept(q, gone, m, f[m])
  <1> DEFINE B == {k \in 0 .. Len(q) : ~ Kept(q, gone, k, f[k])}
  <1>0. Len(q) \in Nat /\ DOMAIN q = 1 .. Len(q)
    OBVIOUS
  <1>1. SUFFICES ASSUME B # {} PROVE FALSE
    OBVIOUS
  <1>2. PICK k \in B : \A l \in B : k <= l
    <2>1. B \subseteq Nat
      BY <1>0
    <2> HIDE DEF B
    <2> QED BY <1>1, <2>1, SmallestNumber
  <1>3. k \in 0 .. Len(q) /\ ~ Kept(q, gone, k, f[k])
    OBVIOUS
  <1>4. f[k] = IF k = 0 THEN <<>> ELSE IF k \in gone THEN f[k - 1] ELSE Append(f[k - 1], q[k])
    BY <1>3 DEF PrefixKept
  <1>5. k # 0
    <2>1. Kept(q, gone, 0, <<>>)
      BY DEF Kept
    <2> QED BY <1>3, <1>4, <2>1
  <1>6. k - 1 \in 0 .. Len(q) /\ k - 1 \notin B /\ k \in DOMAIN q /\ k \in Nat
    BY <1>0, <1>2, <1>3, <1>5
  <1>7. Kept(q, gone, k - 1, f[k - 1])
    BY <1>6
  <1> DEFINE s == f[k - 1]
  <1>8. /\ s \in Seq(Jobs)
        /\ \A n \in DOMAIN s : \E i \in 1 .. k - 1 : i \notin gone /\ s[n] = q[i]
        /\ \A i \in 1 .. k - 1 : i \notin gone => \E n \in DOMAIN s : s[n] = q[i]
        /\ \A n, n2 \in DOMAIN s : s[n] = s[n2] => n = n2
    BY <1>7 DEF Kept
  <1> HIDE DEF s
  <1>9. CASE k \in gone
    <2>1. \A i \in 1 .. k : i \notin gone => i \in 1 .. k - 1
      BY <1>6, <1>9
    <2>2. \A i \in 1 .. k - 1 : i \in 1 .. k
      BY <1>6
    <2>3. Kept(q, gone, k, s)
      BY <1>8, <2>1, <2>2 DEF Kept
    <2> QED BY <1>3, <1>4, <1>5, <1>9, <2>3 DEF s
  <1>10. CASE k \notin gone
    <2> DEFINE t == Append(s, q[k])
    <2>1. q[k] \in Jobs
      BY <1>6
    <2>2. /\ t \in Seq(Jobs) /\ Len(s) \in Nat /\ DOMAIN s = 1 .. Len(s)
          /\ DOMAIN t = 1 .. Len(s) + 1 /\ t[Len(s) + 1] = q[k]
          /\ \A n \in DOMAIN s : t[n] = s[n]
      BY <1>8, <2>1
    <2> HIDE DEF t
    <2>3. ASSUME NEW n \in DOMAIN t PROVE n = Len(s) + 1 \/ (n \in DOMAIN s /\ t[n] = s[n])
      BY <2>2
    <2>4. ASSUME NEW n \in DOMAIN t PROVE \E i \in 1 .. k : i \notin gone /\ t[n] = q[i]
      <3>1. CASE n = Len(s) + 1
        <4>1. k \in 1 .. k
          BY <1>5, <1>6
        <4> QED BY <1>10, <2>2, <3>1, <4>1
      <3>2. CASE n \in DOMAIN s /\ t[n] = s[n]
        <4>1. PICK i \in 1 .. k - 1 : i \notin gone /\ s[n] = q[i]
          BY <1>8, <3>2
        <4>2. i \in 1 .. k
          BY <1>6
        <4> QED BY <3>2, <4>1, <4>2
      <3> QED BY <2>3, <3>1, <3>2
    <2>5. ASSUME NEW i \in 1 .. k, i \notin gone PROVE \E n \in DOMAIN t : t[n] = q[i]
      <3>1. CASE i = k
        <4>1. Len(s) + 1 \in DOMAIN t
          BY <2>2
        <4> QED BY <2>2, <3>1, <4>1
      <3>2. CASE i # k
        <4>1. i \in 1 .. k - 1
          BY <1>6, <3>2
        <4>2. PICK n \in DOMAIN s : s[n] = q[i]
          BY <1>8, <2>5, <4>1
        <4>3. n \in DOMAIN t /\ t[n] = s[n]
          BY <2>2
        <4> QED BY <4>2, <4>3
      <3> QED BY <3>1, <3>2
    <2>6. ASSUME NEW n \in DOMAIN s PROVE s[n] # q[k]
      <3>1. PICK i \in 1 .. k - 1 : s[n] = q[i]
        BY <1>8
      <3>2. i \in DOMAIN q /\ i # k
        BY <1>0, <1>6
      <3> QED BY <1>6, <3>1, <3>2
    <2>7. ASSUME NEW n \in DOMAIN t, NEW n2 \in DOMAIN t, t[n] = t[n2] PROVE n = n2
      BY <1>8, <2>2, <2>3, <2>6, <2>7
    <2>8. Kept(q, gone, k, t)
      BY <2>2, <2>4, <2>5, <2>7 DEF Kept
    <2> QED BY <1>3, <1>4, <1>5, <1>10, <2>8 DEF s, t
  <1> QED BY <1>9, <1>10

\* The queue without the jobs at some places has the others, each once.
LEMMA QueueWithoutKeeps ==
  ASSUME queue \in Seq(Jobs), \A m, n \in DOMAIN queue : queue[m] = queue[n] => m = n,
         NEW gone
  PROVE  Kept(queue, gone, Len(queue), QueueWithout(gone))
  <1> DEFINE f == CHOOSE g : PrefixKept(queue, gone, Len(queue), g)
  <1>1. QueueWithout(gone) = f[Len(queue)]
    BY DEF QueueWithout, PrefixKept
  <1>2. Len(queue) \in Nat /\ Len(queue) \in 0 .. Len(queue)
    OBVIOUS
  <1>3. PrefixKept(queue, gone, Len(queue), f)
    BY <1>2, PrefixKeptExists
  <1> HIDE DEF f
  <1> QED BY <1>1, <1>2, <1>3, PrefixIsKept

-----------------------------------------------------------------------------
(* The queue: its invariant *)

QueueInv ==
  /\ JobsOK(job, row)
  /\ queue \in Seq(Jobs)
  /\ \A m, n \in DOMAIN queue : queue[m] = queue[n] => m = n
  /\ \A n \in DOMAIN queue : job[queue[n]].status = "pending"
  /\ pressure \in [Workspaces -> Pressure]

(* What a tick does to the jobs: each one it leases leaves the queue and   *)
(* is settled or put off, for an attempt at most; the others stay as they  *)
(* are, in the queue if they were in it.                                   *)
TickSpends ==
  \A i \in DOMAIN queue :
    LET j == queue[i]
    IN IF i \in Leased(Cursors(Candidates))
       THEN j \notin Range(queue') /\ Spent(job[j], job'[j])
       ELSE j \in Range(queue') /\ job'[j] = job[j] /\ row'[j] = row[j]

\* The places a tick leases from are those of different pending jobs.
LEMMA TickLeasable ==
  ASSUME QueueInv, NEW leased \in LeaseOrder(Cursors(Candidates))
  PROVE  Leasable(job, queue, leased) /\ Range(leased) = Leased(Cursors(Candidates))
  <1> DEFINE c == Candidates
             cursor == Cursors(c)
             L == Leased(cursor)
             A == Allowed(cursor)
             R == RoundRobin(cursor)
  <1>1. queue \in Seq(Jobs)
    BY DEF QueueInv
  <1>2. /\ c \subseteq DOMAIN queue /\ A \subseteq c /\ IsFiniteSet(A) /\ Orders(R, A)
        /\ L = FirstOf(R, A, SchedulerBatch) /\ LeaseOrder(cursor) = Listings(R, L)
    BY <1>1, TickLeasesFirst
  <1> HIDE DEF c, cursor, A, L, R
  <1>3. L \subseteq A
    BY <1>2 DEF FirstOf
  <1>4. IsFiniteSet(L) /\ Orders(R, L) /\ leased \in Listings(R, L)
    BY <1>2, <1>3, FS_Subset, PartOrdered DEF cursor, c
  <1>5. /\ leased \in Seq(L) /\ Range(leased) = L
        /\ \A m, n \in DOMAIN leased : leased[m] = leased[n] => m = n
    BY <1>4, ListingComplete
  <1>6. leased \in Seq(DOMAIN queue)
    BY <1>2, <1>3, <1>5
  <1>7. Leasable(job, queue, leased)
    BY <1>1, <1>5, <1>6 DEF Leasable, QueueInv
  <1> QED BY <1>5, <1>7 DEF L, cursor, c

\* A tick keeps the invariant and does to every job what it promises.
LEMMA QueueTickStep == QueueInv /\ SchedulerTick => QueueInv' /\ TickSpends
  <1> SUFFICES ASSUME QueueInv, SchedulerTick PROVE QueueInv' /\ TickSpends
    OBVIOUS
  <1>0. PICK leased \in LeaseOrder(Cursors(Candidates)) :
          /\ queue' = QueueWithout(Range(leased))
          /\ \E allows \in [DOMAIN leased -> Answers] :
             \E end \in {TickProcessed(leased, allows)} :
               job' = end.job /\ row' = end.row
    BY DEF SchedulerTick, Answers
  <1>1. PICK allows \in [DOMAIN leased -> Answers] :
          LET end == TickProcessed(leased, allows)
          IN  job' = end.job /\ row' = end.row
    BY <1>0
  <1> DEFINE end == TickProcessed(leased, allows)
             gone == Range(leased)
             n == Len(leased)
  <1>2. Leasable(job, queue, leased) /\ gone = Leased(Cursors(Candidates))
    BY TickLeasable
  <1>3. /\ queue \in Seq(Jobs) /\ Len(queue) \in Nat /\ DOMAIN queue = 1 .. Len(queue)
        /\ \A k, m \in DOMAIN queue : queue[k] = queue[m] => k = m
    BY DEF QueueInv
  <1>4. SoundBatch(TickStart)
    BY <1>3 DEF TickStart, SoundBatch, Batch, QueueInv, JobsOK
  <1>5. JobsReached(TickStart, queue, leased, n, end)
    BY <1>2, <1>4, TickReached
  <1>6. TickStart.job = job /\ TickStart.row = row
    BY DEF TickStart
  <1>7. /\ queue' = QueueWithout(gone) /\ job' = end.job /\ row' = end.row
    BY <1>0, <1>1
  <1>8. Kept(queue, gone, Len(queue), QueueWithout(gone))
    BY <1>3, QueueWithoutKeeps
  <1>9. /\ leased \in Seq(DOMAIN queue) /\ n \in Nat /\ DOMAIN leased = 1 .. n
        /\ gone = {leased[m] : m \in 1 .. n}
    BY <1>2 DEF Leasable, Range
  <1> HIDE DEF end, gone, n
  <1>10. /\ SoundBatch(end)
         /\ \A j \in Jobs : (\A m \in 1 .. n : queue[leased[m]] # j)
                              => job'[j] = job[j] /\ row'[j] = row[j]
         /\ \A m \in 1 .. n : Spent(job[queue[leased[m]]], job'[queue[leased[m]]])
    BY <1>5, <1>6, <1>7 DEF JobsReached
  <1>11. ASSUME NEW i \in DOMAIN queue, i \notin gone
         PROVE  queue[i] \in Jobs /\ job'[queue[i]] = job[queue[i]] /\ row'[queue[i]] = row[queue[i]]
    <2>1. \A m \in 1 .. n : leased[m] \in DOMAIN queue /\ leased[m] # i
      BY <1>9, <1>11
    <2>2. \A m \in 1 .. n : queue[leased[m]] # queue[i]
      BY <1>3, <2>1
    <2> QED BY <1>3, <1>10, <2>2
  <1>12. ASSUME NEW i \in gone PROVE Spent(job[queue[i]], job'[queue[i]])
    BY <1>9, <1>10, <1>12
  <1>13. /\ queue' \in Seq(Jobs)
         /\ \A m \in DOMAIN queue' : \E i \in DOMAIN queue : i \notin gone /\ queue'[m] = queue[i]
         /\ \A i \in DOMAIN queue : i \notin gone => \E m \in DOMAIN queue' : queue'[m] = queue[i]
         /\ \A k, m \in DOMAIN queue' : queue'[k] = queue'[m] => k = m
    BY <1>3, <1>7, <1>8 DEF Kept
  <1>14. QueueInv'
    <2>1. JobsOK(job, row)'
      BY <1>7, <1>10 DEF SoundBatch, JobsOK
    <2>2. ASSUME NEW m \in DOMAIN queue' PROVE job'[queue'[m]].status = "pending"
      <3>1. PICK i \in DOMAIN queue : i \notin gone /\ queue'[m] = queue[i]
        BY <1>13
      <3> QED BY <1>11, <3>1 DEF QueueInv
    <2>3. pressure' \in [Workspaces -> Pressure]
      BY DEF SchedulerTick, QueueInv
    <2> QED BY <1>13, <2>1, <2>2, <2>3 DEF QueueInv
  <1>15. ASSUME NEW i \in DOMAIN queue, i \in gone PROVE queue[i] \notin Range(queue')
    BY <1>3, <1>13, <1>15 DEF Range
  <1>16. ASSUME NEW i \in DOMAIN queue, i \notin gone PROVE queue[i] \in Range(queue')
    BY <1>13, <1>16 DEF Range
  <1>17. TickSpends
    BY <1>2, <1>11, <1>12, <1>15, <1>16 DEF TickSpends
  <1> QED BY <1>14, <1>17

\* Every step of the queue keeps the invariant.
LEMMA QueueStep == QueueInv /\ QueueNext => QueueInv'
  <1> SUFFICES ASSUME QueueInv, QueueNext PROVE QueueInv'
    OBVIOUS
  <1>0. NoWorkerMaxRetries \in Nat \ {0}
    BY QueueAssumption
  <1>1. ASSUME NEW j \in Jobs, ScheduleStage(j) PROVE QueueInv'
    <2>1. j \notin Range(queue)
      BY <1>1 DEF QueueInv, ScheduleStage, Range
    <2>2. /\ job[j] \in JobRow /\ job' = [job EXCEPT ![j] = [job[j] EXCEPT !.status = "pending"]]
          /\ job[j].status = "new" /\ row' = row /\ queue' = Append(queue, j)
          /\ pressure' = pressure
      BY <1>1 DEF QueueInv, JobsOK, ScheduleStage
    <2> DEFINE x == [job[j] EXCEPT !.status = "pending"]
    <2>3. x \in JobRow /\ x.status = "pending" /\ x.attempt = job[j].attempt
      BY <2>2 DEF JobRow
    <2> HIDE DEF x
    <2>4. /\ job' \in [Jobs -> JobRow] /\ job'[j] = x
          /\ \A k \in Jobs : k # j => job'[k] = job[k]
      BY <2>2, <2>3 DEF QueueInv, JobsOK, x
    <2>5. JobsOK(job, row)'
      BY <2>2, <2>3, <2>4 DEF QueueInv, JobsOK
    <2> QED BY <2>1, <2>2, <2>3, <2>4, <2>5 DEF QueueInv, Range
  <1>2. ASSUME NEW j \in Jobs, ComesDue(j) PROVE QueueInv'
    BY <1>2 DEF QueueInv, ComesDue, JobsOK, Range
  <1>3. ASSUME NEW j \in Jobs, RowMoves(j) PROVE QueueInv'
    <2>1. /\ row[j] # "none"
          /\ \E r \in RowState : r # "none" /\ row' = [row EXCEPT ![j] = r]
          /\ job' = job /\ queue' = queue /\ pressure' = pressure
      BY <1>3 DEF RowMoves, RowState
    <2>2. JobsOK(job, row)'
      BY <2>1 DEF QueueInv, JobsOK
    <2> QED BY <2>1, <2>2 DEF QueueInv
  <1>4. ASSUME EvaluateBackpressure PROVE QueueInv'
    <2>1. pressure' \in [Workspaces -> Pressure]
      BY <1>4 DEF EvaluateBackpressure, QueueInv, ClassifyDepth, Pressure
    <2> QED BY <1>4, <2>1 DEF EvaluateBackpressure, QueueInv, JobsOK
  <1> QED BY <1>1, <1>2, <1>3, <1>4, QueueTickStep DEF QueueNext

\* The queue's invariant holds in every state of the platform.
THEOREM QueueInvariant == Spec => []QueueInv
  <1>1. Init => QueueInv
    <2> SUFFICES ASSUME Init PROVE QueueInv
      OBVIOUS
    <2>1. NoWorkerMaxRetries \in Nat \ {0}
      BY QueueAssumption
    <2>2. /\ queue = <<>> /\ job = [j \in Jobs |-> [status |-> "new", attempt |-> 0]]
          /\ row = [j \in Jobs |-> "none"] /\ pressure = [v \in Workspaces |-> "normal"]
      BY DEF Init, QueueInit
    <2>3. JobsOK(job, row)
      BY <2>1, <2>2 DEF JobsOK, JobRow, RowState
    <2> QED BY <2>1, <2>2, <2>3 DEF QueueInv, Pressure
  <1>2. QueueInv /\ [Next]_vars => QueueInv'
    <2> SUFFICES ASSUME QueueInv, [Next]_vars PROVE QueueInv'
      OBVIOUS
    <2>1. CASE UNCHANGED queueVars
      BY <2>1 DEF QueueInv, JobsOK, queueVars
    <2>2. CASE QueueNext
      BY <2>2, QueueStep
    <2> QED BY <2>1, <2>2 DEF Next, vars
  <1> QED BY <1>1, <1>2, PTL DEF Spec

\* A tick leases what its workspaces are allowed until its batch is full, none of
\* them more than its allowance, no workspace's next job before every other had
\* its turn, and within a workspace the job due earlier first (poll_and_lease).
THEOREM TicksShareTheBatch == Spec => []TickShares
  <1>1. QueueInv => TickShares
    BY Shares DEF QueueInv
  <1> QED BY <1>1, QueueInvariant, PTL

\* A tick that finds a job due always has an order to lease in, and leases the
\* most urgent due job, whatever the back-pressure says (poll_and_lease): the
\* safety part of EveryDueJobIsLeased.
THEOREM TicksTakeTheMostUrgent == Spec => []TickTakesMostUrgent
  <1>1. QueueInv => TickTakesMostUrgent
    BY MostUrgentTaken DEF QueueInv
  <1> QED BY <1>1, QueueInvariant, PTL

\* Whatever the dispatches of a tick answer, it spends at most one attempt of
\* each job that it leased and nothing of any other (process_due_jobs).
THEOREM TicksSpend == Spec => [][SchedulerTick => TickSpends]_vars
  <1>1. QueueInv /\ SchedulerTick => TickSpends
    BY QueueTickStep
  <1> QED BY <1>1, QueueInvariant, PTL

-----------------------------------------------------------------------------
(* The types of the platform *)

\* What the relay's invariant says of the types: an event that the checkpoint
\* is at, or that a tick has locked, is in the outbox.
LEMMA RelayTypes == RelayInv /\ RelayBounds => RelayTypeOK
  <1> SUFFICES ASSUME RelayInv, RelayBounds PROVE RelayTypeOK
    OBVIOUS
  <1>1. /\ events \in Seq(OutboxEvent) /\ checkpoint \in SeenCheckpoint /\ applied \in Seq(Nat)
        /\ Sound(events, checkpoint, applied, dead) /\ TickLocks(events, applied, tx)
    BY DEF RelayInv, OutboxOK
  <1>2. DOMAIN events \subseteq 1 .. MaxEvents
    BY <1>1, RelayAssumption DEF RelayBounds
  <1>3. \A j \in DOMAIN applied : applied[j] \in 1 .. MaxEvents
    BY <1>1, <1>2 DEF Sound
  <1>4. ASSUME NEW chk \in SeenCheckpoint, KnownLast(chk, applied)
        PROVE  chk \in ConsumerCheckpoint
    <2>1. chk.last \in 0 .. MaxEvents
      BY <1>3, <1>4, RelayAssumption DEF KnownLast
    <2> QED BY <2>1 DEF SeenCheckpoint, ConsumerCheckpoint
  <1>5. applied \in Seq(1 .. MaxEvents)
    <2>1. Len(applied) \in Nat /\ DOMAIN applied = 1 .. Len(applied)
          /\ applied = [j \in 1 .. Len(applied) |-> applied[j]]
      BY <1>1
    <2> DEFINE S == 1 .. MaxEvents
    <2>2. applied \in [1 .. Len(applied) -> S]
      BY <1>3, <2>1
    <2> HIDE DEF S
    <2>3. applied \in Seq(S)
      BY <2>1, <2>2
    <2> QED BY <2>3 DEF S
  <1>6. checkpoint \in ConsumerCheckpoint /\ dead \subseteq DOMAIN events
    BY <1>1, <1>4 DEF Sound
  <1>7. ASSUME NEW r \in Replicas
        PROVE  /\ Range(tx[r].batch) \subseteq DOMAIN events
               /\ Len(tx[r].batch) <= BatchSize
               /\ tx[r].seen \in ConsumerCheckpoint
    <2>1. Lockable(events, tx[r].batch) /\ KnownLast(tx[r].seen, applied) /\ tx[r] \in RelayTick
      BY <1>1 DEF TickLocks
    <2>2. tx[r].seen \in SeenCheckpoint
      BY <2>1 DEF RelayTick
    <2>3. tx[r].seen \in ConsumerCheckpoint
      BY <1>4, <2>1, <2>2
    <2>4. Range(tx[r].batch) \subseteq DOMAIN events
      BY <2>1 DEF Lockable, Range
    <2> QED BY <2>3, <2>4 DEF RelayBounds
  <1> QED BY <1>1, <1>5, <1>6, <1>7 DEF RelayTypeOK, RelayBounds

\* Every variable of the platform keeps its type: the checkpoint and the dead
\* letters are of events that were emitted, a batch holds at most BatchSize of
\* them, loads and attempts stay within their limits, and whoever is in the
\* queue is pending.
THEOREM PlatformTypeCorrect == Spec => []TypeOK
  <1> DEFINE PartOK == part \in {"automation", "workers", "queue"}
  <1>1. Spec => []PartOK
    <2>1. Init => PartOK
      BY DEF Init
    <2>2. PartOK /\ [Next]_vars => PartOK'
      BY DEF Next, vars
    <2> QED BY <2>1, <2>2, PTL DEF Spec
  <1>2. WorkerInv => WorkerTypeOK
    BY DEF WorkerInv, WorkerRows, HeldRow, StageRow, AssignmentStatus, Registration, Holding,
           WorkerTypeOK
  <1>3. QueueInv => QueueTypeOK
    <2> SUFFICES ASSUME QueueInv PROVE QueueTypeOK
      OBVIOUS
    <2>1. \A j \in Range(queue) : job[j].status = "pending"
      BY DEF QueueInv, Range
    <2>2. \A j \in Jobs : job[j].attempt <= NoWorkerMaxRetries
      BY QueueAssumption DEF QueueInv, JobsOK, JobRow
    <2> QED BY <2>1, <2>2 DEF QueueInv, QueueTypeOK, Pressure
  <1>4. AutomationInv /\ RelayTypeOK => AutomationTypeOK
    BY DEF AutomationInv, AutomationRows, AutomationTypeOK
  <1>5. PartOK /\ WorkerInv /\ QueueInv /\ AutomationInv /\ RelayInv /\ RelayBounds => TypeOK
    BY <1>2, <1>3, <1>4, RelayTypes DEF TypeOK
  <1> QED BY <1>1, <1>5, WorkerInvariant, QueueInvariant, AutomationInvariant, RelayInvariant,
             RelayBounded, PTL

=============================================================================
