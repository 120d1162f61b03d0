-------------------------- MODULE StageLeaseProofs --------------------------
(***************************************************************************)
(* Theorems about StageLease, for every set of assignments, workers and    *)
(* tokens and every value of the settings.                                 *)
(*                                                                         *)
(* Every action changes every row in one of nine ways (RowMove): not at    *)
(* all, by a clock tick, by creation, by a push to a worker, by a claim,   *)
(* by an extension, by a result, by recovery, or by the cancellation of    *)
(* what an exhausted dispatch has read.  StepMovesRows shows this once,    *)
(* with one step per action; the invariants about rows are then shown over *)
(* the moves.                                                              *)
(***************************************************************************)
EXTENDS StageLease, TLAPS, FiniteSetTheorems

-----------------------------------------------------------------------------
(* Types of the row and registry updates. *)

\* Attempt numbers are natural numbers, and the first one is among them.
LEMMA AttemptsNat == Attempts \subseteq Nat /\ 1 \in Attempts
  BY SettingsAssumption DEF Attempts

\* The values the handlers write to a lease, a tenure and an attempt number are
\* within the ranges of Row.
LEMMA Ranges ==
  /\ NoLease \in NoLease .. LeaseSeconds
  /\ LeaseSeconds \in NoLease .. LeaseSeconds
  /\ NoTenure \in NoTenure .. MaxLeaseSeconds
  /\ 0 \in NoTenure .. MaxLeaseSeconds
  /\ \A t \in NoLease .. LeaseSeconds : t > Expired => t - 1 \in NoLease .. LeaseSeconds
  /\ \A t \in NoTenure .. MaxLeaseSeconds :
        t < MaxLeaseSeconds => t + 1 \in NoTenure .. MaxLeaseSeconds
  /\ \A n \in Attempts : n + 1 > MaxAttempts \/ n + 1 \in Attempts
  /\ 0 \in 0 .. MaxConcurrency
  /\ 0 \in 0 .. Stale
  BY SettingsAssumption DEF NoLease, NoTenure, Expired, Attempts, Stale

\* recover_assignment keeps a row well-typed: the next attempt number stays in
\* range because it is compared with max_attempts first.
LEMMA RecoveredType ==
  ASSUME NEW r \in Row PROVE Recovered(r) \in Row
  BY Ranges DEF Recovered, Row, AssignmentStatus

\* The recovery of any set of rows keeps stage_assignments well-typed.
LEMMA RecoverRowsType ==
  ASSUME TypeOK, NEW rows PROVE RecoverRows(rows) \in [Assignments -> Row]
  BY RecoveredType DEF TypeOK, RecoverRows

\* A fresh lease, given to any worker, keeps a row well-typed.
LEMMA LeasedType ==
  ASSUME NEW r \in Row, NEW w \in Workers, NEW tok \in Tokens \cup {NoToken}
  PROVE  Leased(r, w, tok) \in Row
  BY Ranges DEF Leased, Row, AssignmentStatus

\* The load arithmetic of the registry stays between zero and max_concurrency.
LEMMA SlotTypes ==
  ASSUME NEW r \in Registration, NEW n \in Nat
  PROVE  /\ SlotFreed(r) \in Registration
         /\ SlotsReleased(r, n) \in Registration
         /\ TakenOffline(r) \in Registration
         /\ r.load < MaxConcurrency => SlotTaken(r) \in Registration
  <1>1. SlotFreed(r) \in Registration
    <2>1. r.load = 0 \/ r.load - 1 \in 0 .. MaxConcurrency
      BY SettingsAssumption DEF Registration
    <2> QED BY <2>1 DEF SlotFreed, Registration, WorkerStatus
  <1>2. SlotsReleased(r, n) \in Registration
    <2> DEFINE left == IF r.load > n THEN r.load - n ELSE 0
    <2>1. left \in 0 .. MaxConcurrency
      BY SettingsAssumption DEF Registration
    <2>2. [r EXCEPT !.load = left,
                    !.status = IF r.status = "busy" /\ left < MaxConcurrency
                               THEN "online" ELSE r.status] \in Registration
      <3> HIDE DEF left
      <3> QED BY <2>1 DEF Registration, WorkerStatus
    <2> QED BY <2>2 DEF SlotsReleased
  <1>3. TakenOffline(r) \in Registration
    BY Ranges DEF TakenOffline, Registration, WorkerStatus
  <1>4. r.load < MaxConcurrency => SlotTaken(r) \in Registration
    <2> SUFFICES ASSUME r.load < MaxConcurrency PROVE SlotTaken(r) \in Registration
      OBVIOUS
    <2>1. r.load + 1 \in 0 .. MaxConcurrency
      BY SettingsAssumption DEF Registration
    <2> QED BY <2>1 DEF SlotTaken, Registration, WorkerStatus
  <1> QED BY <1>1, <1>2, <1>3, <1>4

\* A set of rows has a natural number of members, so the slots a sweep releases
\* can be counted.
LEMMA CardinalityOfRows ==
  ASSUME NEW S \in SUBSET Assignments PROVE IsFiniteSet(S) /\ Cardinality(S) \in Nat
  BY RowsAssumption, FS_Subset, FS_CardinalityType

-----------------------------------------------------------------------------
(* Type correctness. *)

\* The initial tables are well-typed.
LEMMA TypeInit == Init => TypeOK
  BY SettingsAssumption, AttemptsNat
  DEF Init, TypeOK, Row, Registration, AssignmentStatus, WorkerStatus, NoLease,
      NoTenure, Stale

\* A clock tick keeps leases, tenures and heartbeat ages in range.
LEMMA TypeTick == ASSUME TypeOK, Tick PROVE TypeOK'
  <1>1. asn' \in [Assignments -> Row]
    BY Ranges DEF TypeOK, Tick, Row
  <1>2. wrk' \in [Workers -> Registration]
    <2>1. \A h \in 0 .. Stale : h < Stale => h + 1 \in 0 .. Stale
      BY SettingsAssumption DEF Stale
    <2> QED BY <2>1 DEF TypeOK, Tick, Registration
  <1> QED BY <1>1, <1>2 DEF TypeOK, Tick

\* dispatch_stage, with or without a worker, keeps the types.
LEMMA TypeDispatch == ASSUME TypeOK, Dispatch PROVE TypeOK'
  <1> SUFFICES ASSUME NEW a \in Assignments, NEW n \in 1 .. MaxDispatchAttempt,
                      DispatchUnassigned(a, n) \/ \E w \in Workers : DispatchToWorker(a, n, w)
               PROVE  TypeOK'
    BY DEF Dispatch
  <1> n \in Attempts
    BY SettingsAssumption DEF Attempts
  <1>1. CASE DispatchUnassigned(a, n)
    BY <1>1 DEF DispatchUnassigned, TypeOK, Row, AssignmentStatus
  <1>2. ASSUME NEW w \in Workers, DispatchToWorker(a, n, w) PROVE TypeOK'
    <2>1. [asn[a] EXCEPT !.attempt = n] \in Row
      BY DEF TypeOK, Row
    <2>2. asn' \in [Assignments -> Row]
      BY <1>2, <2>1, LeasedType DEF DispatchToWorker, TypeOK
    <2>3. wrk' \in [Workers -> Registration]
      BY <1>2, SlotTypes DEF DispatchToWorker, Selectable, TypeOK
    <2>4. grants' \in SUBSET (Assignments \X Attempts \X Workers)
      BY <1>2 DEF DispatchToWorker, TypeOK
    <2> QED BY <1>2, <2>2, <2>3, <2>4 DEF DispatchToWorker, TypeOK
  <1> QED BY <1>1, <1>2

\* The two halves of an exhausted dispatch keep the types.
LEMMA TypeExhausted == ASSUME TypeOK, Exhausted PROVE TypeOK'
  <1>1. CASE ExhaustedRead
    BY <1>1 DEF ExhaustedRead, OpenRows, TypeOK
  <1>2. CASE ExhaustedWrite
    <2>1. \A a \in Assignments : [asn[a] EXCEPT !.status = "cancelled"] \in Row
      BY DEF TypeOK, Row, AssignmentStatus
    <2> QED BY <1>2, <2>1 DEF ExhaustedWrite, TypeOK
  <1> QED BY <1>1, <1>2 DEF Exhausted

\* Claim, ack, renewal and submission keep the types.
LEMMA TypeWorkerOnAssignment == ASSUME TypeOK, WorkerOnAssignment PROVE TypeOK'
  <1> SUFFICES ASSUME NEW w \in Workers, NEW a \in Assignments,
                      \/ \E tok \in Tokens \cup {NoToken} : Claim(w, a, tok)
                      \/ Ack(w, a)
                      \/ Renew(w, a)
                      \/ \E success \in BOOLEAN : Submit(w, a, success)
               PROVE  TypeOK'
    BY DEF WorkerOnAssignment
  <1>1. ASSUME NEW tok \in Tokens \cup {NoToken}, Claim(w, a, tok) PROVE TypeOK'
    <2>1. asn' \in [Assignments -> Row]
      BY <1>1, LeasedType DEF Claim, TypeOK
    <2>2. wrk' \in [Workers -> Registration]
      BY <1>1, SlotTypes DEF Claim, Claimable, TypeOK
    <2>3. grants' \in SUBSET (Assignments \X Attempts \X Workers)
      BY <1>1 DEF Claim, TypeOK, Row
    <2> QED BY <1>1, <2>1, <2>2, <2>3 DEF Claim, TypeOK
  <1>2. CASE Ack(w, a)
    BY <1>2, Ranges DEF Ack, TypeOK, Row, AssignmentStatus
  <1>3. CASE Renew(w, a)
    BY <1>3, Ranges DEF Renew, TypeOK, Row
  <1>4. ASSUME NEW success \in BOOLEAN, Submit(w, a, success) PROVE TypeOK'
    <2>1. asn' \in [Assignments -> Row]
      <3> DEFINE outcome == IF success THEN "completed" ELSE "failed"
      <3>1. outcome \in AssignmentStatus
        BY DEF AssignmentStatus
      <3>2. [asn[a] EXCEPT !.status = outcome, !.ttl = NoLease,
                           !.tenure = NoTenure] \in Row
        <4> HIDE DEF outcome
        <4> QED BY <3>1, Ranges DEF TypeOK, Row
      <3> QED BY <1>4, <3>2 DEF Submit, TypeOK
    <2>2. wrk' \in [Workers -> Registration]
      BY <1>4, SlotTypes DEF Submit, TypeOK
    <2> QED BY <1>4, <2>1, <2>2 DEF Submit, TypeOK
  <1> QED BY <1>1, <1>2, <1>3, <1>4

\* Reaping what workers hold keeps stage_assignments well-typed.
LEMMA TypeReapHoldings ==
  ASSUME TypeOK, NEW ws, ReapHoldings(ws) PROVE asn' \in [Assignments -> Row]
  BY RecoverRowsType DEF ReapHoldings

\* Registration, heartbeat and deregistration keep the types.
LEMMA TypeWorkerOnRegistry == ASSUME TypeOK, WorkerOnRegistry PROVE TypeOK'
  <1> SUFFICES ASSUME NEW w \in Workers,
                      \/ Register(w)
                      \/ \E st \in WorkerStatus, ld \in 0 .. MaxConcurrency :
                            Heartbeat(w, st, ld)
                      \/ Deregister(w)
               PROVE  TypeOK'
    BY DEF WorkerOnRegistry
  <1>1. CASE Register(w)
    <2>1. asn' \in [Assignments -> Row]
      BY <1>1, TypeReapHoldings DEF Register
    <2>2. wrk' \in [Workers -> Registration]
      BY <1>1, Ranges DEF Register, TypeOK, Registration, WorkerStatus
    <2> QED BY <1>1, <2>1, <2>2 DEF Register, TypeOK
  <1>2. ASSUME NEW st \in WorkerStatus, NEW ld \in 0 .. MaxConcurrency,
               Heartbeat(w, st, ld)
        PROVE  TypeOK'
    <2>1. wrk' \in [Workers -> Registration]
      BY <1>2, Ranges DEF Heartbeat, TypeOK, Registration
    <2> QED BY <1>2, <2>1 DEF Heartbeat, TypeOK
  <1>3. CASE Deregister(w)
    <2>1. asn' \in [Assignments -> Row]
      BY <1>3, TypeReapHoldings DEF Deregister
    <2>2. [TakenOffline(wrk[w]) EXCEPT !.gone = TRUE] \in Registration
      BY Ranges DEF TypeOK, TakenOffline, Registration, WorkerStatus
    <2>3. wrk' \in [Workers -> Registration]
      BY <1>3, <2>2 DEF Deregister, TypeOK
    <2> QED BY <1>3, <2>1, <2>3 DEF Deregister, TypeOK
  <1> QED BY <1>1, <1>2, <1>3

\* Drain, revoke, rotation and the emergency stop keep the types.
LEMMA TypeAdmin == ASSUME TypeOK, Admin PROVE TypeOK'
  <1>1. CASE EmergencyStop
    <2>1. asn' \in [Assignments -> Row]
      BY <1>1, TypeReapHoldings DEF EmergencyStop
    <2>2. \A w \in Workers : [TakenOffline(wrk[w]) EXCEPT !.drain = TRUE] \in Registration
      BY Ranges DEF TypeOK, TakenOffline, Registration, WorkerStatus
    <2>3. wrk' \in [Workers -> Registration]
      BY <1>1, <2>2 DEF EmergencyStop, TypeOK
    <2> QED BY <1>1, <2>1, <2>3 DEF EmergencyStop, TypeOK
  <1>2. ASSUME NEW w \in Workers, NEW d \in BOOLEAN, SetDrain(w, d) PROVE TypeOK'
    BY <1>2 DEF SetDrain, TypeOK, Registration
  <1>3. ASSUME NEW w \in Workers, Revoke(w) PROVE TypeOK'
    <2>1. asn' \in [Assignments -> Row]
      BY <1>3, TypeReapHoldings DEF Revoke
    <2>2. wrk' \in [Workers -> Registration]
      BY <1>3, SlotTypes DEF Revoke, TypeOK
    <2> QED BY <1>3, <2>1, <2>2 DEF Revoke, TypeOK
  <1>4. ASSUME NEW w \in Workers, Rotate(w) PROVE TypeOK'
    BY <1>4 DEF Rotate, TypeOK
  <1> QED BY <1>1, <1>2, <1>3, <1>4 DEF Admin

\* A maintenance sweep keeps the types: every release stops the load at zero.
LEMMA TypeMaintenance == ASSUME TypeOK, MaintenanceTick PROVE TypeOK'
  <1> PICK stale \in SUBSET StaleWorkers, expired \in SUBSET ExpiredRows :
        MaintenanceTick!(stale, expired)
    BY DEF MaintenanceTick
  <1>1. asn' \in [Assignments -> Row]
    BY RecoverRowsType
  <1>2. \A w \in Workers :
           Cardinality((expired \ HeldBy(stale)) \cap Holdings(w)) \in Nat
    BY CardinalityOfRows DEF Holdings
  <1>3. wrk' \in [Workers -> Registration]
    BY <1>2, SlotTypes DEF TypeOK
  <1> QED BY <1>1, <1>3 DEF TypeOK

\* Every step keeps the types.
LEMMA TypeStep == TypeOK /\ [Next]_vars => TypeOK'
  <1> SUFFICES ASSUME TypeOK, [Next]_vars PROVE TypeOK'
    OBVIOUS
  <1>1. CASE UNCHANGED vars
    BY <1>1 DEF vars, TypeOK
  <1> QED
    BY <1>1, TypeTick, TypeDispatch, TypeExhausted, TypeWorkerOnAssignment, TypeWorkerOnRegistry,
       TypeAdmin, TypeMaintenance DEF Next

\* Every reachable state is well-typed: no load leaves 0 .. max_concurrency, no
\* attempt number exceeds what was dispatched or max_attempts, and no lease is
\* longer than one extension, whatever the handlers' order.
THEOREM TypeCorrect == Spec => []TypeOK
  BY TypeInit, TypeStep, PTL DEF Spec

-----------------------------------------------------------------------------
(* How a step moves one row. *)

MoveTick(a) ==
    /\ InFlight(a)
    /\ asn'[a] = [asn[a] EXCEPT
                    !.ttl = IF @ > Expired THEN @ - 1 ELSE @,
                    !.tenure = IF @ < MaxLeaseSeconds THEN @ + 1 ELSE @]

MoveCreate(a) ==
    /\ asn[a].status = "absent"
    /\ \E n \in Attempts : asn'[a] = [asn[a] EXCEPT !.attempt = n, !.status = "pending"]

MovePush(a) ==
    /\ asn[a].status = "absent"
    /\ \E n \in Attempts, w \in Workers :
          asn'[a] = Leased([asn[a] EXCEPT !.attempt = n], w, NoToken)

MoveClaim(a) ==
    /\ asn[a].status = "pending"
    /\ \E w \in Workers, tok \in Tokens \cup {NoToken} : asn'[a] = Leased(asn[a], w, tok)

MoveExtend(a) ==
    /\ InFlight(a)
    /\ asn[a].ttl >= 0
    /\ asn[a].tenure + LeaseSeconds <= MaxLeaseSeconds
    /\ \E st \in InFlightStatus :
          asn'[a] = [asn[a] EXCEPT !.status = st, !.ttl = LeaseSeconds]

MoveFinish(a) ==
    /\ InFlight(a)
    /\ \E st \in TerminalStatus :
          asn'[a] = [asn[a] EXCEPT !.status = st, !.ttl = NoLease, !.tenure = NoTenure]

MoveRecover(a) == InFlight(a) /\ asn'[a] = Recovered(asn[a])

MoveCancel(a) ==
    a \in doomed /\ asn'[a] = [asn[a] EXCEPT !.status = "cancelled"]

RowMove(a) ==
    \/ asn'[a] = asn[a]
    \/ MoveTick(a)
    \/ MoveCreate(a)
    \/ MovePush(a)
    \/ MoveClaim(a)
    \/ MoveExtend(a)
    \/ MoveFinish(a)
    \/ MoveRecover(a)
    \/ MoveCancel(a)

\* The recovery of rows in flight moves each of them by recover_assignment.
LEMMA RecoverMoves ==
  ASSUME TypeOK, NEW rows \in SUBSET InFlightRows, asn' = RecoverRows(rows)
  PROVE  \A a \in Assignments : RowMove(a)
  BY DEF RecoverRows, RowMove, MoveRecover, InFlightRows, TypeOK

\* Reaping what workers hold moves rows only by recover_assignment.
LEMMA ReapHoldingsMoves ==
  ASSUME TypeOK, NEW ws, ReapHoldings(ws) PROVE \A a \in Assignments : RowMove(a)
  <1>1. HeldBy(ws) \subseteq InFlightRows
    BY DEF HeldBy, Holdings, InFlightRows
  <1> QED BY <1>1, RecoverMoves DEF ReapHoldings

\* Every transaction moves every row in one of these ways.
LEMMA StepMovesRows ==
  ASSUME TypeOK, [Next]_vars PROVE \A a \in Assignments : RowMove(a)
  <1>1. CASE UNCHANGED vars
    BY <1>1 DEF vars, RowMove
  <1>2. CASE Tick
    BY <1>2 DEF Tick, RowMove, MoveTick, TypeOK
  <1>3. ASSUME NEW a \in Assignments, NEW n \in 1 .. MaxDispatchAttempt,
               DispatchUnassigned(a, n)
        PROVE  \A b \in Assignments : RowMove(b)
    <2> n \in Attempts
      BY SettingsAssumption DEF Attempts
    <2> QED BY <1>3 DEF DispatchUnassigned, RowMove, MoveCreate, TypeOK
  <1>4. ASSUME NEW a \in Assignments, NEW n \in 1 .. MaxDispatchAttempt,
               NEW w \in Workers, DispatchToWorker(a, n, w)
        PROVE  \A b \in Assignments : RowMove(b)
    <2> n \in Attempts
      BY SettingsAssumption DEF Attempts
    <2> QED BY <1>4 DEF DispatchToWorker, RowMove, MovePush, TypeOK
  <1>5. ASSUME NEW w \in Workers, NEW a \in Assignments,
               NEW tok \in Tokens \cup {NoToken}, Claim(w, a, tok)
        PROVE  \A b \in Assignments : RowMove(b)
    BY <1>5 DEF Claim, RowMove, MoveClaim, TypeOK
  <1>6. ASSUME NEW w \in Workers, NEW a \in Assignments, Ack(w, a)
        PROVE  \A b \in Assignments : RowMove(b)
    BY <1>6 DEF Ack, LeaseExtendable, RowMove, MoveExtend, InFlightStatus, TypeOK
  <1>7. ASSUME NEW w \in Workers, NEW a \in Assignments, Renew(w, a)
        PROVE  \A b \in Assignments : RowMove(b)
    <2>1. asn[a].status \in InFlightStatus
      BY <1>7 DEF Renew, LeaseExtendable, InFlight
    <2>2. asn'[a] = [asn[a] EXCEPT !.status = asn[a].status, !.ttl = LeaseSeconds]
      BY <1>7 DEF Renew, TypeOK, Row
    <2> QED BY <1>7, <2>1, <2>2 DEF Renew, LeaseExtendable, RowMove, MoveExtend, TypeOK
  <1>8. ASSUME NEW w \in Workers, NEW a \in Assignments, NEW success \in BOOLEAN,
               Submit(w, a, success)
        PROVE  \A b \in Assignments : RowMove(b)
    <2>1. (IF success THEN "completed" ELSE "failed") \in TerminalStatus
      BY DEF TerminalStatus
    <2> QED BY <1>8, <2>1 DEF Submit, RowMove, MoveFinish, TypeOK
  <1>9. ASSUME NEW w \in Workers, Register(w) \/ Deregister(w) \/ Revoke(w)
        PROVE  \A b \in Assignments : RowMove(b)
    BY <1>9, ReapHoldingsMoves DEF Register, Deregister, Revoke
  <1>10. CASE EmergencyStop
    BY <1>10, ReapHoldingsMoves DEF EmergencyStop
  <1>11. CASE MaintenanceTick
    <2> PICK stale \in SUBSET StaleWorkers, expired \in SUBSET ExpiredRows :
          MaintenanceTick!(stale, expired)
      BY <1>11 DEF MaintenanceTick
    <2>1. (HeldBy(stale) \ ExpiredRows) \cup expired \subseteq InFlightRows
      BY DEF HeldBy, Holdings, ExpiredRows, InFlightRows
    <2> QED BY <2>1, RecoverMoves
  <1>12. ASSUME NEW w \in Workers,
                \/ \E st \in WorkerStatus, ld \in 0 .. MaxConcurrency : Heartbeat(w, st, ld)
                \/ \E d \in BOOLEAN : SetDrain(w, d)
                \/ Rotate(w)
         PROVE  \A b \in Assignments : RowMove(b)
    BY <1>12 DEF Heartbeat, SetDrain, Rotate, RowMove
  <1>13. CASE Dispatch
    BY <1>3, <1>4, <1>13 DEF Dispatch
  <1>14. CASE WorkerOnAssignment
    BY <1>5, <1>6, <1>7, <1>8, <1>14 DEF WorkerOnAssignment
  <1>15. CASE WorkerOnRegistry
    BY <1>9, <1>12, <1>15 DEF WorkerOnRegistry
  <1>16. CASE Admin
    BY <1>9, <1>10, <1>12, <1>16 DEF Admin
  <1>17. CASE Exhausted
    BY <1>17 DEF Exhausted, ExhaustedRead, ExhaustedWrite, RowMove, MoveCancel, TypeOK
  <1> QED BY <1>1, <1>2, <1>11, <1>13, <1>14, <1>15, <1>16, <1>17 DEF Next

-----------------------------------------------------------------------------
(* Leases and tenures. *)

\* No row holds a lease initially.
LEMMA LeaseInit == Init => LeaseOwnership /\ TenureBounded
  BY DEF Init, LeaseOwnership, TenureBounded, InFlight, InFlightStatus

\* Each way of moving a row keeps its lease tied to its status and within the
\* maximum tenure.
LEMMA LeaseStep ==
  ASSUME TypeOK, TypeOK', LeaseOwnership, TenureBounded, [Next]_vars
  PROVE  LeaseOwnership' /\ TenureBounded'
  <1> DEFINE Good(r) ==
               /\ r.status \in InFlightStatus =>
                     /\ r.worker \in Workers
                     /\ r.ttl >= Expired
                     /\ r.tenure >= 0
                     /\ r.tenure + r.ttl <= MaxLeaseSeconds
               /\ r.status \notin InFlightStatus /\ r.status # "cancelled" =>
                     r.ttl = NoLease /\ r.tenure = NoTenure
               /\ r.status \in {"absent", "pending"} =>
                     r.worker = NoWorker /\ r.token = NoToken
  <1> SUFFICES ASSUME NEW a \in Assignments PROVE Good(asn'[a])
    BY DEF LeaseOwnership, TenureBounded, InFlight
  <1>1. Good(asn[a])
    BY DEF LeaseOwnership, TenureBounded, InFlight
  <1>2. asn[a] \in Row /\ asn'[a] \in Row
    BY DEF TypeOK
  <1>3. RowMove(a)
    BY StepMovesRows
  <1>4. CASE asn'[a] = asn[a]
    BY <1>1, <1>4
  <1>5. CASE MoveTick(a)
    <2>1. /\ asn'[a].status = asn[a].status
          /\ asn'[a].worker = asn[a].worker
          /\ asn'[a].ttl = IF asn[a].ttl > Expired THEN asn[a].ttl - 1 ELSE asn[a].ttl
          /\ asn'[a].tenure = IF asn[a].tenure < MaxLeaseSeconds
                              THEN asn[a].tenure + 1 ELSE asn[a].tenure
      BY <1>2, <1>5 DEF MoveTick, Row
    <2>2. asn[a].status \in InFlightStatus
      BY <1>5 DEF MoveTick, InFlight
    <2> QED BY <1>1, <1>2, <2>1, <2>2, SettingsAssumption
            DEF Row, InFlightStatus, Expired, NoLease, NoTenure
  <1>6. CASE MoveCreate(a)
    BY <1>1, <1>2, <1>6 DEF MoveCreate, Row, InFlightStatus
  <1>7. CASE MovePush(a)
    <2>1. /\ asn'[a].status = "dispatched"
          /\ asn'[a].worker \in Workers
          /\ asn'[a].ttl = LeaseSeconds
          /\ asn'[a].tenure = 0
      BY <1>2, <1>7 DEF MovePush, Leased, Row
    <2> QED BY <2>1, SettingsAssumption DEF InFlightStatus, Expired
  <1>8. CASE MoveClaim(a)
    <2>1. /\ asn'[a].status = "dispatched"
          /\ asn'[a].worker \in Workers
          /\ asn'[a].ttl = LeaseSeconds
          /\ asn'[a].tenure = 0
      BY <1>2, <1>8 DEF MoveClaim, Leased, Row
    <2> QED BY <2>1, SettingsAssumption DEF InFlightStatus, Expired
  <1>9. CASE MoveExtend(a)
    <2>1. /\ asn'[a].status \in InFlightStatus
          /\ asn'[a].worker = asn[a].worker
          /\ asn'[a].ttl = LeaseSeconds
          /\ asn'[a].tenure = asn[a].tenure
          /\ asn[a].status \in InFlightStatus
          /\ asn[a].tenure + LeaseSeconds <= MaxLeaseSeconds
      BY <1>2, <1>9 DEF MoveExtend, InFlight, Row
    <2> QED BY <1>1, <2>1, SettingsAssumption DEF InFlightStatus, Expired
  <1>10. CASE MoveFinish(a)
    BY <1>2, <1>10 DEF MoveFinish, Row, InFlightStatus, TerminalStatus
  <1>11. CASE MoveRecover(a)
    BY <1>2, <1>11 DEF MoveRecover, Recovered, Row, InFlightStatus
  <1>12. CASE MoveCancel(a)
    BY <1>2, <1>12 DEF MoveCancel, Row, InFlightStatus
  <1> QED BY <1>3, <1>4, <1>5, <1>6, <1>7, <1>8, <1>9, <1>10, <1>11, <1>12 DEF RowMove

\* A row in flight has an owner and a lease, a queued row carries nothing of its
\* previous owner, and a row that ended in a result or in its last recovery
\* holds no lease; only a cancelled row keeps what it had.
THEOREM LeaseOwnershipHolds == Spec => []LeaseOwnership
  <1>1. TypeOK /\ TypeOK' /\ LeaseOwnership /\ TenureBounded /\ [Next]_vars
          => LeaseOwnership' /\ TenureBounded'
    BY LeaseStep
  <1> QED BY <1>1, LeaseInit, TypeCorrect, PTL DEF Spec

\* No sequence of acks and renewals carries a lease past the maximum tenure.
THEOREM TenureBoundedHolds == Spec => []TenureBounded
  <1>1. TypeOK /\ TypeOK' /\ LeaseOwnership /\ TenureBounded /\ [Next]_vars
          => LeaseOwnership' /\ TenureBounded'
    BY LeaseStep
  <1> QED BY <1>1, LeaseInit, TypeCorrect, PTL DEF Spec

-----------------------------------------------------------------------------
(* Terminal rows. *)

\* No late ack, renewal, submit, claim or sweep changes a finished row; only an
\* exhausted dispatch that read it while it was open still sets it CANCELLED,
\* and changes nothing else of it.
THEOREM TerminalIsFinalHolds == Spec => TerminalIsFinal
  <1>1. TypeOK /\ [Next]_vars =>
          [\A a \in Assignments :
              asn[a].status \in TerminalStatus =>
                 \/ asn'[a] = asn[a]
                 \/ a \in doomed /\ asn'[a] = [asn[a] EXCEPT !.status = "cancelled"]]_vars
    <2> SUFFICES ASSUME TypeOK, [Next]_vars, NEW a \in Assignments,
                        asn[a].status \in TerminalStatus
                 PROVE  \/ asn'[a] = asn[a]
                        \/ a \in doomed /\ asn'[a] = [asn[a] EXCEPT !.status = "cancelled"]
      OBVIOUS
    <2>1. RowMove(a)
      BY StepMovesRows
    <2> QED BY <2>1 DEF RowMove, MoveTick, MoveCreate, MovePush, MoveClaim, MoveExtend,
                        MoveFinish, MoveRecover, MoveCancel, InFlight, InFlightStatus,
                        TerminalStatus
  <1> QED BY <1>1, TypeCorrect, PTL DEF Spec, TerminalIsFinal

-----------------------------------------------------------------------------
(* Grants: which worker ran which attempt. *)

\* The strengthening that makes OneOwnerPerAttempt and StartsBounded inductive:
\* a grant never lies ahead of its row, lies behind it while the row is queued,
\* and names the owner while the row is in flight; a row beyond max_attempts,
\* which only a dispatch can create, has run under that one number.
GrantOrder ==
    \A g \in grants :
        /\ asn[g[1]].status # "absent"
        /\ g[2] <= asn[g[1]].attempt
        /\ asn[g[1]].status = "pending" => g[2] < asn[g[1]].attempt
        /\ InFlight(g[1]) /\ g[2] = asn[g[1]].attempt => g[3] = asn[g[1]].worker
        /\ asn[g[1]].attempt > MaxAttempts => g[2] = asn[g[1]].attempt

\* A step records at most one grant, for a row it takes from the queue or
\* creates, to the row's new owner.
LEMMA StepGrants ==
  ASSUME TypeOK, [Next]_vars
  PROVE  \/ grants' = grants
         \/ \E a \in Assignments, w \in Workers, n \in Attempts :
               /\ grants' = grants \cup {<<a, n, w>>}
               /\ \/ asn[a].status = "absent"
                  \/ asn[a].status = "pending" /\ n = asn[a].attempt
               /\ asn'[a].attempt = n
               /\ asn'[a].status = "dispatched"
               /\ asn'[a].worker = w
  <1> DEFINE Granted ==
               \E a \in Assignments, w \in Workers, n \in Attempts :
                 /\ grants' = grants \cup {<<a, n, w>>}
                 /\ \/ asn[a].status = "absent"
                    \/ asn[a].status = "pending" /\ n = asn[a].attempt
                 /\ asn'[a].attempt = n
                 /\ asn'[a].status = "dispatched"
                 /\ asn'[a].worker = w
  <1>1. ASSUME NEW a \in Assignments, NEW n \in 1 .. MaxDispatchAttempt,
               NEW w \in Workers, DispatchToWorker(a, n, w)
        PROVE  Granted
    <2>1. n \in Attempts
      BY SettingsAssumption DEF Attempts
    <2>2. /\ asn'[a].attempt = n
          /\ asn'[a].status = "dispatched"
          /\ asn'[a].worker = w
      BY <1>1 DEF DispatchToWorker, Leased, TypeOK, Row
    <2> QED BY <1>1, <2>1, <2>2 DEF DispatchToWorker
  <1>2. ASSUME NEW w \in Workers, NEW a \in Assignments,
               NEW tok \in Tokens \cup {NoToken}, Claim(w, a, tok)
        PROVE  Granted
    <2>1. /\ asn'[a].attempt = asn[a].attempt
          /\ asn'[a].status = "dispatched"
          /\ asn'[a].worker = w
      BY <1>2 DEF Claim, Leased, TypeOK, Row
    <2>2. asn[a].attempt \in Attempts
      BY DEF TypeOK, Row
    <2> QED BY <1>2, <2>1, <2>2 DEF Claim
  <1>3. CASE Dispatch
    BY <1>1, <1>3 DEF Dispatch, DispatchUnassigned
  <1>4. CASE WorkerOnAssignment
    BY <1>2, <1>4 DEF WorkerOnAssignment, Ack, Renew, Submit
  <1>5. CASE \/ Tick \/ Exhausted \/ WorkerOnRegistry \/ Admin
             \/ MaintenanceTick \/ UNCHANGED vars
    BY <1>5 DEF Tick, Exhausted, ExhaustedRead, ExhaustedWrite, WorkerOnRegistry, Register, Heartbeat, Deregister, Admin,
       EmergencyStop, SetDrain, Revoke, Rotate, MaintenanceTick, vars
  <1> QED BY <1>3, <1>4, <1>5 DEF Next

\* Whatever a step does to the row of an old grant keeps the grant in order.
LEMMA OldGrant ==
  ASSUME TypeOK, TypeOK', GrantOrder, [Next]_vars, NEW g \in grants
  PROVE  /\ asn'[g[1]].status # "absent"
         /\ g[2] <= asn'[g[1]].attempt
         /\ asn'[g[1]].status = "pending" => g[2] < asn'[g[1]].attempt
         /\ asn'[g[1]].status \in InFlightStatus /\ g[2] = asn'[g[1]].attempt
               => g[3] = asn'[g[1]].worker
         /\ asn'[g[1]].attempt > MaxAttempts => g[2] = asn'[g[1]].attempt
  <1> DEFINE a == g[1]
             r == asn[g[1]]
             s == asn'[g[1]]
  <1>1. a \in Assignments /\ g[2] \in Nat
    BY AttemptsNat DEF TypeOK
  <1>2. r \in Row /\ s \in Row /\ r.attempt \in Nat /\ s.attempt \in Nat
    BY <1>1, AttemptsNat DEF TypeOK, Row
  <1>3. RowMove(a)
    BY <1>1, StepMovesRows
  <1>4. /\ r.status # "absent"
        /\ g[2] <= r.attempt
        /\ r.status = "pending" => g[2] < r.attempt
        /\ r.status \in InFlightStatus /\ g[2] = r.attempt => g[3] = r.worker
        /\ r.attempt > MaxAttempts => g[2] = r.attempt
    BY DEF GrantOrder, InFlight
  <1>5. CASE s = r
    BY <1>4, <1>5
  <1>6. CASE MoveTick(a)
    <2>1. s.status = r.status /\ s.attempt = r.attempt /\ s.worker = r.worker
      BY <1>2, <1>6 DEF MoveTick, Row
    <2> QED BY <1>4, <2>1
  <1>7. CASE MoveCreate(a) \/ MovePush(a)
    BY <1>4, <1>7 DEF MoveCreate, MovePush
  <1>8. CASE MoveClaim(a)
    <2>1. s.status = "dispatched" /\ s.attempt = r.attempt /\ r.status = "pending"
      BY <1>2, <1>8 DEF MoveClaim, Leased, Row
    <2> QED BY <1>1, <1>2, <1>4, <2>1
  <1>9. CASE MoveExtend(a)
    <2>1. /\ s.status \in InFlightStatus
          /\ r.status \in InFlightStatus
          /\ s.attempt = r.attempt
          /\ s.worker = r.worker
      BY <1>2, <1>9 DEF MoveExtend, InFlight, Row
    <2> QED BY <1>4, <2>1 DEF InFlightStatus
  <1>10. CASE MoveFinish(a)
    <2>1. s.status \in TerminalStatus /\ s.attempt = r.attempt
      BY <1>2, <1>10 DEF MoveFinish, Row
    <2> QED BY <1>4, <2>1 DEF InFlightStatus, TerminalStatus
  <1>11. CASE MoveRecover(a)
    <2>1. \/ s.status = "failed" /\ s.attempt = r.attempt
          \/ /\ s.status = "pending"
             /\ s.attempt = r.attempt + 1
             /\ r.attempt + 1 <= MaxAttempts
      BY <1>2, <1>11, SettingsAssumption DEF MoveRecover, Recovered, Row
    <2> QED BY <1>1, <1>2, <1>4, <2>1, SettingsAssumption DEF InFlightStatus
  <1>12. CASE MoveCancel(a)
    <2>1. s.status = "cancelled" /\ s.attempt = r.attempt
      BY <1>2, <1>12 DEF MoveCancel, Row
    <2> QED BY <1>4, <2>1 DEF InFlightStatus
  <1> QED BY <1>3, <1>5, <1>6, <1>7, <1>8, <1>9, <1>10, <1>11, <1>12 DEF RowMove

\* Initially nothing has been granted.
LEMMA GrantInit == Init => GrantOrder /\ OneOwnerPerAttempt
  BY DEF Init, GrantOrder, OneOwnerPerAttempt

\* A step keeps the grants in order and one owner per attempt: a new grant is for
\* an attempt number no earlier grant of that row has.
LEMMA GrantStep ==
  ASSUME TypeOK, TypeOK', GrantOrder, OneOwnerPerAttempt, [Next]_vars
  PROVE  GrantOrder' /\ OneOwnerPerAttempt'
  <1>1. CASE grants' = grants
    BY <1>1, OldGrant DEF GrantOrder, OneOwnerPerAttempt, InFlight
  <1>2. ASSUME NEW a \in Assignments, NEW w \in Workers, NEW n \in Attempts,
               grants' = grants \cup {<<a, n, w>>},
               \/ asn[a].status = "absent"
               \/ asn[a].status = "pending" /\ n = asn[a].attempt,
               asn'[a].attempt = n,
               asn'[a].status = "dispatched",
               asn'[a].worker = w
        PROVE  GrantOrder' /\ OneOwnerPerAttempt'
    <2>1. n \in Nat
      BY AttemptsNat
    <2>2. GrantOrder'
      BY <1>2, <2>1, OldGrant DEF GrantOrder, InFlight
    <2>3. ASSUME NEW g \in grants, g[1] = a PROVE g[2] # n
      BY <1>2, <2>1, <2>3, AttemptsNat DEF GrantOrder, TypeOK
    <2>4. OneOwnerPerAttempt'
      BY <1>2, <2>3 DEF OneOwnerPerAttempt
    <2> QED BY <2>2, <2>4
  <1> QED BY <1>1, <1>2, StepGrants

\* The strengthened invariant holds in every reachable state.
LEMMA GrantsInOrder == Spec => [](TypeOK /\ GrantOrder /\ OneOwnerPerAttempt)
  <1>1. TypeOK /\ TypeOK' /\ GrantOrder /\ OneOwnerPerAttempt /\ [Next]_vars
          => GrantOrder' /\ OneOwnerPerAttempt'
    BY GrantStep
  <1> QED BY <1>1, GrantInit, TypeCorrect, PTL DEF Spec

\* No attempt is ever run by two workers: two STAGE_ASSIGNED events of one
\* assignment and attempt name the same worker.
THEOREM OneOwnerHolds == Spec => []OneOwnerPerAttempt
  BY GrantsInOrder, PTL

\* An assignment never starts more than max_attempts times, however leases
\* expire, workers restart and credentials are revoked.
THEOREM StartsBoundedHolds == Spec => []StartsBounded
  <1>1. TypeOK /\ GrantOrder => StartsBounded
    <2> SUFFICES ASSUME TypeOK, GrantOrder, NEW a \in Assignments
                 PROVE  Cardinality(AttemptsStarted(a)) <= MaxAttempts
      BY DEF StartsBounded
    <2>1. asn[a].attempt \in Nat
      BY AttemptsNat DEF TypeOK, Row
    <2>2. ASSUME NEW n \in AttemptsStarted(a)
          PROVE  /\ n \in Nat \ {0}
                 /\ n <= asn[a].attempt
                 /\ asn[a].attempt > MaxAttempts => n = asn[a].attempt
      <3> PICK w \in Workers : <<a, n, w>> \in grants
        BY DEF AttemptsStarted
      <3>1. n \in Nat \ {0}
        BY SettingsAssumption DEF AttemptsStarted, Attempts
      <3> DEFINE g == <<a, n, w>>
      <3>2. g \in grants /\ g[1] = a /\ g[2] = n
        OBVIOUS
      <3> HIDE DEF g
      <3> QED BY <3>1, <3>2 DEF GrantOrder
    <2>3. CASE asn[a].attempt <= MaxAttempts
      <3>1. AttemptsStarted(a) \subseteq 1 .. MaxAttempts
        BY <2>1, <2>3, <2>2, SettingsAssumption
      <3>2. IsFiniteSet(1 .. MaxAttempts) /\ Cardinality(1 .. MaxAttempts) = MaxAttempts
        BY SettingsAssumption, FS_Interval
      <3> QED BY <3>1, <3>2, FS_Subset
    <2>4. CASE ~(asn[a].attempt <= MaxAttempts)
      <3>1. AttemptsStarted(a) \subseteq {asn[a].attempt}
        BY <2>1, <2>4, <2>2, SettingsAssumption
      <3>2. IsFiniteSet({asn[a].attempt}) /\ Cardinality({asn[a].attempt}) = 1
        BY FS_Singleton
      <3>3. Cardinality(AttemptsStarted(a)) \in Nat /\ Cardinality(AttemptsStarted(a)) <= 1
        BY <3>1, <3>2, FS_Subset, FS_CardinalityType
      <3> QED BY <3>3, SettingsAssumption
    <2> QED BY <2>3, <2>4
  <1> QED BY <1>1, GrantsInOrder, PTL

-----------------------------------------------------------------------------
(* Workers that are offline. *)

\* After a reap of the holdings of ws, a row still in flight was not touched,
\* and if one of ws owns it its lease has expired.
LEMMA ReapLeaves ==
  ASSUME TypeOK, NEW ws \in SUBSET Workers, ReapHoldings(ws),
         NEW a \in Assignments, asn'[a].status \in InFlightStatus
  PROVE  asn'[a] = asn[a] /\ (asn[a].worker \in ws => asn[a].ttl = Expired)
  <1> PICK skipped \in SUBSET (HeldBy(ws) \cap ExpiredRows) :
        asn' = RecoverRows(HeldBy(ws) \ skipped)
    BY DEF ReapHoldings
  <1>1. Recovered(asn[a]).status \notin InFlightStatus
    BY DEF Recovered, InFlightStatus, TypeOK, Row
  <1>2. asn'[a] = asn[a] /\ a \notin HeldBy(ws) \ skipped
    BY <1>1 DEF RecoverRows
  <1>3. asn[a].worker \in ws => a \in HeldBy(ws)
    BY <1>2 DEF HeldBy, Holdings, InFlight
  <1> QED BY <1>2, <1>3 DEF ExpiredRows

\* Initially no worker holds anything.
LEMMA OfflineInit == Init => OfflineHoldsNoLease
  BY DEF Init, OfflineHoldsNoLease, Holdings, InFlight, InFlightStatus

\* A step that takes a worker offline leaves it no live lease, and no step gives
\* a lease to a worker that is offline.
LEMMA OfflineStep ==
  ASSUME TypeOK, TypeOK', OfflineHoldsNoLease, [Next]_vars
  PROVE  OfflineHoldsNoLease'
  <1> SUFFICES ASSUME NEW w \in Workers, wrk'[w].status = "offline",
                      NEW a \in Assignments, asn'[a].status \in InFlightStatus,
                      asn'[a].worker = w
               PROVE  asn'[a].ttl = Expired
    BY DEF OfflineHoldsNoLease, Holdings, ExpiredRows, InFlight
  <1>1. asn[a].status \in InFlightStatus /\ asn[a].worker = w /\ wrk[w].status = "offline"
          => asn[a].ttl = Expired
    BY DEF OfflineHoldsNoLease, Holdings, ExpiredRows, InFlight
  <1>2. asn[a] \in Row /\ wrk[w] \in Registration
    BY DEF TypeOK
  <1>3. CASE UNCHANGED vars
    BY <1>1, <1>3 DEF vars
  <1>4. CASE Tick
    <2>1. wrk[w].status = "offline"
      <3>1. wrk'[w] = [wrk[w] EXCEPT !.hb = IF @ < Stale THEN @ + 1 ELSE @]
        BY <1>4 DEF Tick
      <3> QED BY <1>2, <3>1 DEF Registration
    <2>2. CASE InFlight(a)
      <3>1. asn'[a] = [asn[a] EXCEPT
                         !.ttl = IF @ > Expired THEN @ - 1 ELSE @,
                         !.tenure = IF @ < MaxLeaseSeconds THEN @ + 1 ELSE @]
        BY <1>4, <2>2 DEF Tick
      <3>2. /\ asn[a].worker = w
            /\ asn'[a].ttl = IF asn[a].ttl > Expired THEN asn[a].ttl - 1 ELSE asn[a].ttl
        BY <1>2, <3>1 DEF Row
      <3> QED BY <1>1, <2>1, <2>2, <3>2 DEF Expired, InFlight
    <2>3. CASE ~InFlight(a)
      BY <1>4, <2>3 DEF Tick, InFlight
    <2> QED BY <2>2, <2>3
  <1>5. ASSUME NEW b \in Assignments, NEW n \in 1 .. MaxDispatchAttempt,
               DispatchUnassigned(b, n)
        PROVE  asn'[a].ttl = Expired
    BY <1>1, <1>5 DEF DispatchUnassigned, TypeOK, Row, InFlightStatus
  <1>6. ASSUME NEW b \in Assignments, NEW n \in 1 .. MaxDispatchAttempt, NEW v \in Workers,
               DispatchToWorker(b, n, v)
        PROVE  asn'[a].ttl = Expired
    <2>1. wrk'[v].status # "offline"
      BY <1>6 DEF DispatchToWorker, Selectable, SlotTaken, TypeOK, Registration
    <2>2. asn'[b].worker = v
      BY <1>6 DEF DispatchToWorker, Leased, TypeOK, Row
    <2>3. a # b /\ w # v
      BY <2>1, <2>2
    <2> QED BY <1>1, <1>6, <2>3 DEF DispatchToWorker, TypeOK
  <1>7. ASSUME NEW v \in Workers, NEW b \in Assignments,
               NEW tok \in Tokens \cup {NoToken}, Claim(v, b, tok)
        PROVE  asn'[a].ttl = Expired
    <2>1. wrk'[v].status # "offline"
      BY <1>7 DEF Claim, Claimable, SlotTaken, TypeOK, Registration
    <2>2. asn'[b].worker = v
      BY <1>7 DEF Claim, Leased, TypeOK, Row
    <2>3. a # b /\ w # v
      BY <2>1, <2>2
    <2> QED BY <1>1, <1>7, <2>3 DEF Claim, TypeOK
  <1>8. ASSUME NEW v \in Workers, NEW b \in Assignments, Ack(v, b) \/ Renew(v, b)
        PROVE  asn'[a].ttl = Expired
    <2>1. wrk' = wrk
      BY <1>8 DEF Ack, Renew
    <2>2. CASE a = b
      <3>1. /\ asn[a].status \in InFlightStatus
            /\ asn[a].worker = v
            /\ asn[a].ttl >= 0
        BY <1>8, <2>2 DEF Ack, Renew, LeaseExtendable, InFlight
      <3>2. asn'[a].worker = asn[a].worker
        <4>1. CASE Ack(v, b)
          BY <1>2, <2>2, <4>1 DEF Ack, TypeOK, Row
        <4>2. CASE Renew(v, b)
          BY <1>2, <2>2, <4>2 DEF Renew, TypeOK, Row
        <4> QED BY <1>8, <4>1, <4>2
      <3> QED BY <1>1, <2>1, <3>1, <3>2 DEF Expired
    <2>3. CASE a # b
      BY <1>1, <1>8, <2>1, <2>3 DEF Ack, Renew, TypeOK
    <2> QED BY <2>2, <2>3
  <1>9. ASSUME NEW v \in Workers, NEW b \in Assignments, NEW success \in BOOLEAN,
               Submit(v, b, success)
        PROVE  asn'[a].ttl = Expired
    <2>1. wrk[w].status = "offline"
      BY <1>9 DEF Submit, SlotFreed, TypeOK, Registration
    <2>2. asn'[b].status \notin InFlightStatus
      BY <1>9 DEF Submit, TypeOK, Row, InFlightStatus
    <2> QED BY <1>1, <1>9, <2>1, <2>2 DEF Submit, TypeOK
  <1>10. ASSUME NEW v \in Workers, Register(v) \/ Deregister(v) \/ Revoke(v)
         PROVE  asn'[a].ttl = Expired
    <2>1. asn'[a] = asn[a] /\ (asn[a].worker \in {v} => asn[a].ttl = Expired)
      BY <1>10, ReapLeaves DEF Register, Deregister, Revoke
    <2>2. w # v => wrk'[w] = wrk[w]
      BY <1>10 DEF Register, Deregister, Revoke, TypeOK
    <2> QED BY <1>1, <2>1, <2>2
  <1>11. ASSUME NEW v \in Workers, NEW st \in WorkerStatus, NEW ld \in 0 .. MaxConcurrency,
                Heartbeat(v, st, ld)
         PROVE  asn'[a].ttl = Expired
    BY <1>1, <1>11 DEF Heartbeat, TypeOK, Registration
  <1>12. CASE EmergencyStop
    <2> DEFINE ws == {v \in Workers : ~wrk[v].gone}
    <2>1. asn'[a] = asn[a] /\ (asn[a].worker \in ws => asn[a].ttl = Expired)
      BY <1>12, ReapLeaves DEF EmergencyStop
    <2>2. w \notin ws => wrk'[w] = wrk[w]
      BY <1>12 DEF EmergencyStop
    <2> QED BY <1>1, <2>1, <2>2
  <1>13. ASSUME NEW v \in Workers, (\E d \in BOOLEAN : SetDrain(v, d)) \/ Rotate(v)
         PROVE  asn'[a].ttl = Expired
    BY <1>1, <1>13 DEF SetDrain, Rotate, TypeOK, Registration
  <1>14. CASE MaintenanceTick
    <2> PICK stale \in SUBSET StaleWorkers, expired \in SUBSET ExpiredRows :
          MaintenanceTick!(stale, expired)
      BY <1>14 DEF MaintenanceTick
    <2>1. Recovered(asn[a]).status \notin InFlightStatus
      BY <1>2 DEF Recovered, InFlightStatus, Row
    <2>2. asn'[a] = asn[a] /\ a \notin HeldBy(stale) \ ExpiredRows
      BY <2>1 DEF RecoverRows
    <2>3. CASE w \in stale
      BY <2>2, <2>3 DEF HeldBy, Holdings, InFlight, ExpiredRows
    <2>4. CASE w \notin stale
      <3>1. wrk[w].status = "offline"
        BY <1>2, <2>4 DEF SlotsReleased, Registration
      <3> QED BY <1>1, <2>2, <3>1
    <2> QED BY <2>3, <2>4
  <1>15. CASE Exhausted
    <2>1. asn'[a] = asn[a] \/ asn'[a] = [asn[a] EXCEPT !.status = "cancelled"]
      BY <1>15 DEF Exhausted, ExhaustedRead, ExhaustedWrite
    <2>2. asn'[a] = asn[a]
      BY <1>2, <2>1 DEF InFlightStatus, Row
    <2>3. wrk' = wrk
      BY <1>15 DEF Exhausted, ExhaustedRead, ExhaustedWrite
    <2> QED BY <1>1, <2>2, <2>3
  <1> QED BY <1>3, <1>4, <1>5, <1>6, <1>7, <1>8, <1>9, <1>10, <1>11, <1>12, <1>13, <1>14,
             <1>15
          DEF Next, Dispatch, WorkerOnAssignment, WorkerOnRegistry, Admin

\* An OFFLINE worker holds no lease it could still use, also when SKIP LOCKED
\* leaves a row behind.
THEOREM OfflineHolds == Spec => []OfflineHoldsNoLease
  <1>1. TypeOK /\ TypeOK' /\ OfflineHoldsNoLease /\ [Next]_vars => OfflineHoldsNoLease'
    BY OfflineStep
  <1> QED BY <1>1, OfflineInit, TypeCorrect, PTL DEF Spec

-----------------------------------------------------------------------------
(* Refinement. *)

\* The phase of each status.
LEMMA PhaseOf ==
  ASSUME NEW st \in AssignmentStatus
  PROVE  /\ st = "absent" => Phase(st) = "absent"
         /\ st = "pending" => Phase(st) = "queued"
         /\ st \in InFlightStatus => Phase(st) = "owned"
         /\ st \in TerminalStatus => Phase(st) = "done"
  BY DEF Phase, AssignmentStatus, InFlightStatus, TerminalStatus

\* The abstract row of a record, so that it can be named for both states.
View(r) ==
    [phase   |-> Phase(r.status),
     attempt |-> r.attempt,
     owner   |-> IF r.status \in InFlightStatus THEN r.worker ELSE NoWorker]

\* The refinement mapping is the view of each row on its own.
LEMMA AbstractRowIsView ==
  /\ AbstractRow = [a \in Assignments |-> View(asn[a])]
  /\ AbstractRow' = [a \in Assignments |-> View(asn'[a])]
  BY DEF AbstractRow, View, InFlight

\* Initial states map to initial states.
LEMMA AbstractInit == Init => Abstract!Init
  <1> SUFFICES ASSUME Init PROVE AbstractRow = [a \in Assignments |-> Abstract!Absent]
    BY DEF Abstract!Init
  <1>1. Phase("absent") = "absent"
    BY PhaseOf DEF AssignmentStatus
  <1>2. \A a \in Assignments : View(asn[a]) = Abstract!Absent
    BY <1>1 DEF Init, View, Abstract!Absent, InFlightStatus
  <1> QED BY <1>2, AbstractRowIsView

\* What an exhausted dispatch has read is a row, and stays one.
DoomedExist == \A a \in doomed : asn[a].status # "absent"

\* No transaction removes a row, and only existing rows are read.
LEMMA DoomedStep ==
  ASSUME TypeOK, TypeOK', DoomedExist, [Next]_vars PROVE DoomedExist'
  <1> SUFFICES ASSUME NEW a \in doomed' PROVE asn'[a].status # "absent"
    BY DEF DoomedExist
  <1>1. a \in Assignments /\ asn[a] \in Row
    BY DEF TypeOK
  <1>2. CASE ExhaustedRead
    BY <1>2 DEF ExhaustedRead, OpenRows, InFlight, InFlightStatus
  <1>3. CASE ExhaustedWrite
    BY <1>3 DEF ExhaustedWrite
  <1>4. CASE doomed' = doomed
    <2>1. RowMove(a) /\ asn[a].status # "absent"
      BY <1>1, <1>4, StepMovesRows DEF DoomedExist
    <2> QED BY <1>1, <2>1
            DEF RowMove, MoveTick, MoveCreate, MovePush, MoveClaim, MoveExtend, MoveFinish,
                MoveRecover, MoveCancel, Leased, Recovered, InFlight, InFlightStatus,
                TerminalStatus, Row
  <1>5. ExhaustedRead \/ ExhaustedWrite \/ doomed' = doomed
    BY DEF Next, vars, Tick, Dispatch, DispatchUnassigned, DispatchToWorker, Exhausted,
           WorkerOnAssignment, Claim, Ack, Renew, Submit, WorkerOnRegistry, Register,
           Heartbeat, Deregister, Admin, EmergencyStop, SetDrain, Revoke, Rotate,
           MaintenanceTick
  <1> QED BY <1>2, <1>3, <1>4, <1>5

\* Initially nothing has been read.
LEMMA DoomedInit == Init => DoomedExist
  BY DEF Init, DoomedExist

\* A step of StageLease maps to a step of StageAttempt, or to a stutter.
LEMMA AbstractStep ==
  ASSUME TypeOK, TypeOK', LeaseOwnership, DoomedExist, [Next]_vars PROVE Abstract!Next
  <1> SUFFICES ASSUME NEW a \in Assignments
               PROVE  \/ View(asn'[a]) = View(asn[a])
                      \/ Abstract!RowStep(View(asn[a]), View(asn'[a]))
    BY AbstractRowIsView DEF Abstract!Next
  <1> DEFINE r == asn[a]
             s == asn'[a]
  <1>1. /\ r \in Row
        /\ s \in Row
        /\ r.status \in AssignmentStatus
        /\ s.status \in AssignmentStatus
        /\ r.attempt \in Nat
    BY AttemptsNat DEF TypeOK, Row
  <1>2. r.status \in InFlightStatus => r.worker \in Workers
    BY DEF LeaseOwnership, InFlight
  <1>3. RowMove(a)
    BY StepMovesRows
  <1>4. CASE s = r
    BY <1>4
  <1>5. CASE MoveTick(a)
    <2>1. s.status = r.status /\ s.attempt = r.attempt /\ s.worker = r.worker
      BY <1>1, <1>5 DEF MoveTick, Row
    <2> QED BY <2>1 DEF View
  <1>6. CASE MoveCreate(a)
    <2>1. r.status = "absent" /\ s.status = "pending"
      BY <1>1, <1>6 DEF MoveCreate, Row
    <2> QED BY <1>1, <2>1, PhaseOf
            DEF View, Abstract!RowStep, Abstract!Create, InFlightStatus
  <1>7. CASE MovePush(a)
    <2>1. r.status = "absent" /\ s.status \in InFlightStatus /\ s.worker \in Workers
      BY <1>1, <1>7 DEF MovePush, Leased, Row, InFlightStatus
    <2> QED BY <1>1, <2>1, PhaseOf DEF View, Abstract!RowStep, Abstract!CreateOwned
  <1>8. CASE MoveClaim(a)
    <2>1. /\ r.status = "pending"
          /\ s.status \in InFlightStatus
          /\ s.worker \in Workers
          /\ s.attempt = r.attempt
      BY <1>1, <1>8 DEF MoveClaim, Leased, Row, InFlightStatus
    <2>2. /\ View(r) = [phase |-> "queued", attempt |-> r.attempt, owner |-> NoWorker]
          /\ View(s) = [phase |-> "owned", attempt |-> r.attempt, owner |-> s.worker]
      BY <1>1, <2>1, PhaseOf DEF View, InFlightStatus
    <2> QED BY <2>1, <2>2 DEF Abstract!RowStep, Abstract!Start
  <1>9. CASE MoveExtend(a)
    <2>1. /\ r.status \in InFlightStatus
          /\ s.status \in InFlightStatus
          /\ s.attempt = r.attempt
          /\ s.worker = r.worker
      BY <1>1, <1>9 DEF MoveExtend, InFlight, Row
    <2> QED BY <1>1, <2>1, PhaseOf DEF View
  <1>10. CASE MoveFinish(a)
    <2>1. /\ r.status \in InFlightStatus
          /\ s.status \in TerminalStatus
          /\ s.attempt = r.attempt
      BY <1>1, <1>10 DEF MoveFinish, InFlight, Row
    <2>2. /\ View(r) = [phase |-> "owned", attempt |-> r.attempt, owner |-> r.worker]
          /\ View(s) = [phase |-> "done", attempt |-> r.attempt, owner |-> NoWorker]
      BY <1>1, <2>1, PhaseOf DEF View, InFlightStatus, TerminalStatus
    <2> QED BY <2>2 DEF Abstract!RowStep, Abstract!Finish
  <1>11. CASE MoveRecover(a)
    <2>1. r.status \in InFlightStatus
      BY <1>11 DEF MoveRecover, InFlight
    <2>2. View(r) = [phase |-> "owned", attempt |-> r.attempt, owner |-> r.worker]
      BY <1>1, <2>1, PhaseOf DEF View
    <2>3. CASE r.attempt + 1 > MaxAttempts
      <3>1. s.status = "failed" /\ s.attempt = r.attempt
        BY <1>1, <1>11, <2>3 DEF MoveRecover, Recovered, Row
      <3>2. View(s) = [phase |-> "done", attempt |-> r.attempt, owner |-> NoWorker]
        BY <1>1, <3>1, PhaseOf DEF View, InFlightStatus, TerminalStatus
      <3> QED BY <2>2, <3>2 DEF Abstract!RowStep, Abstract!Finish
    <2>4. CASE ~(r.attempt + 1 > MaxAttempts)
      <3>1. s.status = "pending" /\ s.attempt = r.attempt + 1
        BY <1>1, <1>11, <2>4 DEF MoveRecover, Recovered, Row
      <3>2. View(s) = [phase |-> "queued", attempt |-> r.attempt + 1, owner |-> NoWorker]
        BY <1>1, <3>1, PhaseOf DEF View, InFlightStatus
      <3>3. r.attempt < MaxAttempts
        BY <1>1, <2>4, SettingsAssumption
      <3> QED BY <2>2, <3>2, <3>3 DEF Abstract!RowStep, Abstract!Requeue
    <2> QED BY <2>3, <2>4
  <1>12. CASE MoveCancel(a)
    <2>1. /\ r.status # "absent"
          /\ s.status \in TerminalStatus
          /\ s.attempt = r.attempt
      BY <1>1, <1>12 DEF MoveCancel, DoomedExist, TerminalStatus, Row
    <2>2. View(s) = [phase |-> "done", attempt |-> r.attempt, owner |-> NoWorker]
      BY <1>1, <2>1, PhaseOf DEF View, InFlightStatus, TerminalStatus
    <2>3. CASE r.status \in TerminalStatus
      BY <1>1, <2>2, <2>3, PhaseOf DEF View, InFlightStatus, TerminalStatus
    <2>4. CASE r.status = "pending"
      <3>1. View(r) = [phase |-> "queued", attempt |-> r.attempt, owner |-> NoWorker]
        BY <1>1, <2>4, PhaseOf DEF View, InFlightStatus
      <3> QED BY <2>2, <3>1 DEF Abstract!RowStep, Abstract!Cancel
    <2>5. CASE r.status \in InFlightStatus
      <3>1. View(r) = [phase |-> "owned", attempt |-> r.attempt, owner |-> r.worker]
        BY <1>1, <2>5, PhaseOf DEF View
      <3> QED BY <2>2, <3>1 DEF Abstract!RowStep, Abstract!Finish
    <2> QED BY <1>1, <2>1, <2>3, <2>4, <2>5
            DEF AssignmentStatus, InFlightStatus, TerminalStatus
  <1> QED BY <1>3, <1>4, <1>5, <1>6, <1>7, <1>8, <1>9, <1>10, <1>11, <1>12 DEF RowMove

\* Leases, claims, sweeps and registry changes implement the life cycle of
\* StageAttempt.
THEOREM Refinement == Spec => ImplementsStageAttempt
  <1>1. TypeOK /\ TypeOK' /\ LeaseOwnership /\ DoomedExist /\ [Next]_vars
          => [Abstract!Next]_AbstractRow
    BY AbstractStep
  <1>2. TypeOK /\ TypeOK' /\ DoomedExist /\ [Next]_vars => DoomedExist'
    BY DoomedStep
  <1> QED BY <1>1, <1>2, AbstractInit, DoomedInit, TypeCorrect, LeaseOwnershipHolds, PTL
          DEF Spec, ImplementsStageAttempt, Abstract!Spec

-----------------------------------------------------------------------------
(* Live leases. *)

\* A deregistered worker is offline: no route but registration, which clears
\* deregistered_at, gives it another status.
GoneIsOffline == \A w \in Workers : wrk[w].gone => wrk[w].status = "offline"

\* Initially no worker is deregistered.
LEMMA GoneInit == Init => GoneIsOffline
  BY DEF Init, GoneIsOffline

\* No step puts a deregistered worker on line, and none deregisters a worker
\* without taking it off line.
LEMMA GoneStep ==
  ASSUME TypeOK, GoneIsOffline, [Next]_vars PROVE GoneIsOffline'
  <1> SUFFICES ASSUME NEW w \in Workers, wrk'[w].gone PROVE wrk'[w].status = "offline"
    BY DEF GoneIsOffline
  <1>1. wrk[w] \in Registration /\ (wrk[w].gone => wrk[w].status = "offline")
    BY DEF TypeOK, GoneIsOffline
  <1>2. CASE wrk' = wrk
    BY <1>1, <1>2
  <1>3. CASE Tick
    <2>1. wrk'[w] = [wrk[w] EXCEPT !.hb = IF @ < Stale THEN @ + 1 ELSE @]
      BY <1>3 DEF Tick
    <2> QED BY <1>1, <2>1 DEF Registration
  <1>4. ASSUME NEW v \in Workers, Selectable(v) \/ Claimable(v),
               wrk' = [wrk EXCEPT ![v] = SlotTaken(@)]
        PROVE  wrk'[w].status = "offline"
    BY <1>1, <1>4 DEF Selectable, Claimable, SlotTaken, TypeOK, Registration
  <1>5. ASSUME NEW v \in Workers, NEW b \in Assignments, NEW success \in BOOLEAN,
               Submit(v, b, success)
        PROVE  wrk'[w].status = "offline"
    BY <1>1, <1>5 DEF Submit, SlotFreed, TypeOK, Registration
  <1>6. ASSUME NEW v \in Workers, Register(v) PROVE wrk'[w].status = "offline"
    BY <1>1, <1>6 DEF Register, TypeOK, Registration
  <1>7. ASSUME NEW v \in Workers, Deregister(v) PROVE wrk'[w].status = "offline"
    BY <1>1, <1>7 DEF Deregister, TakenOffline, TypeOK, Registration
  <1>8. ASSUME NEW v \in Workers, Revoke(v) PROVE wrk'[w].status = "offline"
    BY <1>1, <1>8 DEF Revoke, TakenOffline, TypeOK, Registration
  <1>9. ASSUME NEW v \in Workers, NEW st \in WorkerStatus, NEW ld \in 0 .. MaxConcurrency,
               Heartbeat(v, st, ld)
        PROVE  wrk'[w].status = "offline"
    BY <1>1, <1>9 DEF Heartbeat, TypeOK, Registration
  <1>10. ASSUME NEW v \in Workers, NEW d \in BOOLEAN, SetDrain(v, d)
         PROVE  wrk'[w].status = "offline"
    BY <1>1, <1>10 DEF SetDrain, TypeOK, Registration
  <1>11. CASE EmergencyStop
    BY <1>1, <1>11 DEF EmergencyStop, TakenOffline, Registration
  <1>12. CASE MaintenanceTick
    <2> PICK stale \in SUBSET StaleWorkers, expired \in SUBSET ExpiredRows :
          MaintenanceTick!(stale, expired)
      BY <1>12 DEF MaintenanceTick
    <2>1. ASSUME NEW n PROVE /\ SlotsReleased(wrk[w], n).gone = wrk[w].gone
                             /\ wrk[w].status = "offline" =>
                                   SlotsReleased(wrk[w], n).status = "offline"
      BY <1>1 DEF SlotsReleased, Registration
    <2>2. TakenOffline(wrk[w]).status = "offline"
      BY <1>1 DEF TakenOffline, Registration
    <2> QED BY <1>1, <2>1, <2>2
  <1>13. CASE Dispatch
    BY <1>2, <1>4, <1>13 DEF Dispatch, DispatchUnassigned, DispatchToWorker
  <1>14. CASE WorkerOnAssignment
    BY <1>2, <1>4, <1>5, <1>14 DEF WorkerOnAssignment, Claim, Ack, Renew
  <1>15. CASE WorkerOnRegistry
    BY <1>6, <1>7, <1>9, <1>15 DEF WorkerOnRegistry
  <1>16. CASE Admin
    BY <1>2, <1>8, <1>10, <1>11, <1>16 DEF Admin, Rotate
  <1>17. CASE Exhausted
    BY <1>2, <1>17 DEF Exhausted, ExhaustedRead, ExhaustedWrite
  <1> QED BY <1>2, <1>3, <1>12, <1>13, <1>14, <1>15, <1>16, <1>17 DEF Next, vars

\* A reap takes rows only from the workers it is for.
LEMMA ReapTakes ==
  ASSUME NEW ws \in SUBSET Workers, ReapHoldings(ws), NEW a \in Assignments,
         asn'[a] # asn[a]
  PROVE  asn[a].worker \in ws
  <1> PICK skipped \in SUBSET (HeldBy(ws) \cap ExpiredRows) :
        asn' = RecoverRows(HeldBy(ws) \ skipped)
    BY DEF ReapHoldings
  <1>1. a \in HeldBy(ws)
    BY DEF RecoverRows
  <1> QED BY <1>1 DEF HeldBy, Holdings

\* A step that requeues or fails a row under an unexpired lease, or cancels it,
\* takes its worker off line or restarts it, or is an exhausted dispatch.
LEMMA LiveLeaseStep ==
  ASSUME TypeOK, GoneIsOffline, [Next]_vars,
         NEW a \in Assignments, NEW w \in Workers,
         InFlight(a), asn[a].worker = w, asn[a].ttl >= 0,
         asn'[a].worker = NoWorker \/ asn'[a].status = "cancelled"
  PROVE  \/ wrk'[w].status = "offline"
         \/ wrk'[w].status = "online" /\ wrk'[w].hb = 0 /\ wrk'[w].load = 0
         \/ a \in doomed /\ asn'[a].status = "cancelled"
  <1> DEFINE Excused == \/ wrk'[w].status = "offline"
                        \/ wrk'[w].status = "online" /\ wrk'[w].hb = 0 /\ wrk'[w].load = 0
                        \/ a \in doomed /\ asn'[a].status = "cancelled"
  <1>1. asn[a] \in Row /\ wrk[w] \in Registration
    BY DEF TypeOK
  <1>2. /\ asn'[a].worker # asn[a].worker \/ asn'[a].status = "cancelled"
        /\ asn[a].status # "cancelled"
        /\ asn'[a] # asn[a]
    BY RowsAssumption DEF InFlight, InFlightStatus
  <1>3. ASSUME asn' = asn PROVE Excused
    BY <1>2, <1>3
  <1>4. CASE Tick
    <2>1. asn'[a] = [asn[a] EXCEPT
                       !.ttl = IF @ > Expired THEN @ - 1 ELSE @,
                       !.tenure = IF @ < MaxLeaseSeconds THEN @ + 1 ELSE @]
      BY <1>4 DEF Tick
    <2> QED BY <1>1, <1>2, <2>1 DEF Row
  <1>5. CASE Dispatch
    <2>1. \E b \in Assignments :
             /\ asn[b].status = "absent"
             /\ \A c \in Assignments \ {b} : asn'[c] = asn[c]
      BY <1>5 DEF Dispatch, DispatchUnassigned, DispatchToWorker, TypeOK
    <2> QED BY <1>2, <2>1 DEF InFlight, InFlightStatus
  <1>6. CASE WorkerOnAssignment
    <2> PICK v \in Workers, b \in Assignments :
             \/ \E tok \in Tokens \cup {NoToken} : Claim(v, b, tok)
             \/ Ack(v, b)
             \/ Renew(v, b)
             \/ \E success \in BOOLEAN : Submit(v, b, success)
      BY <1>6 DEF WorkerOnAssignment
    <2>1. CASE a # b
      BY <1>2, <2>1 DEF Claim, Ack, Renew, Submit, TypeOK
    <2>2. ASSUME a = b, NEW tok, Claim(v, b, tok) PROVE FALSE
      BY <2>2 DEF Claim, InFlight, InFlightStatus
    <2>3. ASSUME a = b, Ack(v, b) PROVE FALSE
      BY <1>1, <1>2, <2>3 DEF Ack, TypeOK, Row
    <2>4. ASSUME a = b, Renew(v, b) PROVE FALSE
      BY <1>1, <1>2, <2>4 DEF Renew, TypeOK, Row
    <2>5. ASSUME a = b, NEW success \in BOOLEAN, Submit(v, b, success) PROVE FALSE
      BY <1>1, <1>2, <2>5 DEF Submit, TypeOK, Row
    <2> QED BY <2>1, <2>2, <2>3, <2>4, <2>5
  <1>7. ASSUME NEW v \in Workers, ReapHoldings({v}) PROVE w = v
    BY <1>2, <1>7, ReapTakes
  <1>8. ASSUME NEW v \in Workers, Register(v) PROVE Excused
    BY <1>1, <1>7, <1>8 DEF Register, TypeOK, Registration
  <1>9. ASSUME NEW v \in Workers, Deregister(v) PROVE Excused
    BY <1>1, <1>7, <1>9 DEF Deregister, TakenOffline, TypeOK, Registration
  <1>10. ASSUME NEW v \in Workers, Revoke(v) PROVE Excused
    BY <1>1, <1>7, <1>10 DEF Revoke, TakenOffline, TypeOK, Registration, GoneIsOffline
  <1>11. CASE EmergencyStop
    <2> DEFINE ws == {v \in Workers : ~wrk[v].gone}
    <2>1. w \in ws
      BY <1>2, <1>11, ReapTakes DEF EmergencyStop
    <2> QED BY <1>1, <1>11, <2>1 DEF EmergencyStop, TakenOffline, Registration
  <1>12. CASE MaintenanceTick
    <2> PICK stale \in SUBSET StaleWorkers, expired \in SUBSET ExpiredRows :
          MaintenanceTick!(stale, expired)
      BY <1>12 DEF MaintenanceTick
    <2>1. a \in HeldBy(stale) \/ a \in ExpiredRows
      BY <1>2 DEF RecoverRows
    <2>2. a \notin ExpiredRows
      BY DEF ExpiredRows, Expired
    <2>3. w \in stale
      BY <2>1, <2>2 DEF HeldBy, Holdings
    <2> QED BY <1>1, <2>3 DEF TakenOffline, Registration
  <1>13. CASE WorkerOnRegistry
    BY <1>3, <1>8, <1>9, <1>13 DEF WorkerOnRegistry, Heartbeat
  <1>14. CASE Admin
    BY <1>3, <1>10, <1>11, <1>14 DEF Admin, SetDrain, Rotate
  <1>15. CASE Exhausted
    <2>1. CASE ExhaustedRead
      BY <1>2, <2>1 DEF ExhaustedRead
    <2>2. CASE ExhaustedWrite
      <3>1. a \in doomed /\ asn'[a] = [asn[a] EXCEPT !.status = "cancelled"]
        BY <1>2, <2>2 DEF ExhaustedWrite
      <3> QED BY <1>1, <3>1 DEF Row
    <2> QED BY <1>15, <2>1, <2>2 DEF Exhausted
  <1> QED BY <1>3, <1>4, <1>5, <1>6, <1>12, <1>13, <1>14, <1>15 DEF Next, vars

\* An unexpired lease is taken from its worker only when that worker restarts or
\* goes off line, or by an exhausted dispatch that had read the row; a sweep for somebody else's lease never touches it.
THEOREM LiveLeaseIsKept == Spec => LiveLeaseKept
  <1>1. TypeOK /\ GoneIsOffline /\ [Next]_vars => GoneIsOffline'
    BY GoneStep
  <1>2. TypeOK /\ GoneIsOffline /\ [Next]_vars =>
          [\A a \in Assignments, w \in Workers :
              /\ InFlight(a) /\ asn[a].worker = w /\ asn[a].ttl >= 0
              /\ asn'[a].worker = NoWorker \/ asn'[a].status = "cancelled"
              => \/ wrk'[w].status = "offline"
                 \/ wrk'[w].status = "online" /\ wrk'[w].hb = 0 /\ wrk'[w].load = 0
                 \/ a \in doomed /\ asn'[a].status = "cancelled"]_vars
    BY LiveLeaseStep
  <1> QED BY <1>1, <1>2, GoneInit, TypeCorrect, PTL DEF Spec, LiveLeaseKept

-----------------------------------------------------------------------------
(* Claim tokens. *)

\* Row a is DISPATCHED to w under tok, before and after a step.
Named(a, w, tok) ==
    asn[a].status = "dispatched" /\ asn[a].worker = w /\ asn[a].token = tok

\* TokenNamesOneRow without cardinalities.
NamesOne ==
    \A w \in Workers, tok \in Tokens, a, b \in Assignments :
        Named(a, w, tok) /\ Named(b, w, tok) => a = b

\* The rows under a token are those HeldUnderToken finds.
LEMMA NamedRows ==
  ASSUME NEW w \in Workers, NEW tok \in Tokens
  PROVE  HeldUnderToken(w, tok) = {a \in Assignments : Named(a, w, tok)}
  BY RowsAssumption DEF HeldUnderToken, Holdings, Named, InFlight, InFlightStatus

\* Nothing but a claim puts a row under a token.
LEMMA OnlyClaimsName ==
  ASSUME TypeOK, [Next]_vars, NEW a \in Assignments, NEW w \in Workers, NEW tok \in Tokens,
         Named(a, w, tok)', ~Named(a, w, tok)
  PROVE  Claim(w, a, tok)
  <1>1. asn[a] \in Row /\ asn'[a] # asn[a]
    BY DEF TypeOK, Named
  <1>2. asn'[a].status = "dispatched" /\ asn'[a].worker = w /\ asn'[a].token = tok
    BY DEF Named
  <1>r. Recovered(asn[a]).status # "dispatched"
    BY <1>1 DEF Recovered, Row
  <1>3. ASSUME NEW ws, ReapHoldings(ws) PROVE FALSE
    <2>1. asn'[a] = Recovered(asn[a]) \/ asn'[a] = asn[a]
      BY <1>3 DEF ReapHoldings, RecoverRows
    <2> QED BY <1>1, <1>2, <1>r, <2>1
  <1>4. CASE Tick
    BY <1>1, <1>4 DEF Tick, Named, Row
  <1>5. CASE Dispatch
    <2>1. ASSUME NEW b \in Assignments, NEW n, DispatchUnassigned(b, n) PROVE FALSE
      <3>1. asn'[a].status = "pending"
        BY <1>1, <2>1 DEF DispatchUnassigned, TypeOK, Row
      <3> QED BY <1>2, <3>1
    <2>2. ASSUME NEW b \in Assignments, NEW n, NEW v \in Workers, DispatchToWorker(b, n, v)
          PROVE  FALSE
      <3>1. asn'[a].token = NoToken
        BY <1>1, <2>2 DEF DispatchToWorker, Leased, TypeOK, Row
      <3> QED BY <1>2, <3>1, RowsAssumption
    <2> QED BY <1>5, <2>1, <2>2 DEF Dispatch
  <1>6. CASE Exhausted
    BY <1>1, <1>2, <1>6 DEF Exhausted, ExhaustedRead, ExhaustedWrite, Row
  <1>7. CASE WorkerOnAssignment
    <2> PICK v \in Workers, b \in Assignments :
             \/ \E t \in Tokens \cup {NoToken} : Claim(v, b, t)
             \/ Ack(v, b)
             \/ Renew(v, b)
             \/ \E success \in BOOLEAN : Submit(v, b, success)
      BY <1>7 DEF WorkerOnAssignment
    <2>1. b = a
      BY <1>1 DEF Claim, Ack, Renew, Submit, TypeOK
    <2>2. ASSUME NEW t \in Tokens \cup {NoToken}, Claim(v, b, t) PROVE v = w /\ t = tok
      BY <1>1, <1>2, <2>1, <2>2 DEF Claim, Leased, TypeOK, Row
    <2>3. ~Ack(v, b)
      BY <1>1, <1>2, <2>1 DEF Ack, TypeOK, Row
    <2>4. ~Renew(v, b)
      BY <1>1, <1>2, <2>1 DEF Renew, Named, TypeOK, Row
    <2>5. ASSUME NEW success \in BOOLEAN, Submit(v, b, success) PROVE FALSE
      <3>1. asn'[a].status = IF success THEN "completed" ELSE "failed"
        BY <1>1, <2>1, <2>5 DEF Submit, TypeOK, Row
      <3> QED BY <1>2, <3>1
    <2> QED BY <2>1, <2>2, <2>3, <2>4, <2>5
  <1>8. CASE WorkerOnRegistry
    BY <1>1, <1>3, <1>8 DEF WorkerOnRegistry, Register, Heartbeat, Deregister
  <1>9. CASE Admin
    BY <1>1, <1>3, <1>9 DEF Admin, EmergencyStop, SetDrain, Revoke, Rotate
  <1>10. CASE MaintenanceTick
    <2>1. asn'[a] = Recovered(asn[a]) \/ asn'[a] = asn[a]
      BY <1>10 DEF MaintenanceTick, RecoverRows
    <2> QED BY <1>1, <1>2, <1>r, <2>1
  <1> QED BY <1>1, <1>4, <1>5, <1>6, <1>7, <1>8, <1>9, <1>10 DEF Next, vars

\* A claim takes a row under a token only if the worker holds none under it.
LEMMA NamesOneStep ==
  ASSUME TypeOK, NamesOne, [Next]_vars PROVE NamesOne'
  <1> SUFFICES ASSUME NEW w \in Workers, NEW tok \in Tokens,
                      NEW a \in Assignments, NEW b \in Assignments,
                      Named(a, w, tok)', Named(b, w, tok)', a # b
               PROVE  FALSE
    BY DEF NamesOne
  <1>1. ASSUME NEW c \in Assignments, NEW d \in Assignments, c # d, Claim(w, c, tok),
               Named(d, w, tok)'
        PROVE  FALSE
    <2>1. Named(d, w, tok)
      BY <1>1 DEF Claim, Named, TypeOK
    <2>2. HeldUnderToken(w, tok) = {}
      BY <1>1 DEF Claim
    <2> QED BY <2>1, <2>2, NamedRows
  <1>2. Named(a, w, tok) /\ Named(b, w, tok)
    BY <1>1, OnlyClaimsName
  <1> QED BY <1>2 DEF NamesOne

\* A claim token names at most one DISPATCHED row of its worker, so that the
\* lookup of a repeated claim finds one row or none.
THEOREM TokensNameOneRow == Spec => []TokenNamesOneRow
  <1>1. Init => NamesOne
    BY DEF Init, NamesOne, Named
  <1>2. TypeOK /\ NamesOne /\ [Next]_vars => NamesOne'
    BY NamesOneStep
  <1>3. TypeOK /\ NamesOne => TokenNamesOneRow
    <2> SUFFICES ASSUME NamesOne, NEW w \in Workers, NEW tok \in Tokens
                 PROVE  Cardinality(HeldUnderToken(w, tok)) <= 1
      BY DEF TokenNamesOneRow
    <2>1. \A a, b \in HeldUnderToken(w, tok) : a = b
      BY NamedRows DEF NamesOne
    <2>2. CASE HeldUnderToken(w, tok) = {}
      BY <2>2, FS_EmptySet
    <2>3. CASE HeldUnderToken(w, tok) # {}
      <3> PICK a : HeldUnderToken(w, tok) = {a}
        BY <2>1, <2>3
      <3> QED BY FS_Singleton
    <2> QED BY <2>2, <2>3
  <1> QED BY <1>1, <1>2, <1>3, TypeCorrect, PTL DEF Spec
=============================================================================
