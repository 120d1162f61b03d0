----------------------------- MODULE StageLease -----------------------------
(***************************************************************************)
(* Ownership of stage assignments by workers: push dispatch, worker-pull   *)
(* claims, lease extension, result submission, recovery, and the worker    *)
(* registry those steps read and write.                                    *)
(*                                                                         *)
(* One action is one database transaction: every handler locks the worker  *)
(* row and then the assignment row with FOR UPDATE before it reads what it *)
(* changes, so handlers of one worker are serialised and an action stands  *)
(* for a whole handler.  Three races remain and are kept: a request that   *)
(* authenticated before a revoke and runs after it (late), the scans with  *)
(* SKIP LOCKED, which pass over a row that an expiry sweep has locked, and *)
(* the scheduler's exhausted dispatch, which reads open rows without a     *)
(* lock and cancels them later (doomed).                                   *)
(*                                                                         *)
(* Time is relative.  A lease is kept as the time left of it, a tenure and *)
(* a heartbeat as their age; Tick moves all of them by one unit and clips  *)
(* them where the code no longer tells values apart, so no bound on the    *)
(* clock is needed.                                                        *)
(*                                                                         *)
(* What a result does to the pipeline run (advance, retry, fail, spend) is *)
(* the subject of PipelineRun, the effect key that ack and submit write    *)
(* that of WorkerClient; this module is the columns of stage_assignments,  *)
(* worker_registry and worker_credentials.                                 *)
(***************************************************************************)
EXTENDS Integers, FiniteSets

CONSTANTS
    Assignments,      \* rows of stage_assignments
    Workers,          \* rows of worker_registry
    Tokens,           \* claim_token values a client may send
    NoWorker,         \* worker_id IS NULL
    NoToken,          \* claim_token IS NULL
    LeaseSeconds,     \* assignment_lease_seconds
    MaxLeaseSeconds,  \* assignment_max_lease_seconds
    OfflineAfter,     \* worker_offline_after_seconds
    MaxAttempts,      \* WorkflowStage.max_attempts
    MaxDispatchAttempt, \* largest attempt_number the scheduler dispatches with
    MaxConcurrency,   \* worker_registry.max_concurrency
    ProviderLimit     \* provider_concurrency_budgets.max_concurrent

\* The settings are positive and one lease fits in the maximum tenure.
ASSUME SettingsAssumption ==
    /\ LeaseSeconds \in Nat \ {0}
    /\ MaxLeaseSeconds \in Nat
    /\ LeaseSeconds <= MaxLeaseSeconds
    /\ OfflineAfter \in Nat \ {0}
    /\ MaxAttempts \in Nat \ {0}
    /\ MaxDispatchAttempt \in Nat \ {0}
    /\ MaxConcurrency \in Nat \ {0}
    /\ ProviderLimit \in Nat

\* Rows and workers are finitely many, and the NULL values are none of them.
ASSUME RowsAssumption ==
    /\ IsFiniteSet(Assignments)
    /\ IsFiniteSet(Workers)
    /\ NoWorker \notin Workers
    /\ NoToken \notin Tokens

VARIABLES
    asn,      \* stage_assignments
    wrk,      \* worker_registry
    cred,     \* workers that have an ACTIVE, unexpired credential
    late,     \* workers with a request that authenticated before a revoke
              \* and whose handler has not run yet
    doomed,   \* rows an exhausted dispatch has read and not yet cancelled
    grants    \* STAGE_ASSIGNED events: <<assignment, attempt, worker>>

vars == <<asn, wrk, cred, late, doomed, grants>>

NoLease == -2     \* lease_expires_at IS NULL
Expired == -1     \* lease_expires_at < now
NoTenure == -1    \* lease_started_at IS NULL
Stale == OfflineAfter + 1  \* last heartbeat older than the offline threshold

AssignmentStatus ==
    {"absent", "pending", "dispatched", "acknowledged", "completed", "failed",
     "cancelled"}
WorkerStatus == {"online", "busy", "draining", "offline"}
Attempts == 1 .. (IF MaxDispatchAttempt > MaxAttempts
                  THEN MaxDispatchAttempt ELSE MaxAttempts)

Row ==
    [status  : AssignmentStatus,
     attempt : Attempts,
     worker  : Workers \cup {NoWorker},
     token   : Tokens \cup {NoToken},
     ttl     : NoLease .. LeaseSeconds,      \* lease_expires_at - now
     tenure  : NoTenure .. MaxLeaseSeconds]  \* now - lease_started_at

Registration ==
    [status : WorkerStatus,
     load   : 0 .. MaxConcurrency,
     hb     : 0 .. Stale,                    \* now - last_heartbeat_at
     drain  : BOOLEAN,
     gone   : BOOLEAN]                       \* deregistered_at IS NOT NULL

TypeOK ==
    /\ asn \in [Assignments -> Row]
    /\ wrk \in [Workers -> Registration]
    /\ cred \in SUBSET Workers
    /\ late \in SUBSET Workers
    /\ doomed \in SUBSET Assignments
    /\ grants \in SUBSET (Assignments \X Attempts \X Workers)

-----------------------------------------------------------------------------
(* Row predicates. *)

InFlightStatus == {"dispatched", "acknowledged"}
TerminalStatus == {"completed", "failed", "cancelled"}

InFlight(a) == asn[a].status \in InFlightStatus
\* Mutant: holdings found by owner alone, the status filter forgotten.
HoldingsOfAnyStatus(w) == {a \in Assignments : asn[a].worker = w}

Holdings(w) == {a \in Assignments : InFlight(a) /\ asn[a].worker = w}
InFlightRows == {a \in Assignments : InFlight(a)}
OpenRows == {a \in Assignments : asn[a].status = "pending" \/ InFlight(a)}
\* Mutant: a lease counts as expired at its last valid instant.
ExpiredRowsEarly == {a \in Assignments : InFlight(a) /\ asn[a].ttl \in {Expired, 0}}

ExpiredRows == {a \in Assignments : InFlight(a) /\ asn[a].ttl = Expired}

\* Mutants: the tenure limit left out, or compared without the extension.
LeaseExtendableForever(w, a) ==
    asn[a].worker = w /\ InFlight(a) /\ asn[a].ttl >= 0

LeaseExtendableLate(w, a) ==
    LeaseExtendableForever(w, a) /\ asn[a].tenure <= MaxLeaseSeconds

\* assert_lease_extendable: the caller owns the row, the row is in flight,
\* its lease has not expired, and the extension stays within the tenure.
LeaseExtendable(w, a) ==
    /\ asn[a].worker = w
    /\ InFlight(a)
    /\ asn[a].ttl >= 0
    /\ asn[a].tenure + LeaseSeconds <= MaxLeaseSeconds

\* get_current_worker followed, in the same request, by the handler: the
\* credential was active when the request authenticated, which a revoke may
\* have overtaken by the time the handler holds the worker row.
Authenticated(w) == w \in cred \/ w \in late

\* _assert_credential_still_active: the credential row is locked and read
\* again inside the handler's transaction.
CredentialStillActive(w) == w \in cred

-----------------------------------------------------------------------------
(* Row and registry updates shared by several handlers. *)

\* Mutants: a crash costs no attempt; the attempt limit is off by one; the
\* tenure survives the requeue.
RecoveredFree(r) ==
    [r EXCEPT !.status = "pending", !.worker = NoWorker, !.token = NoToken,
              !.ttl = NoLease, !.tenure = NoTenure]

RecoveredOnceMore(r) ==
    IF r.attempt > MaxAttempts
    THEN [RecoveredFree(r) EXCEPT !.status = "failed"]
    ELSE [RecoveredFree(r) EXCEPT !.attempt = r.attempt + 1]

RecoveredKeepingTenure(r) ==
    IF r.attempt + 1 > MaxAttempts
    THEN [RecoveredFree(r) EXCEPT !.status = "failed", !.tenure = r.tenure]
    ELSE [RecoveredFree(r) EXCEPT !.attempt = r.attempt + 1, !.tenure = r.tenure]

\* recover_assignment: an attempt that reached a worker is consumed; the row
\* goes back to the queue under the next attempt number or fails for good.
Recovered(r) ==
    IF r.attempt + 1 > MaxAttempts
    THEN [r EXCEPT !.status = "failed", !.worker = NoWorker,
                   !.token = NoToken, !.ttl = NoLease, !.tenure = NoTenure]
    ELSE [r EXCEPT !.status = "pending", !.attempt = r.attempt + 1,
                   !.worker = NoWorker, !.token = NoToken,
                   !.ttl = NoLease, !.tenure = NoTenure]

RecoverRows(rows) ==
    [a \in Assignments |-> IF a \in rows THEN Recovered(asn[a]) ELSE asn[a]]

\* Mutant: workers go offline and nothing of theirs is recovered.
HeldByNobody(ws) == {}

HeldBy(ws) == UNION {Holdings(w) : w \in ws}

\* reap_worker_assignments for each of ws, whose registry rows the caller has
\* locked.  SKIP LOCKED leaves out a row that an expiry sweep has locked, and a
\* sweep locks only rows whose lease has expired.
ReapHoldings(ws) ==
    \E skipped \in SUBSET (HeldBy(ws) \cap ExpiredRows) :
        asn' = RecoverRows(HeldBy(ws) \ skipped)

\* submit_result: the slot is given back, and BUSY is lifted, only when the
\* registry still counts a load.
SlotFreed(r) ==
    IF r.load = 0 THEN r
    ELSE [r EXCEPT !.load = r.load - 1,
                   !.status = IF r.status = "busy" /\ r.load - 1 < MaxConcurrency
                              THEN "online" ELSE r.status]

\* _release_worker_slot, once for each of n recovered rows: the load stops
\* at zero, BUSY is lifted whenever the load ends below the maximum.
SlotsReleased(r, n) ==
    IF n = 0 THEN r
    ELSE LET left == IF r.load > n THEN r.load - n ELSE 0
         IN  [r EXCEPT !.load = left,
                       !.status = IF r.status = "busy" /\ left < MaxConcurrency
                                  THEN "online" ELSE r.status]

\* The load of a worker that takes one more row; BUSY at the maximum.
SlotTaken(r) ==
    [r EXCEPT !.load = r.load + 1,
              !.status = IF r.load + 1 >= MaxConcurrency THEN "busy" ELSE r.status]

TakenOffline(r) == [r EXCEPT !.status = "offline", !.load = 0]

\* A fresh lease for worker w on row r.
Leased(r, w, tok) ==
    [r EXCEPT !.status = "dispatched", !.worker = w, !.token = tok,
              !.ttl = LeaseSeconds, !.tenure = 0]

-----------------------------------------------------------------------------
Init ==
    /\ asn = [a \in Assignments |->
                [status |-> "absent", attempt |-> 1, worker |-> NoWorker,
                 token |-> NoToken, ttl |-> NoLease, tenure |-> NoTenure]]
    /\ wrk = [w \in Workers |->
                [status |-> "offline", load |-> 0, hb |-> Stale,
                 drain |-> FALSE, gone |-> FALSE]]
    /\ cred = Workers
    /\ late = {}
    /\ doomed = {}
    /\ grants = {}

(* ---- the server clock ---- *)

Tick ==
    /\ asn' = [a \in Assignments |->
                 IF InFlight(a)
                 THEN [asn[a] EXCEPT
                         !.ttl = IF @ > Expired THEN @ - 1 ELSE @,
                         !.tenure = IF @ < MaxLeaseSeconds THEN @ + 1 ELSE @]
                 ELSE asn[a]]
    /\ wrk' = [w \in Workers |->
                 [wrk[w] EXCEPT !.hb = IF @ < Stale THEN @ + 1 ELSE @]]
    /\ UNCHANGED <<cred, late, doomed, grants>>

(* ---- dispatcher.py: dispatch_stage ---- *)

\* Mutant: the load is not compared with max_concurrency.
SelectableOverloaded(w) ==
    wrk[w].status \in {"online", "busy"} /\ ~wrk[w].drain /\ ~wrk[w].gone

\* select_worker: ONLINE or BUSY, not draining, not deregistered, spare load.
\* The heartbeat's age is not read.  The ranking is left open: SKIP LOCKED
\* may pass over any worker another transaction holds.
Selectable(w) ==
    /\ wrk[w].status \in {"online", "busy"}
    /\ ~wrk[w].drain
    /\ ~wrk[w].gone
    /\ wrk[w].load < MaxConcurrency

\* A worker was selected: the row is born DISPATCHED with a lease.
DispatchToWorker(a, n, w) ==
    /\ asn[a].status = "absent"
    /\ Selectable(w)
    /\ asn' = [asn EXCEPT ![a] = Leased([@ EXCEPT !.attempt = n], w, NoToken)]
    /\ wrk' = [wrk EXCEPT ![w] = SlotTaken(@)]
    /\ grants' = grants \cup {<<a, n, w>>}
    /\ UNCHANGED <<cred, late, doomed>>

\* No worker was free, or all were locked: the row waits for a claim.
DispatchUnassigned(a, n) ==
    /\ asn[a].status = "absent"
    /\ asn' = [asn EXCEPT ![a] = [@ EXCEPT !.attempt = n, !.status = "pending"]]
    /\ UNCHANGED <<wrk, cred, late, doomed, grants>>

(* ---- scheduler.py: the dispatch that is given up ---- *)

\* process_leased_job, after NO_WORKER_MAX_RETRIES: the open rows of the run
\* and stage are read without a lock.
ExhaustedRead ==
    /\ doomed = {}
    /\ \E rows \in SUBSET OpenRows : rows # {} /\ doomed' = rows
    /\ UNCHANGED <<asn, wrk, cred, late, grants>>

\* At the flush each row that was read gets CANCELLED, whatever has committed
\* to it since.  Its owner, token, lease and tenure stay, and the owner's slot
\* is not given back.
ExhaustedWrite ==
    /\ doomed # {}
    /\ asn' = [a \in Assignments |->
                 IF a \in doomed THEN [asn[a] EXCEPT !.status = "cancelled"] ELSE asn[a]]
    /\ doomed' = {}
    /\ UNCHANGED <<wrk, cred, late, grants>>

(* ---- claiming.py: claim_assignment ---- *)

Claimable(w) ==
    /\ ~wrk[w].drain
    /\ ~wrk[w].gone
    /\ wrk[w].status = "online"
    /\ wrk[w].hb < OfflineAfter
    /\ wrk[w].load < MaxConcurrency

\* A token the worker already holds a DISPATCHED row under returns that row
\* and changes nothing.
HeldUnderToken(w, tok) ==
    {a \in Holdings(w) : asn[a].status = "dispatched"
                         /\ tok # NoToken /\ asn[a].token = tok}

ProviderHasRoom == Cardinality(InFlightRows) < ProviderLimit

\* Mutant: a claim also takes over rows whose lease has expired.
ClaimStealing(w, a, tok) ==
    /\ CredentialStillActive(w)
    /\ HeldUnderToken(w, tok) = {}
    /\ Claimable(w)
    /\ asn[a].status = "pending" \/ a \in ExpiredRows
    /\ asn' = [asn EXCEPT ![a] = Leased(@, w, tok)]
    /\ wrk' = [wrk EXCEPT ![w] = SlotTaken(@)]
    /\ grants' = grants \cup {<<a, asn[a].attempt, w>>}
    /\ UNCHANGED <<cred, late, doomed>>

\* Mutant: the token is not looked up before a row is taken.
ClaimWithoutReplay(w, a, tok) ==
    /\ CredentialStillActive(w)
    /\ Claimable(w)
    /\ asn[a].status = "pending"
    /\ ProviderHasRoom
    /\ asn' = [asn EXCEPT ![a] = Leased(@, w, tok)]
    /\ wrk' = [wrk EXCEPT ![w] = SlotTaken(@)]
    /\ grants' = grants \cup {<<a, asn[a].attempt, w>>}
    /\ UNCHANGED <<cred, late, doomed>>

Claim(w, a, tok) ==
    /\ CredentialStillActive(w)
    /\ HeldUnderToken(w, tok) = {}
    /\ Claimable(w)
    /\ asn[a].status = "pending"
    /\ ProviderHasRoom
    /\ asn' = [asn EXCEPT ![a] = Leased(@, w, tok)]
    /\ wrk' = [wrk EXCEPT ![w] = SlotTaken(@)]
    /\ grants' = grants \cup {<<a, asn[a].attempt, w>>}
    /\ UNCHANGED <<cred, late, doomed>>

(* ---- worker routes on an assignment ---- *)

\* ack_assignment: the lease is extended.
Ack(w, a) ==
    /\ CredentialStillActive(w)
    /\ ~wrk[w].gone
    /\ LeaseExtendable(w, a)
    /\ asn[a].status = "dispatched"
    /\ asn' = [asn EXCEPT ![a] =
                  [@ EXCEPT !.status = "acknowledged", !.ttl = LeaseSeconds]]
    /\ UNCHANGED <<wrk, cred, late, doomed, grants>>

\* renew_assignment_lease.
Renew(w, a) ==
    /\ CredentialStillActive(w)
    /\ ~wrk[w].gone
    /\ LeaseExtendable(w, a)
    /\ asn' = [asn EXCEPT ![a].ttl = LeaseSeconds]
    /\ UNCHANGED <<wrk, cred, late, doomed, grants>>

\* submit_assignment_result: row made terminal, slot freed.
\* A submit for a row that is already terminal replays the stored answer.
Submit(w, a, success) ==
    /\ CredentialStillActive(w)
    /\ ~wrk[w].gone
    /\ asn[a].worker = w
    /\ InFlight(a)
    /\ asn[a].ttl >= 0
    /\ asn' = [asn EXCEPT ![a] =
                  [@ EXCEPT !.status = IF success THEN "completed" ELSE "failed",
                            !.ttl = NoLease, !.tenure = NoTenure]]
    /\ wrk' = [wrk EXCEPT ![w] = SlotFreed(@)]
    /\ UNCHANGED <<cred, late, doomed, grants>>

(* ---- worker routes on the registry ---- *)

\* register_worker: holdings of the previous process are recovered first.
Register(w) ==
    /\ Authenticated(w)
    /\ ReapHoldings({w})
    /\ wrk' = [wrk EXCEPT ![w] = [@ EXCEPT !.status = "online", !.load = 0,
                                           !.hb = 0, !.gone = FALSE]]
    /\ late' = late \ {w}
    /\ UNCHANGED <<cred, doomed, grants>>

\* worker_heartbeat: status and load are what the payload says.
Heartbeat(w, st, ld) ==
    /\ Authenticated(w)
    /\ st \in {"online", "busy", "draining"}
    /\ ~wrk[w].gone
    /\ ld <= MaxConcurrency
    /\ wrk' = [wrk EXCEPT ![w] = [@ EXCEPT !.status = st, !.load = ld, !.hb = 0]]
    /\ late' = late \ {w}
    /\ UNCHANGED <<asn, cred, doomed, grants>>

\* deregister_worker.
Deregister(w) ==
    /\ Authenticated(w)
    /\ ~wrk[w].gone
    /\ ReapHoldings({w})
    /\ wrk' = [wrk EXCEPT ![w] = [TakenOffline(@) EXCEPT !.gone = TRUE]]
    /\ late' = late \ {w}
    /\ UNCHANGED <<cred, doomed, grants>>

(* ---- admin routes ---- *)

SetDrain(w, d) ==
    /\ wrk[w].drain # d
    /\ wrk' = [wrk EXCEPT ![w].drain = d]
    /\ UNCHANGED <<asn, cred, late, doomed, grants>>

\* revoke_worker_credentials: the kill switch.  A request of the worker may be
\* between authentication and the worker row's lock.
Revoke(w) ==
    /\ cred' = cred \ {w}
    /\ ReapHoldings({w})
    /\ wrk' = [wrk EXCEPT ![w] = IF @.gone THEN @ ELSE TakenOffline(@)]
    /\ late' \in {late, late \cup ({w} \cap cred)}
    /\ UNCHANGED <<doomed, grants>>

\* emergency_stop: every worker that is not deregistered is revoked, taken
\* offline and drained, in one transaction.
EmergencyStop ==
    LET ws == {w \in Workers : ~wrk[w].gone}
    IN  /\ cred' = cred \ ws
        /\ ReapHoldings(ws)
        /\ wrk' = [w \in Workers |->
                     IF w \in ws THEN [TakenOffline(wrk[w]) EXCEPT !.drain = TRUE]
                     ELSE wrk[w]]
        /\ late' \in {late, late \cup (ws \cap cred)}
        /\ UNCHANGED <<doomed, grants>>

\* rotate_worker_credential: a new ACTIVE credential.
Rotate(w) ==
    /\ w \notin cred
    /\ cred' = cred \cup {w}
    /\ UNCHANGED <<asn, wrk, late, doomed, grants>>

(* ---- automation.py: _maintenance_tick ---- *)

StaleWorkers ==
    {w \in Workers : /\ ~wrk[w].gone
                     /\ wrk[w].status # "offline"
                     /\ wrk[w].hb = Stale}

\* One sweep: stale workers go OFFLINE with load zero, what they hold is
\* recovered, then every other expired lease is.  Both scans skip rows that
\* another transaction has locked, so any part of either set may be taken.
MaintenanceTick ==
    \E stale \in SUBSET StaleWorkers, expired \in SUBSET ExpiredRows :
        LET others == expired \ HeldBy(stale)
        IN  /\ stale # {} \/ expired # {}
            /\ asn' = RecoverRows((HeldBy(stale) \ ExpiredRows) \cup expired)
            /\ wrk' = [w \in Workers |->
                         IF w \in stale
                         THEN TakenOffline(wrk[w])
                         ELSE SlotsReleased(wrk[w],
                                            Cardinality(others \cap Holdings(w)))]
            /\ UNCHANGED <<cred, late, doomed, grants>>

-----------------------------------------------------------------------------
Dispatch == \E a \in Assignments, n \in 1 .. MaxDispatchAttempt :
                \/ DispatchUnassigned(a, n)
                \/ \E w \in Workers : DispatchToWorker(a, n, w)

Exhausted == ExhaustedRead \/ ExhaustedWrite

WorkerOnAssignment ==
    \E w \in Workers, a \in Assignments :
        \/ \E tok \in Tokens \cup {NoToken} : Claim(w, a, tok)
        \/ Ack(w, a)
        \/ Renew(w, a)
        \/ \E success \in BOOLEAN : Submit(w, a, success)

WorkerOnRegistry ==
    \E w \in Workers :
        \/ Register(w)
        \/ \E st \in WorkerStatus, ld \in 0 .. MaxConcurrency : Heartbeat(w, st, ld)
        \/ Deregister(w)

Admin ==
    \/ EmergencyStop
    \/ \E w \in Workers :
           \/ \E d \in BOOLEAN : SetDrain(w, d)
           \/ Revoke(w)
           \/ Rotate(w)

Next == Tick \/ Dispatch \/ Exhausted \/ WorkerOnAssignment \/ WorkerOnRegistry
             \/ Admin \/ MaintenanceTick

\* A sweep that recovers row a.
Reap(a) == a \in ExpiredRows /\ MaintenanceTick /\ ~InFlight(a)'

\* The clock advances, and a lease that stays expired is eventually swept up:
\* automation.py supervises the maintenance loop and restarts it after an
\* error, each sweep scans the oldest expired leases first, and a row is
\* skipped only while another short transaction holds its lock.  Nothing is
\* assumed of workers, admins or the scheduler.
Fairness == WF_vars(Tick) /\ \A a \in Assignments : WF_vars(Reap(a))

Spec == Init /\ [][Next]_vars /\ Fairness

-----------------------------------------------------------------------------
(* Safety. *)

\* A row in flight has an owner, a lease and a tenure; a queued row carries
\* nothing of its previous owner, and a row that ended in a result or in its
\* last recovery holds no lease.  (dispatcher.py submit_result and recovery.py
\* _clear_lease_and_claim_fields must undo all that claim, push dispatch, ack
\* and renew set.  A row that an exhausted dispatch cancelled keeps what it
\* had, which docs/M4_WS3_DESIGN.md says no terminal row does.)
LeaseOwnership ==
    \A a \in Assignments :
        /\ InFlight(a) => /\ asn[a].worker \in Workers
                          /\ asn[a].ttl >= Expired
                          /\ asn[a].tenure >= 0
        /\ ~InFlight(a) /\ asn[a].status # "cancelled" =>
               asn[a].ttl = NoLease /\ asn[a].tenure = NoTenure
        /\ asn[a].status \in {"absent", "pending"} =>
               asn[a].worker = NoWorker /\ asn[a].token = NoToken

\* An OFFLINE worker holds no lease it could still use: the stale sweep,
\* deregistration and the kill switch recover its holdings in the transaction
\* that takes it offline, claim and push dispatch do not reach it afterwards,
\* and what a concurrent expiry sweep had locked, so that SKIP LOCKED left it
\* behind, has expired and can only be recovered.
OfflineHoldsNoLease ==
    \A w \in Workers : wrk[w].status = "offline" => Holdings(w) \subseteq ExpiredRows

\* No sequence of acks and renewals carries a lease past the maximum tenure
\* counted from its first acquisition (assert_lease_extendable).
TenureBounded ==
    \A a \in Assignments :
        InFlight(a) => asn[a].tenure + asn[a].ttl <= MaxLeaseSeconds

\* Two STAGE_ASSIGNED events for the same assignment and attempt name the same
\* worker: no attempt is ever run by two workers.
OneOwnerPerAttempt ==
    \A g, h \in grants : g[1] = h[1] /\ g[2] = h[2] => g[3] = h[3]

\* The attempts of a row that reached a worker, and their bound: "a stage can
\* never start more than max_attempts times" (recovery.py), however leases
\* expire, workers restart or credentials are revoked.
AttemptsStarted(a) == {n \in Attempts : \E w \in Workers : <<a, n, w>> \in grants}

StartsBounded ==
    \A a \in Assignments : Cardinality(AttemptsStarted(a)) <= MaxAttempts

\* A claim token names at most one DISPATCHED row of its worker, over lost
\* answers, repeated claims and requeues: claim_assignment looks the token up
\* with scalar_one_or_none, which raises at the second row, for that worker and
\* token at every repetition.
TokenNamesOneRow ==
    \A w \in Workers, tok \in Tokens : Cardinality(HeldUnderToken(w, tok)) <= 1

\* A finished row (COMPLETED, FAILED or CANCELLED) never changes again: no late
\* ack, renewal, submit, claim or sweep reopens it.  Only an exhausted dispatch
\* that read the row while it was open can still write to it, and that write
\* changes nothing but the status, to CANCELLED.
TerminalIsFinal ==
    [][\A a \in Assignments :
          asn[a].status \in TerminalStatus =>
             \/ asn'[a] = asn[a]
             \/ a \in doomed /\ asn'[a] = [asn[a] EXCEPT !.status = "cancelled"]]_vars

\* An unexpired lease is taken from its worker, by a requeue or by a
\* cancellation, only when that worker restarts, leaves, is revoked or stopped,
\* has gone silent past the offline threshold, or when an exhausted dispatch
\* had read the row; a sweep for somebody else's expired lease never touches it.
LiveLeaseKept ==
    [][\A a \in Assignments, w \in Workers :
          /\ InFlight(a) /\ asn[a].worker = w /\ asn[a].ttl >= 0
          /\ asn'[a].worker = NoWorker \/ asn'[a].status = "cancelled"
          => \/ wrk'[w].status = "offline"
             \/ wrk'[w].status = "online" /\ wrk'[w].hb = 0 /\ wrk'[w].load = 0
             \/ a \in doomed /\ asn'[a].status = "cancelled"]_vars

(* Refinement. *)

Phase(status) ==
    CASE status = "absent"         -> "absent"
      [] status = "pending"        -> "queued"
      [] status \in InFlightStatus -> "owned"
      [] status \in TerminalStatus -> "done"

AbstractRow ==
    [a \in Assignments |->
        [phase   |-> Phase(asn[a].status),
         attempt |-> asn[a].attempt,
         owner   |-> IF InFlight(a) THEN asn[a].worker ELSE NoWorker]]

Abstract == INSTANCE StageAttempt WITH row <- AbstractRow

\* Leases, claims, sweeps and registry changes implement the life cycle of
\* StageAttempt: a row has one owner per attempt, and changes owner only
\* through the queue and under the next attempt number.
ImplementsStageAttempt == Abstract!Spec

(* Liveness. *)

\* No tenure lasts for ever: whatever a worker does with acks and renewals, the
\* attempt it holds ends in a result, a requeue or a dead letter.
TenureEnds ==
    \A a \in Assignments, n \in Attempts :
        []<>~(InFlight(a) /\ asn[a].attempt = n)

(* What the documents say of it. *)

\* "Kill switch: force offline so the worker cannot be selected until
\* re-provisioned / re-authenticated with a new credential"
\* (api/routes/workers.py, revoke_worker_credentials).
RevokedNotSelectable == \A w \in Workers : w \notin cred => ~Selectable(w)
=============================================================================
