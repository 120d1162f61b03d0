----------------------------- MODULE OutboxRelay -----------------------------
(***************************************************************************)
(* The transactional outbox of one aggregate and the relay that delivers   *)
(* its events (app/orchestration/outbox.py, relay.py, consumers.py).       *)
(*                                                                         *)
(* An event is its place in `events': emit takes an advisory lock on the   *)
(* aggregate up to the commit, so sequences are given in commit order and  *)
(* occurred_at follows them.  One consumer is registered.  Its handler may *)
(* raise, which is counted, or fail in the database, which aborts the      *)
(* transaction with the count in it.  A tick is one transaction under READ *)
(* COMMITTED: it locks the pending events that no other tick has locked,   *)
(* reads the checkpoint once (the session keeps what it read) and writes   *)
(* everything at its commit, the checkpoint with no regard to what was     *)
(* written meanwhile.                                                      *)
(***************************************************************************)
EXTENDS Naturals, Sequences, SequencesExt, FiniteSets, FiniteSetsExt

CONSTANTS Replicas,             \* processes of the automation service
          MaxEvents,            \* bound: events of the aggregate
          BatchSize,            \* events of one tick
          MaxDeliveryAttempts   \* of the consumer

ASSUME RelayAssumption ==
  /\ MaxEvents \in Nat
  /\ BatchSize \in Nat \ {0}
  /\ MaxDeliveryAttempts \in Nat \ {0}

VARIABLES events,         \* outbox_events, by sequence
          checkpoint,     \* the consumer_checkpoints row: is it there, last_sequence
          applied,        \* sequences handled, as the handler's effects were committed
          dead,           \* events routed to the dead letters
          tx              \* the open transaction of each replica's tick

relayVars == <<events, checkpoint, applied, dead, tx>>

OutboxEvent == [handled : BOOLEAN,      \* the consumer has a handler for its type
                status : {"pending", "dispatched", "poison"},
                attempts : 0 .. MaxDeliveryAttempts]

ConsumerCheckpoint == [row : BOOLEAN, last : 0 .. MaxEvents]

NewEvent(handled) == [handled |-> handled, status |-> "pending", attempts |-> 0]

NoTick == [open |-> FALSE, batch |-> <<>>, read |-> FALSE,
           seen |-> [row |-> FALSE, last |-> 0], raises |-> {}]

RelayInit ==
  /\ events = <<>>
  /\ checkpoint = [row |-> FALSE, last |-> 0]
  /\ applied = <<>>
  /\ dead = {}
  /\ tx = [r \in Replicas |-> NoTick]

(* A state change emits an event in its own transaction.                   *)
Emit(handled) ==
  /\ Len(events) < MaxEvents
  /\ events' = Append(events, NewEvent(handled))
  /\ UNCHANGED <<checkpoint, applied, dead, tx>>

(* Mutant: the event is given up one attempt later than the limit.         *)
FailedDeliveryLate(e) ==
  [e EXCEPT !.attempts = @ + 1,
            !.status = IF e.attempts >= MaxDeliveryAttempts THEN "poison" ELSE "pending"]

(* Mutant: an attempt that failed is not counted.                          *)
FailedDeliveryUncounted(e) == e

(* One more attempt failed; at the limit the event is poison.              *)
FailedDelivery(e) ==
  [e EXCEPT !.attempts = @ + 1,
            !.status = IF e.attempts + 1 >= MaxDeliveryAttempts THEN "poison" ELSE "pending"]

(* Event i in a transaction that sees w and that no handler has aborted:   *)
(* no handler or an event already passed is dispatched as it is, otherwise *)
(* the handler runs.  It raises for the events in `raises'.                *)
DispatchOne(w, i, raises) ==
  LET e == w.events[i]
      failed == FailedDelivery(e)
      created == [w EXCEPT !.checkpoint.row = TRUE]
  IN IF ~e.handled THEN [w EXCEPT !.events[i].status = "dispatched"]
     ELSE IF w.checkpoint.last >= i THEN [w EXCEPT !.events[i].status = "dispatched"]
     ELSE IF i \in raises
          THEN [created EXCEPT !.events[i] = failed,
                               !.dead = IF failed.status = "poison" THEN @ \cup {i} ELSE @]
     ELSE [created EXCEPT !.events[i].status = "dispatched",
                          !.checkpoint.last = i, !.applied = Append(@, i)]

(* Everything a transaction has to write, from what it saw.                *)
Dispatched(evs, batch, seen, raises) ==
  LET after[n \in 0 .. Len(batch)] ==
        IF n = 0
        THEN [events |-> evs, checkpoint |-> seen, applied |-> applied, dead |-> dead]
        ELSE DispatchOne(after[n - 1], batch[n], raises)
  IN after[Len(batch)]

(* The row is created by two: the second insert raises.                    *)
CheckpointTaken(seen, w) == ~seen.row /\ w.checkpoint.row /\ checkpoint.row

Written(seen, w) ==
  /\ ~CheckpointTaken(seen, w)
  /\ events' = w.events
  /\ checkpoint' = IF w.checkpoint = seen THEN checkpoint ELSE w.checkpoint
  /\ applied' = w.applied
  /\ dead' = w.dead

(* A review decision: its event is emitted and dispatched at once, in the  *)
(* transaction of the request.  A handler that fails in the database fails *)
(* the request, and nothing is emitted.                                    *)
EmitAndDispatch(raises) ==
  LET n == Len(events) + 1
      w == Dispatched(Append(events, NewEvent(TRUE)), <<n>>, checkpoint,
                      IF raises THEN {n} ELSE {})
  IN /\ Len(events) < MaxEvents
     /\ Written(checkpoint, w)
     /\ UNCHANGED tx

(* Mutant: a poll does not lock what it finds.                             *)
LockedByNobody(r) == {}

Locked(r) == UNION {Range(tx[q].batch) : q \in Replicas \ {r}}

(* PENDING, not locked, ordered by occurred_at, limited.                   *)
Polled(r) ==
  LET free == {i \in DOMAIN events : events[i].status = "pending" /\ i \notin Locked(r)}
  IN {batch \in UNION {[1 .. n -> free] : n \in 0 .. BatchSize} :
        /\ \A m, n \in DOMAIN batch : m < n => batch[m] < batch[n]
        /\ \A i \in free \ Range(batch) :
             Len(batch) = BatchSize /\ \A k \in Range(batch) : k < i}

PollAndLock(r) ==
  /\ ~tx[r].open
  /\ \E batch \in Polled(r) : tx' = [tx EXCEPT ![r] = [NoTick EXCEPT !.open = TRUE, !.batch = batch]]
  /\ UNCHANGED <<events, checkpoint, applied, dead>>

(* The checkpoint is read and the handlers run; those that raise do so     *)
(* outside the database.                                                   *)
RunHandlers(r) ==
  /\ tx[r].open /\ ~tx[r].read
  /\ \E raises \in SUBSET {i \in Range(tx[r].batch) : events[i].handled} :
       tx' = [tx EXCEPT ![r].read = TRUE, ![r].seen = checkpoint, ![r].raises = raises]
  /\ UNCHANGED <<events, checkpoint, applied, dead>>

Result(r) == Dispatched(events, tx[r].batch, tx[r].seen, tx[r].raises)

CommitTick(r) ==
  /\ tx[r].read
  /\ \E w \in {Result(r)} : Written(tx[r].seen, w)
  /\ tx' = [tx EXCEPT ![r] = NoTick]

RollbackTick(r) ==
  /\ tx' = [tx EXCEPT ![r] = NoTick]
  /\ UNCHANGED <<events, checkpoint, applied, dead>>

(* The handler of event i fails in the database: dispatch_one counts the   *)
(* attempt, the next statement or the commit raises, and the transaction   *)
(* is rolled back with the count.                                          *)
HandlerAborts(r, i) ==
  /\ tx[r].open /\ ~tx[r].read
  /\ i \in Range(tx[r].batch) /\ events[i].handled /\ checkpoint.last < i
  /\ RollbackTick(r)

RelayTypeOK ==
  /\ events \in Seq(OutboxEvent) /\ Len(events) <= MaxEvents
  /\ checkpoint \in ConsumerCheckpoint
  /\ applied \in Seq(1 .. MaxEvents)
  /\ dead \subseteq DOMAIN events
  /\ \A r \in Replicas : /\ Range(tx[r].batch) \subseteq DOMAIN events
                         /\ Len(tx[r].batch) <= BatchSize
                         /\ tx[r].seen \in ConsumerCheckpoint
=============================================================================
