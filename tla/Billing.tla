------------------------------- MODULE Billing -------------------------------
(***************************************************************************)
(* Stripe checkout and webhooks, and the entitlement they give a workspace *)
(* (app/services/billing.py, app/api/routes/webhooks.py).  Stripe, which   *)
(* is external, delivers events in any order and more than once.  A        *)
(* webhook locks the billing row before it reads the receipts and keeps    *)
(* the lock to its commit, so one delivery is one step.                    *)
(*                                                                         *)
(* An event is its id, its `created' second and what it says: the status   *)
(* of the subscription, or a failed payment.  "past_due" stands for every  *)
(* status that is neither active nor final.                                *)
(***************************************************************************)
EXTENDS Naturals, FiniteSets

CONSTANTS EventIds, Seconds   \* Stripe's event ids and `created' times

ASSUME BillingAssumption == Seconds \subseteq Nat

SubscriptionStatus == {"active", "past_due", "canceled"}
Event == [id : EventIds, created : Seconds,
          says : SubscriptionStatus \cup {"payment_failed", "checkout_completed"}]

VARIABLES checkout,       \* a checkout session was made for the workspace
          receipts,       \* billing_webhook_events, with workspace_id or not
          billing         \* the workspace_billing row

billingVars == <<checkout, receipts, billing>>

Receipt == [event : Event, mapped : BOOLEAN]

BillingInit ==
  /\ checkout = FALSE
  /\ receipts = {}
  /\ billing = [plan |-> "none", status |-> "inactive", linked |-> FALSE]

IsEntitled == billing.plan = "pro" /\ billing.status = "active"

(* POST /billing/checkout; Stripe events of the workspace follow it.       *)
CreateCheckoutSession ==
  /\ ~IsEntitled
  /\ ~checkout
  /\ checkout' = TRUE
  /\ UNCHANGED <<receipts, billing>>

(* Receipts of this workspace that bear on the entitlement.                *)
Affecting(rows) == {r \in rows : r.mapped /\ r.event.says # "checkout_completed"}

Stale(e) == \E r \in Affecting(receipts) : r.event.created > e.created
Tied(e) == ~Stale(e) /\ \E r \in Affecting(receipts) : r.event.created = e.created

(* Mutant: of two events of one second the last one delivered decides.     *)
SkippedStale(e) == Stale(e)

(* What is older than an event already there is not applied, and neither   *)
(* is a grant in the same second as one.                                   *)
Skipped(e) == Stale(e) \/ (Tied(e) /\ e.says = "active")

(* Mutant: the status is stored as the plan when the subscription ends.    *)
SubscriptionAppliedKeepsPlan(status) ==
  [plan |-> IF status = "canceled" THEN "canceled" ELSE "pro", status |-> status,
   linked |-> TRUE]

SubscriptionApplied(status) ==
  [plan |-> IF status = "canceled" THEN "none" ELSE "pro", status |-> status,
   linked |-> TRUE]

(* One event is processed.  A failed payment whose subscription is not     *)
(* linked yet finds no workspace: its receipt is kept, unmapped.           *)
ProcessStripeEvent(e) ==
  /\ \A r \in receipts : r.event.id # e.id
  /\ LET mapped == e.says # "payment_failed" \/ billing.linked
     IN /\ receipts' = receipts \cup {[event |-> e, mapped |-> mapped]}
        /\ billing' =
             CASE e.says = "checkout_completed" -> [billing EXCEPT !.linked = TRUE]
               [] e.says = "payment_failed" ->
                    IF ~mapped \/ Skipped(e) THEN billing
                    ELSE [billing EXCEPT !.status = "past_due"]
               [] OTHER ->
                    IF Skipped(e) THEN billing ELSE SubscriptionApplied(e.says)

(* An event delivered again: answered as a duplicate, nothing written.     *)
DuplicateEvent(e) ==
  /\ \E r \in receipts : r.event = e
  /\ UNCHANGED <<receipts, billing>>

StripeWebhook(e) ==
  /\ checkout
  /\ ProcessStripeEvent(e) \/ DuplicateEvent(e)
  /\ UNCHANGED checkout

BillingNext == CreateCheckoutSession \/ \E e \in Event : StripeWebhook(e)

BillingTypeOK ==
  /\ checkout \in BOOLEAN
  /\ receipts \subseteq Receipt
  /\ billing \in [plan : {"none", "pro"},
                  status : SubscriptionStatus \cup {"inactive"}, linked : BOOLEAN]
=============================================================================
