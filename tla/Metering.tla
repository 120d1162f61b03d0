------------------------------ MODULE Metering -------------------------------
(***************************************************************************)
(* What is metered.  Money: by the voice assistant in its system           *)
(* workspace, and in a tenant's workspace by the content desk and the      *)
(* worker stages of pipeline runs, with the billing that entitles the      *)
(* tenant to content jobs.  Requests: by those who sign in.  The three     *)
(* share no row, so a behaviour is that of one of them.                    *)
(***************************************************************************)
EXTENDS VoiceTurn, Billing, SignIn

VARIABLE part             \* which of them, never changed

vars == <<part, at, ledgerVars, billingVars, signInVars>>

SpenderState == TurnState \cup {"desk", "stage", "working", "held", "cancelled"}

Init ==
  /\ part \in {"voice", "tenant", "signin"}
  /\ at = [s \in Spenders |-> "idle"]
  /\ LedgerInit
  /\ part = "signin" => cap = NoCap    \* it makes no difference there
  /\ BillingInit
  /\ SignInInit

Checking(s) == check # NoCheck /\ check.who = s

(* POST /content-jobs: the entitlement is asked for first, in the same     *)
(* transaction; the desk reserves and commits in it, so the lock on the    *)
(* cap is kept, and a job that does not fit is rolled back.                *)
CreateContentJob(s) ==
  /\ at[s] = "idle" /\ IsEntitled
  /\ at' = [at EXCEPT ![s] = "desk"]
  /\ UNCHANGED ledgerVars

DeskSpends(s) ==
  /\ at[s] = "desk" /\ Deciding(s) /\ Fits(s)
  /\ today' = today + check.est
  /\ month' = month + check.est
  /\ check' = NoCheck
  /\ at' = [at EXCEPT ![s] = "done"]
  /\ UNCHANGED <<cap, open, days>>

DeskRefused(s) ==
  /\ at[s] = "desk"
  /\ \/ cap = NoCap /\ UNCHANGED ledgerVars
     \/ Deciding(s) /\ ~Fits(s) /\ Refused(s)
  /\ at' = [at EXCEPT ![s] = "failed"]

(* A worker stage of a run is dispatched, or dispatched again while its    *)
(* reservation is still open, after a recovery.                            *)
StageComesUp(s) ==
  /\ at[s] = "idle"
  /\ at' = [at EXCEPT ![s] = "stage"]
  /\ UNCHANGED ledgerVars

ReserveSpend(s) ==
  \/ /\ at[s] \in {"desk", "stage", "working"}
     /\ (\E e \in Estimates : LockCap(s, e)) \/ CountDay(s)
     /\ UNCHANGED at
  \/ /\ at[s] \in {"stage", "working"} /\ Deciding(s) /\ Fits(s)
     /\ Reserved(s)
     /\ at' = [at EXCEPT ![s] = "working"]

(* The run is paused on SPEND_HOLD.                                        *)
SpendHold(s) ==
  /\ at[s] \in {"stage", "working"}
  /\ \/ cap = NoCap /\ open' = [open EXCEPT ![s] = 0]
        /\ UNCHANGED <<cap, today, month, check, days>>
     \/ Deciding(s) /\ ~Fits(s) /\ Refused(s)
  /\ at' = [at EXCEPT ![s] = "held"]

(* The worker submits: success commits, failure releases and the stage is  *)
(* to be dispatched again.  Submit and dispatch exclude each other on the  *)
(* assignment row.                                                         *)
StageSucceeds(s) ==
  /\ at[s] = "working" /\ ~Checking(s)
  /\ \E actual \in Reports : CommitSpend(s, actual)
  /\ at' = [at EXCEPT ![s] = "done"]

StageFails(s) ==
  /\ at[s] = "working" /\ ~Checking(s)
  /\ ReleaseSpend(s)
  /\ at' = [at EXCEPT ![s] = "stage"]

CancelRun(s) ==
  /\ at[s] \in {"stage", "working", "held"} /\ ~Checking(s)
  /\ open' = [open EXCEPT ![s] = 0]
  /\ at' = [at EXCEPT ![s] = "cancelled"]
  /\ UNCHANGED <<cap, today, month, check, days>>

TenantNext ==
  \E s \in Spenders :
    \/ CreateContentJob(s) \/ DeskSpends(s) \/ DeskRefused(s)
    \/ StageComesUp(s) \/ ReserveSpend(s) \/ SpendHold(s)
    \/ StageSucceeds(s) \/ StageFails(s) \/ CancelRun(s)

AdminNext ==
  \/ \E c \in CapValues : UpdateWorkspaceSpendCap(c)
  \/ EnsureDefaultSpendCap
  \/ \E newMonth \in BOOLEAN : NewDay(newMonth)

Next ==
  /\ \/ part = "voice" /\ VoiceNext /\ UNCHANGED <<billingVars, signInVars>>
     \/ part = "tenant" /\ TenantNext /\ UNCHANGED <<billingVars, signInVars>>
     \/ part = "tenant" /\ BillingNext /\ UNCHANGED <<at, ledgerVars, signInVars>>
     \/ part # "signin" /\ AdminNext /\ UNCHANGED <<at, billingVars, signInVars>>
     \/ part = "signin" /\ SignInNext /\ UNCHANGED <<at, ledgerVars, billingVars>>
  /\ UNCHANGED part

(* A turn goes on: HTTP calls have a timeout, and the lock on the cap is   *)
(* waited for without one.                                                 *)
Fairness ==
  \A s \in Spenders :
    WF_vars(part = "voice" /\ TurnStep(s) /\ UNCHANGED <<part, billingVars, signInVars>>)

Spec == Init /\ [][Next]_vars /\ Fairness

(***************************************************************************)
(* Properties                                                              *)
(***************************************************************************)
TypeOK ==
  /\ part \in {"voice", "tenant", "signin"}
  /\ at \in [Spenders -> SpenderState]
  /\ LedgerTypeOK
  /\ BillingTypeOK
  /\ SignInTypeOK

(* What is spent and reserved grows only when a check under the lock of    *)
(* the cap grants it, and then all of it, whoever spent it, fits under     *)
(* each cap into whose sum no commit fell: concurrent checks, retries,     *)
(* late commits of another day and costs reported too high do not get past *)
(* it (reserve_spend, commit_spend).                                       *)
SpendFitsTheCap ==
  [][(Used' > Used \/ UsedInMonth' > UsedInMonth)
       => /\ check # NoCheck /\ check' = NoCheck
          /\ ~check.dayRaced => Used' <= cap.daily
          /\ ~check.monthRaced => UsedInMonth' <= cap.monthly]_vars

(* A reservation never takes the day past its cap: what the design and     *)
(* reserve_spend's comment say.  A commit between the two reads of the     *)
(* day's sum is in neither of them, and the reservation exceeds the cap.   *)
DailyCapHolds == [][Used' > Used => Used' <= cap.daily]_vars

(* A reservation is open only for a call or a stage that is under way, for *)
(* a turn that ended in an internal error or whose process stopped: every  *)
(* other way a turn or a run can end gives it back or books it             *)
(* (leon_voice, release_all_reservations).                                 *)
OpenIsExplained ==
  \A s \in Spenders :
    open[s] > 0 => at[s] \in CallStages \cup {"working", "broken", "crashed"}

(* A voice turn that has begun ends, whatever the other turns do with the  *)
(* lock on the cap, with an answer or an error (run_voice_turn).           *)
TurnEnds ==
  \A s \in Spenders :
    (at[s] \in CallStages) ~> (at[s] \in {"done", "failed", "broken", "crashed"})

(* The entitlement is what the newest events known for the workspace say,  *)
(* in whatever order and however often they were delivered; if the events  *)
(* of that second disagree there is none (_apply_subscription,             *)
(* process_stripe_event).                                                  *)
NewestEventDecides ==
  LET known == {r.event : r \in Affecting(receipts)}
      newest == {e \in known : \A x \in known : x.created <= e.created}
  IN IsEntitled <=> newest # {} /\ \A e \in newest : e.says = "active"
==============================================================================
