------------------------------- MODULE Ledger -------------------------------
(***************************************************************************)
(* The spend ledger of one workspace: its cap, the open reservations and   *)
(* the spend logs (reserve_spend, commit_spend and release_spend of        *)
(* app/orchestration/controller.py, and reserve, commit and release of     *)
(* app/services/leon_voice_spend.py, which run the same check).            *)
(*                                                                         *)
(* A check holds the lock on the cap row from its first read to its        *)
(* commit.  Each usage it computes is the sum of two statements, the logs  *)
(* first and the open reservations second, and under READ COMMITTED each   *)
(* statement sees what was committed before it.  A commit or a release     *)
(* takes no lock on the cap, so it may fall between the two.               *)
(*                                                                         *)
(* Amounts are natural numbers of one unit.  No code makes a cap for one   *)
(* provider, so the cap of the workspace is the only one.                  *)
(***************************************************************************)
EXTENDS Integers, FiniteSets, FiniteSetsExt

CONSTANTS Spenders,       \* who reserves: voice turns or pipeline runs
          Estimates,      \* estimated costs
          DefaultCap,     \* the seeded [daily, monthly]
          CapValues,      \* the caps an admin may set
          MaxDays,        \* bound: days that pass
          NoCap, NoCheck

ASSUME LedgerAssumption ==
  /\ IsFiniteSet(Spenders)
  /\ MaxDays \in Nat
  /\ Estimates \subseteq Nat \ {0}
  /\ DefaultCap \in [daily : Nat, monthly : Nat]
  /\ CapValues \subseteq [daily : Nat, monthly : Nat]

VARIABLES cap,            \* the spend_caps row of the workspace
          open,           \* estimate of the RESERVED row of each spender, 0: none
          today,          \* sum of the spend logs since the start of the day
          month,          \* sum of the spend logs since the start of the month
          check,          \* the check that holds the lock on the cap row
          days            \* days passed

ledgerVars == <<cap, open, today, month, check, days>>

(* A check under way: `counted' is the number of sums it has read.         *)
Check == [who : Spenders, est : Estimates, counted : 1 .. 2,
          daily : Nat, monthly : Nat,
          dayRaced : BOOLEAN,       \* a commit fell into the sum of the day,
          monthRaced : BOOLEAN]     \* of the month

(* Open reservations of all but s, whose own one the check releases first. *)
OpenOfOthers(s) == MapThenSumSet(LAMBDA r : open[r], Spenders \ {s})

Used == today + MapThenSumSet(LAMBDA r : open[r], Spenders)
UsedInMonth == month + MapThenSumSet(LAMBDA r : open[r], Spenders)

LedgerInit ==
  /\ cap \in {NoCap, DefaultCap}
  /\ open = [s \in Spenders |-> 0]
  /\ today = 0 /\ month = 0
  /\ check = NoCheck
  /\ days = 0

(* SELECT ... FOR UPDATE of the cap, then the sum of the day's logs.       *)
LockCap(s, e) ==
  /\ cap # NoCap
  /\ check = NoCheck
  /\ check' = [who |-> s, est |-> e, counted |-> 1, daily |-> today, monthly |-> 0,
               dayRaced |-> FALSE, monthRaced |-> FALSE]
  /\ UNCHANGED <<cap, open, today, month, days>>

(* The open reservations for the day, then the sum of the month's logs.    *)
CountDay(s) ==
  /\ check # NoCheck /\ check.who = s /\ check.counted = 1
  /\ check' = [check EXCEPT !.counted = 2, !.daily = @ + OpenOfOthers(s),
                            !.monthly = month]
  /\ UNCHANGED <<cap, open, today, month, days>>

Deciding(s) == check # NoCheck /\ check.who = s /\ check.counted = 2

(* Mutant: only the daily cap is compared.                                 *)
FitsDay(s) == check.daily + check.est <= cap.daily

(* The open reservations for the month, and the comparison with the caps.  *)
Fits(s) ==
  /\ check.daily + check.est <= cap.daily
  /\ check.monthly + OpenOfOthers(s) + check.est <= cap.monthly

Reserved(s) ==
  /\ open' = [open EXCEPT ![s] = check.est]
  /\ check' = NoCheck
  /\ UNCHANGED <<cap, today, month, days>>

(* The check ends with no reservation; one it released stays released.     *)
Refused(s) ==
  /\ open' = [open EXCEPT ![s] = 0]
  /\ check' = NoCheck
  /\ UNCHANGED <<cap, today, month, days>>

(* A commit is booked between the logs and the reservations of one sum.    *)
Raced(c) == [c EXCEPT !.dayRaced = @ \/ c.counted = 1, !.monthRaced = @ \/ c.counted = 2]

(* The actual cost is cut down to the reserved one.                        *)
Clamped(s, actual) == IF actual > open[s] THEN open[s] ELSE actual

CommitSpend(s, actual) ==
  /\ open[s] > 0
  /\ today' = today + Clamped(s, actual)
  /\ month' = month + Clamped(s, actual)
  /\ open' = [open EXCEPT ![s] = 0]
  /\ check' = IF check = NoCheck THEN NoCheck ELSE Raced(check)
  /\ UNCHANGED <<cap, days>>

ReleaseSpend(s) ==
  /\ open[s] > 0
  /\ open' = [open EXCEPT ![s] = 0]
  /\ UNCHANGED <<cap, today, month, check, days>>

(* The cap is seeded if it is missing; the UPDATE waits for a check.  The  *)
(* route compares the two values only when it is given both.               *)
UpdateWorkspaceSpendCap(c) ==
  LET old == IF cap = NoCap THEN DefaultCap ELSE cap
  IN /\ check = NoCheck
     /\ c # cap
     /\ c.daily <= c.monthly \/ c.daily = old.daily \/ c.monthly = old.monthly
     /\ cap' = c
     /\ UNCHANGED <<open, today, month, check, days>>

EnsureDefaultSpendCap ==
  /\ cap = NoCap
  /\ cap' = DefaultCap
  /\ UNCHANGED <<open, today, month, check, days>>

NewDay(newMonth) ==
  /\ days < MaxDays
  /\ days' = days + 1
  /\ today' = 0
  /\ month' = IF newMonth THEN 0 ELSE month
  /\ UNCHANGED <<cap, open, check>>

LedgerTypeOK ==
  /\ cap \in {NoCap, DefaultCap} \cup CapValues
  /\ open \in [Spenders -> Estimates \cup {0}]
  /\ today \in Nat /\ month \in Nat
  /\ check \in Check \cup {NoCheck}
  /\ days \in 0 .. MaxDays
=============================================================================
