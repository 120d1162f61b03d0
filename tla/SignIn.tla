------------------------------- MODULE SignIn --------------------------------
(***************************************************************************)
(* Signing in with AUTH_MODE=local: the request limit that the replicas of *)
(* the API share through request_rate_limits (app/core/rate_limit.py), and *)
(* behind it the lockout of an account (app/services/local_auth.py).       *)
(*                                                                         *)
(* Both read the clock first and wait for a row lock afterwards, so what   *)
(* they write may be older than what they overwrite.  A request does not   *)
(* wait longer than MaxWait ticks, and all of them are for one account.    *)
(* Counters are kept as far as they are compared with their limits.        *)
(* The limiter's cleanup is a statement of its own at the end of some      *)
(* request, often one of an address that is not followed here; it chooses  *)
(* its rows before it waits for them, as long as it takes.                 *)
(***************************************************************************)
EXTENDS Naturals, Sequences

CONSTANTS Callers, Addresses,
          MaxRequests, WindowTicks,          \* of the limiter for /auth/
          MaxFailedAttempts, LockoutTicks, FailureWindowTicks,
          MaxWait,                           \* longest wait of a request
          MaxTime,                           \* bound: ticks of the clock
          NoBucket, Never, NoAccount, NoAddress

ASSUME SignInAssumption ==
  /\ {MaxRequests, WindowTicks, MaxFailedAttempts, LockoutTicks} \subseteq Nat \ {0}
  /\ {MaxWait, MaxTime} \subseteq Nat
  /\ FailureWindowTicks \in Nat /\ FailureWindowTicks >= LockoutTicks

VARIABLES clock,
          bucket,           \* request_rate_limits, by client address
          credential,       \* the row of local_auth_credentials
          doomed,           \* buckets a cleanup has chosen and not yet deleted
          caller,           \* requests in progress, and the clock they have read
          admitted,         \* when the newest admitted requests were admitted
          failures          \* when the newest wrong passwords since a success
                            \* were tried

signInVars == <<clock, bucket, doomed, credential, caller, admitted, failures>>

Bucket == [expires : 0 .. MaxTime + WindowTicks, count : 1 .. MaxRequests + 1]

Credential == [failed : 0 .. MaxFailedAttempts,
               last_failed_at : 0 .. MaxTime \cup {Never},
               locked_until : 0 .. MaxTime + LockoutTicks \cup {Never}]

NewCredential == [failed |-> 0, last_failed_at |-> Never, locked_until |-> Never]

(* No row is none of the rows.                                             *)
ASSUME RowAssumption ==
  /\ NoBucket \notin Bucket
  /\ NoAccount \notin Credential
  /\ Never \notin Nat

Caller == [at : {"idle", "counting", "admitted", "login"},
           from : Addresses \cup {NoAddress}, seen : 0 .. MaxTime]

Idle == [at |-> "idle", from |-> NoAddress, seen |-> 0]

SignInInit ==
  /\ clock = 0
  /\ bucket = [k \in Addresses |-> NoBucket]
  /\ doomed = {}
  /\ credential = NoAccount
  /\ caller = [c \in Callers |-> Idle]
  /\ admitted = [k \in Addresses |-> <<>>]
  /\ failures = <<>>

(* The newest n times of a history.                                        *)
Remembered(history, n) ==
  LET h == Append(history, clock) IN IF Len(h) > n THEN Tail(h) ELSE h

LeastOf(a, b) == IF a <= b THEN a ELSE b

(* No request is overtaken by more than MaxWait ticks.                     *)
Tick ==
  /\ clock < MaxTime
  /\ \A c \in Callers : caller[c].at \in {"counting", "login"} => clock < caller[c].seen + MaxWait
  /\ clock' = clock + 1
  /\ UNCHANGED <<bucket, doomed, credential, caller, admitted, failures>>

(* clock_timestamp() is read; the insert waits for the bucket's row.       *)
Arrive(c, k) ==
  /\ caller[c].at = "idle"
  /\ caller' = [caller EXCEPT ![c] = [at |-> "counting", from |-> k, seen |-> clock]]
  /\ UNCHANGED <<clock, bucket, doomed, credential, admitted, failures>>

Expired(row, t) == row.expires <= t

Counted(row, t) ==
  IF row = NoBucket \/ Expired(row, t)
  THEN [expires |-> t + WindowTicks, count |-> 1]
  ELSE [row EXCEPT !.count = LeastOf(@ + 1, MaxRequests + 1)]

(* One transaction.  A request over the limit is answered with 429.        *)
CheckLimit(c) ==
  LET k == caller[c].from
      row == Counted(bucket[k], caller[c].seen)
      allowed == row.count <= MaxRequests
  IN /\ caller[c].at = "counting"
     /\ bucket' = [bucket EXCEPT ![k] = row]
     /\ caller' = [caller EXCEPT ![c] = IF allowed THEN [Idle EXCEPT !.at = "admitted"]
                                                   ELSE Idle]
     /\ admitted' = IF allowed
                    THEN [admitted EXCEPT ![k] = Remembered(@, 3 * MaxRequests)]
                    ELSE admitted
     /\ UNCHANGED <<clock, doomed, credential, failures>>

(* Mutant: windows that have not ended are chosen too.                     *)
CleanupSelectsAll ==
  /\ doomed = {}
  /\ doomed' \in (SUBSET {k \in Addresses : bucket[k] # NoBucket}) \ {{}}
  /\ UNCHANGED <<clock, bucket, credential, caller, admitted, failures>>

(* A cleanup is due and no other replica is at it: the keys of at most a   *)
(* batch of windows that have ended.                                       *)
CleanupSelect ==
  /\ doomed = {}
  /\ doomed' \in (SUBSET {k \in Addresses : bucket[k] # NoBucket
                                            /\ Expired(bucket[k], clock)}) \ {{}}
  /\ UNCHANGED <<clock, bucket, credential, caller, admitted, failures>>

(* The delete waits for the rows and asks again for their keys only, so a  *)
(* window that began during the wait goes too.                             *)
CleanupDelete ==
  /\ doomed # {}
  /\ bucket' = [k \in Addresses |-> IF k \in doomed THEN NoBucket ELSE bucket[k]]
  /\ doomed' = {}
  /\ UNCHANGED <<clock, credential, caller, admitted, failures>>

(* The database fails or the process goes: the transaction is undone.      *)
CleanupFails ==
  /\ doomed # {}
  /\ doomed' = {}
  /\ UNCHANGED <<clock, bucket, credential, caller, admitted, failures>>

(* The e-mail is unique: the slower of two signups is refused.             *)
Signup(c) ==
  /\ caller[c].at = "admitted"
  /\ credential' = IF credential = NoAccount THEN NewCredential ELSE credential
  /\ caller' = [caller EXCEPT ![c] = Idle]
  /\ UNCHANGED <<clock, bucket, doomed, admitted, failures>>

(* The time is read; the select waits for the credential's row.            *)
BeginLogin(c) ==
  /\ caller[c].at = "admitted"
  /\ caller' = [caller EXCEPT ![c].at = "login", ![c].seen = clock]
  /\ UNCHANGED <<clock, bucket, doomed, credential, admitted, failures>>

LockedOut(t) == credential.locked_until # Never /\ credential.locked_until > t

StaleFailure(t) ==
  credential.last_failed_at = Never \/ t > credential.last_failed_at + FailureWindowTicks

WithFailure(t) ==
  LET failed == IF StaleFailure(t) THEN 1 ELSE LeastOf(credential.failed + 1, MaxFailedAttempts)
  IN [failed |-> failed, last_failed_at |-> t,
      locked_until |-> IF failed >= MaxFailedAttempts THEN t + LockoutTicks
                       ELSE credential.locked_until]

(* Mutant: the failure is rolled back with the error it raises.            *)
LoginRolledBack(c, right) ==
  LET t == caller[c].seen
      refused == credential = NoAccount \/ LockedOut(t)
  IN /\ caller[c].at = "login"
     /\ credential' = IF right /\ ~refused THEN NewCredential ELSE credential
     /\ failures' = CASE refused -> failures
                      [] ~refused /\ right -> <<>>
                      [] OTHER -> Remembered(failures, MaxFailedAttempts + 1)
     /\ caller' = [caller EXCEPT ![c] = Idle]
     /\ UNCHANGED <<clock, bucket, doomed, admitted>>

(* The failure is committed although the request ends in an error.         *)
Login(c, right) ==
  LET t == caller[c].seen
      refused == credential = NoAccount \/ LockedOut(t)
  IN /\ caller[c].at = "login"
     /\ credential' = CASE refused -> credential
                        [] ~refused /\ right -> NewCredential
                        [] OTHER -> WithFailure(t)
     /\ failures' = CASE refused -> failures
                      [] ~refused /\ right -> <<>>
                      [] OTHER -> Remembered(failures, MaxFailedAttempts + 1)
     /\ caller' = [caller EXCEPT ![c] = Idle]
     /\ UNCHANGED <<clock, bucket, doomed, admitted>>

(* The database fails or the client goes: nothing is written (503).        *)
RollBack(c) ==
  /\ caller[c].at # "idle"
  /\ caller' = [caller EXCEPT ![c] = Idle]
  /\ UNCHANGED <<clock, bucket, doomed, credential, admitted, failures>>

SignInNext ==
  \/ Tick
  \/ CleanupSelect \/ CleanupDelete \/ CleanupFails
  \/ \E c \in Callers :
       \/ \E k \in Addresses : Arrive(c, k)
       \/ CheckLimit(c) \/ Signup(c) \/ BeginLogin(c) \/ RollBack(c)
       \/ \E right \in BOOLEAN : Login(c, right)

SignInTypeOK ==
  /\ clock \in 0 .. MaxTime
  /\ bucket \in [Addresses -> Bucket \cup {NoBucket}]
  /\ doomed \subseteq Addresses
  /\ credential \in Credential \cup {NoAccount}
  /\ caller \in [Callers -> Caller]

(***************************************************************************)
(* Properties                                                              *)
(***************************************************************************)
(* Of the requests one address gets through, any 3 * MaxRequests in a row  *)
(* take as long as a window, but for the wait of one request: a window's   *)
(* worth before and after a window ends, as of any fixed window, and one   *)
(* more when a cleanup that had chosen the old window deletes the new one. *)
(* Late clocks and repeated cleanups add no more (PostgresRateLimiter).    *)
RequestBudget ==
  \A k \in Addresses :
    Len(admitted[k]) = 3 * MaxRequests
      => admitted[k][3 * MaxRequests] + MaxWait >= admitted[k][1] + WindowTicks

(* Between two successful logins, any MaxFailedAttempts + 1 wrong          *)
(* passwords that were compared take as long as a lockout, but for the     *)
(* wait of one request, from however many addresses and concurrent         *)
(* requests they come (login).                                             *)
GuessBudget ==
  Len(failures) = MaxFailedAttempts + 1
    => failures[MaxFailedAttempts + 1] + MaxWait >= failures[1] + LockoutTicks
==============================================================================
