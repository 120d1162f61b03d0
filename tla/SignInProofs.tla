----------------------------- MODULE SignInProofs ----------------------------
(***************************************************************************)
(* Proofs about signing in, as a part of Metering, for any number of       *)
(* callers and addresses and any limits: neither the request limiter nor   *)
(* the lockout gives away more than its budget, although both decide with  *)
(* a clock they read before they waited for a lock.                        *)
(***************************************************************************)
EXTENDS MeteringProofs

(***************************************************************************)
(* Histories, read from their newest time back                             *)
(***************************************************************************)
Back(h, d) == h[Len(h) - d]

History(h, n, now) ==
  /\ h \in Seq(Nat) /\ Len(h) <= n
  /\ \A d \in 0 .. Len(h) - 1 : Back(h, d) \in Nat /\ Back(h, d) <= now
  /\ \A d, f \in 0 .. Len(h) - 1 : d <= f => Back(h, f) <= Back(h, d)

\* The limits are numbers, and a failure window is no shorter than a lockout.
LEMMA SignInNumbers ==
    /\ MaxRequests \in Nat /\ MaxRequests > 0 /\ WindowTicks \in Nat
    /\ MaxFailedAttempts \in Nat /\ MaxFailedAttempts > 0
    /\ LockoutTicks \in Nat /\ FailureWindowTicks \in Nat /\ FailureWindowTicks >= LockoutTicks
    /\ MaxWait \in Nat /\ MaxTime \in Nat
  BY SignInAssumption

\* What is measured from an earlier time took no less.
LEMMA TimeAdds ==
    ASSUME NEW old \in Nat, NEW mid \in Nat, NEW expires \in Nat, NEW t \in Nat,
           NEW now \in Nat, NEW wait \in Nat, NEW ticks \in Nat,
           old <= mid, expires + wait >= mid + ticks, expires <= t, t <= now
    PROVE  now + wait >= old + ticks
  OBVIOUS

\* The same when the first of two times is known up to a wait.
LEMMA TimePasses ==
    ASSUME NEW old \in Nat, NEW new \in Nat, NEW last \in Nat, NEW t \in Nat,
           NEW now \in Nat, NEW wait \in Nat, NEW ticks \in Nat,
           old <= new, last + wait >= new, last + ticks <= t, t <= now
    PROVE  now + wait >= old + ticks
  OBVIOUS

\* Remembering one more time drops the oldest when there are n already.
LEMMA RememberedIs ==
    ASSUME clock \in Nat, NEW h \in Seq(Nat), NEW n \in Nat, 0 < n, Len(h) <= n
    PROVE  LET g == Remembered(h, n)
           IN  /\ g \in Seq(Nat) /\ Len(g) <= n
               /\ Len(g) = Len(h) + 1 \/ (Len(g) = Len(h) /\ Len(h) = n)
               /\ Back(g, 0) = clock
               /\ \A d \in 0 .. Len(g) - 2 : Back(g, d + 1) = Back(h, d)
  <1> DEFINE g == Remembered(h, n)
  <1> DEFINE e == Append(h, clock)
  <1>1. /\ e \in Seq(Nat) /\ Len(e) = Len(h) + 1 /\ Len(h) \in Nat
        /\ e[Len(e)] = clock /\ \A i \in 1 .. Len(h) : e[i] = h[i]
    OBVIOUS
  <1>2. g = IF Len(e) > n THEN Tail(e) ELSE e
    BY DEF Remembered
  <1> HIDE DEF e, g
  <1>3. CASE Len(h) < n
    <2>1. g = e
      BY <1>1, <1>2, <1>3
    <2>2. g \in Seq(Nat) /\ Len(g) = Len(h) + 1 /\ Len(g) <= n
      BY <1>1, <1>3, <2>1
    <2>3. Back(g, 0) = clock
      BY <1>1, <2>1 DEF Back
    <2>4. ASSUME NEW d \in 0 .. Len(g) - 2 PROVE Back(g, d + 1) = Back(h, d)
      <3>1. Len(g) - (d + 1) = Len(h) - d /\ Len(h) - d \in 1 .. Len(h)
        BY <1>1, <2>2
      <3> QED BY <1>1, <2>1, <3>1 DEF Back
    <2> QED BY <2>2, <2>3, <2>4 DEF g
  <1>4. CASE Len(h) = n
    <2>1. g = Tail(e)
      BY <1>1, <1>2, <1>4
    <2>2. g \in Seq(Nat) /\ Len(g) = n /\ \A i \in 1 .. n : g[i] = e[i + 1]
      BY <1>1, <1>4, <2>1
    <2>3. g[n] = clock
      BY <1>1, <1>4, <2>2
    <2>4. ASSUME NEW d \in 0 .. n - 2 PROVE g[n - (d + 1)] = h[n - d]
      <3>1. n - (d + 1) \in 1 .. n /\ n - d \in 1 .. Len(h) /\ (n - (d + 1)) + 1 = n - d
        BY <1>4
      <3> QED BY <1>1, <2>2, <3>1
    <2>5. Back(g, 0) = clock /\ \A d \in 0 .. Len(g) - 2 : Back(g, d + 1) = Back(h, d)
      BY <1>4, <2>2, <2>3, <2>4 DEF Back
    <2> QED BY <1>4, <2>2, <2>5 DEF g
  <1> QED BY <1>1, <1>3, <1>4

(* A time that is remembered keeps a history in order.                     *)
LEMMA HistoryGrows ==
    ASSUME clock \in Nat, NEW n \in Nat, 0 < n, NEW h, History(h, n, clock),
           NEW g, g = Remembered(h, n)
    PROVE  History(g, n, clock)
  <1>1. /\ g \in Seq(Nat) /\ Len(g) <= n /\ Len(g) \in Nat /\ Len(h) \in Nat
        /\ Len(g) = Len(h) + 1 \/ (Len(g) = Len(h) /\ Len(h) = n)
        /\ Back(g, 0) = clock
        /\ \A d \in 0 .. Len(g) - 2 : Back(g, d + 1) = Back(h, d)
    BY RememberedIs DEF History
  <1>2. ASSUME NEW d \in 0 .. Len(g) - 1, d # 0
        PROVE  d - 1 \in 0 .. Len(h) - 1 /\ Back(g, d) = Back(h, d - 1)
    <2>1. d - 1 \in 0 .. Len(g) - 2 /\ (d - 1) + 1 = d /\ d - 1 \in 0 .. Len(h) - 1
      BY <1>1, <1>2
    <2> QED BY <1>1, <2>1
  <1>3. ASSUME NEW d \in 0 .. Len(g) - 1 PROVE Back(g, d) \in Nat /\ Back(g, d) <= clock
    BY <1>1, <1>2, <1>3 DEF History
  <1>4. ASSUME NEW d \in 0 .. Len(g) - 1, NEW f \in 0 .. Len(g) - 1, d <= f
        PROVE  Back(g, f) <= Back(g, d)
    <2>1. CASE d = 0
      BY <1>1, <1>3, <2>1
    <2>2. CASE d # 0
      <3>1. f # 0 /\ d - 1 <= f - 1
        BY <1>4, <2>2
      <3> QED BY <1>2, <2>2, <3>1 DEF History
    <2> QED BY <2>1, <2>2
  <1> QED BY <1>1, <1>3, <1>4 DEF History

\* A history of times stays one while the clock advances.
LEMMA HistoryLater ==
    ASSUME NEW now \in Nat, NEW n, NEW h, History(h, n, now)
    PROVE  History(h, n, now + 1)
  BY DEF History

(***************************************************************************)
(* The lockout of an account                                               *)
(***************************************************************************)
(* Of the wrong passwords since a success, one is so much older than the   *)
(* newest that a lockout lies between, or the counter has kept count of    *)
(* all from it on; a counter at its limit has locked the account.          *)
LockedInTime(cr, h) ==
  /\ cr = NoAccount => Len(h) = 0
  /\ cr # NoAccount =>
       /\ Len(h) > 0 => /\ cr.last_failed_at # Never
                        /\ cr.last_failed_at + MaxWait >= Back(h, 0)
       /\ cr.failed >= MaxFailedAttempts =>
            /\ cr.last_failed_at # Never
            /\ cr.locked_until = cr.last_failed_at + LockoutTicks
       /\ \A d \in 0 .. Len(h) - 1 :
            \/ Back(h, 0) + MaxWait >= Back(h, d) + LockoutTicks
            \/ cr.failed >= d + 1

\* The columns of a credential.
LEMMA CredentialParts ==
    ASSUME NEW cr \in Credential
    PROVE  /\ cr.failed \in 0 .. MaxFailedAttempts /\ cr.failed \in Nat
           /\ cr.last_failed_at # Never => cr.last_failed_at \in Nat
           /\ cr.last_failed_at \in (0 .. MaxTime) \cup {Never}
           /\ cr.locked_until # Never => cr.locked_until \in Nat
           /\ cr.locked_until \in (0 .. MaxTime + LockoutTicks) \cup {Never}
  BY SignInNumbers DEF Credential

\* A new account has no failures.
LEMMA NewCredentialIs ==
    /\ NewCredential \in Credential /\ NewCredential.failed = 0
    /\ NewCredential # NoAccount
  BY SignInNumbers, RowAssumption DEF NewCredential, Credential

(* A wrong password is counted: t is the time that was read before the     *)
(* wait for the row.                                                       *)
LEMMA FailureCounts ==
    ASSUME clock \in Nat, credential \in Credential, NEW t \in 0 .. MaxTime,
           t <= clock, clock <= t + MaxWait, ~LockedOut(t),
           NEW h, History(h, MaxFailedAttempts + 1, clock), LockedInTime(credential, h),
           NEW g, g = Remembered(h, MaxFailedAttempts + 1),
           NEW cr, cr = WithFailure(t)
    PROVE  cr \in Credential /\ cr # NoAccount /\ LockedInTime(cr, g)
  <1> DEFINE failed == IF StaleFailure(t) THEN 1
                       ELSE LeastOf(credential.failed + 1, MaxFailedAttempts)
  <1>1. /\ cr.failed = failed /\ cr.last_failed_at = t
        /\ cr.locked_until = IF failed >= MaxFailedAttempts THEN t + LockoutTicks
                             ELSE credential.locked_until
        /\ cr = [failed |-> failed, last_failed_at |-> t,
                 locked_until |-> IF failed >= MaxFailedAttempts THEN t + LockoutTicks
                                  ELSE credential.locked_until]
    BY DEF WithFailure
  <1>2. /\ credential.failed \in Nat /\ credential.failed <= MaxFailedAttempts
        /\ credential.last_failed_at # Never => credential.last_failed_at \in Nat
        /\ credential.locked_until # Never => credential.locked_until \in Nat
        /\ credential.locked_until \in (0 .. MaxTime + LockoutTicks) \cup {Never}
    BY CredentialParts, SignInNumbers
  <1>3. failed \in 1 .. MaxFailedAttempts
    BY <1>2, SignInNumbers DEF LeastOf
  <1>4. cr \in Credential
    <2> HIDE DEF failed
    <2>1. t + LockoutTicks \in 0 .. MaxTime + LockoutTicks /\ failed \in 0 .. MaxFailedAttempts
      BY <1>3, SignInNumbers
    <2> QED BY <1>1, <1>2, <2>1 DEF Credential
  <1>5. credential # NoAccount /\ cr # NoAccount
    BY <1>4, RowAssumption
  <1>6. /\ Len(g) \in Nat /\ Len(h) \in Nat
        /\ Len(g) = Len(h) + 1 \/ (Len(g) = Len(h) /\ Len(h) = MaxFailedAttempts + 1)
        /\ Back(g, 0) = clock
        /\ \A d \in 0 .. Len(g) - 2 : Back(g, d + 1) = Back(h, d)
    BY RememberedIs, SignInNumbers DEF History
  <1>7. t # Never /\ t \in Nat
    BY RowAssumption, SignInNumbers
  <1>8. ASSUME NEW d \in 0 .. Len(g) - 1
        PROVE  Back(g, 0) + MaxWait >= Back(g, d) + LockoutTicks \/ cr.failed >= d + 1
    <2>1. CASE d = 0
      BY <1>1, <1>3, <2>1
    <2>2. CASE d # 0
      <3> DEFINE p == d - 1
      <3>1. /\ p \in 0 .. Len(h) - 1 /\ p \in 0 .. Len(g) - 2 /\ p + 1 = d /\ p \in Nat
            /\ Len(h) > 0 /\ 0 \in 0 .. Len(h) - 1 /\ 0 <= p
        BY <1>6, <2>2
      <3>2. Back(g, d) = Back(h, p)
        BY <1>6, <3>1
      <3> HIDE DEF p
      <3>3. /\ Back(h, p) \in Nat /\ Back(h, 0) \in Nat /\ Back(h, 0) <= clock
            /\ Back(h, p) <= Back(h, 0)
        BY <3>1 DEF History
      <3>4. /\ credential.last_failed_at # Never
            /\ credential.last_failed_at + MaxWait >= Back(h, 0)
            /\ credential.failed >= MaxFailedAttempts =>
                 credential.locked_until = credential.last_failed_at + LockoutTicks
            /\ \/ Back(h, 0) + MaxWait >= Back(h, p) + LockoutTicks
               \/ credential.failed >= p + 1
        BY <1>5, <3>1 DEF LockedInTime
      <3> DEFINE last == credential.last_failed_at
      <3>5. last \in Nat /\ last + MaxWait >= Back(h, 0)
        BY <1>2, <3>4
      <3>9. ASSUME last + LockoutTicks <= t
            PROVE  Back(g, 0) + MaxWait >= Back(g, d) + LockoutTicks
        <4> DEFINE old == Back(h, p)
                   new == Back(h, 0)
        <4>1. old \in Nat /\ new \in Nat /\ old <= new /\ last + MaxWait >= new
          BY <3>3, <3>5
        <4> HIDE DEF old, new, last
        <4>2. clock + MaxWait >= old + LockoutTicks
          BY <1>7, <3>5, <3>9, <4>1, SignInNumbers, TimePasses
        <4> QED BY <1>6, <3>2, <4>2 DEF old
      <3>6. CASE Back(h, 0) + MaxWait >= Back(h, p) + LockoutTicks
        <4> DEFINE old == Back(h, p)
                   new == Back(h, 0)
        <4>1. old \in Nat /\ new \in Nat /\ new <= clock /\ new + MaxWait >= old + LockoutTicks
          BY <3>3, <3>6
        <4> HIDE DEF old, new
        <4>2. clock + MaxWait >= old + LockoutTicks
          BY <4>1, SignInNumbers
        <4> QED BY <1>6, <3>2, <4>2 DEF old
      <3>7. CASE StaleFailure(t)
        <4>1. t > last + FailureWindowTicks
          BY <3>4, <3>7 DEF StaleFailure
        <4> HIDE DEF last
        <4>2. last + LockoutTicks <= t
          BY <1>7, <3>5, <4>1, SignInNumbers
        <4> QED BY <3>9, <4>2 DEF last
      <3>8. CASE ~StaleFailure(t) /\ credential.failed >= p + 1
        <4>1. CASE credential.failed + 1 <= MaxFailedAttempts
          <5>1. failed = credential.failed + 1
            BY <3>8, <4>1 DEF LeastOf
          <5> QED BY <1>1, <1>2, <3>1, <3>8, <5>1
        <4>2. CASE ~(credential.failed + 1 <= MaxFailedAttempts)
          <5>1. credential.locked_until = last + LockoutTicks
            BY <1>2, <3>4, <4>2, SignInNumbers
          <5>2. credential.locked_until \in Nat /\ credential.locked_until # Never
            BY <3>5, <5>1, RowAssumption, SignInNumbers
          <5>3. last + LockoutTicks <= t
            BY <1>7, <5>1, <5>2 DEF LockedOut
          <5> QED BY <3>9, <5>3
        <4> QED BY <4>1, <4>2
      <3> QED BY <3>4, <3>6, <3>7, <3>8
    <2> QED BY <2>1, <2>2
  <1>9. cr.failed >= MaxFailedAttempts => cr.locked_until = t + LockoutTicks
    BY <1>1
  <1>10. Len(g) > 0 => cr.last_failed_at # Never /\ cr.last_failed_at + MaxWait >= Back(g, 0)
    BY <1>1, <1>6, <1>7
  <1> QED BY <1>1, <1>4, <1>5, <1>7, <1>8, <1>9, <1>10 DEF LockedInTime

(***************************************************************************)
(* The request limiter                                                     *)
(***************************************************************************)
(* Requests the window of a row has let through.                           *)
InWindow(r) == LeastOf(r.count, MaxRequests)

(* The newest request came a window later than the one d before it, but    *)
(* for the wait of one.                                                    *)
Apart(h, d) == Back(h, 0) + MaxWait >= Back(h, d) + WindowTicks

(* The requests let through since the row's window began are its count,    *)
(* the first of them no later than the row says; before them came those of *)
(* at most two windows that are not a window's length away, of one if a    *)
(* cleanup has chosen this row.                                            *)
WithinBudget(h, r, chosen, now) ==
  /\ History(h, 3 * MaxRequests, now)
  /\ \A d \in 0 .. Len(h) - 1 : Apart(h, d) \/ d < 3 * MaxRequests - 1
  /\ r # NoBucket =>
       /\ InWindow(r) <= Len(h)
       /\ r.expires + MaxWait >= Back(h, InWindow(r) - 1) + WindowTicks
       /\ \A d \in 0 .. Len(h) - 1 : Apart(h, d) \/ d < InWindow(r) + 2 * MaxRequests - 1
  /\ r = NoBucket =>
       \A d \in 0 .. Len(h) - 1 : now + MaxWait >= Back(h, d) + WindowTicks
                                   \/ d < 2 * MaxRequests - 1
  /\ chosen =>
       /\ r # NoBucket
       /\ \/ r.expires <= now
          \/ \A d \in 0 .. Len(h) - 1 : Apart(h, d) \/ d < InWindow(r) + MaxRequests - 1

\* The columns of a bucket, and the requests it counts in its window.
LEMMA BucketParts ==
    ASSUME NEW r \in Bucket
    PROVE  /\ r.expires \in Nat /\ r.count \in Nat /\ r.count > 0 /\ r # NoBucket
           /\ InWindow(r) \in Nat /\ InWindow(r) > 0 /\ InWindow(r) <= MaxRequests
  BY SignInNumbers, RowAssumption DEF Bucket, InWindow, LeastOf

(* The request opens a window.                                             *)
LEMMA WindowOpens ==
    ASSUME clock \in Nat, NEW t \in 0 .. MaxTime, t <= clock, clock <= t + MaxWait,
           NEW r \in Bucket \cup {NoBucket}, r = NoBucket \/ r.expires <= t,
           NEW h, NEW chosen \in BOOLEAN, WithinBudget(h, r, chosen, clock),
           NEW g, g = Remembered(h, 3 * MaxRequests),
           NEW b, b = [expires |-> t + WindowTicks, count |-> 1]
    PROVE  b \in Bucket /\ WithinBudget(g, b, chosen, clock)
  <1> DEFINE n == 3 * MaxRequests
  <1>0. n \in Nat /\ 0 < n
    BY SignInNumbers
  <1>1. History(h, n, clock)
    BY DEF WithinBudget
  <1>2. /\ Len(g) \in Nat /\ Len(h) \in Nat
        /\ Len(g) = Len(h) + 1 \/ (Len(g) = Len(h) /\ Len(h) = n)
        /\ Back(g, 0) = clock
        /\ \A d \in 0 .. Len(g) - 2 : Back(g, d + 1) = Back(h, d)
    BY <1>0, <1>1, RememberedIs DEF History
  <1>3. History(g, n, clock)
    BY <1>0, <1>1, HistoryGrows
  <1>4. b \in Bucket /\ b.expires = t + WindowTicks /\ b.count = 1
    BY SignInNumbers DEF Bucket
  <1>5. b # NoBucket /\ InWindow(b) = 1 /\ InWindow(b) - 1 = 0
    BY <1>4, BucketParts, SignInNumbers DEF InWindow, LeastOf
  <1>6. b.expires + MaxWait >= clock + WindowTicks
    BY <1>4, SignInNumbers
  <1>7. ASSUME NEW d \in 0 .. Len(g) - 1
        PROVE  Apart(g, d) \/ d < (IF r = NoBucket THEN 2 * MaxRequests ELSE MaxRequests)
    <2>1. CASE d = 0
      BY <2>1, SignInNumbers
    <2>2. CASE d # 0
      <3> DEFINE p == d - 1
      <3>1. p \in 0 .. Len(h) - 1 /\ p \in 0 .. Len(g) - 2 /\ p + 1 = d /\ p \in Nat
        BY <1>2, <2>2
      <3>2. Back(g, d) = Back(h, p)
        BY <1>2, <3>1
      <3> HIDE DEF p
      <3>3. Back(h, p) \in Nat
        BY <1>1, <3>1 DEF History
      <3>4. ASSUME clock + MaxWait >= Back(h, p) + WindowTicks PROVE Apart(g, d)
        BY <1>2, <3>2, <3>4 DEF Apart
      <3>5. CASE r = NoBucket
        <4>1. clock + MaxWait >= Back(h, p) + WindowTicks \/ p < 2 * MaxRequests - 1
          BY <3>1, <3>5 DEF WithinBudget
        <4>2. p < 2 * MaxRequests - 1 => d < 2 * MaxRequests
          BY <3>1, SignInNumbers
        <4> QED BY <3>4, <3>5, <4>1, <4>2
      <3>6. CASE r # NoBucket
        <4> DEFINE i == InWindow(r)
        <4>1. /\ r.expires \in Nat /\ r.expires <= t /\ i \in Nat /\ i > 0 /\ i <= MaxRequests
          BY <3>6, BucketParts
        <4>2. i <= Len(h) /\ r.expires + MaxWait >= Back(h, i - 1) + WindowTicks
          BY <3>6 DEF WithinBudget
        <4> HIDE DEF i
        <4>3. CASE p < i - 1
          <5>1. d < MaxRequests
            BY <3>1, <4>1, <4>3, SignInNumbers
          <5> QED BY <3>6, <5>1
        <4>4. CASE i - 1 <= p
          <5>1. i - 1 \in 0 .. Len(h) - 1 /\ i - 1 <= p
            BY <1>2, <3>1, <4>1, <4>2, <4>4
          <5>2. Back(h, i - 1) \in Nat /\ Back(h, p) <= Back(h, i - 1)
            BY <1>1, <3>1, <5>1 DEF History
          <5> DEFINE mid == Back(h, i - 1)
                     old == Back(h, p)
                     until == r.expires
          <5>3. /\ mid \in Nat /\ old \in Nat /\ until \in Nat /\ t \in Nat
                /\ old <= mid /\ until + MaxWait >= mid + WindowTicks /\ until <= t
            BY <3>3, <4>1, <4>2, <5>2
          <5> HIDE DEF mid, old, until
          <5>4. clock + MaxWait >= old + WindowTicks
            BY <5>3, SignInNumbers, TimeAdds
          <5> QED BY <3>4, <5>4 DEF old
        <4> QED BY <3>1, <4>1, <4>3, <4>4
      <3> QED BY <3>5, <3>6
    <2> QED BY <2>1, <2>2
  <1>8. /\ \A d \in 0 .. Len(g) - 1 : Apart(g, d) \/ d < 3 * MaxRequests - 1
        /\ \A d \in 0 .. Len(g) - 1 : Apart(g, d) \/ d < 1 + 2 * MaxRequests - 1
        /\ r # NoBucket =>
             \A d \in 0 .. Len(g) - 1 : Apart(g, d) \/ d < 1 + MaxRequests - 1
    <2>1. ASSUME NEW d \in 0 .. Len(g) - 1
          PROVE  /\ d < MaxRequests => d < 2 * MaxRequests /\ d < 1 + MaxRequests - 1
                 /\ d < 2 * MaxRequests => /\ d < 3 * MaxRequests - 1
                                           /\ d < 1 + 2 * MaxRequests - 1
      BY SignInNumbers
    <2> QED BY <1>7, <2>1
  <1>9. InWindow(b) <= Len(g)
    BY <1>0, <1>2, <1>5
  <1>10. chosen => r # NoBucket
    BY DEF WithinBudget
  <1> QED BY <1>2, <1>3, <1>4, <1>5, <1>6, <1>8, <1>9, <1>10 DEF WithinBudget

(* The request falls into a window that is not over.                       *)
LEMMA WindowCounts ==
    ASSUME clock \in Nat, NEW r \in Bucket, NEW h, NEW chosen \in BOOLEAN,
           WithinBudget(h, r, chosen, clock),
           NEW b, b = [r EXCEPT !.count = LeastOf(@ + 1, MaxRequests + 1)],
           NEW g, b.count <= MaxRequests => g = Remembered(h, 3 * MaxRequests),
           b.count > MaxRequests => g = h
    PROVE  b \in Bucket /\ WithinBudget(g, b, chosen, clock)
  <1> DEFINE n == 3 * MaxRequests
  <1> DEFINE i == InWindow(r)
  <1>0. n \in Nat /\ 0 < n
    BY SignInNumbers
  <1>1. /\ History(h, n, clock)
        /\ \A d \in 0 .. Len(h) - 1 : Apart(h, d) \/ d < 3 * MaxRequests - 1
    BY DEF WithinBudget
  <1>2. /\ r.expires \in Nat /\ r.count \in Nat /\ r.count > 0 /\ r # NoBucket
        /\ r.count <= MaxRequests + 1
        /\ i \in Nat /\ i > 0 /\ i <= MaxRequests
    BY BucketParts, SignInNumbers DEF Bucket
  <1>3. /\ i <= Len(h)
        /\ r.expires + MaxWait >= Back(h, i - 1) + WindowTicks
        /\ \A d \in 0 .. Len(h) - 1 : Apart(h, d) \/ d < i + 2 * MaxRequests - 1
        /\ chosen => \/ r.expires <= clock
                     \/ \A d \in 0 .. Len(h) - 1 : Apart(h, d) \/ d < i + MaxRequests - 1
    BY <1>2 DEF WithinBudget
  <1>4. /\ b \in Bucket /\ b.expires = r.expires
        /\ b.count = LeastOf(r.count + 1, MaxRequests + 1)
    <2>1. LeastOf(r.count + 1, MaxRequests + 1) \in 1 .. MaxRequests + 1
      BY <1>2, SignInNumbers DEF LeastOf
    <2> QED BY <2>1 DEF Bucket
  <1>5. b # NoBucket
    BY <1>4, BucketParts
  <1>6. CASE b.count > MaxRequests
    <2>1. r.count >= MaxRequests /\ b.count >= MaxRequests /\ b.count \in Nat
      BY <1>2, <1>4, <1>6, SignInNumbers DEF LeastOf
    <2>2. i = MaxRequests /\ InWindow(b) = MaxRequests
      BY <1>2, <2>1, SignInNumbers DEF InWindow, LeastOf
    <2>3. g = h
      BY <1>6, <2>1, SignInNumbers
    <2> QED BY <1>1, <1>3, <1>4, <1>5, <2>2, <2>3 DEF WithinBudget
  <1>7. CASE b.count <= MaxRequests
    <2>1. r.count + 1 <= MaxRequests /\ b.count = r.count + 1
      BY <1>2, <1>4, <1>7, SignInNumbers DEF LeastOf
    <2>2. i = r.count /\ InWindow(b) = i + 1 /\ InWindow(b) - 1 = i /\ i + 1 <= MaxRequests
      BY <1>2, <2>1, SignInNumbers DEF InWindow, LeastOf
    <2>3. g = Remembered(h, n)
      BY <1>7
    <2>4. /\ Len(g) \in Nat /\ Len(h) \in Nat
          /\ Len(g) = Len(h) + 1 \/ (Len(g) = Len(h) /\ Len(h) = n)
          /\ Back(g, 0) = clock
          /\ \A d \in 0 .. Len(g) - 2 : Back(g, d + 1) = Back(h, d)
      <3> DEFINE e == Remembered(h, n)
      <3> HIDE DEF n
      <3>1. h \in Seq(Nat) /\ Len(h) <= n /\ Len(h) \in Nat
        BY <1>1 DEF History
      <3>2. /\ e \in Seq(Nat)
            /\ Len(e) = Len(h) + 1 \/ (Len(e) = Len(h) /\ Len(h) = n)
            /\ Back(e, 0) = clock
            /\ \A d \in 0 .. Len(e) - 2 : Back(e, d + 1) = Back(h, d)
        BY <1>0, <3>1, RememberedIs
      <3> HIDE DEF e
      <3>3. Len(e) \in Nat
        BY <3>2
      <3> QED BY <2>3, <3>1, <3>2, <3>3 DEF e
    <2>5. History(g, n, clock)
      <3> DEFINE e == Remembered(h, n)
      <3> HIDE DEF n
      <3>1. History(e, n, clock)
        BY <1>0, <1>1, HistoryGrows
      <3> QED BY <2>3, <3>1
    <2> HIDE DEF i
    <2>6. InWindow(b) <= Len(g)
      <3>1. i <= Len(h)
        BY <1>3
      <3>2. i + 1 <= n
        <4>1. i + 1 <= MaxRequests
          BY <2>2
        <4> QED BY <1>2, <4>1, SignInNumbers
      <3> HIDE DEF n
      <3> QED BY <1>0, <1>2, <2>2, <2>4, <3>1, <3>2
    <2>7. b.expires + MaxWait >= Back(g, InWindow(b) - 1) + WindowTicks
      <3>1. i - 1 \in 0 .. Len(g) - 2 /\ (i - 1) + 1 = i
        BY <1>2, <2>2, <2>4, <2>6
      <3>2. Back(g, i) = Back(h, i - 1)
        BY <2>4, <3>1
      <3> QED BY <1>3, <1>4, <2>2, <3>2
    <2>8. ASSUME NEW m \in Nat, m > 0,
                 \A d \in 0 .. Len(h) - 1 : Apart(h, d) \/ d < i + m - 1,
                 NEW d \in 0 .. Len(g) - 1
          PROVE  Apart(g, d) \/ d < InWindow(b) + m - 1
      <3>1. CASE d = 0
        BY <1>2, <2>2, <2>8, <3>1
      <3>2. CASE d # 0
        <4> DEFINE p == d - 1
        <4>1. /\ p \in 0 .. Len(h) - 1 /\ p \in 0 .. Len(g) - 2 /\ p + 1 = d /\ p \in Nat
              /\ 0 \in 0 .. Len(h) - 1
          BY <2>4, <3>2
        <4>2. Back(g, d) = Back(h, p)
          BY <2>4, <4>1
        <4> HIDE DEF p
        <4>3. Back(h, p) \in Nat /\ Back(h, 0) \in Nat /\ Back(h, 0) <= clock
          BY <1>1, <4>1 DEF History
        <4>4. Apart(h, p) \/ p < i + m - 1
          BY <2>8, <4>1
        <4>5. CASE Apart(h, p)
          <5>1. Back(h, 0) + MaxWait >= Back(h, p) + WindowTicks /\ Back(g, 0) = clock
            BY <2>4, <4>5 DEF Apart
          <5>2. clock + MaxWait >= Back(h, p) + WindowTicks
            BY <4>3, <5>1, SignInNumbers
          <5> QED BY <4>2, <5>1, <5>2 DEF Apart
        <4>6. CASE p < i + m - 1
          <5> DEFINE w == InWindow(b)
          <5>1. w = i + 1 /\ i \in Nat /\ p \in Nat /\ d = p + 1
            BY <1>2, <2>2, <4>1
          <5> HIDE DEF w
          <5>2. d < w + m - 1
            BY <2>8, <4>6, <5>1
          <5> QED BY <5>2 DEF w
        <4> QED BY <4>4, <4>5, <4>6
      <3> QED BY <3>1, <3>2
    <2>m. /\ MaxRequests \in Nat /\ MaxRequests > 0
          /\ 2 * MaxRequests \in Nat /\ 2 * MaxRequests > 0
      BY SignInNumbers
    <2>9. \A d \in 0 .. Len(g) - 1 : Apart(g, d) \/ d < InWindow(b) + 2 * MaxRequests - 1
      <3> DEFINE m == 2 * MaxRequests
      <3>1. \A d \in 0 .. Len(h) - 1 : Apart(h, d) \/ d < i + m - 1
        BY <1>3
      <3>2. m \in Nat /\ m > 0
        BY <2>m
      <3> HIDE DEF m
      <3>3. \A d \in 0 .. Len(g) - 1 : Apart(g, d) \/ d < InWindow(b) + m - 1
        BY <2>8, <3>1, <3>2
      <3> QED BY <3>3 DEF m
    <2>10. chosen => \/ b.expires <= clock
                     \/ \A d \in 0 .. Len(g) - 1 : Apart(g, d) \/ d < InWindow(b) + MaxRequests - 1
      <3>1. ASSUME \A d \in 0 .. Len(h) - 1 : Apart(h, d) \/ d < i + MaxRequests - 1
            PROVE  \A d \in 0 .. Len(g) - 1 : Apart(g, d) \/ d < InWindow(b) + MaxRequests - 1
        BY <2>8, <2>m, <3>1
      <3> QED BY <1>3, <1>4, <3>1
    <2>11. \A d \in 0 .. Len(g) - 1 : Apart(g, d) \/ d < 3 * MaxRequests - 1
      <3>1. ASSUME NEW d \in 0 .. Len(g) - 1, d < InWindow(b) + 2 * MaxRequests - 1
            PROVE  d < 3 * MaxRequests - 1
        <4> DEFINE w == InWindow(b)
        <4>1. w \in Nat /\ w <= MaxRequests /\ d < w + 2 * MaxRequests - 1
          BY <1>2, <2>2, <3>1
        <4> HIDE DEF w
        <4> QED BY <4>1, SignInNumbers
      <3> QED BY <2>9, <3>1
    <2> QED BY <1>4, <1>5, <2>5, <2>6, <2>7, <2>9, <2>10, <2>11 DEF WithinBudget
  <1>8. b.count \in Nat
    BY <1>4, BucketParts
  <1> QED BY <1>6, <1>7, <1>8, SignInNumbers

(* A cleanup chooses a window that is over.                                *)
LEMMA WindowChosen ==
    ASSUME NEW h, NEW r \in Bucket, WithinBudget(h, r, FALSE, clock), r.expires <= clock
    PROVE  WithinBudget(h, r, TRUE, clock)
  BY BucketParts DEF WithinBudget

\* A cleanup that is undone leaves the row as it is.
LEMMA WindowSpared ==
    ASSUME NEW h, NEW r, NEW chosen \in BOOLEAN, WithinBudget(h, r, chosen, clock)
    PROVE  WithinBudget(h, r, FALSE, clock)
  BY DEF WithinBudget

(* The row that was chosen is deleted, its window over or a new one.       *)
LEMMA WindowDeleted ==
    ASSUME clock \in Nat, NEW r \in Bucket \cup {NoBucket}, NEW h,
           WithinBudget(h, r, TRUE, clock)
    PROVE  WithinBudget(h, NoBucket, FALSE, clock)
  <1> DEFINE i == InWindow(r)
  <1>1. /\ History(h, 3 * MaxRequests, clock)
        /\ \A d \in 0 .. Len(h) - 1 : Apart(h, d) \/ d < 3 * MaxRequests - 1
    BY DEF WithinBudget
  <1>0. r # NoBucket
    BY DEF WithinBudget
  <1>2. /\ r.expires \in Nat /\ i \in Nat /\ i > 0 /\ i <= MaxRequests
    BY <1>0, BucketParts
  <1>3. /\ i <= Len(h) /\ r.expires + MaxWait >= Back(h, i - 1) + WindowTicks
        /\ \/ r.expires <= clock
           \/ \A d \in 0 .. Len(h) - 1 : Apart(h, d) \/ d < i + MaxRequests - 1
    BY <1>0 DEF WithinBudget
  <1> HIDE DEF i
  <1>4. ASSUME NEW d \in 0 .. Len(h) - 1
        PROVE  clock + MaxWait >= Back(h, d) + WindowTicks \/ d < 2 * MaxRequests - 1
    <2>0. Back(h, d) \in Nat /\ 0 \in 0 .. Len(h) - 1 /\ Back(h, 0) \in Nat /\ Back(h, 0) <= clock
      BY <1>1 DEF History
    <2>1. CASE d < i - 1
      BY <1>2, <2>1, SignInNumbers
    <2>2. CASE i - 1 <= d /\ r.expires <= clock
      <3>1. i - 1 \in 0 .. Len(h) - 1 /\ i - 1 <= d
        BY <1>2, <1>3, <2>2
      <3>2. Back(h, i - 1) \in Nat /\ Back(h, d) <= Back(h, i - 1)
        BY <1>1, <3>1 DEF History
      <3> QED BY <1>2, <1>3, <2>0, <2>2, <3>2, SignInNumbers
    <2>3. CASE Apart(h, d)
      <3>1. Back(h, 0) + MaxWait >= Back(h, d) + WindowTicks
        BY <2>3 DEF Apart
      <3> QED BY <2>0, <3>1, SignInNumbers
    <2>4. CASE d < i + MaxRequests - 1
      BY <1>2, <2>4, SignInNumbers
    <2> QED BY <1>2, <1>3, <2>1, <2>2, <2>3, <2>4
  <1> QED BY <1>1, <1>4 DEF WithinBudget

\* A budget that is kept stays kept while the clock advances.
LEMMA BudgetLater ==
    ASSUME NEW now \in Nat, NEW r \in Bucket \cup {NoBucket}, NEW h, NEW chosen \in BOOLEAN,
           WithinBudget(h, r, chosen, now)
    PROVE  WithinBudget(h, r, chosen, now + 1)
  <1>1. History(h, 3 * MaxRequests, now) /\ History(h, 3 * MaxRequests, now + 1)
    BY HistoryLater DEF WithinBudget
  <1>2. ASSUME NEW d \in 0 .. Len(h) - 1, now + MaxWait >= Back(h, d) + WindowTicks
        PROVE  (now + 1) + MaxWait >= Back(h, d) + WindowTicks
    <2>1. Back(h, d) \in Nat
      BY <1>1 DEF History
    <2> QED BY <1>2, <2>1, SignInNumbers
  <1>3. r # NoBucket /\ r.expires <= now => r.expires <= now + 1
    BY BucketParts
  <1> QED BY <1>1, <1>2, <1>3 DEF WithinBudget

(***************************************************************************)
(* The invariant and its steps                                             *)
(***************************************************************************)
(* A request waits for a lock no longer than MaxWait.                      *)
Waiting(r, now) ==
  /\ r.at = "counting" => r.from \in Addresses
  /\ r.at \in {"counting", "login"} => r.seen <= now /\ now <= r.seen + MaxWait

Callings == caller \in [Callers -> Caller] /\ \A c \in Callers : Waiting(caller[c], clock)

Lockout ==
  /\ credential \in Credential \cup {NoAccount}
  /\ History(failures, MaxFailedAttempts + 1, clock)
  /\ LockedInTime(credential, failures)

Limits ==
  /\ bucket \in [Addresses -> Bucket \cup {NoBucket}]
  /\ doomed \subseteq Addresses
  /\ admitted = [k \in Addresses |-> admitted[k]]
  /\ \A k \in Addresses : WithinBudget(admitted[k], bucket[k], k \in doomed, clock)

SignInInv == clock \in 0 .. MaxTime /\ Callings /\ Lockout /\ Limits

\* A caller that does nothing waits for nothing.
LEMMA IdleIs == Idle \in Caller /\ \A now : Waiting(Idle, now)
  BY SignInNumbers DEF Idle, Caller, Waiting

\* A caller that moves keeps the others' waits.
LEMMA CallerMoves ==
    ASSUME Callings, NEW c \in Callers, NEW r \in Caller, Waiting(r, clock),
           caller' = [caller EXCEPT ![c] = r], clock' = clock
    PROVE  Callings'
  <1>1. caller' \in [Callers -> Caller]
    BY DEF Callings
  <1>2. ASSUME NEW d \in Callers PROVE Waiting(caller'[d], clock)
    <2>1. CASE d = c
      BY <2>1 DEF Callings
    <2>2. CASE d # c
      BY <2>2 DEF Callings
    <2> QED BY <2>1, <2>2
  <1> QED BY <1>1, <1>2 DEF Callings

\* The clock is a number.
LEMMA ClockNat ==
    ASSUME SignInInv
    PROVE  clock \in Nat /\ clock <= MaxTime
  BY SignInNumbers DEF SignInInv

\* The clock advances only while no wait gets too long.
LEMMA TickStep ==
    ASSUME SignInInv, Tick
    PROVE  SignInInv'
  <1>1. /\ clock \in Nat /\ clock < MaxTime /\ clock' = clock + 1
        /\ UNCHANGED <<bucket, doomed, credential, caller, admitted, failures>>
        /\ \A c \in Callers : caller[c].at \in {"counting", "login"}
                                => clock < caller[c].seen + MaxWait
    BY ClockNat DEF Tick
  <1>2. clock' \in 0 .. MaxTime
    BY <1>1, SignInNumbers
  <1>3. Callings'
    <2>1. ASSUME NEW c \in Callers PROVE Waiting(caller[c], clock + 1)
      <3>1. Waiting(caller[c], clock) /\ caller[c] \in Caller
        BY DEF SignInInv, Callings
      <3>2. caller[c].seen \in Nat
        BY <3>1, SignInNumbers DEF Caller
      <3> QED BY <1>1, <3>1, <3>2, SignInNumbers DEF Waiting
    <2> QED BY <1>1, <2>1 DEF SignInInv, Callings
  <1>4. Lockout'
    <2>1. History(failures, MaxFailedAttempts + 1, clock + 1)
      BY <1>1, HistoryLater DEF SignInInv, Lockout
    <2> QED BY <1>1, <2>1 DEF SignInInv, Lockout
  <1>5. Limits'
    <2>1. ASSUME NEW k \in Addresses
          PROVE  WithinBudget(admitted[k], bucket[k], k \in doomed, clock + 1)
      <3> DEFINE chosen == k \in doomed
      <3>1. /\ chosen \in BOOLEAN /\ WithinBudget(admitted[k], bucket[k], chosen, clock)
            /\ bucket[k] \in Bucket \cup {NoBucket}
        BY DEF SignInInv, Limits
      <3> HIDE DEF chosen
      <3>2. WithinBudget(admitted[k], bucket[k], chosen, clock + 1)
        BY <1>1, <3>1, BudgetLater
      <3> QED BY <3>2 DEF chosen
    <2> QED BY <1>1, <2>1 DEF SignInInv, Limits
  <1> QED BY <1>2, <1>3, <1>4, <1>5 DEF SignInInv

(* One caller moves and nothing else changes.                              *)
LEMMA OnlyCaller ==
    ASSUME SignInInv, NEW c \in Callers, NEW r \in Caller, Waiting(r, clock),
           caller' = [caller EXCEPT ![c] = r],
           UNCHANGED <<clock, bucket, doomed, credential, admitted, failures>>
    PROVE  SignInInv'
  <1>1. Callings'
    BY CallerMoves DEF SignInInv
  <1>2. Lockout' /\ Limits' /\ clock' \in 0 .. MaxTime
    BY DEF SignInInv, Lockout, Limits
  <1> QED BY <1>1, <1>2 DEF SignInInv

\* A request reads the clock and waits for its bucket.
LEMMA ArriveStep ==
    ASSUME SignInInv, NEW c \in Callers, NEW k \in Addresses, Arrive(c, k)
    PROVE  SignInInv'
  <1> DEFINE r == [at |-> "counting", from |-> k, seen |-> clock]
  <1>1. r \in Caller /\ Waiting(r, clock)
    BY ClockNat, SignInNumbers DEF SignInInv, Caller, Waiting
  <1>2. caller' = [caller EXCEPT ![c] = r] /\ UNCHANGED <<clock, bucket, doomed, credential, admitted, failures>>
    BY DEF Arrive
  <1> HIDE DEF r
  <1> QED BY <1>1, <1>2, OnlyCaller

\* An admitted login reads the clock again and waits for the account.
LEMMA BeginLoginStep ==
    ASSUME SignInInv, NEW c \in Callers, BeginLogin(c)
    PROVE  SignInInv'
  <1> DEFINE r == [caller[c] EXCEPT !.at = "login", !.seen = clock]
  <1>1. caller[c] \in Caller /\ caller \in [Callers -> Caller]
    BY DEF SignInInv, Callings
  <1>2. r \in Caller /\ r.at = "login" /\ r.seen = clock
    BY <1>1 DEF SignInInv, Caller
  <1>3. caller' = [caller EXCEPT ![c] = r]
    BY <1>1 DEF BeginLogin, Caller
  <1>4. UNCHANGED <<clock, bucket, doomed, credential, admitted, failures>>
    BY DEF BeginLogin
  <1> HIDE DEF r
  <1>5. Waiting(r, clock)
    BY <1>2, ClockNat, SignInNumbers DEF Waiting
  <1> QED BY <1>2, <1>3, <1>4, <1>5, OnlyCaller

\* A signup makes an account that has no failures.
LEMMA SignupStep ==
    ASSUME SignInInv, NEW c \in Callers, Signup(c)
    PROVE  SignInInv'
  <1>1. /\ caller' = [caller EXCEPT ![c] = Idle] /\ UNCHANGED <<clock, bucket, doomed, admitted, failures>>
        /\ credential' = IF credential = NoAccount THEN NewCredential ELSE credential
    BY DEF Signup
  <1>2. Callings'
    BY <1>1, IdleIs, CallerMoves DEF SignInInv
  <1>3. Lockout'
    <2>1. CASE credential = NoAccount
      <3>1. Len(failures) = 0
        BY <2>1 DEF SignInInv, Lockout, LockedInTime
      <3>2. LockedInTime(NewCredential, failures)
        BY <3>1, NewCredentialIs, SignInNumbers DEF LockedInTime
      <3> QED BY <1>1, <2>1, <3>2, NewCredentialIs DEF SignInInv, Lockout
    <2>2. CASE credential # NoAccount
      BY <1>1, <2>2 DEF SignInInv, Lockout
    <2> QED BY <2>1, <2>2
  <1>4. Limits' /\ clock' \in 0 .. MaxTime
    BY <1>1 DEF SignInInv, Limits
  <1> QED BY <1>2, <1>3, <1>4 DEF SignInInv

\* login: a locked account, a right password, a wrong one that is counted or
\* locks, a window that starts again.
LEMMA LoginStep ==
    ASSUME SignInInv, NEW c \in Callers, NEW right \in BOOLEAN, Login(c, right)
    PROVE  SignInInv'
  <1> DEFINE t == caller[c].seen
  <1> DEFINE refused == credential = NoAccount \/ LockedOut(t)
  <1>1. /\ caller' = [caller EXCEPT ![c] = Idle] /\ UNCHANGED <<clock, bucket, doomed, admitted>>
        /\ caller[c].at = "login"
        /\ refused => credential' = credential /\ failures' = failures
        /\ ~refused /\ right => credential' = NewCredential /\ failures' = <<>>
        /\ ~refused /\ ~right => /\ credential' = WithFailure(t)
                                 /\ failures' = Remembered(failures, MaxFailedAttempts + 1)
    BY DEF Login
  <1>2. Callings'
    BY <1>1, IdleIs, CallerMoves DEF SignInInv
  <1>3. Limits' /\ clock' \in 0 .. MaxTime
    BY <1>1 DEF SignInInv, Limits
  <1>4. Waiting(caller[c], clock) /\ caller[c] \in Caller
    BY DEF SignInInv, Callings
  <1>5. t \in 0 .. MaxTime /\ t <= clock /\ clock <= t + MaxWait
    BY <1>1, <1>4 DEF Waiting, Caller
  <1> HIDE DEF t
  <1>6. Lockout'
    <2>1. CASE refused
      BY <1>1, <2>1 DEF SignInInv, Lockout
    <2>2. CASE ~refused /\ right
      <3>1. History(<<>>, MaxFailedAttempts + 1, clock)
        BY SignInNumbers DEF History
      <3>2. LockedInTime(NewCredential, <<>>)
        BY NewCredentialIs, SignInNumbers DEF LockedInTime
      <3> QED BY <1>1, <2>2, <3>1, <3>2, NewCredentialIs DEF Lockout
    <2>3. CASE ~refused /\ ~right
      <3> DEFINE g == Remembered(failures, MaxFailedAttempts + 1)
      <3> DEFINE cr == WithFailure(t)
      <3>1. credential' = cr /\ failures' = g /\ clock' = clock
        BY <1>1, <2>3
      <3>2. /\ credential \in Credential /\ ~LockedOut(t) /\ clock \in Nat
            /\ History(failures, MaxFailedAttempts + 1, clock)
            /\ LockedInTime(credential, failures)
        BY <2>3, ClockNat DEF SignInInv, Lockout
      <3>3. MaxFailedAttempts + 1 \in Nat /\ 0 < MaxFailedAttempts + 1
        BY SignInNumbers
      <3>4. History(g, MaxFailedAttempts + 1, clock)
        BY <3>2, <3>3, HistoryGrows
      <3>5. cr \in Credential /\ LockedInTime(cr, g)
        BY <1>5, <3>2, FailureCounts
      <3> HIDE DEF g, cr
      <3> QED BY <3>1, <3>4, <3>5 DEF Lockout
    <2> QED BY <2>1, <2>2, <2>3
  <1> QED BY <1>2, <1>3, <1>6 DEF SignInInv

(* One request is counted in its row.                                      *)
LEMMA RowCounts ==
    ASSUME clock \in Nat, NEW t \in 0 .. MaxTime, t <= clock, clock <= t + MaxWait,
           NEW r \in Bucket \cup {NoBucket}, NEW h, NEW chosen \in BOOLEAN,
           WithinBudget(h, r, chosen, clock),
           NEW b, b = Counted(r, t),
           NEW g, b.count <= MaxRequests => g = Remembered(h, 3 * MaxRequests),
           b.count > MaxRequests => g = h
    PROVE  b \in Bucket /\ WithinBudget(g, b, chosen, clock)
  <1>1. CASE r = NoBucket \/ r.expires <= t
    <2>1. b = [expires |-> t + WindowTicks, count |-> 1]
      BY <1>1 DEF Counted, Expired
    <2>2. b.count <= MaxRequests
      BY <2>1, SignInNumbers
    <2>3. g = Remembered(h, 3 * MaxRequests)
      BY <2>2
    <2> QED BY <1>1, <2>1, <2>3, WindowOpens
  <1>2. CASE ~(r = NoBucket \/ r.expires <= t)
    <2>1. b = [r EXCEPT !.count = LeastOf(@ + 1, MaxRequests + 1)] /\ r \in Bucket
      BY <1>2 DEF Counted, Expired
    <2> QED BY <2>1, WindowCounts
  <1> QED BY <1>1, <1>2

\* PostgresRateLimiter.check: a window that starts, counts on or refuses.
LEMMA CheckLimitStep ==
    ASSUME SignInInv, NEW c \in Callers, CheckLimit(c)
    PROVE  SignInInv'
  <1> DEFINE k == caller[c].from
  <1> DEFINE t == caller[c].seen
  <1> DEFINE row == Counted(bucket[k], t)
  <1> DEFINE rows == [bucket EXCEPT ![k] = row]
  <1> DEFINE next == IF row.count <= MaxRequests THEN [Idle EXCEPT !.at = "admitted"] ELSE Idle
  <1> DEFINE passed == IF row.count <= MaxRequests
                       THEN [admitted EXCEPT ![k] = Remembered(@, 3 * MaxRequests)]
                       ELSE admitted
  <1>1. /\ caller[c].at = "counting" /\ UNCHANGED <<clock, doomed, credential, failures>>
        /\ bucket' = rows
        /\ caller' = [caller EXCEPT ![c] = next]
        /\ admitted' = passed
    BY DEF CheckLimit
  <1>2. clock \in Nat /\ Waiting(caller[c], clock) /\ caller[c] \in Caller
    BY ClockNat DEF SignInInv, Callings
  <1>3. k \in Addresses /\ t \in 0 .. MaxTime /\ t <= clock /\ clock <= t + MaxWait
    BY <1>1, <1>2 DEF Waiting, Caller
  <1>4. /\ bucket \in [Addresses -> Bucket \cup {NoBucket}]
        /\ admitted = [a \in Addresses |-> admitted[a]]
        /\ \A a \in Addresses : WithinBudget(admitted[a], bucket[a], a \in doomed, clock)
    BY DEF SignInInv, Limits
  <1>5. Callings'
    <2>1. next \in Caller /\ Waiting(next, clock)
      <3> HIDE DEF row
      <3>1. [Idle EXCEPT !.at = "admitted"] \in Caller
            /\ Waiting([Idle EXCEPT !.at = "admitted"], clock)
        BY SignInNumbers DEF Idle, Caller, Waiting
      <3> QED BY <3>1, IdleIs
    <2> HIDE DEF next
    <2> QED BY <1>1, <2>1, CallerMoves DEF SignInInv
  <1>6. Lockout' /\ clock' \in 0 .. MaxTime
    BY <1>1 DEF SignInInv, Lockout
  <1> HIDE DEF k, t
  <1>7. passed = [a \in Addresses |-> passed[a]] /\ \A a \in Addresses : a # k => passed[a] = admitted[a]
    <2> HIDE DEF row
    <2> QED BY <1>3, <1>4
  <1>8. row \in Bucket /\ WithinBudget(passed[k], row, k \in doomed, clock)
    <2> DEFINE r == bucket[k]
    <2> DEFINE h == admitted[k]
    <2> DEFINE g == passed[k]
    <2>1. r \in Bucket \cup {NoBucket} /\ WithinBudget(h, r, k \in doomed, clock)
      BY <1>3, <1>4
    <2>2. row = Counted(r, t)
      OBVIOUS
    <2>3. row.count <= MaxRequests => g = Remembered(h, 3 * MaxRequests)
      <3> HIDE DEF row
      <3> QED BY <1>3, <1>4
    <2>4. row.count > MaxRequests => g = h
      <3>1. ASSUME row.count > MaxRequests PROVE ~(row.count <= MaxRequests)
        <4>1. row.count \in Nat
          <5>1. CASE r = NoBucket \/ r.expires <= t
            BY <5>1 DEF Counted, Expired
          <5>2. CASE ~(r = NoBucket \/ r.expires <= t)
            <6>1. row = [r EXCEPT !.count = LeastOf(@ + 1, MaxRequests + 1)] /\ r \in Bucket
              BY <2>1, <5>2 DEF Counted, Expired
            <6> HIDE DEF row, r
            <6> QED BY <6>1, SignInNumbers DEF Bucket, LeastOf
          <5> QED BY <5>1, <5>2
        <4> HIDE DEF row
        <4> QED BY <3>1, <4>1, SignInNumbers
      <3> HIDE DEF row
      <3> QED BY <3>1
    <2> HIDE DEF r, h, g, row
    <2>5. row \in Bucket /\ WithinBudget(g, row, k \in doomed, clock)
      <3> DEFINE chosen == k \in doomed
      <3>1. chosen \in BOOLEAN /\ WithinBudget(h, r, chosen, clock)
        BY <2>1
      <3> HIDE DEF chosen
      <3>2. row \in Bucket /\ WithinBudget(g, row, chosen, clock)
        BY <1>2, <1>3, <2>1, <2>2, <2>3, <2>4, <3>1, RowCounts
      <3> QED BY <3>2 DEF chosen
    <2> QED BY <2>5 DEF g
  <1> HIDE DEF row, passed
  <1>9. /\ rows \in [Addresses -> Bucket \cup {NoBucket}]
        /\ \A a \in Addresses : WithinBudget(passed[a], rows[a], a \in doomed, clock)
    BY <1>3, <1>4, <1>7, <1>8
  <1> HIDE DEF rows
  <1>10. Limits'
    BY <1>1, <1>7, <1>9 DEF SignInInv, Limits
  <1> QED BY <1>5, <1>6, <1>10 DEF SignInInv

\* The limits are all that a cleanup changes.
LEMMA OnlyLimits ==
    ASSUME SignInInv, UNCHANGED <<clock, credential, caller, admitted, failures>>, Limits'
    PROVE  SignInInv'
  BY DEF SignInInv, Callings, Lockout

\* A cleanup chooses windows that are over, deletes what is then in their rows,
\* or is undone.
LEMMA CleanupStep ==
    ASSUME SignInInv, CleanupSelect \/ CleanupDelete \/ CleanupFails
    PROVE  SignInInv'
  <1>0. UNCHANGED <<clock, credential, caller, admitted, failures>> /\ clock \in Nat
    BY ClockNat DEF CleanupSelect, CleanupDelete, CleanupFails
  <1>1. /\ bucket \in [Addresses -> Bucket \cup {NoBucket}] /\ doomed \subseteq Addresses
        /\ admitted = [a \in Addresses |-> admitted[a]]
        /\ \A a \in Addresses : WithinBudget(admitted[a], bucket[a], a \in doomed, clock)
    BY DEF SignInInv, Limits
  <1>s. ASSUME NEW a \in Addresses PROVE WithinBudget(admitted[a], bucket[a], FALSE, clock)
    <2> DEFINE chosen == a \in doomed
    <2>1. chosen \in BOOLEAN /\ WithinBudget(admitted[a], bucket[a], chosen, clock)
      BY <1>1
    <2> HIDE DEF chosen
    <2> QED BY <2>1, WindowSpared
  <1>2. CASE CleanupSelect
    <2>1. /\ doomed = {} /\ bucket' = bucket
          /\ doomed' \subseteq {a \in Addresses : bucket[a] # NoBucket /\ bucket[a].expires <= clock}
      BY <1>2 DEF CleanupSelect, Expired
    <2>2. ASSUME NEW a \in Addresses
          PROVE  WithinBudget(admitted[a], bucket[a], a \in doomed', clock)
      <3>1. WithinBudget(admitted[a], bucket[a], FALSE, clock)
        BY <1>s
      <3>2. CASE a \in doomed'
        <4>1. bucket[a] \in Bucket /\ bucket[a].expires <= clock
          BY <1>1, <2>1, <3>2
        <4>2. WithinBudget(admitted[a], bucket[a], TRUE, clock)
          BY <3>1, <4>1, WindowChosen
        <4>3. (a \in doomed') = TRUE
          BY <3>2
        <4> QED BY <4>2, <4>3
      <3>3. CASE a \notin doomed'
        <4>1. (a \in doomed') = FALSE
          BY <3>3
        <4> QED BY <3>1, <4>1
      <3> QED BY <3>2, <3>3
    <2>3. Limits'
      BY <1>0, <1>1, <2>1, <2>2 DEF Limits
    <2> QED BY <1>0, <2>3, OnlyLimits
  <1>3. CASE CleanupDelete
    <2>1. /\ bucket' = [a \in Addresses |-> IF a \in doomed THEN NoBucket ELSE bucket[a]]
          /\ doomed' = {}
      BY <1>3 DEF CleanupDelete
    <2>2. ASSUME NEW a \in Addresses
          PROVE  WithinBudget(admitted[a], bucket'[a], FALSE, clock)
      <3>1. CASE a \in doomed
        <4>1. WithinBudget(admitted[a], bucket[a], TRUE, clock)
          <5>1. (a \in doomed) = TRUE
            BY <3>1
          <5> QED BY <1>1, <5>1
        <4>2. bucket'[a] = NoBucket
          BY <2>1, <3>1
        <4> QED BY <1>0, <1>1, <4>1, <4>2, WindowDeleted
      <3>2. CASE a \notin doomed
        BY <1>s, <2>1, <3>2
      <3> QED BY <3>1, <3>2
    <2>3. ASSUME NEW a \in Addresses
          PROVE  WithinBudget(admitted[a], bucket'[a], a \in doomed', clock)
      <3>1. (a \in doomed') = FALSE
        BY <2>1
      <3> QED BY <2>2, <3>1
    <2>4. Limits'
      BY <1>0, <1>1, <2>1, <2>3 DEF Limits
    <2> QED BY <1>0, <2>4, OnlyLimits
  <1>4. CASE CleanupFails
    <2>1. bucket' = bucket /\ doomed' = {}
      BY <1>4 DEF CleanupFails
    <2>2. ASSUME NEW a \in Addresses
          PROVE  WithinBudget(admitted[a], bucket[a], a \in doomed', clock)
      <3>1. (a \in doomed') = FALSE
        BY <2>1
      <3> QED BY <1>s, <3>1
    <2>3. Limits'
      BY <1>0, <1>1, <2>1, <2>2 DEF Limits
    <2> QED BY <1>0, <2>3, OnlyLimits
  <1> QED BY <1>2, <1>3, <1>4

\* A request that is rolled back leaves every row as it was.
LEMMA RollBackStep ==
    ASSUME SignInInv, NEW c \in Callers, RollBack(c)
    PROVE  SignInInv'
  BY IdleIs, OnlyCaller DEF RollBack

\* Every step of the sign-in, and of the other parts, keeps SignInInv.
LEMMA SignInStep ==
    ASSUME SignInInv, SignInNext \/ UNCHANGED signInVars
    PROVE  SignInInv'
  <1>1. ASSUME UNCHANGED signInVars PROVE SignInInv'
    BY <1>1 DEF signInVars, SignInInv, Callings, Lockout, Limits
  <1>2. ASSUME SignInNext PROVE SignInInv'
    BY <1>2, TickStep, ArriveStep, CheckLimitStep, CleanupStep, SignupStep, BeginLoginStep, LoginStep,
       RollBackStep DEF SignInNext
  <1> QED BY <1>1, <1>2

\* Initially nobody has called.
LEMMA SignInStart ==
    ASSUME Init
    PROVE  SignInInv
  <1>1. SignInInit
    BY DEF Init
  <1>2. clock \in 0 .. MaxTime /\ clock = 0
    BY <1>1, SignInNumbers DEF SignInInit
  <1>3. Callings
    BY <1>1, IdleIs DEF SignInInit, Callings
  <1>4. ASSUME NEW n \in Nat PROVE History(<<>>, n, 0)
    BY DEF History
  <1>5. Lockout
    <2>1. LockedInTime(NoAccount, <<>>)
      BY DEF LockedInTime
    <2>2. MaxFailedAttempts + 1 \in Nat
      BY SignInNumbers
    <2> QED BY <1>1, <1>2, <1>4, <2>1, <2>2 DEF SignInInit, Lockout
  <1>6. Limits
    <2>1. 3 * MaxRequests \in Nat
      BY SignInNumbers
    <2>2. WithinBudget(<<>>, NoBucket, FALSE, 0)
      BY <1>4, <2>1 DEF WithinBudget
    <2>3. \A k \in Addresses : (k \in doomed) = FALSE
      BY <1>1 DEF SignInInit
    <2> QED BY <1>1, <1>2, <2>2, <2>3 DEF SignInInit, Limits
  <1> QED BY <1>2, <1>3, <1>5, <1>6 DEF SignInInv

(* Signing in: waits are bounded, the counters have kept count or the      *)
(* times are far apart (PostgresRateLimiter.check, login).                 *)
THEOREM SignInInvariant == Spec => []SignInInv
  <1>1. Init => SignInInv
    BY SignInStart
  <1>2. SignInInv /\ [Next]_vars => SignInInv'
    BY SignInStep DEF Next, vars
  <1> QED BY <1>1, <1>2, PTL DEF Spec

(* For any number of callers and replicas, whatever order their requests   *)
(* get the credential's row in and however stale the time they write, more *)
(* than MaxFailedAttempts wrong passwords between two successes take as    *)
(* long as a lockout, but for the wait of one request (login).             *)
THEOREM GuessesAreBudgeted == Spec => []GuessBudget
  <1>1. SignInInv => GuessBudget
    <2>1. SUFFICES ASSUME SignInInv, Len(failures) = MaxFailedAttempts + 1
                   PROVE  failures[MaxFailedAttempts + 1] + MaxWait >= failures[1] + LockoutTicks
      BY DEF GuessBudget
    <2>2. Lockout
      BY <2>1 DEF SignInInv
    <2>3. credential # NoAccount /\ credential \in Credential
      BY <2>1, <2>2, SignInNumbers DEF Lockout, LockedInTime
    <2>4. credential.failed \in Nat /\ credential.failed <= MaxFailedAttempts
      BY <2>3, CredentialParts, SignInNumbers
    <2>5. MaxFailedAttempts \in 0 .. Len(failures) - 1
      BY <2>1, SignInNumbers
    <2>6. \/ Back(failures, 0) + MaxWait >= Back(failures, MaxFailedAttempts) + LockoutTicks
          \/ credential.failed >= MaxFailedAttempts + 1
      BY <2>2, <2>3, <2>5 DEF Lockout, LockedInTime
    <2>7. /\ Len(failures) - 0 = MaxFailedAttempts + 1
          /\ Len(failures) - MaxFailedAttempts = 1
      BY <2>1, SignInNumbers
    <2> QED BY <2>4, <2>6, <2>7, SignInNumbers DEF Back
  <1> QED BY <1>1, SignInInvariant, PTL

(* For any number of replicas, addresses and waiting requests, of those    *)
(* one address gets through any 3 * MaxRequests in a row take as long as a *)
(* window, but for the wait of one request, although a cleanup may delete  *)
(* a window that began after it chose the row (PostgresRateLimiter).       *)
THEOREM RequestsAreBudgeted == Spec => []RequestBudget
  <1>1. SignInInv => RequestBudget
    <2>1. SUFFICES ASSUME SignInInv, NEW k \in Addresses,
                          Len(admitted[k]) = 3 * MaxRequests
                   PROVE  admitted[k][3 * MaxRequests] + MaxWait
                            >= admitted[k][1] + WindowTicks
      BY DEF RequestBudget
    <2> DEFINE h == admitted[k]
    <2>2. WithinBudget(h, bucket[k], k \in doomed, clock)
      BY <2>1 DEF SignInInv, Limits
    <2>3. 3 * MaxRequests - 1 \in 0 .. Len(h) - 1 /\ ~(3 * MaxRequests - 1 < 3 * MaxRequests - 1)
      BY <2>1, SignInNumbers
    <2>4. Apart(h, 3 * MaxRequests - 1)
      BY <2>2, <2>3 DEF WithinBudget
    <2>5. Len(h) - 0 = 3 * MaxRequests /\ Len(h) - (3 * MaxRequests - 1) = 1
      BY <2>1, SignInNumbers
    <2> QED BY <2>4, <2>5 DEF Apart, Back
  <1> QED BY <1>1, SignInInvariant, PTL

\* A behaviour stays about the part it is about.
LEMMA PartStep ==
    ASSUME part \in {"voice", "tenant", "signin"}, [Next]_vars
    PROVE  part' \in {"voice", "tenant", "signin"}
  BY DEF Next, vars

(* Every variable of the ledger, the spenders, billing and signing in      *)
(* keeps its type: the sums stay natural numbers, counters stay within     *)
(* their limits (app/orchestration/controller.py, app/services/billing.py, *)
(* app/core/rate_limit.py).                                                *)
THEOREM MeteringTyped == Spec => []TypeOK
  <1> DEFINE PartOK == part \in {"voice", "tenant", "signin"}
  <1>1. Init => PartOK
    BY DEF Init
  <1>2. PartOK /\ [Next]_vars => PartOK'
    BY PartStep
  <1>3. PartOK /\ SpendInv /\ BillingInv /\ SignInInv => TypeOK
    BY DEF SpendInv, LedgerInv, BillingInv, SignInInv, Callings, Lockout, Limits, TypeOK,
       SignInTypeOK
  <1> QED BY <1>1, <1>2, <1>3, SpendInvariant, BillingInvariant, SignInInvariant, PTL DEF Spec
==============================================================================
