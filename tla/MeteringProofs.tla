---------------------------- MODULE MeteringProofs ---------------------------
(***************************************************************************)
(* Proofs about Metering, for every number of spenders, every estimate and *)
(* cap, every number of days and every set of Stripe events: what is       *)
(* reserved is under way, what is granted fits under the cap, and the      *)
(* newest events decide the entitlement.                                   *)
(***************************************************************************)
EXTENDS Metering, SumTheorems

(***************************************************************************)
(* The ledger                                                              *)
(***************************************************************************)
(* A sum that no commit fell into has counted at least what is there: it   *)
(* may only be too large by the time the check decides.                    *)
CountedEnough(c, k, o, t, m) ==
  c # NoCheck =>
    /\ k # NoCap
    /\ c.counted = 1 /\ ~c.dayRaced => t <= c.daily
    /\ c.counted = 2 /\ ~c.dayRaced => t + Total(o, Spenders \ {c.who}) <= c.daily
    /\ c.counted = 2 /\ ~c.monthRaced => m <= c.monthly

CheckIsSafe == CountedEnough(check, cap, open, today, month)

LedgerInv == LedgerTypeOK /\ CheckIsSafe

(* What SpendFitsTheCap says of one step.                                  *)
FitsTheCap ==
  (Used' > Used \/ UsedInMonth' > UsedInMonth)
    => /\ check # NoCheck /\ check' = NoCheck
       /\ ~check.dayRaced => Used' <= cap.daily
       /\ ~check.monthRaced => UsedInMonth' <= cap.monthly

LedgerStep == LedgerInv' /\ FitsTheCap

\* What a check counts as reserved by the others is a total.
LEMMA OthersIs ==
    ASSUME NEW s
    PROVE  OpenOfOthers(s) = Total(open, Spenders \ {s})
  BY DEF OpenOfOthers, MapThenSumSet, MapThenFoldSet, Total, Sums, Pick

\* What is used of a day and of a month, as totals.
LEMMA UsedIs ==
    /\ Used = today + Total(open, Spenders)
    /\ UsedInMonth = month + Total(open, Spenders)
  BY DEF Used, UsedInMonth, MapThenSumSet, MapThenFoldSet, Total, Sums, Pick

\* The same after a step.
LEMMA UsedNextIs ==
    /\ Used' = today' + Total(open', Spenders)
    /\ UsedInMonth' = month' + Total(open', Spenders)
  BY DEF Used, UsedInMonth, MapThenSumSet, MapThenFoldSet, Total, Sums, Pick

\* Reservations are amounts, and any part of them adds up to an amount.
LEMMA OpenNat ==
    ASSUME LedgerTypeOK
    PROVE  /\ open \in [Spenders -> Nat]
           /\ \A T : T \subseteq Spenders => Total(open, T) \in Nat
  <1>1. open \in [Spenders -> Nat]
    <2>1. open \in [Spenders -> Estimates \cup {0}]
      BY DEF LedgerTypeOK
    <2>2. Estimates \cup {0} \subseteq Nat
      BY LedgerAssumption
    <2> QED BY <2>1, <2>2
  <1>2. ASSUME NEW T, T \subseteq Spenders PROVE Total(open, T) \in Nat
    <2>1. IsFiniteSet(T) /\ \A x \in T : open[x] \in Nat
      BY <1>1, <1>2, LedgerAssumption, FS_Subset
    <2> QED BY <2>1, TotalType
  <1> QED BY <1>1, <1>2

(* What one changed reservation does to the sums.                          *)
LEMMA OpenChanged ==
    ASSUME LedgerTypeOK, NEW s \in Spenders, NEW v \in Nat, open'[s] = v,
           \A x \in Spenders : x # s => open'[x] = open[x],
           NEW T, T \subseteq Spenders
    PROVE  /\ Total(open, T) \in Nat /\ Total(open', T) \in Nat
           /\ Total(open, T \ {s}) \in Nat
           /\ s \notin T => Total(open', T) = Total(open, T)
           /\ s \in T => /\ Total(open, T) = open[s] + Total(open, T \ {s})
                         /\ Total(open', T) = v + Total(open, T \ {s})
  <1>1. /\ open \in [Spenders -> Nat] /\ open'[s] = v
        /\ \A x \in Spenders : open'[x] \in Nat /\ (x # s => open'[x] = open[x])
    BY OpenNat
  <1>2. IsFiniteSet(T) /\ IsFiniteSet(T \ {s})
    BY LedgerAssumption, FS_Subset, FS_RemoveElement
  <1>3. /\ \A x \in T : open[x] \in Nat /\ open'[x] \in Nat
        /\ \A x \in T \ {s} : open[x] \in Nat /\ open'[x] = open[x]
    BY <1>1
  <1>4. Total(open, T) \in Nat /\ Total(open', T) \in Nat /\ Total(open, T \ {s}) \in Nat
    BY <1>2, <1>3, TotalType
  <1>5. Total(open', T \ {s}) = Total(open, T \ {s})
    BY <1>2, <1>3, TotalEqual
  <1>6. ASSUME s \notin T PROVE Total(open', T) = Total(open, T)
    <2>1. T \ {s} = T
      BY <1>6
    <2> QED BY <1>5, <2>1
  <1>7. ASSUME s \in T
        PROVE  /\ Total(open, T) = open[s] + Total(open, T \ {s})
               /\ Total(open', T) = v + Total(open, T \ {s})
    <2>1. Total(open, T) = open[s] + Total(open, T \ {s})
      BY <1>2, <1>3, <1>7, TotalWithout
    <2>2. Total(open', T) = open'[s] + Total(open', T \ {s})
      BY <1>2, <1>3, <1>7, TotalWithout
    <2> QED BY <1>1, <1>5, <2>1, <2>2
  <1> QED BY <1>4, <1>6, <1>7

(* Nothing grows when a reservation is given back, or the sums start again.*)
LEMMA NoGrowth ==
    ASSUME LedgerTypeOK, today' \in Nat, month' \in Nat,
           Total(open', Spenders) \in Nat,
           today' + Total(open', Spenders) <= today + Total(open, Spenders),
           month' + Total(open', Spenders) <= month + Total(open, Spenders)
    PROVE  FitsTheCap
  <1>1. Total(open, Spenders) \in Nat /\ today \in Nat /\ month \in Nat
    BY OpenNat DEF LedgerTypeOK
  <1> QED BY <1>1, UsedIs, UsedNextIs DEF FitsTheCap

\* A step that leaves the ledger alone keeps its invariant.
LEMMA StepUnchanged ==
    ASSUME LedgerInv, UNCHANGED ledgerVars
    PROVE  LedgerStep
  <1>1. LedgerTypeOK' /\ CheckIsSafe'
    BY DEF LedgerInv, ledgerVars, LedgerTypeOK, CheckIsSafe
  <1>2. FitsTheCap
    <2>1. LedgerTypeOK /\ Total(open, Spenders) \in Nat /\ today \in Nat /\ month \in Nat
      BY OpenNat DEF LedgerInv, LedgerTypeOK
    <2> QED BY <2>1, NoGrowth DEF ledgerVars
  <1> QED BY <1>1, <1>2 DEF LedgerStep, LedgerInv

\* Taking the lock of the cap starts a check that has counted nothing.
LEMMA StepLockCap ==
    ASSUME LedgerInv, NEW s \in Spenders, NEW e \in Estimates, LockCap(s, e)
    PROVE  LedgerStep
  <1>1. /\ UNCHANGED <<cap, open, today, month, days>> /\ cap # NoCap
        /\ check' = [who |-> s, est |-> e, counted |-> 1, daily |-> today, monthly |-> 0,
                     dayRaced |-> FALSE, monthRaced |-> FALSE]
    BY DEF LockCap
  <1>2. LedgerTypeOK
    BY DEF LedgerInv
  <1>3. check' \in Check
    BY <1>1, <1>2 DEF Check, LedgerTypeOK
  <1>4. LedgerTypeOK'
    BY <1>1, <1>2, <1>3 DEF LedgerTypeOK
  <1>5. CheckIsSafe'
    BY <1>1, <1>2 DEF CheckIsSafe, CountedEnough, LedgerTypeOK
  <1>6. FitsTheCap
    BY <1>1, <1>2, OpenNat, NoGrowth DEF LedgerTypeOK
  <1> QED BY <1>4, <1>5, <1>6 DEF LedgerStep, LedgerInv

\* The first sum of a check: what it counts is there when it counts it, and
\* nobody else can reserve before the check ends.
LEMMA StepCountDay ==
    ASSUME LedgerInv, NEW s \in Spenders, CountDay(s)
    PROVE  LedgerStep
  <1> DEFINE others == Total(open, Spenders \ {s})
  <1>1. /\ UNCHANGED <<cap, open, today, month, days>>
        /\ check # NoCheck /\ check.who = s /\ check.counted = 1
        /\ check' = [check EXCEPT !.counted = 2, !.daily = @ + others, !.monthly = month]
    BY OthersIs DEF CountDay
  <1>2. LedgerTypeOK
    BY DEF LedgerInv
  <1>3. others \in Nat
    BY <1>2, OpenNat
  <1> HIDE DEF others
  <1>4. check \in Check /\ month \in Nat /\ today \in Nat
    BY <1>1, <1>2 DEF LedgerTypeOK
  <1>5. /\ check' \in Check /\ check'.who = s /\ check'.counted = 2
        /\ check'.dayRaced = check.dayRaced /\ check'.monthRaced = check.monthRaced
        /\ check'.daily = check.daily + others /\ check'.monthly = month
    <2>1. check' = [who |-> check.who, est |-> check.est, counted |-> 2,
                    daily |-> check.daily + others, monthly |-> month,
                    dayRaced |-> check.dayRaced, monthRaced |-> check.monthRaced]
      BY <1>1, <1>4 DEF Check
    <2>2. /\ check.who \in Spenders /\ check.est \in Estimates /\ check.dayRaced \in BOOLEAN
          /\ check.monthRaced \in BOOLEAN
          /\ check.daily + others \in Nat
      BY <1>3, <1>4 DEF Check
    <2>3. 2 \in 1 .. 2
      OBVIOUS
    <2> QED BY <1>1, <1>4, <2>1, <2>2, <2>3 DEF Check
  <1>6. LedgerTypeOK'
    BY <1>1, <1>2, <1>5 DEF LedgerTypeOK
  <1>7. CheckIsSafe'
    <2>1. cap # NoCap /\ (~check.dayRaced => today <= check.daily)
      BY <1>1 DEF LedgerInv, CheckIsSafe, CountedEnough
    <2>2. check.daily \in Nat
      BY <1>4 DEF Check
    <2>3. ~check.dayRaced => today + others <= check.daily + others
      BY <1>3, <1>4, <2>1, <2>2
    <2> QED BY <1>1, <1>4, <1>5, <2>1, <2>3 DEF CheckIsSafe, CountedEnough, others
  <1>8. FitsTheCap
    BY <1>1, <1>2, OpenNat, NoGrowth DEF LedgerTypeOK
  <1> QED BY <1>6, <1>7, <1>8 DEF LedgerStep, LedgerInv

\* A check that fits ends in a reservation, which fits under each cap into
\* whose sum no commit fell.
LEMMA StepGranted ==
    ASSUME LedgerInv, NEW s \in Spenders, Deciding(s), Fits(s), Reserved(s)
    PROVE  LedgerStep
  <1> DEFINE others == Total(open, Spenders \ {s})
  <1>1. LedgerTypeOK /\ check \in Check /\ check # NoCheck /\ check.who = s /\ check.counted = 2
    BY DEF LedgerInv, LedgerTypeOK, Deciding
  <1>2. /\ UNCHANGED <<cap, today, month, days>> /\ check' = NoCheck
        /\ open' = [open EXCEPT ![s] = check.est]
    BY DEF Reserved
  <1>3. /\ open \in [Spenders -> Nat] /\ today \in Nat /\ month \in Nat
        /\ check.est \in Estimates /\ check.est \in Nat /\ check.daily \in Nat /\ check.monthly \in Nat
    BY <1>1, OpenNat, LedgerAssumption DEF LedgerTypeOK, Check
  <1>4. open'[s] = check.est /\ \A x \in Spenders : x # s => open'[x] = open[x]
    BY <1>2, <1>3
  <1>5. LedgerTypeOK'
    <2>1. open \in [Spenders -> Estimates \cup {0}]
      BY <1>1 DEF LedgerTypeOK
    <2>2. open' \in [Spenders -> Estimates \cup {0}]
      BY <1>2, <1>3, <2>1
    <2> QED BY <1>1, <1>2, <2>2 DEF LedgerTypeOK
  <1>6. CheckIsSafe'
    BY <1>2 DEF CheckIsSafe, CountedEnough
  <1>7. others \in Nat /\ Total(open', Spenders) = check.est + others
    BY <1>1, <1>3, <1>4, OpenChanged
  <1>8. /\ check.daily + check.est <= cap.daily
        /\ check.monthly + others + check.est <= cap.monthly
    BY OthersIs DEF Fits
  <1>9. /\ cap # NoCap
        /\ ~check.dayRaced => today + others <= check.daily
        /\ ~check.monthRaced => month <= check.monthly
    BY <1>1 DEF LedgerInv, CheckIsSafe, CountedEnough
  <1>10. cap.daily \in Nat /\ cap.monthly \in Nat
    BY <1>1, <1>9, LedgerAssumption DEF LedgerTypeOK
  <1> HIDE DEF others
  <1>11. FitsTheCap
    <2>1. /\ ~check.dayRaced => today + (check.est + others) <= cap.daily
          /\ ~check.monthRaced => month + (check.est + others) <= cap.monthly
      BY <1>3, <1>7, <1>8, <1>9, <1>10
    <2> QED BY <1>1, <1>2, <1>7, <2>1, UsedNextIs DEF FitsTheCap
  <1> QED BY <1>5, <1>6, <1>11 DEF LedgerStep, LedgerInv

(* A reservation is given back, and a check may end.                       *)
LEMMA StepGivenBack ==
    ASSUME LedgerInv, NEW s \in Spenders, open' = [open EXCEPT ![s] = 0],
           UNCHANGED <<cap, today, month, days>>, check' = check \/ check' = NoCheck
    PROVE  LedgerStep
  <1>1. LedgerTypeOK /\ open \in [Spenders -> Nat] /\ today \in Nat /\ month \in Nat
    BY OpenNat DEF LedgerInv, LedgerTypeOK
  <1>2. open'[s] = 0 /\ \A x \in Spenders : x # s => open'[x] = open[x]
    BY <1>1
  <1>3. LedgerTypeOK'
    <2>1. open \in [Spenders -> Estimates \cup {0}]
      BY <1>1 DEF LedgerTypeOK
    <2>2. open' \in [Spenders -> Estimates \cup {0}]
      BY <2>1
    <2> QED BY <1>1, <2>2 DEF LedgerTypeOK
  <1>4. ASSUME NEW T, T \subseteq Spenders
        PROVE  Total(open', T) \in Nat /\ Total(open, T) \in Nat /\ Total(open', T) <= Total(open, T)
    <2>1. /\ Total(open, T) \in Nat /\ Total(open', T) \in Nat
          /\ Total(open, T \ {s}) \in Nat
          /\ s \notin T => Total(open', T) = Total(open, T)
          /\ s \in T => /\ Total(open, T) = open[s] + Total(open, T \ {s})
                        /\ Total(open', T) = 0 + Total(open, T \ {s})
      BY <1>1, <1>2, <1>4, OpenChanged
    <2>2. open[s] \in Nat
      BY <1>1
    <2> QED BY <2>1, <2>2
  <1>5. CheckIsSafe'
    <2>1. CASE check' = NoCheck
      BY <2>1 DEF CheckIsSafe, CountedEnough
    <2>2. CASE check' = check /\ check # NoCheck
      <3>1. check \in Check
        BY <1>1, <2>2 DEF LedgerTypeOK
      <3>2. check.daily \in Nat
        BY <3>1 DEF Check
      <3> DEFINE mine == Total(open, Spenders \ {check.who})
      <3> DEFINE next == Total(open', Spenders \ {check.who})
      <3>3. mine \in Nat /\ next \in Nat /\ next <= mine
        BY <1>4
      <3>4. CountedEnough(check, cap, open, today, month)
        BY DEF LedgerInv, CheckIsSafe
      <3>5. today + mine <= check.daily => today + next <= check.daily
        <4> HIDE DEF mine, next
        <4> QED BY <1>1, <3>2, <3>3
      <3>6. CountedEnough(check, cap, open', today, month)
        BY <3>4, <3>5 DEF CountedEnough
      <3> QED BY <2>2, <3>6 DEF CheckIsSafe
    <2> QED BY <2>1, <2>2
  <1>6. FitsTheCap
    <2> DEFINE mine == Total(open, Spenders)
    <2> DEFINE next == Total(open', Spenders)
    <2>1. mine \in Nat /\ next \in Nat /\ next <= mine
      BY <1>4
    <2>2. today + next <= today + mine /\ month + next <= month + mine
      <3> HIDE DEF mine, next
      <3> QED BY <1>1, <2>1
    <2> QED BY <1>1, <2>1, <2>2, NoGrowth
  <1> QED BY <1>3, <1>5, <1>6 DEF LedgerStep, LedgerInv

(* A check stays its owner's while it counts and while others commit.      *)
LEMMA OwnerStays ==
    ASSUME LedgerTypeOK, check # NoCheck,
           check' = Raced(check) \/ \E s \in Spenders : CountDay(s)
    PROVE  check'.who = check.who
  <1>1. check \in Check
    BY DEF LedgerTypeOK
  <1>2. CASE check' = Raced(check)
    BY <1>1, <1>2 DEF Check, Raced
  <1>3. CASE \E s \in Spenders : CountDay(s)
    BY <1>1, <1>3 DEF Check, CountDay
  <1> QED BY <1>2, <1>3

(* What is booked is no more than what was reserved, so it may be missing  *)
(* only from the sum that a check of another is at.                        *)
LEMMA StepCommit ==
    ASSUME LedgerInv, NEW s \in Spenders, NEW actual \in Reports, CommitSpend(s, actual),
           check # NoCheck => check.who # s
    PROVE  LedgerStep /\ (check' # NoCheck => check # NoCheck /\ check'.who = check.who)
  <1> DEFINE booked == Clamped(s, actual)
  <1>1. LedgerTypeOK /\ open \in [Spenders -> Nat] /\ today \in Nat /\ month \in Nat
    BY OpenNat DEF LedgerInv, LedgerTypeOK
  <1>2. booked \in Nat /\ booked <= open[s] /\ open[s] \in Nat
    BY <1>1, VoiceAssumption DEF Clamped
  <1>3. /\ today' = today + booked /\ month' = month + booked /\ UNCHANGED <<cap, days>>
        /\ open' = [open EXCEPT ![s] = 0]
        /\ check' = IF check = NoCheck THEN NoCheck ELSE Raced(check)
    BY DEF CommitSpend
  <1> HIDE DEF booked
  <1>4. open'[s] = 0 /\ \A x \in Spenders : x # s => open'[x] = open[x]
    BY <1>1, <1>3
  <1>5. check' \in Check \cup {NoCheck} /\ (check' # NoCheck => check # NoCheck)
    <2>1. CASE check = NoCheck
      BY <1>3, <2>1
    <2>2. CASE check # NoCheck
      <3>1. check \in Check /\ check' = Raced(check)
        BY <1>1, <1>3, <2>2 DEF LedgerTypeOK
      <3> QED BY <2>2, <3>1 DEF Check, Raced
    <2> QED BY <2>1, <2>2
  <1>9. ASSUME check # NoCheck
        PROVE  /\ check \in Check /\ check'.who = check.who /\ check'.counted = check.counted
               /\ check'.daily = check.daily /\ check'.monthly = check.monthly
               /\ check'.dayRaced = (check.dayRaced \/ check.counted = 1)
               /\ check'.monthRaced = (check.monthRaced \/ check.counted = 2)
    <2>1. check \in Check /\ check' = Raced(check)
      BY <1>1, <1>3, <1>9 DEF LedgerTypeOK
    <2> QED BY <2>1 DEF Check, Raced
  <1>6. LedgerTypeOK'
    <2>1. open \in [Spenders -> Estimates \cup {0}]
      BY <1>1 DEF LedgerTypeOK
    <2>2. open' \in [Spenders -> Estimates \cup {0}]
      BY <1>3, <2>1
    <2>3. today' \in Nat /\ month' \in Nat
      BY <1>1, <1>2, <1>3
    <2> QED BY <1>1, <1>3, <1>5, <2>2, <2>3 DEF LedgerTypeOK
  <1>7. CheckIsSafe'
    <2>1. CASE check = NoCheck
      BY <1>3, <2>1 DEF CheckIsSafe, CountedEnough
    <2>2. CASE check # NoCheck
      <3> DEFINE T == Spenders \ {check.who}
      <3> DEFINE rest == Total(open, T \ {s})
      <3>1. s \in T /\ T \subseteq Spenders
        BY <2>2
      <3>2. /\ rest \in Nat /\ Total(open, T) = open[s] + rest
            /\ Total(open', T) = 0 + rest
        BY <1>1, <1>4, <3>1, OpenChanged
      <3>3. /\ cap # NoCap
            /\ check.counted = 2 /\ ~check.dayRaced => today + Total(open, T) <= check.daily
        BY <2>2 DEF LedgerInv, CheckIsSafe, CountedEnough
      <3>4. check.daily \in Nat
        BY <1>9, <2>2 DEF Check
      <3> HIDE DEF rest
      <3>5. ASSUME check.counted = 2, ~check.dayRaced
            PROVE  today' + Total(open', T) <= check.daily
        <4>1. today + (open[s] + rest) <= check.daily
          BY <3>2, <3>3, <3>5
        <4>2. (today + booked) + (0 + rest) <= check.daily
          BY <1>1, <1>2, <3>2, <3>4, <4>1
        <4> QED BY <1>3, <3>2, <4>2
      <3>6. ~check'.dayRaced => check.counted # 1 /\ ~check.dayRaced
        BY <1>9, <2>2
      <3>7. ~check'.monthRaced => check.counted # 2
        BY <1>9, <2>2
      <3> QED BY <1>3, <1>9, <2>2, <3>3, <3>5, <3>6, <3>7 DEF CheckIsSafe, CountedEnough
    <2> QED BY <2>1, <2>2
  <1>8. FitsTheCap
    <2> DEFINE rest == Total(open, Spenders \ {s})
    <2>1. /\ rest \in Nat /\ Total(open, Spenders) = open[s] + rest
          /\ Total(open', Spenders) = 0 + rest
      BY <1>1, <1>4, OpenChanged
    <2> HIDE DEF rest
    <2>2. /\ Total(open', Spenders) \in Nat /\ today' \in Nat /\ month' \in Nat
          /\ today' + Total(open', Spenders) <= today + Total(open, Spenders)
          /\ month' + Total(open', Spenders) <= month + Total(open, Spenders)
      BY <1>1, <1>2, <1>3, <2>1
    <2> QED BY <1>1, <2>2, NoGrowth
  <1> QED BY <1>5, <1>6, <1>7, <1>8, <1>9 DEF LedgerStep, LedgerInv

(* The desk reserves and books in one transaction.                         *)
LEMMA StepBooked ==
    ASSUME LedgerInv, NEW s \in Spenders, Deciding(s), Fits(s), open[s] = 0,
           today' = today + check.est, month' = month + check.est, check' = NoCheck,
           UNCHANGED <<cap, open, days>>
    PROVE  LedgerStep
  <1> DEFINE others == Total(open, Spenders \ {s})
  <1>1. LedgerTypeOK /\ check \in Check /\ check # NoCheck /\ check.who = s /\ check.counted = 2
    BY DEF LedgerInv, LedgerTypeOK, Deciding
  <1>2. /\ open \in [Spenders -> Nat] /\ today \in Nat /\ month \in Nat
        /\ check.est \in Estimates /\ check.est \in Nat /\ check.daily \in Nat /\ check.monthly \in Nat
    BY <1>1, OpenNat, LedgerAssumption DEF LedgerTypeOK, Check
  <1>3. LedgerTypeOK'
    <2>1. today' \in Nat /\ month' \in Nat
      BY <1>2
    <2> QED BY <1>1, <2>1 DEF LedgerTypeOK
  <1>4. CheckIsSafe'
    BY DEF CheckIsSafe, CountedEnough
  <1>5. others \in Nat /\ Total(open', Spenders) = 0 + others
    <2>1. open'[s] = 0 /\ \A x \in Spenders : x # s => open'[x] = open[x]
      OBVIOUS
    <2> QED BY <1>1, <2>1, OpenChanged
  <1>6. /\ check.daily + check.est <= cap.daily
        /\ check.monthly + others + check.est <= cap.monthly
    BY OthersIs DEF Fits
  <1>7. /\ cap # NoCap
        /\ ~check.dayRaced => today + others <= check.daily
        /\ ~check.monthRaced => month <= check.monthly
    BY <1>1 DEF LedgerInv, CheckIsSafe, CountedEnough
  <1>8. cap.daily \in Nat /\ cap.monthly \in Nat
    BY <1>1, <1>7, LedgerAssumption DEF LedgerTypeOK
  <1> HIDE DEF others
  <1>9. FitsTheCap
    <2>1. /\ ~check.dayRaced => (today + check.est) + (0 + others) <= cap.daily
          /\ ~check.monthRaced => (month + check.est) + (0 + others) <= cap.monthly
      BY <1>2, <1>5, <1>6, <1>7, <1>8
    <2>2. /\ Used' = (today + check.est) + (0 + others)
          /\ UsedInMonth' = (month + check.est) + (0 + others)
      BY <1>5, UsedNextIs
    <2> QED BY <1>1, <2>1, <2>2 DEF FitsTheCap
  <1> QED BY <1>3, <1>4, <1>9 DEF LedgerStep, LedgerInv

(* A check ends with its process.                                          *)
LEMMA StepDropped ==
    ASSUME LedgerInv, UNCHANGED <<cap, open, today, month, days>>,
           check' = check \/ check' = NoCheck
    PROVE  LedgerStep
  <1>1. LedgerTypeOK /\ Total(open, Spenders) \in Nat /\ today \in Nat /\ month \in Nat
    BY OpenNat DEF LedgerInv, LedgerTypeOK
  <1>2. LedgerTypeOK'
    BY <1>1 DEF LedgerTypeOK
  <1>3. CheckIsSafe'
    BY DEF LedgerInv, CheckIsSafe, CountedEnough
  <1>4. FitsTheCap
    BY <1>1, NoGrowth
  <1> QED BY <1>2, <1>3, <1>4 DEF LedgerStep, LedgerInv

(* A cap is set while no check is under way, or where there was none.      *)
LEMMA StepCapSet ==
    ASSUME LedgerInv, UNCHANGED <<open, today, month, check, days>>,
           cap' \in CapValues \cup {DefaultCap}, check = NoCheck
    PROVE  LedgerStep
  <1>1. LedgerTypeOK /\ Total(open, Spenders) \in Nat /\ today \in Nat /\ month \in Nat
    BY OpenNat DEF LedgerInv, LedgerTypeOK
  <1>2. LedgerTypeOK'
    BY <1>1 DEF LedgerTypeOK
  <1>3. CheckIsSafe'
    BY DEF LedgerInv, CheckIsSafe, CountedEnough
  <1>4. FitsTheCap
    BY <1>1, NoGrowth
  <1> QED BY <1>2, <1>3, <1>4 DEF LedgerStep, LedgerInv

\* The end of a day or a month starts sums again and never raises one.
LEMMA StepNewDay ==
    ASSUME LedgerInv, NEW newMonth \in BOOLEAN, NewDay(newMonth)
    PROVE  LedgerStep
  <1>1. LedgerTypeOK /\ Total(open, Spenders) \in Nat /\ today \in Nat /\ month \in Nat
    BY OpenNat DEF LedgerInv, LedgerTypeOK
  <1>2. /\ UNCHANGED <<cap, open, check>> /\ days < MaxDays /\ days' = days + 1
        /\ today' = 0 /\ (month' = 0 \/ month' = month)
    BY DEF NewDay
  <1>3. LedgerTypeOK'
    <2>1. days' \in 0 .. MaxDays
      BY <1>1, <1>2, LedgerAssumption DEF LedgerTypeOK
    <2> QED BY <1>1, <1>2, <2>1 DEF LedgerTypeOK
  <1>4. CheckIsSafe'
    <2>1. CASE check = NoCheck
      BY <1>2, <2>1 DEF CheckIsSafe, CountedEnough
    <2>2. CASE check # NoCheck
      <3>1. check \in Check
        BY <1>1, <2>2 DEF LedgerTypeOK
      <3>2. check.daily \in Nat /\ check.monthly \in Nat
        BY <3>1 DEF Check
      <3> DEFINE mine == Total(open, Spenders \ {check.who})
      <3>3. mine \in Nat
        BY <1>1, OpenNat
      <3>4. CountedEnough(check, cap, open, today, month)
        BY DEF LedgerInv, CheckIsSafe
      <3>5. /\ 0 <= check.daily
            /\ today + mine <= check.daily => 0 + mine <= check.daily
            /\ month <= check.monthly => month' <= check.monthly
        <4> HIDE DEF mine
        <4> QED BY <1>1, <1>2, <3>2, <3>3
      <3>6. CountedEnough(check, cap, open, 0, month')
        BY <3>4, <3>5 DEF CountedEnough
      <3> QED BY <1>2, <3>6 DEF CheckIsSafe
    <2> QED BY <2>1, <2>2
  <1>5. FitsTheCap
    <2> DEFINE mine == Total(open, Spenders)
    <2>1. /\ today' \in Nat /\ month' \in Nat /\ mine \in Nat
          /\ today' + mine <= today + mine /\ month' + mine <= month + mine
      <3>1. mine \in Nat
        BY <1>1
      <3> HIDE DEF mine
      <3> QED BY <1>1, <1>2, <3>1
    <2> QED BY <1>1, <1>2, <2>1, NoGrowth
  <1> QED BY <1>3, <1>4, <1>5 DEF LedgerStep, LedgerInv

(***************************************************************************)
(* Turns, stages and the desk                                              *)
(***************************************************************************)
(* A turn checks the cap only before its call, with nothing reserved.      *)
OwnCheck(c, o, a) ==
  c # NoCheck => (a[c.who] \in CallStages => o[c.who] = 0)

SpendInv ==
  /\ at \in [Spenders -> SpenderState]
  /\ OpenIsExplained
  /\ OwnCheck(check, open, at)
  /\ LedgerInv

SpendStep == SpendInv' /\ FitsTheCap

(* One spender moves, and has a reservation afterwards only if that is     *)
(* explained.                                                              *)
LEMMA OneMoves ==
    ASSUME SpendInv, LedgerStep, NEW s \in Spenders, NEW x \in SpenderState,
           at' = [at EXCEPT ![s] = x],
           open' = open \/ \E v : open' = [open EXCEPT ![s] = v],
           open'[s] = 0 \/ x \in CallStages \cup {"working", "broken", "crashed"},
           open'[s] = 0 \/ x \notin CallStages \/ check' = NoCheck,
           check' # NoCheck => check # NoCheck /\ check'.who = check.who
    PROVE  SpendStep
  <1>1. at \in [Spenders -> SpenderState] /\ open \in [Spenders -> Nat] /\ OpenIsExplained
    BY OpenNat DEF SpendInv, LedgerInv
  <1>2. \A r \in Spenders : r # s => open'[r] = open[r]
    BY <1>1
  <1>3. at' \in [Spenders -> SpenderState] /\ at'[s] = x
        /\ \A r \in Spenders : r # s => at'[r] = at[r]
    BY <1>1
  <1>4. OpenIsExplained'
    BY <1>1, <1>2, <1>3 DEF OpenIsExplained
  <1>5. OwnCheck(check', open', at')
    <2> SUFFICES ASSUME check' # NoCheck PROVE at'[check'.who] \in CallStages => open'[check'.who] = 0
      BY DEF OwnCheck
    <2>1. check # NoCheck /\ check'.who = check.who /\ check \in Check
      BY DEF SpendInv, LedgerInv, LedgerTypeOK
    <2>2. check.who \in Spenders /\ (at[check.who] \in CallStages => open[check.who] = 0)
      BY <2>1 DEF SpendInv, OwnCheck, Check
    <2> QED BY <1>2, <1>3, <2>1, <2>2
  <1> QED BY <1>3, <1>4, <1>5 DEF SpendInv, SpendStep, LedgerStep

\* A ledger step of nobody in particular keeps every reservation explained.
LEMMA NobodyMoves ==
    ASSUME SpendInv, LedgerStep, UNCHANGED <<at, open>>,
           \/ check' = check
           \/ check # NoCheck /\ check'.who = check.who
           \/ at[check'.who] \in CallStages => open[check'.who] = 0
    PROVE  SpendStep
  <1>1. OpenIsExplained'
    BY DEF SpendInv, OpenIsExplained
  <1>2. OwnCheck(check', open', at')
    BY DEF SpendInv, OwnCheck
  <1> QED BY <1>1, <1>2 DEF SpendInv, SpendStep, LedgerStep

(* Who is not calling, working or broken off has nothing reserved.         *)
LEMMA NothingOpen ==
    ASSUME SpendInv, NEW s \in Spenders, at[s] \notin CallStages \cup {"working", "broken", "crashed"}
    PROVE  open[s] = 0
  <1>1. open[s] \in Nat /\ ~(open[s] > 0)
    BY OpenNat DEF SpendInv, LedgerInv, OpenIsExplained
  <1> QED BY <1>1

\* A spender that ends and gives its reservation back.
LEMMA GivenBackMoves ==
    ASSUME SpendInv, NEW s \in Spenders, NEW x \in SpenderState,
           at' = [at EXCEPT ![s] = x], open' = [open EXCEPT ![s] = 0],
           UNCHANGED <<cap, today, month, days>>, check' = check \/ check' = NoCheck
    PROVE  SpendStep
  <1>1. LedgerStep
    BY StepGivenBack DEF SpendInv
  <1>2. open'[s] = 0
    BY OpenNat DEF SpendInv, LedgerInv
  <1> QED BY <1>1, <1>2, OneMoves

\* A step of a voice turn, of whatever stage, failures and a crash included
\* (run_voice_turn).
LEMMA VoiceStep ==
    ASSUME SpendInv, NEW s \in Spenders, StartTurn(s) \/ TurnStep(s) \/ Crash(s)
    PROVE  SpendStep
  <1>0. LedgerInv /\ at[s] \in SpenderState /\ open[s] \in Nat /\ open \in [Spenders -> Nat]
    BY OpenNat DEF SpendInv, LedgerInv
  <1>1. CASE StartTurn(s)
    <2>1. PICK x \in {"llm", "stt"} : at' = [at EXCEPT ![s] = x]
      BY <1>1 DEF StartTurn
    <2>2. LedgerStep /\ open' = open
      BY <1>0, <1>1, StepUnchanged DEF StartTurn, ledgerVars
    <2>3. x \in SpenderState /\ x \in CallStages
      BY <2>1 DEF SpenderState, TurnState, CallStages
    <2>4. open[s] = 0 /\ check' = check
      BY <1>1, NothingOpen DEF StartTurn, CallStages, ledgerVars
    <2> QED BY <2>1, <2>2, <2>3, <2>4, OneMoves
  <1>2. CASE ReserveCall(s)
    <2>1. CASE BeforeCall(s) /\ \E e \in Estimates : LockCap(s, e) /\ UNCHANGED at
      <3>1. LedgerStep /\ open' = open /\ check'.who = s /\ open[s] = 0
        BY <1>0, <2>1, StepLockCap DEF LockCap, BeforeCall
      <3> QED BY <2>1, <3>1, NobodyMoves
    <2>2. CASE CountDay(s) /\ UNCHANGED at
      <3>1. LedgerStep /\ open' = open /\ check # NoCheck /\ check'.who = check.who
        BY <1>0, <2>2, StepCountDay, OwnerStays DEF CountDay, LedgerInv
      <3> QED BY <2>2, <3>1, NobodyMoves
    <2>3. CASE BeforeCall(s) /\ Deciding(s) /\ Fits(s) /\ Reserved(s) /\ UNCHANGED at
      <3>1. LedgerStep /\ open' = [open EXCEPT ![s] = check.est] /\ check' = NoCheck
        BY <1>0, <2>3, StepGranted DEF Reserved
      <3>2. at[s] \in CallStages /\ at' = [at EXCEPT ![s] = at[s]]
        BY <2>3 DEF BeforeCall, SpendInv
      <3> QED BY <1>0, <3>1, <3>2, OneMoves
    <2> QED BY <1>2, <2>1, <2>2, <2>3 DEF ReserveCall
  <1>3. CASE CapReached(s)
    <2>1. at' = [at EXCEPT ![s] = "failed"] /\ open[s] = 0 /\ "failed" \in SpenderState
      BY <1>3 DEF CapReached, BeforeCall, SpenderState, TurnState
    <2>2. CASE UNCHANGED ledgerVars
      <3>1. LedgerStep /\ open' = open /\ check' = check
        BY <1>0, <2>2, StepUnchanged DEF ledgerVars
      <3> QED BY <2>1, <3>1, OneMoves
    <2>3. CASE Refused(s)
      BY <2>1, <2>3, GivenBackMoves DEF Refused
    <2> QED BY <1>3, <2>2, <2>3 DEF CapReached
  <1>4. CASE CallSucceeds(s)
    <2>1. PICK actual \in Reports : CommitSpend(s, actual)
      BY <1>4 DEF CallSucceeds
    <2>3. at' = [at EXCEPT ![s] = After(at[s])] /\ at[s] \in CallStages /\ open[s] > 0
      BY <1>4 DEF CallSucceeds, Calling
    <2>6. check # NoCheck => check.who # s
      BY <1>0, <2>3 DEF SpendInv, OwnCheck
    <2>2. /\ LedgerStep /\ open' = [open EXCEPT ![s] = 0]
          /\ check' # NoCheck => check # NoCheck /\ check'.who = check.who
      BY <1>0, <2>1, <2>6, StepCommit DEF CommitSpend
    <2>4. After(at[s]) \in SpenderState
      BY <2>3 DEF After, SpenderState, TurnState, CallStages
    <2>5. open'[s] = 0
      BY <1>0, <2>2
    <2> QED BY <2>2, <2>3, <2>4, <2>5, OneMoves
  <1>5. CASE CallFails(s)
    <2>1. at' = [at EXCEPT ![s] = "failed"] /\ "failed" \in SpenderState
      BY <1>5 DEF CallFails, SpenderState, TurnState
    <2> QED BY <1>5, <2>1, GivenBackMoves DEF CallFails, ReleaseSpend
  <1>6. ASSUME NEW end \in {"broken", "crashed"}, BreakOff(s, end) PROVE SpendStep
    <2>1. at' = [at EXCEPT ![s] = end] /\ end \in SpenderState /\ end \notin CallStages
      BY <1>6 DEF BreakOff, SpenderState, TurnState, CallStages
    <2>2. LedgerStep /\ open' = open /\ (check' = check \/ check' = NoCheck)
      BY <1>0, <1>6, StepDropped DEF BreakOff
    <2> QED BY <2>1, <2>2, OneMoves
  <1> QED BY <1>1, <1>2, <1>3, <1>4, <1>5, <1>6 DEF TurnStep, InternalError, Crash

\* A step of the content desk or of a stage (reserve_spend and its callers).
LEMMA TenantStep ==
    ASSUME SpendInv, NEW s \in Spenders,
           \/ CreateContentJob(s) \/ DeskSpends(s) \/ DeskRefused(s)
           \/ StageComesUp(s) \/ ReserveSpend(s) \/ SpendHold(s)
           \/ StageSucceeds(s) \/ StageFails(s) \/ CancelRun(s)
    PROVE  SpendStep
  <1>0. LedgerInv /\ at[s] \in SpenderState /\ open[s] \in Nat /\ open \in [Spenders -> Nat]
    BY OpenNat DEF SpendInv, LedgerInv
  <1>00. {"desk", "stage", "working", "held", "cancelled", "done", "failed"} \subseteq SpenderState
    BY DEF SpenderState, TurnState
  <1>1. CASE CreateContentJob(s) \/ StageComesUp(s)
    <2>1. PICK x \in {"desk", "stage"} : at' = [at EXCEPT ![s] = x]
      BY <1>1 DEF CreateContentJob, StageComesUp
    <2>2. at[s] = "idle" /\ UNCHANGED ledgerVars
      BY <1>1 DEF CreateContentJob, StageComesUp
    <2>3. LedgerStep /\ open' = open /\ open[s] = 0 /\ check' = check
      BY <1>0, <2>2, StepUnchanged, NothingOpen DEF ledgerVars, CallStages
    <2>4. x \in SpenderState
      BY <1>00
    <2> QED BY <2>1, <2>3, <2>4, OneMoves
  <1>2. CASE DeskSpends(s)
    <2>1. open[s] = 0
      BY <1>2, NothingOpen DEF DeskSpends, CallStages
    <2>2. LedgerStep /\ open' = open /\ at' = [at EXCEPT ![s] = "done"] /\ check' = NoCheck
      BY <1>0, <1>2, <2>1, StepBooked DEF DeskSpends
    <2> QED BY <1>00, <2>1, <2>2, OneMoves
  <1>3. CASE DeskRefused(s)
    <2>1. open[s] = 0 /\ at' = [at EXCEPT ![s] = "failed"]
      BY <1>3, NothingOpen DEF DeskRefused, CallStages
    <2>2. CASE UNCHANGED ledgerVars
      <3>1. LedgerStep /\ open' = open /\ check' = check
        BY <1>0, <2>2, StepUnchanged DEF ledgerVars
      <3> QED BY <1>00, <2>1, <3>1, OneMoves
    <2>3. CASE Refused(s)
      BY <1>00, <2>1, <2>3, GivenBackMoves DEF Refused
    <2> QED BY <1>3, <2>2, <2>3 DEF DeskRefused
  <1>4. CASE ReserveSpend(s)
    <2>1. CASE /\ at[s] \in {"desk", "stage", "working"} /\ UNCHANGED at
               /\ \E e \in Estimates : LockCap(s, e)
      <3>1. LedgerStep /\ open' = open /\ check'.who = s /\ at[s] \notin CallStages
        BY <1>0, <2>1, StepLockCap DEF LockCap, CallStages
      <3> QED BY <2>1, <3>1, NobodyMoves
    <2>2. CASE CountDay(s) /\ UNCHANGED at
      <3>1. LedgerStep /\ open' = open /\ check # NoCheck /\ check'.who = check.who
        BY <1>0, <2>2, StepCountDay, OwnerStays DEF CountDay, LedgerInv
      <3> QED BY <2>2, <3>1, NobodyMoves
    <2>3. CASE Deciding(s) /\ Fits(s) /\ Reserved(s) /\ at' = [at EXCEPT ![s] = "working"]
      <3>1. LedgerStep /\ open' = [open EXCEPT ![s] = check.est] /\ check' = NoCheck
        BY <1>0, <2>3, StepGranted DEF Reserved
      <3>2. "working" \notin CallStages
        BY DEF CallStages
      <3> QED BY <1>00, <2>3, <3>1, <3>2, OneMoves
    <2> QED BY <1>4, <2>1, <2>2, <2>3 DEF ReserveSpend
  <1>5. CASE SpendHold(s)
    <2>1. at' = [at EXCEPT ![s] = "held"]
      BY <1>5 DEF SpendHold
    <2>2. CASE open' = [open EXCEPT ![s] = 0] /\ UNCHANGED <<cap, today, month, check, days>>
      BY <1>00, <2>1, <2>2, GivenBackMoves
    <2>3. CASE Refused(s)
      BY <1>00, <2>1, <2>3, GivenBackMoves DEF Refused
    <2> QED BY <1>5, <2>2, <2>3 DEF SpendHold
  <1>6. CASE StageSucceeds(s)
    <2>1. PICK actual \in Reports : CommitSpend(s, actual)
      BY <1>6 DEF StageSucceeds
    <2>2. /\ LedgerStep /\ open' = [open EXCEPT ![s] = 0]
          /\ check' # NoCheck => check # NoCheck /\ check'.who = check.who
      BY <1>0, <1>6, <2>1, StepCommit DEF CommitSpend, StageSucceeds, Checking
    <2>3. at' = [at EXCEPT ![s] = "done"] /\ open'[s] = 0
      BY <1>0, <1>6, <2>2 DEF StageSucceeds
    <2> QED BY <1>00, <2>2, <2>3, OneMoves
  <1>7. CASE StageFails(s)
    <2>1. at' = [at EXCEPT ![s] = "stage"]
      BY <1>7 DEF StageFails
    <2> QED BY <1>00, <1>7, <2>1, GivenBackMoves DEF StageFails, ReleaseSpend
  <1>8. CASE CancelRun(s)
    <2>1. at' = [at EXCEPT ![s] = "cancelled"]
      BY <1>8 DEF CancelRun
    <2> QED BY <1>00, <1>8, <2>1, GivenBackMoves DEF CancelRun
  <1> QED BY <1>1, <1>2, <1>3, <1>4, <1>5, <1>6, <1>7, <1>8

\* A change of the cap and the end of a day.
LEMMA AdminStep ==
    ASSUME SpendInv, AdminNext, UNCHANGED at
    PROVE  SpendStep
  <1>0. LedgerInv
    BY DEF SpendInv
  <1>1. ASSUME NEW c \in CapValues, UpdateWorkspaceSpendCap(c) PROVE SpendStep
    <2>1. LedgerStep /\ open' = open /\ check' = check
      BY <1>0, <1>1, StepCapSet DEF UpdateWorkspaceSpendCap
    <2> QED BY <2>1, NobodyMoves
  <1>2. ASSUME EnsureDefaultSpendCap PROVE SpendStep
    <2>1. check = NoCheck
      BY <1>0, <1>2 DEF EnsureDefaultSpendCap, LedgerInv, CheckIsSafe, CountedEnough
    <2>2. LedgerStep /\ open' = open /\ check' = check
      BY <1>0, <1>2, <2>1, StepCapSet DEF EnsureDefaultSpendCap
    <2> QED BY <2>2, NobodyMoves
  <1>3. ASSUME NEW newMonth \in BOOLEAN, NewDay(newMonth) PROVE SpendStep
    <2>1. LedgerStep /\ open' = open /\ check' = check
      BY <1>0, <1>3, StepNewDay DEF NewDay
    <2> QED BY <2>1, NobodyMoves
  <1> QED BY <1>1, <1>2, <1>3 DEF AdminNext

\* Every step of the composition keeps SpendInv and grants only what fits.
LEMMA SpendNext ==
    ASSUME SpendInv, [Next]_vars
    PROVE  SpendStep
  <1>1. ASSUME UNCHANGED <<at, ledgerVars>> PROVE SpendStep
    <2>1. LedgerStep /\ open' = open /\ check' = check
      BY <1>1, StepUnchanged DEF SpendInv, ledgerVars
    <2> QED BY <1>1, <2>1, NobodyMoves
  <1>2. ASSUME VoiceNext PROVE SpendStep
    BY <1>2, VoiceStep DEF VoiceNext
  <1>3. ASSUME TenantNext PROVE SpendStep
    BY <1>3, TenantStep DEF TenantNext
  <1>4. ASSUME AdminNext, UNCHANGED at PROVE SpendStep
    BY <1>4, AdminStep
  <1> QED BY <1>1, <1>2, <1>3, <1>4 DEF Next, vars

\* Nothing is reserved, spent or under way initially.
LEMMA SpendInit ==
    ASSUME Init
    PROVE  SpendInv
  <1>1. LedgerTypeOK
    BY LedgerAssumption DEF Init, LedgerInit, LedgerTypeOK
  <1>2. CheckIsSafe
    BY DEF Init, LedgerInit, CheckIsSafe, CountedEnough
  <1>3. at \in [Spenders -> SpenderState]
    BY DEF Init, SpenderState, TurnState
  <1>4. OpenIsExplained
    BY DEF Init, LedgerInit, OpenIsExplained
  <1>5. OwnCheck(check, open, at)
    BY DEF Init, LedgerInit, OwnCheck
  <1> QED BY <1>1, <1>2, <1>3, <1>4, <1>5 DEF SpendInv, LedgerInv

(* The ledger, its checks and those who spend: types, what a check may     *)
(* have missed, and who may have something reserved (reserve_spend,        *)
(* commit_spend, release_spend, run_voice_turn).                           *)
THEOREM SpendInvariant == Spec => []SpendInv
  <1>1. Init => SpendInv
    BY SpendInit
  <1>2. SpendInv /\ [Next]_vars => SpendInv'
    BY SpendNext DEF SpendStep
  <1> QED BY <1>1, <1>2, PTL DEF Spec

(* Whatever ends a turn, a stage or a run gives its reservation back or    *)
(* books it, except an internal error or a process that stops: however     *)
(* many turns and runs share the cap, a reservation is open only for what  *)
(* is under way or for a turn that broke off (leon_voice,                  *)
(* release_all_reservations).                                              *)
THEOREM ReservationsAreExplained == Spec => []OpenIsExplained
  <1>1. SpendInv => OpenIsExplained
    BY DEF SpendInv
  <1> QED BY <1>1, SpendInvariant, PTL

(* For any number of concurrent spenders, a step after which more is spent *)
(* or reserved is the decision of a check under the lock of the cap, and   *)
(* the total fits under each of the daily and the monthly cap, unless a    *)
(* commit fell between the two reads of that cap's own sum (reserve_spend, *)
(* reserve).                                                               *)
THEOREM WhatIsGrantedFits == Spec => SpendFitsTheCap
  <1>1. SpendInv /\ [Next]_vars =>
          [(Used' > Used \/ UsedInMonth' > UsedInMonth)
             => /\ check # NoCheck /\ check' = NoCheck
                /\ ~check.dayRaced => Used' <= cap.daily
                /\ ~check.monthRaced => UsedInMonth' <= cap.monthly]_vars
    <2>1. SUFFICES ASSUME SpendInv, [Next]_vars PROVE FitsTheCap
      BY DEF FitsTheCap
    <2> QED BY <2>1, SpendNext DEF SpendStep
  <1> QED BY <1>1, SpendInvariant, PTL DEF Spec, SpendFitsTheCap

(***************************************************************************)
(* Billing                                                                 *)
(***************************************************************************)
Known(rows) == {r.event : r \in Affecting(rows)}
Newest(known) == {e \in known : \A x \in known : x.created <= e.created}

(* The newest events of a set are active, and there are some.              *)
AllActive(known) == Newest(known) # {} /\ \A e \in Newest(known) : e.says = "active"

BillingInv ==
  /\ BillingTypeOK
  /\ Known(receipts) # {} => Newest(Known(receipts)) # {}
  /\ billing.status = "active" <=> AllActive(Known(receipts))
  /\ billing.status = "active" => billing.plan = "pro"

\* What one more event does to the newest events of a set.
LEMMA NewestGrows ==
    ASSUME NEW K, K \subseteq Event, NEW e \in Event
    PROVE  /\ (\E x \in K : x.created > e.created) => Newest(K \cup {e}) = Newest(K)
           /\ ~(\E x \in K : x.created > e.created) =>
                /\ e \in Newest(K \cup {e})
                /\ (\E x \in K : x.created = e.created) => Newest(K \cup {e}) = Newest(K) \cup {e}
                /\ ~(\E x \in K : x.created = e.created) => Newest(K \cup {e}) = {e}
  <1>1. e.created \in Nat /\ \A x \in K : x.created \in Nat
    BY BillingAssumption DEF Event
  <1>2. ASSUME NEW x \in K, x.created > e.created PROVE Newest(K \cup {e}) = Newest(K)
    BY <1>1, <1>2 DEF Newest
  <1>3. ASSUME ~(\E x \in K : x.created > e.created)
        PROVE  e \in Newest(K \cup {e}) /\ \A x \in K : x.created <= e.created
    BY <1>1, <1>3 DEF Newest
  <1>4. ASSUME ~(\E x \in K : x.created > e.created), NEW x \in K, x.created = e.created
        PROVE  Newest(K \cup {e}) = Newest(K) \cup {e}
    BY <1>1, <1>3, <1>4 DEF Newest
  <1>5. ASSUME ~(\E x \in K : x.created > e.created), ~(\E x \in K : x.created = e.created)
        PROVE  Newest(K \cup {e}) = {e}
    BY <1>1, <1>3, <1>5 DEF Newest
  <1> QED BY <1>2, <1>3, <1>4, <1>5

\* The receipts are of events.
LEMMA KnownEvents ==
    ASSUME BillingTypeOK
    PROVE  Known(receipts) \subseteq Event
  BY DEF BillingTypeOK, Receipt, Known, Affecting

\* Stale and tied events, by the times of the events known.
LEMMA StaleIs ==
    ASSUME NEW e
    PROVE  /\ Stale(e) <=> \E x \in Known(receipts) : x.created > e.created
           /\ Tied(e) <=> ~Stale(e) /\ \E x \in Known(receipts) : x.created = e.created
  BY DEF Stale, Tied, Known

(* An event that bears on the entitlement joins the known ones.            *)
LEMMA KnownGrows ==
    ASSUME NEW rows, NEW e, NEW m \in BOOLEAN
    PROVE  Known(rows \cup {[event |-> e, mapped |-> m]}) =
             IF m /\ e.says # "checkout_completed" THEN Known(rows) \cup {e} ELSE Known(rows)
  <1> DEFINE r == [event |-> e, mapped |-> m]
  <1>1. r.event = e /\ r.mapped = m
    OBVIOUS
  <1> HIDE DEF r
  <1>2. CASE m /\ e.says # "checkout_completed"
    <2>1. Affecting(rows \cup {r}) = Affecting(rows) \cup {r}
      BY <1>1, <1>2, Zenon DEF Affecting
    <2>2. Known(rows \cup {r}) = Known(rows) \cup {e}
      BY <1>1, <2>1 DEF Known
    <2> QED BY <1>2, <2>2 DEF r
  <1>3. CASE ~(m /\ e.says # "checkout_completed")
    <2>1. Affecting(rows \cup {r}) = Affecting(rows)
      BY <1>1, <1>3, Zenon DEF Affecting
    <2> QED BY <1>3, <2>1 DEF Known, r
  <1> QED BY <1>2, <1>3

(* What the row and the known events have to be after a step.              *)
LEMMA BillingParts ==
    ASSUME BillingTypeOK', NEW K, Known(receipts)' = K,
           K # {} => Newest(K) # {},
           billing'.status = "active" <=> AllActive(K),
           billing'.status = "active" => billing'.plan = "pro"
    PROVE  BillingInv'
  BY DEF BillingInv

\* process_stripe_event keeps the row what the newest receipts say, whether
\* the event is a duplicate, stale, tied, newest or of an unknown customer.
LEMMA EventStep ==
    ASSUME BillingInv, NEW e \in Event, ProcessStripeEvent(e), UNCHANGED checkout
    PROVE  BillingInv'
  <1> DEFINE mapped == e.says # "payment_failed" \/ billing.linked
  <1> DEFINE K == Known(receipts)
  <1>1. BillingTypeOK /\ K \subseteq Event
    BY KnownEvents DEF BillingInv
  <1>2. mapped \in BOOLEAN
    BY <1>1 DEF BillingTypeOK
  <1>3. /\ receipts' = receipts \cup {[event |-> e, mapped |-> mapped]}
        /\ e.says = "checkout_completed" => billing' = [billing EXCEPT !.linked = TRUE]
        /\ e.says = "payment_failed" =>
             billing' = IF ~mapped \/ Skipped(e) THEN billing
                        ELSE [billing EXCEPT !.status = "past_due"]
        /\ e.says \notin {"checkout_completed", "payment_failed"} =>
             billing' = IF Skipped(e) THEN billing ELSE SubscriptionApplied(e.says)
    BY DEF ProcessStripeEvent
  <1>4. billing \in [plan : {"none", "pro"}, status : SubscriptionStatus \cup {"inactive"},
                     linked : BOOLEAN]
    BY <1>1 DEF BillingTypeOK
  <1>5. e.says \in SubscriptionStatus \cup {"payment_failed", "checkout_completed"}
    BY DEF Event
  <1>6. receipts' \subseteq Receipt
    <2> HIDE DEF mapped
    <2>1. [event |-> e, mapped |-> mapped] \in Receipt /\ receipts \subseteq Receipt
      BY <1>1, <1>2 DEF BillingTypeOK, Receipt
    <2> QED BY <1>3, <2>1
  <1>7. Known(receipts)' = IF mapped /\ e.says # "checkout_completed" THEN K \cup {e} ELSE K
    BY <1>2, <1>3, KnownGrows
  <1>8. /\ K # {} => Newest(K) # {}
        /\ billing.status = "active" <=> AllActive(K)
        /\ billing.status = "active" => billing.plan = "pro"
    BY DEF BillingInv
  <1>9. /\ Stale(e) <=> \E x \in K : x.created > e.created
        /\ Tied(e) <=> ~Stale(e) /\ \E x \in K : x.created = e.created
    BY StaleIs
  <1> HIDE DEF K, mapped
  <1>10. /\ Stale(e) => Newest(K \cup {e}) = Newest(K)
         /\ ~Stale(e) => e \in Newest(K \cup {e})
         /\ Tied(e) => Newest(K \cup {e}) = Newest(K) \cup {e}
         /\ ~Stale(e) /\ ~Tied(e) => Newest(K \cup {e}) = {e}
    BY <1>1, <1>9, NewestGrows
  <1>11. Stale(e) => K # {}
    BY <1>9
  <1>12. K \cup {e} # {} => Newest(K \cup {e}) # {}
    BY <1>8, <1>10, <1>11
  <1>13. CASE e.says = "checkout_completed"
    <2>1. Known(receipts)' = K
      BY <1>7, <1>13
    <2>2. /\ billing' \in [plan : {"none", "pro"}, status : SubscriptionStatus \cup {"inactive"},
                           linked : BOOLEAN]
          /\ billing'.status = billing.status /\ billing'.plan = billing.plan
      BY <1>3, <1>4, <1>13
    <2>3. BillingTypeOK'
      BY <1>1, <1>6, <2>2 DEF BillingTypeOK
    <2> QED BY <1>8, <2>1, <2>2, <2>3, BillingParts
  <1>14. CASE e.says = "payment_failed" /\ ~mapped
    <2>1. Known(receipts)' = K /\ billing' = billing
      BY <1>3, <1>7, <1>14
    <2>2. BillingTypeOK'
      BY <1>1, <1>6, <2>1 DEF BillingTypeOK
    <2> QED BY <1>8, <2>1, <2>2, BillingParts
  <1>15. CASE e.says # "checkout_completed" /\ mapped
    <2>1. Known(receipts)' = K \cup {e}
      BY <1>7, <1>15
    <2>2. CASE Skipped(e)
      <3>1. billing' = billing
        BY <1>3, <1>5, <1>15, <2>2
      <3>2. BillingTypeOK'
        BY <1>1, <1>6, <3>1 DEF BillingTypeOK
      <3>3. AllActive(K \cup {e}) <=> AllActive(K)
        <4>1. CASE Stale(e)
          BY <1>10, <4>1 DEF AllActive
        <4>2. CASE Tied(e) /\ e.says = "active" /\ K # {}
          BY <1>8, <1>10, <4>2 DEF AllActive
        <4>3. Tied(e) => K # {}
          BY <1>9
        <4> QED BY <2>2, <4>1, <4>2, <4>3 DEF Skipped
      <3> QED BY <1>8, <1>12, <2>1, <3>1, <3>2, <3>3, BillingParts
    <2>3. CASE ~Skipped(e)
      <3>1. /\ billing' \in [plan : {"none", "pro"}, status : SubscriptionStatus \cup {"inactive"},
                             linked : BOOLEAN]
            /\ billing'.status = "active" <=> e.says = "active"
            /\ billing'.status = "active" => billing'.plan = "pro"
        <4>1. CASE e.says = "payment_failed"
          <5>1. billing' = [billing EXCEPT !.status = "past_due"]
            BY <1>3, <1>15, <2>3, <4>1
          <5> QED BY <1>4, <4>1, <5>1 DEF SubscriptionStatus
        <4>2. CASE e.says # "payment_failed"
          <5>1. billing' = SubscriptionApplied(e.says) /\ e.says \in SubscriptionStatus
            BY <1>3, <1>5, <1>15, <2>3, <4>2
          <5> QED BY <5>1 DEF SubscriptionApplied, SubscriptionStatus
        <4> QED BY <4>1, <4>2
      <3>2. BillingTypeOK'
        BY <1>1, <1>6, <3>1 DEF BillingTypeOK
      <3>3. ~Stale(e) /\ (Tied(e) => e.says # "active")
        BY <2>3 DEF Skipped
      <3>4. AllActive(K \cup {e}) <=> e.says = "active"
        BY <1>10, <3>3 DEF AllActive
      <3> QED BY <1>12, <2>1, <3>1, <3>2, <3>4, BillingParts
    <2> QED BY <2>2, <2>3
  <1>16. e.says # "payment_failed" => mapped
    BY DEF mapped
  <1> QED BY <1>13, <1>14, <1>15, <1>16

\* A checkout, an event or a step of another part keeps BillingInv.
LEMMA BillingStep ==
    ASSUME BillingInv, BillingNext \/ UNCHANGED billingVars
    PROVE  BillingInv'
  <1>1. ASSUME UNCHANGED <<receipts, billing>>, checkout' \in BOOLEAN PROVE BillingInv'
    BY <1>1 DEF BillingInv, BillingTypeOK
  <1>2. ASSUME CreateCheckoutSession PROVE BillingInv'
    BY <1>1, <1>2 DEF CreateCheckoutSession
  <1>3. ASSUME NEW e \in Event, StripeWebhook(e) PROVE BillingInv'
    <2>1. CASE ProcessStripeEvent(e) /\ UNCHANGED checkout
      BY <2>1, EventStep
    <2>2. CASE DuplicateEvent(e) /\ UNCHANGED checkout
      BY <1>1, <2>2 DEF DuplicateEvent, BillingInv, BillingTypeOK
    <2> QED BY <1>3, <2>1, <2>2 DEF StripeWebhook
  <1>4. ASSUME UNCHANGED billingVars PROVE BillingInv'
    BY <1>1, <1>4 DEF billingVars, BillingInv, BillingTypeOK
  <1> QED BY <1>2, <1>3, <1>4 DEF BillingNext

\* Initially there is no subscription and no receipt.
LEMMA BillingStart ==
    ASSUME Init
    PROVE  BillingInv
  <1>1. BillingTypeOK
    BY DEF Init, BillingInit, BillingTypeOK, SubscriptionStatus
  <1>2. Known(receipts) = {}
    BY DEF Init, BillingInit, Known, Affecting
  <1>3. billing.status = "inactive"
    BY DEF Init, BillingInit
  <1>4. ~AllActive({})
    BY DEF AllActive, Newest
  <1> QED BY <1>1, <1>2, <1>3, <1>4 DEF BillingInv

(* The billing row and its receipts: the row is active exactly if the      *)
(* newest receipts all say so (process_stripe_event).                      *)
THEOREM BillingInvariant == Spec => []BillingInv
  <1>1. Init => BillingInv
    BY BillingStart
  <1>2. BillingInv /\ [Next]_vars => BillingInv'
    BY BillingStep DEF Next, vars
  <1> QED BY <1>1, <1>2, PTL DEF Spec

(* For any set of Stripe events, delivered in any order and any number of  *)
(* times, the workspace is entitled exactly if there is a newest event and *)
(* all events of its second are active (_apply_subscription,               *)
(* process_stripe_event).                                                  *)
THEOREM TheNewestEventDecides == Spec => []NewestEventDecides
  <1>1. BillingInv => NewestEventDecides
    <2>1. SUFFICES ASSUME BillingInv PROVE NewestEventDecides
      OBVIOUS
    <2>2. IsEntitled <=> AllActive(Known(receipts))
      <3>1. /\ billing.status = "active" <=> AllActive(Known(receipts))
            /\ billing.status = "active" => billing.plan = "pro"
        BY <2>1, Zenon DEF BillingInv
      <3> QED BY <3>1, Zenon DEF IsEntitled
    <2> QED BY <2>2 DEF NewestEventDecides, AllActive, Newest, Known
  <1> QED BY <1>1, BillingInvariant, PTL
==============================================================================
