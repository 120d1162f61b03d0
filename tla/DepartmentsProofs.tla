-------------------------- MODULE DepartmentsProofs --------------------------
(***************************************************************************)
(* Theorems about the five departments, for every set of topics, URLs,     *)
(* digests, variants, scripts, auditors, hashes and platforms and every    *)
(* bound on the number of runs, packages and jobs.                         *)
(*                                                                         *)
(* Each department has an invariant of its own rows that leans on the one  *)
(* before it.  What carries a pass down the chain is that the evidence of  *)
(* an opportunity is only ever added to (EvidenceGrows), that a brief is   *)
(* never written again (BriefsKept) and that an artifact keeps its job,    *)
(* its version and its QA result (ArtifactsKept): the departments re-audit *)
(* and invalidate, but nothing takes back what an earlier pass rested on.  *)
(***************************************************************************)
EXTENDS ReviewDeskProofs, FiniteSetTheorems

-----------------------------------------------------------------------------
(* Research *)

(* Two fresh accepted sources that say different things.                   *)
Backed(k) ==
  \E a, b \in opportunity[k].evidence : a.digest # b.digest /\ ~a.stale /\ ~b.stale

ResearchInv ==
  /\ ResearchTypeOK
  /\ \A k \in Keys : opportunity[k].latest_audit = "pass" => Backed(k)

EvidenceGrows == \A k \in Keys : opportunity[k].evidence \subseteq opportunity'[k].evidence

\* A plain pass of the Research Auditor means two fresh sources with different
\* texts: one source, a stale one and a repeated text each give another verdict.
LEMMA PassIsBacked ==
  ASSUME NEW evidence \in SUBSET Source, ResearchVerdict(evidence) = "pass"
  PROVE  \E a, b \in evidence : a.digest # b.digest /\ ~a.stale /\ ~b.stale
  <1>1. /\ evidence # {}
        /\ \A a, b \in evidence : a = b \/ a.digest # b.digest
        /\ Cardinality(evidence) # 1
        /\ \A a \in evidence : ~a.stale
    BY DEF ResearchVerdict
  <1>2. PICK a \in evidence : TRUE
    BY <1>1
  <1>3. evidence # {a}
    BY <1>1, FS_Singleton
  <1>4. PICK b \in evidence : b # a
    BY <1>2, <1>3
  <1> QED BY <1>1, <1>2, <1>4

\* The Research Auditor's verdict is one of the three states of the table.
LEMMA ResearchVerdictType == \A evidence : ResearchVerdict(evidence) \in AuditState
  BY DEF ResearchVerdict, AuditState

\* Marking opportunities as sent keeps their evidence and their audits.
LEMMA SentKeepsResearch ==
  ASSUME ResearchInv, NEW ks, opportunity' = SentToStrategist(ks),
         UNCHANGED <<environment, researchRuns>>
  PROVE  ResearchInv' /\ EvidenceGrows
  <1>1. \A k \in Keys : /\ opportunity[k] \in Opportunity
                        /\ opportunity'[k] \in Opportunity
                        /\ opportunity'[k].evidence = opportunity[k].evidence
                        /\ opportunity'[k].latest_audit = opportunity[k].latest_audit
    BY DEF ResearchInv, ResearchTypeOK, SentToStrategist, Opportunity
  <1>2. opportunity' \in [Keys -> Opportunity]
    BY <1>1 DEF SentToStrategist
  <1> QED BY <1>1, <1>2 DEF ResearchInv, ResearchTypeOK, EvidenceGrows, Backed

\* A fixture run adds its accepted sources to the evidence of one opportunity
\* and leaves its newest audit as it is.
LEMMA FixtureRunKeepsResearch ==
  ASSUME ResearchInv, NEW t \in Topics, NEW us \in (SUBSET Urls) \ {{}},
         NEW text \in [us -> Digests], NEW stale \in BOOLEAN,
         RecordFixtureRun(t, text, stale)
  PROVE  ResearchInv' /\ EvidenceGrows
  <1> DEFINE run == Len(researchRuns) + 1
             key == <<t, us>>
             found == {[run |-> run, url |-> u, digest |-> text[u], stale |-> stale] :
                         u \in us}
             new == [opportunity[key] EXCEPT !.exists = TRUE,
                                             !.evidence = @ \cup found,
                                             !.source_count = @ + Cardinality(found)]
  <1>1. key \in Keys /\ opportunity[key] \in Opportunity
    BY DEF ResearchInv, ResearchTypeOK, Keys
  <1>2. DOMAIN text = us
    OBVIOUS
  <1>3. /\ opportunity' = [opportunity EXCEPT ![key] = new]
        /\ researchRuns' = Append(researchRuns, [trigger |-> "manual_test_fixture",
                                                 status |-> "succeeded"])
        /\ environment' = environment
        /\ Len(researchRuns) < MaxScoutRuns
    BY <1>2 DEF RecordFixtureRun
  <1>4. found \in SUBSET Source
    BY <1>3, ResearchAssumption DEF ResearchInv, ResearchTypeOK, Source
  <1>5. Cardinality(found) \in Nat
    <2>1. IsFiniteSet(us)
      BY ResearchAssumption, FS_Subset
    <2>2. IsFiniteSet(found)
      <3> DEFINE row == [u \in us |-> [run |-> run, url |-> u, digest |-> text[u],
                                       stale |-> stale]]
      <3>1. row \in Surjection(us, found)
        BY DEF Surjection
      <3> QED BY <2>1, <3>1, FS_Surjection
    <2> QED BY <2>2, FS_CardinalityType
  <1>6. /\ new \in Opportunity
        /\ new.evidence = opportunity[key].evidence \cup found
        /\ new.latest_audit = opportunity[key].latest_audit
    <2> DEFINE o == opportunity[key]
               c == Cardinality(found)
    <2>1. o.evidence \cup found \in SUBSET Source /\ o.source_count + c \in Nat
      <3> HIDE DEF found, c
      <3> QED BY <1>1, <1>4, <1>5 DEF Opportunity, c
    <2>2. o \in Opportunity
      BY <1>1
    <2> HIDE DEF o, found, c
    <2>3. [o EXCEPT !.exists = TRUE, !.evidence = @ \cup found,
                    !.source_count = @ + c] \in Opportunity
      BY <2>1, <2>2 DEF Opportunity
    <2> QED BY <2>2, <2>3 DEF Opportunity, o, c
  <1> HIDE DEF new, found
  <1>7. \A k \in Keys : /\ opportunity[k].evidence \subseteq opportunity'[k].evidence
                        /\ opportunity'[k].latest_audit = opportunity[k].latest_audit
    BY <1>1, <1>3, <1>6 DEF ResearchInv, ResearchTypeOK
  <1>8. ResearchTypeOK'
    <2>1. [trigger |-> "manual_test_fixture", status |-> "succeeded"] \in ResearchRun
      BY DEF ResearchRun
    <2>2. researchRuns' \in Seq(ResearchRun)
      BY <1>3, <2>1 DEF ResearchInv, ResearchTypeOK
    <2>3. opportunity' \in [Keys -> Opportunity]
      BY <1>3, <1>6 DEF ResearchInv, ResearchTypeOK
    <2> QED BY <1>3, <2>2, <2>3 DEF ResearchInv, ResearchTypeOK
  <1> QED BY <1>7, <1>8 DEF ResearchInv, EvidenceGrows, Backed

\* Every request of the research department keeps its invariant and takes no
\* evidence back.
LEMMA ResearchStep == ResearchInv /\ ResearchNext => ResearchInv' /\ EvidenceGrows
  <1> SUFFICES ASSUME ResearchInv, ResearchNext PROVE ResearchInv' /\ EvidenceGrows
    OBVIOUS
  <1>1. ASSUME CreateManualResearchRun \/ RecordFailedFixtureRun
        PROVE  ResearchInv' /\ EvidenceGrows
    <2>1. PICK row \in ResearchRun : researchRuns' = Append(researchRuns, row)
      BY <1>1 DEF CreateManualResearchRun, RecordFailedFixtureRun, ResearchRun
    <2>2. UNCHANGED <<environment, opportunity>>
      BY <1>1 DEF CreateManualResearchRun, RecordFailedFixtureRun
    <2> QED BY <2>1, <2>2 DEF ResearchInv, ResearchTypeOK, EvidenceGrows, Backed
  <1>2. ASSUME NEW t \in Topics, NEW us \in (SUBSET Urls) \ {{}}, NEW stale \in BOOLEAN,
               NEW text \in [us -> Digests], RecordFixtureRun(t, text, stale)
        PROVE  ResearchInv' /\ EvidenceGrows
    BY <1>2, FixtureRunKeepsResearch
  <1>3. ASSUME NEW k \in Keys, AuditOpportunity(k) PROVE ResearchInv' /\ EvidenceGrows
    <2> DEFINE state == ResearchVerdict(opportunity[k].evidence)
               new == [opportunity[k] EXCEPT !.latest_audit = state,
                         !.audit_gate_status = state,
                         !.status = IF state = "blocked" THEN "blocked" ELSE @]
    <2>1. state \in AuditState
      BY ResearchVerdictType
    <2>2. opportunity[k] \in Opportunity
      BY DEF ResearchInv, ResearchTypeOK
    <2>3. state = "pass" => Backed(k)
      BY <2>2, PassIsBacked DEF Backed, Opportunity
    <2> HIDE DEF state
    <2>4. /\ opportunity' = [opportunity EXCEPT ![k] = new]
          /\ UNCHANGED <<environment, researchRuns>>
      BY <1>3, Zenon DEF AuditOpportunity, state
    <2>5. /\ new \in Opportunity /\ new.evidence = opportunity[k].evidence
          /\ new.latest_audit = state
      BY <2>1, <2>2 DEF Opportunity
    <2> HIDE DEF new
    <2>6. \A j \in Keys : /\ opportunity'[j].evidence = opportunity[j].evidence
                          /\ j # k => opportunity'[j] = opportunity[j]
                          /\ opportunity'[k].latest_audit = state
      BY <2>4, <2>5 DEF ResearchInv, ResearchTypeOK
    <2>7. ResearchTypeOK'
      BY <2>4, <2>5 DEF ResearchInv, ResearchTypeOK
    <2> QED BY <2>3, <2>6, <2>7 DEF ResearchInv, EvidenceGrows, Backed
  <1>4. ASSUME NEW k \in Keys, SendToStrategist(k) PROVE ResearchInv' /\ EvidenceGrows
    BY <1>4, SentKeepsResearch DEF SendToStrategist
  <1> QED BY <1>1, <1>2, <1>3, <1>4 DEF ResearchNext

\* A step that leaves research alone keeps its invariant.
LEMMA ResearchFrame ==
  ResearchInv /\ UNCHANGED researchVars => ResearchInv' /\ EvidenceGrows
  BY DEF researchVars, ResearchInv, ResearchTypeOK, EvidenceGrows, Backed

-----------------------------------------------------------------------------
(* Strategy *)

(* A brief the Strategy Auditor could pass, on backed opportunities.       *)
Founded(f) ==
  /\ brief[f].exists /\ brief[f].defect = "none"
  /\ \A k \in f[1] : Backed(k)

StrategyInv ==
  /\ StrategyTypeOK
  /\ HandoffFollowsAudit
  /\ \A f \in Fingerprints : brief[f].latest_audit = "pass" => Founded(f)

BriefsKept ==
  \A f \in Fingerprints : brief[f].exists => brief'[f].exists /\ brief'[f].defect = brief[f].defect

\* What a brief rests on is never taken back.
LEMMA FoundedStable ==
  ASSUME EvidenceGrows, BriefsKept, NEW f \in Fingerprints, Founded(f)
  PROVE  Founded(f)'
  <1>1. \A k \in f[1] : k \in Keys
    BY DEF Fingerprints
  <1>2. \A k \in f[1] : Backed(k) => Backed(k)'
    BY <1>1 DEF EvidenceGrows, Backed
  <1> QED BY <1>2 DEF BriefsKept, Founded

\* A step that leaves the briefs alone keeps their invariant.
LEMMA StrategyFrame ==
  ASSUME StrategyInv, EvidenceGrows, UNCHANGED strategyVars
  PROVE  StrategyInv' /\ BriefsKept
  <1>1. BriefsKept
    BY DEF BriefsKept, strategyVars
  <1>2. \A f \in Fingerprints : Founded(f) => Founded(f)'
    BY <1>1, FoundedStable
  <1> QED BY <1>1, <1>2 DEF StrategyInv, StrategyTypeOK, HandoffFollowsAudit, strategyVars

\* One brief replaced by a row that keeps what the invariant says of it.
LEMMA BriefReplaced ==
  ASSUME StrategyInv, EvidenceGrows, NEW f \in Fingerprints, NEW row \in StrategyBrief,
         brief' = [brief EXCEPT ![f] = row],
         strategyRuns' \in Seq(StrategyRun),
         brief[f].exists => row.exists /\ row.defect = brief[f].defect,
         row.writer_handoff_state = "eligible" <=> row.latest_audit = "pass",
         row.latest_audit = "pass" =>
           row.exists /\ row.defect = "none" /\ \A k \in f[1] : Backed(k)
  PROVE  StrategyInv' /\ BriefsKept
  <1>1. /\ brief'[f] = row
        /\ \A g \in Fingerprints \ {f} : brief'[g] = brief[g]
        /\ brief' \in [Fingerprints -> StrategyBrief]
    BY DEF StrategyInv, StrategyTypeOK
  <1>2. BriefsKept
    BY <1>1 DEF BriefsKept
  <1>3. \A g \in Fingerprints : \A k \in g[1] : Backed(k) => Backed(k)'
    <2>1. \A g \in Fingerprints : \A k \in g[1] : k \in Keys
      BY DEF Fingerprints
    <2> QED BY <2>1 DEF EvidenceGrows, Backed
  <1>4. \A g \in Fingerprints : brief'[g].latest_audit = "pass" => Founded(g)'
    <2> TAKE g \in Fingerprints
    <2>1. CASE g = f
      BY <2>1, <1>1, <1>3 DEF Founded
    <2>2. CASE g # f
      BY <2>2, <1>1, <1>2, FoundedStable DEF StrategyInv
    <2> QED BY <2>1, <2>2
  <1>5. HandoffFollowsAudit'
    BY <1>1 DEF StrategyInv, HandoffFollowsAudit
  <1> QED BY <1>1, <1>2, <1>4, <1>5 DEF StrategyInv, StrategyTypeOK

\* Passing the Writer gate marks a brief that the audit already marked.
LEMMA SentToWriterKeepsStrategy ==
  ASSUME StrategyInv, EvidenceGrows, NEW f \in Fingerprints, WriterGateOpen(f),
         brief' = SentToWriter(f), UNCHANGED strategyRuns
  PROVE  StrategyInv' /\ BriefsKept
  <1> DEFINE row == [brief[f] EXCEPT !.writer_handoff_state = "eligible"]
  <1>1. brief[f] \in StrategyBrief
    BY DEF StrategyInv, StrategyTypeOK
  <1>2. brief' = [brief EXCEPT ![f] = row]
    BY DEF SentToWriter
  <1>3. row \in StrategyBrief
    BY <1>1 DEF StrategyBrief
  <1>4. /\ row.exists = brief[f].exists /\ row.defect = brief[f].defect
        /\ row.writer_handoff_state = "eligible"
        /\ row.latest_audit = "pass"
    BY <1>1 DEF WriterGateOpen, StrategyBrief
  <1>5. Founded(f)
    BY DEF WriterGateOpen, StrategyInv
  <1> HIDE DEF row
  <1>6. strategyRuns' \in Seq(StrategyRun)
    BY DEF StrategyInv, StrategyTypeOK
  <1> QED BY <1>2, <1>3, <1>4, <1>5, <1>6, BriefReplaced DEF Founded

\* A stored strategy run keeps the table well-typed.
LEMMA StrategyRunType ==
  ASSUME StrategyTypeOK, NEW trigger \in {"manual", "manual_test_fixture"},
         NEW status \in {"provider_not_configured", "duplicate", "succeeded"},
         StrategyRunStored(trigger, status)
  PROVE  strategyRuns' \in Seq(StrategyRun)
  <1>1. [trigger |-> trigger, status |-> status] \in StrategyRun
    BY DEF StrategyRun
  <1> QED BY <1>1 DEF StrategyTypeOK, StrategyRunStored

\* Every request of the strategy department keeps both invariants.
LEMMA StrategyStep ==
  ASSUME ResearchInv, StrategyInv, StrategyNext
  PROVE  ResearchInv' /\ EvidenceGrows /\ StrategyInv' /\ BriefsKept
  <1>1. ASSUME NEW ks, CreateManualStrategyRun(ks)
        PROVE  ResearchInv' /\ EvidenceGrows /\ StrategyInv' /\ BriefsKept
    <2>1. ResearchInv' /\ EvidenceGrows
      BY <1>1, SentKeepsResearch DEF CreateManualStrategyRun, RequireResearchPass
    <2>2. strategyRuns' \in Seq(StrategyRun)
      BY <1>1, StrategyRunType DEF CreateManualStrategyRun, StrategyInv
    <2>3. brief' = brief
      BY <1>1 DEF CreateManualStrategyRun
    <2>4. BriefsKept
      BY <2>3 DEF BriefsKept
    <2>5. \A f \in Fingerprints : Founded(f) => Founded(f)'
      BY <2>1, <2>4, FoundedStable
    <2> QED BY <2>1, <2>2, <2>3, <2>4, <2>5
               DEF StrategyInv, StrategyTypeOK, HandoffFollowsAudit
  <1>2. ASSUME NEW f \in Fingerprints, NEW defect \in Defect, RecordFixtureBrief(f, defect)
        PROVE  ResearchInv' /\ EvidenceGrows /\ StrategyInv' /\ BriefsKept
    <2>1. ResearchInv' /\ EvidenceGrows
      BY <1>2, SentKeepsResearch DEF RecordFixtureBrief, RequireResearchPass
    <2>2. CASE brief[f].exists
      <3>1. strategyRuns' \in Seq(StrategyRun) /\ brief' = brief
        BY <1>2, <2>2, StrategyRunType DEF RecordFixtureBrief, StrategyInv
      <3>2. BriefsKept
        BY <3>1 DEF BriefsKept
      <3>3. \A g \in Fingerprints : Founded(g) => Founded(g)'
        BY <2>1, <3>2, FoundedStable
      <3> QED BY <2>1, <3>1, <3>2, <3>3 DEF StrategyInv, StrategyTypeOK, HandoffFollowsAudit
    <2>3. CASE ~brief[f].exists
      <3> DEFINE row == [NoBrief EXCEPT !.exists = TRUE, !.defect = defect]
      <3>1. strategyRuns' \in Seq(StrategyRun)
        BY <1>2, <2>3, StrategyRunType DEF RecordFixtureBrief, StrategyInv
      <3>2. brief' = [brief EXCEPT ![f] = row]
        BY <1>2, <2>3 DEF RecordFixtureBrief
      <3>3. /\ row \in StrategyBrief
            /\ row.latest_audit = "not_run" /\ row.writer_handoff_state = "blocked"
        BY DEF NoBrief, StrategyBrief, Defect
      <3> HIDE DEF row
      <3> QED BY <2>1, <2>3, <3>1, <3>2, <3>3, BriefReplaced
    <2> QED BY <2>2, <2>3
  <1>3. ASSUME NEW f \in Fingerprints, AuditBrief(f)
        PROVE  ResearchInv' /\ EvidenceGrows /\ StrategyInv' /\ BriefsKept
    <2> DEFINE state == StrategyVerdict(f)
               row == [brief[f] EXCEPT
                 !.latest_audit = state, !.audit_gate_status = state,
                 !.writer_handoff_state = IF state = "pass" THEN "eligible" ELSE "blocked",
                 !.status = IF state = "pass" THEN "audited_passed" ELSE "audited_blocked"]
    <2>1. ResearchInv' /\ EvidenceGrows /\ strategyRuns' = strategyRuns
      BY <1>3, ResearchFrame DEF AuditBrief
    <2>2. /\ state \in AuditState
          /\ state = "pass" => /\ \A k \in f[1] : opportunity[k].latest_audit = "pass"
                               /\ brief[f].defect # "blocking" /\ brief[f].defect # "warning"
      BY DEF StrategyVerdict, AuditState
    <2>3. brief[f] \in StrategyBrief /\ brief[f].exists
      BY <1>3 DEF AuditBrief, StrategyInv, StrategyTypeOK
    <2>4. state = "pass" => brief[f].defect = "none" /\ \A k \in f[1] : Backed(k)
      <3>1. \A k \in f[1] : k \in Keys
        BY DEF Fingerprints
      <3> QED BY <2>2, <2>3, <3>1 DEF StrategyBrief, Defect, ResearchInv
    <2> HIDE DEF state
    <2>5. brief' = [brief EXCEPT ![f] = row]
      BY <1>3, Zenon DEF AuditBrief, state
    <2>6. /\ row \in StrategyBrief
          /\ row.exists /\ row.defect = brief[f].defect /\ row.latest_audit = state
          /\ row.writer_handoff_state = IF state = "pass" THEN "eligible" ELSE "blocked"
      BY <2>2, <2>3 DEF StrategyBrief
    <2> HIDE DEF row
    <2>7. strategyRuns' \in Seq(StrategyRun)
      BY <2>1 DEF StrategyInv, StrategyTypeOK
    <2> QED BY <2>1, <2>3, <2>4, <2>5, <2>6, <2>7, BriefReplaced
  <1>4. ASSUME NEW f \in Fingerprints, SendToWriter(f)
        PROVE  ResearchInv' /\ EvidenceGrows /\ StrategyInv' /\ BriefsKept
    BY <1>4, ResearchFrame, SentToWriterKeepsStrategy DEF SendToWriter
  <1> QED BY <1>1, <1>2, <1>3, <1>4 DEF StrategyNext

-----------------------------------------------------------------------------
(* Content *)

(* What OpenGateIsAudited says of one package, and that a fact audit's     *)
(* pass has settled the claims.                                            *)
SoundPackage(p) ==
  /\ p.audit_gate_status = "pass" =>
       /\ \A a \in Auditors : p.latest[a].state = "pass"
       /\ p.claims = "verified"
       /\ p.invalidated_at => \E a \in Auditors : ~p.latest[a].invalidated
  /\ p.latest["fact"].state = "pass" => p.claims = "verified"

ContentInv ==
  /\ ContentTypeOK
  /\ Len(packages) <= MaxPackages
  /\ \A n \in DOMAIN packages : Founded(packages[n].brief) /\ SoundPackage(packages[n])

\* A new package is well-typed, starts with no verdict and a closed gate.
LEMMA NewPackageSound ==
  ASSUME NEW f \in Fingerprints, NEW s \in Scripts, NEW prior \in 0 .. MaxPackages
  PROVE  /\ NewPackage(f, s, prior) \in ContentPackage
         /\ SoundPackage(NewPackage(f, s, prior))
         /\ NewPackage(f, s, prior).brief = f
  <1> DEFINE latest == [a \in Auditors |-> [state |-> "not_run", invalidated |-> FALSE]]
  <1>1. latest \in [Auditors -> ContentAudit] /\ latest["fact"].state = "not_run"
    BY AuditorsAssumption DEF ContentAudit
  <1> HIDE DEF latest
  <1>2. NewPackage(f, s, prior) =
          [brief |-> f, script |-> s, prior |-> prior,
           status |-> IF SameScript(s) # {} THEN "audited_blocked" ELSE "awaiting_audits",
           audit_gate_status |-> IF SameScript(s) # {} THEN "blocked" ELSE "not_ready",
           invalidated_at |-> FALSE,
           originality |-> IF SameScript(s) # {} THEN "require_differentiation" ELSE "not_run",
           claims |-> "not_run", invalidations |-> FALSE, latest |-> latest]
    BY DEF NewPackage, latest
  <1> QED BY <1>1, <1>2 DEF ContentPackage, SoundPackage

\* A replaced package is well-typed and its gate is closed.
LEMMA InvalidatedSound ==
  ASSUME NEW p \in ContentPackage, SoundPackage(p)
  PROVE  /\ Invalidated(p) \in ContentPackage
         /\ SoundPackage(Invalidated(p))
         /\ Invalidated(p).brief = p.brief
  <1> DEFINE latest == [a \in Auditors |-> [p.latest[a] EXCEPT
                          !.invalidated = p.latest[a].state # "not_run"]]
             some == p.invalidations \/ Audited(p)
  <1>1. \A a \in Auditors : p.latest[a] \in ContentAudit
    BY DEF ContentPackage
  <1>2. /\ latest \in [Auditors -> ContentAudit]
        /\ \A a \in Auditors : latest[a].state = p.latest[a].state
    BY <1>1 DEF ContentAudit
  <1>3. some \in BOOLEAN
    OBVIOUS
  <1> HIDE DEF latest, some
  <1>4. Invalidated(p) = [p EXCEPT !.invalidated_at = TRUE,
                                   !.audit_gate_status = "invalidated",
                                   !.status = "superseded",
                                   !.invalidations = some, !.latest = latest]
    BY DEF Invalidated, latest, some
  <1>5. Invalidated(p) \in ContentPackage
    BY <1>2, <1>3, <1>4 DEF ContentPackage
  <1>6. /\ Invalidated(p).brief = p.brief /\ Invalidated(p).claims = p.claims
        /\ Invalidated(p).latest = latest
        /\ Invalidated(p).audit_gate_status = "invalidated"
    BY <1>4 DEF ContentPackage
  <1> QED BY <1>2, <1>5, <1>6, AuditorsAssumption DEF SoundPackage

\* Recomputing the gate of a package whose claims follow its fact audit, and
\* one of whose verdicts is not invalidated, makes the package sound.
LEMMA RecalculatedSound ==
  ASSUME NEW p \in ContentPackage,
         p.latest["fact"].state = "pass" => p.claims = "verified",
         NEW a \in Auditors, ~p.latest[a].invalidated
  PROVE  /\ RecalculatedGate(p) \in ContentPackage
         /\ SoundPackage(RecalculatedGate(p))
         /\ RecalculatedGate(p).brief = p.brief
  <1>1. PICK gs \in {"blocked", "pass", "not_ready"},
             st \in {"audited_blocked", "audited_ready", "awaiting_audits"} :
          /\ RecalculatedGate(p) = [p EXCEPT !.audit_gate_status = gs, !.status = st]
          /\ gs = "pass" => \A b \in Auditors : p.latest[b].state = "pass"
    BY DEF RecalculatedGate
  <1> DEFINE q == [p EXCEPT !.audit_gate_status = gs, !.status = st]
  <1>2. /\ q.brief = p.brief /\ q.latest = p.latest /\ q.claims = p.claims
        /\ q.audit_gate_status = gs
    BY DEF ContentPackage
  <1>3. q \in ContentPackage
    BY DEF ContentPackage
  <1> HIDE DEF q
  <1>4. SoundPackage(q)
    BY <1>1, <1>2, AuditorsAssumption DEF SoundPackage
  <1>5. RecalculatedGate(p) = q
    BY <1>1 DEF q
  <1> QED BY <1>2, <1>3, <1>4, <1>5

\* One auditor's verdict, the claims it settles and the gate recomputed from it
\* leave a sound package.
LEMMA AuditSound ==
  ASSUME NEW p \in ContentPackage, SoundPackage(p), NEW a \in Auditors,
         NEW state \in ContentVerdict
  PROVE  LET row == [state |-> state, invalidated |-> FALSE]
             new == RecalculatedGate([p EXCEPT !.latest[a] = row,
                                               !.claims = ClaimsAfter(p, a, state)])
         IN new \in ContentPackage /\ SoundPackage(new) /\ new.brief = p.brief
  <1> DEFINE row == [state |-> state, invalidated |-> FALSE]
             latest == [p.latest EXCEPT ![a] = row]
             claims == ClaimsAfter(p, a, state)
             q == [p EXCEPT !.latest[a] = row, !.claims = claims]
  <1>1. row \in ContentAudit /\ row.state = state /\ ~row.invalidated
    BY DEF ContentAudit
  <1>2. p.latest \in [Auditors -> ContentAudit]
    BY DEF ContentPackage
  <1> HIDE DEF row
  <1>3. /\ latest \in [Auditors -> ContentAudit]
        /\ latest[a].state = state /\ ~latest[a].invalidated
        /\ \A b \in Auditors \ {a} : latest[b] = p.latest[b]
    BY <1>1, <1>2
  <1>4. /\ claims \in {"not_run", "verified", "unverified"}
        /\ a = "fact" /\ state = "pass" => claims = "verified"
        /\ a # "fact" => claims = p.claims
    BY DEF ClaimsAfter, ContentPackage
  <1>5. latest["fact"].state = "pass" => claims = "verified"
    BY <1>3, <1>4, AuditorsAssumption DEF SoundPackage
  <1>6. q = [[p EXCEPT !.latest = latest] EXCEPT !.claims = claims]
    BY Zenon
  <1> HIDE DEF latest, claims
  <1>7. /\ q \in ContentPackage /\ q.latest = latest /\ q.claims = claims
        /\ q.brief = p.brief
    <2> HIDE DEF q
    <2> QED BY <1>3, <1>4, <1>6 DEF ContentPackage
  <1> HIDE DEF q
  <1>8. /\ RecalculatedGate(q) \in ContentPackage /\ SoundPackage(RecalculatedGate(q))
        /\ RecalculatedGate(q).brief = q.brief
    BY <1>3, <1>5, <1>7, RecalculatedSound
  <1> QED BY <1>7, <1>8 DEF q, row, claims

\* Every package of a list of packages names a brief.
LEMMA PackageBrief ==
  ASSUME NEW s \in Seq(ContentPackage), NEW n \in DOMAIN s
  PROVE  s[n].brief \in Fingerprints
  <1>1. s[n] \in ContentPackage
    OBVIOUS
  <1> QED BY <1>1 DEF ContentPackage

\* A step that leaves the packages alone keeps their invariant.
LEMMA ContentFrame ==
  ASSUME ContentInv, EvidenceGrows, BriefsKept, contentRuns' \in 0 .. MaxContentRuns,
         packages' = packages
  PROVE  ContentInv'
  <1>1. \A n \in DOMAIN packages : packages[n].brief \in Fingerprints
    BY PackageBrief DEF ContentInv, ContentTypeOK
  <1>2. \A n \in DOMAIN packages : Founded(packages[n].brief)'
    BY <1>1, FoundedStable DEF ContentInv
  <1> QED BY <1>2 DEF ContentInv, ContentTypeOK, SoundPackage

\* One more package, made from a brief whose newest audit is a pass.
LEMMA PackageAppended ==
  ASSUME StrategyInv, EvidenceGrows, BriefsKept, NEW f \in Fingerprints, WriterGateOpen(f),
         NEW old \in Seq(ContentPackage), Len(old) < MaxPackages,
         \A n \in DOMAIN old : Founded(old[n].brief) /\ SoundPackage(old[n]),
         NEW p \in ContentPackage, SoundPackage(p), p.brief = f,
         packages' = Append(old, p), contentRuns' \in 0 .. MaxContentRuns
  PROVE  ContentInv'
  <1>1. Founded(f)'
    BY FoundedStable DEF StrategyInv, WriterGateOpen
  <1>2. \A n \in DOMAIN old : old[n].brief \in Fingerprints
    BY PackageBrief
  <1>3. \A n \in DOMAIN old : Founded(old[n].brief)'
    BY <1>2, FoundedStable
  <1>4. packages' \in Seq(ContentPackage) /\ Len(packages') = Len(old) + 1
    OBVIOUS
  <1>5. ASSUME NEW n \in DOMAIN packages'
        PROVE  (Founded(packages[n].brief) /\ SoundPackage(packages[n]))'
    <2>1. CASE n = Len(old) + 1
      <3>1. packages'[n] = p
        BY <2>1
      <3> QED BY <3>1, <1>1 DEF Founded, SoundPackage
    <2>2. CASE n \in DOMAIN old
      <3>1. packages'[n] = old[n]
        BY <2>2
      <3> QED BY <2>2, <3>1, <1>3 DEF Founded, SoundPackage
    <2> QED BY <2>1, <2>2, <1>5
  <1>6. Len(packages') <= MaxPackages
    BY <1>4, ContentAssumption
  <1> QED BY <1>4, <1>5, <1>6 DEF ContentInv, ContentTypeOK

\* One package replaced by a sound one of the same brief.
LEMMA PackageReplaced ==
  ASSUME ContentInv, NEW n \in DOMAIN packages, NEW p \in ContentPackage, SoundPackage(p),
         p.brief = packages[n].brief,
         NEW new, new = [packages EXCEPT ![n] = p]
  PROVE  /\ new \in Seq(ContentPackage) /\ Len(new) = Len(packages)
         /\ \A m \in DOMAIN new : Founded(new[m].brief) /\ SoundPackage(new[m])
         /\ \A m \in DOMAIN new : new[m].brief = packages[m].brief
  <1>1. /\ new \in Seq(ContentPackage) /\ Len(new) = Len(packages)
        /\ DOMAIN new = DOMAIN packages
        /\ new[n] = p /\ \A m \in DOMAIN packages \ {n} : new[m] = packages[m]
    BY DEF ContentInv, ContentTypeOK
  <1>2. \A m \in DOMAIN new : new[m].brief = packages[m].brief
    BY <1>1
  <1>3. ASSUME NEW m \in DOMAIN new PROVE Founded(new[m].brief) /\ SoundPackage(new[m])
    <2>1. CASE m = n
      BY <2>1, <1>1 DEF ContentInv
    <2>2. CASE m # n
      BY <2>2, <1>1, <1>3 DEF ContentInv
    <2> QED BY <2>1, <2>2
  <1> QED BY <1>1, <1>2, <1>3

\* Every request of the content department keeps the invariants so far.
LEMMA ContentStep ==
  ASSUME ResearchInv, StrategyInv, ContentInv, ContentNext
  PROVE  /\ ResearchInv' /\ EvidenceGrows /\ StrategyInv' /\ BriefsKept /\ ContentInv'
         /\ Len(packages) <= Len(packages')
  <1>1. ASSUME NEW f \in Fingerprints, RequireStrategyPass(f),
               UNCHANGED <<researchVars, strategyRuns>>
        PROVE  ResearchInv' /\ EvidenceGrows /\ StrategyInv' /\ BriefsKept /\ WriterGateOpen(f)
    <2>1. ResearchInv' /\ EvidenceGrows
      BY <1>1, ResearchFrame
    <2> QED BY <1>1, <2>1, SentToWriterKeepsStrategy DEF RequireStrategyPass
  <1>2. ASSUME NEW f \in Fingerprints, CreateManualContentRun(f)
        PROVE  /\ ResearchInv' /\ EvidenceGrows /\ StrategyInv' /\ BriefsKept /\ ContentInv'
               /\ Len(packages) <= Len(packages')
    <2>1. ResearchInv' /\ EvidenceGrows /\ StrategyInv' /\ BriefsKept
      BY <1>1, <1>2 DEF CreateManualContentRun
    <2>2. packages' = packages /\ contentRuns' \in 0 .. MaxContentRuns
      BY <1>2, ContentAssumption DEF CreateManualContentRun, ContentInv, ContentTypeOK
    <2>3. Len(packages) <= Len(packages')
      BY <2>2 DEF ContentInv, ContentTypeOK
    <2> QED BY <2>1, <2>2, <2>3, ContentFrame
  <1>3. ASSUME NEW f \in Fingerprints, NEW s \in Scripts, RecordFixturePackage(f, s)
        PROVE  /\ ResearchInv' /\ EvidenceGrows /\ StrategyInv' /\ BriefsKept /\ ContentInv'
               /\ Len(packages) <= Len(packages')
    <2>1. /\ ResearchInv' /\ EvidenceGrows /\ StrategyInv' /\ BriefsKept
          /\ WriterGateOpen(f)
      BY <1>1, <1>3 DEF RecordFixturePackage
    <2> DEFINE p == NewPackage(f, s, 0)
    <2>2. p \in ContentPackage /\ SoundPackage(p) /\ p.brief = f
      BY NewPackageSound, ContentAssumption
    <2>3. /\ packages' = Append(packages, p) /\ contentRuns' \in 0 .. MaxContentRuns
          /\ Len(packages) < MaxPackages /\ packages \in Seq(ContentPackage)
      BY <1>3 DEF RecordFixturePackage, ContentInv, ContentTypeOK
    <2> HIDE DEF p
    <2>4. ContentInv'
      BY <2>1, <2>2, <2>3, PackageAppended DEF ContentInv
    <2> QED BY <2>1, <2>3, <2>4
  <1>4. ASSUME NEW f \in Fingerprints, NEW s \in Scripts, NEW prior \in DOMAIN packages,
               RecordFixtureRevision(f, s, prior)
        PROVE  /\ ResearchInv' /\ EvidenceGrows /\ StrategyInv' /\ BriefsKept /\ ContentInv'
               /\ Len(packages) <= Len(packages')
    <2>1. /\ ResearchInv' /\ EvidenceGrows /\ StrategyInv' /\ BriefsKept
          /\ WriterGateOpen(f)
      BY <1>1, <1>4 DEF RecordFixtureRevision
    <2> DEFINE p == NewPackage(f, s, prior)
               gone == Invalidated(packages[prior])
               old == [packages EXCEPT ![prior] = gone]
    <2>2. p \in ContentPackage /\ SoundPackage(p) /\ p.brief = f
      <3>1. prior \in 0 .. MaxPackages
        BY ContentAssumption DEF ContentInv, ContentTypeOK
      <3> QED BY <3>1, NewPackageSound
    <2>3. gone \in ContentPackage /\ SoundPackage(gone) /\ gone.brief = packages[prior].brief
      <3>1. packages[prior] \in ContentPackage /\ SoundPackage(packages[prior])
        BY DEF ContentInv, ContentTypeOK
      <3> QED BY <3>1, InvalidatedSound
    <2>4. /\ packages' = Append(old, p) /\ contentRuns' \in 0 .. MaxContentRuns
          /\ Len(packages) < MaxPackages /\ Len(packages) \in Nat
      BY <1>4 DEF RecordFixtureRevision, ContentInv, ContentTypeOK
    <2> HIDE DEF p, gone
    <2>5. /\ old \in Seq(ContentPackage) /\ Len(old) = Len(packages)
          /\ \A m \in DOMAIN old : Founded(old[m].brief) /\ SoundPackage(old[m])
      <3> HIDE DEF old
      <3>1. old = [packages EXCEPT ![prior] = gone]
        BY DEF old
      <3> QED BY <2>3, <3>1, PackageReplaced
    <2> HIDE DEF old
    <2>6. ContentInv'
      BY <2>1, <2>2, <2>4, <2>5, PackageAppended
    <2> QED BY <2>1, <2>2, <2>4, <2>5, <2>6
  <1>5. ASSUME NEW n \in DOMAIN packages, NEW a \in Auditors, NEW state \in ContentVerdict,
               RecordFixtureAudit(n, a, state)
        PROVE  /\ ResearchInv' /\ EvidenceGrows /\ StrategyInv' /\ BriefsKept /\ ContentInv'
               /\ Len(packages) <= Len(packages')
    <2> DEFINE row == [state |-> state, invalidated |-> FALSE]
               new == RecalculatedGate([packages[n] EXCEPT
                        !.latest[a] = row, !.claims = ClaimsAfter(packages[n], a, state)])
    <2>1. ResearchInv' /\ EvidenceGrows /\ StrategyInv' /\ BriefsKept
      BY <1>5, ResearchFrame, StrategyFrame DEF RecordFixtureAudit
    <2>2. packages[n] \in ContentPackage /\ SoundPackage(packages[n])
      BY DEF ContentInv, ContentTypeOK
    <2>3. new \in ContentPackage /\ SoundPackage(new) /\ new.brief = packages[n].brief
      BY <2>2, AuditSound
    <2>4. packages' = [packages EXCEPT ![n] = new] /\ contentRuns' = contentRuns
      BY <1>5 DEF RecordFixtureAudit
    <2> HIDE DEF new
    <2>5. /\ packages' \in Seq(ContentPackage) /\ Len(packages') = Len(packages)
          /\ \A m \in DOMAIN packages' : Founded(packages'[m].brief)
          /\ \A m \in DOMAIN packages' : SoundPackage(packages'[m])
      BY <2>3, <2>4, PackageReplaced
    <2>6. \A m \in DOMAIN packages' : Founded(packages[m].brief)'
      <3> TAKE m \in DOMAIN packages'
      <3> DEFINE f == packages'[m].brief
      <3>1. f \in Fingerprints /\ Founded(f)
        BY <2>5, PackageBrief
      <3> HIDE DEF f
      <3>2. \A g \in Fingerprints : Founded(g) => Founded(g)'
        BY <2>1, FoundedStable
      <3> QED BY <3>1, <3>2 DEF Founded, f
    <2>7. \A m \in DOMAIN packages' : SoundPackage(packages[m])'
      BY <2>5 DEF SoundPackage
    <2>8. ContentTypeOK' /\ Len(packages') <= MaxPackages
      BY <2>4, <2>5 DEF ContentInv, ContentTypeOK
    <2>9. Len(packages) <= Len(packages')
      BY <2>5
    <2> QED BY <2>1, <2>6, <2>7, <2>8, <2>9 DEF ContentInv
  <1> QED BY <1>2, <1>3, <1>4, <1>5 DEF ContentNext

-----------------------------------------------------------------------------
(* Production *)

(* An artifact names a job that exists, and its job's version.             *)
Rooted(h) ==
  artifact[h].job # 0 =>
    /\ artifact[h].job \in DOMAIN jobs
    /\ artifact[h].version = jobs[artifact[h].job].package

ProductionInv ==
  /\ ProductionTypeOK
  /\ Len(jobs) <= MaxJobs
  /\ \A j \in DOMAIN jobs : jobs[j].version = jobs[j].package
  /\ \A h \in Hashes : Rooted(h)

ArtifactsKept ==
  \A h \in Hashes : artifact[h].job # 0 =>
    /\ artifact'[h].job = artifact[h].job
    /\ artifact[h].qa # "none" => artifact'[h].qa = artifact[h].qa

\* A step that leaves jobs and artifacts alone keeps their invariant.
LEMMA ProductionFrame ==
  ProductionInv /\ UNCHANGED productionVars => ProductionInv' /\ ArtifactsKept
  BY DEF ProductionInv, ProductionTypeOK, Rooted, ArtifactsKept, productionVars

\* One artifact replaced by a row that names the same job, or its first one.
LEMMA ArtifactReplaced ==
  ASSUME ProductionInv, NEW h \in Hashes, NEW row \in FinalArtifact,
         artifact' = [artifact EXCEPT ![h] = row], jobs' = jobs,
         row.job \in DOMAIN jobs, row.version = jobs[row.job].package,
         artifact[h].job # 0 =>
           row.job = artifact[h].job /\ (artifact[h].qa # "none" => row.qa = artifact[h].qa)
  PROVE  ProductionInv' /\ ArtifactsKept
  <1>1. /\ artifact'[h] = row
        /\ \A g \in Hashes \ {h} : artifact'[g] = artifact[g]
        /\ artifact' \in [Hashes -> FinalArtifact]
    BY DEF ProductionInv, ProductionTypeOK
  <1>2. ArtifactsKept
    BY <1>1 DEF ArtifactsKept
  <1>3. \A g \in Hashes : Rooted(g)'
    BY <1>1 DEF ProductionInv, Rooted
  <1> QED BY <1>1, <1>2, <1>3 DEF ProductionInv, ProductionTypeOK

\* Every request of the producer and of Media QA keeps the invariant, and no
\* artifact changes its job or its QA result.
LEMMA ProductionStep ==
  ASSUME ContentInv, ProductionInv, ProductionNext PROVE ProductionInv' /\ ArtifactsKept
  <1>1. ASSUME NEW n \in DOMAIN packages, CreateProductionRun(n)
        PROVE  ProductionInv' /\ ArtifactsKept
    <2> DEFINE row == [package |-> n, version |-> n, test_data |-> FALSE]
    <2>1. row \in ProductionJob
      BY ContentAssumption DEF ContentInv, ContentTypeOK, ProductionJob
    <2>2. /\ jobs' = Append(jobs, row) /\ artifact' = artifact
          /\ Len(jobs) < MaxJobs /\ jobs \in Seq(ProductionJob)
      BY <1>1 DEF CreateProductionRun, ProductionInv, ProductionTypeOK
    <2>3. row.version = row.package
      OBVIOUS
    <2> HIDE DEF row
    <2>4. /\ jobs' \in Seq(ProductionJob) /\ Len(jobs') = Len(jobs) + 1
          /\ \A j \in DOMAIN jobs : j \in DOMAIN jobs' /\ jobs'[j] = jobs[j]
          /\ \A j \in DOMAIN jobs' : j \in DOMAIN jobs \/ jobs'[j] = row
      BY <2>1, <2>2
    <2>5. \A j \in DOMAIN jobs' : jobs'[j].version = jobs'[j].package
      BY <2>3, <2>4 DEF ProductionInv
    <2>6. \A h \in Hashes : Rooted(h)'
      BY <2>2, <2>4 DEF ProductionInv, Rooted
    <2>7. Len(jobs') <= MaxJobs
      BY <2>2, <2>4, ProductionAssumption
    <2> QED BY <2>2, <2>4, <2>5, <2>6, <2>7
               DEF ProductionInv, ProductionTypeOK, ArtifactsKept
  <1>2. ASSUME NEW j \in DOMAIN jobs, MarkTestData(j) PROVE ProductionInv' /\ ArtifactsKept
    <2> DEFINE row == [jobs[j] EXCEPT !.test_data = TRUE]
    <2>1. jobs[j] \in ProductionJob /\ jobs \in Seq(ProductionJob)
      BY DEF ProductionInv, ProductionTypeOK
    <2>2. /\ row \in ProductionJob /\ row.version = jobs[j].version
          /\ row.package = jobs[j].package
      BY <2>1 DEF ProductionJob
    <2>3. jobs' = [jobs EXCEPT ![j] = row] /\ artifact' = artifact
      BY <1>2 DEF MarkTestData
    <2> HIDE DEF row
    <2>4. /\ jobs' \in Seq(ProductionJob) /\ Len(jobs') = Len(jobs)
          /\ DOMAIN jobs' = DOMAIN jobs
          /\ \A i \in DOMAIN jobs : /\ jobs'[i].version = jobs[i].version
                                    /\ jobs'[i].package = jobs[i].package
      BY <2>1, <2>2, <2>3
    <2>5. \A h \in Hashes : Rooted(h)'
      BY <2>3, <2>4 DEF ProductionInv, Rooted
    <2> QED BY <2>3, <2>4, <2>5 DEF ProductionInv, ProductionTypeOK, ArtifactsKept
  <1>3. ASSUME NEW j \in DOMAIN jobs, NEW h \in Hashes, CreateTestFixtureArtifact(j, h)
        PROVE  ProductionInv' /\ ArtifactsKept
    <2> DEFINE row == [NoArtifact EXCEPT !.job = j, !.version = jobs[j].version]
    <2>1. /\ jobs[j] \in ProductionJob /\ j \in 0 .. MaxJobs
          /\ jobs[j].version = jobs[j].package
      BY ProductionAssumption DEF ProductionInv, ProductionTypeOK
    <2>2. jobs[j].version \in 0 .. MaxPackages
      BY <2>1, ContentAssumption DEF ProductionJob
    <2>3. row \in FinalArtifact /\ row.job = j /\ row.version = jobs[j].version
      BY <2>1, <2>2 DEF NoArtifact, FinalArtifact
    <2>4. artifact' = [artifact EXCEPT ![h] = row] /\ jobs' = jobs /\ artifact[h].job = 0
      BY <1>3 DEF CreateTestFixtureArtifact, Artifacts
    <2> HIDE DEF row
    <2> QED BY <2>1, <2>3, <2>4, ArtifactReplaced
  <1>4. ASSUME NEW h \in Hashes, NEW status \in QaStatus, CreateTestMediaQa(h, status)
        PROVE  ProductionInv' /\ ArtifactsKept
    <2> DEFINE row == [artifact[h] EXCEPT !.qa = status, !.media_qa_state = status]
    <2>1. /\ artifact[h] \in FinalArtifact /\ artifact[h].job # 0 /\ artifact[h].qa = "none"
          /\ jobs' = jobs
      BY <1>4 DEF CreateTestMediaQa, Artifacts, ProductionInv, ProductionTypeOK
    <2>2. artifact' = [artifact EXCEPT ![h] = row]
      BY <1>4, Zenon DEF CreateTestMediaQa
    <2>3. /\ row \in FinalArtifact /\ row.job = artifact[h].job
          /\ row.version = artifact[h].version
      BY <2>1 DEF FinalArtifact
    <2> HIDE DEF row
    <2> QED BY <2>1, <2>2, <2>3, ArtifactReplaced DEF ProductionInv, Rooted
  <1>5. ASSUME NEW h \in Hashes, InvalidateArtifact(h) PROVE ProductionInv' /\ ArtifactsKept
    <2> DEFINE row == [artifact[h] EXCEPT !.invalidated = TRUE,
                         !.media_qa_state = IF @ = "none" THEN @ ELSE "invalidated"]
    <2>1. artifact[h] \in FinalArtifact /\ artifact[h].job # 0 /\ jobs' = jobs
      BY <1>5 DEF InvalidateArtifact, Artifacts, ProductionInv, ProductionTypeOK
    <2>2. artifact' = [artifact EXCEPT ![h] = row]
      BY <1>5, Zenon DEF InvalidateArtifact
    <2>3. /\ row \in FinalArtifact /\ row.job = artifact[h].job
          /\ row.version = artifact[h].version /\ row.qa = artifact[h].qa
      BY <2>1 DEF FinalArtifact
    <2> HIDE DEF row
    <2> QED BY <2>1, <2>2, <2>3, ArtifactReplaced DEF ProductionInv, Rooted
  <1> QED BY <1>1, <1>2, <1>3, <1>4, <1>5 DEF ProductionNext

-----------------------------------------------------------------------------
(* Compliance *)

(* What the Chief Auditor read when it passed an artifact still holds.     *)
ComplianceInv ==
  /\ ComplianceTypeOK
  /\ \A h \in Hashes : "pass_to_human_review" \in chief[h] =>
       /\ artifact[h].job # 0
       /\ artifact[h].qa = "pass"
       /\ "pass" \in compliance[h]

\* A step that leaves the compliance tables alone keeps their invariant.
LEMMA ComplianceFrame ==
  ASSUME ComplianceInv, ArtifactsKept, UNCHANGED complianceVars PROVE ComplianceInv'
  <1>1. UNCHANGED <<compliance, invalidatedPass, chief, eligibility>>
    BY DEF complianceVars
  <1>2. ComplianceTypeOK'
    BY <1>1 DEF ComplianceInv, ComplianceTypeOK
  <1> QED BY <1>1, <1>2 DEF ComplianceInv, ArtifactsKept

\* Every request of compliance and of the Chief Auditor keeps the invariant.
LEMMA ComplianceStep ==
  ASSUME ComplianceInv, ComplianceNext, artifact' = artifact PROVE ComplianceInv'
  <1> USE DEF ComplianceInv, ComplianceTypeOK
  <1>1. ASSUME NEW h \in Hashes, CreateComplianceRun(h) \/ CreateTestCompliancePass(h)
        PROVE  ComplianceInv'
    <2>1. PICK s \in ComplianceStatus : compliance' = [compliance EXCEPT ![h] = @ \cup {s}]
      BY <1>1 DEF CreateComplianceRun, CreateTestCompliancePass, ComplianceStatus
    <2>2. UNCHANGED <<invalidatedPass, chief, eligibility>>
      BY <1>1 DEF CreateComplianceRun, CreateTestCompliancePass
    <2> QED BY <2>1, <2>2
  <1>2. ASSUME NEW h \in Hashes, RunTestChiefAudit(h) PROVE ComplianceInv'
    <2>1. PICK s \in ChiefStatus :
            /\ chief' = [chief EXCEPT ![h] = @ \cup {s}]
            /\ s = "pass_to_human_review" =>
                 artifact[h].qa = "pass" /\ "pass" \in AnyOf(compliance[h])
      BY <1>2 DEF RunTestChiefAudit, ChiefStatus
    <2>2. artifact[h].job # 0 /\ UNCHANGED <<compliance, invalidatedPass, eligibility>>
      BY <1>2 DEF RunTestChiefAudit, Artifacts
    <2>3. "pass" \in AnyOf(compliance[h]) => "pass" \in compliance[h]
      BY DEF AnyOf
    <2> QED BY <2>1, <2>2, <2>3
  <1>3. ASSUME NEW h \in Hashes, InvalidateCompliance(h) PROVE ComplianceInv'
    BY <1>3 DEF InvalidateCompliance
  <1>4. ASSUME NEW h \in Hashes, NEW q \in Platforms, PublicationEligibility(h, q)
        PROVE  ComplianceInv'
    <2>1. PICK row \in SUBSET Blocker : eligibility' = [eligibility EXCEPT ![h][q] = row]
      BY <1>4 DEF PublicationEligibility, Blocker
    <2>2. UNCHANGED <<compliance, invalidatedPass, chief>>
      BY <1>4 DEF PublicationEligibility
    <2> QED BY <2>1, <2>2
  <1> HIDE DEF ComplianceInv, ComplianceTypeOK
  <1> QED BY <1>1, <1>2, <1>3, <1>4 DEF ComplianceNext

-----------------------------------------------------------------------------
(* The composition *)

ChainInv == ResearchInv /\ StrategyInv /\ ContentInv /\ ProductionInv /\ ComplianceInv

\* The departments start with no row.
LEMMA ChainInit == Init => ChainInv
  <1> SUFFICES ASSUME Init PROVE ChainInv
    OBVIOUS
  <1>1. ResearchInv
    <2>1. NoOpportunity \in Opportunity
      BY DEF NoOpportunity, Opportunity, AuditState
    <2> QED BY <2>1 DEF Init, ResearchInit, ResearchInv, ResearchTypeOK, NoOpportunity
  <1>2. StrategyInv
    <2>1. NoBrief \in StrategyBrief
      BY DEF NoBrief, StrategyBrief, AuditState, Defect
    <2> QED BY <2>1 DEF Init, StrategyInit, StrategyInv, StrategyTypeOK, NoBrief,
               HandoffFollowsAudit
  <1>3. ContentInv
    BY ContentAssumption DEF Init, ContentInit, ContentInv, ContentTypeOK
  <1>4. ProductionInv
    <2>1. NoArtifact \in FinalArtifact
      BY ContentAssumption, ProductionAssumption DEF NoArtifact, FinalArtifact
    <2> QED BY <2>1, ProductionAssumption
               DEF Init, ProductionInit, ProductionInv, ProductionTypeOK, Rooted, NoArtifact
  <1>5. ComplianceInv
    BY DEF Init, ComplianceInit, ComplianceInv, ComplianceTypeOK
  <1> QED BY <1>1, <1>2, <1>3, <1>4, <1>5 DEF ChainInv

\* A department's step changes its own tables and marks rows of the ones before
\* it; the invariants of all five are kept.
LEMMA DepartmentsStep == ChainInv /\ DepartmentsNext => ChainInv'
  <1> SUFFICES ASSUME ChainInv, DepartmentsNext PROVE ChainInv'
    OBVIOUS
  <1> USE DEF ChainInv
  <1>1. CASE ResearchNext /\ UNCHANGED <<strategyVars, contentVars, productionVars,
                                         complianceVars>>
    <2>1. ResearchInv' /\ EvidenceGrows
      BY <1>1, ResearchStep
    <2>2. StrategyInv' /\ BriefsKept
      BY <1>1, <2>1, StrategyFrame
    <2>3. ContentInv'
      BY <1>1, <2>1, <2>2, ContentFrame DEF contentVars, ContentInv, ContentTypeOK
    <2>4. ProductionInv' /\ ArtifactsKept
      BY <1>1, ProductionFrame
    <2> QED BY <1>1, <2>1, <2>2, <2>3, <2>4, ComplianceFrame
  <1>2. CASE StrategyNext /\ UNCHANGED <<contentVars, productionVars, complianceVars>>
    <2>1. ResearchInv' /\ EvidenceGrows /\ StrategyInv' /\ BriefsKept
      BY <1>2, StrategyStep
    <2>2. ContentInv'
      BY <1>2, <2>1, ContentFrame DEF contentVars, ContentInv, ContentTypeOK
    <2>3. ProductionInv' /\ ArtifactsKept
      BY <1>2, ProductionFrame
    <2> QED BY <1>2, <2>1, <2>2, <2>3, ComplianceFrame
  <1>3. CASE ContentNext /\ UNCHANGED <<productionVars, complianceVars>>
    <2>1. ResearchInv' /\ StrategyInv' /\ ContentInv'
      BY <1>3, ContentStep
    <2>2. ProductionInv' /\ ArtifactsKept
      BY <1>3, ProductionFrame
    <2> QED BY <1>3, <2>1, <2>2, ComplianceFrame
  <1>4. CASE ProductionNext /\ UNCHANGED complianceVars
    <2>1. UNCHANGED <<researchVars, strategyVars, contentVars>>
      BY <1>4 DEF ProductionNext, CreateProductionRun, MarkTestData,
         CreateTestFixtureArtifact, CreateTestMediaQa, InvalidateArtifact
    <2>2. ResearchInv' /\ EvidenceGrows
      BY <2>1, ResearchFrame
    <2>3. StrategyInv' /\ BriefsKept
      BY <2>1, <2>2, StrategyFrame
    <2>4. ContentInv'
      BY <2>1, <2>2, <2>3, ContentFrame DEF contentVars, ContentInv, ContentTypeOK
    <2>5. ProductionInv' /\ ArtifactsKept
      BY <1>4, ProductionStep
    <2> QED BY <1>4, <2>2, <2>3, <2>4, <2>5, ComplianceFrame
  <1>5. CASE ComplianceNext
    <2>1. UNCHANGED upstreamVars
      BY <1>5 DEF ComplianceNext, CreateComplianceRun, CreateTestCompliancePass,
         RunTestChiefAudit, InvalidateCompliance, PublicationEligibility
    <2>2. ResearchInv' /\ EvidenceGrows
      BY <2>1, ResearchFrame DEF upstreamVars
    <2>3. StrategyInv' /\ BriefsKept
      BY <2>1, <2>2, StrategyFrame DEF upstreamVars
    <2>4. ContentInv'
      BY <2>1, <2>2, <2>3, ContentFrame
         DEF upstreamVars, contentVars, ContentInv, ContentTypeOK
    <2>5. ProductionInv'
      BY <2>1, ProductionFrame DEF upstreamVars
    <2>6. ComplianceInv'
      BY <1>5, <2>1, ComplianceStep DEF upstreamVars, productionVars
    <2> QED BY <2>2, <2>3, <2>4, <2>5, <2>6
  <1> HIDE DEF ChainInv
  <1> QED BY <1>1, <1>2, <1>3, <1>4, <1>5 DEF DepartmentsNext

\* A step of the desk, or none, keeps the departments' invariants.
LEMMA ChainFrame ==
  ASSUME ChainInv, UNCHANGED <<upstreamVars, complianceVars>> PROVE ChainInv'
  <1> USE DEF ChainInv
  <1>1. UNCHANGED <<researchVars, strategyVars, contentVars, productionVars>>
    BY DEF upstreamVars
  <1>2. ResearchInv' /\ EvidenceGrows
    BY <1>1, ResearchFrame
  <1>3. StrategyInv' /\ BriefsKept
    BY <1>1, <1>2, StrategyFrame
  <1>4. ContentInv'
    BY <1>1, <1>2, <1>3, ContentFrame DEF contentVars, ContentInv, ContentTypeOK
  <1>5. ProductionInv' /\ ArtifactsKept
    BY <1>1, ProductionFrame
  <1> QED BY <1>2, <1>3, <1>4, <1>5, ComplianceFrame

\* The five invariants hold after any sequence of requests.
THEOREM ChainInvariant == Spec => []ChainInv
  <1>1. ChainInv /\ [Next]_vars => ChainInv'
    <2> SUFFICES ASSUME ChainInv, [Next]_vars PROVE ChainInv'
      OBVIOUS
    <2>1. CASE DepartmentsNext
      BY <2>1, DepartmentsStep
    <2>2. CASE UNCHANGED <<upstreamVars, complianceVars>>
      BY <2>2, ChainFrame
    <2> QED BY <2>1, <2>2 DEF Next, vars, upstreamVars
  <1> QED BY <1>1, ChainInit, PTL DEF Spec

\* Every content package goes back to a brief the Strategy Auditor could pass
\* and, for each of its opportunities, to two fresh sources with different texts
\* (strategist_gate, writer_gate, _require_strategy_pass).
THEOREM EvidenceUnderEveryPackage == Spec => []ChainReachesEvidence
  <1>1. ChainInv => ChainReachesEvidence
    BY DEF ChainInv, ContentInv, Founded, Backed, ChainReachesEvidence
  <1> QED BY <1>1, ChainInvariant, PTL

\* A brief is offered to the Writer exactly while its newest audit is a pass
\* (audit_brief, writer_gate).
THEOREM HandoffIsTheAudit == Spec => []HandoffFollowsAudit
  <1>1. ChainInv => HandoffFollowsAudit
    BY DEF ChainInv, StrategyInv
  <1> QED BY <1>1, ChainInvariant, PTL

(* A package whose gate is open has a pass from every mandatory auditor    *)
(* and verified claims, and if a newer version replaced it, it was audited *)
(* again since (_recalculate_package_gate).  One such audit is enough: the *)
(* invalidated verdicts of the other auditors are counted again.           *)
OpenGateIsAudited ==
  \A n \in DOMAIN packages :
    packages[n].audit_gate_status = "pass" =>
      /\ \A a \in Auditors : packages[n].latest[a].state = "pass"
      /\ packages[n].claims = "verified"
      /\ packages[n].invalidated_at =>
           \E a \in Auditors : ~packages[n].latest[a].invalidated

\* An open package gate has a pass of every mandatory auditor and verified
\* claims, and an audit newer than the last invalidation
\* (_recalculate_package_gate).
THEOREM OpenGateWasAudited == Spec => []OpenGateIsAudited
  <1>1. ChainInv => OpenGateIsAudited
    BY DEF ChainInv, ContentInv, SoundPackage, OpenGateIsAudited
  <1> QED BY <1>1, ChainInvariant, PTL

(* What the Chief Auditor sends to human review was passed by Media QA and *)
(* by some compliance audit for the same hash, and carries the version of  *)
(* the package its job was made from (run_test_chief_audit).               *)
ChiefPassIsBacked ==
  \A h \in Hashes : "pass_to_human_review" \in chief[h] =>
    /\ artifact[h].qa = "pass"
    /\ "pass" \in compliance[h]
    /\ artifact[h].job \in DOMAIN jobs
    /\ artifact[h].version = jobs[artifact[h].job].package

\* What the Chief Auditor sends to human review has a QA pass, a compliance
\* pass and the version of the package its job was made from
\* (run_test_chief_audit).
THEOREM ChiefPassWasBacked == Spec => []ChiefPassIsBacked
  <1>1. ChainInv => ChiefPassIsBacked
    BY DEF ChainInv, ComplianceInv, ProductionInv, Rooted, ChiefPassIsBacked
  <1> QED BY <1>1, ChainInvariant, PTL

PublicationTyped ==
  publication \in [Items -> [SupportedPlatforms -> EligibilityRow \cup {NoRow}]]

\* The desk's rows are well-typed: an attestation takes the fingerprint of a
\* version that exists (record of publication_eligibility).
LEMMA PublicationStep ==
  ASSUME DeskInv, NEW i \in Items, NEW q \in SupportedPlatforms,
         NEW g \in Items \cup {NoItem}, NEW complete \in BOOLEAN,
         PublicationTyped, Attest(i, q, g, complete)
  PROVE  PublicationTyped'
  <1> DEFINE print == IF complete THEN item[i].versions[item[i].current].text ELSE NoText
             row == [gate |-> g, attested |-> complete, fingerprint |-> print]
  <1>1. /\ item[i].versions \in Seq(Version) /\ item[i].versions # <<>>
        /\ item[i].current = Len(item[i].versions)
    BY DEF DeskInv, DeskRows, GateNamesNewest, Attest
  <1>2. item[i].versions[item[i].current] \in Version
    BY <1>1
  <1>3. print \in Texts \cup {NoText}
    BY <1>2 DEF Version
  <1>4. publication' = [publication EXCEPT ![i][q] = row]
    BY DEF Attest
  <1> HIDE DEF print
  <1>5. row \in EligibilityRow
    BY <1>3 DEF EligibilityRow
  <1> HIDE DEF row
  <1> QED BY <1>4, <1>5 DEF PublicationTyped

\* Every table of the departments and of the desk is well-typed: attempt
\* numbers, references and states stay within what the columns allow.
THEOREM DepartmentsTyped == Spec => []TypeOK
  <1>1. Init => PublicationTyped
    BY DEF Init, DeskInit, PublicationTyped
  <1>2. DeskInv /\ PublicationTyped /\ [Next]_vars => PublicationTyped'
    <2> SUFFICES ASSUME DeskInv, PublicationTyped, [Next]_vars PROVE PublicationTyped'
      OBVIOUS
    <2>1. CASE UNCHANGED publication
      BY <2>1 DEF PublicationTyped
    <2>2. ASSUME NEW i \in Items, NEW q \in SupportedPlatforms,
                 NEW g \in Items \cup {NoItem}, NEW complete \in BOOLEAN,
                 Attest(i, q, g, complete)
          PROVE  PublicationTyped'
      BY <2>2, PublicationStep
    <2>3. CASE DeskNext
      BY <2>1, <2>2, <2>3, Zenon DEF DeskNext, CreateItem, ReadTimeout, WriteTimeout,
         GetReviewGate, EditReviewGate, DecideReviewGate
    <2> QED BY <2>1, <2>3 DEF Next, vars, deskVars
  <1>3. DeskInv /\ PublicationTyped => DeskTypeOK
    <2> SUFFICES ASSUME DeskInv, PublicationTyped PROVE DeskTypeOK
      OBVIOUS
    <2>1. \A i \in Items : /\ item[i].current \in 0 .. MaxVersions
                           /\ item[i].current = Len(item[i].versions)
      BY DEF DeskInv, DeskRows, GateNamesNewest
    <2> QED BY <2>1, DeskAssumption DEF DeskInv, DeskRows, DeskTypeOK, PublicationTyped
  <1>4. ChainInv /\ DeskInv /\ PublicationTyped => TypeOK
    BY <1>3 DEF ChainInv, ResearchInv, StrategyInv, ContentInv, ProductionInv, ComplianceInv,
       TypeOK
  <1> QED BY <1>1, <1>2, <1>4, ChainInvariant, DeskInvariant, PTL DEF Spec
=============================================================================
