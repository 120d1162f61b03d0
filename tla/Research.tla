------------------------------ MODULE Research ------------------------------
(***************************************************************************)
(* The research department: Scout runs that record sources and             *)
(* opportunities, the independent Research Auditor, and the gate that lets *)
(* the Strategist use an opportunity (app/services/research.py).  One      *)
(* workspace.  One action is one request, which is one transaction.        *)
(*                                                                         *)
(* An opportunity is named by its dedupe key: its topic and the canonical  *)
(* URLs of the sources that were accepted for it.  The text of a source is *)
(* its digest.  Audits are append only and only the newest one is ever     *)
(* read, so an opportunity keeps that one.  Run counters and the events    *)
(* emitted are left out.                                                   *)
(***************************************************************************)
EXTENDS Naturals, FiniteSets, Sequences

CONSTANTS Topics,         \* what an opportunity may be about
          Urls,           \* canonical public URLs
          Digests,        \* digests of source texts
          MaxScoutRuns    \* bound: research runs

ASSUME ResearchAssumption == IsFiniteSet(Urls) /\ MaxScoutRuns \in Nat

VARIABLES environment,    \* ENVIRONMENT of the process, never changed
          researchRuns,   \* the research_runs table
          opportunity     \* the opportunities table and what hangs on it

researchVars == <<environment, researchRuns, opportunity>>

Keys == Topics \X ((SUBSET Urls) \ {{}})
AuditState == {"pass", "pass_with_warning", "blocked"}

Source == [run : 1 .. MaxScoutRuns, url : Urls, digest : Digests, stale : BOOLEAN]

ResearchRun == [trigger : {"manual", "manual_test_fixture"},
                status : {"provider_not_configured", "failed", "succeeded"}]

Opportunity == [exists : BOOLEAN,
                evidence : SUBSET Source,      \* accepted sources linked to it
                source_count : Nat,
                status : {"active", "blocked"},
                latest_audit : AuditState \cup {"not_run"},
                audit_gate_status : AuditState \cup {"not_run"},
                strategist_state : {"not_sent", "eligible"}]

NoOpportunity == [exists |-> FALSE, evidence |-> {}, source_count |-> 0,
                  status |-> "active", latest_audit |-> "not_run",
                  audit_gate_status |-> "not_run", strategist_state |-> "not_sent"]

ResearchInit ==
  /\ environment \in {"test", "preview"}
  /\ researchRuns = <<>>
  /\ opportunity = [k \in Keys |-> NoOpportunity]

(* POST /research/runs: no provider is configured, so the run is stored as *)
(* finished and nothing else happens.                                      *)
CreateManualResearchRun ==
  /\ Len(researchRuns) < MaxScoutRuns
  /\ researchRuns' = Append(researchRuns, [trigger |-> "manual",
                                           status |-> "provider_not_configured"])
  /\ UNCHANGED <<environment, opportunity>>

(* A fixture run with no acceptable source: private URL, embedded           *)
(* credentials, or an excerpt that carries an instruction.                  *)
RecordFailedFixtureRun ==
  /\ environment = "test"
  /\ Len(researchRuns) < MaxScoutRuns
  /\ researchRuns' = Append(researchRuns, [trigger |-> "manual_test_fixture",
                                           status |-> "failed"])
  /\ UNCHANGED <<environment, opportunity>>

(* A fixture run whose accepted sources are `text', a function from URLs    *)
(* to digests (one row per run and URL), all of one freshness.  Rejected    *)
(* sources are stored but never linked.  A known key gets more evidence, a  *)
(* new one becomes an active opportunity.                                   *)
RecordFixtureRun(t, text, stale) ==
  LET run == Len(researchRuns) + 1
      key == <<t, DOMAIN text>>
      found == {[run |-> run, url |-> u, digest |-> text[u], stale |-> stale] :
                  u \in DOMAIN text}
      old == opportunity[key]
  IN /\ environment = "test"
     /\ Len(researchRuns) < MaxScoutRuns
     /\ researchRuns' = Append(researchRuns, [trigger |-> "manual_test_fixture",
                                              status |-> "succeeded"])
     /\ opportunity' = [opportunity EXCEPT
          ![key] = [old EXCEPT !.exists = TRUE,
                               !.evidence = @ \cup found,
                               !.source_count = @ + Cardinality(found)]]
     /\ UNCHANGED environment

(* Mutant: a single source is no warning.                                  *)
ResearchVerdictOneSource(evidence) ==
  IF evidence = {} \/ (\E a, b \in evidence : a # b /\ a.digest = b.digest)
    THEN "blocked"
  ELSE IF \E s \in evidence : s.stale THEN "pass_with_warning"
  ELSE "pass"

(* What the auditor concludes from the stored sources alone.               *)
ResearchVerdict(evidence) ==
  LET duplicated == \E a, b \in evidence : a # b /\ a.digest = b.digest
  IN IF evidence = {} \/ duplicated THEN "blocked"
     ELSE IF Cardinality(evidence) = 1 \/ (\E s \in evidence : s.stale)
       THEN "pass_with_warning"
     ELSE "pass"

AuditOpportunity(k) ==
  LET state == ResearchVerdict(opportunity[k].evidence)
  IN /\ opportunity[k].exists
     /\ opportunity' = [opportunity EXCEPT
          ![k].latest_audit = state,
          ![k].audit_gate_status = state,
          ![k].status = IF state = "blocked" THEN "blocked" ELSE @]
     /\ UNCHANGED <<environment, researchRuns>>

(* The gate a Strategist request passes: the newest audit is a plain pass. *)
StrategistGateOpen(k) ==
  opportunity[k].exists /\ opportunity[k].latest_audit = "pass"

(* Mutant: a state the table's constraint does not know.                   *)
SentToStrategistUnknown(ks) ==
  [k \in Keys |-> IF k \in ks THEN [opportunity[k] EXCEPT !.strategist_state = "sent"]
                  ELSE opportunity[k]]

SentToStrategist(ks) ==
  [k \in Keys |-> IF k \in ks THEN [opportunity[k] EXCEPT !.strategist_state = "eligible"]
                  ELSE opportunity[k]]

SendToStrategist(k) ==
  /\ StrategistGateOpen(k)
  /\ opportunity' = SentToStrategist({k})
  /\ UNCHANGED <<environment, researchRuns>>

ResearchNext ==
  \/ CreateManualResearchRun
  \/ RecordFailedFixtureRun
  \/ \E t \in Topics, us \in (SUBSET Urls) \ {{}}, stale \in BOOLEAN :
       \E text \in [us -> Digests] : RecordFixtureRun(t, text, stale)
  \/ \E k \in Keys : AuditOpportunity(k) \/ SendToStrategist(k)

ResearchTypeOK ==
  /\ environment \in {"test", "preview"}
  /\ researchRuns \in Seq(ResearchRun)
  /\ opportunity \in [Keys -> Opportunity]
=============================================================================
