------------------------------ MODULE Strategy ------------------------------
(***************************************************************************)
(* The strategy department: briefs built on opportunities that passed the  *)
(* Research Auditor, the independent Strategy Auditor, and the gate that   *)
(* lets the Writer use a brief (app/services/strategy.py).                 *)
(*                                                                         *)
(* A brief is named by its structural fingerprint: the opportunities it is *)
(* built on and a variant for its other fields.  The fields the auditor    *)
(* reads are abstracted to `defect': nothing wrong, a missing or unknown   *)
(* field that blocks, or a performance-data state that only warns.         *)
(***************************************************************************)
EXTENDS Research

CONSTANTS Variants,       \* fields of a brief other than its opportunities
          MaxStrategyRuns \* bound: strategy runs

VARIABLES strategyRuns,   \* the strategy_runs table
          brief           \* strategy_briefs, their links and their audits

strategyVars == <<strategyRuns, brief>>

Fingerprints == ((SUBSET Keys) \ {{}}) \X Variants
Defect == {"none", "warning", "blocking"}

StrategyRun == [trigger : {"manual", "manual_test_fixture"},
                status : {"provider_not_configured", "duplicate", "succeeded"}]

StrategyBrief == [exists : BOOLEAN,
                  defect : Defect,
                  status : {"draft", "audited_passed", "audited_blocked"},
                  latest_audit : AuditState \cup {"not_run"},
                  audit_gate_status : AuditState \cup {"not_run"},
                  writer_handoff_state : {"blocked", "eligible"}]

NoBrief == [exists |-> FALSE, defect |-> "none", status |-> "draft",
            latest_audit |-> "not_run", audit_gate_status |-> "not_run",
            writer_handoff_state |-> "blocked"]

StrategyInit ==
  /\ strategyRuns = <<>>
  /\ brief = [f \in Fingerprints |-> NoBrief]

(* Every source opportunity passes the Strategist gate; passing it marks   *)
(* the opportunity eligible.  One that does not rolls the request back.    *)
RequireResearchPass(ks) ==
  /\ \A k \in ks : StrategistGateOpen(k)
  /\ opportunity' = SentToStrategist(ks)

StrategyRunStored(trigger, status) ==
  /\ Len(strategyRuns) < MaxStrategyRuns
  /\ strategyRuns' = Append(strategyRuns, [trigger |-> trigger, status |-> status])

(* POST /strategy/runs: limits are stored, no brief is made.               *)
CreateManualStrategyRun(ks) ==
  /\ RequireResearchPass(ks)
  /\ StrategyRunStored("manual", "provider_not_configured")
  /\ UNCHANGED <<environment, researchRuns, brief>>

(* A fixture brief.  A fingerprint that exists is reported as a duplicate. *)
RecordFixtureBrief(f, defect) ==
  /\ environment = "test"
  /\ RequireResearchPass(f[1])
  /\ IF brief[f].exists
       THEN /\ StrategyRunStored("manual_test_fixture", "duplicate")
            /\ UNCHANGED brief
       ELSE /\ StrategyRunStored("manual_test_fixture", "succeeded")
            /\ brief' = [brief EXCEPT ![f] = [NoBrief EXCEPT !.exists = TRUE,
                                                             !.defect = defect]]
  /\ UNCHANGED <<environment, researchRuns>>

(* The auditor's verdict: the newest audit of every source opportunity is  *)
(* a pass, and the brief itself has no blocking defect.                    *)
StrategyVerdict(f) ==
  IF \/ \E k \in f[1] : opportunity[k].latest_audit # "pass"
     \/ brief[f].defect = "blocking"
    THEN "blocked"
  ELSE IF brief[f].defect = "warning" THEN "pass_with_warning"
  ELSE "pass"

(* Mutant: a blocked re-audit leaves the hand-off as it was.               *)
AuditBriefKeepsHandoff(f) ==
  LET state == StrategyVerdict(f)
  IN /\ brief[f].exists
     /\ brief' = [brief EXCEPT
          ![f].latest_audit = state,
          ![f].audit_gate_status = state,
          ![f].writer_handoff_state = IF state = "pass" THEN "eligible" ELSE @,
          ![f].status = IF state = "pass" THEN "audited_passed" ELSE "audited_blocked"]
     /\ UNCHANGED <<researchVars, strategyRuns>>

AuditBrief(f) ==
  LET state == StrategyVerdict(f)
  IN /\ brief[f].exists
     /\ brief' = [brief EXCEPT
          ![f].latest_audit = state,
          ![f].audit_gate_status = state,
          ![f].writer_handoff_state = IF state = "pass" THEN "eligible" ELSE "blocked",
          ![f].status = IF state = "pass" THEN "audited_passed" ELSE "audited_blocked"]
     /\ UNCHANGED <<researchVars, strategyRuns>>

(* The gate a Writer request passes: the brief's own newest audit.         *)
WriterGateOpen(f) == brief[f].exists /\ brief[f].latest_audit = "pass"

SentToWriter(f) == [brief EXCEPT ![f].writer_handoff_state = "eligible"]

SendToWriter(f) ==
  /\ WriterGateOpen(f)
  /\ brief' = SentToWriter(f)
  /\ UNCHANGED <<researchVars, strategyRuns>>

StrategyNext ==
  \/ \E ks \in (SUBSET Keys) \ {{}} : CreateManualStrategyRun(ks)
  \/ \E f \in Fingerprints, defect \in Defect : RecordFixtureBrief(f, defect)
  \/ \E f \in Fingerprints : AuditBrief(f) \/ SendToWriter(f)

StrategyTypeOK ==
  /\ strategyRuns \in Seq(StrategyRun)
  /\ brief \in [Fingerprints -> StrategyBrief]
=============================================================================
