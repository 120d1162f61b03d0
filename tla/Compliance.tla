----------------------------- MODULE Compliance -----------------------------
(***************************************************************************)
(* Compliance audits, the Chief Auditor and the publication eligibility of *)
(* an artifact (app/services/compliance.py).                               *)
(*                                                                         *)
(* The audit tables are append only, several rows per artifact, and are    *)
(* read with no order (.first()): what a read may return is a set of rows, *)
(* so each table is the set of the statuses stored for an artifact, and a  *)
(* read chooses one of them.                                               *)
(***************************************************************************)
EXTENDS Production

CONSTANT Platforms        \* platforms an eligibility may be asked for

VARIABLES compliance,     \* statuses of compliance_audits, by hash
          invalidatedPass,\* hashes whose compliance pass has an invalidation row
          chief,          \* statuses of chief_audits, by hash
          eligibility     \* artifact_publication_eligibility, by hash and platform

complianceVars == <<compliance, invalidatedPass, chief, eligibility>>

ComplianceStatus == {"blocked_provider_not_configured", "pass"}
ChiefStatus == {"pass_to_human_review", "blocked"}
Blocker == {"external_publishing_disabled", "chief_audit_not_passed",
            "media_qa_not_passed"}

ComplianceInit ==
  /\ compliance = [h \in Hashes |-> {}]
  /\ invalidatedPass = {}
  /\ chief = [h \in Hashes |-> {}]
  /\ eligibility = [h \in Hashes |-> [q \in Platforms |-> {}]]   \* {}: no row

upstreamVars == <<researchVars, strategyVars, contentVars, productionVars>>

(* What a read of one row with no order returns.                           *)
AnyOf(rows) == IF rows = {} THEN {"missing"} ELSE rows

(* POST /compliance/runs: any artifact, whatever its QA.                   *)
CreateComplianceRun(h) ==
  /\ h \in Artifacts
  /\ compliance' = [compliance EXCEPT ![h] = @ \cup {"blocked_provider_not_configured"}]
  /\ UNCHANGED <<upstreamVars, invalidatedPass, chief, eligibility>>

CreateTestCompliancePass(h) ==
  /\ h \in Artifacts
  /\ artifact[h].qa = "pass"
  /\ compliance' = [compliance EXCEPT ![h] = @ \cup {"pass"}]
  /\ UNCHANGED <<upstreamVars, invalidatedPass, chief, eligibility>>

RunTestChiefAudit(h) ==
  /\ h \in Artifacts
  /\ \E row \in AnyOf(compliance[h]) :
       LET blocked == artifact[h].qa # "pass" \/ row # "pass"
       IN chief' = [chief EXCEPT
            ![h] = @ \cup {IF blocked THEN "blocked" ELSE "pass_to_human_review"}]
  /\ UNCHANGED <<upstreamVars, compliance, invalidatedPass, eligibility>>

(* An invalidation row for an audit; nothing else is touched.              *)
InvalidateCompliance(h) ==
  /\ "pass" \in compliance[h]
  /\ invalidatedPass' = invalidatedPass \cup {h}
  /\ UNCHANGED <<upstreamVars, compliance, chief, eligibility>>

(* One row per artifact and platform, never eligible.                      *)
PublicationEligibility(h, q) ==
  /\ h \in Artifacts
  /\ eligibility[h][q] = {}
  /\ \E row \in AnyOf(chief[h]) :
       eligibility' = [eligibility EXCEPT ![h][q] =
         {"external_publishing_disabled"}
           \cup (IF row = "pass_to_human_review" THEN {} ELSE {"chief_audit_not_passed"})
           \cup (IF artifact[h].media_qa_state = "pass" THEN {} ELSE {"media_qa_not_passed"})]
  /\ UNCHANGED <<upstreamVars, compliance, invalidatedPass, chief>>

ComplianceNext ==
  \E h \in Hashes :
    \/ CreateComplianceRun(h)
    \/ CreateTestCompliancePass(h)
    \/ RunTestChiefAudit(h)
    \/ InvalidateCompliance(h)
    \/ \E q \in Platforms : PublicationEligibility(h, q)

ComplianceTypeOK ==
  /\ compliance \in [Hashes -> SUBSET ComplianceStatus]
  /\ invalidatedPass \subseteq Hashes
  /\ chief \in [Hashes -> SUBSET ChiefStatus]
  /\ eligibility \in [Hashes -> [Platforms -> SUBSET Blocker]]
=============================================================================
