----------------------------- MODULE Departments -----------------------------
(***************************************************************************)
(* The five departments composed: every request of research, strategy,     *)
(* content, production and compliance, in any order.  The properties are   *)
(* about what a department may rely on: the audits of the ones before it.  *)
(* The review desk has content items of its own and no row in common with  *)
(* the departments, so a behaviour is that of one side.                    *)
(***************************************************************************)
EXTENDS Compliance, ReviewDesk

VARIABLE side             \* "departments" or "desk", never changed

vars == <<side, researchVars, strategyVars, contentVars, productionVars, complianceVars, deskVars>>

Init ==
  /\ side \in {"departments", "desk"}
  /\ DeskInit
  /\ ResearchInit
  /\ side = "desk" => environment = "test"    \* it makes no difference there
  /\ StrategyInit
  /\ ContentInit
  /\ ProductionInit
  /\ ComplianceInit

DepartmentsNext ==
  \/ ResearchNext /\ UNCHANGED <<strategyVars, contentVars, productionVars, complianceVars>>
  \/ StrategyNext /\ UNCHANGED <<contentVars, productionVars, complianceVars>>
  \/ ContentNext /\ UNCHANGED <<productionVars, complianceVars>>
  \/ ProductionNext /\ UNCHANGED complianceVars
  \/ ComplianceNext

Next ==
  /\ \/ side = "departments" /\ DepartmentsNext /\ UNCHANGED deskVars
     \/ side = "desk" /\ DeskNext /\ UNCHANGED <<upstreamVars, complianceVars>>
  /\ UNCHANGED side

Spec == Init /\ [][Next]_vars

(***************************************************************************)
(* Properties                                                              *)
(***************************************************************************)
TypeOK ==
  /\ ResearchTypeOK
  /\ StrategyTypeOK
  /\ ContentTypeOK
  /\ ProductionTypeOK
  /\ ComplianceTypeOK
  /\ DeskTypeOK

(* Every content package, and so every job and artifact made from one,     *)
(* goes back to a brief the Strategy Auditor could pass and, for each      *)
(* opportunity of the brief, to two fresh accepted sources that say        *)
(* different things: no order of requests gets past the research and the   *)
(* strategy audit (strategist_gate, writer_gate, _require_strategy_pass).  *)
ChainReachesEvidence ==
  \A n \in DOMAIN packages :
    LET f == packages[n].brief
    IN /\ brief[f].exists /\ brief[f].defect = "none"
       /\ \A k \in f[1] : \E a, b \in opportunity[k].evidence :
            a.digest # b.digest /\ ~a.stale /\ ~b.stale

(* A brief is offered to the Writer exactly while its newest audit is a    *)
(* pass, through re-audits that follow changed research and through every  *)
(* request that marks the hand-off (audit_brief, writer_gate).             *)
HandoffFollowsAudit ==
  \A f \in Fingerprints :
    (brief[f].writer_handoff_state = "eligible") <=> (brief[f].latest_audit = "pass")

(* What was invalidated counts for nothing: no package gate is open on a   *)
(* verdict that a newer version invalidated (content department: V1 "never *)
(* carries a prior audit result forward", _recalculate_package_gate), and  *)
(* the Chief Auditor passes no artifact whose compliance pass was          *)
(* invalidated ("invalidated dependency blocks the chain",                 *)
(* run_test_chief_audit).                                                  *)
InvalidatedCountsForNothing ==
  [][/\ \A n \in DOMAIN packages : packages'[n].audit_gate_status = "pass" =>
          \A a \in Auditors : ~packages'[n].latest[a].invalidated
     /\ \A h \in Hashes : "pass_to_human_review" \in chief'[h] \ chief[h] =>
          h \notin invalidatedPass]_vars
=============================================================================
