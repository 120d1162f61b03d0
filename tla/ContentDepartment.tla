-------------------------- MODULE ContentDepartment --------------------------
(***************************************************************************)
(* The content department: packages that carry one immutable content       *)
(* version each, the independent auditors whose newest verdicts make the   *)
(* package gate, the invalidation of the audits of a version that a new    *)
(* one replaces, and the Producer gate (app/services/content_department.py).*)
(*                                                                         *)
(* Package n carries content version n (the tables allow one package per   *)
(* version).  A script is its text fingerprint.  All claims of a package   *)
(* are verified together, so they share one state.  Only the newest audit  *)
(* of each auditor is ever read; the package keeps that one, and whether   *)
(* an invalidation row names it.  A verdict of "error" counts as "blocked" *)
(* wherever it is read, and is that.                                       *)
(***************************************************************************)
EXTENDS Strategy

CONSTANTS Scripts,           \* fingerprints of script texts
          Auditors,          \* the mandatory auditors, "fact" among them
          MaxContentRuns,    \* bound: manual content runs
          MaxPackages        \* bound: content packages

ASSUME AuditorsAssumption == "fact" \in Auditors
ASSUME ContentAssumption == MaxContentRuns \in Nat /\ MaxPackages \in Nat

VARIABLES contentRuns,       \* content_department_runs stored by a request
          packages           \* content_packages in the order they were made

contentVars == <<contentRuns, packages>>

ContentVerdict == {"pass", "pass_with_warning", "blocked"}   \* blocked: or error

ContentAudit == [state : ContentVerdict \cup {"not_run"}, invalidated : BOOLEAN]

ContentPackage ==
  [brief : Fingerprints,
   script : Scripts,
   prior : 0 .. MaxPackages,                 \* the package it revises, 0 for none
   status : {"awaiting_audits", "audited_blocked", "audited_ready", "superseded"},
   audit_gate_status : {"not_ready", "blocked", "pass", "invalidated"},
   invalidated_at : BOOLEAN,
   originality : {"not_run", "require_differentiation"},
   claims : {"not_run", "verified", "unverified"},
   latest : [Auditors -> ContentAudit],      \* newest content_audits row of each
   invalidations : BOOLEAN]                  \* an audit of it was invalidated

ContentInit == contentRuns = 0 /\ packages = <<>>

(* A Content request needs the Writer gate of its brief, which it marks.   *)
RequireStrategyPass(f) ==
  /\ WriterGateOpen(f)
  /\ brief' = SentToWriter(f)

(* POST /content-department/runs: stored as not configured, no package.    *)
CreateManualContentRun(f) ==
  /\ RequireStrategyPass(f)
  /\ contentRuns < MaxContentRuns
  /\ contentRuns' = contentRuns + 1
  /\ UNCHANGED <<researchVars, strategyRuns, packages>>

(* The rows whose text is that of the new script.  Two of them make the    *)
(* query fail (scalar_one_or_none), and the request with it.               *)
SameScript(s) == {n \in DOMAIN packages : packages[n].script = s}

NewPackage(f, s, prior) ==
  LET duplicate == SameScript(s) # {}
  IN [brief |-> f, script |-> s, prior |-> prior,
      status |-> IF duplicate THEN "audited_blocked" ELSE "awaiting_audits",
      audit_gate_status |-> IF duplicate THEN "blocked" ELSE "not_ready",
      invalidated_at |-> FALSE,
      originality |-> IF duplicate THEN "require_differentiation" ELSE "not_run",
      claims |-> "not_run", invalidations |-> FALSE,
      latest |-> [a \in Auditors |-> [state |-> "not_run", invalidated |-> FALSE]]]

Audited(p) == \E a \in Auditors : p.latest[a].state # "not_run"

(* The package a revision replaces: its gate closes and each of its audits *)
(* gets an invalidation row.  A second row for one audit is refused by the *)
(* table, so a package is revised again only if no audit of it ever was.   *)
Invalidated(p) ==
  [p EXCEPT !.invalidated_at = TRUE,
            !.audit_gate_status = "invalidated",
            !.status = "superseded",
            !.invalidations = @ \/ Audited(p),
            !.latest = [a \in Auditors |-> [p.latest[a] EXCEPT
                          !.invalidated = p.latest[a].state # "not_run"]]]

RecordFixturePackage(f, s) ==
  /\ environment = "test"
  /\ RequireStrategyPass(f)
  /\ Len(packages) < MaxPackages
  /\ Cardinality(SameScript(s)) <= 1
  /\ packages' = Append(packages, NewPackage(f, s, 0))
  /\ UNCHANGED <<researchVars, strategyRuns, contentRuns>>

RecordFixtureRevision(f, s, prior) ==
  /\ environment = "test"
  /\ RequireStrategyPass(f)
  /\ Len(packages) < MaxPackages
  /\ Cardinality(SameScript(s)) <= 1
  /\ ~packages[prior].invalidations
  /\ packages' = Append([packages EXCEPT ![prior] = Invalidated(@)],
                        NewPackage(f, s, prior))
  /\ UNCHANGED <<researchVars, strategyRuns, contentRuns>>

(* The package gate, recomputed from the newest verdict of every auditor.  *)
RecalculatedGate(p) ==
  LET state(a) == p.latest[a].state
  IN IF \E a \in Auditors : state(a) = "blocked"
       THEN [p EXCEPT !.audit_gate_status = "blocked", !.status = "audited_blocked"]
     ELSE IF \A a \in Auditors : state(a) = "pass"
       THEN [p EXCEPT !.audit_gate_status = "pass", !.status = "audited_ready"]
     ELSE [p EXCEPT !.audit_gate_status = "not_ready", !.status = "awaiting_audits"]

(* A fact audit also settles the claims of the package.                    *)
ClaimsAfter(p, a, state) ==
  IF a # "fact" THEN p.claims
  ELSE IF state \in {"pass", "pass_with_warning"} THEN "verified" ELSE "unverified"

RecordFixtureAudit(n, a, state) ==
  LET p == packages[n]
      row == [state |-> state, invalidated |-> FALSE]
  IN /\ environment = "test"
     /\ packages' = [packages EXCEPT
          ![n] = RecalculatedGate([p EXCEPT !.latest[a] = row,
                                            !.claims = ClaimsAfter(p, a, state)])]
     /\ UNCHANGED <<researchVars, strategyVars, contentRuns>>

(* The gate a Producer request passes: the stored gate of the package.     *)
ProducerGateOpen(n) == packages[n].audit_gate_status = "pass"

ContentNext ==
  \/ \E f \in Fingerprints : CreateManualContentRun(f)
  \/ \E f \in Fingerprints, s \in Scripts :
       \/ RecordFixturePackage(f, s)
       \/ \E prior \in DOMAIN packages : RecordFixtureRevision(f, s, prior)
  \/ \E n \in DOMAIN packages, a \in Auditors, state \in ContentVerdict :
       RecordFixtureAudit(n, a, state)

ContentTypeOK ==
  /\ contentRuns \in 0 .. MaxContentRuns
  /\ packages \in Seq(ContentPackage)
=============================================================================
