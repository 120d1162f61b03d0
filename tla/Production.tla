----------------------------- MODULE Production -----------------------------
(***************************************************************************)
(* The producer and the independent Media QA: production jobs made from    *)
(* audited content packages, final artifacts named by their hash, the one  *)
(* QA result of an artifact, and the readiness row that an invalidation    *)
(* resets (app/services/production.py).                                    *)
(*                                                                         *)
(* No provider is configured, so a job is stored as blocked.  Artifacts    *)
(* and QA results come only from the fixture helpers, which want a job     *)
(* that was marked as test data by hand.  Content version n is the one of  *)
(* package n.  A hash is the key of its artifact.                          *)
(***************************************************************************)
EXTENDS ContentDepartment

CONSTANTS Hashes,         \* artifact hashes
          MaxJobs         \* bound: production jobs

ASSUME ProductionAssumption == MaxJobs \in Nat

VARIABLES jobs,           \* the production_jobs table
          artifact        \* final_artifacts, media_qa_results, readiness by hash

productionVars == <<jobs, artifact>>

QaStatus == {"pass", "blocked", "repair_required"}

ProductionJob == [package : 1 .. MaxPackages, version : 1 .. MaxPackages,
                  test_data : BOOLEAN]

FinalArtifact ==
  [job : 0 .. MaxJobs,                             \* 0: no such artifact
   version : 0 .. MaxPackages,
   qa : QaStatus \cup {"none"},                    \* media_qa_results, immutable
   media_qa_state : QaStatus \cup {"none", "invalidated"},   \* readiness row
   invalidated : BOOLEAN]                          \* an invalidation row exists

NoArtifact == [job |-> 0, version |-> 0, qa |-> "none", media_qa_state |-> "none",
               invalidated |-> FALSE]

Artifacts == {h \in Hashes : artifact[h].job # 0}

ProductionInit ==
  /\ jobs = <<>>
  /\ artifact = [h \in Hashes |-> NoArtifact]

(* POST /production/jobs: the stored gate of the package decides.          *)
CreateProductionRun(n) ==
  /\ ProducerGateOpen(n)
  /\ Len(jobs) < MaxJobs
  /\ jobs' = Append(jobs, [package |-> n, version |-> n, test_data |-> FALSE])
  /\ UNCHANGED <<researchVars, strategyVars, contentVars, artifact>>

(* The test harness sets the flag on the row; no code in the service does. *)
MarkTestData(j) ==
  /\ ~jobs[j].test_data
  /\ jobs' = [jobs EXCEPT ![j].test_data = TRUE]
  /\ UNCHANGED <<researchVars, strategyVars, contentVars, artifact>>

CreateTestFixtureArtifact(j, h) ==
  /\ jobs[j].test_data
  /\ h \notin Artifacts
  /\ artifact' = [artifact EXCEPT ![h] = [NoArtifact EXCEPT !.job = j,
                                                           !.version = jobs[j].version]]
  /\ UNCHANGED <<researchVars, strategyVars, contentVars, jobs>>

(* One QA result for a hash, ever, and with it the readiness row.          *)
CreateTestMediaQa(h, status) ==
  /\ h \in Artifacts
  /\ artifact[h].qa = "none"
  /\ artifact' = [artifact EXCEPT ![h].qa = status, ![h].media_qa_state = status]
  /\ UNCHANGED <<researchVars, strategyVars, contentVars, jobs>>

(* The readiness row is reset if there is one; the QA result stays.        *)
InvalidateArtifact(h) ==
  /\ h \in Artifacts
  /\ artifact' = [artifact EXCEPT
       ![h].invalidated = TRUE,
       ![h].media_qa_state = IF @ = "none" THEN @ ELSE "invalidated"]
  /\ UNCHANGED <<researchVars, strategyVars, contentVars, jobs>>

ProductionNext ==
  \/ \E n \in DOMAIN packages : CreateProductionRun(n)
  \/ \E j \in DOMAIN jobs : MarkTestData(j) \/ \E h \in Hashes : CreateTestFixtureArtifact(j, h)
  \/ \E h \in Hashes : InvalidateArtifact(h) \/ \E q \in QaStatus : CreateTestMediaQa(h, q)

ProductionTypeOK ==
  /\ jobs \in Seq(ProductionJob)
  /\ artifact \in [Hashes -> FinalArtifact]
=============================================================================
