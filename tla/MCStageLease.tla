---------------------------- MODULE MCStageLease ----------------------------
(* Instances of StageLease for TLC: the two workers are interchangeable in
   every safety property. *)
EXTENDS StageLease, TLC

WorkerSymmetry == Permutations(Workers)

(* Bound: no worker is drained.  Draining keeps a worker from new rows and
   changes nothing about those it holds; LeaseTwoWorkers has it. *)
NobodyDrained == \A w \in Workers : ~wrk[w].drain /\ wrk[w].status # "draining"
=============================================================================
