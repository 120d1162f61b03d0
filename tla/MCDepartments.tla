---------------------------- MODULE MCDepartments ----------------------------
(* Small instances of Departments: the sets of model values that may be    *)
(* permuted, and no others.                                                *)
EXTENDS Departments, TLC

(* Bound: production follows the first package of the first research run.  *)
(* Research is repeated and packages are replaced in behaviours without it.*)
OneLineOfProduction == jobs # <<>> => Len(researchRuns) = 1 /\ Len(packages) = 1

Interchangeable ==
  Permutations(Urls) \cup Permutations(Digests) \cup Permutations(Scripts)
    \cup Permutations(Hashes) \cup Permutations(Items) \cup Permutations(People)
    \cup Permutations(Texts)
==============================================================================
