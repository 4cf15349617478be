------------------------- MODULE MCMaterialVersions -------------------------
(* Instances of MaterialVersions that TLC can check.                       *)
EXTENDS MaterialVersions, TLC

CONSTANTS p1, p2, i1, i2, r1, r2, a1, plain, barren

Interchangeable ==
  Permutations(Persona) \cup Permutations(Process) \cup Permutations(Run)

\* Bound: only the first version is edited twice.
OneEditLater == \A v \in Version : v > 1 => rev'[v] <= 2

=============================================================================
