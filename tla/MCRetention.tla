----------------------------- MODULE MCRetention -----------------------------
(* Instances of Retention: two paths with one thread that cleans up or      *)
(* deletes, and one path with two of them.                                  *)
EXTENDS Retention, TLC

KeepLatestOrAll ==
  {[keep |-> TRUE, all |-> FALSE], [keep |-> FALSE, all |-> TRUE]}
ByAge == {[keep |-> FALSE, all |-> FALSE]}

Symmetry == Permutations(Path) \cup Permutations(Deleter)
=============================================================================
