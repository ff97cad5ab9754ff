-------------------------- MODULE MCLessonsMemory --------------------------
(* Two runs on two repositories with two paths, for TLC. *)
EXTENDS LessonsMemory, TLC

MCTouched == {[primary |-> "f", files |-> {"f"}],
              [primary |-> "g", files |-> {"f", "g"}]}
MCTrees == {{"f", "g"}, {"f"}}
MCSymmetry == Permutations(Procs)
=============================================================================
