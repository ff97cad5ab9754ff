------------------------------ MODULE MCSession ------------------------------
(* Two tickets, the operator's branch and one or two work branches, for TLC. *)
EXTENDS Session, TLC

CONSTANTS t1, t2, w1, w2

Symmetry == Permutations(Plan) \cup Permutations(WorkBranches)
=============================================================================
