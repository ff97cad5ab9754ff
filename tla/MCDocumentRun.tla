--------------------------- MODULE MCDocumentRun ---------------------------
(* Doc-specs and symmetry for the runs of DocumentRun. *)
EXTENDS DocumentRun, TLC

\* A document of each risk class; only the low one may do without roles.
OneOfEachRisk ==
  {[risk |-> "low", roles |-> {}], [risk |-> "medium", roles |-> Roles],
   [risk |-> "high", roles |-> Roles]}

Symmetry == Permutations(Roles) \cup Permutations(Approvers)
=============================================================================
