--------------------------- MODULE MCRepairBatch ---------------------------
(* Finding counts for TLC. *)
EXTENDS RepairBatch

CONSTANTS main, util, syntax, tests

\* A file with three findings of one kind, and a finding of the repository as
\* a whole that the scan reports in another file.
LocalAndGlobal ==
  [key \in {main, util} \X {syntax, tests} |->
     CASE key = <<main, syntax>> -> 3 [] key = <<util, tests>> -> 1 [] OTHER -> 0]
=============================================================================
