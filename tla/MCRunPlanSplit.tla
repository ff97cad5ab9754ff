--------------------------- MODULE MCRunPlanSplit ---------------------------
(***************************************************************************)
(* A plan of two tickets for TLC, the second depending on the first: the   *)
(* first may be split before it runs, into three sub-tickets of which the  *)
(* last depends on the first, or, when it runs whole, as a last resort     *)
(* into two children.                                                      *)
(***************************************************************************)
EXTENDS RunPlan

CONSTANTS t1, t2, t1a, t1b, t1c, ph1

Two == <<t1, t2>>
ChainDeps == [t \in Tickets |-> CASE t = t1c -> {t1a} [] t = t2 -> {t1}
                                  [] OTHER -> {}]
FirstSplits == [t \in PlanTickets |-> IF t = t1 THEN <<t1a, t1b, t1c>> ELSE <<>>]
FirstChildren == [t \in Tickets |-> IF t = t1 THEN {t1a, t1b} ELSE {}]
OnePhase == [t \in Tickets |-> IF t \in PlanTickets THEN ph1 ELSE NoPhase]
=============================================================================
