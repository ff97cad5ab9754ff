----------------------------- MODULE MCRunPlan -----------------------------
(***************************************************************************)
(* Plans of whole tickets for TLC: five tickets, more than the limits let  *)
(* run, of which the second depends on the first.                          *)
(***************************************************************************)
EXTENDS RunPlan

CONSTANTS t1, t2, t3, t4, t5, ph1, ph2

NoSplit == [t \in PlanTickets |-> <<>>]
NoChildren == [t \in Tickets |-> {}]

Five == <<t1, t2, t3, t4, t5>>
SecondNeedsFirst == [t \in Tickets |-> IF t = t2 THEN {t1} ELSE {}]

OnePhase == [t \in Tickets |-> ph1]
=============================================================================
