--------------------------- MODULE MCDonePipeline ---------------------------
(* A run of one or two tickets without phases, for TLC. *)
EXTENDS DonePipeline

CONSTANTS t1, t2

NoPhases == [t \in PlanTickets |-> NoPhase]
=============================================================================
