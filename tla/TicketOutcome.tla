--------------------------- MODULE TicketOutcome ---------------------------
(***************************************************************************)
(* What _run_ticket_with_retries promises its caller, the run loop: one    *)
(* ticket at a time is executed and comes back either committed, with PASS *)
(* or CODED_UNGOVERNED, or failed with the branch as it was, or, after a   *)
(* last-resort split, with the commits of all its children or of none.     *)
(*                                                                         *)
(* The module states this contract once.  RunPlan, which sees a ticket     *)
(* from outside, and TicketAttempts, which models the attempts inside,     *)
(* both implement it.                                                      *)
(***************************************************************************)
CONSTANTS
  Tickets,
  ChildrenOf,    \* the children of a last-resort split, or {}
  CommitMayFail, \* whether git commit may refuse
  NoTicket

VARIABLES
  stage,    \* "idle", "exec", "children" or "returned"
  current,  \* the ticket being executed
  log,      \* ids in the commit subjects of the branch
  preSplit, \* the branch before a last-resort split
  verdict   \* the disposition it came back with

vars == <<stage, current, log, preSplit, verdict>>

Init == /\ stage = "idle" /\ current = NoTicket
        /\ log \in SUBSET Tickets
        /\ preSplit = {} /\ verdict = "PENDING"

Take(t) ==
  /\ stage = "idle"
  /\ stage' = "exec" /\ current' = t
  /\ UNCHANGED <<log, preSplit, verdict>>

Return(d) ==
  /\ stage' = "returned" /\ verdict' = d /\ preSplit' = {}
  /\ UNCHANGED current

CommitTicket(d) ==
  /\ stage = "exec"
  /\ log' = log \cup {current} \/ (CommitMayFail /\ log' = log)
  /\ Return(d)

FailTicket == stage = "exec" /\ log' = log /\ Return("FAIL")

SplitLastResort ==
  /\ stage = "exec" /\ ChildrenOf[current] # {}
  /\ stage' = "children" /\ preSplit' = log
  /\ UNCHANGED <<current, log, verdict>>

ChildCommits ==
  /\ stage = "children"
  /\ \E c \in ChildrenOf[current] \ log : log' = log \cup {c}
  /\ UNCHANGED <<stage, current, preSplit, verdict>>

ChildrenPass ==
  /\ stage = "children"
  /\ ChildrenOf[current] \subseteq log \/ CommitMayFail
  /\ log' = log
  /\ Return("PASS")

ChildFails == stage = "children" /\ log' = preSplit /\ Return("FAIL")

\* The loop takes the result, or the process stops with the ticket open.
Leave ==
  /\ stage # "idle"
  /\ stage' = "idle" /\ current' = NoTicket
  /\ preSplit' = {} /\ verdict' = "PENDING"
  /\ UNCHANGED log

Next == \/ \E t \in Tickets : Take(t)
        \/ \E d \in {"PASS", "CODED_UNGOVERNED"} : CommitTicket(d)
        \/ FailTicket \/ SplitLastResort
        \/ ChildCommits \/ ChildrenPass \/ ChildFails \/ Leave

Spec == Init /\ [][Next]_vars
=============================================================================
