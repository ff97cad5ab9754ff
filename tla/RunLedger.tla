----------------------------- MODULE RunLedger -----------------------------
(***************************************************************************)
(* The run ledger of run/run_ledger.py: the record of one governed run,    *)
(* kept in memory by run_plan and written to evidence/run/ledger.json      *)
(* after every ticket.                                                     *)
(*                                                                         *)
(* The ledger is a value here, and each method of RunLedger an operator    *)
(* from ledgers to ledgers, so that the modules that own the run loop and  *)
(* the file on disk decide when it changes.  Time stamps, reasons and log  *)
(* lines are left out: no decision of the run loop reads them.             *)
(***************************************************************************)
EXTENDS Integers, FiniteSets

CONSTANTS
  PlanTickets,       \* the ticket ids the ledger is created with
  SubTickets,        \* ids minted while running, when a ticket is split
  Phases,            \* the phases of the plan
  PhaseOf,           \* the phase of a ticket, NoPhase when it has none
  DefinitionOfDone,  \* the definition_of_done markers of the plan
  StopMarkers,       \* the stop_conditions markers of the plan
  FailureLimit,      \* consecutive_failure_limit
  MaxTickets,        \* max_project_tickets, NoLimit when the plan sets none
  NoLimit, NoPhase, NoTicket

Tickets == PlanTickets \cup SubTickets

ASSUME LedgerConstants ==
  /\ IsFiniteSet(PlanTickets) /\ IsFiniteSet(SubTickets)
  /\ PlanTickets \cap SubTickets = {}
  /\ NoTicket \notin Tickets
  /\ NoPhase \notin Phases
  /\ PhaseOf \in [Tickets -> Phases \cup {NoPhase}]
  /\ \A t \in SubTickets : PhaseOf[t] = NoPhase
  /\ FailureLimit \in Nat \ {0}
  /\ NoLimit \notin Nat
  /\ MaxTickets \in Nat \cup {NoLimit}

\* Dispositions a ticket can be given; PENDING is the ledger's default and
\* ABSENT stands for a sub-ticket the ledger has no entry for yet.
Verdicts == {"PASS", "FAIL", "CODED_UNGOVERNED", "SKIP"}
Statuses == [Tickets -> Verdicts \cup {"PENDING", "ABSENT"}]
PhaseStatuses == {"PENDING", "IN_PROGRESS", "PASS", "FAIL"}

Ledgers == [status     : Statuses,
            phase      : [Phases -> PhaseStatuses],
            failures   : Nat,   \* consecutive_failures
            lastParent : Tickets \cup {NoTicket},  \* _last_failure_parent
            executed   : Nat, passed : Nat, failed : Nat, skipped : Nat,
            stopped    : BOOLEAN]

FreshLedger ==
  [status     |-> [t \in Tickets |->
                     IF t \in PlanTickets THEN "PENDING" ELSE "ABSENT"],
   phase      |-> [p \in Phases |-> "PENDING"],
   failures   |-> 0,
   lastParent |-> NoTicket,
   executed   |-> 0, passed |-> 0, failed |-> 0, skipped |-> 0,
   stopped    |-> FALSE]

---------------------------------------------------------------------------
One(b) == IF b THEN 1 ELSE 0

\* Code reached the branch: PASS, or committed without governance's approval.
IsCoded(d) == d \in {"PASS", "CODED_UNGOVERNED"}

\* Mutant: every failed sub-ticket is a failure signal of its own.
Bug_NewFailure(l, d, parent) == d = "FAIL"

\* Sub-tickets of one parent that fail in a row are one failure signal.
NewFailure(l, d, parent) == d = "FAIL" /\ parent # l.lastParent

RecordResult(l, t, d, parent) ==
  [l EXCEPT !.executed   = @ + 1,
            !.passed     = @ + One(d = "PASS"),
            !.failed     = @ + One(d \in {"FAIL", "CODED_UNGOVERNED"}),
            !.skipped    = @ + One(d = "SKIP"),
            !.failures   = IF IsCoded(d) THEN 0
                           ELSE @ + One(NewFailure(l, d, parent)),
            !.lastParent = IF IsCoded(d) THEN NoTicket
                           ELSE IF d = "FAIL" THEN parent ELSE @,
            !.status     = [@ EXCEPT ![t] = d]]

PhaseTickets(p) == {t \in PlanTickets : PhaseOf[t] = p}

\* A phase reaches a verdict when none of its tickets is PENDING any more.
PhaseAfter(l, p) ==
  IF \E t \in PhaseTickets(p) : l.status[t] = "PENDING"
  THEN IF l.phase[p] = "PENDING" THEN "IN_PROGRESS" ELSE l.phase[p]
  ELSE IF \A t \in PhaseTickets(p) : l.status[t] = "PASS" THEN "PASS" ELSE "FAIL"

UpdatePhase(l, t) ==
  IF PhaseOf[t] = NoPhase THEN l
  ELSE [l EXCEPT !.phase = [@ EXCEPT ![PhaseOf[t]] = PhaseAfter(l, PhaseOf[t])]]

LimitReached(l) == MaxTickets # NoLimit /\ l.executed >= MaxTickets

ShouldStop(l, reasons) ==
  \/ l.failures >= FailureLimit
  \/ LimitReached(l)
  \/ reasons \cap StopMarkers # {}

CheckStopConditions(l, reasons) ==
  [l EXCEPT !.stopped = @ \/ ShouldStop(l, reasons)]

ShouldSkip(l) == l.stopped \/ LimitReached(l)

KnownMarkers == {"tickets_applied", "all_tickets_passed"}

DefinitionOfDoneMet(l) ==
  \/ DefinitionOfDone = {}
  \/ LET known == {t \in Tickets : l.status[t] # "ABSENT"}
     IN  /\ known # {}
         /\ l.executed = Cardinality(known)
         /\ \A t \in known : l.status[t] # "FAIL"
         /\ DefinitionOfDone \cap KnownMarkers # {}
=============================================================================
