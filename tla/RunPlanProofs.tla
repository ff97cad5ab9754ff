--------------------------- MODULE RunPlanProofs ---------------------------
(***************************************************************************)
(* Theorems about RunPlan for every plan, every set of commands and every  *)
(* limit: type correctness, that what ledger.json calls done has its code  *)
(* on the branch, that dependencies are there first, that the loop keeps   *)
(* the contract with its tickets, that the ledger's counts and verdicts    *)
(* are exact, and that a resumed build repeats nothing and misses nothing. *)
(***************************************************************************)
EXTENDS RunPlan, FiniteSetTheorems, TLAPS

---------------------------------------------------------------------------
(* The ledger's operators *)

LEMMA FreshLedgerType == FreshLedger \in Ledgers
  BY DEF FreshLedger, Ledgers, Statuses, PhaseStatuses, Verdicts

\* Recording a result yields a ledger that differs in one disposition.
LEMMA RecordResultType ==
  ASSUME NEW l \in Ledgers, NEW t \in Tickets, NEW d \in Verdicts,
         NEW p \in Tickets
  PROVE  /\ RecordResult(l, t, d, p) \in Ledgers
         /\ RecordResult(l, t, d, p).status = [l.status EXCEPT ![t] = d]
<1> DEFINE r == RecordResult(l, t, d, p)
<1>1. l.status \in Statuses /\ l.phase \in [Phases -> PhaseStatuses]
  BY DEF Ledgers
<1>2. [l.status EXCEPT ![t] = d] \in Statuses
  BY <1>1 DEF Statuses
<1>3. One(d = "PASS") \in Nat /\ One(d = "SKIP") \in Nat
      /\ One(d \in {"FAIL", "CODED_UNGOVERNED"}) \in Nat
      /\ One(NewFailure(l, d, p)) \in Nat
  BY DEF One
<1>4. (IF IsCoded(d) THEN 0 ELSE l.failures + One(NewFailure(l, d, p))) \in Nat
  BY <1>3 DEF Ledgers
<1>5. (IF IsCoded(d) THEN NoTicket ELSE IF d = "FAIL" THEN p ELSE l.lastParent)
        \in Tickets \cup {NoTicket}
  BY DEF Ledgers
<1>6. /\ l.executed + 1 \in Nat
      /\ l.passed + One(d = "PASS") \in Nat
      /\ l.failed + One(d \in {"FAIL", "CODED_UNGOVERNED"}) \in Nat
      /\ l.skipped + One(d = "SKIP") \in Nat
  BY <1>3 DEF Ledgers
<1>7. r.status = [l.status EXCEPT ![t] = d]
  BY DEF RecordResult, Ledgers
<1>8. r \in Ledgers
  BY <1>1, <1>2, <1>4, <1>5, <1>6 DEF RecordResult, Ledgers
<1>9. QED
  BY <1>7, <1>8

LEMMA UpdatePhaseType ==
  ASSUME NEW l \in Ledgers, NEW t \in Tickets
  PROVE  /\ UpdatePhase(l, t) \in Ledgers
         /\ UpdatePhase(l, t).status = l.status
<1>1. l.phase \in [Phases -> PhaseStatuses]
  BY DEF Ledgers
<1>2. CASE PhaseOf[t] = NoPhase
  BY <1>2 DEF UpdatePhase
<1>3. CASE PhaseOf[t] # NoPhase
  <2>1. PhaseOf[t] \in Phases
    BY <1>3, LedgerConstants
  <2>2. PhaseAfter(l, PhaseOf[t]) \in PhaseStatuses
    BY <1>1, <2>1 DEF PhaseAfter, PhaseStatuses
  <2>3. QED
    BY <1>1, <1>3, <2>1, <2>2 DEF UpdatePhase, Ledgers
<1>4. QED
  BY <1>2, <1>3

LEMMA CheckStopType ==
  ASSUME NEW l \in Ledgers, NEW reasons
  PROVE  /\ CheckStopConditions(l, reasons) \in Ledgers
         /\ CheckStopConditions(l, reasons).status = l.status
  BY DEF CheckStopConditions, Ledgers

\* What a committed or returned ticket does to the ledger.
LEMMA RecordExecuted ==
  ASSUME NEW l \in Ledgers, NEW t \in Tickets, NEW d \in Verdicts,
         NEW p \in Tickets
  PROVE  /\ UpdatePhase(RecordResult(l, t, d, p), t) \in Ledgers
         /\ UpdatePhase(RecordResult(l, t, d, p), t).status
              = [l.status EXCEPT ![t] = d]
<1>1. /\ RecordResult(l, t, d, p) \in Ledgers
      /\ RecordResult(l, t, d, p).status = [l.status EXCEPT ![t] = d]
  BY RecordResultType
<1>2. QED
  BY <1>1, UpdatePhaseType

LEMMA ReconcileType ==
  ASSUME NEW d \in Statuses
  PROVE  Reconcile(d) \in Statuses
  BY DEF Reconcile, Statuses, Verdicts

---------------------------------------------------------------------------
(* Type correctness *)

\* The process is at one of these points, or will be once the snapshot in
\* progress is written.
At(S) == stage \in S \/ (stage = "flush" /\ after \in S)

\* Where the loop's positions point at a ticket, and a verdict is given.
Positions ==
  /\ At({"sub", "exec", "children", "committed", "returned", "settle"})
       => pos <= Len(PlanOrder)
  /\ At({"exec", "children", "committed", "returned", "settle"})
       => sub <= Len(subs)
  /\ At({"committed", "returned", "settle"}) => verdict \in Verdicts

TypeInv == TypeOK /\ Positions

LEMMA ParentType ==
  ASSUME TypeOK, pos <= Len(PlanOrder)
  PROVE  Parent \in PlanTickets /\ Parent \in Tickets
  BY PlanConstants DEF TypeOK, Parent, Tickets

LEMMA CurrentType ==
  ASSUME TypeOK, sub <= Len(subs)
  PROVE  Current \in Tickets
  BY DEF TypeOK, Current

LEMMA ReportType ==
  ASSUME TypeOK, pos <= Len(PlanOrder), NEW t \in Tickets, NEW d \in Verdicts,
         Report(t, d)
  PROVE  results' \in Seq(Reports)
  BY ParentType DEF TypeOK, Report, Reports

LEMMA NoProcessType ==
  ASSUME TypeOK, NoProcess, UNCHANGED <<durable, landed>>
  PROVE  TypeInv'
<1>1. Len(PlanOrder) \in Nat
  BY PlanConstants
<1>2. subs' \in Seq(Tickets) /\ results' \in Seq(Reports)
      /\ Len(subs') = 0
  BY DEF NoProcess
<1>3. TypeOK'
  <2>1. /\ stage' \in Stages /\ after' \in Stages
        /\ command' \in {"none", "run", "resume", "rerun-failed", "rerun-remaining"}
        /\ verdict' \in Verdicts \cup {"PENDING"}
        /\ allPassed' \in BOOLEAN /\ doneMet' \in BOOLEAN
    BY DEF NoProcess, Stages
  <2>2. /\ skipSet' \subseteq Tickets /\ completed' \subseteq Tickets
        /\ preSplit' \subseteq Tickets /\ priorLog' \subseteq Tickets
    BY DEF NoProcess
  <2>3. pos' \in 1..Len(PlanOrder) + 1 /\ sub' \in 1..Len(subs') + 1
    BY <1>1, <1>2 DEF NoProcess
  <2>4. ledger' \in Ledgers
    BY FreshLedgerType DEF NoProcess
  <2>5. QED
    BY <1>2, <2>1, <2>2, <2>3, <2>4 DEF TypeOK, durable
<1>4. Positions'
  BY DEF NoProcess, Positions, At
<1>5. QED
  BY <1>3, <1>4 DEF TypeInv

LEMMA TypeInit == Init => TypeInv
<1> SUFFICES ASSUME Init PROVE TypeInv
  OBVIOUS
<1>1. Len(PlanOrder) \in Nat /\ ForeignCommits \subseteq Tickets
  BY PlanConstants DEF Tickets
<1>2. subs \in Seq(Tickets) /\ results \in Seq(Reports) /\ Len(subs) = 0
  BY DEF Init
<1>4. TypeOK
  <2>1. /\ stage \in Stages /\ after \in Stages
        /\ command \in {"none", "run", "resume", "rerun-failed", "rerun-remaining"}
        /\ verdict \in Verdicts \cup {"PENDING"}
        /\ allPassed \in BOOLEAN /\ doneMet \in BOOLEAN
    BY DEF Init, Stages
  <2>2. /\ skipSet \subseteq Tickets /\ completed \subseteq Tickets
        /\ preSplit \subseteq Tickets /\ priorLog \subseteq Tickets
        /\ disk \in Statuses \cup {NoLedger, Torn}
        /\ log \subseteq Tickets /\ landed \subseteq Tickets
    BY <1>1 DEF Init
  <2>3. pos \in 1..Len(PlanOrder) + 1 /\ sub \in 1..Len(subs) + 1
    BY <1>1, <1>2 DEF Init
  <2>4. ledger \in Ledgers
    BY FreshLedgerType DEF Init
  <2>5. QED
    BY <1>2, <2>1, <2>2, <2>3, <2>4 DEF TypeOK
<1>5. Positions
  BY DEF Init, Positions, At
<1>6. QED
  BY <1>4, <1>5 DEF TypeInv

LEMMA TypeNext == TypeInv /\ [Next]_vars => TypeInv'
<1> SUFFICES ASSUME TypeInv, [Next]_vars PROVE TypeInv'
  OBVIOUS
<1>0. TypeOK
  BY DEF TypeInv
<1> USE DEF TypeInv, Positions, At, Stages
<1>1. CASE StartRun
  <2>1. disk' \in Statuses \cup {NoLedger, Torn}
    BY <1>1 DEF StartRun
  <2>2. priorLog' \subseteq Tickets
    BY <1>1, <1>0 DEF StartRun, TypeOK
  <2>3. skipSet' \subseteq Tickets
    BY <1>1 DEF StartRun, BeginRun, WithStatus
  <2>4. QED
    BY <1>1, <2>1, <2>2, <2>3 DEF StartRun, BeginRun, TypeOK, ticket
<1>2. ASSUME NEW c \in Commands, Continue(c) PROVE TypeInv'
  <2>1. Reconcile(disk) \in Statuses
    BY <1>2, ReconcileType DEF Continue, Loadable
  <2>0. c \in {"resume", "rerun-failed", "rerun-remaining"}
    BY PlanConstants
  <2>2. CASE UNCHANGED <<control, ticket, invoked, completed, ledger, results,
                         doneMet, log, landed>>
    BY <1>2, <2>1, <2>2 DEF Continue, TypeOK, control, ticket, invoked
  <2>3. CASE /\ BeginRun(c, Known(Reconcile(disk))
                            \ WithStatus(Reconcile(disk), Redone(c)))
             /\ priorLog' = log
    <3>1. skipSet' \subseteq Tickets /\ command' = c
      BY <2>3 DEF BeginRun, Known
    <3>2. QED
      BY <1>2, <2>0, <2>1, <2>3, <3>1 DEF Continue, BeginRun, TypeOK, ticket
  <2>4. QED
    BY <1>2, <2>2, <2>3 DEF Continue
<1>3. CASE SkipPrecompleted
  BY <1>3, <1>0, ParentType DEF SkipPrecompleted, TypeOK, ticket, invoked, durable
<1>4. CASE SkipTicket
  <2>1. Parent \in PlanTickets /\ Parent \in Tickets
    BY <1>4, <1>0, ParentType DEF SkipTicket
  <2>2. ledger' \in Ledgers
    BY <1>4, <1>0, <2>1, RecordResultType DEF SkipTicket, TypeOK, Verdicts
  <2>3. results' \in Seq(Reports)
    BY <1>4, <1>0, <2>1, ReportType DEF SkipTicket, Verdicts
  <2>4. QED
    BY <1>4, <2>2, <2>3 DEF SkipTicket, Snapshot, TypeOK, ticket, invoked
<1>5. CASE TakeTicket
  <2>1. Parent \in PlanTickets /\ Parent \in Tickets
    BY <1>5, <1>0, ParentType DEF TakeTicket
  <2>2. <<Parent>> \in Seq(Tickets)
    BY <2>1
  <2>3. SplitInto[Parent] \in Seq(Tickets)
    BY <2>1, PlanConstants DEF Tickets
  <2>4. subs' \in Seq(Tickets)
    BY <1>5, <2>2, <2>3 DEF TakeTicket
  <2>5. sub' = 1 /\ sub' \in 1..Len(subs') + 1
    BY <1>5, <2>4 DEF TakeTicket
  <2>6. QED
    BY <1>5, <2>4, <2>5 DEF TakeTicket, TypeOK, invoked, durable
<1>6. CASE SkipSub
  <2>1. Parent \in PlanTickets /\ Parent \in Tickets /\ Current \in Tickets
    BY <1>6, <1>0, ParentType, CurrentType DEF SkipSub
  <2>2. ledger' \in Ledgers
    BY <1>6, <1>0, <2>1, RecordResultType DEF SkipSub, TypeOK, Verdicts
  <2>3. results' \in Seq(Reports)
    BY <1>6, <1>0, <2>1, ReportType DEF SkipSub, Verdicts
  <2>4. sub' \in 1..Len(subs') + 1
    BY <1>6 DEF SkipSub, TypeOK
  <2>5. QED
    BY <1>6, <2>2, <2>3, <2>4 DEF SkipSub, Snapshot, TypeOK, invoked
<1>7. CASE Execute
  BY <1>7 DEF Execute, TypeOK, ticket, invoked, durable
<1>8. ASSUME NEW d \in {"PASS", "CODED_UNGOVERNED"}, CommitTicket(d)
      PROVE TypeInv'
  <2>1. Current \in Tickets
    BY <1>8, <1>0, CurrentType DEF CommitTicket
  <2>2. log' \subseteq Tickets /\ landed' \subseteq Tickets
    BY <1>8, <1>0, <2>1 DEF CommitTicket, TypeOK
  <2>3. QED
    BY <1>8, <2>2 DEF CommitTicket, TypeOK, invoked, Verdicts
<1>9. CASE FailTicket
  BY <1>9 DEF FailTicket, TypeOK, invoked, durable, Verdicts
<1>10. CASE SplitLastResort
  BY <1>10 DEF SplitLastResort, TypeOK, invoked, durable
<1>11. CASE ChildCommits
  <2>1. Current \in Tickets
    BY <1>11, <1>0, CurrentType DEF ChildCommits
  <2>2. log' \subseteq Tickets
    BY <1>11, <1>0, <2>1, PlanConstants DEF ChildCommits, TypeOK, Tickets
  <2>3. QED
    BY <1>11, <2>2 DEF ChildCommits, TypeOK, control, ticket, invoked
<1>12. CASE ChildrenPass
  <2>1. Current \in Tickets
    BY <1>12, <1>0, CurrentType DEF ChildrenPass
  <2>2. landed' \subseteq Tickets
    BY <1>12, <1>0, <2>1 DEF ChildrenPass, TypeOK
  <2>3. QED
    BY <1>12, <2>2 DEF ChildrenPass, TypeOK, invoked, durable, Verdicts
<1>13. CASE ChildFails
  BY <1>13 DEF ChildFails, TypeOK, invoked, Verdicts
<1>14. CASE OnCommitted
  <2>1. Parent \in Tickets /\ Current \in Tickets /\ verdict \in Verdicts
    BY <1>14, <1>0, ParentType, CurrentType DEF OnCommitted
  <2>2. ledger' \in Ledgers
    BY <1>14, <1>0, <2>1, RecordExecuted DEF OnCommitted, TypeOK
  <2>3. QED
    BY <1>14, <2>1, <2>2 DEF OnCommitted, Snapshot, TypeOK, ticket, invoked
<1>15. CASE RecordReturned
  <2>1. Parent \in Tickets /\ Current \in Tickets /\ verdict \in Verdicts
    BY <1>15, <1>0, ParentType, CurrentType DEF RecordReturned
  <2>2. ledger' \in Ledgers
    BY <1>15, <1>0, <2>1, RecordExecuted DEF RecordReturned, TypeOK
  <2>3. results' \in Seq(Reports)
    BY <1>15, <1>0, <2>1, ReportType DEF RecordReturned
  <2>4. QED
    BY <1>15, <2>1, <2>2, <2>3
       DEF RecordReturned, Snapshot, TypeOK, ticket, invoked
<1>16. CASE Settle
  <2>1. Current \in Tickets
    BY <1>16, <1>0, CurrentType DEF Settle
  <2>2. ledger' \in Ledgers
    BY <1>16, <1>0, CheckStopType DEF Settle, TypeOK
  <2>3. completed' \subseteq Tickets /\ sub' \in 1..Len(subs') + 1
        /\ allPassed' \in BOOLEAN
    BY <1>16, <1>0, <2>1 DEF Settle, TypeOK
  <2>4. QED
    BY <1>16, <2>2, <2>3 DEF Settle, Snapshot, TypeOK, invoked
<1>17. CASE NextTicket
  <2>1. Parent \in Tickets
    BY <1>17, <1>0, ParentType DEF NextTicket
  <2>2. completed' \subseteq Tickets /\ landed' \subseteq Tickets
        /\ pos' \in 1..Len(PlanOrder) + 1
    BY <1>17, <1>0, <2>1 DEF NextTicket, TypeOK
  <2>3. QED
    BY <1>17, <2>2 DEF NextTicket, TypeOK, ticket, invoked, durable
<1>18. CASE WriteSnapshot
  BY <1>18 DEF WriteSnapshot, TypeOK, ticket, invoked, Ledgers
<1>19. CASE Finish
  <2>1. doneMet' \in BOOLEAN
    BY <1>19 DEF Finish, DefinitionOfDoneMet
  <2>2. QED
    BY <1>19, <2>1 DEF Finish, Snapshot, TypeOK, ticket, invoked
<1>20. CASE Exit
  BY <1>20, <1>0, NoProcessType DEF Exit
<1>21. CASE Interrupt
  BY <1>21 DEF Interrupt, Snapshot, TypeOK, ticket, invoked
<1>22. CASE Crash
  BY <1>22, <1>0, NoProcessType DEF Crash
<1>23. CASE UNCHANGED vars
  BY <1>23 DEF vars, TypeOK, control, ticket, invoked, durable
<1>24. QED
  BY <1>1, <1>2, <1>3, <1>4, <1>5, <1>6, <1>7, <1>8, <1>9, <1>10, <1>11,
     <1>12, <1>13, <1>14, <1>15, <1>16, <1>17, <1>18, <1>19, <1>20, <1>21,
     <1>22, <1>23 DEF Next, Operator, LoopStep, TicketStep

\* Every variable of the run loop keeps its type (RunPlan!TypeOK).
THEOREM TypeCorrect == Spec => []TypeOK
<1>1. Init => TypeInv
  BY TypeInit
<1>2. TypeInv /\ [Next]_vars => TypeInv'
  BY TypeNext
<1>3. TypeInv => TypeOK
  BY DEF TypeInv
<1>4. QED
  BY <1>1, <1>2, <1>3, PTL DEF Spec
---------------------------------------------------------------------------
(* What is recorded is on the branch *)

\* The branch only ever holds commits of this plan, and git commit succeeds.
OwnBranch == ~CommitMayFail /\ ForeignCommits = {}

\* Neither the branch nor the ledger, in memory or on disk, names a ticket
\* whose code is not there.  A PENDING entry is a plan ticket's: that is why
\* the child commits of a last-resort split never promote one.
CodeInv ==
  /\ \A t \in PlanTickets : t \in log \cup preSplit => t \in landed
  /\ \A t \in Tickets : /\ IsCoded(ledger.status[t]) => t \in landed
                        /\ ledger.status[t] = "PENDING" => t \in PlanTickets
  /\ Loadable =>
       \A t \in Tickets : /\ IsCoded(disk[t]) => t \in landed
                          /\ disk[t] = "PENDING" => t \in PlanTickets
  /\ At({"committed", "returned", "settle"}) /\ IsCoded(verdict)
       => Current \in landed
  /\ command \in {"run", "resume"} => skipSet \subseteq landed

LEMMA FreshLedgerCode ==
  \A t \in Tickets : /\ ~IsCoded(FreshLedger.status[t])
                     /\ FreshLedger.status[t] = "PENDING" => t \in PlanTickets
  BY DEF FreshLedger, IsCoded

\* Reconciling with the branch promotes only tickets whose code is there.
LEMMA ReconcileCode ==
  ASSUME TypeInv, CodeInv, Loadable, NEW t \in Tickets
  PROVE  /\ IsCoded(Reconcile(disk)[t]) => t \in landed
         /\ Reconcile(disk)[t] = "PENDING" => t \in PlanTickets
  BY DEF Reconcile, CodeInv, IsCoded

LEMMA NotLoadable == NoLedger \notin Statuses /\ Torn \notin Statuses
  BY PlanConstants

LEMMA CodeInit == ASSUME OwnBranch, Init PROVE CodeInv
<1>1. log \cup preSplit = {}
  BY DEF Init, OwnBranch
<1>2. ~Loadable
  BY NotLoadable DEF Init, Loadable
<1>3. QED
  BY <1>1, <1>2, FreshLedgerCode DEF Init, CodeInv, At

LEMMA NoProcessCode ==
  ASSUME CodeInv, NoProcess, UNCHANGED <<durable, landed>>
  PROVE  CodeInv'
  BY FreshLedgerCode DEF CodeInv, NoProcess, durable, At, Loadable

\* Recording a disposition keeps the ledger honest when a coded verdict is
\* only recorded for a ticket that landed.
LEMMA RecordCode ==
  ASSUME TypeInv, CodeInv, NEW t \in Tickets, NEW d \in Verdicts,
         IsCoded(d) => t \in landed,
         ledger'.status = [ledger.status EXCEPT ![t] = d],
         landed' = landed
  PROVE  \A u \in Tickets :
           /\ IsCoded(ledger'.status[u]) => u \in landed'
           /\ ledger'.status[u] = "PENDING" => u \in PlanTickets
<1>1. ledger.status \in Statuses
  BY DEF TypeInv, TypeOK, Ledgers
<1>2. d # "PENDING"
  BY DEF Verdicts
<1>3. TAKE u \in Tickets
<1>4. ledger'.status[u] = IF u = t THEN d ELSE ledger.status[u]
  BY <1>1 DEF Statuses
<1>5. CASE u = t
  BY <1>2, <1>4, <1>5
<1>6. CASE u # t
  <2>1. ledger'.status[u] = ledger.status[u]
    BY <1>4, <1>6
  <2>2. QED
    BY <2>1 DEF CodeInv, IsCoded
<1>7. QED
  BY <1>5, <1>6

\* A step that leaves the ledger, the file and the skip set alone.
LEMMA CodeKept ==
  ASSUME CodeInv, landed \subseteq landed',
         UNCHANGED <<ledger, disk, command, skipSet>>,
         \A t \in PlanTickets : t \in log' \cup preSplit' => t \in landed',
         At({"committed", "returned", "settle"})' /\ IsCoded(verdict')
           => Current' \in landed'
  PROVE  CodeInv'
<1>1. \A t \in Tickets : /\ IsCoded(ledger'.status[t]) => t \in landed'
                         /\ ledger'.status[t] = "PENDING" => t \in PlanTickets
  BY DEF CodeInv, IsCoded
<1>2. Loadable' =>
        \A t \in Tickets : /\ IsCoded(disk'[t]) => t \in landed'
                           /\ disk'[t] = "PENDING" => t \in PlanTickets
  BY DEF CodeInv, Loadable
<1>3. command' \in {"run", "resume"} => skipSet' \subseteq landed'
  BY DEF CodeInv
<1>4. QED
  BY <1>1, <1>2, <1>3 DEF CodeInv

LEMMA CodeNext ==
  ASSUME OwnBranch, TypeInv, CodeInv, [Next]_vars
  PROVE  CodeInv'
<1>0. TypeOK
  BY DEF TypeInv
<1> USE NotLoadable
<1>1. CASE StartRun
  <2>1. ~Loadable'
    BY <1>1 DEF StartRun, Loadable
  <2>2. skipSet' \subseteq landed'
    BY <1>1, ReconcileCode DEF StartRun, BeginRun, WithStatus, IsCoded
  <2>3. QED
    BY <1>1, <2>1, <2>2 DEF StartRun, BeginRun, CodeInv, At, ticket
<1>2. ASSUME NEW c \in Commands, Continue(c) PROVE CodeInv'
  <2>1. disk' = Reconcile(disk) /\ Loadable
    BY <1>2 DEF Continue
  <2>2. \A t \in Tickets : /\ IsCoded(disk'[t]) => t \in landed
                           /\ disk'[t] = "PENDING" => t \in PlanTickets
    BY <2>1, ReconcileCode
  <2>3. CASE UNCHANGED <<control, ticket, invoked, completed, ledger, results,
                         doneMet, log, landed>>
    BY <2>2, <2>3 DEF CodeInv, control, ticket, invoked, At, Current
  <2>4. CASE BeginRun(c, Known(Reconcile(disk))
                           \ WithStatus(Reconcile(disk), Redone(c)))
    <3>1. c \in {"run", "resume"} => skipSet' \subseteq landed'
      <4>1. SUFFICES ASSUME c = "resume", NEW t \in skipSet'
                     PROVE  t \in landed'
        BY PlanConstants
      <4>2. t \in Tickets /\ disk'[t] # "ABSENT"
            /\ disk'[t] \notin {"FAIL", "SKIP", "PENDING"}
        BY <2>1, <2>4, <4>1 DEF BeginRun, Known, WithStatus, Redone
      <4>3. disk' \in Statuses
        BY <2>1, ReconcileType DEF Loadable
      <4>4. IsCoded(disk'[t])
        BY <4>2, <4>3 DEF Statuses, Verdicts, IsCoded
      <4>5. QED
        BY <2>2, <2>4, <4>2, <4>4 DEF BeginRun
    <3>2. QED
      BY <2>2, <2>4, <3>1 DEF BeginRun, CodeInv, At, ticket
  <2>5. QED
    BY <1>2, <2>3, <2>4 DEF Continue
<1>3. CASE SkipPrecompleted
  BY <1>3 DEF SkipPrecompleted, CodeInv, At, ticket, invoked, durable, Loadable
<1>4. CASE SkipTicket
  <2>1. Parent \in Tickets
    BY <1>4, <1>0, ParentType DEF SkipTicket
  <2>2. ledger'.status = [ledger.status EXCEPT ![Parent] = "SKIP"]
    BY <1>4, <1>0, <2>1, RecordResultType DEF SkipTicket, TypeOK, Verdicts
  <2>3. \A u \in Tickets : /\ IsCoded(ledger'.status[u]) => u \in landed'
                           /\ ledger'.status[u] = "PENDING" => u \in PlanTickets
    BY <1>4, <2>1, <2>2, RecordCode DEF SkipTicket, Verdicts, IsCoded
  <2>4. QED
    BY <1>4, <2>3 DEF SkipTicket, Snapshot, CodeInv, At, Loadable, ticket, invoked
<1>5. CASE TakeTicket
  BY <1>5 DEF TakeTicket, CodeInv, At, invoked, durable, Loadable
<1>6. CASE SkipSub
  <2>1. Parent \in Tickets /\ Current \in Tickets
    BY <1>6, <1>0, ParentType, CurrentType DEF SkipSub, TypeInv, Positions, At
  <2>2. ledger'.status = [ledger.status EXCEPT ![Current] = "SKIP"]
    BY <1>6, <1>0, <2>1, RecordResultType DEF SkipSub, TypeOK, Verdicts
  <2>3. \A u \in Tickets : /\ IsCoded(ledger'.status[u]) => u \in landed'
                           /\ ledger'.status[u] = "PENDING" => u \in PlanTickets
    BY <1>6, <2>1, <2>2, RecordCode DEF SkipSub, Verdicts, IsCoded
  <2>4. QED
    BY <1>6, <2>3 DEF SkipSub, Snapshot, CodeInv, At, Loadable, invoked
<1>7. CASE Execute
  BY <1>7 DEF Execute, CodeInv, At, ticket, invoked, durable, Loadable
<1>8. ASSUME NEW d \in {"PASS", "CODED_UNGOVERNED"}, CommitTicket(d)
      PROVE CodeInv'
  <2>1. log' = log \cup {Current} /\ landed' = landed \cup {Current}
        /\ preSplit' = preSplit /\ Current' = Current
    BY <1>8 DEF CommitTicket, OwnBranch, Current
  <2>2. \A t \in PlanTickets : t \in log' \cup preSplit' => t \in landed'
    BY <2>1 DEF CodeInv
  <2>3. UNCHANGED <<ledger, disk, command, skipSet>>
    BY <1>8 DEF CommitTicket, invoked
  <2>4. QED
    BY <2>1, <2>2, <2>3, CodeKept
<1>9. CASE FailTicket
  BY <1>9 DEF FailTicket, CodeInv, At, invoked, durable, Loadable, IsCoded
<1>10. CASE SplitLastResort
  BY <1>10 DEF SplitLastResort, CodeInv, At, invoked, durable, Loadable
<1>11. CASE ChildCommits
  <2>1. Current \in Tickets
    BY <1>11, <1>0, CurrentType DEF ChildCommits, TypeInv, Positions, At
  <2>2. PICK c \in ChildrenOf[Current] : log' = log \cup {c}
    BY <1>11 DEF ChildCommits
  <2>3. c \notin PlanTickets
    BY <2>1, <2>2, PlanConstants, LedgerConstants
  <2>4. UNCHANGED <<control, ticket, invoked, ledger, disk, landed>>
    BY <1>11 DEF ChildCommits
  <2>5. QED
    BY <2>2, <2>3, <2>4 DEF CodeInv, At, control, ticket, invoked, Loadable, Current
<1>12. CASE ChildrenPass
  <2>1. landed' = landed \cup {Current} /\ Current' = Current
    BY <1>12 DEF ChildrenPass, OwnBranch, Current
  <2>2. UNCHANGED <<ledger, disk, command, skipSet, log, preSplit>>
    BY <1>12 DEF ChildrenPass, invoked, durable
  <2>3. \A t \in PlanTickets : t \in log' \cup preSplit' => t \in landed'
    BY <2>1, <2>2 DEF CodeInv
  <2>4. QED
    BY <2>1, <2>2, <2>3, CodeKept
<1>13. CASE ChildFails
  BY <1>13 DEF ChildFails, CodeInv, At, invoked, Loadable, IsCoded
<1>14. CASE OnCommitted
  <2>1. Parent \in Tickets /\ Current \in Tickets /\ verdict \in Verdicts
    BY <1>14, <1>0, ParentType, CurrentType DEF OnCommitted, TypeInv, Positions, At
  <2>2. ledger'.status = [ledger.status EXCEPT ![Current] = verdict]
    BY <1>14, <1>0, <2>1, RecordExecuted DEF OnCommitted, TypeOK
  <2>3. IsCoded(verdict) => Current \in landed
    BY <1>14 DEF OnCommitted, CodeInv, At
  <2>4. \A u \in Tickets : /\ IsCoded(ledger'.status[u]) => u \in landed'
                           /\ ledger'.status[u] = "PENDING" => u \in PlanTickets
    BY <1>14, <2>1, <2>2, <2>3, RecordCode DEF OnCommitted
  <2>5. QED
    BY <1>14, <2>3, <2>4
       DEF OnCommitted, Snapshot, CodeInv, At, Loadable, ticket, invoked, Current
<1>15. CASE RecordReturned
  <2>1. Parent \in Tickets /\ Current \in Tickets /\ verdict \in Verdicts
    BY <1>15, <1>0, ParentType, CurrentType DEF RecordReturned, TypeInv, Positions, At
  <2>2. ledger'.status = [ledger.status EXCEPT ![Current] = verdict]
    BY <1>15, <1>0, <2>1, RecordExecuted DEF RecordReturned, TypeOK
  <2>3. IsCoded(verdict) => Current \in landed
    BY <1>15 DEF RecordReturned, CodeInv, At
  <2>4. \A u \in Tickets : /\ IsCoded(ledger'.status[u]) => u \in landed'
                           /\ ledger'.status[u] = "PENDING" => u \in PlanTickets
    BY <1>15, <2>1, <2>2, <2>3, RecordCode DEF RecordReturned
  <2>5. QED
    BY <1>15, <2>3, <2>4
       DEF RecordReturned, Snapshot, CodeInv, At, Loadable, ticket, invoked, Current
<1>16. CASE Settle
  <2>1. ledger'.status = ledger.status
    BY <1>16, <1>0, CheckStopType DEF Settle, TypeOK
  <2>2. ~At({"committed", "returned", "settle"})'
    BY <1>16 DEF Settle, Snapshot, At
  <2>3. disk' = disk \/ ~Loadable'
    BY <1>16 DEF Settle, Snapshot, Loadable
  <2>4. QED
    BY <1>16, <2>1, <2>2, <2>3 DEF Settle, CodeInv, Loadable, invoked
<1>17. CASE NextTicket
  <2>1. landed \subseteq landed'
    BY <1>17 DEF NextTicket
  <2>2. UNCHANGED <<ledger, disk, command, skipSet, log, preSplit>>
    BY <1>17 DEF NextTicket, invoked, durable, ticket
  <2>3. \A t \in PlanTickets : t \in log' \cup preSplit' => t \in landed'
    BY <2>1, <2>2 DEF CodeInv
  <2>4. ~At({"committed", "returned", "settle"})'
    BY <1>17 DEF NextTicket, At
  <2>5. QED
    BY <2>1, <2>2, <2>3, <2>4, CodeKept
<1>18. CASE WriteSnapshot
  <2>1. UNCHANGED <<ledger, command, skipSet, log, preSplit, landed, verdict,
                    Current>>
    BY <1>18 DEF WriteSnapshot, invoked, ticket, Current
  <2>2. disk' = ledger.status
    BY <1>18 DEF WriteSnapshot
  <2>3. \A t \in Tickets : /\ IsCoded(disk'[t]) => t \in landed'
                           /\ disk'[t] = "PENDING" => t \in PlanTickets
    BY <2>1, <2>2 DEF CodeInv, IsCoded
  <2>4. At({"committed", "returned", "settle"})'
          => At({"committed", "returned", "settle"})
    BY <1>18 DEF WriteSnapshot, At
  <2>5. At({"committed", "returned", "settle"})' /\ IsCoded(verdict')
          => Current' \in landed'
    BY <2>1, <2>4 DEF CodeInv
  <2>6. QED
    BY <2>1, <2>3, <2>5 DEF CodeInv
<1>19. CASE Finish
  BY <1>19 DEF Finish, Snapshot, CodeInv, At, Loadable, ticket, invoked
<1>20. CASE Exit
  BY <1>20, NoProcessCode DEF Exit
<1>21. CASE Interrupt
  BY <1>21 DEF Interrupt, Snapshot, CodeInv, At, Loadable, ticket, invoked
<1>22. CASE Crash
  BY <1>22, NoProcessCode DEF Crash
<1>23. CASE UNCHANGED vars
  BY <1>23 DEF vars, CodeInv, At, Loadable, control, ticket, invoked, durable, Current
<1>24. QED
  BY <1>1, <1>2, <1>3, <1>4, <1>5, <1>6, <1>7, <1>8, <1>9, <1>10, <1>11,
     <1>12, <1>13, <1>14, <1>15, <1>16, <1>17, <1>18, <1>19, <1>20, <1>21,
     <1>22, <1>23 DEF Next, Operator, LoopStep, TicketStep

\* What ledger.json calls done is on the branch, and so is what resume skips,
\* whatever the plan, the commands, the crashes and the interrupts, as long
\* as git commits succeed and the branch holds no other plan's commits
\* (RunPlan!RecordedHasCode).
THEOREM RecordedWorkIsThere ==
  ASSUME OwnBranch
  PROVE  Spec => []RecordedHasCode
<1>1. Init => TypeInv /\ CodeInv
  BY TypeInit, CodeInit
<1>2. TypeInv /\ CodeInv /\ [Next]_vars => (TypeInv /\ CodeInv)'
  BY TypeNext, CodeNext
<1>3. TypeInv /\ CodeInv => RecordedHasCode
  BY DEF CodeInv, RecordedHasCode, WithStatus, IsCoded
<1>4. QED
  BY <1>1, <1>2, <1>3, PTL DEF Spec
---------------------------------------------------------------------------
(* The order of the dependencies *)

\* The operator continues a build with resume and with nothing else.
OnlyResume == Commands \subseteq {"resume"}

InLoop == At({"sub", "exec", "children", "committed", "returned", "settle"})

\* What counts as completed has landed, the sub-tickets passed so far as well.
OrderInv ==
  /\ stage # "idle" => command \in {"run", "resume"}
  /\ completed \subseteq landed
  /\ InLoop /\ allPassed => \A k \in 1..sub - 1 : subs[k] \in landed
  /\ stage = "exec" => Deps[Current] \subseteq landed
  /\ after # "exec"

\* A step that leaves the bookkeeping of the loop alone.
LEMMA OrderKept ==
  ASSUME OrderInv, landed \subseteq landed', stage # "idle", stage' # "exec",
         UNCHANGED <<command, completed>>, InLoop' => InLoop,
         after' \in {after, "returned", "settle", "closed", "interrupted"},
         UNCHANGED <<subs, sub, allPassed>>
  PROVE  OrderInv'
  BY DEF OrderInv

LEMMA NoProcessOrder ==
  ASSUME NoProcess, UNCHANGED landed
  PROVE  OrderInv'
  BY DEF NoProcess, OrderInv, InLoop, At

LEMMA OrderNext ==
  ASSUME OwnBranch, OnlyResume, TypeInv, CodeInv, OrderInv, [Next]_vars
  PROVE  OrderInv'
<1>0. TypeOK
  BY DEF TypeInv
<1>1. CASE StartRun
  BY <1>1 DEF StartRun, BeginRun, ticket, OrderInv, InLoop, At
<1>2. ASSUME NEW c \in Commands, Continue(c) PROVE OrderInv'
  <2>1. c = "resume"
    BY DEF OnlyResume
  <2>2. QED
    BY <1>2, <2>1 DEF Continue, BeginRun, ticket, OrderInv, InLoop, At
<1>3. CASE SkipPrecompleted
  <2>1. Parent \in landed
    BY <1>3 DEF SkipPrecompleted, CodeInv, OrderInv
  <2>2. stage' # "exec" /\ ~InLoop' /\ after' = after
    BY <1>3 DEF SkipPrecompleted, InLoop, At
  <2>3. QED
    BY <1>3, <2>1, <2>2 DEF SkipPrecompleted, OrderInv, invoked
<1>4. CASE SkipTicket
  BY <1>4 DEF SkipTicket, Snapshot, OrderInv, InLoop, At, invoked
<1>5. CASE TakeTicket
  <2>1. sub' = 1 /\ stage' = "sub"
    BY <1>5 DEF TakeTicket
  <2>2. QED
    BY <1>5, <2>1 DEF TakeTicket, OrderInv, invoked
<1>6. CASE SkipSub
  BY <1>6 DEF SkipSub, Snapshot, OrderInv, InLoop, At, invoked
<1>7. CASE Execute
  <2>1. Deps[Current] \subseteq landed
    BY <1>7 DEF Execute, Unmet, OrderInv
  <2>2. InLoop
    BY <1>7 DEF Execute, InLoop, At
  <2>3. QED
    BY <1>7, <2>1, <2>2 DEF Execute, OrderInv, ticket, invoked, Current
<1>8. ASSUME NEW d \in {"PASS", "CODED_UNGOVERNED"}, CommitTicket(d)
      PROVE OrderInv'
  BY <1>8, OrderKept DEF CommitTicket, OwnBranch, InLoop, At, invoked
<1>9. CASE FailTicket
  BY <1>9, OrderKept DEF FailTicket, InLoop, At, invoked
<1>10. CASE SplitLastResort
  BY <1>10, OrderKept DEF SplitLastResort, InLoop, At, invoked
<1>11. CASE ChildCommits
  BY <1>11, OrderKept DEF ChildCommits, InLoop, At, control, ticket, invoked
<1>12. CASE ChildrenPass
  BY <1>12, OrderKept DEF ChildrenPass, InLoop, At, invoked
<1>13. CASE ChildFails
  BY <1>13, OrderKept DEF ChildFails, InLoop, At, invoked
<1>14. CASE OnCommitted
  BY <1>14, OrderKept DEF OnCommitted, Snapshot, InLoop, At, ticket, invoked
<1>15. CASE RecordReturned
  BY <1>15, OrderKept DEF RecordReturned, Snapshot, InLoop, At, ticket, invoked
<1>16. CASE Settle
  <2>1. InLoop /\ verdict \in Verdicts /\ sub \in Nat
    BY <1>16, <1>0 DEF Settle, InLoop, At, TypeInv, Positions, TypeOK
  <2>2. verdict = "PASS" => Current \in landed
    BY <1>16 DEF Settle, CodeInv, At, IsCoded
  <2>3. completed' \subseteq landed'
    BY <1>16, <2>2 DEF Settle, OrderInv
  <2>4. allPassed' => \A k \in 1..sub' - 1 : subs'[k] \in landed'
    <3>1. SUFFICES ASSUME allPassed', NEW k \in 1..sub' - 1
                   PROVE  subs[k] \in landed
      BY <1>16 DEF Settle
    <3>2. allPassed /\ verdict = "PASS" /\ sub' = sub + 1
      BY <1>16, <3>1 DEF Settle
    <3>3. CASE k = sub
      BY <2>2, <3>2, <3>3 DEF Current
    <3>4. CASE k # sub
      BY <2>1, <3>2, <3>4 DEF OrderInv
    <3>5. QED
      BY <3>3, <3>4
  <2>5. /\ stage' # "exec" /\ command' = command /\ stage # "idle"
        /\ after' \in {after, "finish"}
    BY <1>16 DEF Settle, Snapshot, invoked
  <2>6. QED
    BY <2>3, <2>4, <2>5 DEF OrderInv
<1>17. CASE NextTicket
  <2>1. landed \subseteq landed' /\ stage' = "plan" /\ stage = "sub"
    BY <1>17 DEF NextTicket
  <2>2. ASSUME allPassed PROVE Parent \in landed'
    <3>1. \A k \in DOMAIN subs : k \in 1..sub - 1
      BY <1>17, <1>0 DEF NextTicket, TypeOK
    <3>2. InLoop
      BY <2>1 DEF InLoop, At
    <3>3. Elements(subs) \subseteq landed
      BY <2>2, <3>1, <3>2 DEF OrderInv, Elements
    <3>4. QED
      BY <1>17, <3>3 DEF NextTicket
  <2>3. completed' \subseteq landed'
    BY <1>17, <2>1, <2>2 DEF NextTicket, OrderInv
  <2>4. ~InLoop' /\ command' = command /\ after' = after
    BY <1>17 DEF NextTicket, InLoop, At, invoked
  <2>5. QED
    BY <2>1, <2>3, <2>4 DEF OrderInv
<1>18. CASE WriteSnapshot
  <2>1. stage' # "exec"
    BY <1>18 DEF WriteSnapshot, OrderInv
  <2>2. QED
    BY <1>18, <2>1, OrderKept DEF WriteSnapshot, InLoop, At, ticket, invoked
<1>19. CASE Finish
  BY <1>19, OrderKept DEF Finish, Snapshot, InLoop, At, ticket, invoked
<1>20. CASE Exit
  BY <1>20, NoProcessOrder DEF Exit
<1>21. CASE Interrupt
  BY <1>21, OrderKept DEF Interrupt, InTicket, Snapshot, InLoop, At, ticket, invoked
<1>22. CASE Crash
  BY <1>22, NoProcessOrder DEF Crash
<1>23. CASE UNCHANGED vars
  BY <1>23 DEF vars, OrderInv, InLoop, At, control, ticket, invoked, Current
<1>24. QED
  BY <1>1, <1>2, <1>3, <1>4, <1>5, <1>6, <1>7, <1>8, <1>9, <1>10, <1>11,
     <1>12, <1>13, <1>14, <1>15, <1>16, <1>17, <1>18, <1>19, <1>20, <1>21,
     <1>22, <1>23 DEF Next, Operator, LoopStep, TicketStep

\* No ticket is given to the coder before the code of everything it depends
\* on is on the branch, for every plan, every split and every interruption,
\* when builds are continued with resume (RunPlan!DependenciesLanded).  It
\* rests on CodeInv: resume's skip set counts as completed.
THEOREM DependenciesFirst ==
  ASSUME OwnBranch, OnlyResume
  PROVE  Spec => []DependenciesLanded
<1>1. Init => TypeInv /\ CodeInv /\ OrderInv
  BY TypeInit, CodeInit DEF Init, OrderInv, InLoop, At
<1>2. TypeInv /\ CodeInv /\ OrderInv /\ [Next]_vars
        => (TypeInv /\ CodeInv /\ OrderInv)'
  BY TypeNext, CodeNext, OrderNext
<1>3. OrderInv => DependenciesLanded
  BY DEF OrderInv, DependenciesLanded
<1>4. QED
  BY <1>1, <1>2, <1>3, PTL DEF Spec
---------------------------------------------------------------------------
(* The contract of a ticket *)

\* A snapshot is written between the steps of a ticket, never inside one.
Flushes == stage = "flush" => after \notin {"idle", "exec", "children",
                                            "committed", "flush"}

\* The state of TicketOutcome.
AStage == IF ComesBack THEN "returned" ELSE IF Executing THEN stage ELSE "idle"
ACurrent == IF Executing THEN Current ELSE NoTicket
APreSplit == IF stage = "children" THEN preSplit ELSE {}
AVerdict == IF ComesBack THEN verdict ELSE "PENDING"
Seen == <<AStage, ACurrent, log, APreSplit, AVerdict>>

LEMMA FlushesNext == Flushes /\ [Next]_vars => Flushes'
<1> SUFFICES ASSUME Flushes, [Next]_vars PROVE Flushes'
  OBVIOUS
<1>1. CASE Operator
  BY <1>1 DEF Operator, StartRun, Continue, BeginRun, control, Flushes
<1>2. CASE LoopStep
  BY <1>2 DEF LoopStep, SkipPrecompleted, SkipTicket, TakeTicket, SkipSub, Execute,
     OnCommitted, RecordReturned, Settle, NextTicket, WriteSnapshot, Finish, Exit,
     Snapshot, NoProcess, Flushes
<1>3. CASE TicketStep
  BY <1>3 DEF TicketStep, CommitTicket, FailTicket, SplitLastResort, ChildCommits,
     ChildrenPass, ChildFails, control, Flushes
<1>4. CASE Interrupt \/ Crash \/ UNCHANGED vars
  BY <1>4 DEF Interrupt, Crash, Snapshot, NoProcess, vars, control, Flushes
<1>5. QED
  BY <1>1, <1>2, <1>3, <1>4 DEF Next

\* A process that leaves a ticket, or never had one, and keeps the branch.
LEMMA Leaves ==
  ASSUME ~Executing', log' = log
  PROVE  Outcome!Leave \/ UNCHANGED Seen
<1>1. /\ AStage' = "idle" /\ ACurrent' = NoTicket /\ APreSplit' = {}
      /\ AVerdict' = "PENDING"
  BY DEF Executing, ComesBack, AStage, ACurrent, APreSplit, AVerdict
<1>2. CASE Executing
  <2>1. AStage # "idle"
    BY <1>2 DEF AStage, Executing, ComesBack
  <2>2. QED
    BY <1>1, <2>1 DEF Outcome!Leave, AStage, ACurrent, APreSplit, AVerdict
<1>3. CASE ~Executing
  BY <1>1, <1>3 DEF Seen, Executing, ComesBack, AStage, ACurrent, APreSplit, AVerdict
<1>4. QED
  BY <1>2, <1>3

LEMMA StepOutcome ==
  ASSUME TypeInv, Flushes, [Next]_vars
  PROVE  Outcome!Next \/ UNCHANGED Seen
<1> USE DEF ComesBack, Executing, AStage, ACurrent, APreSplit, AVerdict
<1>1. ASSUME ~Executing', log' = log
      PROVE  Outcome!Next \/ UNCHANGED Seen
  BY <1>1, Leaves DEF Outcome!Next
<1>2. CASE Operator
  <2>1. CASE StartRun
    BY <1>1, <2>1 DEF StartRun, BeginRun
  <2>2. ASSUME NEW c \in Commands, Continue(c)
        PROVE  ~Executing' /\ log' = log
    BY <2>2 DEF Continue, BeginRun, control
  <2>3. QED
    BY <1>1, <1>2, <2>1, <2>2 DEF Operator
<1>3. CASE SkipPrecompleted \/ SkipTicket \/ TakeTicket \/ SkipSub \/ Settle
           \/ NextTicket \/ Finish \/ Exit \/ RecordReturned \/ Crash
  BY <1>1, <1>3 DEF SkipPrecompleted, SkipTicket, TakeTicket, SkipSub, Settle,
     NextTicket, Finish, Exit, RecordReturned, Crash, Snapshot, NoProcess, durable
<1>4. CASE Interrupt
  BY <1>1, <1>4 DEF Interrupt, Snapshot
<1>5. CASE OnCommitted
  BY <1>5 DEF OnCommitted, Snapshot, Seen, ticket, Current
<1>6. CASE WriteSnapshot
  <2>1. CASE after = "returned"
    BY <1>6, <2>1 DEF WriteSnapshot, Seen, ticket, Current
  <2>2. CASE after # "returned"
    BY <1>1, <1>6, <2>2 DEF WriteSnapshot, Flushes
  <2>3. QED
    BY <2>1, <2>2
<1>7. CASE Execute
  <2>1. Current \in Tickets /\ Current' = Current
    BY <1>7, CurrentType DEF Execute, Current, TypeInv
  <2>2. Outcome!Take(Current)
    BY <1>7, <2>1 DEF Execute, Outcome!Take, durable, ticket
  <2>3. QED
    BY <2>1, <2>2 DEF Outcome!Next
<1>8. CASE TicketStep
  <2>1. ASSUME NEW d \in {"PASS", "CODED_UNGOVERNED"}, CommitTicket(d)
        PROVE  Outcome!CommitTicket(d)
    BY <2>1 DEF CommitTicket, Outcome!CommitTicket, Outcome!Return, Current
  <2>2. FailTicket => Outcome!FailTicket
    BY DEF FailTicket, Outcome!FailTicket, Outcome!Return, Current, durable
  <2>3. SplitLastResort => Outcome!SplitLastResort
    BY DEF SplitLastResort, Outcome!SplitLastResort, Current, durable
  <2>4. ChildCommits => Outcome!ChildCommits
    BY DEF ChildCommits, Outcome!ChildCommits, Current, control, ticket
  <2>5. ChildrenPass => Outcome!ChildrenPass
    BY DEF ChildrenPass, Outcome!ChildrenPass, Outcome!Return, Current, durable
  <2>6. ChildFails => Outcome!ChildFails
    BY DEF ChildFails, Outcome!ChildFails, Outcome!Return, Current
  <2>7. QED
    BY <1>8, <2>1, <2>2, <2>3, <2>4, <2>5, <2>6 DEF TicketStep, Outcome!Next
<1>9. CASE UNCHANGED vars
  BY <1>9 DEF vars, control, ticket, durable, Seen, Current
<1>10. QED
  BY <1>2, <1>3, <1>4, <1>5, <1>6, <1>7, <1>8, <1>9 DEF Next, LoopStep

\* Between taking a ticket and getting it back the loop relies on nothing but
\* the contract TicketOutcome, whose other side TicketAttempts keeps, and no
\* record, snapshot, interrupt or crash of it changes what is committed
\* (run_plan; RunPlan!KeepsContract).
THEOREM LoopKeepsContract == Spec => KeepsContract
<1>1. Init => Outcome!Init
  BY PlanConstants DEF Init, Outcome!Init, ComesBack, Executing, Tickets
<1>2. Init => TypeInv /\ Flushes
  BY TypeInit DEF Init, Flushes
<1>3. TypeInv /\ Flushes /\ [Next]_vars => (TypeInv /\ Flushes)'
  BY TypeNext, FlushesNext
<1>4. TypeInv /\ Flushes /\ [Next]_vars => [Outcome!Next]_(Outcome!vars)
  <2> SUFFICES ASSUME TypeInv, Flushes, [Next]_vars
               PROVE  Outcome!Next \/ UNCHANGED Outcome!vars
    OBVIOUS
  <2>1. Outcome!Next \/ UNCHANGED Seen
    BY StepOutcome
  <2>2. QED
    BY <2>1 DEF Seen, Outcome!vars, AStage, ACurrent, APreSplit, AVerdict
<1>5. QED
  BY <1>1, <1>2, <1>3, <1>4, PTL DEF Spec, KeepsContract, Outcome!Spec
---------------------------------------------------------------------------
(* The ledger is exact *)

\* No two tickets share an id: plan_parser refuses a plan with a duplicate,
\* and a sub-ticket's id starts with its parent's.  That a split names no
\* sub-ticket twice is up to the coder that proposes it.
DistinctIds ==
  /\ \A i, j \in DOMAIN PlanOrder : PlanOrder[i] = PlanOrder[j] => i = j
  /\ \A t \in PlanTickets : \A i, j \in DOMAIN SplitInto[t] :
       SplitInto[t][i] = SplitInto[t][j] => i = j
  /\ \A t, u \in PlanTickets :
       t # u => Elements(SplitInto[t]) \cap Elements(SplitInto[u]) = {}

Loop == {"sub", "exec", "children", "committed", "returned", "settle"}
Going == Loop \cup {"idle", "plan"}
TicketsOf(p) == {p} \cup Elements(SplitInto[p])

\* Where the reports so far come from: tickets the loop has passed, and the
\* sub-tickets before the one at hand.
PlaceInv ==
  /\ At(Loop) => subs \in {<<Parent>>, SplitInto[Parent]}
  /\ At({"committed"}) => IsCoded(verdict)
  /\ At(Going) => \A k \in DOMAIN results :
       \/ \E i \in 1..pos - 1 : /\ results[k].parent = PlanOrder[i]
                                /\ results[k].ticket \in TicketsOf(PlanOrder[i])
       \/ /\ At(Loop) /\ results[k].parent = Parent
          /\ \E j \in 1..sub : /\ results[k].ticket = subs[j]
                               /\ j = sub => At({"settle"})

\* The ledger l has the dispositions that res reports; what is not reported
\* is as it was in the beginning, the tickets of S excepted.
Matched(l, res, S) ==
  /\ \A k \in DOMAIN res : l.status[res[k].ticket] = res[k].verdict
  /\ \A t \in Tickets \ S : \/ \E k \in DOMAIN res : res[k].ticket = t
                            \/ l.status[t] = FreshLedger.status[t]
  /\ l.skipped = Cardinality({k \in DOMAIN res : res[k].verdict = "SKIP"})

\* Before its return a committed ticket has been recorded by the callback.
MatchInv ==
  ~At({"interrupted"}) =>
    /\ At({"returned"}) =>
         /\ Matched(ledger, results, {Current})
         /\ ledger.status[Current] \in {FreshLedger.status[Current], verdict}
         /\ ~IsCoded(verdict) => ledger.status[Current] = FreshLedger.status[Current]
    /\ ~At({"returned"}) => Matched(ledger, results, {})

\* The tickets that are failing after the reports res.
FailingIn(res) ==
  {res[k].parent : k \in {m \in DOMAIN res :
     /\ res[m].verdict = "FAIL"
     /\ \A n \in m..Len(res) : ~IsCoded(res[n].verdict)}}

\* The failures are counted by parents; the one that failed last is known.
Counts(l, res) == /\ l.failures = Cardinality(FailingIn(res))
                  /\ l.lastParent \in FailingIn(res) \cup {NoTicket}

LastFailing == At(Going) /\ pos <= Len(PlanOrder) /\ Parent \in FailingIn(results)
                 => ledger.lastParent = Parent

CountInv == \/ At({"interrupted"})
            \/ At({"returned"}) /\ IsCoded(verdict)
            \/ Counts(ledger, results) /\ LastFailing

PhasesAgree(l) ==
  \A p \in Phases :
    LET seen == {l.status[t] : t \in PhaseTickets(p)} IN
    /\ l.phase[p] = "PASS" => seen \subseteq {"PASS"}
    /\ l.phase[p] = "FAIL" => "PENDING" \notin seen /\ ~(seen \subseteq {"PASS"})

ClosedInv == stage = "closed" => disk = ledger.status

LedgerInv == PlaceInv /\ MatchInv /\ CountInv /\ PhasesAgree(ledger)
               /\ ClosedInv

\* What a record changes of the counters.
LEMMA RecordFields ==
  ASSUME NEW l \in Ledgers, NEW t \in Tickets, NEW d \in Verdicts,
         NEW p \in Tickets
  PROVE  LET r == RecordResult(l, t, d, p)
         IN  /\ r.failures = IF IsCoded(d) THEN 0
                             ELSE l.failures + One(NewFailure(l, d, p))
             /\ r.lastParent = IF IsCoded(d) THEN NoTicket
                               ELSE IF d = "FAIL" THEN p ELSE l.lastParent
             /\ r.skipped = l.skipped + One(d = "SKIP")
             /\ r.phase = l.phase
BY DEF RecordResult, Ledgers

LEMMA UpdateFields ==
  ASSUME NEW l \in Ledgers, NEW t \in Tickets
  PROVE  LET u == UpdatePhase(l, t)
         IN  /\ u.failures = l.failures /\ u.lastParent = l.lastParent
             /\ u.skipped = l.skipped
BY DEF UpdatePhase, Ledgers

LEMMA ReportAppended ==
  ASSUME NEW res \in Seq(Reports), NEW e
  PROVE  LET q == Append(res, e)
         IN  /\ Len(res) \in Nat /\ DOMAIN res = 1..Len(res)
             /\ DOMAIN q = 1..(Len(res) + 1) /\ Len(q) = Len(res) + 1
             /\ \A k \in 1..Len(res) : q[k] = res[k]
             /\ q[Len(res) + 1] = e
OBVIOUS

\* What a report changes of the tickets that are failing.
LEMMA FailingAppended ==
  ASSUME NEW res \in Seq(Reports), NEW e \in Reports
  PROVE  /\ IsFiniteSet(FailingIn(res))
         /\ FailingIn(Append(res, e)) =
              IF IsCoded(e.verdict) THEN {}
              ELSE IF e.verdict = "FAIL" THEN FailingIn(res) \cup {e.parent}
              ELSE FailingIn(res)
<1> DEFINE q == Append(res, e)
           n == Len(res)
           F(r) == {m \in DOMAIN r :
                      /\ r[m].verdict = "FAIL"
                      /\ \A i \in m..Len(r) : ~IsCoded(r[i].verdict)}
<1>1. \A k \in DOMAIN res : res[k] \in Reports
  OBVIOUS
<1>2. /\ n \in Nat /\ DOMAIN res = 1..n /\ DOMAIN q = 1..(n + 1) /\ Len(q) = n + 1
      /\ \A k \in 1..n : q[k] = res[k]
      /\ q[n + 1] = e
  BY ReportAppended
<1>3. FailingIn(res) \subseteq PlanTickets
  BY <1>1 DEF FailingIn, Reports
<1>4. IsFiniteSet(FailingIn(res))
  BY <1>3, LedgerConstants, FS_Subset
<1> HIDE DEF q, n
<1>5. FailingIn(q) = {q[k].parent : k \in F(q)}
        /\ FailingIn(res) = {res[k].parent : k \in F(res)}
  BY DEF FailingIn
<1>6. CASE IsCoded(e.verdict)
  <2>1. F(q) = {}
    BY <1>2, <1>6
  <2>2. FailingIn(q) = {}
    BY <1>5, <2>1
  <2>3. QED
    BY <1>4, <1>6, <2>2 DEF q
<1>7. ASSUME ~IsCoded(e.verdict), NEW m \in 1..n
      PROVE  m \in F(q) <=> m \in F(res)
  <2>1. m..(n + 1) = (m..n) \cup {n + 1}
    BY <1>2
  <2>2. \A i \in m..n : q[i] = res[i]
    BY <1>2
  <2>3. (\A i \in m..(n + 1) : ~IsCoded(q[i].verdict))
          <=> (\A i \in m..n : ~IsCoded(res[i].verdict))
    BY <1>2, <1>7, <2>1, <2>2
  <2>4. q[m] = res[m] /\ m \in DOMAIN q /\ m \in DOMAIN res
    BY <1>2
  <2>5. QED
    BY <1>2, <2>3, <2>4 DEF n
<1>8. n + 1 \in F(q) <=> (~IsCoded(e.verdict) /\ e.verdict = "FAIL")
  BY <1>2
<1>9. F(res) \subseteq 1..n /\ F(q) \subseteq (1..n) \cup {n + 1}
  BY <1>2
<1> HIDE DEF F
<1>10. CASE ~IsCoded(e.verdict) /\ e.verdict = "FAIL"
  <2>1. F(q) = F(res) \cup {n + 1}
    BY <1>7, <1>8, <1>9, <1>10
  <2>2. \A k \in F(res) : q[k].parent = res[k].parent
    BY <1>2, <1>9
  <2>3. {q[k].parent : k \in F(q)} = {res[k].parent : k \in F(res)} \cup {e.parent}
    BY <1>2, <2>1, <2>2
  <2>4. QED
    BY <1>5, <1>10, <1>4, <2>3 DEF q
<1>11. CASE ~IsCoded(e.verdict) /\ e.verdict # "FAIL"
  <2>1. F(q) = F(res)
    BY <1>7, <1>8, <1>9, <1>11
  <2>2. \A k \in F(res) : q[k].parent = res[k].parent
    BY <1>2, <1>9
  <2>3. {q[k].parent : k \in F(q)} = {res[k].parent : k \in F(res)}
    BY <2>1, <2>2
  <2>4. QED
    BY <1>4, <1>5, <1>11, <2>3 DEF q
<1>12. QED
  BY <1>4, <1>6, <1>10, <1>11

LEMMA SkipsAppended ==
  ASSUME NEW res \in Seq(Reports), NEW e \in Reports
  PROVE  Cardinality({k \in DOMAIN Append(res, e) : Append(res, e)[k].verdict = "SKIP"})
           = Cardinality({k \in DOMAIN res : res[k].verdict = "SKIP"})
               + One(e.verdict = "SKIP")
<1> DEFINE q == Append(res, e)
           n == Len(res)
           S == {k \in DOMAIN res : res[k].verdict = "SKIP"}
           T == {k \in DOMAIN q : q[k].verdict = "SKIP"}
<1>1. /\ n \in Nat /\ DOMAIN res = 1..n /\ DOMAIN q = (1..n) \cup {n + 1}
      /\ \A k \in 1..n : q[k] = res[k]
      /\ q[n + 1] = e /\ n + 1 \notin 1..n
  BY ReportAppended
<1> HIDE DEF q, n
<1>2. IsFiniteSet(S) /\ Cardinality(S) \in Nat
  <2>1. IsFiniteSet(1..n)
    <3>1. 1 \in Int /\ n \in Int
      BY <1>1
    <3>2. QED
      BY <3>1, FS_Interval
  <2>2. S \in SUBSET (1..n)
    BY <1>1
  <2>3. QED
    BY <2>1, <2>2, FS_Subset, FS_CardinalityType
<1>3. CASE e.verdict = "SKIP"
  <2>1. T = S \cup {n + 1} /\ n + 1 \notin S
    BY <1>1, <1>3
  <2>2. Cardinality(T) = Cardinality(S) + 1
    BY <1>2, <2>1, FS_AddElement
  <2>3. QED
    BY <1>3, <2>2 DEF q, One
<1>4. CASE e.verdict # "SKIP"
  <2>1. T = S
    BY <1>1, <1>4
  <2>2. One(e.verdict = "SKIP") = 0
    BY <1>4 DEF One
  <2> HIDE DEF S, T
  <2>3. Cardinality(T) = Cardinality(S) + One(e.verdict = "SKIP")
    BY <1>2, <2>1, <2>2
  <2>4. QED
    BY <2>3 DEF q, S, T
<1>5. QED
  BY <1>3, <1>4

---------------------------------------------------------------------------
(* A record in the ledger and the report of it *)

LEMMA RecordCounts ==
  ASSUME NEW l \in Ledgers, NEW res \in Seq(Reports), NEW e \in Reports,
         \/ IsCoded(e.verdict)
         \/ /\ Counts(l, res)
            /\ e.parent \in FailingIn(res) => l.lastParent = e.parent
  PROVE  LET r == RecordResult(l, e.ticket, e.verdict, e.parent)
             q == Append(res, e)
         IN  Counts(r, q) /\ (e.parent \in FailingIn(q) => r.lastParent = e.parent)
<1> DEFINE r == RecordResult(l, e.ticket, e.verdict, e.parent)
           q == Append(res, e)
<1>1. /\ e.ticket \in Tickets /\ e.verdict \in Verdicts
      /\ e.parent \in PlanTickets /\ e.parent \in Tickets
  BY DEF Reports, Tickets
<1>2. /\ r.failures = IF IsCoded(e.verdict) THEN 0
                      ELSE l.failures + One(NewFailure(l, e.verdict, e.parent))
      /\ r.lastParent = IF IsCoded(e.verdict) THEN NoTicket
                        ELSE IF e.verdict = "FAIL" THEN e.parent ELSE l.lastParent
  BY <1>1, RecordFields
<1>3. /\ IsFiniteSet(FailingIn(res))
      /\ FailingIn(q) = IF IsCoded(e.verdict) THEN {}
                        ELSE IF e.verdict = "FAIL" THEN FailingIn(res) \cup {e.parent}
                        ELSE FailingIn(res)
  BY FailingAppended
<1>4. e.parent # NoTicket /\ l.failures \in Nat
  BY <1>1, LedgerConstants DEF Ledgers
<1> HIDE DEF r, q
<1>5. CASE IsCoded(e.verdict)
  BY <1>2, <1>3, <1>5, FS_EmptySet DEF Counts, r, q
<1>6. CASE ~IsCoded(e.verdict) /\ e.verdict = "FAIL"
  <2>1. e.parent \in FailingIn(res) <=> e.parent = l.lastParent
    BY <1>4, <1>6 DEF Counts
  <2>2. Cardinality(FailingIn(q)) = IF e.parent \in FailingIn(res)
                                    THEN Cardinality(FailingIn(res))
                                    ELSE Cardinality(FailingIn(res)) + 1
    BY <1>3, <1>6, FS_AddElement
  <2>3. One(NewFailure(l, e.verdict, e.parent)) =
          IF e.parent \in FailingIn(res) THEN 0 ELSE 1
    BY <1>6, <2>1 DEF One, NewFailure
  <2>4. r.failures = Cardinality(FailingIn(q))
    BY <1>2, <1>4, <1>6, <2>2, <2>3 DEF Counts
  <2>5. r.lastParent = e.parent /\ e.parent \in FailingIn(q)
    BY <1>2, <1>3, <1>6
  <2>6. QED
    BY <2>4, <2>5 DEF Counts, r, q
<1>7. CASE ~IsCoded(e.verdict) /\ e.verdict # "FAIL"
  <2>1. One(NewFailure(l, e.verdict, e.parent)) = 0
    BY <1>7 DEF One, NewFailure
  <2>2. r.failures = l.failures /\ r.lastParent = l.lastParent
    BY <1>2, <1>4, <1>7, <2>1
  <2>3. QED
    BY <1>3, <1>7, <2>2 DEF Counts, r, q
<1>8. QED
  BY <1>5, <1>6, <1>7

LEMMA RecordMatches ==
  ASSUME NEW l \in Ledgers, NEW res \in Seq(Reports), NEW e \in Reports,
         Matched(l, res, {e.ticket}),
         \A k \in DOMAIN res : res[k].ticket # e.ticket
  PROVE  Matched(RecordResult(l, e.ticket, e.verdict, e.parent), Append(res, e), {})
<1> DEFINE r == RecordResult(l, e.ticket, e.verdict, e.parent)
           q == Append(res, e)
           n == Len(res)
<1>1. /\ e.ticket \in Tickets /\ e.verdict \in Verdicts /\ e.parent \in Tickets
  BY DEF Reports, Tickets
<1>2. /\ r.status = [l.status EXCEPT ![e.ticket] = e.verdict]
      /\ r.skipped = l.skipped + One(e.verdict = "SKIP")
  BY <1>1, RecordResultType, RecordFields
<1>3. /\ n \in Nat /\ DOMAIN res = 1..n /\ DOMAIN q = 1..(n + 1)
      /\ \A k \in 1..n : q[k] = res[k] /\ res[k] \in Reports
      /\ q[n + 1] = e
  BY ReportAppended
<1>4. l.status \in [Tickets -> Verdicts \cup {"PENDING", "ABSENT"}]
  BY DEF Ledgers, Statuses
<1>5. r.skipped = Cardinality({k \in DOMAIN q : q[k].verdict = "SKIP"})
  BY <1>2, SkipsAppended DEF Matched
<1> HIDE DEF r, q, n
<1>6. ASSUME NEW k \in DOMAIN q PROVE r.status[q[k].ticket] = q[k].verdict
  <2>1. CASE k = n + 1
    BY <1>1, <1>2, <1>3, <1>4, <2>1
  <2>2. CASE k \in 1..n
    <3>1. /\ q[k] = res[k] /\ res[k].ticket \in Tickets
          /\ res[k].ticket # e.ticket
          /\ l.status[res[k].ticket] = res[k].verdict
      BY <1>3, <2>2 DEF Matched, Reports
    <3>2. QED
      BY <1>2, <1>4, <3>1
  <2>3. QED
    BY <1>3, <1>6, <2>1, <2>2
<1>7. ASSUME NEW t \in Tickets
      PROVE  (\E k \in DOMAIN q : q[k].ticket = t) \/ r.status[t] = FreshLedger.status[t]
  <2>1. CASE t = e.ticket
    BY <1>3, <2>1
  <2>2. CASE t # e.ticket
    <3>1. (\E k \in 1..n : res[k].ticket = t) \/ l.status[t] = FreshLedger.status[t]
      BY <1>3, <2>2 DEF Matched
    <3>2. r.status[t] = l.status[t]
      BY <1>2, <1>4, <2>2
    <3>3. QED
      BY <1>3, <3>1, <3>2
  <2>3. QED
    BY <2>1, <2>2
<1>8. QED
  BY <1>5, <1>6, <1>7 DEF Matched, r, q

LEMMA RecordPhases ==
  ASSUME NEW l \in Ledgers, NEW t \in Tickets, NEW d \in Verdicts,
         NEW p \in Tickets, PhasesAgree(l),
         l.status[t] \in {FreshLedger.status[t], d}
  PROVE  LET r == RecordResult(l, t, d, p)
         IN  PhasesAgree(r) /\ PhasesAgree(UpdatePhase(r, t))
<1> DEFINE r == RecordResult(l, t, d, p)
<1>1. /\ r \in Ledgers /\ r.status = [l.status EXCEPT ![t] = d]
      /\ r.phase = l.phase
  BY RecordResultType, RecordFields
<1>2. /\ l.status \in [Tickets -> Verdicts \cup {"PENDING", "ABSENT"}]
      /\ d # "PENDING"
  BY DEF Ledgers, Statuses, Verdicts
<1> HIDE DEF r
<1>3. ASSUME NEW ph \in Phases
      PROVE  LET seen == {r.status[u] : u \in PhaseTickets(ph)}
             IN  /\ r.phase[ph] = "PASS" => seen \subseteq {"PASS"}
                 /\ r.phase[ph] = "FAIL" => "PENDING" \notin seen
                                            /\ ~(seen \subseteq {"PASS"})
  <2>1. \A u \in PhaseTickets(ph) : u \in PlanTickets /\ u \in Tickets
    BY DEF PhaseTickets, Tickets
  <2>2. CASE t \in PhaseTickets(ph)
    <3>1. FreshLedger.status[t] = "PENDING"
      BY <2>1, <2>2 DEF FreshLedger
    <3>2. CASE l.status[t] = "PENDING"
      BY <1>1, <2>2, <3>2 DEF PhasesAgree
    <3>3. CASE l.status[t] = d
      <4>1. r.status = l.status
        BY <1>1, <1>2, <3>3
      <4>2. QED
        BY <1>1, <4>1 DEF PhasesAgree
    <3>4. QED
      BY <3>1, <3>2, <3>3
  <2>3. CASE t \notin PhaseTickets(ph)
    <3>1. \A u \in PhaseTickets(ph) : r.status[u] = l.status[u]
      BY <1>1, <1>2, <2>1, <2>3
    <3>2. {r.status[u] : u \in PhaseTickets(ph)} = {l.status[u] : u \in PhaseTickets(ph)}
      BY <3>1
    <3>3. QED
      BY <1>1, <3>2 DEF PhasesAgree
  <2>4. QED
    BY <2>2, <2>3
<1>4. PhasesAgree(r)
  BY <1>3 DEF PhasesAgree
<1>5. PhasesAgree(UpdatePhase(r, t))
  <2>1. CASE PhaseOf[t] = NoPhase
    BY <1>4, <2>1 DEF UpdatePhase
  <2>2. CASE PhaseOf[t] # NoPhase
    <3> DEFINE u == UpdatePhase(r, t)
               ph == PhaseOf[t]
    <3>1. ph \in Phases /\ r.phase \in [Phases -> PhaseStatuses]
      BY <1>1, <2>2, LedgerConstants DEF Ledgers
    <3>2. /\ u.status = r.status
          /\ u.phase = [r.phase EXCEPT ![ph] = PhaseAfter(r, ph)]
      BY <1>1, <2>2 DEF UpdatePhase, Ledgers
    <3>3. t \in PlanTickets
      BY <2>2, LedgerConstants DEF Tickets
    <3>4. t \in PhaseTickets(ph)
      BY <3>3 DEF PhaseTickets
    <3> HIDE DEF u, ph
    <3>5. ASSUME NEW z \in Phases
          PROVE  LET seen == {u.status[v] : v \in PhaseTickets(z)}
                 IN  /\ u.phase[z] = "PASS" => seen \subseteq {"PASS"}
                     /\ u.phase[z] = "FAIL" => "PENDING" \notin seen
                                                /\ ~(seen \subseteq {"PASS"})
      <4>1. CASE z # ph
        <5>1. u.phase[z] = r.phase[z]
          BY <3>1, <3>2, <4>1
        <5>2. QED
          BY <1>4, <3>2, <5>1 DEF PhasesAgree
      <4>2. CASE z = ph
        <5>1. u.phase[z] = PhaseAfter(r, ph)
          BY <3>1, <3>2, <4>2
        <5>2. CASE \E v \in PhaseTickets(ph) : r.status[v] = "PENDING"
          <6>1. u.phase[z] \in {"IN_PROGRESS", r.phase[ph]}
            BY <5>1, <5>2 DEF PhaseAfter
          <6>2. QED
            BY <1>4, <3>1, <3>2, <4>2, <6>1 DEF PhasesAgree
        <5>3. CASE ~\E v \in PhaseTickets(ph) : r.status[v] = "PENDING"
          BY <3>2, <4>2, <5>1, <5>3 DEF PhaseAfter
        <5>4. QED
          BY <5>2, <5>3
      <4>3. QED
        BY <4>1, <4>2
    <3>6. QED
      BY <3>5 DEF PhasesAgree, u
  <2>3. QED
    BY <2>1, <2>2
<1>6. QED
  BY <1>4, <1>5 DEF r

---------------------------------------------------------------------------
(* A ticket is reported once *)

LEMMA PlanIds ==
  ASSUME DistinctIds, NEW i \in 1..Len(PlanOrder), NEW j \in 1..Len(PlanOrder),
         i # j
  PROVE  /\ PlanOrder[i] \in PlanTickets /\ PlanOrder[j] \in PlanTickets
         /\ PlanOrder[i] # PlanOrder[j]
         /\ TicketsOf(PlanOrder[i]) \cap TicketsOf(PlanOrder[j]) = {}
<1>1. DOMAIN PlanOrder = 1..Len(PlanOrder)
      /\ \A k \in 1..Len(PlanOrder) : PlanOrder[k] \in PlanTickets
  BY PlanConstants
<1>2. PlanOrder[i] # PlanOrder[j]
  BY <1>1 DEF DistinctIds
<1>3. ASSUME NEW t \in PlanTickets
      PROVE  Elements(SplitInto[t]) \subseteq SubTickets
  <2>1. SplitInto[t] \in Seq(SubTickets)
    BY <1>3, PlanConstants
  <2>2. QED
    BY <2>1 DEF Elements
<1>4. Elements(SplitInto[PlanOrder[i]]) \cap Elements(SplitInto[PlanOrder[j]]) = {}
  BY <1>1, <1>2 DEF DistinctIds
<1>5. QED
  BY <1>1, <1>2, <1>3, <1>4, LedgerConstants DEF TicketsOf

\* The parts the loop made of the ticket at hand.
LEMMA SubIds ==
  ASSUME TypeInv, DistinctIds, PlaceInv, At(Loop)
  PROVE  /\ pos \in 1..Len(PlanOrder)
         /\ \A j \in 1..Len(subs) : subs[j] \in TicketsOf(Parent)
         /\ \A i, j \in 1..Len(subs) : subs[i] = subs[j] => i = j
<1>1. pos \in 1..Len(PlanOrder)
  BY DEF TypeInv, TypeOK, Positions, Loop
<1>2. Parent \in PlanTickets /\ SplitInto[Parent] \in Seq(SubTickets)
  BY <1>1, ParentType, PlanConstants DEF TypeInv
<1>3. CASE subs = <<Parent>>
  BY <1>1, <1>3 DEF TicketsOf
<1>4. CASE subs = SplitInto[Parent]
  <2>1. DOMAIN subs = 1..Len(subs)
    BY <1>2, <1>4
  <2>2. QED
    BY <1>1, <1>2, <1>4, <2>1 DEF TicketsOf, Elements, DistinctIds
<1>5. QED
  BY <1>3, <1>4 DEF PlaceInv

LEMMA NewReport ==
  ASSUME TypeInv, DistinctIds, PlaceInv, NEW t,
         \/ stage = "plan" /\ pos <= Len(PlanOrder) /\ t = Parent
         \/ At(Loop \ {"settle"}) /\ sub <= Len(subs) /\ t = Current
  PROVE  \A k \in DOMAIN results : results[k].ticket # t
<1> SUFFICES ASSUME NEW k \in DOMAIN results PROVE results[k].ticket # t
  OBVIOUS
<1>1. pos \in 1..Len(PlanOrder) /\ Len(PlanOrder) \in Nat
  BY PlanConstants, SubIds DEF TypeInv, TypeOK, At, Loop
<1>2. t \in TicketsOf(Parent)
  <2>1. CASE t = Parent
    BY <2>1 DEF TicketsOf
  <2>2. CASE At(Loop) /\ sub <= Len(subs) /\ t = Current
    <3>1. sub \in 1..Len(subs)
      BY <2>2 DEF TypeInv, TypeOK
    <3>2. QED
      BY <2>2, <3>1, SubIds DEF Current
  <2>3. QED
    BY <2>1, <2>2 DEF At, Loop
<1>3. \/ \E i \in 1..pos - 1 : results[k].ticket \in TicketsOf(PlanOrder[i])
      \/ /\ At(Loop)
         /\ \E j \in 1..sub : /\ results[k].ticket = subs[j]
                              /\ j = sub => At({"settle"})
  BY DEF PlaceInv, At, Going, Loop
<1>4. ASSUME NEW i \in 1..pos - 1, results[k].ticket \in TicketsOf(PlanOrder[i])
      PROVE  results[k].ticket # t
  <2>1. i \in 1..Len(PlanOrder) /\ i # pos
    BY <1>1, <1>4
  <2>2. TicketsOf(PlanOrder[i]) \cap TicketsOf(PlanOrder[pos]) = {}
    BY <1>1, <2>1, PlanIds
  <2>3. QED
    BY <1>2, <1>4, <2>2 DEF Parent
<1>5. ASSUME At(Loop), NEW j \in 1..sub, results[k].ticket = subs[j],
             j = sub => At({"settle"})
      PROVE  results[k].ticket # t
  <2>1. CASE At(Loop \ {"settle"}) /\ sub <= Len(subs) /\ t = Current
    <3>1. ~At({"settle"})
      BY <2>1 DEF At, Loop
    <3>2. sub \in 1..Len(subs) /\ Len(subs) \in Nat
      BY <2>1 DEF TypeInv, TypeOK
    <3>3. j \in 1..Len(subs) /\ j # sub
      BY <1>5, <3>1, <3>2
    <3>4. subs[j] # subs[sub]
      BY <1>5, <3>2, <3>3, SubIds
    <3>5. QED
      BY <1>5, <2>1, <3>4 DEF Current
  <2>2. CASE stage = "plan"
    BY <1>5, <2>2 DEF At, Loop
  <2>3. QED
    BY <2>1, <2>2
<1>6. QED
  BY <1>3, <1>4, <1>5

LEMMA NewParent ==
  ASSUME DistinctIds, NEW res \in Seq(Reports), NEW p \in 1..Len(PlanOrder),
         \A k \in DOMAIN res : \E i \in 1..p - 1 : res[k].parent = PlanOrder[i]
  PROVE  PlanOrder[p] \notin FailingIn(res)
<1>1. Len(PlanOrder) \in Nat
  BY PlanConstants
<1>2. ASSUME NEW k \in DOMAIN res PROVE res[k].parent # PlanOrder[p]
  <2>1. PICK i \in 1..p - 1 : res[k].parent = PlanOrder[i]
    BY <1>2
  <2>2. i \in 1..Len(PlanOrder) /\ i # p
    BY <1>1, <2>1
  <2>3. QED
    BY <2>1, <2>2, PlanIds
<1>3. QED
  BY <1>2 DEF FailingIn

---------------------------------------------------------------------------
(* Where the reports come from *)

\* A step inside a ticket, or out of the loop, with no report.
LEMMA PlaceKept ==
  ASSUME PlaceInv, UNCHANGED <<pos, subs, sub, results>>,
         At(Loop)' => At(Loop), At(Going)' => At(Going),
         At(Loop) /\ At(Going)' => At(Loop)',
         At({"settle"}) /\ At(Going)' => At({"settle"})',
         At({"committed"})' => IsCoded(verdict')
  PROVE  PlaceInv'
<1>1. At(Loop)' => subs' \in {<<Parent'>>, SplitInto[Parent']}
  BY DEF PlaceInv, Parent
<1>2. ASSUME At(Going)', NEW k \in DOMAIN results'
      PROVE  \/ \E i \in 1..pos' - 1 :
                  /\ results'[k].parent = PlanOrder[i]
                  /\ results'[k].ticket \in TicketsOf(PlanOrder[i])
             \/ /\ At(Loop)' /\ results'[k].parent = Parent'
                /\ \E j \in 1..sub' : /\ results'[k].ticket = subs'[j]
                                      /\ j = sub' => At({"settle"})'
  BY <1>2 DEF PlaceInv, Parent
<1>3. QED
  BY <1>1, <1>2 DEF PlaceInv

LEMMA NoProcessPlace ==
  ASSUME NoProcess
  PROVE  PlaceInv'
<1>1. results' = <<>> /\ stage' = "idle"
  BY DEF NoProcess
<1>2. QED
  BY <1>1 DEF PlaceInv, At, Loop

LEMMA PlaceNext ==
  ASSUME TypeInv, Flushes, PlaceInv, [Next]_vars
  PROVE  PlaceInv'
<1> USE DEF At, Loop, Going
<1>1. CASE Operator
  <2>1. CASE StartRun
    BY <2>1, PlaceKept DEF StartRun, BeginRun
  <2>2. ASSUME NEW c \in Commands, Continue(c) PROVE PlaceInv'
    BY <2>2, PlaceKept DEF Continue, BeginRun, control, ticket
  <2>3. QED
    BY <1>1, <2>1, <2>2 DEF Operator
<1>2. CASE TicketStep
  <2>1. ASSUME NEW d \in {"PASS", "CODED_UNGOVERNED"}, CommitTicket(d)
        PROVE  PlaceInv'
    BY <2>1, PlaceKept DEF CommitTicket, invoked, IsCoded
  <2>2. CASE FailTicket \/ SplitLastResort \/ ChildCommits \/ ChildrenPass
             \/ ChildFails
    BY <2>2, PlaceKept DEF FailTicket, SplitLastResort, ChildCommits,
       ChildrenPass, ChildFails, control
  <2>3. QED
    BY <1>2, <2>1, <2>2 DEF TicketStep
<1>3. CASE Interrupt \/ UNCHANGED vars
  BY <1>3, PlaceKept DEF Interrupt, Snapshot, vars, control, ticket, PlaceInv
<1>4. CASE Crash \/ Exit
  BY <1>4, NoProcessPlace DEF Crash, Exit
<1>5. CASE Execute \/ OnCommitted \/ WriteSnapshot \/ Finish
  <2>1. CASE Execute
    BY <2>1, PlaceKept DEF Execute
  <2>2. CASE OnCommitted
    BY <2>2, PlaceKept DEF OnCommitted, Snapshot
  <2>3. CASE WriteSnapshot
    BY <2>3, PlaceKept DEF WriteSnapshot, Flushes
  <2>4. CASE Finish
    BY <2>4, PlaceKept DEF Finish, Snapshot
  <2>5. QED
    BY <1>5, <2>1, <2>2, <2>3, <2>4
<1>6. /\ Len(PlanOrder) \in Nat /\ Len(subs) \in Nat
      /\ pos \in 1..Len(PlanOrder) + 1 /\ sub \in 1..Len(subs) + 1
      /\ results \in Seq(Reports)
  BY PlanConstants DEF TypeInv, TypeOK
<1>7. CASE SkipPrecompleted
  BY <1>6, <1>7 DEF SkipPrecompleted, PlaceInv
<1>8. CASE TakeTicket
  BY <1>6, <1>8 DEF TakeTicket, PlaceInv, Parent
<1>9. CASE SkipTicket
  <2>1. /\ DOMAIN results' = DOMAIN results \cup {Len(results) + 1}
        /\ \A k \in DOMAIN results : results'[k] = results[k]
        /\ results'[Len(results) + 1].parent = Parent
        /\ results'[Len(results) + 1].ticket = Parent
    BY <1>6, <1>9 DEF SkipTicket, Report
  <2>2. stage = "plan" /\ stage' = "flush" /\ after' = "plan" /\ pos' = pos + 1
    BY <1>9 DEF SkipTicket, Snapshot
  <2>3. pos \in 1..pos' - 1 /\ 1..pos - 1 \subseteq 1..pos' - 1
    BY <1>6, <2>2
  <2>4. Parent = PlanOrder[pos] /\ Parent \in TicketsOf(PlanOrder[pos])
    BY DEF Parent, TicketsOf
  <2>5. ASSUME NEW k \in DOMAIN results'
        PROVE  \E i \in 1..pos' - 1 :
                  /\ results'[k].parent = PlanOrder[i]
                  /\ results'[k].ticket \in TicketsOf(PlanOrder[i])
    <3>1. CASE k \in DOMAIN results
      BY <2>1, <2>2, <2>3, <3>1 DEF PlaceInv
    <3>2. CASE k = Len(results) + 1
      <4>1. /\ results'[k].parent = PlanOrder[pos]
            /\ results'[k].ticket \in TicketsOf(PlanOrder[pos])
        BY <2>1, <2>4, <3>2
      <4>2. QED
        BY <2>3, <4>1
    <3>3. QED
      BY <2>1, <3>1, <3>2
  <2>6. QED
    BY <2>2, <2>5 DEF PlaceInv
<1>10. CASE SkipSub \/ RecordReturned
  <2>1. /\ DOMAIN results' = DOMAIN results \cup {Len(results) + 1}
        /\ \A k \in DOMAIN results : results'[k] = results[k]
        /\ results'[Len(results) + 1].parent = Parent
        /\ results'[Len(results) + 1].ticket = subs[sub]
    <3>1. PICK d : results' = Append(results, [ticket |-> Current,
                                               parent |-> Parent, verdict |-> d])
      BY <1>10 DEF SkipSub, RecordReturned, Report
    <3>2. QED
      BY <1>6, <3>1 DEF Current
  <2>2. /\ At(Loop) /\ At(Loop)' /\ ~At({"settle"}) /\ ~At({"committed"})'
        /\ UNCHANGED <<pos, subs>> /\ Parent' = Parent
        /\ \/ sub' = sub /\ At({"settle"})'
           \/ sub' = sub + 1
    BY <1>10 DEF SkipSub, RecordReturned, Snapshot, Parent
  <2>3. sub \in 1..sub' /\ 1..sub \subseteq 1..sub'
        /\ (sub' = sub => At({"settle"})')
    BY <1>6, <2>2
  <2>4. ASSUME NEW k \in DOMAIN results'
        PROVE  \/ \E i \in 1..pos' - 1 :
                    /\ results'[k].parent = PlanOrder[i]
                    /\ results'[k].ticket \in TicketsOf(PlanOrder[i])
               \/ /\ At(Loop)' /\ results'[k].parent = Parent'
                  /\ \E j \in 1..sub' : /\ results'[k].ticket = subs'[j]
                                        /\ j = sub' => At({"settle"})'
    <3>1. CASE k \in DOMAIN results
      <4>1. \/ \E i \in 1..pos - 1 :
                 /\ results[k].parent = PlanOrder[i]
                 /\ results[k].ticket \in TicketsOf(PlanOrder[i])
            \/ /\ results[k].parent = Parent
               /\ \E j \in 1..sub : results[k].ticket = subs[j] /\ j # sub
        BY <2>2, <3>1 DEF PlaceInv
      <4>2. \A j \in 1..sub : j # sub => j \in 1..sub' /\ j # sub'
        BY <1>6, <2>2
      <4>3. QED
        BY <2>1, <2>2, <3>1, <4>1, <4>2
    <3>2. CASE k = Len(results) + 1
      <4>1. sub = sub' => At({"settle"})'
        BY <2>3
      <4>2. QED
        BY <2>1, <2>2, <2>3, <3>2, <4>1
    <3>3. QED
      BY <2>1, <3>1, <3>2
  <2>5. subs' \in {<<Parent'>>, SplitInto[Parent']}
    BY <2>2 DEF PlaceInv
  <2>6. QED
    BY <2>2, <2>4, <2>5 DEF PlaceInv
<1>11. CASE Settle
  <2>1. /\ stage = "settle" /\ sub' = sub + 1 /\ UNCHANGED <<pos, subs, results>>
        /\ \/ stage' = "sub"
           \/ stage' = "flush" /\ after' = "finish"
    BY <1>11 DEF Settle, Snapshot
  <2>2. \A j \in 1..sub : j \in 1..sub' /\ j # sub'
    BY <1>6, <2>1
  <2>3. Parent' = Parent
    BY <2>1 DEF Parent
  <2>4. QED
    BY <2>1, <2>2, <2>3 DEF PlaceInv
<1>12. CASE NextTicket
  <2>1. /\ stage = "sub" /\ sub > Len(subs) /\ stage' = "plan"
        /\ pos' = pos + 1 /\ UNCHANGED results
    BY <1>12 DEF NextTicket
  <2>2. pos \in 1..pos' - 1 /\ 1..pos - 1 \subseteq 1..pos' - 1
        /\ Parent = PlanOrder[pos]
    BY <1>6, <2>1 DEF Parent
  <2>3. \A j \in 1..sub : j # sub => j \in 1..Len(subs)
    BY <1>6
  <2>4. \A j \in 1..Len(subs) : subs[j] \in TicketsOf(Parent)
    <3>1. pos \in 1..Len(PlanOrder)
      BY <1>6, <2>1 DEF TypeInv, Positions
    <3>2. SplitInto[Parent] \in Seq(SubTickets)
      BY <1>6, <3>1, ParentType, PlanConstants DEF TypeInv
    <3>3. subs \in {<<Parent>>, SplitInto[Parent]}
      BY <2>1 DEF PlaceInv
    <3>4. QED
      BY <3>2, <3>3 DEF TicketsOf, Elements
  <2>5. ASSUME NEW k \in DOMAIN results
        PROVE  \E i \in 1..pos' - 1 :
                  /\ results[k].parent = PlanOrder[i]
                  /\ results[k].ticket \in TicketsOf(PlanOrder[i])
    <3>1. \/ \E i \in 1..pos - 1 :
               /\ results[k].parent = PlanOrder[i]
               /\ results[k].ticket \in TicketsOf(PlanOrder[i])
          \/ /\ results[k].parent = Parent
             /\ \E j \in 1..sub : results[k].ticket = subs[j] /\ j # sub
      BY <2>1, <2>5 DEF PlaceInv
    <3>2. QED
      BY <2>2, <2>3, <2>4, <3>1
  <2>6. QED
    BY <2>1, <2>5 DEF PlaceInv
<1>13. QED
  BY <1>1, <1>2, <1>3, <1>4, <1>5, <1>7, <1>8, <1>9, <1>10, <1>11, <1>12
     DEF Next, LoopStep

---------------------------------------------------------------------------
(* The dispositions of the ledger and those of the reports *)

LEMMA MatchKept ==
  ASSUME MatchInv, results' = results,
         ledger'.status = ledger.status, ledger'.skipped = ledger.skipped,
         ~At({"interrupted"})' => /\ ~At({"interrupted"})
                                  /\ At({"returned"})' <=> At({"returned"}),
         At({"returned"})' => UNCHANGED <<verdict, Current>>
  PROVE  MatchInv'
BY DEF MatchInv, Matched

\* A ticket with no report has the disposition the ledger began with.
LEMMA Unreported ==
  ASSUME NEW l, NEW res, NEW t \in Tickets, Matched(l, res, {}),
         \A k \in DOMAIN res : res[k].ticket # t
  PROVE  Matched(l, res, {t}) /\ l.status[t] = FreshLedger.status[t]
BY DEF Matched

\* A ticket comes back to the loop without the callback's record.
LEMMA MatchReturned ==
  ASSUME TypeInv, DistinctIds, PlaceInv, MatchInv,
         stage \in {"exec", "children"}, stage' = "returned",
         UNCHANGED <<subs, sub, results, ledger>>
  PROVE  MatchInv'
<1>1. sub <= Len(subs) /\ Current' = Current
  BY DEF TypeInv, Positions, At, Current
<1>2. Current \in Tickets
  BY <1>1, CurrentType DEF TypeInv
<1>3. \A k \in DOMAIN results : results[k].ticket # Current
  BY <1>1, NewReport DEF At, Loop
<1>4. Matched(ledger, results, {})
  BY DEF MatchInv, At
<1>5. Matched(ledger, results, {Current})
        /\ ledger.status[Current] = FreshLedger.status[Current]
  BY <1>2, <1>3, <1>4, Unreported
<1>6. QED
  BY <1>1, <1>5 DEF MatchInv, At

\* The loop appends a report and makes the record of it.
LEMMA MatchRecorded ==
  ASSUME TypeInv, NEW e \in Reports, Matched(ledger, results, {e.ticket}),
         \A k \in DOMAIN results : results[k].ticket # e.ticket,
         results' = Append(results, e),
         ledger'.status
           = RecordResult(ledger, e.ticket, e.verdict, e.parent).status,
         ledger'.skipped
           = RecordResult(ledger, e.ticket, e.verdict, e.parent).skipped,
         ~At({"returned"})'
  PROVE  MatchInv'
<1>1. ledger \in Ledgers /\ results \in Seq(Reports)
  BY DEF TypeInv, TypeOK
<1>2. Matched(RecordResult(ledger, e.ticket, e.verdict, e.parent),
              Append(results, e), {})
  BY <1>1, RecordMatches
<1>3. Matched(ledger', results', {})
  BY <1>2 DEF Matched
<1>4. QED
  BY <1>3 DEF MatchInv

LEMMA MatchNext ==
  ASSUME TypeInv, DistinctIds, Flushes, PlaceInv, MatchInv, [Next]_vars
  PROVE  MatchInv'
<1>1. CASE Operator
  <2>1. CASE StartRun
    BY <2>1, MatchKept DEF StartRun, BeginRun, At
  <2>2. ASSUME NEW c \in Commands, Continue(c) PROVE MatchInv'
    BY <2>2, MatchKept DEF Continue, BeginRun, control, ticket, At
  <2>3. QED
    BY <1>1, <2>1, <2>2 DEF Operator
<1>2. CASE TicketStep
  <2>1. ASSUME NEW d \in {"PASS", "CODED_UNGOVERNED"}, CommitTicket(d)
        PROVE  MatchInv'
    BY <2>1, MatchKept DEF CommitTicket, At
  <2>2. CASE SplitLastResort \/ ChildCommits
    BY <2>2, MatchKept DEF SplitLastResort, ChildCommits, control, At
  <2>3. CASE FailTicket \/ ChildrenPass \/ ChildFails
    BY <2>3, MatchReturned DEF FailTicket, ChildrenPass, ChildFails
  <2>4. QED
    BY <1>2, <2>1, <2>2, <2>3 DEF TicketStep
<1>3. CASE Interrupt \/ UNCHANGED vars
  <2>1. CASE Interrupt
    BY <2>1 DEF Interrupt, Snapshot, MatchInv, At
  <2>2. CASE UNCHANGED vars
    BY <2>2, MatchKept DEF vars, control, ticket, At, Current
  <2>3. QED
    BY <1>3, <2>1, <2>2
<1>4. CASE Crash \/ Exit
  <2>1. results' = <<>> /\ ledger' = FreshLedger /\ stage' = "idle"
    BY <1>4 DEF Crash, Exit, NoProcess
  <2>2. {k \in DOMAIN results' : results'[k].verdict = "SKIP"} = {}
        /\ ledger'.skipped = 0
    BY <2>1 DEF FreshLedger
  <2>3. Matched(ledger', results', {})
    BY <2>1, <2>2, FS_EmptySet DEF Matched
  <2>4. QED
    BY <2>1, <2>3 DEF MatchInv, At
<1>5. CASE SkipPrecompleted \/ TakeTicket \/ Execute \/ NextTicket
  BY <1>5, MatchKept DEF SkipPrecompleted, TakeTicket, Execute, NextTicket, At
<1>6. CASE WriteSnapshot
  BY <1>6, MatchKept DEF WriteSnapshot, Flushes, At, ticket, Current
<1>7. CASE Finish
  BY <1>7, MatchKept DEF Finish, Snapshot, At
<1>8. CASE Settle
  <2>1. ledger'.status = ledger.status /\ ledger'.skipped = ledger.skipped
    BY <1>8 DEF Settle, CheckStopConditions, TypeInv, TypeOK, Ledgers
  <2>2. QED
    BY <1>8, <2>1, MatchKept DEF Settle, Snapshot, At
<1>9. CASE SkipTicket
  <2>1. pos <= Len(PlanOrder) /\ stage = "plan"
    BY <1>9 DEF SkipTicket
  <2>2. Parent \in Tickets /\ Parent \in PlanTickets
    BY <2>1, ParentType DEF TypeInv
  <2>3. \A k \in DOMAIN results : results[k].ticket # Parent
    BY <2>1, NewReport
  <2>4. Matched(ledger, results, {Parent})
    BY <2>1, <2>2, <2>3, Unreported DEF MatchInv, At
  <2> DEFINE e == [ticket |-> Parent, parent |-> Parent, verdict |-> "SKIP"]
  <2>5. e \in Reports
    BY <2>2 DEF Reports, Verdicts
  <2>6. /\ results' = Append(results, e) /\ ~At({"returned"})'
        /\ ledger' = RecordResult(ledger, e.ticket, e.verdict, e.parent)
    BY <1>9 DEF SkipTicket, Report, Snapshot, At
  <2> HIDE DEF e
  <2>7. e.ticket = Parent
    BY DEF e
  <2>8. QED
    BY <2>3, <2>4, <2>5, <2>6, <2>7, MatchRecorded
<1>10. CASE SkipSub \/ RecordReturned \/ OnCommitted
  <2>1. /\ At(Loop \ {"settle"}) /\ sub <= Len(subs) /\ pos <= Len(PlanOrder)
        /\ ledger \in Ledgers /\ ~At({"interrupted"})
    BY <1>10 DEF SkipSub, RecordReturned, OnCommitted, TypeInv, TypeOK,
       Positions, At, Loop
  <2>2. Current \in Tickets /\ Parent \in PlanTickets /\ Parent \in Tickets
    BY <2>1, CurrentType, ParentType DEF TypeInv
  <2>3. \A k \in DOMAIN results : results[k].ticket # Current
    BY <2>1, NewReport
  <2>4. CASE SkipSub
    <3> DEFINE e == [ticket |-> Current, parent |-> Parent, verdict |-> "SKIP"]
    <3>1. e \in Reports /\ e.ticket = Current
      BY <2>2 DEF Reports, Verdicts
    <3>2. /\ results' = Append(results, e) /\ ~At({"returned"})'
          /\ ledger' = RecordResult(ledger, e.ticket, e.verdict, e.parent)
      BY <2>4 DEF SkipSub, Report, Snapshot, At
    <3>3. Matched(ledger, results, {Current})
      BY <2>1, <2>2, <2>3, <2>4, Unreported DEF MatchInv, At, SkipSub
    <3> HIDE DEF e
    <3>4. QED
      BY <2>3, <3>1, <3>2, <3>3, MatchRecorded
  <2>5. CASE RecordReturned
    <3> DEFINE e == [ticket |-> Current, parent |-> Parent, verdict |-> verdict]
               r == RecordResult(ledger, Current, verdict, Parent)
    <3>1. verdict \in Verdicts
      BY <2>5 DEF RecordReturned, TypeInv, Positions, At
    <3>2. /\ e \in Reports /\ e.ticket = Current /\ e.verdict = verdict
          /\ e.parent = Parent
      BY <2>2, <3>1 DEF Reports
    <3>3. /\ results' = Append(results, e) /\ ~At({"returned"})'
          /\ ledger' = UpdatePhase(r, Current)
      BY <2>5 DEF RecordReturned, Report, Snapshot, At
    <3>4. r \in Ledgers
      BY <2>1, <2>2, <3>1, RecordResultType
    <3>5. ledger'.status = r.status /\ ledger'.skipped = r.skipped
      BY <2>2, <3>3, <3>4, UpdatePhaseType, UpdateFields
    <3>6. Matched(ledger, results, {Current})
      BY <2>1, <2>5 DEF MatchInv, At, RecordReturned
    <3> HIDE DEF e
    <3>7. QED
      BY <2>3, <3>2, <3>3, <3>5, <3>6, MatchRecorded
  <2>6. CASE OnCommitted
    <3> DEFINE r == RecordResult(ledger, Current, verdict, Parent)
    <3>1. /\ stage = "committed" /\ IsCoded(verdict) /\ verdict \in Verdicts
          /\ stage' = "flush" /\ after' = "returned"
          /\ UNCHANGED <<subs, sub, verdict, results>>
          /\ ledger' = UpdatePhase(r, Current)
      BY <2>6 DEF OnCommitted, Snapshot, ticket, PlaceInv, At, TypeInv, Positions
    <3>2. Current' = Current
      BY <3>1 DEF Current
    <3>3. r \in Ledgers /\ r.status = [ledger.status EXCEPT ![Current] = verdict]
          /\ r.skipped = ledger.skipped
      <4>1. One(verdict = "SKIP") = 0 /\ ledger.skipped \in Nat
        BY <2>1, <3>1 DEF One, IsCoded, Ledgers
      <4>2. QED
        BY <2>1, <2>2, <3>1, <4>1, RecordResultType, RecordFields
    <3>4. /\ ledger'.status = [ledger.status EXCEPT ![Current] = verdict]
          /\ ledger'.skipped = ledger.skipped
      BY <2>2, <3>1, <3>3, UpdatePhaseType, UpdateFields
    <3>5. ledger.status \in [Tickets -> Verdicts \cup {"PENDING", "ABSENT"}]
      BY <2>1 DEF Ledgers, Statuses
    <3>6. Matched(ledger, results, {Current})
      BY <2>1, <2>2, <2>3, <3>1, Unreported DEF MatchInv, At
    <3>7. results \in Seq(Reports)
      BY DEF TypeInv, TypeOK
    <3>8. \A k \in DOMAIN results : results[k].ticket \in Tickets
      <4>1. \A k \in DOMAIN results : results[k] \in Reports
        BY <3>7
      <4>2. QED
        BY <4>1 DEF Reports
    <3>9. Matched(ledger', results', {Current'})
      BY <2>2, <2>3, <3>1, <3>2, <3>4, <3>5, <3>6, <3>8 DEF Matched
    <3>10. ledger'.status[Current'] = verdict'
      BY <2>2, <3>1, <3>2, <3>4, <3>5
    <3>11. QED
      BY <3>1, <3>9, <3>10 DEF MatchInv, At
  <2>7. QED
    BY <1>10, <2>4, <2>5, <2>6
<1>11. QED
  BY <1>1, <1>2, <1>3, <1>4, <1>5, <1>6, <1>7, <1>8, <1>9, <1>10
     DEF Next, LoopStep

---------------------------------------------------------------------------
(* The failures counted and those reported *)

LEMMA CountKept ==
  ASSUME CountInv, results' = results,
         ledger'.failures = ledger.failures,
         ledger'.lastParent = ledger.lastParent,
         ~At({"interrupted"})' /\ ~(At({"returned"})' /\ IsCoded(verdict'))
           => ~At({"interrupted"}) /\ ~(At({"returned"}) /\ IsCoded(verdict)),
         At(Going)' => At(Going) /\ pos' = pos
  PROVE  CountInv'
BY DEF CountInv, Counts, LastFailing, Parent

\* The loop moves to the next ticket of the plan: no report is about it yet.
LEMMA CountMoves ==
  ASSUME TypeInv, DistinctIds, Counts(ledger, results)',
         results' \in Seq(Reports), At({"plan"})', ~At(Loop)', PlaceInv',
         pos' \in 1..Len(PlanOrder) + 1
  PROVE  CountInv'
<1>1. \A k \in DOMAIN results' :
        \E i \in 1..pos' - 1 : results'[k].parent = PlanOrder[i]
  BY DEF PlaceInv, At, Going
<1>2. Len(PlanOrder) \in Nat
  BY PlanConstants
<1>3. ASSUME pos' <= Len(PlanOrder)
      PROVE  PlanOrder[pos'] \notin FailingIn(results')
  <2>1. pos' \in 1..Len(PlanOrder)
    BY <1>2, <1>3
  <2>2. QED
    BY <1>1, <2>1, NewParent
<1>4. LastFailing'
  BY <1>3 DEF LastFailing, Parent
<1>5. QED
  BY <1>4 DEF CountInv

\* A record and its report, from the counts before it.
LEMMA CountRecorded ==
  ASSUME TypeInv, CountInv, At(Going), ~At({"interrupted"}),
         pos <= Len(PlanOrder), NEW e \in Reports, e.parent = Parent,
         At({"returned"}) => e.verdict = verdict, results' = Append(results, e),
         ledger'.failures
           = RecordResult(ledger, e.ticket, e.verdict, e.parent).failures,
         ledger'.lastParent
           = RecordResult(ledger, e.ticket, e.verdict, e.parent).lastParent
  PROVE  /\ Counts(ledger, results)'
         /\ Parent \in FailingIn(results') => ledger'.lastParent = Parent
<1>1. ledger \in Ledgers /\ results \in Seq(Reports)
  BY DEF TypeInv, TypeOK
<1>2. \/ IsCoded(e.verdict)
      \/ /\ Counts(ledger, results)
         /\ e.parent \in FailingIn(results) => ledger.lastParent = e.parent
  BY DEF CountInv, LastFailing
<1> DEFINE r == RecordResult(ledger, e.ticket, e.verdict, e.parent)
<1>3. /\ Counts(r, results')
      /\ e.parent \in FailingIn(results') => r.lastParent = e.parent
  BY <1>1, <1>2, RecordCounts
<1>4. QED
  BY <1>3 DEF Counts

LEMMA CountNext ==
  ASSUME TypeInv, TypeInv', DistinctIds, Flushes, PlaceInv, PlaceInv', CountInv,
         [Next]_vars
  PROVE  CountInv'
<1>1. /\ results \in Seq(Reports) /\ results' \in Seq(Reports)
      /\ pos' \in 1..Len(PlanOrder) + 1 /\ ledger \in Ledgers
  BY DEF TypeInv, TypeOK
<1>2. CASE Operator
  <2>1. CASE StartRun
    BY <2>1, CountKept DEF StartRun, BeginRun, At, Going, Loop
  <2>2. ASSUME NEW c \in Commands, Continue(c) PROVE CountInv'
    BY <2>2, CountKept DEF Continue, BeginRun, control, ticket, At, Going, Loop
  <2>3. QED
    BY <1>2, <2>1, <2>2 DEF Operator
<1>3. CASE TicketStep
  <2>1. ASSUME NEW d \in {"PASS", "CODED_UNGOVERNED"}, CommitTicket(d)
        PROVE  CountInv'
    BY <2>1, CountKept DEF CommitTicket, At, Going, Loop
  <2>2. CASE FailTicket \/ SplitLastResort \/ ChildCommits \/ ChildrenPass
             \/ ChildFails
    BY <2>2, CountKept DEF FailTicket, SplitLastResort, ChildCommits,
       ChildrenPass, ChildFails, control, At, Going, Loop
  <2>3. QED
    BY <1>3, <2>1, <2>2 DEF TicketStep
<1>4. CASE Interrupt \/ UNCHANGED vars
  <2>1. CASE Interrupt
    BY <2>1 DEF Interrupt, Snapshot, CountInv, At
  <2>2. CASE UNCHANGED vars
    BY <2>2, CountKept DEF vars, control, ticket, At
  <2>3. QED
    BY <1>4, <2>1, <2>2
<1>5. CASE Crash \/ Exit
  <2>1. results' = <<>> /\ ledger' = FreshLedger
    BY <1>5 DEF Crash, Exit, NoProcess
  <2>2. FailingIn(results') = {}
    BY <2>1 DEF FailingIn
  <2>3. QED
    BY <2>1, <2>2, FS_EmptySet DEF CountInv, Counts, LastFailing, FreshLedger
<1>6. CASE TakeTicket \/ Execute
  BY <1>6, CountKept DEF TakeTicket, Execute, At, Going, Loop
<1>7. CASE WriteSnapshot
  BY <1>7, CountKept DEF WriteSnapshot, Flushes, At, ticket, Going, Loop
<1>8. CASE Finish
  BY <1>8, CountKept DEF Finish, Snapshot, At, Going, Loop
<1>9. CASE Settle
  <2>1. /\ ledger'.failures = ledger.failures
        /\ ledger'.lastParent = ledger.lastParent
    BY <1>1, <1>9 DEF Settle, CheckStopConditions, Ledgers
  <2>2. QED
    BY <1>9, <2>1, CountKept DEF Settle, Snapshot, At, Going, Loop
<1>10. CASE SkipPrecompleted \/ NextTicket
  <2>1. /\ stage \in {"plan", "sub"} /\ stage' = "plan"
        /\ UNCHANGED <<results, ledger>>
    BY <1>10 DEF SkipPrecompleted, NextTicket
  <2>2. Counts(ledger, results)'
    BY <2>1 DEF CountInv, Counts, At
  <2>3. QED
    BY <1>1, <2>1, <2>2, CountMoves DEF At, Loop
<1>11. CASE SkipTicket
  <2>1. /\ stage = "plan" /\ pos <= Len(PlanOrder)
        /\ stage' = "flush" /\ after' = "plan"
    BY <1>11 DEF SkipTicket, Snapshot
  <2>2. Parent \in Tickets /\ Parent \in PlanTickets
    BY <2>1, ParentType DEF TypeInv
  <2> DEFINE e == [ticket |-> Parent, parent |-> Parent, verdict |-> "SKIP"]
  <2>3. e \in Reports /\ e.parent = Parent
    BY <2>2 DEF Reports, Verdicts
  <2>4. /\ results' = Append(results, e)
        /\ ledger' = RecordResult(ledger, e.ticket, e.verdict, e.parent)
    BY <1>11 DEF SkipTicket, Report
  <2> HIDE DEF e
  <2>5. Counts(ledger, results)'
    BY <2>1, <2>3, <2>4, CountRecorded DEF At, Going
  <2>6. QED
    BY <1>1, <2>1, <2>5, CountMoves DEF At, Loop
<1>12. CASE SkipSub \/ RecordReturned
  <2>1. /\ stage \in {"sub", "returned"} /\ pos <= Len(PlanOrder)
        /\ UNCHANGED pos /\ Parent' = Parent
    BY <1>12 DEF SkipSub, RecordReturned, TypeInv, Positions, At, Parent
  <2>2. At(Going) /\ ~At({"interrupted"})
    BY <2>1 DEF At, Going, Loop
  <2>3. Parent \in Tickets /\ Parent \in PlanTickets
    BY <2>1, ParentType DEF TypeInv
  <2>4. Current \in Tickets
    BY <1>12, CurrentType DEF SkipSub, RecordReturned, TypeInv, Positions, At
  <2>5. /\ Counts(ledger, results)'
        /\ Parent \in FailingIn(results') => ledger'.lastParent = Parent
    <3>1. CASE SkipSub
      <4> DEFINE e == [ticket |-> Current, parent |-> Parent, verdict |-> "SKIP"]
      <4>1. e \in Reports /\ e.parent = Parent
        BY <2>3, <2>4 DEF Reports, Verdicts
      <4>2. /\ results' = Append(results, e) /\ ~At({"returned"})
            /\ ledger' = RecordResult(ledger, e.ticket, e.verdict, e.parent)
        BY <3>1 DEF SkipSub, Report, At
      <4> HIDE DEF e
      <4>3. QED
        BY <2>1, <2>2, <4>1, <4>2, CountRecorded
    <3>2. CASE RecordReturned
      <4> DEFINE e == [ticket |-> Current, parent |-> Parent, verdict |-> verdict]
                 r == RecordResult(ledger, Current, verdict, Parent)
      <4>1. verdict \in Verdicts
        BY <3>2 DEF RecordReturned, TypeInv, Positions, At
      <4>2. /\ e \in Reports /\ e.ticket = Current /\ e.parent = Parent
            /\ e.verdict = verdict
        BY <2>3, <2>4, <4>1 DEF Reports
      <4>3. /\ results' = Append(results, e) /\ ledger' = UpdatePhase(r, Current)
        BY <3>2 DEF RecordReturned, Report
      <4>4. r \in Ledgers
        BY <1>1, <2>3, <2>4, <4>1, RecordResultType
      <4>5. /\ ledger'.failures = r.failures /\ ledger'.lastParent = r.lastParent
        BY <2>4, <4>3, <4>4, UpdateFields
      <4> HIDE DEF e
      <4>6. QED
        BY <2>1, <2>2, <4>2, <4>3, <4>5, CountRecorded
    <3>3. QED
      BY <1>12, <3>1, <3>2
  <2>6. QED
    BY <2>1, <2>5 DEF CountInv, LastFailing, Parent
<1>13. CASE OnCommitted
  <2>1. /\ stage = "committed" /\ stage' = "flush" /\ after' = "returned"
        /\ IsCoded(verdict) /\ verdict' = verdict
    BY <1>13 DEF OnCommitted, Snapshot, ticket, PlaceInv, At
  <2>2. QED
    BY <2>1 DEF CountInv, At
<1>14. QED
  BY <1>2, <1>3, <1>4, <1>5, <1>6, <1>7, <1>8, <1>9, <1>10, <1>11, <1>12, <1>13
     DEF Next, LoopStep

---------------------------------------------------------------------------
(* The phases, and the file a run leaves *)

LEMMA PhasesNext ==
  ASSUME TypeInv, DistinctIds, PlaceInv, MatchInv, PhasesAgree(ledger),
         [Next]_vars
  PROVE  PhasesAgree(ledger')
<1>1. ledger \in Ledgers
  BY DEF TypeInv, TypeOK
<1>2. CASE SkipTicket
  <2>1. pos <= Len(PlanOrder) /\ stage = "plan"
    BY <1>2 DEF SkipTicket
  <2>2. Parent \in Tickets /\ "SKIP" \in Verdicts
    BY <2>1, ParentType DEF TypeInv, Verdicts
  <2>3. ledger.status[Parent] = FreshLedger.status[Parent]
    BY <2>1, <2>2, NewReport, Unreported DEF MatchInv, At
  <2>4. QED
    BY <1>1, <1>2, <2>2, <2>3, RecordPhases DEF SkipTicket
<1>3. CASE SkipSub \/ OnCommitted \/ RecordReturned
  <2>1. /\ stage \in {"sub", "committed", "returned"} /\ sub <= Len(subs)
        /\ pos <= Len(PlanOrder)
    BY <1>3 DEF SkipSub, OnCommitted, RecordReturned, TypeInv, Positions, At
  <2>2. Current \in Tickets /\ Parent \in Tickets
    BY <2>1, CurrentType, ParentType DEF TypeInv
  <2>3. stage # "returned" => ledger.status[Current] = FreshLedger.status[Current]
    <3>1. \A k \in DOMAIN results : results[k].ticket # Current
      BY <2>1, NewReport DEF At, Loop
    <3>2. QED
      BY <2>1, <2>2, <3>1, Unreported DEF MatchInv, At
  <2>4. stage = "returned" =>
          ledger.status[Current] \in {FreshLedger.status[Current], verdict}
    BY DEF MatchInv, At
  <2>5. CASE SkipSub
    BY <1>1, <2>2, <2>3, <2>5, RecordPhases DEF SkipSub, Verdicts
  <2>6. CASE OnCommitted \/ RecordReturned
    <3>1. verdict \in Verdicts
      BY <2>6 DEF OnCommitted, RecordReturned, TypeInv, Positions, At
    <3>2. ledger.status[Current] \in {FreshLedger.status[Current], verdict}
      BY <2>3, <2>4, <2>6 DEF OnCommitted, RecordReturned
    <3>3. QED
      BY <1>1, <2>2, <2>6, <3>1, <3>2, RecordPhases
         DEF OnCommitted, RecordReturned
  <2>7. QED
    BY <1>3, <2>5, <2>6
<1>4. CASE Settle
  <2>1. ledger'.status = ledger.status /\ ledger'.phase = ledger.phase
    BY <1>1, <1>4 DEF Settle, CheckStopConditions, Ledgers
  <2>2. QED
    BY <2>1 DEF PhasesAgree
<1>5. CASE Crash \/ Exit
  <2>1. ledger' = FreshLedger
    BY <1>5 DEF Crash, Exit, NoProcess
  <2>2. \A p \in Phases : FreshLedger.phase[p] = "PENDING"
    BY DEF FreshLedger
  <2>3. QED
    BY <2>1, <2>2 DEF PhasesAgree
<1>6. CASE ledger' = ledger
  BY <1>6
<1>7. QED
  BY <1>2, <1>3, <1>4, <1>5, <1>6 DEF Next, Operator, LoopStep, TicketStep,
     StartRun, Continue, BeginRun, SkipPrecompleted, TakeTicket, Execute,
     NextTicket, WriteSnapshot, Finish, Interrupt, CommitTicket, FailTicket,
     SplitLastResort, ChildCommits, ChildrenPass, ChildFails, vars

LEMMA ClosedNext ==
  ASSUME ClosedInv, [Next]_vars
  PROVE  ClosedInv'
<1>1. CASE Operator
  BY <1>1 DEF Operator, StartRun, Continue, BeginRun, control, ClosedInv
<1>2. CASE LoopStep
  BY <1>2 DEF LoopStep, SkipPrecompleted, SkipTicket, TakeTicket, SkipSub, Execute,
     OnCommitted, RecordReturned, Settle, NextTicket, WriteSnapshot, Finish, Exit,
     Snapshot, NoProcess, ClosedInv
<1>3. CASE TicketStep
  BY <1>3 DEF TicketStep, CommitTicket, FailTicket, SplitLastResort, ChildCommits,
     ChildrenPass, ChildFails, control, ClosedInv
<1>4. CASE Interrupt \/ Crash \/ UNCHANGED vars
  BY <1>4 DEF Interrupt, Crash, Snapshot, NoProcess, vars, control, durable,
     ClosedInv
<1>5. QED
  BY <1>1, <1>2, <1>3, <1>4 DEF Next

---------------------------------------------------------------------------
LEMMA LedgerInit == Init => LedgerInv /\ Flushes
<1> SUFFICES ASSUME Init PROVE LedgerInv /\ Flushes
  OBVIOUS
<1>1. results = <<>> /\ ledger = FreshLedger /\ stage = "idle"
  BY DEF Init
<1>2. {k \in DOMAIN results : results[k].verdict = "SKIP"} = {}
      /\ FailingIn(results) = {} /\ ledger.skipped = 0 /\ ledger.failures = 0
      /\ ledger.lastParent = NoTicket
  BY <1>1 DEF FreshLedger, FailingIn
<1>3. Matched(ledger, results, {}) /\ Counts(ledger, results) /\ LastFailing
  BY <1>1, <1>2, FS_EmptySet DEF Matched, Counts, LastFailing
<1>4. \A p \in Phases : FreshLedger.phase[p] = "PENDING"
  BY DEF FreshLedger
<1>5. PhasesAgree(ledger)
  BY <1>1, <1>4 DEF PhasesAgree
<1>6. PlaceInv /\ ClosedInv /\ Flushes
  BY <1>1 DEF PlaceInv, At, Loop, ClosedInv, Flushes
<1>7. QED
  BY <1>1, <1>3, <1>5, <1>6 DEF LedgerInv, MatchInv, CountInv, At

LEMMA LedgerNext ==
  ASSUME TypeInv, TypeInv', DistinctIds, Flushes, LedgerInv, [Next]_vars
  PROVE  LedgerInv'
<1>1. PlaceInv'
  BY PlaceNext DEF LedgerInv
<1>2. MatchInv'
  BY MatchNext DEF LedgerInv
<1>3. CountInv'
  BY <1>1, CountNext DEF LedgerInv
<1>4. PhasesAgree(ledger')
  BY PhasesNext DEF LedgerInv
<1>5. ClosedInv'
  BY ClosedNext DEF LedgerInv
<1>6. QED
  BY <1>1, <1>2, <1>3, <1>4, <1>5 DEF LedgerInv, PhasesAgree

LEMMA LedgerInvExact ==
  ASSUME TypeInv, LedgerInv
  PROVE  LedgerIsExact
<1>1. FailingParents = FailingIn(results)
  BY Zenon DEF FailingParents, FailingIn
<1>2. FailureCountExact
  BY <1>1 DEF LedgerInv, CountInv, Counts, FailureCountExact, LedgerAhead, At
<1>3. LedgerMatchesResults
  <2> SUFFICES ASSUME stage = "closed"
               PROVE  LET of(t) == {k \in DOMAIN results : results[k].ticket = t}
                      IN  /\ disk = ledger.status
                          /\ \A t \in Tickets : \A k \in of(t) :
                               ledger.status[t] = results[k].verdict
                          /\ \A t \in Tickets : of(t) = {} =>
                               ledger.status[t] \in {"PENDING", "ABSENT"}
                          /\ ledger.skipped
                               = Cardinality({k \in DOMAIN results :
                                                results[k].verdict = "SKIP"})
    BY DEF LedgerMatchesResults
  <2>1. Matched(ledger, results, {}) /\ disk = ledger.status
    BY DEF LedgerInv, MatchInv, ClosedInv, At
  <2>2. \A t \in Tickets : FreshLedger.status[t] \in {"PENDING", "ABSENT"}
    BY DEF FreshLedger
  <2>3. QED
    BY <2>1, <2>2 DEF Matched
<1>4. PhaseVerdicts
  BY Zenon DEF LedgerInv, PhasesAgree, PhaseVerdicts
<1>5. QED
  BY <1>2, <1>3, <1>4 DEF LedgerIsExact

\* The consecutive failures count the plan tickets that failed, a finished
\* run's ledger agrees with the results its summary is built from, and a phase
\* verdict with its tickets, for every plan whose tickets have distinct ids
\* (RunPlan!LedgerIsExact).
THEOREM LedgerExact ==
  ASSUME DistinctIds
  PROVE  Spec => []LedgerIsExact
<1>1. Init => TypeInv /\ LedgerInv /\ Flushes
  BY TypeInit, LedgerInit
<1>2. TypeInv /\ LedgerInv /\ Flushes /\ [Next]_vars
        => (TypeInv /\ LedgerInv /\ Flushes)'
  BY TypeNext, LedgerNext, FlushesNext
<1>3. TypeInv /\ LedgerInv => LedgerIsExact
  BY LedgerInvExact
<1>4. QED
  BY <1>1, <1>2, <1>3, PTL DEF Spec

---------------------------------------------------------------------------
(* The command a run advises *)

\* The ledger has an entry for every ticket of the plan from the beginning.
PlanEntries == \A t \in PlanTickets : ledger.status[t] # "ABSENT"

LEMMA EntriesNext == TypeInv /\ PlanEntries /\ [Next]_vars => PlanEntries'
<1> SUFFICES ASSUME TypeInv, PlanEntries, [Next]_vars PROVE PlanEntries'
  OBVIOUS
<1>1. /\ ledger \in Ledgers
      /\ ledger.status \in [Tickets -> Verdicts \cup {"PENDING", "ABSENT"}]
  BY DEF TypeInv, TypeOK, Ledgers, Statuses
<1>2. ASSUME NEW t \in Tickets, NEW d \in Verdicts,
             ledger'.status = [ledger.status EXCEPT ![t] = d]
      PROVE  PlanEntries'
  BY <1>1, <1>2 DEF PlanEntries, Verdicts, Tickets
<1>3. CASE SkipTicket \/ SkipSub
  <2>1. pos <= Len(PlanOrder)
    BY <1>3 DEF SkipTicket, SkipSub, TypeInv, Positions, At
  <2>2. Parent \in Tickets /\ "SKIP" \in Verdicts
    BY <2>1, ParentType DEF TypeInv, Verdicts
  <2>3. SkipSub => Current \in Tickets
    BY CurrentType DEF SkipSub, TypeInv
  <2>4. CASE SkipTicket
    <3>1. ledger'.status = [ledger.status EXCEPT ![Parent] = "SKIP"]
      BY <1>1, <2>2, <2>4, RecordResultType DEF SkipTicket
    <3>2. QED
      BY <1>2, <2>2, <3>1
  <2>5. CASE SkipSub
    <3>1. ledger'.status = [ledger.status EXCEPT ![Current] = "SKIP"]
      BY <1>1, <2>2, <2>3, <2>5, RecordResultType DEF SkipSub
    <3>2. QED
      BY <1>2, <2>2, <2>3, <2>5, <3>1
  <2>6. QED
    BY <1>3, <2>4, <2>5
<1>4. CASE OnCommitted \/ RecordReturned
  <2>1. /\ pos <= Len(PlanOrder) /\ sub <= Len(subs) /\ verdict \in Verdicts
        /\ ledger' = UpdatePhase(RecordResult(ledger, Current, verdict, Parent),
                                 Current)
    BY <1>4 DEF OnCommitted, RecordReturned, TypeInv, Positions, At
  <2>2. Parent \in Tickets /\ Current \in Tickets
    BY <2>1, ParentType, CurrentType DEF TypeInv
  <2>3. ledger'.status = [ledger.status EXCEPT ![Current] = verdict]
    BY <1>1, <2>1, <2>2, RecordExecuted
  <2>4. QED
    BY <1>2, <2>1, <2>2, <2>3
<1>5. CASE Settle
  BY <1>1, <1>5, CheckStopType DEF Settle, PlanEntries
<1>6. CASE Crash \/ Exit
  BY <1>6 DEF Crash, Exit, NoProcess, PlanEntries, FreshLedger, Tickets
<1>7. CASE ledger' = ledger
  BY <1>7 DEF PlanEntries
<1>8. QED
  BY <1>3, <1>4, <1>5, <1>6, <1>7 DEF Next, Operator, LoopStep, TicketStep,
     StartRun, Continue, BeginRun, SkipPrecompleted, TakeTicket, Execute,
     NextTicket, WriteSnapshot, Finish, Interrupt, CommitTicket, FailTicket,
     SplitLastResort, ChildCommits, ChildrenPass, ChildFails, vars

LEMMA AdviceInv ==
  ASSUME TypeInv, CodeInv, PlanEntries, ClosedInv
  PROVE  AdviceCoversUnlanded
<1> DEFINE c == Advice(disk)
<1> SUFFICES ASSUME stage = "closed", NEW t \in PlanTickets \ landed
             PROVE  /\ c # "none"
                    /\ t \in WithStatus(Reconcile(disk), Redone(c))
  BY DEF AdviceCoversUnlanded
<1>1. /\ disk = ledger.status /\ t \in Tickets /\ t \notin log
      /\ disk \in [Tickets -> Verdicts \cup {"PENDING", "ABSENT"}]
  BY DEF ClosedInv, CodeInv, TypeInv, TypeOK, Ledgers, Statuses, Tickets
<1>2. disk[t] \in {"FAIL", "SKIP", "PENDING"} /\ Reconcile(disk)[t] = disk[t]
  BY <1>1 DEF PlanEntries, CodeInv, IsCoded, Verdicts, Reconcile
<1>3. CASE disk[t] = "FAIL"
  <2>1. WithStatus(disk, {"FAIL"}) # {}
    BY <1>1, <1>3 DEF WithStatus
  <2>2. c \in {"resume", "rerun-failed"}
    BY <2>1 DEF Advice
  <2>3. "FAIL" \in Redone(c)
    BY <2>2 DEF Redone
  <2>4. QED
    BY <1>1, <1>2, <1>3, <2>2, <2>3 DEF WithStatus
<1>4. CASE disk[t] \in {"SKIP", "PENDING"}
  <2>1. WithStatus(disk, {"SKIP", "PENDING"}) # {}
    BY <1>1, <1>4 DEF WithStatus
  <2>2. c \in {"resume", "rerun-remaining"}
    BY <2>1 DEF Advice
  <2>3. disk[t] \in Redone(c)
    BY <1>4, <2>2 DEF Redone
  <2>4. QED
    BY <1>1, <1>2, <2>2, <2>3 DEF WithStatus
<1>5. QED
  BY <1>2, <1>3, <1>4

\* The command a run advises executes every ticket still missing from the
\* branch, whichever commands, interruptions and splits came before, on a
\* branch of the plan's own (RunPlan!AdviceCoversUnlanded).
THEOREM AdviceIsComplete ==
  ASSUME OwnBranch
  PROVE  Spec => []AdviceCoversUnlanded
<1>1. Init => TypeInv /\ CodeInv /\ PlanEntries /\ ClosedInv
  <2>1. Init => PlanEntries /\ ClosedInv
    BY DEF Init, PlanEntries, ClosedInv, FreshLedger, Tickets
  <2>2. QED
    BY <2>1, TypeInit, CodeInit
<1>2. TypeInv /\ CodeInv /\ PlanEntries /\ ClosedInv /\ [Next]_vars
        => (TypeInv /\ CodeInv /\ PlanEntries /\ ClosedInv)'
  BY TypeNext, CodeNext, EntriesNext, ClosedNext
<1>3. TypeInv /\ CodeInv /\ PlanEntries /\ ClosedInv => AdviceCoversUnlanded
  BY AdviceInv
<1>4. QED
  BY <1>1, <1>2, <1>3, PTL DEF Spec

---------------------------------------------------------------------------
(* Resume does nothing twice *)

\* No run starts afresh on a branch that has commits already, and none is
\* killed between a commit and the snapshot after it, as long as the file
\* calls the ticket failed or skipped: only pending tickets are promoted when
\* the branch has their commit.
Spared ==
  /\ StartRun => log = {}
  /\ Crash /\ stage = "committed" /\ Loadable => disk[Current] = "PENDING"

\* No ticket is split before it is executed.
WholeTickets == \A t \in PlanTickets : SplitInto[t] = <<>>

\* What resume executes again of the dispositions d has no commit on the branch.
Fits(d, branch) ==
  \A t \in PlanTickets : /\ d[t] # "ABSENT"
                         /\ d[t] \in {"FAIL", "SKIP"} => t \notin branch

\* Between the commit and its snapshot the file may be one commit behind.
FileInv ==
  /\ Fits(ledger.status, log)
  /\ Loadable => Fits(disk, IF stage = "committed" THEN log \ {Current} ELSE log)

\* The ticket at hand is not committed, or will not be.
Uncommitted == \/ At({"exec", "children"})
               \/ At({"sub"}) /\ sub = 1
               \/ At({"returned"}) /\ ~IsCoded(verdict)

\* What was committed before the run is passed over, and what lies ahead of
\* the loop has not been committed since.
AheadInv ==
  /\ stage # "idle" => priorLog \cap PlanTickets \subseteq skipSet
  /\ At(Loop) => subs = <<Parent>> /\ Parent \notin skipSet
  /\ At(Loop \cup {"plan"}) =>
       \A i \in pos..Len(PlanOrder) :
         (i # pos \/ At({"plan"})) /\ PlanOrder[i] \in log
           => PlanOrder[i] \in priorLog
  /\ Uncommitted => Parent \notin log
  /\ stage = "children" => preSplit \subseteq log

AgainInv == FileInv /\ AheadInv

LEMMA NotStatuses == NoLedger \notin Statuses /\ Torn \notin Statuses
  BY PlanConstants

\* The one ticket the loop has at hand.
LEMMA OneTicket ==
  ASSUME TypeInv, AheadInv, At(Loop), sub <= Len(subs)
  PROVE  sub = 1 /\ Current = Parent /\ Parent \in PlanTickets
           /\ Parent \in Tickets
<1>1. subs = <<Parent>>
  BY DEF AheadInv
<1>2. sub = 1
  BY <1>1 DEF TypeInv, TypeOK
<1>3. pos <= Len(PlanOrder)
  BY DEF TypeInv, Positions, Loop
<1>4. QED
  BY <1>1, <1>2, <1>3, ParentType DEF Current, TypeInv

LEMMA FreshFits ==
  ASSUME NEW branch
  PROVE  Fits(FreshLedger.status, branch)
  BY DEF Fits, FreshLedger, Tickets

\* A record that says FAIL or SKIP of a ticket with no commit, or none of them.
LEMMA RecordFits ==
  ASSUME NEW l \in Ledgers, NEW t \in Tickets, NEW d \in Verdicts, NEW branch,
         Fits(l.status, branch), d \in {"FAIL", "SKIP"} => t \notin branch
  PROVE  Fits([l.status EXCEPT ![t] = d], branch)
<1>1. l.status \in [Tickets -> Verdicts \cup {"PENDING", "ABSENT"}]
  BY DEF Ledgers, Statuses
<1>2. QED
  BY <1>1 DEF Fits, Verdicts, Tickets

LEMMA FewerFits ==
  ASSUME NEW d, NEW branch, NEW less, Fits(d, branch),
         less \cap PlanTickets \subseteq branch
  PROVE  Fits(d, less)
  BY DEF Fits

LEMMA FileNext ==
  ASSUME TypeInv, DistinctIds, PlaceInv, MatchInv, OnlyResume, OwnBranch,
         AgainInv, [Next]_vars, [Spared]_vars
  PROVE  FileInv'
<1> USE DEF AgainInv
<1>1. ledger \in Ledgers
  BY DEF TypeInv, TypeOK
<1>a. ASSUME Fits(ledger'.status, log'), disk' = Torn
      PROVE  FileInv'
  BY <1>a, NotStatuses DEF FileInv, Loadable
<1>b. ASSUME Fits(ledger'.status, log'), disk' = disk, stage # "committed",
             log' \cap PlanTickets \subseteq log, stage' # "committed"
      PROVE  FileInv'
  BY <1>b, FewerFits DEF FileInv, Loadable
<1>2. CASE Operator
  <2>1. CASE StartRun
    <3>1. disk' = NoLedger /\ UNCHANGED <<ledger, log>>
      BY <2>1 DEF StartRun, BeginRun
    <3>2. QED
      BY <3>1, NotStatuses DEF FileInv, Loadable
  <2>2. ASSUME NEW c \in Commands, Continue(c) PROVE FileInv'
    <3>1. c = "resume"
      BY <2>2 DEF OnlyResume
    <3>2. /\ stage = "idle" /\ stage' = "plan" /\ UNCHANGED <<ledger, log>>
          /\ Loadable /\ disk' = Reconcile(disk)
      BY <2>2, <3>1 DEF Continue, BeginRun
    <3>3. Fits(disk, log)
      BY <3>2 DEF FileInv
    <3>4. Fits(disk', log')
      BY <3>2, <3>3 DEF Fits, Reconcile, Tickets
    <3>5. QED
      BY <3>2, <3>4 DEF FileInv
  <2>3. QED
    BY <1>2, <2>1, <2>2 DEF Operator
<1>3. CASE TicketStep
  <2>1. ASSUME NEW d \in {"PASS", "CODED_UNGOVERNED"}, CommitTicket(d)
        PROVE  FileInv'
    <3>1. /\ stage = "exec" /\ sub <= Len(subs) /\ stage' = "committed"
          /\ log' = log \cup {Current} /\ ledger' = ledger
      BY <2>1 DEF CommitTicket, OwnBranch, TypeInv, Positions, At
    <3>2. Current \in Tickets
      BY <3>1, CurrentType DEF TypeInv
    <3>3. ledger.status[Current] = FreshLedger.status[Current]
      <4>1. \A k \in DOMAIN results : results[k].ticket # Current
        BY <3>1, NewReport DEF At, Loop
      <4>2. QED
        BY <3>1, <3>2, <4>1, Unreported DEF MatchInv, At
    <3>4. Fits(ledger.status, log')
      <4>1. FreshLedger.status[Current] \notin {"FAIL", "SKIP"}
        BY <3>2 DEF FreshLedger
      <4>2. QED
        BY <3>1, <3>3, <4>1 DEF FileInv, Fits
    <3>5. Loadable => Fits(disk, log' \ {Current})
      <4>1. (log' \ {Current}) \cap PlanTickets \subseteq log
        BY <3>1
      <4>2. QED
        BY <3>1, <4>1, FewerFits DEF FileInv
    <3>6. disk' = disk /\ Current' = Current
      BY <2>1 DEF CommitTicket, Current
    <3>7. QED
      BY <3>1, <3>4, <3>5, <3>6 DEF FileInv, Loadable
  <2>2. CASE FailTicket \/ SplitLastResort \/ ChildrenPass
    BY <1>b, <2>2 DEF FailTicket, SplitLastResort, ChildrenPass, durable, FileInv
  <2>3. CASE ChildCommits
    <3>1. stage = "children" /\ UNCHANGED <<stage, ledger, disk>>
      BY <2>3 DEF ChildCommits, control
    <3>2. sub <= Len(subs)
      BY <3>1 DEF TypeInv, Positions, At
    <3>3. ChildrenOf[Current] \subseteq SubTickets
      BY <3>2, CurrentType, PlanConstants DEF TypeInv
    <3>4. log' \cap PlanTickets \subseteq log
      BY <2>3, <3>3, LedgerConstants DEF ChildCommits
    <3>5. Fits(ledger.status, log')
      BY <3>4, FewerFits DEF FileInv
    <3>6. QED
      BY <1>b, <3>1, <3>4, <3>5
  <2>4. CASE ChildFails
    <3>1. /\ log' \subseteq log /\ stage = "children" /\ stage' = "returned"
          /\ UNCHANGED <<ledger, disk>>
      BY <2>4 DEF ChildFails, AheadInv
    <3>2. Fits(ledger.status, log')
      BY <3>1, FewerFits DEF FileInv
    <3>3. QED
      BY <1>b, <3>1, <3>2
  <2>5. QED
    BY <1>3, <2>1, <2>2, <2>3, <2>4 DEF TicketStep
<1>4. CASE Interrupt \/ Finish \/ SkipPrecompleted \/ TakeTicket \/ Execute
           \/ NextTicket
  <2>1. log' = log /\ ledger' = ledger
    BY <1>4 DEF Interrupt, Finish, SkipPrecompleted, TakeTicket, Execute,
       NextTicket, durable
  <2>2. \/ disk' = Torn
        \/ disk' = disk /\ stage # "committed" /\ stage' # "committed"
    BY <1>4 DEF Interrupt, Finish, Snapshot, SkipPrecompleted, TakeTicket, Execute,
       NextTicket, durable
  <2>3. QED
    BY <1>a, <1>b, <2>1, <2>2 DEF FileInv
<1>5. CASE Settle
  <2>1. ledger'.status = ledger.status
    BY <1>1, <1>5, CheckStopType DEF Settle
  <2>2. /\ log' = log
        /\ \/ disk' = Torn
           \/ disk' = disk /\ stage # "committed" /\ stage' # "committed"
    BY <1>5 DEF Settle, Snapshot
  <2>3. QED
    BY <1>a, <1>b, <2>1, <2>2 DEF FileInv
<1>6. CASE WriteSnapshot
  <2>1. disk' = ledger.status /\ ledger' = ledger /\ log' = log
    BY <1>6 DEF WriteSnapshot
  <2>2. Fits(disk', log') /\ Fits(disk', log' \ {Current'})
    BY <2>1, FewerFits DEF FileInv
  <2>3. QED
    BY <2>1, <2>2 DEF FileInv
<1>7. CASE Exit
  <2>1. /\ disk' = disk /\ log' = log /\ ledger' = FreshLedger
        /\ stage # "committed" /\ stage' # "committed"
    BY <1>7 DEF Exit, NoProcess, durable
  <2>2. QED
    BY <1>b, <2>1, FreshFits
<1>8. CASE SkipTicket
  <2>1. /\ stage = "plan" /\ pos <= Len(PlanOrder) /\ Parent \notin skipSet
        /\ ledger' = RecordResult(ledger, Parent, "SKIP", Parent)
        /\ disk' = Torn /\ log' = log
    BY <1>8 DEF SkipTicket, Snapshot
  <2>2. Parent \in Tickets /\ Parent \in PlanTickets
    BY <2>1, ParentType DEF TypeInv
  <2>3. Parent \notin log
    <3>1. pos \in pos..Len(PlanOrder)
      BY <2>1, PlanConstants DEF TypeInv, TypeOK
    <3>2. Parent \in log => Parent \in priorLog
      BY <2>1, <3>1 DEF AheadInv, At, Parent
    <3>3. QED
      BY <2>1, <2>2, <3>2 DEF AheadInv
  <2>4. ledger'.status = [ledger.status EXCEPT ![Parent] = "SKIP"]
    BY <1>1, <2>1, <2>2, RecordResultType DEF Verdicts
  <2>5. Fits([ledger.status EXCEPT ![Parent] = "SKIP"], log)
    BY <1>1, <2>2, <2>3, RecordFits DEF FileInv, Verdicts
  <2>6. QED
    BY <1>a, <2>1, <2>4, <2>5
<1>9. CASE SkipSub
  <2>1. /\ stage = "sub" /\ sub <= Len(subs) /\ disk' = Torn /\ log' = log
        /\ ledger' = RecordResult(ledger, Current, "SKIP", Parent)
    BY <1>9 DEF SkipSub, Snapshot
  <2>2. Current = Parent /\ Parent \in Tickets /\ Current \in Tickets
    BY <2>1, OneTicket DEF At, Loop
  <2>3. Current \notin log
    BY <2>1, <2>2, OneTicket DEF AheadInv, Uncommitted, At, Loop
  <2>4. ledger'.status = [ledger.status EXCEPT ![Current] = "SKIP"]
    <3>1. "SKIP" \in Verdicts
      BY DEF Verdicts
    <3>2. RecordResult(ledger, Current, "SKIP", Parent).status
            = [ledger.status EXCEPT ![Current] = "SKIP"]
      BY <1>1, <2>2, <3>1, RecordResultType
    <3>3. QED
      BY <2>1, <3>2
  <2>5. Fits([ledger.status EXCEPT ![Current] = "SKIP"], log)
    BY <1>1, <2>2, <2>3, RecordFits DEF FileInv, Verdicts
  <2>6. QED
    BY <1>a, <2>1, <2>4, <2>5
<1>10. CASE OnCommitted \/ RecordReturned
  <2>1. /\ stage \in {"committed", "returned"} /\ sub <= Len(subs)
        /\ verdict \in Verdicts /\ disk' = Torn /\ log' = log
        /\ ledger' = UpdatePhase(RecordResult(ledger, Current, verdict, Parent),
                                 Current)
    BY <1>10 DEF OnCommitted, RecordReturned, Snapshot, TypeInv, Positions, At
  <2>2. Current = Parent /\ Parent \in Tickets
    BY <2>1, OneTicket DEF At, Loop
  <2>3. verdict \in {"FAIL", "SKIP"} => Current \notin log
    BY <2>1, <2>2 DEF AheadInv, Uncommitted, At, PlaceInv, IsCoded
  <2>4. ledger'.status = [ledger.status EXCEPT ![Current] = verdict]
    BY <1>1, <2>1, <2>2, RecordExecuted
  <2>5. Fits([ledger.status EXCEPT ![Current] = verdict], log)
    BY <1>1, <2>1, <2>2, <2>3, RecordFits DEF FileInv
  <2>6. QED
    BY <1>a, <2>1, <2>4, <2>5
<1>11. CASE UNCHANGED vars
  <2>1. UNCHANGED <<disk, log, ledger, stage>> /\ Current' = Current
    BY <1>11 DEF vars, control, durable, Current
  <2>2. QED
    BY <2>1 DEF FileInv, Loadable
<1>12. CASE Crash
  <2>1. /\ stage # "idle" /\ stage' = "idle" /\ ledger' = FreshLedger
        /\ UNCHANGED <<disk, log>>
    BY <1>12 DEF Crash, NoProcess, durable
  <2>2. CASE stage = "committed" /\ Loadable
    <3>1. disk[Current] = "PENDING"
      BY <1>12, <2>1, <2>2 DEF Spared, vars, control
    <3>2. Fits(disk, log)
      BY <2>2, <3>1 DEF FileInv, Fits
    <3>3. Fits(ledger'.status, log')
      BY <2>1, FreshFits
    <3>4. QED
      BY <2>1, <3>2, <3>3 DEF FileInv
  <2>3. CASE ~Loadable
    BY <2>1, <2>3, FreshFits DEF FileInv, Loadable
  <2>4. CASE stage # "committed"
    BY <1>b, <2>1, <2>4, FreshFits
  <2>5. QED
    BY <2>2, <2>3, <2>4
<1>13. QED
  BY <1>2, <1>3, <1>4, <1>5, <1>6, <1>7, <1>8, <1>9, <1>10, <1>11, <1>12
     DEF Next, LoopStep

LEMMA AheadKept ==
  ASSUME AheadInv, UNCHANGED <<pos, subs, priorLog, skipSet>>, stage # "idle",
         log' \subseteq log, At(Loop)' => At(Loop),
         At(Loop \cup {"plan"})' => At(Loop \cup {"plan"}),
         At({"plan"})' => At({"plan"}), Uncommitted' => Uncommitted,
         stage' = "children" => preSplit' \subseteq log'
  PROVE  AheadInv'
<1>1. Parent' = Parent
  BY DEF Parent
<1>2. /\ stage' # "idle" => priorLog' \cap PlanTickets \subseteq skipSet'
      /\ At(Loop)' => subs' = <<Parent'>> /\ Parent' \notin skipSet'
      /\ Uncommitted' => Parent' \notin log'
  BY <1>1 DEF AheadInv
<1>3. ASSUME At(Loop \cup {"plan"})', NEW i \in pos'..Len(PlanOrder),
             i # pos' \/ At({"plan"})', PlanOrder[i] \in log'
      PROVE  PlanOrder[i] \in priorLog'
  BY <1>3 DEF AheadInv
<1>4. QED
  BY <1>2, <1>3 DEF AheadInv

\* A commit of the ticket at hand, or of a child of it.
LEMMA AheadCommits ==
  ASSUME TypeInv, DistinctIds, AheadInv, stage \in {"exec", "children"},
         stage' \in {"committed", "children"}, NEW c, log' \subseteq log \cup {c},
         c \in SubTickets \/ (c = Parent /\ stage' = "committed"),
         UNCHANGED <<pos, subs, priorLog, skipSet>>,
         stage' = "children" => preSplit' \subseteq log'
  PROVE  AheadInv'
<1>1. /\ At(Loop) /\ At(Loop)' /\ Parent' = Parent /\ ~At({"plan"})'
      /\ Uncommitted /\ (Uncommitted' => stage' = "children")
  BY DEF At, Loop, Uncommitted, Parent
<1>2. pos \in 1..Len(PlanOrder) /\ Len(PlanOrder) \in Nat
  BY <1>1, PlanConstants DEF TypeInv, TypeOK, Positions, Loop
<1>3. \A i \in pos..Len(PlanOrder) : PlanOrder[i] \in PlanTickets
  BY <1>2, PlanConstants
<1>4. Parent \in PlanTickets
  BY <1>2, ParentType DEF TypeInv
<1>5. ASSUME NEW i \in pos..Len(PlanOrder), i # pos, PlanOrder[i] \in log'
      PROVE  PlanOrder[i] \in priorLog
  <2>1. i \in 1..Len(PlanOrder)
    BY <1>2
  <2>2. PlanOrder[i] # Parent
    BY <1>2, <1>5, <2>1, PlanIds DEF Parent
  <2>3. PlanOrder[i] \notin SubTickets
    BY <1>3, LedgerConstants
  <2>4. PlanOrder[i] \in log
    BY <1>5, <2>2, <2>3
  <2>5. QED
    BY <1>1, <1>5, <2>4 DEF AheadInv, At
<1>6. stage' = "children" => Parent \notin log'
  BY <1>1, <1>4, LedgerConstants DEF AheadInv
<1>7. QED
  BY <1>1, <1>5, <1>6 DEF AheadInv

LEMMA AheadNext ==
  ASSUME TypeInv, TypeInv', DistinctIds, WholeTickets, OnlyResume, OwnBranch,
         Flushes, PlaceInv, AgainInv, [Next]_vars, [Spared]_vars
  PROVE  AheadInv'
<1> USE DEF AgainInv
<1>1. /\ Len(PlanOrder) \in Nat /\ pos \in 1..Len(PlanOrder) + 1
      /\ \A i \in 1..Len(PlanOrder) : PlanOrder[i] \in PlanTickets
  BY PlanConstants DEF TypeInv, TypeOK
<1>2. CASE Operator
  <2>1. /\ stage = "idle" /\ stage' = "plan" /\ priorLog' = log
        /\ UNCHANGED <<pos, log>> /\ log \cap PlanTickets \subseteq skipSet'
    <3>1. CASE StartRun
      <4>1. stage = "idle" /\ stage' = "plan" /\ UNCHANGED <<pos, log>>
            /\ priorLog' = log
        BY <3>1 DEF StartRun, BeginRun
      <4>2. log = {}
        BY <3>1, <4>1 DEF Spared, vars, control
      <4>3. QED
        BY <4>1, <4>2
    <3>2. ASSUME NEW c \in Commands, Continue(c)
          PROVE  /\ stage = "idle" /\ stage' = "plan" /\ priorLog' = log
                 /\ UNCHANGED <<pos, log>> /\ log \cap PlanTickets \subseteq skipSet'
      <4>1. c = "resume"
        BY <3>2 DEF OnlyResume
      <4> DEFINE now == Reconcile(disk)
      <4>2. /\ stage = "idle" /\ disk \in Statuses /\ stage' = "plan"
            /\ skipSet' = Known(now) \ WithStatus(now, Redone(c))
            /\ priorLog' = log /\ UNCHANGED <<pos, log>>
        BY <3>2, <4>1 DEF Continue, BeginRun, Loadable
      <4>3. Fits(disk, log)
        BY <4>2 DEF FileInv, Loadable
      <4>4. Redone(c) = {"FAIL", "SKIP", "PENDING"}
        BY <4>1 DEF Redone
      <4>5. ASSUME NEW t \in log \cap PlanTickets PROVE t \in skipSet'
        <5>1. t \in Tickets /\ disk[t] \notin {"ABSENT", "FAIL", "SKIP"}
          BY <4>3 DEF Fits, Tickets
        <5>2. now[t] \notin {"ABSENT", "FAIL", "SKIP", "PENDING"}
          BY <5>1 DEF Reconcile
        <5>3. t \in Known(now) /\ t \notin WithStatus(now, Redone(c))
          BY <4>4, <5>1, <5>2 DEF Known, WithStatus
        <5>4. QED
          BY <4>2, <5>3
      <4>6. QED
        BY <4>2, <4>5
    <3>3. QED
      BY <1>2, <3>1, <3>2 DEF Operator
  <2>2. QED
    BY <2>1 DEF AheadInv, At, Loop, Uncommitted
<1>3. CASE TicketStep
  <2>1. ASSUME NEW d \in {"PASS", "CODED_UNGOVERNED"}, CommitTicket(d)
        PROVE  AheadInv'
    <3>1. /\ stage = "exec" /\ stage' = "committed" /\ log' = log \cup {Current}
          /\ UNCHANGED <<pos, subs, priorLog, skipSet>>
      BY <2>1 DEF CommitTicket, OwnBranch, invoked
    <3>2. sub <= Len(subs)
      BY <3>1 DEF TypeInv, Positions, At
    <3>3. Current = Parent
      BY <3>1, <3>2, OneTicket DEF At, Loop
    <3>4. QED
      BY <3>1, <3>3, AheadCommits
  <2>2. CASE ChildCommits
    <3>1. /\ stage = "children" /\ stage' = "children"
          /\ UNCHANGED <<pos, subs, priorLog, skipSet, preSplit>>
      BY <2>2 DEF ChildCommits, control, invoked, ticket
    <3>2. PICK c \in ChildrenOf[Current] : log' = log \cup {c}
      BY <2>2 DEF ChildCommits
    <3>3. sub <= Len(subs)
      BY <3>1 DEF TypeInv, Positions, At
    <3>4. c \in SubTickets
      BY <3>2, <3>3, CurrentType, PlanConstants DEF TypeInv
    <3>5. preSplit' \subseteq log'
      BY <3>1, <3>2 DEF AheadInv
    <3>6. QED
      BY <3>1, <3>2, <3>4, <3>5, AheadCommits
  <2>3. CASE FailTicket \/ ChildrenPass \/ ChildFails
    <3>1. /\ stage \in {"exec", "children"} /\ stage' = "returned"
          /\ log' \subseteq log /\ UNCHANGED <<pos, subs, sub, priorLog, skipSet>>
      BY <2>3 DEF FailTicket, ChildrenPass, ChildFails, durable, invoked, AheadInv
    <3>2. QED
      BY <3>1, AheadKept DEF At, Loop, Uncommitted
  <2>4. CASE SplitLastResort
    BY <2>4, AheadKept DEF SplitLastResort, durable, invoked, At, Loop, Uncommitted
  <2>5. QED
    BY <1>3, <2>1, <2>2, <2>3, <2>4 DEF TicketStep
<1>4. CASE Interrupt \/ UNCHANGED vars
  <2>1. CASE Interrupt
    BY <2>1, AheadKept DEF Interrupt, InTicket, Snapshot, invoked, At, Loop,
       Uncommitted
  <2>2. CASE UNCHANGED vars
    BY <2>2 DEF vars, control, ticket, invoked, durable, AheadInv, At, Uncommitted,
       Parent
  <2>3. QED
    BY <1>4, <2>1, <2>2
<1>5. CASE Exit \/ Crash
  BY <1>5 DEF Exit, Crash, NoProcess, AheadInv, At, Loop, Uncommitted
<1>6. CASE Execute \/ OnCommitted \/ RecordReturned \/ Finish
  <2>1. CASE Execute
    <3>1. sub = 1
      BY <2>1, OneTicket DEF Execute, At, Loop
    <3>2. QED
      BY <2>1, <3>1, AheadKept DEF Execute, invoked, durable, At, Loop, Uncommitted
  <2>2. CASE OnCommitted
    <3>1. IsCoded(verdict)
      BY <2>2 DEF OnCommitted, PlaceInv, At
    <3>2. QED
      BY <2>2, <3>1, AheadKept DEF OnCommitted, Snapshot, invoked, ticket, At, Loop,
         Uncommitted
  <2>3. CASE RecordReturned
    BY <2>3, AheadKept DEF RecordReturned, Snapshot, invoked, At, Loop, Uncommitted
  <2>4. CASE Finish
    BY <2>4, AheadKept DEF Finish, Snapshot, invoked, At, Loop, Uncommitted
  <2>5. QED
    BY <1>6, <2>1, <2>2, <2>3, <2>4
<1>7. CASE SkipSub \/ Settle
  <2>1. sub' # 1 /\ UNCHANGED <<pos, subs, priorLog, skipSet, log>>
    BY <1>7 DEF SkipSub, Settle, invoked, TypeInv, TypeOK
  <2>2. QED
    BY <1>7, <2>1, AheadKept DEF SkipSub, Settle, Snapshot, At, Loop, Uncommitted
<1>8. CASE WriteSnapshot
  BY <1>8, AheadKept DEF WriteSnapshot, Flushes, invoked, ticket, At, Loop,
     Uncommitted
<1>9. CASE SkipPrecompleted \/ SkipTicket \/ NextTicket
  <2>1. /\ stage # "idle" /\ pos' = pos + 1 /\ UNCHANGED <<priorLog, skipSet, log>>
        /\ At(Loop \cup {"plan"}) /\ At({"plan"})' /\ ~At(Loop)' /\ stage' # "idle"
    BY <1>9 DEF SkipPrecompleted, SkipTicket, NextTicket, Snapshot, invoked, durable,
       At, Loop
  <2>2. \A i \in pos'..Len(PlanOrder) : i \in pos..Len(PlanOrder) /\ i # pos
    BY <1>1, <2>1
  <2>3. ~Uncommitted' /\ stage' # "children"
    BY <2>1 DEF At, Loop, Uncommitted
  <2>4. QED
    BY <2>1, <2>2, <2>3 DEF AheadInv
<1>10. CASE TakeTicket
  <2>1. /\ stage = "plan" /\ pos <= Len(PlanOrder) /\ Parent \notin skipSet
        /\ UNCHANGED <<pos, priorLog, skipSet, log>> /\ stage' = "sub"
    BY <1>10 DEF TakeTicket, invoked, durable
  <2>2. pos \in pos..Len(PlanOrder) /\ Parent \in PlanTickets
    BY <1>1, <2>1 DEF Parent
  <2>3. subs' = <<Parent>>
    BY <1>10, <2>2 DEF TakeTicket, WholeTickets
  <2>4. Parent \notin log
    BY <2>1, <2>2 DEF AheadInv, At, Parent
  <2>5. QED
    BY <2>1, <2>3, <2>4 DEF AheadInv, At, Loop, Uncommitted, Parent
<1>11. QED
  BY <1>2, <1>3, <1>4, <1>5, <1>6, <1>7, <1>8, <1>9, <1>10 DEF Next, LoopStep

LEMMA AgainInit == ASSUME OwnBranch, Init PROVE AgainInv
  BY FreshFits, NotStatuses DEF Init, OwnBranch, AgainInv, FileInv, AheadInv, At,
     Loop, Uncommitted, Loadable

LEMMA AgainNext ==
  ASSUME TypeInv, TypeInv', DistinctIds, WholeTickets, OnlyResume, OwnBranch,
         Flushes, LedgerInv, AgainInv, [Next]_vars, [Spared]_vars
  PROVE  AgainInv'
  BY FileNext, AheadNext DEF AgainInv, LedgerInv

LEMMA NoCommitRepeated ==
  ASSUME TypeInv, AgainInv
  PROVE  ResumeRepeatsNoCommit
<1> SUFFICES ASSUME stage = "exec" PROVE Current \notin priorLog
  BY DEF ResumeRepeatsNoCommit
<1>1. sub <= Len(subs)
  BY DEF TypeInv, Positions, At
<1>2. Current = Parent /\ Parent \in PlanTickets
  BY <1>1, OneTicket DEF AgainInv, At, Loop
<1>3. QED
  BY <1>2 DEF AgainInv, AheadInv, At, Loop

\* A build continued with resume is executed once and in order: no ticket whose
\* commit was on the branch, none before what it depends on, and by the command
\* a run advises every ticket still missing; for every plan of whole tickets,
\* every limit, Ctrl-C wherever in a ticket and kills anywhere but where Spared
\* says (RunPlan!ResumeIsExact).  A ticket split before it is executed is not
\* covered.
THEOREM ResumeAfterKills ==
  ASSUME OwnBranch, OnlyResume, WholeTickets, DistinctIds
  PROVE  Spec /\ [][Spared]_vars => []ResumeIsExact
<1> DEFINE Inv == TypeInv /\ Flushes /\ LedgerInv /\ AgainInv
<1>1. Init => Inv
  BY TypeInit, LedgerInit, AgainInit
<1>2. Inv /\ [Next]_vars /\ [Spared]_vars => Inv'
  BY TypeNext, FlushesNext, LedgerNext, AgainNext
<1>3. Inv => ResumeRepeatsNoCommit
  BY NoCommitRepeated
<1>4. Spec => []DependenciesLanded
  BY DependenciesFirst
<1>5. Spec => []AdviceCoversUnlanded
  BY AdviceIsComplete
<1>6. ResumeRepeatsNoCommit /\ DependenciesLanded /\ AdviceCoversUnlanded
        => ResumeIsExact
  BY DEF ResumeIsExact
<1> HIDE DEF Inv
<1>7. QED
  BY <1>1, <1>2, <1>3, <1>4, <1>5, <1>6, PTL DEF Spec

---------------------------------------------------------------------------
(* One build, never killed *)

\* A fresh run, continued with resume whenever it stops.
OneBuild == OnlyResume /\ ~RunAgain /\ "crash" \notin Interruptions

\* A run ends with its ledger written, and the first one begins on a branch
\* without commits.
KeepsLedger ==
  /\ stage \in {"closed", "interrupted"} => Loadable
  /\ stage = "idle" => Loadable \/ log = {}

LEMMA LedgerKept ==
  ASSUME TypeInv, Flushes, OneBuild, KeepsLedger, [Next]_vars
  PROVE  KeepsLedger'
<1>1. CASE Operator
  <2>1. CASE StartRun
    BY <2>1 DEF StartRun, BeginRun, KeepsLedger
  <2>2. ASSUME NEW c \in Commands, Continue(c) PROVE KeepsLedger'
    BY <2>2 DEF Continue, BeginRun, OneBuild, OnlyResume, KeepsLedger
  <2>3. QED
    BY <1>1, <2>1, <2>2 DEF Operator
<1>2. CASE WriteSnapshot
  <2>1. disk' = ledger.status /\ stage' # "idle"
    BY <1>2 DEF WriteSnapshot, Flushes
  <2>2. disk' \in Statuses
    BY <2>1 DEF TypeInv, TypeOK, Ledgers
  <2>3. QED
    BY <2>1, <2>2 DEF KeepsLedger, Loadable
<1>3. CASE Exit \/ UNCHANGED vars
  BY <1>3 DEF Exit, NoProcess, durable, vars, control, KeepsLedger, Loadable
<1>4. CASE TicketStep
  BY <1>4 DEF TicketStep, CommitTicket, FailTicket, SplitLastResort, ChildCommits,
     ChildrenPass, ChildFails, control, KeepsLedger
<1>5. CASE Crash
  BY <1>5 DEF Crash, OneBuild
<1>6. CASE SkipPrecompleted \/ SkipTicket \/ TakeTicket \/ SkipSub \/ Execute
           \/ OnCommitted \/ RecordReturned \/ Settle \/ NextTicket \/ Finish
           \/ Interrupt
  BY <1>6 DEF SkipPrecompleted, SkipTicket, TakeTicket, SkipSub, Execute, OnCommitted,
     RecordReturned, Settle, NextTicket, Finish, Interrupt, Snapshot, KeepsLedger
<1>7. QED
  BY <1>1, <1>2, <1>3, <1>4, <1>5, <1>6 DEF Next, LoopStep

\* The same without a condition on steps: a build that is never killed and
\* never started again is spared.
THEOREM ResumeExact ==
  ASSUME OwnBranch, OneBuild, WholeTickets, DistinctIds
  PROVE  Spec => []ResumeIsExact
<1> DEFINE Inv == TypeInv /\ Flushes /\ LedgerInv /\ KeepsLedger
<1>1. Init => Inv
  <2>1. Init => KeepsLedger
    BY DEF Init, OwnBranch, KeepsLedger
  <2>2. QED
    BY <2>1, TypeInit, LedgerInit, AgainInit
<1>2. Inv /\ [Next]_vars => Inv'
  BY TypeNext, FlushesNext, LedgerNext, LedgerKept
<1>3. Inv => Spared
  BY DEF Spared, KeepsLedger, StartRun, Crash, OneBuild
<1>4. OnlyResume
  BY DEF OneBuild
<1>5. Spec /\ [][Spared]_vars => []ResumeIsExact
  BY <1>4, ResumeAfterKills
<1> HIDE DEF Inv
<1>6. QED
  BY <1>1, <1>2, <1>3, <1>5, PTL DEF Spec
=============================================================================
