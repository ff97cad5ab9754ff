------------------------------ MODULE RunPlan ------------------------------
(***************************************************************************)
(* The run loop of ticket_runner.run_plan, the git branch it commits to,   *)
(* the ledger file it leaves behind, and the four commands an operator     *)
(* continues a build with: run, resume, rerun-failed and rerun-remaining   *)
(* (run/resume.py).                                                        *)
(*                                                                         *)
(* One process runs at a time.  It can be killed between any two of its    *)
(* steps (Crash) or stopped by Ctrl-C while a ticket executes (Interrupt); *)
(* what survives is the branch (log) and the file (disk).  A snapshot      *)
(* truncates ledger.json and then writes it, so a crash in between leaves  *)
(* a file that does not parse (Torn).                                      *)
(*                                                                         *)
(* What happens inside one ticket (attempts, governance, repair) is only   *)
(* its outcome here: a commit with a verdict, a failure, or a last-resort  *)
(* split into child tickets.                                               *)
(***************************************************************************)
EXTENDS RunLedger, Sequences

CONSTANTS
  PlanOrder,      \* plan.tickets: dependency order
  Deps,           \* the dependencies of each ticket and sub-ticket
  SplitInto,      \* the sub-tickets the splitter makes of a ticket, or <<>>
  ChildrenOf,     \* the children of a last-resort split, or {}
  Commands,       \* the continuation commands the operator uses
  RunAgain,       \* whether the operator starts afresh over a readable ledger
  Interruptions,  \* subset of {"crash", "interrupt"}
  CommitMayFail,  \* whether git commit may refuse
  ForeignCommits, \* ids an older plan left in the branch's commit subjects
  ProjectId,      \* plan.project_id
  NoLedger, Torn

Elements(s) == {s[k] : k \in DOMAIN s}

ASSUME PlanConstants ==
  /\ PlanOrder \in Seq(PlanTickets)
  /\ Elements(PlanOrder) = PlanTickets
  /\ Deps \in [Tickets -> SUBSET Tickets]
  /\ \A t \in PlanTickets : Deps[t] \subseteq PlanTickets
  /\ SplitInto \in [PlanTickets -> Seq(SubTickets)]
  /\ ChildrenOf \in [Tickets -> SUBSET SubTickets]
  /\ Commands \subseteq {"resume", "rerun-failed", "rerun-remaining"}
  /\ RunAgain \in BOOLEAN /\ CommitMayFail \in BOOLEAN
  /\ Interruptions \subseteq {"crash", "interrupt"}
  /\ ForeignCommits \subseteq PlanTickets
  /\ NoLedger \notin Statuses /\ Torn \notin Statuses /\ NoLedger # Torn

VARIABLES
  \* the running process
  stage,     \* where it stands
  after,     \* where it goes once the snapshot in progress is written
  command,   \* the command that started it
  skipSet,   \* skip_tickets
  pos,       \* position in PlanOrder
  subs,      \* sub_tickets of the current ticket
  sub,       \* position in subs
  verdict,   \* disposition of the ticket being executed
  preSplit,  \* the branch before a last-resort split
  allPassed, \* all_subs_passed
  completed, \* tickets whose dependents may run
  ledger,    \* the RunLedger
  results,   \* ticket_results
  doneMet,   \* definition_of_done_met of the run's result
  \* durable
  disk,      \* the dispositions in ledger.json, Torn or NoLedger
  log,       \* ids in the commit subjects of the branch
  \* history, for the properties only
  landed,    \* tickets whose code this plan's runs handed to git commit
  priorLog   \* the branch when the command started

control == <<stage, after, pos, subs, sub>>
ticket  == <<verdict, preSplit, allPassed>>
invoked == <<command, skipSet, priorLog>>
durable == <<disk, log>>
vars == <<control, ticket, invoked, completed, ledger, results, doneMet,
          durable, landed>>

Current == subs[sub]
Parent  == PlanOrder[pos]

\* Mutant: a dependency counts as met once it was attempted.
Bug_Unmet(t) == Deps[t] \ (completed \cup {results[k].ticket : k \in DOMAIN results})

Unmet(t) == Deps[t] \ completed
Loadable == disk \in Statuses

NoProcess ==
  /\ stage' = "idle" /\ after' = "idle" /\ command' = "none"
  /\ pos' = 1 /\ subs' = <<>> /\ sub' = 1
  /\ skipSet' = {} /\ completed' = {} /\ results' = <<>>
  /\ verdict' = "PENDING" /\ preSplit' = {} /\ allPassed' = TRUE
  /\ ledger' = FreshLedger /\ doneMet' = FALSE
  /\ priorLog' = {}

Init ==
  /\ stage = "idle" /\ after = "idle" /\ command = "none"
  /\ pos = 1 /\ subs = <<>> /\ sub = 1
  /\ skipSet = {} /\ completed = {} /\ results = <<>>
  /\ verdict = "PENDING" /\ preSplit = {} /\ allPassed = TRUE
  /\ ledger = FreshLedger /\ doneMet = FALSE
  /\ priorLog = {}
  /\ disk = NoLedger /\ log = ForeignCommits
  /\ landed = {}

---------------------------------------------------------------------------
(* Commands *)

\* Mutants of the reconciliation: every PENDING ticket is promoted; the
\* promoted disposition is one no reader knows.
Bug_ReconcileAll(d) ==
  [t \in Tickets |-> IF d[t] = "PENDING" THEN "CODED_UNGOVERNED" ELSE d[t]]
Bug_ReconcileCoded(d) ==
  [t \in Tickets |-> IF d[t] = "PENDING" /\ t \in log THEN "CODED" ELSE d[t]]

\* _reconcile_stale_ledger: PENDING tickets found in the branch's commit
\* subjects become CODED_UNGOVERNED.
Reconcile(d) ==
  [t \in Tickets |-> IF d[t] = "PENDING" /\ t \in log
                     THEN "CODED_UNGOVERNED" ELSE d[t]]

WithStatus(d, S) == {t \in Tickets : d[t] \in S}
Known(d) == {t \in Tickets : d[t] # "ABSENT"}

BeginRun(c, skip) ==
  /\ stage' = "plan" /\ command' = c /\ skipSet' = skip
  /\ UNCHANGED <<after, pos, subs, sub, ticket, completed, ledger, results,
                 doneMet, log, landed>>

\* RunLedger.to_dict writes no project_id, so the prior ledger has none.
PriorProjectId == ""

\* run_plan without a resume filter: a new evidence directory, and an
\* auto-resume from the prior ledger when it belongs to the same project.
\* The prior ledger.json is renamed away whatever the answer.
StartRun ==
  /\ stage = "idle"
  /\ RunAgain \/ ~Loadable
  /\ LET same == Loadable /\ PriorProjectId = ProjectId IN
       BeginRun("run", IF same THEN WithStatus(Reconcile(disk),
                                               {"PASS", "CODED_UNGOVERNED"})
                       ELSE {})
  /\ priorLog' = log
  /\ disk' = NoLedger

\* What each continuation command executes again, by prior disposition.
Redone(c) == CASE c = "resume"          -> {"FAIL", "SKIP", "PENDING"}
               [] c = "rerun-failed"    -> {"FAIL", "CODED_UNGOVERNED"}
               [] c = "rerun-remaining" -> {"SKIP", "PENDING"}

\* Mutant: failed and ungoverned tickets come before the remaining ones.
Bug_Advice(d) ==
  CASE WithStatus(d, {"FAIL", "CODED_UNGOVERNED"}) # {} -> "rerun-failed"
    [] WithStatus(d, {"FAIL", "CODED_UNGOVERNED"}) = {}
       /\ WithStatus(d, {"SKIP", "PENDING"}) # {}      -> "rerun-remaining"
    [] OTHER                                           -> "none"

\* _select_continuation_command: the next step printed after a run, from the
\* ledger on disk.
Advice(d) ==
  LET failed    == WithStatus(d, {"FAIL"}) # {}
      coded     == WithStatus(d, {"CODED_UNGOVERNED"}) # {}
      remaining == WithStatus(d, {"SKIP", "PENDING"}) # {}
  IN  CASE failed /\ remaining              -> "resume"
        [] (failed \/ coded) /\ ~remaining  -> "rerun-failed"
        [] remaining /\ ~failed             -> "rerun-remaining"
        [] OTHER                            -> "none"

\* resume_plan, rerun_failed, rerun_remaining, once the work-branch preflight
\* (Session) lets them through.  The two reruns return at once when they find
\* nothing to do; the reconciled ledger stays on disk.
Continue(c) ==
  /\ stage = "idle" /\ Loadable /\ c \in Commands
  /\ LET now  == Reconcile(disk)
         redo == WithStatus(now, Redone(c))
     IN  /\ disk' = now
         /\ \/ /\ c # "resume" /\ redo = {}
               /\ UNCHANGED <<control, ticket, invoked, completed, ledger,
                              results, doneMet, log, landed>>
            \/ /\ c = "resume" \/ redo # {}
               /\ BeginRun(c, Known(now) \ redo)
               /\ priorLog' = log

---------------------------------------------------------------------------
(* The loop over the plan's tickets *)

\* write_ledger_snapshot opens ledger.json for writing: the old text is gone.
Snapshot(next) == stage' = "flush" /\ after' = next /\ disk' = Torn

WriteSnapshot ==
  /\ stage = "flush"
  /\ disk' = ledger.status
  /\ stage' = after
  /\ UNCHANGED <<after, pos, subs, sub, ticket, invoked, completed, ledger,
                 results, doneMet, log, landed>>

Report(t, d) == results' = Append(results, [ticket |-> t, parent |-> Parent,
                                            verdict |-> d])

\* Mutants: a pre-completed ticket is passed over without counting as
\* completed; the loop does not move past it.
Bug_SkipForgetsCompleted ==
  /\ stage = "plan" /\ pos <= Len(PlanOrder) /\ Parent \in skipSet
  /\ pos' = pos + 1
  /\ UNCHANGED <<stage, after, subs, sub, ticket, invoked, completed, ledger,
                 results, doneMet, durable, landed>>
Bug_SkipStaysPut ==
  /\ stage = "plan" /\ pos <= Len(PlanOrder) /\ Parent \in skipSet
  /\ completed' = completed \cup {Parent}
  /\ UNCHANGED <<control, ticket, invoked, ledger, results, doneMet, durable,
                 landed>>

SkipPrecompleted ==
  /\ stage = "plan" /\ pos <= Len(PlanOrder) /\ Parent \in skipSet
  /\ completed' = completed \cup {Parent}
  /\ pos' = pos + 1
  /\ UNCHANGED <<stage, after, subs, sub, ticket, invoked, ledger, results,
                 doneMet, durable, landed>>

SkipTicket ==
  /\ stage = "plan" /\ pos <= Len(PlanOrder) /\ Parent \notin skipSet
  /\ ShouldSkip(ledger) \/ Unmet(Parent) # {}
  /\ ledger' = RecordResult(ledger, Parent, "SKIP", Parent)
  /\ Report(Parent, "SKIP")
  /\ pos' = pos + 1
  /\ Snapshot("plan")
  /\ UNCHANGED <<subs, sub, ticket, invoked, completed, doneMet, log, landed>>

\* analyze_and_split asks the coder: the ticket itself, or its sub-tickets.
TakeTicket ==
  /\ stage = "plan" /\ pos <= Len(PlanOrder) /\ Parent \notin skipSet
  /\ ~ShouldSkip(ledger) /\ Unmet(Parent) = {}
  /\ \/ subs' = <<Parent>>
     \/ SplitInto[Parent] # <<>> /\ subs' = SplitInto[Parent]
  /\ sub' = 1 /\ allPassed' = TRUE /\ stage' = "sub"
  /\ UNCHANGED <<after, pos, verdict, preSplit, invoked, completed, ledger,
                 results, doneMet, durable, landed>>

SkipSub ==
  /\ stage = "sub" /\ sub <= Len(subs)
  /\ ShouldSkip(ledger) \/ Unmet(Current) # {}
  /\ ledger' = RecordResult(ledger, Current, "SKIP", Parent)
  /\ Report(Current, "SKIP")
  /\ allPassed' = FALSE
  /\ sub' = sub + 1
  /\ Snapshot("sub")
  /\ UNCHANGED <<pos, subs, verdict, preSplit, invoked, completed, doneMet,
                 log, landed>>

Execute ==
  /\ stage = "sub" /\ sub <= Len(subs)
  /\ ~ShouldSkip(ledger) /\ Unmet(Current) = {}
  /\ stage' = "exec"
  /\ UNCHANGED <<after, pos, subs, sub, ticket, invoked, completed, ledger,
                 results, doneMet, durable, landed>>

---------------------------------------------------------------------------
(* One ticket: _run_ticket_with_retries seen from outside *)

\* _git_commit logs a refused commit and returns; its caller goes on.
CommitTicket(d) ==
  /\ stage = "exec"
  /\ log' = log \cup {Current} \/ (CommitMayFail /\ UNCHANGED log)
  /\ landed' = landed \cup {Current}
  /\ verdict' = d
  /\ stage' = "committed"
  /\ UNCHANGED <<after, pos, subs, sub, preSplit, allPassed, invoked,
                 completed, ledger, results, doneMet, disk>>

FailTicket ==
  /\ stage = "exec"
  /\ verdict' = "FAIL"
  /\ stage' = "returned"
  /\ UNCHANGED <<after, pos, subs, sub, preSplit, allPassed, invoked,
                 completed, ledger, results, doneMet, durable, landed>>

\* The last-resort split: the children run without a commit callback, and
\* the branch goes back to where it was when one of them does not pass.
SplitLastResort ==
  /\ stage = "exec" /\ ChildrenOf[Current] # {}
  /\ preSplit' = log
  /\ stage' = "children"
  /\ UNCHANGED <<after, pos, subs, sub, verdict, allPassed, invoked,
                 completed, ledger, results, doneMet, durable, landed>>

ChildCommits ==
  /\ stage = "children"
  /\ \E c \in ChildrenOf[Current] \ log : log' = log \cup {c}
  /\ UNCHANGED <<control, ticket, invoked, completed, ledger, results,
                 doneMet, disk, landed>>

ChildrenPass ==
  /\ stage = "children"
  /\ ChildrenOf[Current] \subseteq log \/ CommitMayFail
  /\ landed' = landed \cup {Current}
  /\ verdict' = "PASS"
  /\ stage' = "returned"
  /\ UNCHANGED <<after, pos, subs, sub, preSplit, allPassed, invoked,
                 completed, ledger, results, doneMet, durable>>

\* Mutant: the commits of the children that passed stay.
Bug_ChildFails ==
  /\ stage = "children"
  /\ verdict' = "FAIL"
  /\ stage' = "returned"
  /\ UNCHANGED <<after, pos, subs, sub, preSplit, allPassed, invoked,
                 completed, ledger, results, doneMet, durable, landed>>

ChildFails ==
  /\ stage = "children"
  /\ log' = preSplit
  /\ verdict' = "FAIL"
  /\ stage' = "returned"
  /\ UNCHANGED <<after, pos, subs, sub, preSplit, allPassed, invoked,
                 completed, ledger, results, doneMet, disk, landed>>

\* The _on_committed callback flushes the ledger right after the commit.
OnCommitted ==
  /\ stage = "committed"
  /\ ledger' = UpdatePhase(RecordResult(ledger, Current, verdict, Parent), Current)
  /\ Snapshot("returned")
  /\ UNCHANGED <<pos, subs, sub, ticket, invoked, completed, results, doneMet,
                 log, landed>>

\* Back in the loop the result is recorded, whether or not the callback has.
RecordReturned ==
  /\ stage = "returned"
  /\ ledger' = UpdatePhase(RecordResult(ledger, Current, verdict, Parent), Current)
  /\ Report(Current, verdict)
  /\ Snapshot("settle")
  /\ UNCHANGED <<pos, subs, sub, ticket, invoked, completed, doneMet, log, landed>>

\* The loop checks the stop conditions without handing over any reason.
StopReasons == {}

Settle ==
  /\ stage = "settle"
  /\ completed' = completed \cup {t \in {Current} : verdict = "PASS"}
  /\ allPassed' = (allPassed /\ verdict = "PASS")
  /\ ledger' = CheckStopConditions(ledger, StopReasons)
  /\ sub' = sub + 1
  /\ \/ ShouldStop(ledger, StopReasons) /\ Snapshot("finish")
     \/ /\ ~ShouldStop(ledger, StopReasons)
        /\ stage' = "sub" /\ UNCHANGED <<after, disk>>
  /\ UNCHANGED <<pos, subs, verdict, preSplit, invoked, results, doneMet, log,
                 landed>>

\* A split ticket counts as completed when all its sub-tickets passed.
NextTicket ==
  /\ stage = "sub" /\ sub > Len(subs)
  /\ completed' = completed \cup {t \in {Parent} : allPassed}
  /\ landed' = landed \cup {t \in {Parent} : Elements(subs) \subseteq landed}
  /\ pos' = pos + 1
  /\ stage' = "plan"
  /\ UNCHANGED <<after, subs, sub, ticket, invoked, ledger, results, doneMet,
                 durable>>

Finish ==
  /\ stage = "finish" \/ (stage = "plan" /\ pos > Len(PlanOrder))
  /\ doneMet' = DefinitionOfDoneMet(ledger)
  /\ Snapshot("closed")
  /\ UNCHANGED <<pos, subs, sub, ticket, invoked, completed, ledger, results,
                 log, landed>>

Exit ==
  /\ stage \in {"closed", "interrupted"}
  /\ NoProcess
  /\ UNCHANGED <<durable, landed>>

---------------------------------------------------------------------------
(* Interruptions *)

InTicket == \/ stage \in {"exec", "children", "committed"}
            \/ stage = "flush" /\ after = "returned"

\* except KeyboardInterrupt: the uncommitted work is reset, the ledger saved.
Interrupt ==
  /\ "interrupt" \in Interruptions /\ InTicket
  /\ Snapshot("interrupted")
  /\ UNCHANGED <<pos, subs, sub, ticket, invoked, completed, ledger, results,
                 doneMet, log, landed>>

Crash ==
  /\ "crash" \in Interruptions /\ stage # "idle"
  /\ NoProcess
  /\ UNCHANGED <<durable, landed>>

---------------------------------------------------------------------------
Operator == StartRun \/ \E c \in Commands : Continue(c)

LoopStep == \/ SkipPrecompleted \/ SkipTicket \/ TakeTicket \/ SkipSub
            \/ Execute \/ OnCommitted \/ RecordReturned \/ Settle
            \/ NextTicket \/ WriteSnapshot \/ Finish \/ Exit

TicketStep == \/ \E d \in {"PASS", "CODED_UNGOVERNED"} : CommitTicket(d)
              \/ FailTicket \/ SplitLastResort
              \/ ChildCommits \/ ChildrenPass \/ ChildFails

Next == Operator \/ LoopStep \/ TicketStep \/ Interrupt \/ Crash

Spec == Init /\ [][Next]_vars

\* The loop is sequential code and every call it makes is bounded by a
\* time-out, so the process keeps stepping until it exits or is killed.
FairSpec == Spec /\ WF_vars(LoopStep \/ TicketStep)
---------------------------------------------------------------------------
(* Properties *)

Stages == {"idle", "plan", "sub", "exec", "children", "committed", "returned",
           "settle", "flush", "finish", "closed", "interrupted"}
Reports == [ticket : Tickets, parent : PlanTickets,
            verdict : Verdicts]

\* Every variable of the loop, the branch and the file has its type.
TypeOK ==
  /\ stage \in Stages /\ after \in Stages
  /\ command \in {"none", "run", "resume", "rerun-failed", "rerun-remaining"}
  /\ skipSet \subseteq Tickets /\ completed \subseteq Tickets
  /\ pos \in 1..Len(PlanOrder) + 1
  /\ subs \in Seq(Tickets) /\ sub \in 1..Len(subs) + 1
  /\ verdict \in Verdicts \cup {"PENDING"}
  /\ preSplit \subseteq Tickets /\ allPassed \in BOOLEAN
  /\ ledger \in Ledgers
  /\ results \in Seq(Reports)
  /\ doneMet \in BOOLEAN
  /\ disk \in Statuses \cup {NoLedger, Torn}
  /\ log \subseteq Tickets /\ landed \subseteq Tickets
  /\ priorLog \subseteq Tickets

\* A ticket the ledger on disk calls done has its code on the branch, through
\* every crash, interrupt and reconciliation, and so has a ticket that run or
\* resume passes over as passed or coded (resume_plan's skip set after
\* _reconcile_stale_ledger).
RecordedHasCode ==
  /\ Loadable => WithStatus(disk, {"PASS", "CODED_UNGOVERNED"}) \subseteq landed
  /\ command \in {"run", "resume"} => skipSet \subseteq landed

\* No ticket is given to the coder before the code of everything it depends
\* on is on the branch, in a first run and in every resume of it.
DependenciesLanded ==
  stage = "exec" => Deps[Current] \subseteq landed

\* Between a commit's callback and the loop's own record, the ledger is one
\* record ahead of ticket_results.
LedgerAhead == \/ stage = "returned"
               \/ stage = "flush" /\ after \in {"returned", "interrupted"}
               \/ stage = "interrupted"

\* The plan tickets with a failure since code last reached the branch.
FailingParents ==
  LET failedSince(k) == /\ results[k].verdict = "FAIL"
                        /\ \A m \in k..Len(results) : ~IsCoded(results[m].verdict)
  IN  {results[k].parent : k \in {m \in DOMAIN results : failedSince(m)}}

\* consecutive_failures counts parents, not sub-tickets, and neither the
\* double record of a committed ticket nor a skip in between disturbs it.
FailureCountExact ==
  ~LedgerAhead => ledger.failures = Cardinality(FailingParents)

\* The ledger a finished run leaves agrees with the ticket results its
\* summary is built from: same verdicts, same skips, nothing unaccounted for.
LedgerMatchesResults ==
  stage = "closed" =>
    LET of(t) == {k \in DOMAIN results : results[k].ticket = t} IN
    /\ disk = ledger.status
    /\ \A t \in Tickets : \A k \in of(t) : ledger.status[t] = results[k].verdict
    /\ \A t \in Tickets : of(t) = {} => ledger.status[t] \in {"PENDING", "ABSENT"}
    /\ ledger.skipped = Cardinality({k \in DOMAIN results :
                                        results[k].verdict = "SKIP"})

\* A phase is reported PASS only while every ticket of it has passed, and
\* FAIL only when all of them have a verdict and one is not PASS.
PhaseVerdicts ==
  \A p \in Phases :
    LET seen == {ledger.status[t] : t \in PhaseTickets(p)} IN
    /\ ledger.phase[p] = "PASS" => seen \subseteq {"PASS"}
    /\ ledger.phase[p] = "FAIL" => "PENDING" \notin seen /\ ~(seen \subseteq {"PASS"})

\* The ledger is exact, although a committed ticket is recorded twice, a split
\* one through its parts, and a skipped one not at all.
LedgerIsExact == FailureCountExact /\ LedgerMatchesResults /\ PhaseVerdicts

\* Work committed before Ctrl-C is never done again by resume, wherever in
\* the ticket the interrupt came (what _on_committed and
\* _reconcile_stale_ledger are there for).
ResumeRepeatsNoCommit ==
  stage = "exec" /\ command = "resume" => Current \notin priorLog

\* The command a finished run advises executes every ticket whose code is not
\* on the branch yet, although the ledger of a resumed run says nothing of
\* the tickets it passed over.
AdviceCoversUnlanded ==
  stage = "closed" => LET c == Advice(disk) IN
    PlanTickets \ landed \subseteq
      IF c = "none" THEN {} ELSE WithStatus(Reconcile(disk), Redone(c))

\* A plan continued with resume is executed once and in order: no ticket whose
\* commit was on the branch, none before what it depends on, and by the
\* command a run advises every ticket still missing.
ResumeIsExact == ResumeRepeatsNoCommit /\ DependenciesLanded /\ AdviceCoversUnlanded

\* A run that starts comes to an end: it exits or is killed.
RunEnds == stage # "idle" ~> stage = "idle"

---------------------------------------------------------------------------
(* The ticket seen from outside *)

ComesBack == \/ stage \in {"committed", "returned"}
             \/ stage = "flush" /\ after = "returned"
Executing == stage \in {"exec", "children"} \/ ComesBack

Outcome == INSTANCE TicketOutcome WITH
  stage    <- IF ComesBack THEN "returned"
              ELSE IF Executing THEN stage ELSE "idle",
  current  <- IF Executing THEN Current ELSE NoTicket,
  preSplit <- IF stage = "children" THEN preSplit ELSE {},
  verdict  <- IF ComesBack THEN verdict ELSE "PENDING"

\* The loop uses a ticket as TicketOutcome promises it, the contract that
\* TicketAttempts implements, and touches the branch nowhere else: no record,
\* snapshot, interrupt or crash of the loop changes what is committed.
KeepsContract == Outcome!Spec

---------------------------------------------------------------------------
(* An operator who keeps resuming, and a coder that keeps trying *)

\* A ticket executed again and again is committed some time.
CoderSucceeds(t) ==
  /\ CommitTicket("PASS")
  /\ Current = t /\ t \in landed'

Patient == /\ WF_vars(LoopStep \/ TicketStep)
           /\ WF_vars(Operator)
           /\ \A t \in Tickets : SF_vars(CoderSucceeds(t))

PatientSpec == Spec /\ Patient

\* Whatever fails on the way, resuming again and again gets every ticket of
\* the plan onto the branch: no stale skip, no lost verdict and no stop
\* condition blocks a ticket for ever.
ResumeConverges == <>[](PlanTickets \subseteq landed)

=============================================================================
