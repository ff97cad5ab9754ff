---------------------------- MODULE RepairBatch ----------------------------
(***************************************************************************)
(* Governed repair: the tickets made from a scan (repair/repair_tickets),  *)
(* their execution with scan, coder, scan, rollback and commit             *)
(* (repair/repair_executor, repair/repair_runner), and its callers, which  *)
(* differ in what they scan and commit: `saturnday repair` (cli.py), the   *)
(* guided repair of the shell (interactive.py), and the sweep and the      *)
(* definition-of-done repair behind a run (ticket_runner.py).              *)
(*                                                                         *)
(* A file is what a scan tells of it: how many findings of each kind it    *)
(* has.  What a coder returns or edits is open, and so is what an agent    *)
(* stages and commits while it has the ticket.  Every step that leaves     *)
(* something behind a kill (a write, git add, git commit, the summary) is  *)
(* an action of its own.  Findings that need a package or that policy      *)
(* exempts are no findings here.                                           *)
(***************************************************************************)
EXTENDS Naturals, FiniteSets, FiniteSetsExt, Functions

CONSTANTS
  Sources,       \* the files of the repository
  Scope,         \* the files failed tickets changed: what a sweep scans
  LocalKinds,    \* finding kinds decided by one file (is_file_local)
  GlobalKinds,   \* finding kinds of the repository as a whole
  MaxCount,      \* bound: findings of each kind in each file
  MaxPerTicket,  \* findings one ticket may hold
  MaxFailures,   \* max_failures
  MaxCommands,   \* bound: repair commands and sweeps
  Nothing        \* no ticket, no summary

Kinds == LocalKinds \cup GlobalKinds
Keys == Sources \X Kinds  \* group_key

\* A content also tells whether it holds text that a ticket for this file has
\* written and not decided on.
Debts(f) == {d \in [Kinds -> 0..Max(Range(MaxCount))] :
               \A k \in Kinds : d[k] <= MaxCount[f, k]}
Contents(f) == [debt : Debts(f), open : BOOLEAN]
Trees == {t \in [Sources -> UNION {Contents(f) : f \in Sources}] :
            \A f \in Sources : t[f] \in Contents(f)}

\* A ticket in execution: the findings and the target's text before it.
Ticket == [key : Keys, before : Nat \ {0},
           pre : UNION {Contents(f) : f \in Sources}]

\* What the index holds of a file, next to the branch: nothing new, a text, or
\* a text that a ticket for it has written and not decided on.
Marks == {"head", "text", "open"}

\* A repository has finitely many files.
ASSUME RepairConstants ==
  /\ IsFiniteSet(Sources) /\ Scope \subseteq Sources
  /\ LocalKinds \cap GlobalKinds = {}
  /\ {MaxPerTicket, MaxFailures, MaxCommands} \subseteq Nat \ {0}
  /\ MaxCount \in [Keys -> Nat] /\ Nothing \notin Ticket

VARIABLES
  tree,      \* the files as they are
  cached,    \* the index
  landed,    \* history: the files as committed since the command began, but
             \* for its last commit
  foreign,   \* history: the files that others than the batch have staged
  caller,    \* who runs the batch, or "idle"
  agentic,   \* whether its coder is a CLI agent (cli_mode)
  step,      \* where the batch stands
  queue,     \* how many tickets of each key are still to run
  current,   \* the ticket in execution, or Nothing
  results,   \* run_result.results; neither order nor number is ever read
  failures,  \* kind_failures
  skipped,   \* skipped_kinds
  prior,     \* the fixed keys of the latest repair-summary.json, or Nothing
  commands   \* the commands given

git        == <<cached, landed, foreign>>
command    == <<caller, agentic, commands>>
tally      == <<results, failures, skipped>>
repairVars == <<tree, git, command, step, queue, current, tally, prior>>

Unstaged == [f \in Sources |-> "head"]

RepairInit ==
  /\ tree \in {t \in Trees : \A f \in Sources : ~t[f].open}
  /\ cached = Unstaged /\ landed = Unstaged /\ foreign = {}
  /\ caller = "idle" /\ agentic = FALSE /\ commands = 0 /\ step = "next"
  /\ queue = [key \in Keys |-> 0] /\ current = Nothing
  /\ results = {} /\ failures = [k \in Kinds |-> 0] /\ skipped = {}
  /\ prior = Nothing

---------------------------------------------------------------------------
(* git, and those who use it beside the batch *)

Mark(f) == IF tree[f].open THEN "open" ELSE "text"

\* The index once F is added.  Whether a text differs from the branch is open.
Added(F) == {i \in [Sources -> Marks] :
               \A f \in Sources : IF f \in F THEN i[f] \in {"head", Mark(f)}
                                  ELSE i[f] = cached[f]}

\* git add, which may be refused.
GitAdd(F) == cached' \in {cached} \cup Added(F)

\* git commit -m: all that is staged, whoever staged it; or nothing at all.
GitCommit ==
  \/ UNCHANGED <<cached, landed>>
  \/ /\ landed' = [f \in Sources |-> IF cached[f] = "head" THEN landed[f] ELSE cached[f]]
     /\ cached' = Unstaged

\* Between two commands the operator edits, stages and commits.
Between == caller = "idle" /\ commands < MaxCommands

OperatorEdits(f) ==
  /\ Between /\ \E d \in Debts(f) : tree' = [tree EXCEPT ![f].debt = d]
  /\ UNCHANGED <<git, command, step, queue, current, tally, prior>>

OperatorStages(f) ==
  /\ Between /\ cached' = [cached EXCEPT ![f] = "text"]
  /\ UNCHANGED <<tree, landed, foreign, command, step, queue, current, tally, prior>>

OperatorCommits ==
  /\ Between /\ cached' = Unstaged
  /\ UNCHANGED <<tree, landed, foreign, command, step, queue, current, tally, prior>>

\* A CLI agent edits what it likes, and may use git itself.
AgentWorks == agentic /\ step \in {"coding", "simplify"}

Targeted(key) == key[2] \in LocalKinds  \* _normalise_target_path

\* Text in the target of the ticket at hand waits for its decision.
Written(f, d) ==
  [debt |-> d, open |-> \/ tree[f].open
                        \/ current # Nothing /\ Targeted(current.key) /\ f = current.key[1]]

AgentEdits(f) ==
  /\ AgentWorks /\ \E d \in Debts(f) : tree' = [tree EXCEPT ![f] = Written(f, d)]
  /\ UNCHANGED <<git, command, step, queue, current, tally, prior>>

AgentStages(f) ==
  /\ AgentWorks /\ cached' \in Added({f}) /\ foreign' = foreign \cup {f}
  /\ UNCHANGED <<tree, landed, command, step, queue, current, tally, prior>>

AgentCommits ==
  /\ AgentWorks /\ GitCommit
  /\ UNCHANGED <<tree, foreign, command, step, queue, current, tally, prior>>

---------------------------------------------------------------------------
(* Tickets from a scan *)

\* How many tickets of at most MaxPerTicket findings a group is split into.
Chunks(n) == (n + MaxPerTicket - 1) \div MaxPerTicket

\* One group for each file and kind with findings.
GeneratedTickets(scanned) ==
  [key \in Keys |-> IF key[1] \in scanned
                    THEN Chunks(tree[key[1]].debt[key[2]]) ELSE 0]

Waiting(q) == {key \in Keys : q[key] > 0}

\* Fix 49.b: groups the latest summary calls fixed are left out.
Suppress(q) ==
  [key \in Keys |-> IF prior # Nothing /\ key \in prior THEN 0 ELSE q[key]]

\* A batch of tickets begins; what is staged by now, others have staged.
Begin(who, q) ==
  /\ caller = "idle" /\ commands < MaxCommands /\ commands' = commands + 1
  /\ IF Waiting(q) = {} THEN UNCHANGED <<caller, agentic, queue, foreign>>
     ELSE /\ caller' = who /\ agentic' \in BOOLEAN /\ queue' = q
          /\ foreign' = {f \in Sources : cached[f] # "head"}
  /\ UNCHANGED <<tree, cached, landed, step, current, tally, prior>>

\* Fix E: the sweep of run_plan scans the files of failed tickets only.
Scanned(who) == IF who = "sweep" THEN Scope ELSE Sources

Repair == Begin("repair", Suppress(GeneratedTickets(Sources)))

\* The other callers keep no summary and know of none.
RepairFor(who) == Begin(who, GeneratedTickets(Scanned(who)))

---------------------------------------------------------------------------
(* One ticket *)

\* Findings of the ticket's kind: in its target, or wherever is scanned.
Count(key) ==
  IF Targeted(key) THEN tree[key[1]].debt[key[2]]
  ELSE MapThenSumSet(LAMBDA f : tree[f].debt[key[2]], Scanned(caller))

TakeNext(key) == /\ caller # "idle" /\ step = "next" /\ queue[key] > 0
             /\ queue' = [queue EXCEPT ![key] = @ - 1]

\* Mutant: one failure more is allowed.
Bug_Tally(key, status) ==
  /\ failures' = [failures EXCEPT ![key[2]] = IF status = "failed" THEN @ + 1 ELSE 0]
  /\ skipped' = skipped \cup (IF failures'[key[2]] > MaxFailures THEN {key[2]} ELSE {})

\* Failures are counted per kind, and forgotten when one of its tickets
\* resolved something.
Tally(key, status) ==
  /\ failures' = [failures EXCEPT ![key[2]] = IF status = "failed" THEN @ + 1 ELSE 0]
  /\ skipped' = skipped \cup (IF failures'[key[2]] >= MaxFailures THEN {key[2]} ELSE {})

\* A result, and whether its pre-scan found anything at all.
Enter(key, status, found) ==
  results' = results \cup {[key |-> key, status |-> status, found |-> found]}

Settle(status) == Enter(current.key, status, TRUE) /\ Tally(current.key, status)

\* A kind that failed too often: the summary is not rewritten.
SkipTicket(key) ==
  /\ TakeNext(key) /\ key[2] \in skipped
  /\ Enter(key, "skipped", FALSE)
  /\ UNCHANGED <<tree, git, command, step, current, failures, skipped, prior>>

\* The pre-scan finds nothing: fixed, and nothing to commit.
AlreadyClean(key) ==
  /\ TakeNext(key) /\ key[2] \notin skipped /\ Count(key) = 0
  /\ Enter(key, "fixed", FALSE) /\ Tally(key, "fixed")
  /\ step' = "summary"
  /\ UNCHANGED <<tree, git, command, current, prior>>

\* The target's text is kept aside, and the coder asked.
CallCoder(key) ==
  /\ TakeNext(key) /\ key[2] \notin skipped /\ Count(key) > 0
  /\ current' = [key |-> key, before |-> Count(key), pre |-> tree[key[1]]]
  /\ step' = "coding"
  /\ UNCHANGED <<tree, git, command, tally, prior>>

\* The answer of an API coder replaces the target; an agent has edited
\* already, and a ticket without target gets nothing written.
CoderAnswers ==
  /\ step = "coding" /\ step' = "answered"
  /\ IF agentic \/ ~Targeted(current.key) THEN UNCHANGED tree
     ELSE LET f == current.key[1]
          IN \E d \in Debts(f) : tree' = [tree EXCEPT ![f] = Written(f, d)]
  /\ UNCHANGED <<git, command, queue, current, tally, prior>>

\* An empty or oversized answer is not written: there is nothing to undo.
CoderRefused ==
  /\ step = "coding" /\ ~agentic /\ Targeted(current.key)
  /\ Settle("failed") /\ step' = "summary"
  /\ UNCHANGED <<tree, git, command, queue, current, prior>>

CoderRaises ==
  /\ step = "coding" /\ step' = "failed"
  /\ UNCHANGED <<tree, git, command, queue, current, tally, prior>>

Status == IF Count(current.key) >= current.before THEN "failed"
          ELSE IF Count(current.key) = 0 THEN "fixed" ELSE "partial"

\* The decided text of a ticket is its file's own.
Accepted == IF Targeted(current.key)
            THEN [tree EXCEPT ![current.key[1]].open = FALSE] ELSE tree

\* The post-scan decides.
PostScan ==
  /\ step = "answered"
  /\ IF Status = "failed" THEN step' = "failed" /\ UNCHANGED <<tree, tally>>
     ELSE /\ tree' = Accepted /\ Settle(Status)
          /\ step' = IF Status = "fixed" /\ Targeted(current.key) THEN "fixed"
                     ELSE "summary"
  /\ UNCHANGED <<git, command, queue, current, prior>>

\* Mutant: the target of a failed ticket is left as the coder left it.
Bug_Restored == tree

\* Fix D: the target is put back to what it was, in the tree, not in the
\* index; a ticket without target has nothing to put back.
Restored ==
  IF Targeted(current.key) THEN [tree EXCEPT ![current.key[1]] = current.pre]
  ELSE tree

Rollback ==
  /\ step = "failed" /\ tree' = Restored /\ Settle("failed") /\ step' = "summary"
  /\ UNCHANGED <<git, command, queue, current, prior>>

\* Mutant: git add -A.
Bug_ScopedFiles == Sources

\* Fix C: only the target is added.
ScopedFiles == {current.key[1]}

AddFix ==
  /\ step = "fixed" /\ GitAdd(ScopedFiles) /\ step' = "added"
  /\ UNCHANGED <<tree, landed, foreign, command, queue, current, tally, prior>>

\* The commit has no file list: what else is staged goes with it.
CommitFix ==
  /\ step = "added" /\ GitCommit /\ step' = "summary"
  /\ UNCHANGED <<tree, foreign, command, queue, current, tally, prior>>

FixedKeys == {r.key : r \in {x \in results : x.status = "fixed"}}

\* Only the command asks for a summary.
WriteSummary == prior' = IF caller = "repair" THEN FixedKeys ELSE prior

\* _write_incremental_summary: the ticket is over.
EndTicket ==
  /\ step = "summary" /\ WriteSummary /\ current' = Nothing /\ step' = "next"
  /\ UNCHANGED <<tree, git, command, queue, tally>>

---------------------------------------------------------------------------
(* The end of a command *)

Resolved == \E r \in results : r.status \in {"fixed", "partial"}

Leave == /\ caller' = "idle" /\ agentic' = FALSE /\ step' = "next"
         /\ landed' = Unstaged /\ foreign' = {} /\ results' = {}
         /\ failures' = [k \in Kinds |-> 0] /\ skipped' = {}
         /\ UNCHANGED commands

Over == caller # "idle" /\ step = "next" /\ Waiting(queue) = {}

\* Guided repair lets an agent simplify what was fixed.
Simplifies == caller = "guided" /\ agentic /\ \E r \in results : r.status = "fixed"

\* The commands commit what is left in the tree when something was resolved;
\* behind a run it is left there.
CommitsRest == caller \in {"repair", "guided"} /\ Resolved

EndBatch ==
  /\ Over /\ WriteSummary
  /\ IF Simplifies \/ CommitsRest
     THEN /\ step' = IF Simplifies THEN "simplify" ELSE "addRest"
          /\ UNCHANGED <<landed, foreign, command, tally>>
     ELSE Leave
  /\ UNCHANGED <<tree, cached, queue, current>>

Simplified ==
  /\ step = "simplify" /\ step' = "addRest"
  /\ UNCHANGED <<tree, git, command, queue, current, tally, prior>>

AddRest ==
  /\ step = "addRest" /\ GitAdd(Sources) /\ step' = "commitRest"
  /\ UNCHANGED <<tree, landed, foreign, command, queue, current, tally, prior>>

CommitRest ==
  /\ step = "commitRest" /\ cached' \in {cached, Unstaged} /\ Leave
  /\ UNCHANGED <<tree, queue, current, prior>>

\* Ctrl-C or a kill: what was written or staged stays, and is the operator's
\* from now.  A summary cut short cannot be read.
Crash ==
  /\ caller # "idle" /\ Leave
  /\ tree' = [f \in Sources |-> [tree[f] EXCEPT !.open = FALSE]]
  /\ current' = Nothing /\ queue' = [key \in Keys |-> 0]
  /\ prior' \in {prior} \cup (IF caller = "repair" /\ (step = "summary" \/ Over)
                              THEN {Nothing} ELSE {})
  /\ UNCHANGED cached

OneTicket == \/ \E key \in Keys : SkipTicket(key) \/ AlreadyClean(key) \/ CallCoder(key)
             \/ CoderAnswers \/ CoderRefused \/ CoderRaises \/ PostScan \/ Rollback
             \/ AddFix \/ CommitFix \/ EndTicket

Others == \/ \E f \in Sources : OperatorEdits(f) \/ OperatorStages(f)
                                \/ AgentEdits(f) \/ AgentStages(f)
          \/ OperatorCommits \/ AgentCommits

RepairNext == \/ Repair \/ \E who \in {"guided", "sweep", "dod"} : RepairFor(who)
              \/ Others \/ OneTicket
              \/ EndBatch \/ Simplified \/ AddRest \/ CommitRest \/ Crash

RepairSpec == RepairInit /\ [][RepairNext]_repairVars

---------------------------------------------------------------------------
(* Properties *)

Outcomes == [key : Keys, status : {"fixed", "partial", "failed", "skipped"},
             found : BOOLEAN]

\* The variables have their types.
RepairTypeOK ==
  /\ tree \in Trees /\ {cached, landed} \subseteq [Sources -> Marks]
  /\ foreign \subseteq Sources /\ agentic \in BOOLEAN
  /\ caller \in {"idle", "repair", "guided", "sweep", "dod"}
  /\ step \in {"next", "coding", "answered", "failed", "fixed", "added",
               "summary", "simplify", "addRest", "commitRest"}
  /\ queue \in [Keys -> Nat] /\ results \subseteq Outcomes
  /\ failures \in [Kinds -> 0..MaxFailures] /\ skipped \subseteq Kinds
  /\ current \in Ticket \cup {Nothing} /\ prior \in (SUBSET Keys) \cup {Nothing}
  /\ commands \in 0..MaxCommands

\* "failed must mean no changes kept" (repair_executor.py), as far as the tree
\* goes: outside the ticket that wrote it, text for a target is there only
\* when its ticket resolved something.
FailedWorkStaysOut ==
  \A f \in Sources : tree[f].open =>
    current # Nothing /\ current.key[1] = f /\ step \in {"coding", "answered", "failed"}

\* The batch itself stages the targets of fixed tickets and nothing else, as
\* their tickets left them.  Its commits take the whole index: any other text
\* in them, a failed ticket's included, was staged by the operator, by an
\* agent or by a command that was killed or refused.  The command's last
\* commit, of all that is in the tree, is not meant.
CommitsAreFixes ==
  \A f \in Sources : landed[f] # "head" =>
    \/ f \in foreign
    \/ /\ landed[f] = "text"
       /\ \E r \in results : /\ r.key[1] = f /\ Targeted(r.key)
                             /\ r.status = "fixed" /\ r.found

\* What a batch of its own accord keeps and commits are fixes (Fix C, Fix D).
OnlyFixesAreCommitted == FailedWorkStaysOut /\ CommitsAreFixes

=============================================================================
