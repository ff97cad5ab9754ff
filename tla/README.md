# A formal model of Saturnday's governed build

Saturnday runs AI coders under governance: a brief becomes a plan of tickets,
the plan is executed one ticket at a time, each ticket is coded, checked,
committed or failed, and a ledger on disk lets a later command pick the build
up again. This directory holds TLA+ models of that machinery, the TLC runs that
check them on small instances and theorems that TLAPS proves for every value of
the constants. Paths below are relative to `src/saturnday/` of the repository.

    tlc -workers 2 -config <run>.cfg <module>    # run and module: section 3
    tlapm <module>Proofs.tla

## 1. The system's parts

| part | state it keeps | operations | hard behaviours | what makes it correct |
|---|---|---|---|---|
| planning (`run/planner.py`, `run/clarification.py`, `plan_parser.py`) | `plan.json` | ask, draft in three stages with fallbacks, validate, approve, load, order | five writers of the same fields; a plan written by hand | the proof fits the answers; dependency order |
| ticket splitter (`ticket_splitter.py`) | none | parse the model's parts | parts dropped, cut or widened one by one | parts stay in the ticket's scope |
| run loop (`ticket_runner.run_plan`) | position in the plan, completed set, ticket results | skip, split, execute, record, settle, finish | Ctrl-C and kills between any two steps; stops in nested loops | dependencies before dependents; progress |
| run ledger (`run/run_ledger.py`) | dispositions, counters, phases, stop flag; `ledger.json` | record, check stop conditions, update phase, definition of done, snapshot | double records, non-atomic write | counts are exact, verdicts agree with the results |
| resume and reruns (`run/resume.py`) | none; reads the file and the branch | reconcile, choose what to skip | stale file, lost verdicts | what is skipped has code; nothing committed is repeated |
| ticket attempts (`_run_ticket_with_retries`, `_execute_ticket`, `_attempt_auto_repair`, git helpers) | attempt, repair context, index and working tree | call the coder, govern, check, reset, commit, repair, split | coder errors half-way, agents that commit, rollbacks | a pass is governed, a failure leaves nothing, earlier commits stay |
| work branch (`run/work_branch.py`) | current git branch | preflight, create, continue | dirty tree, stale branch, the operator in between | operator's branch and edits untouched |
| definition-of-done pipeline (`ticket_runner.py` 1126-2150, `run/proof_resolver.py`) | `definition_of_done_met`, proof state | mechanical gate, LLM review, guard, acceptance proof, repair | later steps overwrite earlier verdicts | done only with the proof |
| governed repair (`repair/`) | batch of repair tickets, tree, index and branch, summaries | scan, repair, rescan, roll back, commit | partial failure within a batch, kills, an index that operator and agents share | a failed ticket leaves nothing; what the batch itself stages and commits are fixes |
| document runs (`document/`) | sections, summaries, `approvals.json` | write, verify, retry, check, sign off | retry budget, provisional sections, concurrent approvals | nothing released unsigned |
| governance, policy, waivers, ratchet (`governance.py`, `policy_loader.py`, `waivers.py`, `ratchet.py`) | baseline file | scan, soften, decide | what is scanned is not what is committed; order of the filters; expiry | new debt blocks, known debt does not |
| lessons memory (`run/lessons.py`, `run/memory_*.py`) | SQLite tables of lessons and rules | store, retire, merge, count, promote | two runs on one database | no lesson lost, no trigger lost |
| release engine (`release/`) | none | prepare and list an artefact, five checks, hook, verdict; the same for a published release | image layers that undo each other; a check, an archive or a download that fails half-way | exit 0 leaves nothing blocking behind |
| capability registry, evidence, reports, scanners, CLI, coder adapter | files, network | I/O, string rules | | outside the models (section 6) |

How they interact: the command line plans (`plan.json`), loads the plan and
calls `run_plan`, or one of the commands of `resume.py`, which call it with a
skip set. `run_plan` switches to the work branch, owns the ledger, calls
`_run_ticket_with_retries` for each ticket and hands it a callback
(`_on_committed`) that flushes the ledger right after a commit. The ticket
works on the git repository, calls the coder and governance, and may split into
children that it runs recursively. Behind the last ticket come the repair sweep
and the definition-of-done pipeline. Lessons are written and read by every
ticket. `resume.py` reads back two durable things, the ledger file and the
branch's commit subjects.

`PROJECT.json` lists every component, modelled or not, and every hazard with
its line and the properties that watch it.

## 2. The modules

**`RunLedger`**: the ledger as a value and each method as an operator on it.
`RecordResult` is `record_ticket_result` (counters, consecutive failures by
parent), `PhaseAfter` is `update_phase_status`, `ShouldStop`,
`CheckStopConditions` and `ShouldSkip` are the stop conditions,
`DefinitionOfDoneMet` is `evaluate_definition_of_done`. It declares the
constants of a plan with their assumption `LedgerConstants`.

**`RunPlan`** extends it: the process, the ledger file and the branch.

| state | code |
|---|---|
| `stage`, `after`, `pos`, `subs`, `sub` | the program counter of the two nested loops; `flush` is the instant inside `write_ledger_snapshot` when the file is truncated |
| `command`, `skipSet`, `completed`, `allPassed` | the command, `skip_tickets`, `completed`, `all_subs_passed` |
| `ledger`, `results`, `doneMet` | the `RunLedger` object, `ticket_results`, the mechanical gate's answer |
| `verdict`, `preSplit` | what the ticket returns, the branch remembered before a split |
| `disk` | dispositions in `ledger.json`; `Torn` while it is being written |
| `log` | ticket ids in the branch's commit subjects, which is what `_detect_committed_tickets` reads |
| `landed`, `priorLog` | history, read by properties only |

Each action is one stretch of `run_plan` up to the next snapshot:
`StartRun`/`Continue` (the commands), `SkipPrecompleted`, `SkipTicket`,
`TakeTicket` (with the splitter's answer), `SkipSub`, `Execute`, `OnCommitted`,
`RecordReturned`, `Settle`, `NextTicket`, `Finish`, plus `Interrupt` (Ctrl-C
while a ticket executes, with its handler) and `Crash` anywhere. A Ctrl-C
outside the ticket is handled by nobody and is a `Crash`.

**`TicketOutcome`**: the contract between loop and ticket, an abstract
specification. A ticket comes back committed, failed with the branch as it was,
or split with all children's commits or none. `RunPlan!KeepsContract` and
`TicketAttempts!KeepsContract` show that both sides implement it, so the loop's
one-step view of a ticket is what the attempts really do.

**`TicketAttempts`**: the ticket from inside, on a repository record of branch,
index and working tree; the git helpers are functions on that record (`Add`,
`Commit`, `ResetChanges`, `ResetHardTo`, `Changed`). `ApiCall` and `CliCall`
are `_execute_ticket` for the two kinds of coder; `CoderError`, `Approve`,
`GovernanceFails`, `Reject`, `ChecksPass`, `ChecksFail`, `CommitFinal` are the
branches of the attempt loop and of `_attempt_auto_repair` (the same actions in
`Mode` "repair"); `SplitLastResort`, `ChildPasses`, `ChildFails` are the
last-resort split. A file's content is who wrote it, in which call, so that
properties can tell whose work is where. The code after the attempt loop
(3393-3533) is unreachable for a retry limit of zero or more, since the last
attempt returns in every case, and is not modelled.

**`DonePipeline`** extends `RunLedger`: what `run_plan` does behind the last
ticket, one action per step of it: the mechanical gate, the LLM review, the
guard that takes its upgrade back when a gate or a `verify_cmd` is missing, plan
governance with its retries and its stop for missing evidence, the consistency
check, derivation of a proof, the operator's questions and approval, setup
commands, the proof with its retries, negotiation and gap repair, the live
proof, the summary. Answers of models, commands and operator are open;
`result` and `summary` are the two copies of the verdict the code keeps, the
returned `RunResult` and `run-summary.json`. `outcome` says of each ticket how
it ended, what became of its `verify_cmd` and how often the ledger recorded it:
`FinalLedger` counts records, not tickets, because `_on_committed` and the loop
both record a committed ticket, and `evaluate_definition_of_done` compares that
count with the number of tickets.

**`Session`**: the work-branch preflight over many commands. The operator's
branch, two work branches, which tickets each one's history holds, whether the
tree is dirty, where the ratchet baseline lies and how clean each branch is,
what the last summary records, and the operator, who edits, commits by hand,
checks out and deletes branches between commands. A command computes its skip
set from the branch that is current, then does the preflight with each of its
refusals; its tickets commit on whatever is checked out.

**`RepairBatch`**: `run_repair_batch` and its callers. The working tree says
how many findings of each kind a file has and whether it holds text its ticket
has not decided on (`open`); the index (`cached`) what is staged of it; history
variables what the command has committed so far (`landed`) and which files
others than the batch had staged (`foreign`). A batch makes tickets from a
scan, and each goes through coder (`CallCoder`, `CoderAnswers`), scan
(`PostScan`), `Rollback` or the two git calls of `_commit_repair_fix`
(`AddFix`, `CommitFix`), and the summary (`EndTicket`), each a step of its own
that a kill may follow. As in git, a commit takes all that is staged, and a
rollback restores the tree and not the index. The operator stages and commits
between commands, an agent edits, stages and commits while it has a ticket, and
git may refuse any add or commit.

**`DocumentRun`**: sections with their retry budget, provisional sections,
global checks, the decision, the evidence pack, and `approve` commands that
read, change and write `approvals.json` in separate steps while a run waits.

**`GovernanceGate`**: three trees (HEAD, index, working tree) over findings of
single checks; `GenerateBaseline`, the pre-commit hook and a ticket's
`_run_governance` with its own discounts. The order of softenings is that of
the code: exemptions, expected findings, ratchet against the baseline, waivers,
then the run's. Tools can fail, a syntax error masks other checks, days pass.

**`LessonsMemory`**: the database as lessons with their state and heirs, rules
with their counters, and two runs whose transactions interleave: store,
cleanup by age and by file, deduplication as a read and a later merge,
retrieval, enforcement counts, promotion. Any write of a lesson, a rule or a
count can be given up because the database is locked (`Locked`), as the code
swallows these errors.

**`Planning`**: the clarification gate, the three stages of `generate_plan`
with batches, retries and the single-shot fallback, what each answer does to
mode, profile, realism, strategy and proof (`With...`, in the order of the
code), validation with its one repair, the approval gate, `load_plan` with the
depth-first sort as the explicit stack machine it is (`VisitRoot`,
`VisitDependency`, `LeaveTicket`), and the splitter's parser (`ParseSplit`).
`Templates` and `Meaningful` are tables of which generated proofs exist and
which of them the meaningfulness rules accept; they were read off the source's
functions case by case.

**`Release`**: one `release-preflight` command. `Prepare...` takes or builds
the artefact; `own`, `base` and `hidden` are what an image really holds while
`Read...` builds the inventory `listed` from its members as
`_process_layer_members` does, and `unseen` remembers what that lost.
`RunCheck` runs the five checks in their order (`CheckResult`), `Hook` is the
premium handler, `Decide` the verdict and the exit. `Fetch`, `NextAsset`,
`Compare` and `Finish` are the loop of `inspect_github_release`, which goes
through the same preparation and checks for each asset. A file stands for a
name with a text, a pattern for the files it matches.

**`RunPlanProofs`**, **`TicketAttemptsProofs`**, **`SessionDoneProofs`**,
**`GovernanceRepairProofs`**, **`DocumentProofs`**, **`LessonsProofs`**,
**`PlanningProofs`**, **`ReleaseProofs`**: the theorems of section 4. Two of
them speak of a pair of modules that do not share state, hence the prefixes in
`DonePipeline` (`DoneInit`, `DoneSpec`, ...) and `RepairBatch` (`RepairInit`,
`RepairSpec`, ...). `MC...` modules give TLC its instances.

## 3. The runs

| run | module | instance | question |
|---|---|---|---|
| `split_resume` | MCRunPlanSplit | two tickets, the first split in three before it runs (the last part needs the first) or in two as a last resort; all commands; crashes and Ctrl-C; commits may be refused | `LedgerIsExact`: failure counts, verdicts and phases agree with the results. `RecordedHasCode`: what the file calls done, and what a command skips, was handed to git. `RunEnds`, `KeepsContract` |
| `patient_resume` | MCRunPlan | five tickets in one phase, the second needs the first; failure limit 2, four tickets a run; only resume and Ctrl-C | `ResumeIsExact`: nothing on the branch is executed again, nothing before what it depends on is, and the command a run advises covers everything still to land. `ResumeConverges` |
| `attempts` | MCTicketAttempts | two tickets, three files, API and CLI coder, auto-repair on and off, one retry; a coder that fails, strays and writes nothing new, and a tidy one that may commit by itself; a split in two | `PassIsGoverned`, `FailLeavesBranch`; `CommitsAreChecked`: each coded ticket has a commit, and the checks ran on what was committed; `EarlierWorkKept`, `AllReturn`, `KeepsContract` |
| `agent_commits_ungoverned` | MCTicketAttempts | the tidy coder alone, as a CLI agent | a violation, see below |
| `done_pipeline` | MCDonePipeline | two tickets with every outcome, each recorded up to twice; two setup commands, three and two retries, roles that fail | `DoneIsProved`, `NoGateWithoutCause`, `Ends` |
| `session` | MCSession | two tickets, two work branches (symmetric), no bound | `OptInKeepsParentClean`, `SkippedOnBranch`, `SwitchingSparesEdits` |
| `repair` | MCRepairBatch | two files, one outside the sweep's scope; three local findings in one, a global one in the other; one finding a ticket, failure limit 2, agent or API coder; two commands | `OnlyFixesAreCommitted`: no ticket's undecided or failed text is in the tree outside that ticket; beside what operator, agent or an earlier command staged, commits hold only targets of fixed tickets as these left them |
| `document` | MCDocumentRun | two sections of different risk, two roles, one retry, one run beside two approve commands | `ReleasedIsSigned`, `SummariesMatchTexts`, `ApprovalsStand` |
| `governance` | MCGovernanceGate | a Python and a TypeScript file and the project; seven checks, of which each scan reports five; two scans; three policies; one day to the deadline | `NewDebtBlocks`, `PassedErrorsAreKnown`, `KnownDebtPasses` |
| `lessons` | MCLessonsMemory | two runs in two trees, three lessons, two of them from before, all thresholds 1, two runs each | `LessonsLive`, `TriggersAreCounted` |
| `planning` | MCPlanning | up to four tickets, three files, two skeletons, eight answers per batch, three plans by hand, three briefs, eighty records of answers | `PlanIsRunnable`: dependency order, only real cycles refused, splits in scope. `ProofFits` |
| `release` | MCRelease | six files, one directory, images of up to four members, one check that raises, three manifests, three baselines, three assets | `ExitZeroIsClean`: what exit 0 says of a package, an image and a published release |

Every run but the violation also checks its module's type invariant (`TypeOK`,
`DoneTypeOK`, `RepairTypeOK`), except `patient_resume`, whose module's types
are checked by `split_resume`.

`CommitsAreChecked` has two halves. With a coder that writes something new in
every call, what is reported as coded is on the branch; `git commit` refuses an
empty commit and the loop reports the ticket all the same (section 5). With a
coder that neither fails nor strays, the checks of a passed ticket ran on
exactly what was committed: after a coder error the next attempt starts from a
dirty tree, and what lies there is tested with it, or (CLI) committed with it. `RecordedHasCode` says "handed to git" and not "on the
branch" because a commit may be refused, which the loop only logs.

**The violation.** `agent_commits_ungoverned`: work a CLI agent commits by
itself is not in the staged diff that governance looks at, and survives the
reset after a rejection. (An installed pre-commit hook governs such commits on
its own; the run loop does not rely on one and the model has none.)

### Bounds

Two or five tickets, three sub-tickets, limits of 1, 2 and 4: every rule
compares a ticket with one other (a dependency, a sibling, a parent) or a count
with a limit, and these sizes reach both sides of each. The number of commands
and restarts of `RunPlan` and `Session` is not bounded: the state space is
finite without it. In `TicketAttempts` the coder calls of a ticket are bounded
by the code itself (`MaxRetries` + 3); one retry is the smallest number that
has a first, a middle and a last attempt with repair and allows the last-resort
split. Three files are one shared by both tickets and one new file for each.

`DonePipeline` has two tickets, so that the records of one may hide that the
other has none; its retries are the code's own limits (`PgAttempts` of three,
`ProofRetries` of two), and `MaxSetup` of two has a first and a last command.
In `RepairBatch` three findings and as many tickets of one kind are one more
than the failure limit (`MaxFailures`), and two commands (`MaxCommands`) are
enough for the leftovers of one, in tree and index, to lie under the next.
In `DocumentRun` one run (`MaxRuns`) and two approvals
(`MaxApprovals`) give each pair of processes that share a file; a used
directory at the start stands for earlier runs; there is at least one section,
as `validate_doc_spec` demands. `GovernanceGate` needs a scan
for the baseline and one for the gate (`MaxScans`), and a date before and at the
deadline (`LastDay`). `LessonsMemory` bounds lessons (`MaxItems`, of which
`MaxBefore` at the start), triggers of one run (`MaxFired`) and runs a process
makes (`MaxRuns`); with thresholds of one each promotion and merge is one step
away. In `Planning` one planning command (`MaxPlans`) suffices, because nothing
but the file outlasts it; loads and splits are not bounded. Its records cover
every pair of mode and strategy and every pair of intent and external choice;
the answers hold a forward reference, an unknown id, a missing id, a missing
goal, a ticket that comes twice and a cycle that does not go through the first
ticket; the plans by hand a shared and a repeated dependency, another cycle and
an unknown id. In `Release` an image has up to four members (`MaxMembers`): a
file, the marker that hides it, and a later layer that brings it back or hides
it again; one of the checks may raise (`MaxRaised`) beside any others that
fail; the three assets are a wheel that can be inspected, a package and another
file.

`CHECK_DEADLOCK FALSE` stands in the configurations in which the commands or
the queue are bounded and the model stops behind the last one: the two of
attempts, document, governance, planning, release and repair. `done_pipeline`
checks `Ends` instead of deadlock. The others check it.

### Fairness

`RunPlan!FairSpec`, `TicketAttempts!FairSpec` and `DonePipeline!FairSpec`
assume that the process, which is sequential and puts a time-out on every call,
takes its next step unless it is killed. `PatientSpec` adds what the operator
and the coder contribute: some command is issued again whenever none is
running, and a ticket executed again and again is committed with PASS some time
(strong fairness on that one outcome). The code guarantees neither, so
`ResumeConverges` is a statement about the code under such an operator and
coder: nothing the code remembers keeps a ticket from its turn. Without
fairness on the coder it is false, as it should be. The other modules state no
fairness: they check safety only.

## 4. The theorems

### `RunPlanProofs`: every plan, every split, any commands, crashes, interrupts

- `TypeCorrect` : `Spec => []TypeOK`. TypeOK is not inductive by itself: that
  `Current` and `Parent` are tickets depends on the program counter, so the
  proof carries `Positions` (where the loop stands inside a ticket, `pos` and
  `sub` are within bounds).
- `RecordedWorkIsThere` : with `OwnBranch` (commits are not refused, and no
  other plan's ids are on the branch), `RecordedHasCode` always holds. The
  invariant `CodeInv` says that the branch's ids, the file, the ledger in
  memory, the verdict about to be recorded and the branch remembered before a
  split are all backed by `landed`. Section 5 lists what happens without the
  assumption (foreign commits, empty commits).
- `DependenciesFirst` : with `OwnBranch` and `OnlyResume`, dependencies are on
  the branch before a ticket is executed (the part `DependenciesLanded` of
  `ResumeIsExact`). `OrderInv` adds that in a run or
  resume `completed` is on the branch, and that while `allPassed` holds every
  sub-ticket passed so far is. `rerun-remaining` is why the assumption on
  commands is needed.
- `LedgerExact` : with `DistinctIds`, `LedgerIsExact` always holds, whatever
  is killed, interrupted or refused. The property relates the ledger's counters
  to the results, which are recorded twice for a committed ticket (once by the
  callback, once after the return), so the invariant follows a ticket between
  the two. `LedgerInv` has five parts: `PlaceInv` (each report is about a
  ticket the loop has passed), `MatchInv` (dispositions and skips are those of
  the reports; the ticket that is coming back may be one ahead), `CountInv`
  (the consecutive failures are the parents in `FailingIn`, and `lastParent` is
  the one that failed last, which is what keeps a second failing sub-ticket
  from counting), `PhasesAgree`, `ClosedInv`. `DistinctIds` is what
  `plan_parser` enforces for a plan; that a split names no part twice is up to
  the coder (section 5, last item), and with a repeated part the counts are
  indeed off.
- `AdviceIsComplete` : with `OwnBranch`, what a finished run advises covers
  everything still to land. `PlanEntries` says that no plan ticket ever loses
  its ledger entry.
- `ResumeAfterKills` : the whole of `ResumeIsExact` with `OwnBranch`,
  `DistinctIds`, `OnlyResume` and `WholeTickets`, for behaviours with
  `[][Spared]_vars`. `AgainInv` joins what the file says (`FileInv`: nothing it
  calls failed or skipped is on the branch, except that between a commit and
  its snapshot it may be one commit behind) with what lies ahead of the loop
  (`AheadInv`: a ticket ahead of it is on the branch only if it was there
  before, and then it is skipped). Each assumption marks a case where the code
  does execute a committed ticket again. `OnlyResume`: the reruns have another
  skip set. `WholeTickets`: of a ticket split before it is executed, the parts
  that were committed before a Ctrl-C are repeated; a split as a last resort is
  covered. `Spared` speaks of two steps: a run that starts afresh on a branch
  that has commits, which is all that is left when a kill tears the file, and a
  kill between a commit and its snapshot while the file still calls the ticket
  failed or skipped, because `_reconcile_stale_ledger` promotes pending tickets
  only (section 5). All other kills are covered.
- `ResumeExact` : the same without a condition on steps, when the process is
  never killed and the run never started again (`OneBuild`); `KeepsLedger` shows
  that then the ledger is always there to be resumed.
- `LoopKeepsContract` : `Spec => KeepsContract`, the loop's half of the
  refinement of `TicketOutcome`, action by action; `Flushes` says which stages
  a snapshot can return to. It needs no assumption.

The theorems about order rest on `RunPlan`'s assumption that dependencies come
earlier in `PlanOrder`; that `load_plan` delivers such an order is proved in
`PlanningProofs` (`LoadsInOrder` within `PlanIsRunnable`).

### `TicketAttemptsProofs`: every queue, scope, split, retry limit, both coders

- `TypesKept` : `Spec => []TypeOK`. `Bookkeeping` is added to make it
  inductive: a ticket is at hand outside `idle`, and a split never began
  before its ticket did.
- `EarlierWorkIsKept` : `Spec => EarlierWorkKept`, from the same invariant.
  Every step but a failed split keeps all commits (`Keeps`); a failed split
  goes back to `preSplit`, which is not before `start`. It holds even when a
  CLI agent commits by itself.
- `FailuresLeaveBranch` : `FailLeavesBranch`, when agents do not commit
  (`~coder.commits`, which no step changes). `BranchInv` says the branch stands where the ticket found
  it until the ticket is committed or split, and a split began there.
- `PassesAreGoverned` : `PassIsGoverned`, under the same condition.
  `GovernedInv` says that what the ticket changed on the branch was approved
  unless the last commit was an ungoverned one, and that between approval and
  commit the index does not change. `agent_commits_ungoverned` shows why the
  condition is needed.
- `CodeIsCommittedAndChecked` : `Spec => []CommitsAreChecked`. `IndexInv` says
  that nothing is staged outside governance and commit, and that then something
  is (or the agent has committed it); `TreeInv` that the tidy coder's working
  tree is the index or the tip; `CodedInv` that what is reported is on the
  branch, a child's work included.
- `AttemptsKeepContract` : `Spec => KeepsContract`, the ticket's half of the
  refinement, for queue and split of any length. The mapping reads the ids of
  the commits (`LogUpTo`), and `SplitInv` says which children of a split are on
  the branch by now.

With `LoopKeepsContract` both sides of `TicketOutcome` are proved: what the loop
assumes of a ticket in one step is what the attempts deliver in many.

### `SessionDoneProofs`: before and behind the tickets of a run

About `Session`, for any tickets and any number of work branches and commands:

- `SessionTypesKept` : `Spec => []TypeOK`.
- `ParentStaysClean` : `OptInKeepsParentClean`. `StandsApart` says that a
  command with a branch of its own never stands on the parent while it runs.
- `SwitchesSpareEdits` : the action property `SwitchingSparesEdits`.
  `TreeWasClean` carries the preflight's clean check through the run it
  precedes.
- `SkipsAreOnBranch` : `SkippedOnBranch`. `LedgerOnBranch` speaks of the time
  between commands (what the ledger names is on the branch it records, if the
  operator has not deleted that) and `WorkOnBranch` of a running one.

About `DonePipeline`, for every plan, outcome, set of options and retry limits:

- `DoneTypesKept` : `DoneSpec => []DoneTypeOK`.
- `DoneNeedsItsProof` : `DoneIsProved`, for the result, and for
  `run-summary.json` unless the file itself names a refused setup: then it may
  say done without a proof, and the theorem says of it only that the result
  does not. `ProofInv` says that nothing is recorded
  of a proof before it has run or was given up and that a step that lowers the
  verdict lowers it for good; `GuardInv` that behind the guard a verdict of done
  means that no `verify_cmd` was lost.
- `GatesHaveCauses` : `NoGateWithoutCause`, of the ledger's verdict as the code
  computes it, by which a run whose tickets were all committed is not done;
  such a run needs the LLM's verdict. `CauseInv` gives for each stage the
  reasons there can be for a run not to be done.

### `GovernanceRepairProofs`: what governance lets through, what repairs it

About `GovernanceGate`, for every set of files, checks, policies and answers of
the tools:

- `GateTypesKept` : `Spec => []TypeOK`, which includes that index and HEAD agree
  where nothing is staged and working tree and HEAD where nothing is touched.
  The action properties use that agreement: what a gate commits and did not
  scan was either in HEAD or edited away since.
- `NewDebtIsBlocked`, `PassedErrorsHaveReasons` : the action properties
  `NewDebtBlocks` and `PassedErrorsAreKnown`, from TypeOK alone, one gate at a time through the softenings in their order.
- `KnownDebtGoesThrough` : `KnownDebtPasses`, with the further invariant
  `BaselineIsCaptured`: a baseline holds a fingerprint for all its scan
  reported, under the baseline's rule names.
- `ModesAgree` : `block_new` and `ratchet_down` decide alike. A count can only
  have grown when there is a new fingerprint, which both refuse. The code
  documents them as different policies.

About `RepairBatch`, for every set of files and kinds of findings, any limits,
any number of commands and kills between any two steps:

- `RepairTypesKept` : `RepairSpec => []RepairTypeOK`, counts included. `Given`
  makes it inductive: a kind at the failure limit is skipped, the ticket in
  execution is of no skipped kind and remembers a content of its target. That
  a count over all files is a natural number needs `SumType`: the fold of the
  community modules is shown to satisfy its recursion (`SumUnfolds`), and a
  smallest set of files whose sum were no natural number leads to a
  contradiction.
- `CommitsAreFixesOnly` : `OnlyFixesAreCommitted`. `OpenInv` says that
  undecided text lies only in the target of the ticket in execution and that
  the remembered content, to which a rollback returns, has none. `StagedInv`
  follows the index: what is staged, and what has been committed since the
  command began, was staged by others (`foreign`) or is the target of a ticket
  with a result of fixed. The exception for `foreign` is needed: an agent that
  stages its ticket's text and then fails leaves it in the index, and the next
  fix commits it (section 5).

### `DocumentProofs`: any sections, roles, runs and overlapping approvals

- `TypesKept` : `Spec => []TypeOK`. `AtStage` adds what each stage has at hand:
  while sections are written the next one exists, afterwards all have a result.
- `ApprovalsAreKept` : `ApprovalsStand`: while one approver works at a time no
  approval gets lost. `OneWriter` says that what an approver has read is then
  still what the file holds.
- `ReleasesAreSigned` : `ReleasedIsSigned`. `SignedInv` (what the file, or an
  approver's copy of it, calls approved was signed) and `DecidedInv` (what the
  decision rests on until the evidence is written) lead to it.
- `SummariesAreTrue` : `SummariesMatchTexts`, from `DirectoryInv`, which relates
  the files of an output directory that several runs use: `Filed` (a file names
  the run that wrote it), `Partly` (the partial summary is the results),
  `Accepted` (an accepted text is in its file until the next run overwrites it).

### `LessonsProofs`: any number of runs and lessons, any thresholds

- `TypesKept` : `Spec => []TypeOK`. `Holdings` ties what a run has read
  (`todo`, `seen`, `pending`) to its stage.
- `RulesAreCounted` : `Spec => []TriggersAreCounted`, from `Inv`, which is
  `TypeOK /\ Holdings /\ Counts`; `Counts` adds to the property that a rule
  that does not exist has not fired.
- `MergesLeadForward` : a merged lesson's heir is a newer one, whatever other
  runs do between the read and the write; hence chains of merges end.
- `LessonsSurvive` : `Spec => []LessonsLive`. `Heir` is a recursive function, of
  which nothing is known until its equation has a solution: `HeirExists` gets one
  from `MergesLeadForward` (of the lessons for which there were none, the newest
  has an heir that is newer still). `LiveInv` is what the chain is made of:
  `Settled` (how status and heir go together, and who made a lesson stale),
  `Numbered` (ids are fresh), and until two runs were ever at work at once
  `RunsAlone` (what a run has read is still so when it writes) and `FilesKept`
  (an heir names all files of what it superseded, one link at a time).
  `HeirsInherit` adds the links up by the same argument.

### `PlanningProofs`: any models, operators and plans of any size

- `PlansAreRunnable` : `Spec => []PlanIsRunnable`. The search is described by
  a constant-level predicate `DepthFirst` over the needs of the tickets, the
  roots still to visit, the stack and the order so far: `Sorted` (no ticket
  twice, each behind what it needs), `Waiting` (a ticket on the stack waits for
  the one above it, its other needs are ordered or still to visit) and
  `Reached` (every ticket is ordered, on the stack or a root to visit). Five
  lemmas say that passing over, entering and leaving a ticket keep it. When
  roots and stack are empty it is `LoadsInOrder`, when a ticket is met again
  `Waiting` is the cycle.
- `ProofsFit` : `Spec => []ProofFits`. `AllAnswered` follows a product through
  the answers one after another; `WorkInv` keeps what it says through proof
  resolution, repair and writing.
- `TypesKept` : `Spec => []TypeOK`, from `WorkInv` (what a planning command
  holds at each stage) and `LoadInv` (what the loader holds).

### `ReleaseProofs`: every artefact, image, manifest, baseline and release

- `TypesKept` : `Spec => []TypeOK`. `Place` adds what is known at each stage
  (nothing is readable before an artefact is taken, nothing judged before the
  checks).
- `ExitsAreClean` : `Spec => []ExitZeroIsClean`, from `Inv` of four parts.
  `Listing` ties the inventory to what the artefact holds, member by member of
  a layer; `Judging` says that a check's result is still what it says of the
  inventory and that a preflight's verdict is the worst of the results;
  `Looking` follows the assets that differ through downloads and comparisons.

Each proof has one step per action of `Next` (actions with the same effect on
the state concerned share one), with lemmas for the operators of ledger, git,
gate and tables, and for actions that leave the relevant state alone.

Every invariant and every action property of the passing runs is stated by one
of these theorems. The assumptions some of them make beside those of the
modules are named above; the runs cover cases without them (`split_resume` has
crashes, refused commits and `rerun-remaining`, `patient_resume` has one whole
build). Only model-checked is liveness: `RunEnds`, `ResumeConverges`,
`AllReturn` and `Ends`, which is beyond the prover.

## 5. Where the code departs from what it says

Besides the violation in section 3, the models reproduce these; no property
claims the opposite. Most became visible because a property first written from
the intent did not hold.

Run loop and resume:
- `rerun-remaining` treats failed tickets as completed and runs dependents
  without them (`run/resume.py:327`; `ticket_runner.py:4` promises dependency
  order).
- `ledger.json` carries no project id (`run/run_ledger.py:396`), so auto-resume,
  which asks for it (`ticket_runner.py:566`), never skips anything.
- Committed tickets are recorded twice (`ticket_runner.py:898` and 953), so
  `total_executed` differs from the number of tickets and an all-passed run does
  not meet the definition of done (`run/run_ledger.py:311`). With one committed
  and one PENDING ticket of two the counts cancel out and it is met, although
  "all tickets must be executed" (298).
- Any commit subject with a ticket's id promotes it (`run/resume.py:76`), an
  older plan's included, and a regenerated plan reuses ids.
- An API coder that writes identical files is reported committed though git
  refused the empty commit (`ticket_runner.py:4965`).
- A split parent executed again by `resume` repeats its passed sub-tickets;
  verdicts of skipped tickets are lost over two resumes (PASS becomes
  CODED_UNGOVERNED), so `rerun-failed` may repeat a passed ticket.
- A ticket that failed, is executed again by `resume`, committed, and killed
  before the callback's snapshot is repeated by the next `resume`, since only
  PENDING tickets are promoted from the branch (`run/resume.py:76`).
- Auto-repair passes a ticket without its `verify_cmd`; when it fails, the
  ticket ends CODED_UNGOVERNED, not FAIL.
- A resume without flags can be refused by the work-branch preflight
  (`run/resume.py`, around 200) although `run/work_branch.py:9` says it stays
  opt-in; `git clean` between attempts deletes an untracked baseline
  (`ticket_runner.py:5002`, `cli.py:2761`).

Definition of done:
- A failed acceptance proof of a plan with a declared mode does not change the
  exit code (`cli.py:1139`).
- After a setup that was declined or blocked `run-summary.json` may go on
  saying done although no proof ran, while the result says it is not
  (`ticket_runner.py:2088`). The file then names the refusal as its approval.
- A gap the operator closes may still cost the verdict, because the guard reads
  the state from before.

Repair:
- "commit only the ticket's target file(s)" (`repair/repair_runner.py:337`, and
  the docstring at 33): only the target is added, but `git commit -m` (62) has
  no file list and takes the whole index, the operator's staged files and what
  an agent staged included. A rollback restores the working tree only
  (`repair/repair_executor.py:156`), so text an agent staged for a ticket that
  failed is committed with the next fix, which the comment there (341) says a
  rollback prevents.
- The next repair suppresses findings an earlier summary calls fixed although a
  later ticket of that batch brought them back (`cli.py:1865`), and says they
  are "already fixed" (`cli.py:1902`).
- The final `git add -A` (`cli.py:2030`) commits whatever an agent edited
  elsewhere; skipped tickets are missing from the summary; `stopped_early` is
  never set; tickets for global findings are not rolled back; what the
  simplifier edits is not scanned.

Documents:
- Provisional sections are not counted against the limit
  (`document/section_retry.py:103`, `document/document_runner.py:25`); a stale
  `section.md` is reused; `document_id` is fresh in each run, so no approval
  carries over; the states APPROVED and REJECTED are never assigned; a
  rejection does not block a low-risk document (`document/signoff.py:222`);
  `approvals.json` has no lock.

Governance:
- A TypeScript finding recorded by `baseline generate` under one rule name is
  new under another at the next commit (`cli.py:3039`, `governance.py:98`).
- The hook scans the working tree, not what is staged. Duplicates of one
  fingerprint count once. Failures without findings pass in a run. Waivers
  count only with a baseline. Inline suppressions are never passed in. An
  unknown `ratchet_mode` passes everything and a malformed `enforcement_date`
  is ignored. Known warnings block a run's tickets while known errors do not
  (`ticket_runner.py:2560`). A syntax error while the baseline is taken hides
  findings that are new afterwards. A project check that could not be run
  before a ticket discounts its regressions.

Lessons:
- A run in one repository retires lessons of another whose files it does not
  find (`run/memory_retrieval.py:529`). Rule ids `AUTO-{ticket_id}-lesson`
  collide across projects, and storing one again demotes an enforced rule to a
  candidate. Triggers are only counted for enforced rules, so no candidate is
  ever promoted by failures, and promotion overwrites "enforced" set by hand;
  `promote_to_enforced` has no caller. Enforcement blocks on severity "error",
  which no stored rule has. `_check_superseded` never fires. A merge from a
  stale read can lose a file of a lesson when two runs overlap (hence `~clash`
  in `LessonsLive`), and the counter in `store_lesson` is read and written in
  two steps.

Release:
- The inventory of an image is not always "the final, merged filesystem"
  (`release/oci_inspector.py`, its first comment): `lstrip("./")` (517) turns
  `.env` into `env` and a whiteout in the top directory into a file, an opaque
  marker also removes files of its own layer that come before it (529), a
  whiteout of a directory removes nothing, and a layer that cannot be read is
  passed over.
- An npm tarball or image that cannot be read has an empty inventory and
  passes without a manifest (`release/npm_inspector.py:119`). Paths of an npm
  package are relative to `package/` while the checks look beside it, so its
  texts are not read. When wheel and sdist are built, or both given, only the
  wheel is looked at.
- A preflight that fails does not fail `--github-release`, whose exit counts
  findings with status FAIL only (`cli.py:2433`), although "0" is documented as
  "all assets pass" (`cli.py:2347`).
- A demand of the organisation's policy is a dict where the verdict expects a
  result (`release/evidence.py:210`): with one, even a fulfilled one, the
  command ends with 2, and an asset's preflight with a warning.
- A manifest that cannot be read counts as none; `deny_always` as a single
  string is honoured by REL-004 and not by REL-005; a check that raises is a
  warning, which exits 0.

Planning:
- `plan-confirm` writes `plan.json` before the gate and leaves it on an abort
  (`interactive.py:1755` and 1769; 1725 says it is written "only after").
- The prompts ask for `depends_on` (`run/planner.py:1316`), validation and
  loader read `dependencies` (`plan_parser.py:1059`), so dependencies a model
  gives under the asked-for name are dropped. A plan with a cycle is written as
  valid and refused when it is loaded.
- The single-shot fallback ignores every clarification answer and may produce
  an unclassified plan; hence `record = None` in `Written`.
- A bare list from stage 1 raises outside the `try` instead of falling back.
  The repair pass cannot mend a missing ticket id, because the phases already
  hold the empty one. A batch that falls back to its skeleton lacks acceptance
  criteria and fails validation.
- Answers can make a plan invalid (a mode `storage_only` without disclaimer,
  `live_credentials_gated` for a library, a strategy for a self-contained
  profile), although `run/planner.py:1714` says the defaults keep the validator
  from rejecting. `proof_resolution_source` "clarification_strategy" is always
  overwritten (`run/planner.py:607` and 1815).
- The splitter may give two parts one id, and silently drops parts beyond ten
  or without a goal.

## 6. What is left out, and what comes next

Abstractions of the models: a ticket is in at most one phase; stop reasons
other than the two limits never occur because the loop passes none
(`StopReasons`); evidence files, prompts, progress messages and the advisory
checks change nothing the loop decides on; an API coder's unified diff, applied
as a whole by `git apply`, is not told apart from file blocks; coders do not
delete files; the working tree is clean when a run starts in `TicketAttempts`
(`Session` has the dirty ones). In `Planning` the keyword scans of a brief are
an open choice of what they conclude, and whether the rules accept a proof the
coder derived is open; a glob lies within a scope when the scope names it, while
the splitter's `fnmatch` also matches a pattern's text against `?` and `[..]`. In
`RepairBatch` a rollback can always write, the operator does not edit while a
command runs, no finding names a directory, and the shell's role passes are
left out. Three inputs are taken to be well-formed: the baseline file (the
ratchet is skipped when it raises, `governance.py:554`), the required sections
of a document's spec (when they are no strings the evaluation raises and its
verdict stays, `document/document_runner.py:365`), and the directories of an
image, whose names begin with no dot.

Not modelled:

- The scanners (`review*.py`, `post_checks.py`, `openclaw_scanner.py`,
  `guard/`, `run/contract_checker.py` and the like) are string and syntax-tree
  rules on source text; a scan's result is an open choice in `GovernanceGate`
  and `RepairBatch`. They are the larger part of the repository, together with
  prompts and printing (`cli.py`, `interactive.py`), which is why the modelled
  lines are a small share of all lines.
- Of the release engine: the builders' command lines, the file patterns, the
  wheel's record, the naming of assets, the printed summary and the evidence
  files. Sign-offs and exceptions are written and never read back by a verdict.
- The coder adapter is network and subprocess I/O; its outcomes are choices of
  `TicketAttempts`.
- Reports, evidence lists and metrics are written and never read back by a
  decision.
- The capability registry and the update notifier are start-up code with no
  effect on a build. Shell policy classifies strings.

Next, most important first: what `resume` repeats of a ticket that was split
before it was executed, stated exactly; a lemma for what `ParseSplit` returns, so that
`DistinctIds` could be traced to the splitter for plans it does not break;
measures that decrease for `AllReturn` and `Ends`, whose enabledness stays with
TLC.
