------------------------------ MODULE Session ------------------------------
(***************************************************************************)
(* The git side of a series of saturnday run and resume commands: the work *)
(* branch a command creates, records and continues on (run/work_branch.py, *)
(* run/resume.py), the ratchet baseline the command line seeds before it   *)
(* (cli.py), and what the commits and resets of the tickets do to both.    *)
(*                                                                         *)
(* Between commands the operator edits, commits, switches and deletes      *)
(* branches.  A command may finish, be stopped by Ctrl-C or be killed.     *)
(* The order of tickets, their dependencies and the other continuation     *)
(* commands, which share resume's preflight, are RunPlan's.                *)
(***************************************************************************)
EXTENDS FiniteSets

CONSTANTS
  Plan,         \* the tickets of the plan
  Parent,       \* the branch the operator works on
  WorkBranches, \* the names given with --work-branch
  Detached,     \* HEAD when no branch is checked out
  Legacy,       \* a finding the repository had before any run
  None          \* no branch, no file, no ticket

ASSUME SessionConstants ==
  /\ Parent \notin WorkBranches /\ Detached \notin WorkBranches \cup {Parent}
  /\ None \notin Plan \cup WorkBranches \cup {Parent, Detached}
  /\ Legacy \notin Plan

Branches == {Parent} \cup WorkBranches
Heads == Branches \cup {Detached}

\* Every ticket left ungoverned leaves a finding of its own.
Findings == {Legacy} \cup Plan

VARIABLES
  \* the repository
  head,     \* what is checked out
  branches, \* the branches there are
  log,      \* the ids in the commit subjects of each
  debt,     \* the findings a full scan of each reports
  tracked,  \* .saturnday-baseline.json as committed on each, or None
  loose,    \* an untracked .saturnday-baseline.json, or None
  edits,    \* whether other work lies uncommitted in the tree
  \* the latest evidence directory
  ledger,   \* tickets ledger.json calls passed or coded, or None
  recorded, \* git_work_branch of run-summary.json, None when empty
  \* the running command
  proc,     \* its context, or None
  pending,  \* a ticket committed and not yet recorded, or None
  \* history, for the properties only
  direct,   \* whether each resume of this evidence was given on its branch
  plain     \* whether a command ran without a work branch

repo     == <<head, branches, log, debt, tracked>>
tree     == <<loose, edits>>
evidence == <<ledger, recorded>>
history  == <<direct, plain>>
vars == <<repo, tree, evidence, proc, pending, history>>

Init ==
  /\ head = Parent /\ branches = {Parent}
  /\ log = [b \in Heads |-> {}]
  /\ debt = [b \in Heads |-> IF b = Parent THEN {Legacy} ELSE {}]
  /\ tracked = [b \in Heads |-> None]
  /\ loose = None /\ edits = FALSE
  /\ ledger = None /\ recorded = None
  /\ proc = None /\ pending = None
  /\ direct = FALSE /\ plain = FALSE

Idle == proc = None
Baseline == IF tracked[head] # None THEN tracked[head] ELSE loose

---------------------------------------------------------------------------
(* Preflight *)

\* _bootstrap_baseline_if_missing: what a scan finds now is known debt.
Seeded == IF Baseline = None THEN debt[head] ELSE loose

\* git status after the bootstrap: an untracked baseline counts.
Dirty == edits \/ Seeded # None

\* Mutant: the tree is not looked at.
Bug_MayCreate(w) == head # Detached /\ w \notin branches

MayCreate(w) == head # Detached /\ ~Dirty /\ w \notin branches

\* git checkout -b: the new branch starts from what is checked out.
CreateBranch(w) ==
  /\ head' = w /\ branches' = branches \cup {w}
  /\ log' = [log EXCEPT ![w] = log[head]]
  /\ debt' = [debt EXCEPT ![w] = debt[head]]
  /\ tracked' = [tracked EXCEPT ![w] = tracked[head]]

\* Mutant: without a recorded branch the checked-out one is continued.
Bug_MayContinue == recorded = None \/ head = recorded \/ (~Dirty /\ recorded \in branches)

\* Mutant: the recorded branch is not looked up.
Bug_MayContinueGone == recorded # None /\ (head = recorded \/ ~Dirty)

\* pre_flight_resume: in place, or by a clean switch to the recorded branch.
MayContinue == recorded # None /\ (head = recorded \/ (~Dirty /\ recorded \in branches))

ContinueBranch ==
  /\ head' = IF recorded = None THEN head ELSE recorded
  /\ UNCHANGED <<branches, log, debt, tracked>>

Refuse == UNCHANGED <<repo, recorded, proc, plain>>

Launch(mode, work, skip) ==
  proc' = [mode |-> mode, work |-> work, skip |-> skip,
           left |-> Plan \ skip, done |-> {}]

\* saturnday run: a new evidence directory, begun after the preflight.
Run(flag) ==
  /\ Idle
  /\ loose' = Seeded /\ UNCHANGED <<edits, pending>>
  /\ \/ /\ flag # None /\ ~MayCreate(flag)
        /\ Refuse /\ UNCHANGED <<ledger, direct>>
     \/ /\ \/ flag # None /\ MayCreate(flag) /\ CreateBranch(flag)
           \/ flag = None /\ UNCHANGED repo
        /\ Launch(IF flag = None THEN "plain" ELSE "created", flag, {})
        /\ ledger' = None /\ recorded' = None
        /\ direct' = TRUE /\ plain' = (plain \/ flag = None)

\* Mutant: commits are looked for on every branch.
Bug_CommittedTickets == UNION {log[b] : b \in branches}

\* _detect_committed_tickets reads git log of what is checked out.
CommittedTickets == log[head]

\* saturnday resume: the ledger is reconciled before the preflight, with the
\* branch that happens to be checked out.
Resume(flag) ==
  /\ Idle /\ ledger # None
  /\ loose' = Seeded /\ UNCHANGED <<edits, pending>>
  /\ LET skip == ledger \cup CommittedTickets IN
     /\ ledger' = skip
     /\ direct' = (direct /\ flag = None /\ head = recorded)
     /\ \/ /\ flag # None /\ ~MayCreate(flag)
           /\ Refuse
        \/ /\ flag = None /\ ~MayContinue
           /\ Refuse
        \/ /\ \/ flag # None /\ MayCreate(flag) /\ CreateBranch(flag)
              \/ flag = None /\ MayContinue /\ ContinueBranch
           /\ Launch(IF flag # None THEN "created"
                     ELSE IF head = recorded THEN "inPlace" ELSE "switched",
                     IF flag # None THEN flag ELSE recorded, skip)
           /\ UNCHANGED <<recorded, plain>>

---------------------------------------------------------------------------
(* The tickets *)

Take(t) == ~Idle /\ pending = None /\ t \in proc.left

\* Every ticket touches files with old findings, so that it can only pass
\* while a baseline knows all of them.
CommitPassed(t) ==
  /\ Take(t) /\ Baseline # None /\ debt[head] \subseteq Baseline
  /\ log' = [log EXCEPT ![head] = @ \cup {t}]
  /\ pending' = t
  /\ UNCHANGED <<head, branches, debt, tracked, tree, evidence, proc, history>>

CommitUngoverned(t) ==
  /\ Take(t)
  /\ log' = [log EXCEPT ![head] = @ \cup {t}]
  /\ debt' = [debt EXCEPT ![head] = @ \cup {t}]
  /\ pending' = t
  /\ UNCHANGED <<head, branches, tracked, tree, evidence, proc, history>>

\* _git_reset_changes: git checkout and git clean spare .saturnday and
\* .saturnday-policy.yaml, and nothing else.
ResetChanges == loose' = None /\ edits' = FALSE

FailAttempt ==
  /\ ~Idle /\ pending = None /\ proc.left # {}
  /\ ResetChanges
  /\ UNCHANGED <<repo, evidence, proc, pending, history>>

\* The ledger and a partial summary are written after every ticket; the
\* partial summary does not name the work branch.
Record(t, coded) ==
  LET done == proc.done \cup coded IN
  /\ proc' = [proc EXCEPT !.left = @ \ {t}, !.done = done]
  /\ ledger' = done /\ recorded' = None

RecordCommitted ==
  /\ ~Idle /\ pending # None
  /\ Record(pending, {pending}) /\ pending' = None
  /\ UNCHANGED <<repo, tree, history>>

FailTicket(t) ==
  /\ Take(t)
  /\ ResetChanges /\ Record(t, {})
  /\ UNCHANGED <<repo, pending, history>>

\* The loop ends, possibly with tickets left; the final summary names the
\* work branch.
Finish ==
  /\ ~Idle /\ pending = None
  /\ ledger' = proc.done /\ recorded' = proc.work /\ proc' = None
  /\ UNCHANGED <<repo, tree, pending, history>>

Interrupt ==
  /\ ~Idle
  /\ ResetChanges
  /\ ledger' = proc.done /\ recorded' = None
  /\ proc' = None /\ pending' = None
  /\ UNCHANGED <<repo, history>>

\* What the coder was writing stays in the tree.
Crash ==
  /\ ~Idle
  /\ edits' \in {edits, TRUE}
  /\ proc' = None /\ pending' = None
  /\ UNCHANGED <<repo, loose, evidence, history>>

---------------------------------------------------------------------------
(* The operator *)

Edit == /\ Idle /\ ~edits /\ edits' = TRUE
        /\ UNCHANGED <<repo, loose, evidence, proc, pending, history>>

CommitOwn ==
  /\ Idle
  /\ edits \/ loose # None
  /\ edits' = FALSE /\ loose' = None
  /\ tracked' = [tracked EXCEPT ![head] = IF loose = None THEN @ ELSE loose]
  /\ UNCHANGED <<head, branches, log, debt, evidence, proc, pending, history>>

Checkout(b) ==
  /\ Idle /\ b \in branches \ {head}
  /\ ~edits /\ (loose = None \/ tracked[b] = None)
  /\ head' = b
  /\ UNCHANGED <<branches, log, debt, tracked, tree, evidence, proc, pending,
                 history>>

Detach ==
  /\ Idle /\ head # Detached
  /\ head' = Detached
  /\ log' = [log EXCEPT ![Detached] = log[head]]
  /\ debt' = [debt EXCEPT ![Detached] = debt[head]]
  /\ tracked' = [tracked EXCEPT ![Detached] = tracked[head]]
  /\ UNCHANGED <<branches, tree, evidence, proc, pending, history>>

DeleteBranch(b) ==
  /\ Idle /\ b \in (branches \cap WorkBranches) \ {head}
  /\ branches' = branches \ {b}
  /\ log' = [log EXCEPT ![b] = {}] /\ debt' = [debt EXCEPT ![b] = {}]
  /\ tracked' = [tracked EXCEPT ![b] = None]
  /\ UNCHANGED <<head, tree, evidence, proc, pending, history>>

Command == \E flag \in WorkBranches \cup {None} : Run(flag) \/ Resume(flag)

Ticket == \/ FailAttempt \/ RecordCommitted
          \/ \E t \in Plan : CommitPassed(t) \/ CommitUngoverned(t) \/ FailTicket(t)

Operator == \/ Edit \/ CommitOwn \/ Detach
            \/ \E b \in Branches : Checkout(b) \/ DeleteBranch(b)

Next == Command \/ Ticket \/ Finish \/ Interrupt \/ Crash \/ Operator

Spec == Init /\ [][Next]_vars

---------------------------------------------------------------------------
(* Properties *)

Files == (SUBSET Findings) \cup {None}
Processes == [mode : {"plain", "created", "inPlace", "switched"},
              work : WorkBranches \cup {None}, skip : SUBSET Plan,
              left : SUBSET Plan, done : SUBSET Plan]

\* The variables have their types.
TypeOK ==
  /\ head \in Heads /\ branches \subseteq Branches /\ head \in branches \cup {Detached}
  /\ log \in [Heads -> SUBSET Plan] /\ debt \in [Heads -> SUBSET Findings]
  /\ tracked \in [Heads -> Files] /\ loose \in Files /\ edits \in BOOLEAN
  /\ ledger \in (SUBSET Plan) \cup {None}
  /\ recorded \in WorkBranches \cup {None}
  /\ proc \in Processes \cup {None} /\ pending \in Plan \cup {None}
  /\ direct \in BOOLEAN /\ plain \in BOOLEAN

\* "so an operator can keep their parent branch clean" (work_branch.py): as
\* long as every run is given --work-branch, no ticket of any run or resume
\* lands on the parent branch, through crashes, switches and deletions.
OptInKeepsParentClean == ~plain => log[Parent] = {} /\ debt[Parent] = {Legacy}

\* A command that created its branch or switched to it never throws away
\* work the operator had not committed: only one that stays where it is can.
SwitchingSparesEdits ==
  [][~Idle /\ proc.mode \in {"created", "switched"} => (edits => edits')]_vars

\* What resume skips is on the branch it commits to, if every resume of this
\* evidence, refused ones included, was given on the recorded branch.
SkippedOnBranch == ~Idle /\ direct => proc.skip \subseteq log[head]
=============================================================================
