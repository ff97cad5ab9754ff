------------------------- MODULE SessionDoneProofs -------------------------
(***************************************************************************)
(* Theorems about what lies before and behind the tickets of a run: about  *)
(* Session, for any tickets and any number of work branches, commands,     *)
(* crashes and interventions of the operator between commands, and about   *)
(* DonePipeline, for every plan, every set of tickets and outcomes, and    *)
(* every number of retries and setup steps.                                *)
(***************************************************************************)
EXTENDS Session, DonePipeline, TLAPS

USE DEF repo, tree, evidence, history

---------------------------------------------------------------------------
(* Types *)

LEMMA HeadTypes ==
  /\ \A w \in WorkBranches : w \in Heads /\ w \in Branches /\ w # Parent /\ w # Detached
  /\ Parent \in Heads /\ Detached \in Heads /\ Parent # Detached
  /\ None \notin WorkBranches /\ None \notin Plan /\ None \notin Heads
  /\ Legacy \in Findings /\ Plan \subseteq Findings
<1>1. SessionConstants
  BY SessionConstants
<1>2. QED
  BY <1>1 DEF SessionConstants, Heads, Branches, Findings

LEMMA InitTypes == Init => TypeOK
<1> SUFFICES ASSUME Init PROVE TypeOK
  OBVIOUS
<1>1. /\ log \in [Heads -> SUBSET Plan] /\ debt \in [Heads -> SUBSET Findings]
      /\ tracked \in [Heads -> Files]
  BY HeadTypes DEF Init, Files
<1>2. QED
  BY <1>1, HeadTypes DEF Init, TypeOK, Files, Branches

\* A baseline seeded before a command holds findings.
LEMMA SeededType == TypeOK => Seeded \in Files
BY DEF TypeOK, Seeded, Baseline, Files

\* The three repository maps after a branch was created.
LEMMA CreateBranchTypes ==
  ASSUME TypeOK, NEW w \in WorkBranches, CreateBranch(w)
  PROVE  /\ head' \in Heads /\ branches' \subseteq Branches
         /\ head' \in branches' \cup {Detached}
         /\ log' \in [Heads -> SUBSET Plan]
         /\ debt' \in [Heads -> SUBSET Findings]
         /\ tracked' \in [Heads -> Files]
BY HeadTypes DEF TypeOK, CreateBranch

LEMMA ContinueBranchTypes ==
  ASSUME TypeOK, MayContinue, ContinueBranch
  PROVE  /\ head' \in Heads /\ head' \in branches' \cup {Detached}
         /\ UNCHANGED <<branches, log, debt, tracked>>
BY HeadTypes DEF TypeOK, MayContinue, ContinueBranch

LEMMA CommandTypes ==
  ASSUME TypeOK, NEW flag \in WorkBranches \cup {None}, Run(flag) \/ Resume(flag)
  PROVE  TypeOK'
<1>1. loose' \in Files /\ UNCHANGED <<edits, pending>>
  BY SeededType DEF Run, Resume
<1>2. CASE Run(flag)
  <2>1. CASE Refuse /\ UNCHANGED <<ledger, direct>>
    BY <1>1, <2>1 DEF Refuse, TypeOK
  <2>2. CASE /\ \/ flag # None /\ MayCreate(flag) /\ CreateBranch(flag)
                \/ flag = None /\ UNCHANGED repo
             /\ Launch(IF flag = None THEN "plain" ELSE "created", flag, {})
             /\ ledger' = None /\ recorded' = None
             /\ direct' = TRUE /\ plain' = (plain \/ flag = None)
    <3>1. proc' \in Processes
      BY <2>2 DEF Launch, Processes
    <3>2. QED
      BY <1>1, <2>2, <3>1, CreateBranchTypes DEF TypeOK
  <2>3. QED
    BY <1>2, <2>1, <2>2 DEF Run
<1>3. CASE Resume(flag)
  <2> DEFINE skip == ledger \cup CommittedTickets
  <2>1. /\ skip \subseteq Plan /\ ledger' = skip
        /\ direct' \in BOOLEAN
    BY <1>3 DEF Resume, CommittedTickets, TypeOK
  <2>2. CASE Refuse
    BY <1>1, <2>1, <2>2 DEF Refuse, TypeOK
  <2>3. CASE /\ \/ flag # None /\ MayCreate(flag) /\ CreateBranch(flag)
                \/ flag = None /\ MayContinue /\ ContinueBranch
             /\ Launch(IF flag # None THEN "created"
                       ELSE IF head = recorded THEN "inPlace" ELSE "switched",
                       IF flag # None THEN flag ELSE recorded, skip)
             /\ UNCHANGED <<recorded, plain>>
    <3>1. proc' \in Processes
      BY <2>1, <2>3 DEF Launch, Processes, TypeOK
    <3>2. QED
      BY <1>1, <2>1, <2>3, <3>1, CreateBranchTypes, ContinueBranchTypes DEF TypeOK
  <2>4. QED
    BY <1>3, <2>2, <2>3 DEF Resume
<1>4. QED
  BY <1>2, <1>3

\* What a running command holds.
LEMMA Running == TypeOK /\ ~Idle => proc \in Processes
BY DEF TypeOK, Idle

LEMMA TicketTypes == TypeOK /\ Ticket => TypeOK'
<1> SUFFICES ASSUME TypeOK, Ticket PROVE TypeOK'
  OBVIOUS
<1>1. CASE FailAttempt
  BY <1>1 DEF FailAttempt, ResetChanges, TypeOK, Files
<1>2. CASE RecordCommitted
  BY <1>2, Running, HeadTypes DEF RecordCommitted, Record, TypeOK, Processes
<1>3. ASSUME NEW t \in Plan, CommitPassed(t) \/ CommitUngoverned(t)
      PROVE  TypeOK'
  BY <1>3, HeadTypes DEF CommitPassed, CommitUngoverned, TypeOK
<1>4. ASSUME NEW t \in Plan, FailTicket(t) PROVE TypeOK'
  BY <1>4, Running DEF FailTicket, Take, ResetChanges, Record, TypeOK, Processes, Files
<1>5. QED
  BY <1>1, <1>2, <1>3, <1>4 DEF Ticket

LEMMA EndTypes == TypeOK /\ (Finish \/ Interrupt \/ Crash) => TypeOK'
BY Running DEF Finish, Interrupt, Crash, ResetChanges, TypeOK, Processes, Files

LEMMA OperatorTypes == TypeOK /\ Operator => TypeOK'
<1> SUFFICES ASSUME TypeOK, Operator PROVE TypeOK'
  OBVIOUS
<1>1. CASE Edit
  BY <1>1 DEF Edit, TypeOK
<1>2. CASE CommitOwn
  BY <1>2 DEF CommitOwn, TypeOK, Files
<1>3. CASE Detach
  BY <1>3, HeadTypes DEF Detach, TypeOK
<1>4. ASSUME NEW b \in Branches, Checkout(b) PROVE TypeOK'
  BY <1>4 DEF Checkout, TypeOK, Heads
<1>5. ASSUME NEW b \in Branches, DeleteBranch(b) PROVE TypeOK'
  BY <1>5 DEF DeleteBranch, TypeOK, Heads, Files
<1>6. QED
  BY <1>1, <1>2, <1>3, <1>4, <1>5 DEF Operator

LEMMA StepTypes == TypeOK /\ [Next]_vars => TypeOK'
<1> SUFFICES ASSUME TypeOK, [Next]_vars PROVE TypeOK'
  OBVIOUS
<1>1. CASE UNCHANGED vars
  BY <1>1 DEF vars, TypeOK
<1>2. QED
  BY <1>1, CommandTypes, TicketTypes, EndTypes, OperatorTypes DEF Next, Command

\* The repository, the evidence and the running command keep their types,
\* and what is checked out exists, for any sequence of commands, crashes and
\* operator steps (work_branch.py, resume.py).
THEOREM SessionTypesKept == Spec => []TypeOK
BY InitTypes, StepTypes, PTL DEF Spec

---------------------------------------------------------------------------
(* Where the tickets land *)

\* No command that was told a branch of its own stands on the parent.
StandsApart == ~Idle /\ ~plain => head # Parent

\* The two hold together.
CleanInv == TypeOK /\ StandsApart /\ OptInKeepsParentClean

LEMMA InitClean == Init => CleanInv
BY InitTypes, HeadTypes DEF Init, CleanInv, StandsApart, OptInKeepsParentClean, Idle

\* Creating or continuing a branch leaves the parent's commits alone and
\* stands elsewhere.
LEMMA CommandClean ==
  ASSUME CleanInv, NEW flag \in WorkBranches \cup {None}, Run(flag) \/ Resume(flag)
  PROVE  StandsApart' /\ OptInKeepsParentClean'
<1>1. TypeOK /\ Idle
  BY DEF CleanInv, Run, Resume
<1>2. CASE Refuse
  BY <1>1, <1>2 DEF CleanInv, Refuse, StandsApart, OptInKeepsParentClean, Idle
<1>3. CASE flag # None /\ CreateBranch(flag) /\ (plain' => plain \/ flag = None)
           /\ (plain => plain')
  <2>1. head' # Parent /\ log'[Parent] = log[Parent] /\ debt'[Parent] = debt[Parent]
    BY <1>1, <1>3, HeadTypes DEF CreateBranch, TypeOK
  <2>2. QED
    BY <1>3, <2>1 DEF CleanInv, StandsApart, OptInKeepsParentClean
<1>4. CASE flag = None /\ UNCHANGED repo /\ plain'
  BY <1>4 DEF StandsApart, OptInKeepsParentClean
<1>5. CASE MayContinue /\ ContinueBranch /\ UNCHANGED plain
  <2>1. head' # Parent /\ UNCHANGED <<log, debt>>
    BY <1>1, <1>5, HeadTypes DEF MayContinue, ContinueBranch, TypeOK
  <2>2. QED
    BY <1>5, <2>1 DEF CleanInv, StandsApart, OptInKeepsParentClean
<1>6. CASE Run(flag) /\ ~Refuse
  <2>1. /\ \/ flag # None /\ CreateBranch(flag)
           \/ flag = None /\ UNCHANGED repo
        /\ plain' = (plain \/ flag = None)
    BY <1>6, Zenon DEF Run
  <2>2. QED
    BY <1>3, <1>4, <2>1
<1>7. CASE Resume(flag) /\ ~Refuse
  <2>1. /\ \/ flag # None /\ CreateBranch(flag)
           \/ MayContinue /\ ContinueBranch
        /\ UNCHANGED plain
    BY <1>7, Zenon DEF Resume
  <2>2. QED
    BY <1>3, <1>5, <2>1
<1>8. QED
  BY <1>2, <1>6, <1>7

LEMMA TicketClean ==
  ASSUME CleanInv, Ticket
  PROVE  StandsApart' /\ OptInKeepsParentClean'
<1>1. TypeOK
  BY DEF CleanInv
<1>2. UNCHANGED <<head, plain>> /\ ~Idle
  BY DEF Ticket, FailAttempt, RecordCommitted, CommitPassed, CommitUngoverned,
         FailTicket, Take
<1>3. \/ UNCHANGED <<log, debt>>
      \/ head # Parent => log'[Parent] = log[Parent] /\ debt'[Parent] = debt[Parent]
  BY <1>1, HeadTypes DEF Ticket, FailAttempt, RecordCommitted, CommitPassed,
         CommitUngoverned, FailTicket, TypeOK
<1>4. QED
  BY <1>2, <1>3 DEF CleanInv, StandsApart, OptInKeepsParentClean

LEMMA RestClean ==
  ASSUME CleanInv, Finish \/ Interrupt \/ Crash \/ Operator \/ UNCHANGED vars
  PROVE  StandsApart' /\ OptInKeepsParentClean'
<1>1. TypeOK
  BY DEF CleanInv
<1>2. CASE Finish \/ Interrupt \/ Crash
  BY <1>2 DEF Finish, Interrupt, Crash, CleanInv, StandsApart, OptInKeepsParentClean, Idle
<1>3. CASE Operator
  <2>1. UNCHANGED plain /\ Idle' /\ UNCHANGED proc
    BY <1>3 DEF Operator, Edit, CommitOwn, Detach, Checkout, DeleteBranch, Idle
  <2>2. log'[Parent] = log[Parent] /\ debt'[Parent] = debt[Parent]
    BY <1>1, <1>3, HeadTypes
    DEF Operator, Edit, CommitOwn, Detach, Checkout, DeleteBranch, TypeOK
  <2>3. QED
    BY <2>1, <2>2 DEF CleanInv, StandsApart, OptInKeepsParentClean
<1>4. CASE UNCHANGED vars
  BY <1>4 DEF vars, CleanInv, StandsApart, OptInKeepsParentClean, Idle
<1>5. QED
  BY <1>2, <1>3, <1>4

LEMMA StepClean == CleanInv /\ [Next]_vars => CleanInv'
<1> SUFFICES ASSUME CleanInv, [Next]_vars PROVE CleanInv'
  OBVIOUS
<1>1. TypeOK'
  BY StepTypes DEF CleanInv
<1>2. StandsApart' /\ OptInKeepsParentClean'
  BY CommandClean, TicketClean, RestClean DEF Next, Command
<1>3. QED
  BY <1>1, <1>2 DEF CleanInv

\* As long as every run is given --work-branch, no ticket of any run or
\* resume lands on the parent branch (work_branch.py).
THEOREM ParentStaysClean == Spec => []OptInKeepsParentClean
<1>1. CleanInv => OptInKeepsParentClean
  BY DEF CleanInv
<1>2. QED
  BY InitClean, StepClean, <1>1, PTL DEF Spec
---------------------------------------------------------------------------
(* Work the operator has not committed *)

\* A command that had to create or switch its branch began on a clean tree.
TreeWasClean == ~Idle /\ proc.mode \in {"created", "switched"} => ~edits

EditsInv == TypeOK /\ TreeWasClean

LEMMA InitEdits == Init => EditsInv
BY InitTypes DEF Init, EditsInv, TreeWasClean

LEMMA CommandEdits ==
  ASSUME EditsInv, NEW flag \in WorkBranches \cup {None}, Run(flag) \/ Resume(flag)
  PROVE  TreeWasClean'
<1>1. edits' = edits /\ Idle
  BY DEF Run, Resume
<1>2. CASE Refuse
  BY <1>1, <1>2 DEF Refuse, TreeWasClean, Idle
<1>3. CASE Run(flag) /\ ~Refuse
  <2>1. \/ flag # None /\ MayCreate(flag)
        \/ Launch("plain", flag, {})
    BY <1>3 DEF Run
  <2>2. CASE MayCreate(flag)
    BY <1>1, <2>2 DEF MayCreate, Dirty, TreeWasClean
  <2>3. CASE Launch("plain", flag, {})
    BY <2>3 DEF Launch, TreeWasClean
  <2>4. QED
    BY <2>1, <2>2, <2>3
<1>4. CASE Resume(flag) /\ ~Refuse
  <2> DEFINE mode == IF flag # None THEN "created"
                     ELSE IF head = recorded THEN "inPlace" ELSE "switched"
             work == IF flag # None THEN flag ELSE recorded
  <2>1. /\ \/ flag # None /\ MayCreate(flag)
           \/ flag = None /\ MayContinue
        /\ Launch(mode, work, ledger \cup CommittedTickets)
    BY <1>4, Zenon DEF Resume
  <2>2. CASE MayCreate(flag) \/ head # recorded
    BY <1>1, <2>1, <2>2 DEF MayCreate, MayContinue, Dirty, TreeWasClean
  <2>3. CASE flag = None /\ head = recorded
    BY <2>1, <2>3 DEF Launch, TreeWasClean
  <2>4. QED
    BY <2>1, <2>2, <2>3
<1>5. QED
  BY <1>2, <1>3, <1>4

\* Tickets keep the mode and can only make the tree cleaner.
LEMMA TicketEdits ==
  ASSUME EditsInv, Ticket
  PROVE  TreeWasClean'
<1>1. TypeOK /\ ~Idle
  BY DEF EditsInv, Ticket, FailAttempt, RecordCommitted, CommitPassed,
         CommitUngoverned, FailTicket, Take
<1>2. proc \in Processes
  BY <1>1, Running
<1>3. edits' \in {edits, FALSE}
  BY DEF Ticket, FailAttempt, RecordCommitted, CommitPassed, CommitUngoverned,
         FailTicket, ResetChanges
<1>4. proc'.mode = proc.mode
  BY <1>2 DEF Ticket, FailAttempt, RecordCommitted, CommitPassed,
         CommitUngoverned, FailTicket, Record, Processes
<1>5. QED
  BY <1>1, <1>3, <1>4 DEF EditsInv, TreeWasClean

LEMMA RestEdits ==
  ASSUME EditsInv, Finish \/ Interrupt \/ Crash \/ Operator \/ UNCHANGED vars
  PROVE  TreeWasClean'
<1>1. CASE Finish \/ Interrupt \/ Crash
  BY <1>1 DEF Finish, Interrupt, Crash, TreeWasClean, Idle
<1>2. CASE Operator
  BY <1>2 DEF Operator, Edit, CommitOwn, Detach, Checkout, DeleteBranch,
              TreeWasClean, Idle
<1>3. CASE UNCHANGED vars
  BY <1>3 DEF vars, EditsInv, TreeWasClean, Idle
<1>4. QED
  BY <1>1, <1>2, <1>3

LEMMA StepEdits == EditsInv /\ [Next]_vars => EditsInv'
<1> SUFFICES ASSUME EditsInv, [Next]_vars PROVE EditsInv'
  OBVIOUS
<1>1. TypeOK'
  BY StepTypes DEF EditsInv
<1>2. TreeWasClean'
  BY CommandEdits, TicketEdits, RestEdits DEF Next, Command
<1>3. QED
  BY <1>1, <1>2 DEF EditsInv

\* No step of a command that created its branch or switched to it throws away
\* work the operator had not committed: there was none when it began, because
\* both demand a clean tree (work_branch.py, resume.py), and none is made
\* while it runs.
THEOREM SwitchesSpareEdits == Spec => SwitchingSparesEdits
<1> DEFINE Spares == ~Idle /\ proc.mode \in {"created", "switched"}
                       => (edits => edits')
<1>1. EditsInv => [Spares]_vars
  BY DEF EditsInv, TreeWasClean
<1>2. QED
  BY InitEdits, StepEdits, <1>1, PTL DEF Spec, SwitchingSparesEdits

---------------------------------------------------------------------------
(* What resume skips *)

\* As long as each resume of the evidence was given on its branch: what the
\* ledger names is on the recorded branch, if that still exists, and what a
\* running command skips, has done and is about to record is on its own.
LedgerOnBranch ==
  direct /\ ledger # None /\ recorded \in branches => ledger \subseteq log[recorded]

WorkOnBranch ==
  direct /\ ~Idle =>
    /\ proc.work \in {None, head}
    /\ proc.skip \cup proc.done \subseteq log[head]
    /\ pending # None => pending \in log[head]

SkipInv == TypeOK /\ (Idle => pending = None) /\ LedgerOnBranch /\ WorkOnBranch

LEMMA InitSkip == Init => SkipInv
BY InitTypes DEF Init, SkipInv, LedgerOnBranch, WorkOnBranch, Idle

LEMMA RunSkip ==
  ASSUME SkipInv, NEW flag \in WorkBranches \cup {None}, Run(flag)
  PROVE  LedgerOnBranch' /\ WorkOnBranch' /\ pending' = None
<1>1. TypeOK /\ Idle /\ pending' = None
  BY DEF SkipInv, Run
<1>2. CASE Refuse /\ UNCHANGED <<ledger, direct>>
  BY <1>1, <1>2 DEF SkipInv, Refuse, LedgerOnBranch, WorkOnBranch, Idle
<1>3. CASE /\ \/ flag # None /\ CreateBranch(flag)
              \/ flag = None /\ UNCHANGED repo
           /\ Launch(IF flag = None THEN "plain" ELSE "created", flag, {})
           /\ ledger' = None
  <2>1. proc'.work = flag /\ proc'.skip = {} /\ proc'.done = {}
    BY <1>3 DEF Launch
  <2>2. flag \in {None, head'}
    BY <1>3 DEF CreateBranch
  <2>3. QED
    BY <1>1, <1>3, <2>1, <2>2 DEF LedgerOnBranch, WorkOnBranch
<1>4. QED
  BY <1>1, <1>2, <1>3 DEF Run

LEMMA ResumeSkip ==
  ASSUME SkipInv, NEW flag \in WorkBranches \cup {None}, Resume(flag)
  PROVE  LedgerOnBranch' /\ WorkOnBranch' /\ pending' = None
<1> DEFINE skip == ledger \cup log[head]
<1>1. /\ TypeOK /\ Idle /\ pending' = None
      /\ ledger # None /\ ledger' = skip
      /\ direct' = (direct /\ flag = None /\ head = recorded)
  BY DEF SkipInv, Resume, CommittedTickets
<1>2. CASE ~direct'
  BY <1>1, <1>2 DEF LedgerOnBranch, WorkOnBranch
<1>3. CASE direct'
  <2>1. direct /\ flag = None /\ head = recorded
    BY <1>1, <1>3
  <2>2. recorded # None /\ recorded \in branches
    BY <1>1, <2>1, HeadTypes DEF TypeOK, Heads, Branches
  <2>3. skip \subseteq log[head]
    BY <1>1, <2>1, <2>2 DEF SkipInv, LedgerOnBranch
  <2>4. /\ ContinueBranch /\ UNCHANGED recorded
        /\ Launch("inPlace", recorded, skip)
    BY <2>1, <2>2 DEF Resume, MayContinue, CommittedTickets
  <2>5. UNCHANGED <<head, branches, log>>
    BY <2>1, <2>2, <2>4 DEF ContinueBranch
  <2>6. proc'.work = recorded /\ proc'.skip = skip /\ proc'.done = {}
    BY <2>4 DEF Launch
  <2>7. QED
    BY <1>1, <2>1, <2>3, <2>4, <2>5, <2>6 DEF LedgerOnBranch, WorkOnBranch
<1>4. QED
  BY <1>2, <1>3

\* The branches only grow while tickets run, and what is recorded was
\* committed to the one that is checked out.
LEMMA TicketSkip ==
  ASSUME SkipInv, Ticket
  PROVE  LedgerOnBranch' /\ WorkOnBranch' /\ ~Idle
<1>1. TypeOK /\ ~Idle
  BY DEF SkipInv, Ticket, FailAttempt, RecordCommitted, CommitPassed,
         CommitUngoverned, FailTicket, Take
<1>2. proc \in Processes /\ head \in Heads
  BY <1>1, Running DEF TypeOK
<1>3. UNCHANGED <<head, branches, direct>>
  BY DEF Ticket, FailAttempt, RecordCommitted, CommitPassed, CommitUngoverned,
         FailTicket
<1>4. CASE FailAttempt
  BY <1>4 DEF FailAttempt, SkipInv, LedgerOnBranch, WorkOnBranch, Idle
<1>5. ASSUME NEW t \in Plan, CommitPassed(t) \/ CommitUngoverned(t)
      PROVE  LedgerOnBranch' /\ WorkOnBranch'
  <2>1. /\ log' = [log EXCEPT ![head] = @ \cup {t}] /\ pending' = t
        /\ UNCHANGED <<ledger, recorded, proc>>
    BY <1>5 DEF CommitPassed, CommitUngoverned
  <2>2. /\ \A b \in Heads : log[b] \subseteq log'[b]
        /\ pending' \in log'[head]
    BY <1>1, <1>2, <2>1 DEF TypeOK
  <2>3. branches \subseteq Heads
    BY <1>1 DEF TypeOK, Heads
  <2>4. QED
    BY <1>1, <1>2, <1>3, <2>1, <2>2, <2>3 DEF SkipInv, LedgerOnBranch, WorkOnBranch, Idle
<1>6. CASE RecordCommitted
  <2>1. /\ pending # None /\ UNCHANGED log /\ recorded' = None /\ pending' = None
        /\ proc'.work = proc.work /\ proc'.skip = proc.skip
        /\ proc'.done = proc.done \cup {pending}
    BY <1>2, <1>6 DEF RecordCommitted, Record, Processes
  <2>2. None \notin branches
    BY <1>1, HeadTypes DEF TypeOK, Heads
  <2>3. QED
    BY <1>1, <1>3, <2>1, <2>2 DEF SkipInv, LedgerOnBranch, WorkOnBranch
<1>7. ASSUME NEW t \in Plan, FailTicket(t)
      PROVE  LedgerOnBranch' /\ WorkOnBranch'
  <2>1. /\ UNCHANGED <<log, pending>> /\ recorded' = None
        /\ proc'.work = proc.work /\ proc'.skip = proc.skip
        /\ proc'.done = proc.done
    BY <1>2, <1>7 DEF FailTicket, Record, Processes
  <2>2. None \notin branches
    BY <1>1, HeadTypes DEF TypeOK, Heads
  <2>3. QED
    BY <1>1, <1>3, <2>1, <2>2 DEF SkipInv, LedgerOnBranch, WorkOnBranch
<1>8. QED
  BY <1>1, <1>4, <1>5, <1>6, <1>7 DEF Ticket

\* The final ledger is written with the branch it stands for.
LEMMA EndSkip ==
  ASSUME SkipInv, Finish \/ Interrupt \/ Crash
  PROVE  LedgerOnBranch' /\ WorkOnBranch' /\ pending' = None
<1>1. TypeOK /\ ~Idle /\ Idle' /\ pending' = None
      /\ UNCHANGED <<head, branches, log, direct>>
  BY DEF SkipInv, Finish, Interrupt, Crash, Idle
<1>2. None \notin branches
  BY <1>1, HeadTypes DEF TypeOK, Heads
<1>3. CASE Finish
  BY <1>1, <1>2, <1>3 DEF Finish, SkipInv, LedgerOnBranch, WorkOnBranch
<1>4. CASE Interrupt \/ Crash
  BY <1>1, <1>2, <1>4 DEF Interrupt, Crash, SkipInv, LedgerOnBranch, WorkOnBranch
<1>5. QED
  BY <1>3, <1>4

\* The operator may delete the recorded branch; a branch of that name has the
\* evidence of another run.
LEMMA OperatorSkip ==
  ASSUME SkipInv, Operator
  PROVE  LedgerOnBranch' /\ WorkOnBranch' /\ pending' = None
<1>1. TypeOK /\ Idle /\ Idle' /\ pending' = None
      /\ UNCHANGED <<ledger, recorded, direct>>
  BY DEF SkipInv, Operator, Edit, CommitOwn, Detach, Checkout, DeleteBranch, Idle
<1>2. \A b \in branches' : b \in branches /\ b \in Heads
  BY <1>1 DEF Operator, Edit, CommitOwn, Detach, Checkout, DeleteBranch, TypeOK, Heads
<1>3. \A b \in branches' : log'[b] = log[b]
  <2>1. CASE Detach
    BY <1>1, <1>2, <2>1, HeadTypes DEF Detach, TypeOK, Branches
  <2>2. CASE ~Detach
    BY <1>1, <1>2, <2>2 DEF Operator, Edit, CommitOwn, Checkout, DeleteBranch, TypeOK
  <2>3. QED
    BY <2>1, <2>2
<1>4. QED
  BY <1>1, <1>2, <1>3 DEF SkipInv, LedgerOnBranch, WorkOnBranch

LEMMA StepSkip == SkipInv /\ [Next]_vars => SkipInv'
<1> SUFFICES ASSUME SkipInv, [Next]_vars PROVE SkipInv'
  OBVIOUS
<1>1. TypeOK'
  BY StepTypes DEF SkipInv
<1>2. CASE Command
  BY <1>1, <1>2, RunSkip, ResumeSkip DEF Command, SkipInv
<1>3. CASE Ticket
  <2>1. UNCHANGED proc \/ pending' = None
    BY <1>3 DEF Ticket, FailAttempt, RecordCommitted, CommitPassed,
                CommitUngoverned, FailTicket, Take
  <2>2. QED
    BY <1>1, <1>3, <2>1, TicketSkip DEF SkipInv, Idle
<1>4. CASE Finish \/ Interrupt \/ Crash \/ Operator
  BY <1>1, <1>4, EndSkip, OperatorSkip DEF SkipInv
<1>5. CASE UNCHANGED vars
  BY <1>1, <1>5 DEF vars, SkipInv, LedgerOnBranch, WorkOnBranch, Idle
<1>6. QED
  BY <1>2, <1>3, <1>4, <1>5 DEF Next

\* What resume skips is on the branch it commits to, if every resume of this
\* evidence was given on the recorded branch (resume.py), whatever branches
\* were deleted, created anew or left by a crash in between.
THEOREM SkipsAreOnBranch == Spec => []SkippedOnBranch
<1>1. SkipInv => SkippedOnBranch
  BY DEF SkipInv, WorkOnBranch, SkippedOnBranch
<1>2. QED
  BY InitSkip, StepSkip, <1>1, PTL DEF Spec

HIDE DEF repo, tree, evidence, history

---------------------------------------------------------------------------
(* The definition of done *)

RolePasses == {"dod", "guard", "governance", "pgRetry"}
Met == DefinitionOfDoneMet(FinalLedger)
Lost == \E t \in Tickets : outcome[t].verify \in {"failed", "skipped"}

\* The returned verdict and the proof: nothing is recorded of the proof before
\* it has run or was given up, and whatever lowers the verdict lowers it for
\* good, in the summary as well unless the setup was refused, which the
\* summary then says and which ends the pipeline.
ProofInv ==
  /\ SummaryKeepsVerdict
  /\ summary.approval = result.approval
  /\ stage = "refused" => Refused(result)
  /\ Refused(result) => stage = "refused" \/ (stage = "done" /\ ~result.done)
  /\ stage \in {"evaluate", "consistency"} \cup RolePasses => result.consistent
  /\ ~result.consistent => ~result.done
  /\ stage \notin {"live", "done"} => result.proof = "unset"
  /\ result.proof = "failed" => ~result.done
  /\ stage \in {"live", "done"} /\ plan.proof # "none" =>
       result.proof # "unset" /\ result.status = result.proof
  /\ plan.proof # "none" => proof # "none"

\* Behind the guard a verdict of done means that no verify_cmd was lost.
GuardInv ==
  opts.roles /\ ~raised /\ result.done
    /\ stage \notin {"evaluate", "dod", "guard"} => ~Lost

\* Why a run is not reported done.
CauseInv ==
  /\ stage \in RolePasses => opts.roles
  /\ stage \in {"evaluate", "dod"} => result.class = "" /\ verdict = ""
  /\ stage \in {"dod", "guard"} /\ plan.proof # "gap" =>
       result.status # "unresolved_gap"
  /\ stage # "evaluate" /\ ~result.done /\ plan.proof # "gap" =>
       \/ /\ ~Met /\ result.class # "MET"
          /\ stage \in RolePasses => verdict # "MET"
       \/ opts.roles /\ Lost
       \/ ~result.consistent \/ result.proof = "failed"

LEMMA MetType == Met \in BOOLEAN
BY DEF Met, DefinitionOfDoneMet

\* What the code writes into a result is a result.
LEMMA ResultType ==
  ASSUME NEW r \in Results
  PROVE  /\ \A c \in Classes : [r EXCEPT !.class = c] \in Results
         /\ \A s \in Statuses5 : [r EXCEPT !.status = s] \in Results
         /\ ProofPass(r) \in Results
         /\ \A ran \in BOOLEAN : ProofFailure(r, ran) \in Results
<1>1. {"passed", "failed"} \subseteq Statuses5
  BY DEF Statuses5
<1>2. QED
  BY <1>1 DEF Results, ProofPass, ProofFailure

LEMMA InitInv == DoneInit => DoneTypeOK /\ ProofInv /\ GuardInv /\ CauseInv
<1> SUFFICES ASSUME DoneInit PROVE DoneTypeOK /\ ProofInv /\ GuardInv /\ CauseInv
  OBVIOUS
<1>1. plan \in Plans /\ plan.setup \in 0..MaxSetup /\ plan.proof \in Proofs
  BY DEF DoneInit, Plans, Proofs
<1>2. result \in Results /\ summary = result
  BY DEF DoneInit, Results, Classes, Statuses5, Approvals
<1>3. DoneTypeOK
  <2>1. 0 \in 0..(PgAttempts + ProofRetries)
    BY PipelineConstants
  <2>2. QED
    BY <1>1, <1>2, <2>1 DEF DoneInit, DoneTypeOK, Classes
<1>4. QED
  BY <1>2, <1>3 DEF DoneInit, ProofInv, GuardInv, CauseInv, SummaryKeepsVerdict,
                    Refused, RolePasses
---------------------------------------------------------------------------
(* Types *)

LEMMA SettleType ==
  ASSUME DoneTypeOK, SettleGovernance
  PROVE  /\ result' \in Results /\ summary' = result'
         /\ stage' = "consistency" /\ tries' = 0
<1>1. result \in Results /\ verdict \in Classes
  BY DEF DoneTypeOK
<1>2. [result EXCEPT !.class = verdict] \in Results
  BY <1>1, ResultType
<1>3. QED
  BY <1>2 DEF SettleGovernance, Save, Goto

\* What the retries and the setup count stays in its range.
LEMMA CountBounds ==
  ASSUME DoneTypeOK
  PROVE  /\ 0 \in 0..(PgAttempts + ProofRetries) /\ 0 \in 0..MaxSetup
         /\ tries < PgAttempts \/ tries < ProofRetries =>
              tries + 1 \in 0..(PgAttempts + ProofRetries)
         /\ steps > 1 => steps - 1 \in 0..MaxSetup
<1>1. /\ PgAttempts \in Nat /\ ProofRetries \in Nat /\ MaxSetup \in Nat
      /\ tries \in Nat /\ tries <= PgAttempts + ProofRetries
      /\ steps \in Nat /\ steps <= MaxSetup
  BY PipelineConstants DEF DoneTypeOK
<1>2. QED
  BY <1>1

LEMMA StepType == DoneTypeOK /\ [DoneNext]_doneVars => DoneTypeOK'
<1> SUFFICES ASSUME DoneTypeOK, [DoneNext]_doneVars PROVE DoneTypeOK'
  OBVIOUS
<1>0. /\ result \in Results
      /\ \A s \in {"resolved", "resolved_operator"} :
           [result EXCEPT !.status = s] \in Results
      /\ ProofPass(result) \in Results
      /\ ProofFailure(result, TRUE) \in Results
      /\ ProofFailure(result, FALSE) \in Results
  BY ResultType DEF DoneTypeOK, Statuses5
<1>1. CASE Evaluate
  BY <1>1, MetType DEF Evaluate, Save, Goto, DoneTypeOK, given, Results, Met,
                       InitialProofResolution, Statuses5
<1>2. CASE DodPass
  BY <1>2 DEF DodPass, Save, Keep, Goto, DoneTypeOK, given, Results
<1>3. CASE ApplyDodMechanicalGuard
  BY <1>3 DEF ApplyDodMechanicalGuard, Save, Keep, Goto, DoneTypeOK, given, Results,
              Classes
<1>4. CASE PlanGovernance \/ RetryPgEvaluation
  <2>1. /\ UNCHANGED given /\ UNCHANGED <<verdict, steps, proof, failing, raised>>
        /\ \/ SettleGovernance
           \/ stage' = "pgRetry" /\ Keep /\ tries' = tries
           \/ stage' = stage /\ Keep /\ tries < PgAttempts /\ tries' = tries + 1
    BY <1>4, Zenon DEF PlanGovernance, RetryPgEvaluation, Goto
  <2>2. /\ result' \in Results /\ summary' \in Results
        /\ stage' \in {"consistency", "pgRetry", stage}
        /\ tries' \in 0..(PgAttempts + ProofRetries)
    <3>1. CASE SettleGovernance
      BY CountBounds, <3>1, SettleType
    <3>2. CASE stage' \in {stage, "pgRetry"} /\ Keep
                 /\ (tries' = tries \/ (tries < PgAttempts /\ tries' = tries + 1))
      BY CountBounds, <3>2 DEF Keep, DoneTypeOK
    <3>3. QED
      BY <2>1, <3>1, <3>2
  <2>3. QED
    BY <2>1, <2>2 DEF DoneTypeOK, given
<1>6. CASE RolePassRaises
  BY <1>6 DEF RolePassRaises, Keep, Goto, DoneTypeOK, given
<1>7. CASE CrossTicketConsistency
  BY <1>7 DEF CrossTicketConsistency, Conflict, Save, Keep, Goto, DoneTypeOK, given,
              Results
<1>8. CASE DerivePostExecution \/ ResolveViaQuestions
  BY <1>8 DEF DerivePostExecution, ResolveViaQuestions, Becomes, Goto, DoneTypeOK,
              given, Results, Statuses5, Proofs
<1>9. CASE ApproveSetup
  BY <1>9 DEF ApproveSetup, Save, Keep, Goto, DoneTypeOK, given, Results, Approvals
<1>10. CASE RecordRefusal \/ RecordProof
  BY <1>0, <1>10 DEF RecordRefusal, RecordProof, Becomes, Save, Goto, DoneTypeOK, given
<1>11. CASE RunSetupStep
  <2>1. /\ UNCHANGED given /\ UNCHANGED <<verdict, tries, proof, failing, raised>>
        /\ result' \in Results /\ summary' \in Results
        /\ stage' \in {stage, "proof", "done"}
    BY <1>0, <1>11 DEF RunSetupStep, Save, Keep, Goto, DoneTypeOK
  <2>2. steps' = steps \/ steps' = 0 \/ (steps > 1 /\ steps' = steps - 1)
    BY <1>11 DEF RunSetupStep
  <2>3. steps' \in 0..MaxSetup
    BY CountBounds, <2>2 DEF DoneTypeOK
  <2>4. QED
    BY <2>1, <2>3 DEF DoneTypeOK, given
<1>12. CASE RunProof
  BY <1>12 DEF RunProof, Goto, DoneTypeOK, given
<1>13. CASE NegotiateProofRetry
  <2>1. /\ result' \in Results /\ summary' = summary /\ UNCHANGED given
        /\ UNCHANGED <<verdict, steps, raised>>
        /\ stage' \in {"negotiate", "autoRepair", "record"}
        /\ proof' \in {proof, "derived", "edited"} /\ failing' \in BOOLEAN
    BY <1>0, <1>13 DEF NegotiateProofRetry, LeaveNegotiation, Becomes, Goto, DoneTypeOK
  <2>2. tries' = 0 \/ (tries < ProofRetries /\ tries' = tries + 1)
    BY <1>13 DEF NegotiateProofRetry, LeaveNegotiation
  <2>3. tries' \in 0..(PgAttempts + ProofRetries)
    BY CountBounds, <2>2
  <2>4. QED
    BY <2>1, <2>3 DEF DoneTypeOK, given, Proofs
<1>14. CASE AutoRepairProofGap
  BY <1>0, <1>14 DEF AutoRepairProofGap, Becomes, Goto, DoneTypeOK, given, Proofs
<1>15. CASE RunLiveProof
  BY <1>15 DEF RunLiveProof, Becomes, Goto, DoneTypeOK, given, Results
<1>16. CASE UNCHANGED doneVars
  BY <1>16 DEF doneVars, given, DoneTypeOK
<1>17. QED
  BY <1>1, <1>2, <1>3, <1>4, <1>6, <1>7, <1>8, <1>9, <1>10, <1>11, <1>12,
     <1>13, <1>14, <1>15, <1>16 DEF DoneNext

\* The variables have their types (run_plan after its last ticket).
THEOREM DoneTypesKept == DoneSpec => []DoneTypeOK
<1>1. DoneInit => DoneTypeOK
  BY InitInv
<1>2. QED
  BY <1>1, StepType, PTL DEF DoneSpec
---------------------------------------------------------------------------
(* The verdict *)

\* What recording the proof changes of a result, and what it leaves.
LEMMA RecordedFields ==
  ASSUME NEW r \in Results, NEW ran \in BOOLEAN
  PROVE  /\ LET f == ProofFailure(r, ran)
            IN  /\ ~f.done /\ f.proof = "failed" /\ f.status = "failed"
                /\ f.consistent = r.consistent /\ f.approval = r.approval
                /\ f.class = r.class
         /\ LET p == ProofPass(r)
            IN  /\ p.done = r.done /\ p.proof = "passed" /\ p.status = "passed"
                /\ p.consistent = r.consistent /\ p.approval = r.approval
                /\ p.class = r.class
BY DEF ProofFailure, ProofPass, Results

LEMMA StepProof ==
  ASSUME DoneTypeOK, ProofInv, [DoneNext]_doneVars
  PROVE  ProofInv'
<1>1. result \in Results /\ summary \in Results
  BY DEF DoneTypeOK
<1>2. CASE Evaluate
  BY <1>1, <1>2 DEF Evaluate, Save, Goto, given, Results, ProofInv,
                    SummaryKeepsVerdict, Refused, RolePasses
<1>3. CASE DodPass \/ ApplyDodMechanicalGuard \/ RolePassRaises
  BY <1>1, <1>3 DEF DodPass, ApplyDodMechanicalGuard, RolePassRaises, Save, Keep,
       Goto, given, Results, ProofInv, SummaryKeepsVerdict, Refused, RolePasses
<1>4. CASE PlanGovernance \/ RetryPgEvaluation
  BY <1>1, <1>4 DEF PlanGovernance, RetryPgEvaluation, SettleGovernance, Save,
       Keep, Goto, given, Results, ProofInv, SummaryKeepsVerdict, Refused,
       RolePasses
<1>5. CASE CrossTicketConsistency
  BY <1>1, <1>5 DEF CrossTicketConsistency, Conflict, Save, Keep, Goto, given,
       Results, ProofInv, SummaryKeepsVerdict, Refused, RolePasses
<1>6. CASE DerivePostExecution \/ ResolveViaQuestions
  BY <1>1, <1>6 DEF DerivePostExecution, ResolveViaQuestions, Becomes, Goto, given,
       Results, ProofInv, SummaryKeepsVerdict, Refused, RolePasses
<1>7. CASE ApproveSetup
  <2>1. /\ stage = "approval" /\ plan' = plan /\ proof' = proof
        /\ summary' = result' \/ UNCHANGED <<result, summary>>
    BY <1>7 DEF ApproveSetup, Save, Keep, given
  <2>2. CASE UNCHANGED <<result, summary>> /\ stage' \in {"done", "proof"}
             /\ (stage' = "done" => proof = "none")
    BY <2>1, <2>2 DEF ProofInv, SummaryKeepsVerdict, Refused, RolePasses
  <2>3. ASSUME NEW a \in Approvals, result' = [result EXCEPT !.approval = a],
               summary' = result',
               stage' = IF a \in {"declined", "blocked"} THEN "refused" ELSE "setup"
        PROVE  ProofInv'
    <3>1. result'.approval = a
      BY <1>1, <2>3 DEF Results
    <3>2. /\ result'.done = result.done /\ result'.consistent = result.consistent
          /\ result'.proof = result.proof
      BY <1>1, <2>3 DEF Results
    <3>3. /\ summary' = result'
          /\ \/ stage' = "refused" /\ a \in {"declined", "blocked"}
             \/ stage' = "setup" /\ a \notin {"declined", "blocked"}
      BY <2>3
    <3>4. SummaryKeepsVerdict' /\ (Refused(result)' <=> a \in {"declined", "blocked"})
      BY <3>1, <3>3 DEF SummaryKeepsVerdict, Refused
    <3>5. QED
      BY <2>1, <3>2, <3>3, <3>4 DEF ProofInv, RolePasses
  <2>4. QED
    BY <1>7, <2>2, <2>3 DEF ApproveSetup, Save, Keep, Goto, Approvals
<1>8. CASE RecordRefusal \/ RunSetupStep
  <2>1. CASE /\ result' = ProofFailure(result, FALSE) /\ stage' = "done"
             /\ \/ stage = "refused" /\ summary' = summary
                \/ stage = "setup" /\ summary' = result'
             /\ plan' = plan /\ proof' = proof
    <3>1. /\ ~result'.done /\ result'.proof = "failed" /\ result'.status = "failed"
          /\ result'.approval = result.approval
      BY <1>1, <2>1, RecordedFields
    <3>2. SummaryKeepsVerdict' /\ summary'.approval = result'.approval
      BY <2>1, <3>1 DEF ProofInv, SummaryKeepsVerdict, Refused
    <3>3. QED
      BY <2>1, <3>1, <3>2 DEF ProofInv, Refused, RolePasses
  <2>2. CASE /\ UNCHANGED <<result, summary, plan, proof>>
             /\ stage = "setup" /\ stage' \in {"setup", "proof"}
    BY <2>2 DEF ProofInv, SummaryKeepsVerdict, Refused, RolePasses
  <2>3. QED
    BY <1>8, <2>1, <2>2 DEF RecordRefusal, RunSetupStep, Save, Becomes, Keep, Goto,
                            given
<1>9. CASE RunProof \/ AutoRepairProofGap \/ RunLiveProof
  BY <1>1, <1>9 DEF RunProof, AutoRepairProofGap, RunLiveProof, Becomes,
       Goto, given, Results, ProofInv, SummaryKeepsVerdict, Refused, RolePasses
<1>10. CASE NegotiateProofRetry
  BY <1>1, <1>10 DEF NegotiateProofRetry, LeaveNegotiation, Becomes,
       Goto, given, Results, ProofInv, SummaryKeepsVerdict, Refused, RolePasses
<1>11. CASE RecordProof
  <2>1. /\ stage = "record" /\ stage' = "live"
        /\ plan' = plan /\ proof' = proof
        /\ \/ result' = ProofFailure(result, TRUE) /\ summary' = result'
           \/ result' = ProofPass(result) /\ summary' = summary
    BY <1>11 DEF RecordProof, Save, Becomes, Goto, given
  <2>2. /\ result'.approval = result.approval /\ result'.status = result'.proof
        /\ result'.consistent = result.consistent
        /\ \/ ~result'.done /\ result'.proof = "failed" /\ summary' = result'
           \/ /\ result'.done = result.done /\ result'.proof = "passed"
              /\ summary' = summary
    <3>1. CASE result' = ProofFailure(result, TRUE) /\ summary' = result'
      BY <1>1, <3>1, RecordedFields
    <3>2. CASE result' = ProofPass(result) /\ summary' = summary
      <4>1. /\ result'.done = result.done /\ result'.proof = "passed"
            /\ result'.status = "passed"
            /\ result'.consistent = result.consistent
            /\ result'.approval = result.approval
        BY <1>1, <3>2, RecordedFields, Zenon
      <4>2. QED
        BY <3>2, <4>1, Zenon
    <3>3. QED
      BY <2>1, <3>1, <3>2
  <2>3. SummaryKeepsVerdict'
    BY <2>1, <2>2 DEF ProofInv, SummaryKeepsVerdict, Refused
  <2>4. QED
    BY <2>1, <2>2, <2>3 DEF ProofInv, Refused, RolePasses
<1>12. CASE UNCHANGED doneVars
  BY <1>12 DEF doneVars, given, ProofInv, SummaryKeepsVerdict, Refused
<1>13. QED
  BY <1>2, <1>3, <1>4, <1>5, <1>6, <1>7, <1>8, <1>9, <1>10, <1>11, <1>12 DEF DoneNext

LEMMA SameFacts ==
  ASSUME [DoneNext]_doneVars
  PROVE  UNCHANGED given /\ Met' = Met /\ Lost' = Lost
<1>1. UNCHANGED given
  <2>1. CASE \/ Evaluate \/ DodPass \/ ApplyDodMechanicalGuard \/ PlanGovernance
             \/ RetryPgEvaluation \/ RolePassRaises \/ CrossTicketConsistency
             \/ DerivePostExecution \/ ResolveViaQuestions
    BY <2>1 DEF Evaluate, DodPass, ApplyDodMechanicalGuard, PlanGovernance,
       RetryPgEvaluation, RolePassRaises, CrossTicketConsistency,
       DerivePostExecution, ResolveViaQuestions
  <2>2. CASE \/ ApproveSetup \/ RecordRefusal \/ RunSetupStep \/ RunProof
             \/ NegotiateProofRetry \/ AutoRepairProofGap \/ RecordProof
             \/ RunLiveProof
    BY <2>2 DEF ApproveSetup, RecordRefusal, RunSetupStep, RunProof,
       NegotiateProofRetry, AutoRepairProofGap, RecordProof, RunLiveProof
  <2>3. CASE UNCHANGED doneVars
    BY <2>3 DEF doneVars, given
  <2>4. QED
    BY <2>1, <2>2, <2>3 DEF DoneNext
<1>2. QED
  BY <1>1, Zenon DEF given, Met, FinalLedger, DefinitionOfDoneMet, Lost

\* Behind the role passes nothing raises the verdict, and what lowers it has a
\* cause; the class of the role passes stays.
LEMMA StepVerdict ==
  ASSUME DoneTypeOK, ProofInv, DoneNext,
         stage \notin {"evaluate"} \cup RolePasses
  PROVE  /\ stage' \notin {"evaluate"} \cup RolePasses
         /\ raised' = raised /\ result'.class = result.class
         /\ result'.done => result.done
         /\ ~result.consistent => ~result'.consistent
         /\ result.proof = "failed" => result'.proof = "failed"
         /\ ~result'.done => \/ ~result.done
                             \/ ~result'.consistent \/ result'.proof = "failed"
<1>1. result \in Results
  BY DEF DoneTypeOK
<1>2. CASE CrossTicketConsistency
  BY <1>1, <1>2 DEF CrossTicketConsistency, Conflict, Save, Keep, Goto, Results,
                    RolePasses
<1>3. CASE DerivePostExecution \/ ResolveViaQuestions \/ RunProof
  BY <1>1, <1>3 DEF DerivePostExecution, ResolveViaQuestions, RunProof, Becomes,
                    Goto, Results, RolePasses
<1>4. CASE ApproveSetup
  BY <1>1, <1>4 DEF ApproveSetup, Save, Keep, Goto, Results, RolePasses
<1>5. CASE NegotiateProofRetry \/ AutoRepairProofGap
  BY <1>1, <1>5 DEF NegotiateProofRetry, LeaveNegotiation, AutoRepairProofGap,
                    Becomes, Goto, Results, RolePasses
<1>6. CASE RunLiveProof
  BY <1>1, <1>6 DEF RunLiveProof, Becomes, Goto, Results, RolePasses
<1>7. CASE RecordRefusal \/ RunSetupStep \/ RecordProof
  <2>1. /\ stage' \in {"done", "live", "setup", "proof"} /\ raised' = raised
        /\ \/ result' = result
           \/ \E ran \in BOOLEAN : result' = ProofFailure(result, ran)
           \/ result' = ProofPass(result) /\ stage = "record"
    BY <1>7 DEF RecordRefusal, RunSetupStep, RecordProof, Save, Becomes, Keep, Goto
  <2>2. stage \in {"refused", "setup", "record"} => result.proof = "unset"
    BY DEF ProofInv
  <2>3. stage \in {"refused", "setup", "record"}
    BY <1>7 DEF RecordRefusal, RunSetupStep, RecordProof
  <2>4. CASE result' = result
    BY <2>1, <2>4 DEF RolePasses
  <2>5. CASE \E ran \in BOOLEAN : result' = ProofFailure(result, ran)
    BY <1>1, <2>1, <2>5, RecordedFields DEF RolePasses
  <2>6. CASE result' = ProofPass(result)
    <3>1. /\ result'.done = result.done /\ result'.class = result.class
          /\ result'.consistent = result.consistent
      BY <1>1, <2>6, RecordedFields, Zenon
    <3>2. QED
      BY <2>1, <2>2, <2>3, <3>1 DEF RolePasses
  <2>7. QED
    BY <2>1, <2>4, <2>5, <2>6
<1>8. QED
  BY <1>2, <1>3, <1>4, <1>5, <1>6, <1>7 DEF DoneNext, RolePasses, Evaluate, DodPass,
     ApplyDodMechanicalGuard, PlanGovernance, RetryPgEvaluation, RolePassRaises

LEMMA StepGuard ==
  ASSUME DoneTypeOK, ProofInv, CauseInv, GuardInv, [DoneNext]_doneVars
  PROVE  GuardInv'
<1>1. result \in Results /\ UNCHANGED given /\ Lost' = Lost
  BY SameFacts DEF DoneTypeOK
<1>2. CASE Evaluate
  BY <1>2 DEF Evaluate, Goto, given, GuardInv
<1>3. CASE DodPass
  BY <1>3 DEF DodPass, Goto, GuardInv
<1>4. CASE ApplyDodMechanicalGuard
  <2>1. ~Lost \/ ~result'.done
    BY <1>1, <1>4 DEF ApplyDodMechanicalGuard, GuardReasons, Lost, Save, Keep, Results
  <2>2. QED
    BY <1>1, <2>1 DEF GuardInv
<1>5. CASE PlanGovernance \/ RetryPgEvaluation
  <2>1. /\ result'.done = result.done /\ raised' = raised
        /\ stage \notin {"evaluate", "dod", "guard"}
    BY <1>1, <1>5 DEF PlanGovernance, RetryPgEvaluation, SettleGovernance, Save,
                      Keep, Results
  <2>2. QED
    BY <1>1, <2>1 DEF GuardInv, given
<1>6. CASE RolePassRaises
  BY <1>6 DEF RolePassRaises, GuardInv
<1>7. CASE DoneNext /\ stage \notin {"evaluate"} \cup RolePasses
  <2>1. raised' = raised /\ (result'.done => result.done)
    BY <1>7, StepVerdict
  <2>2. QED
    BY <1>1, <1>7, <2>1 DEF GuardInv, given, RolePasses
<1>8. CASE UNCHANGED doneVars
  BY <1>1, <1>8 DEF doneVars, GuardInv, given
<1>9. QED
  BY <1>2, <1>3, <1>4, <1>5, <1>6, <1>7, <1>8 DEF DoneNext, RolePasses,
     CrossTicketConsistency, DerivePostExecution, ResolveViaQuestions,
     ApproveSetup, RecordRefusal, RunSetupStep, RunProof, NegotiateProofRetry,
     AutoRepairProofGap, RecordProof, RunLiveProof

LEMMA StepCause ==
  ASSUME DoneTypeOK, ProofInv, CauseInv, [DoneNext]_doneVars
  PROVE  CauseInv'
<1>1. result \in Results /\ UNCHANGED given /\ Lost' = Lost /\ Met' = Met
  BY SameFacts DEF DoneTypeOK
<1>2. CASE Evaluate
  <2>1. /\ result'.done = Met /\ result'.class = "" /\ verdict' = ""
        /\ plan.proof # "gap" => result'.status # "unresolved_gap"
        /\ stage' = IF opts.roles THEN "dod" ELSE "consistency"
    BY <1>1, <1>2 DEF Evaluate, Save, Goto, Results, Met, CauseInv,
                      InitialProofResolution
  <2>2. QED
    BY <1>1, <2>1 DEF CauseInv, given, RolePasses
<1>3. CASE DodPass
  BY <1>1, <1>3 DEF DodPass, Save, Keep, Goto, Results, CauseInv, given, RolePasses
<1>4. CASE ApplyDodMechanicalGuard
  BY <1>1, <1>4 DEF ApplyDodMechanicalGuard, GuardReasons, Lost, Save, Keep, Goto,
                    Results, CauseInv, ProofInv, given, RolePasses
<1>5. CASE PlanGovernance \/ RetryPgEvaluation
  BY <1>1, <1>5 DEF PlanGovernance, RetryPgEvaluation, SettleGovernance, Save,
                    Keep, Goto, Results, CauseInv, given, RolePasses
<1>6. CASE RolePassRaises
  BY <1>1, <1>6 DEF RolePassRaises, Keep, Goto, CauseInv, given, RolePasses
<1>7. CASE DoneNext /\ stage \notin {"evaluate"} \cup RolePasses
  <2>1. /\ stage' \notin {"evaluate"} \cup RolePasses
        /\ result'.class = result.class
        /\ ~result.consistent => ~result'.consistent
        /\ result.proof = "failed" => result'.proof = "failed"
        /\ ~result'.done => \/ ~result.done
                            \/ ~result'.consistent \/ result'.proof = "failed"
    BY <1>7, StepVerdict
  <2>2. QED
    BY <1>1, <1>7, <2>1 DEF CauseInv, given, RolePasses
<1>8. CASE UNCHANGED doneVars
  BY <1>1, <1>8 DEF doneVars, CauseInv, given
<1>9. QED
  BY <1>2, <1>3, <1>4, <1>5, <1>6, <1>7, <1>8 DEF DoneNext, RolePasses,
     CrossTicketConsistency, DerivePostExecution, ResolveViaQuestions,
     ApproveSetup, RecordRefusal, RunSetupStep, RunProof, NegotiateProofRetry,
     AutoRepairProofGap, RecordProof, RunLiveProof

\* A run reported done has its proof run and passed, no conflicting defaults
\* and, unless a role pass raised, no lost verify_cmd, and its summary agrees
\* (run_plan after its last ticket, _record_proof_failure,
\* _apply_dod_mechanical_guard).
THEOREM DoneNeedsItsProof == DoneSpec => []DoneIsProved
<1> DEFINE IInv == DoneTypeOK /\ ProofInv /\ GuardInv /\ CauseInv
<1>1. DoneInit => IInv
  BY InitInv
<1>2. IInv /\ [DoneNext]_doneVars => IInv'
  BY StepType, StepProof, StepGuard, StepCause
<1>3. IInv => DoneIsProved
  <2> SUFFICES ASSUME IInv, Finished PROVE DoneIsProved
    BY DEF DoneIsProved
  <2>1. result \in Results /\ outcome \in [Tickets -> Outcomes]
    BY DEF DoneTypeOK
  <2>2. \A t \in Tickets :
          outcome[t].verify \in {"passed", "failed", "skipped", "unspecified"}
    BY <2>1 DEF Outcomes
  <2>3. result.proof \in {"unset", "passed", "failed"}
    BY <2>1 DEF Results
  <2>4. Refused(summary) => ~result.done
    BY DEF Finished, ProofInv, Refused
  <2>5. QED
    BY <2>2, <2>3, <2>4 DEF Finished, ProofInv, GuardInv, DoneIsProved, Lost
<1>4. QED
  BY <1>1, <1>2, <1>3, PTL DEF DoneSpec

\* A run that the ledger or the LLM calls done and whose plan came with its
\* proof is refused only for a lost verify_cmd, a conflict or a failed proof
\* (run_plan after its last ticket).
THEOREM GatesHaveCauses == DoneSpec => []NoGateWithoutCause
<1> DEFINE IInv == DoneTypeOK /\ ProofInv /\ CauseInv
<1>1. DoneInit => IInv
  BY InitInv
<1>2. IInv /\ [DoneNext]_doneVars => IInv'
  BY StepType, StepProof, StepCause
<1>3. IInv => NoGateWithoutCause
  BY DEF CauseInv, NoGateWithoutCause, Finished, Met, Lost
<1>4. QED
  BY <1>1, <1>2, <1>3, PTL DEF DoneSpec

=============================================================================
