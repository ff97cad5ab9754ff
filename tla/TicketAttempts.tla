--------------------------- MODULE TicketAttempts ---------------------------
(***************************************************************************)
(* One ticket after another, as _run_ticket_with_retries executes them:    *)
(* the coder's attempts, governance of what it changed, the resets between *)
(* attempts, the auto-repair pass, the ungoverned commit and the           *)
(* last-resort split into children, on a git repository with its branch,   *)
(* index and working tree.                                                 *)
(*                                                                         *)
(* A file's content is who wrote it: Base, Absent, or the ticket and the   *)
(* coder call that wrote it last.  What the coder writes, what governance  *)
(* and the checks decide, and when either fails to run, is open.           *)
(***************************************************************************)
EXTENDS Integers, Sequences, FiniteSets

CONSTANTS
  Queue,         \* the tickets the run loop hands over, in order
  Children,      \* the children a last-resort split makes of each, or <<>>
  Files,         \* the files of the repository
  Tracked,       \* those the branch starts with
  Scope,         \* the files each ticket and child may change
  Backends,      \* subset of {"api", "cli"}
  AutoRepair,    \* the values of auto_repair to consider
  MaxRetries,    \* max_retries
  Coders,        \* the coders to consider: their faults ("error": it fails,
                 \* "scope": it strays), whether a CLI agent commits by
                 \* itself, and whether it may write what is there already
  Base, Absent, NoTicket

Elements(s) == {s[k] : k \in DOMAIN s}
ChildTickets == UNION {Elements(Children[t]) : t \in Elements(Queue)}
Tickets == Elements(Queue) \cup ChildTickets

ASSUME AttemptConstants ==
  /\ Queue \in Seq(Elements(Queue))
  /\ Children \in [Tickets -> Seq(ChildTickets)]
  /\ Elements(Queue) \cap ChildTickets = {} /\ NoTicket \notin Tickets
  /\ Tracked \subseteq Files
  /\ Scope \in [Tickets -> SUBSET Files]
  /\ Backends \subseteq {"api", "cli"} /\ AutoRepair \subseteq BOOLEAN
  /\ MaxRetries \in Nat
  /\ Coders \subseteq [faults : SUBSET {"error", "scope"},
                       commits : BOOLEAN, same : BOOLEAN]
  /\ Base # Absent

VARIABLES
  repo,       \* the repository: branch, index and working tree
  backend,    \* the coder's kind, fixed for the run
  autoRepair, \* the auto_repair option, fixed for the run
  coder,      \* what the coder may do, fixed for the run
  queue,      \* tickets still to come
  ticket,     \* the ticket being executed
  parent,     \* the ticket whose last-resort split it belongs to
  todo,       \* the children still to come
  preSplit,   \* the length of the branch before the split
  call,       \* the coder call this is, for the ticket
  origin,     \* what sent the ticket into auto-repair
  stage,      \* where the runner stands
  verdict,    \* disposition of the ticket
  start,      \* history: the length of the branch when the ticket began
  approved    \* history: the staged contents governance approved in it

options == <<backend, autoRepair, coder>>
split   == <<parent, todo, preSplit>>
vars == <<repo, options, queue, ticket, split, call, origin, stage, verdict,
          start, approved>>

---------------------------------------------------------------------------
(* Git *)

Tip(r) == r.branch[Len(r.branch)].tree
Staged(r) == {f \in Files : r.index[f] # Tip(r)[f]}
Untracked(r) == {f \in Files : r.index[f] = Absent /\ r.tree[f] # Absent}
Dirty(r) == Staged(r) \cup {f \in Files : r.tree[f] # r.index[f]}

\* Mutant: nothing is staged.
Bug_Add(r, W) == r

Add(r, W) == [r EXCEPT !.index = [f \in Files |-> IF f \in W THEN r.tree[f]
                                                  ELSE @[f]]]

\* git commit refuses when nothing is staged.
Commit(r, t) ==
  IF Staged(r) = {} THEN r
  ELSE [r EXCEPT !.branch = Append(@, [by |-> t, tree |-> r.index])]

\* _git_reset_changes: unstage, revert tracked files, clean untracked ones.
ResetChanges(r) == [r EXCEPT !.index = Tip(r), !.tree = Tip(r)]

\* Mutant: the commits since then stay on the branch.
Bug_ResetHardTo(r, n) == ResetChanges(r)

\* _git_reset_hard_to: untracked files stay where they are.
ResetHardTo(r, n) ==
  LET to == r.branch[n].tree IN
  [branch |-> SubSeq(r.branch, 1, n),
   index  |-> to,
   tree   |-> [f \in Files |-> IF f \in Untracked(r) /\ to[f] = Absent
                               THEN r.tree[f] ELSE to[f]]]

\* _git_changed_files: what is dirty, less the files that were untracked
\* before the call, and what was committed since.
Changed(r, before) ==
  (Dirty(r) \ (Untracked(r) \cap Untracked(before)))
  \cup {f \in Files : Tip(r)[f] # Tip(before)[f]}

---------------------------------------------------------------------------
(* The stages of a ticket *)

\* Mutant: the repair pass is taken for one more attempt.
Bug_Mode == CASE call <= MaxRetries + 2 -> "attempt"
              [] call = MaxRetries + 3  -> "repair"
              [] OTHER                  -> "final"

\* After max_retries + 1 attempts comes auto-repair, then one last call
\* whose result is committed ungoverned.
Mode == CASE call <= MaxRetries + 1 -> "attempt"
          [] call = MaxRetries + 2  -> "repair"
          [] OTHER                  -> "final"

LastAttempt == Mode = "attempt" /\ call > MaxRetries

\* Mutant: attempts are not counted.
Bug_CallAgain == stage' = "call" /\ UNCHANGED <<call, verdict>>

CallAgain == stage' = "call" /\ call' = call + 1 /\ UNCHANGED verdict
Return(d) == stage' = "returned" /\ verdict' = d /\ UNCHANGED call

\* _attempt_auto_repair came back with None.
NotRepaired == /\ UNCHANGED origin
               /\ IF origin = "error" THEN Return("FAIL") ELSE CallAgain

Init ==
  LET first == [f \in Files |-> IF f \in Tracked THEN Base ELSE Absent] IN
  /\ repo = [branch |-> <<[by |-> NoTicket, tree |-> first]>>,
             index |-> first, tree |-> first]
  /\ backend \in Backends /\ autoRepair \in AutoRepair /\ coder \in Coders
  /\ queue = Queue /\ ticket = NoTicket
  /\ parent = NoTicket /\ todo = <<>> /\ preSplit = 1
  /\ call = 1 /\ origin = "none" /\ stage = "idle" /\ verdict = "PENDING"
  /\ start = 1 /\ approved = {}

TakeTicket ==
  /\ stage = "idle" /\ queue # <<>>
  /\ ticket' = Head(queue) /\ queue' = Tail(queue)
  /\ call' = 1 /\ origin' = "none" /\ stage' = "call" /\ verdict' = "PENDING"
  /\ start' = Len(repo.branch) /\ approved' = {}
  /\ UNCHANGED <<repo, options, split>>

---------------------------------------------------------------------------
(* The coder: _execute_ticket, and git add of what it changed *)

\* The working tree after the coder wrote the files W, those in S with the
\* content they have on the branch.
Write(r, W, S) ==
  [r EXCEPT !.tree = [f \in Files |-> IF f \in W \cap S THEN Tip(r)[f]
                                      ELSE IF f \in W THEN <<ticket, call>>
                                      ELSE @[f]]]

CoderWrites(W, S) ==
  /\ W \subseteq Files
  /\ S \subseteq {f \in W : coder.same /\ Tip(repo)[f] # Absent}
  /\ \A f \in W \ S : Tip(repo)[f] # <<ticket, call>>

CoderDone(r, W) == stage' = "coded" /\ repo' = Add(r, W)
CoderFailed(r)  == stage' = "errored" /\ repo' = r

\* FILE blocks are written one by one until one is out of scope.
ApiCall ==
  /\ stage = "call" /\ backend = "api"
  /\ \E W \in SUBSET Scope[ticket], S \in SUBSET Files :
       /\ CoderWrites(W, S)
       /\ LET r == Write(repo, W, S) IN
          \/ W # {} /\ CoderDone(r, W)
          \/ W = {} /\ CoderFailed(r)
          \/ "scope" \in coder.faults /\ CoderFailed(r)
  /\ UNCHANGED <<options, queue, ticket, split, call, origin, verdict, start,
                 approved>>

\* The agent works in the repository itself and may commit there; then the
\* runner works out what it changed and checks the scope.
CliCall ==
  /\ stage = "call" /\ backend = "cli"
  /\ \E W, S \in SUBSET Files, commits \in BOOLEAN :
       /\ CoderWrites(W, S)
       /\ W \subseteq Scope[ticket] \/ "scope" \in coder.faults
       /\ commits => coder.commits
       /\ LET wrote == Write(repo, W, S)
              r     == IF commits THEN Commit(Add(wrote, Files), ticket) ELSE wrote
              files == Changed(r, repo)
          IN  \/ "error" \in coder.faults /\ CoderFailed(r)
              \/ /\ ~(files \subseteq Scope[ticket])
                 /\ CoderFailed(ResetHardTo(r, Len(repo.branch)))
              \/ files = {} /\ CoderFailed(r)
              \/ /\ files # {} /\ files \subseteq Scope[ticket]
                 /\ CoderDone(r, files)
  /\ UNCHANGED <<options, queue, ticket, split, call, origin, verdict, start,
                 approved>>

\* except CloudCoreError: the next attempt starts from what is there.
CoderError ==
  /\ stage = "errored"
  /\ \/ /\ Mode = "attempt" /\ (~LastAttempt \/ autoRepair)
        /\ origin' = IF LastAttempt THEN "error" ELSE origin
        /\ CallAgain
     \/ /\ LastAttempt /\ ~autoRepair
        /\ Return("FAIL") /\ UNCHANGED origin
     \/ Mode = "repair" /\ NotRepaired
     \/ Mode = "final" /\ Return("FAIL") /\ UNCHANGED origin
  /\ UNCHANGED <<repo, options, queue, ticket, split, start, approved>>

---------------------------------------------------------------------------
(* Governance and the checks after it *)

\* Governance looks at the staged diff.
Approve ==
  /\ stage = "coded" /\ Mode # "final"
  /\ approved' = approved \cup {<<f, repo.index[f]>> : f \in Staged(repo)}
  /\ stage' = "approved"
  /\ UNCHANGED <<repo, options, queue, ticket, split, call, origin, verdict, start>>

\* except GovernanceError
GovernanceFails ==
  /\ stage = "coded" /\ Mode # "final"
  /\ repo' = ResetChanges(repo)
  /\ \/ Mode = "attempt" /\ ~LastAttempt /\ CallAgain /\ UNCHANGED origin
     \/ LastAttempt /\ Return("FAIL") /\ UNCHANGED origin
     \/ Mode = "repair" /\ NotRepaired
  /\ UNCHANGED <<options, queue, ticket, split, start, approved>>

CommitUngoverned ==
  /\ repo' = Commit(repo, ticket)
  /\ Return("CODED_UNGOVERNED")
  /\ UNCHANGED <<options, queue, ticket, split, origin, start, approved>>

Reject ==
  /\ stage = "coded" /\ Mode # "final"
  /\ \/ /\ \/ /\ Mode = "attempt" /\ (~LastAttempt \/ autoRepair)
              /\ origin' = IF LastAttempt THEN "findings" ELSE origin
              /\ CallAgain
           \/ Mode = "repair" /\ NotRepaired
        /\ repo' = ResetChanges(repo)
        /\ UNCHANGED <<options, queue, ticket, split, start, approved>>
     \/ LastAttempt /\ ~autoRepair /\ CommitUngoverned

\* Mutants of the last commit: reported as passed, and as failed.
Bug_CommitFinalPasses ==
  /\ stage = "coded" /\ Mode = "final"
  /\ repo' = Commit(repo, ticket) /\ Return("PASS")
  /\ UNCHANGED <<options, queue, ticket, split, origin, start, approved>>
Bug_CommitFinalFails ==
  /\ stage = "coded" /\ Mode = "final"
  /\ repo' = Commit(repo, ticket) /\ Return("FAIL")
  /\ UNCHANGED <<options, queue, ticket, split, origin, start, approved>>

CommitFinal == stage = "coded" /\ Mode = "final" /\ CommitUngoverned

\* Post-checks, memory enforcement and verify_cmd; auto-repair runs the
\* post-checks only.
ChecksPass ==
  /\ stage = "approved"
  /\ repo' = Commit(repo, ticket)
  /\ Return("PASS")
  /\ UNCHANGED <<options, queue, ticket, split, origin, start, approved>>

ChecksFail ==
  /\ stage = "approved"
  /\ \/ /\ \/ Mode = "attempt" /\ ~LastAttempt /\ CallAgain /\ UNCHANGED origin
           \/ Mode = "repair" /\ NotRepaired
        /\ repo' = ResetChanges(repo)
        /\ UNCHANGED <<options, queue, ticket, split, start, approved>>
     \/ LastAttempt /\ CommitUngoverned

---------------------------------------------------------------------------
(* The last-resort split *)

\* Mutant: the branch is remembered from the beginning of the run.
Bug_RevparseHead == 1

RevparseHead == Len(repo.branch)

StartChild(children) ==
  /\ ticket' = Head(children) /\ todo' = Tail(children)
  /\ call' = 1 /\ origin' = "none" /\ stage' = "call"

\* The prompt was too large in at least two attempts, governance rejected
\* the last one, and the coder proposes more than one child.
SplitLastResort ==
  /\ stage = "coded" /\ LastAttempt /\ ~autoRepair
  /\ MaxRetries >= 1 /\ parent = NoTicket /\ Children[ticket] # <<>>
  /\ preSplit' = RevparseHead
  /\ repo' = ResetChanges(repo)
  /\ parent' = ticket
  /\ StartChild(Children[ticket])
  /\ UNCHANGED <<options, queue, verdict, start, approved>>

ChildPasses ==
  /\ stage = "returned" /\ parent # NoTicket /\ verdict = "PASS"
  /\ \/ todo # <<>> /\ StartChild(todo) /\ UNCHANGED <<parent, verdict>>
     \/ /\ todo = <<>>
        /\ ticket' = parent /\ parent' = NoTicket
        /\ UNCHANGED <<todo, call, origin, stage, verdict>>
  /\ UNCHANGED <<repo, options, queue, preSplit, start, approved>>

ChildFails ==
  /\ stage = "returned" /\ parent # NoTicket /\ verdict # "PASS"
  /\ repo' = ResetHardTo(repo, preSplit)
  /\ ticket' = parent /\ parent' = NoTicket /\ todo' = <<>>
  /\ verdict' = "FAIL"
  /\ UNCHANGED <<options, queue, preSplit, call, origin, stage, start, approved>>

Finish ==
  /\ stage = "returned" /\ parent = NoTicket
  /\ stage' = "idle" /\ ticket' = NoTicket
  /\ UNCHANGED <<repo, options, queue, split, call, origin, verdict, start,
                 approved>>

---------------------------------------------------------------------------
Next == \/ TakeTicket \/ ApiCall \/ CliCall \/ CoderError
        \/ Approve \/ GovernanceFails \/ Reject \/ ChecksPass \/ ChecksFail
        \/ CommitFinal \/ SplitLastResort \/ ChildPasses \/ ChildFails \/ Finish

Spec == Init /\ [][Next]_vars

\* One sequential process, and a time-out on every call it makes.
FairSpec == Spec /\ WF_vars(Next)
---------------------------------------------------------------------------
(* Properties *)

Contents == {Base, Absent} \cup (Tickets \X (1..MaxRetries + 3))
Trees == [Files -> Contents]

\* The repository is well formed and the runner stays within its stages and
\* its number of coder calls.
TypeOK ==
  /\ repo \in [branch : Seq([by : Tickets \cup {NoTicket}, tree : Trees]),
               index : Trees, tree : Trees]
  /\ queue \in Seq(Tickets) /\ todo \in Seq(ChildTickets)
  /\ {ticket, parent} \subseteq Tickets \cup {NoTicket}
  /\ preSplit \in 1..Len(repo.branch) /\ start \in 1..Len(repo.branch)
  /\ call \in 1..MaxRetries + 3
  /\ origin \in {"none", "error", "findings"}
  /\ stage \in {"idle", "call", "coded", "errored", "approved", "returned"}
  /\ verdict \in {"PENDING", "PASS", "CODED_UNGOVERNED", "FAIL"}
  /\ backend \in Backends /\ autoRepair \in AutoRepair /\ coder \in Coders
  /\ approved \subseteq Files \X Contents

Returned(d) == stage = "returned" /\ parent = NoTicket /\ verdict = d

\* All that a ticket that passed put on the branch was staged when governance
\* approved it, whatever attempts, repairs and resets came before.
EveryPassIsGoverned ==
  Returned("PASS") =>
    LET before == repo.branch[start].tree
        now    == Tip(repo)
    IN  \A f \in Files : now[f] # before[f] => <<f, now[f]>> \in approved

\* This holds as long as commits are the runner's alone.
PassIsGoverned == ~coder.commits => EveryPassIsGoverned

\* A ticket that failed left nothing on the branch, its children neither, as
\* long as commits are the runner's alone.
FailLeavesBranch ==
  Returned("FAIL") /\ ~coder.commits => Len(repo.branch) = start

\* A ticket reported as passed or coded has a commit.
CodedIsCommitted ==
  Returned("PASS") \/ Returned("CODED_UNGOVERNED") => Len(repo.branch) > start

\* The checks of a ticket that passed, verify_cmd above all, ran on what was
\* committed: nothing else lies in the working tree.
VerifiedIsCommitted == Returned("PASS") => repo.tree = Tip(repo)

\* With a coder that writes something new, what is reported is on the branch;
\* with one that neither fails nor strays, what is on the branch was checked.
CommitsAreChecked ==
  /\ ~coder.same => CodedIsCommitted
  /\ coder.faults = {} => VerifiedIsCommitted

\* While a ticket is executed, no reset reaches back past its beginning: the
\* commits of the tickets before it stay.
EarlierWorkKept ==
  [][stage # "idle" => /\ Len(repo'.branch) >= start
                       /\ SubSeq(repo'.branch, 1, start)
                            = SubSeq(repo.branch, 1, start)]_vars

\* Every ticket handed over comes back: retries, repair and children end.
AllReturn == <>(queue = <<>> /\ stage = "idle")

---------------------------------------------------------------------------
(* The contract with the run loop *)

LogUpTo(branch, n) == {branch[k].by : k \in 2..n}

Outcome == INSTANCE TicketOutcome WITH
  ChildrenOf    <- [t \in Tickets |-> Elements(Children[t])],
  CommitMayFail <- \E c \in Coders : c.same,
  stage    <- IF parent # NoTicket THEN "children"
              ELSE IF stage \in {"idle", "returned"} THEN stage ELSE "exec",
  current  <- IF parent # NoTicket THEN parent ELSE ticket,
  log      <- LogUpTo(repo.branch, Len(repo.branch)),
  preSplit <- IF parent # NoTicket THEN LogUpTo(repo.branch, preSplit) ELSE {},
  verdict  <- IF stage = "returned" /\ parent = NoTicket THEN verdict
              ELSE "PENDING"

\* The attempts implement what the run loop relies on, as long as commits are
\* the runner's alone.
KeepsContract ==
  /\ ~coder.commits => Outcome!Init
  /\ [][~coder.commits => [Outcome!Next]_(Outcome!vars)]_vars
=============================================================================
