------------------------ MODULE TicketAttemptsProofs ------------------------
(***************************************************************************)
(* Theorems about TicketAttempts for every queue of tickets, every split,  *)
(* every scope and every number of retries.                                *)
(***************************************************************************)
EXTENDS TicketAttempts, SequenceTheorems, TLAPS

Commits == [by : Tickets \cup {NoTicket}, tree : Trees]
Repos == [branch : Seq(Commits), index : Trees, tree : Trees]

\* The runner's bookkeeping of tickets and of the branch before a split.
Bookkeeping ==
  /\ stage # "idle" => ticket # NoTicket
  /\ stage = "idle" => parent = NoTicket
  /\ parent # NoTicket => start <= preSplit

\* A failed ticket has no commit.
FailedLeftNothing == Returned("FAIL") => Len(repo.branch) = start

\* What the branch owes to the ticket being executed, when commits are the
\* runner's alone: nothing until the ticket itself is committed or split.
BranchInv ==
  /\ parent # NoTicket => preSplit = start
  /\ parent = NoTicket /\ stage \notin {"idle", "returned"}
       => Len(repo.branch) = start
  /\ FailedLeftNothing

\* Unless the last thing committed was ungoverned, what the ticket changed on
\* the branch was approved, and so was what is about to be committed.
GovernedInv ==
  /\ stage # "idle" /\ (stage = "returned" => verdict = "PASS") =>
       \A f \in Files : Tip(repo)[f] # repo.branch[start].tree[f]
                          => <<f, Tip(repo)[f]>> \in approved
  /\ stage = "approved" =>
       \A f \in Staged(repo) : <<f, repo.index[f]>> \in approved

---------------------------------------------------------------------------
(* The git operations *)

LEMMA TipType ==
  ASSUME NEW r \in Repos, Len(r.branch) >= 1
  PROVE  /\ Len(r.branch) \in Nat
         /\ Tip(r) \in Trees
<1>1. r.branch \in Seq(Commits)
  BY DEF Repos
<1>2. Len(r.branch) \in Nat /\ r.branch[Len(r.branch)] \in Commits
  BY <1>1, ElementOfSeq, LenProperties
<1>3. QED
  BY <1>2 DEF Tip, Commits

LEMMA AddType ==
  ASSUME NEW r \in Repos, NEW W
  PROVE  Add(r, W) \in Repos /\ Add(r, W).branch = r.branch
<1>1. [f \in Files |-> IF f \in W THEN r.tree[f] ELSE r.index[f]] \in Trees
  BY DEF Repos, Trees
<1>2. QED
  BY <1>1 DEF Add, Repos

LEMMA WriteType ==
  ASSUME NEW r \in Repos, Len(r.branch) >= 1, NEW W, NEW S,
         ticket \in Tickets, call \in 1..MaxRetries + 3
  PROVE  Write(r, W, S) \in Repos /\ Write(r, W, S).branch = r.branch
<1>1. Tip(r) \in Trees
  BY TipType
<1>2. <<ticket, call>> \in Contents
  BY DEF Contents
<1>3. [f \in Files |-> IF f \in W \cap S THEN Tip(r)[f]
                       ELSE IF f \in W THEN <<ticket, call>>
                       ELSE r.tree[f]] \in Trees
  BY <1>1, <1>2 DEF Repos, Trees
<1>4. QED
  BY <1>3 DEF Write, Repos

LEMMA ResetChangesType ==
  ASSUME NEW r \in Repos, Len(r.branch) >= 1
  PROVE  ResetChanges(r) \in Repos /\ ResetChanges(r).branch = r.branch
  BY TipType DEF ResetChanges, Repos

\* A commit adds at most one entry, whose tree is the index.
LEMMA CommitType ==
  ASSUME NEW r \in Repos, Len(r.branch) >= 1, NEW t \in Tickets
  PROVE  /\ Commit(r, t) \in Repos
         /\ Len(Commit(r, t).branch) \in {Len(r.branch), Len(r.branch) + 1}
         /\ \A i \in 1..Len(r.branch) : Commit(r, t).branch[i] = r.branch[i]
         /\ Tip(Commit(r, t)) = IF Staged(r) = {} THEN Tip(r) ELSE r.index
<1> DEFINE c == [by |-> t, tree |-> r.index]
<1>1. r.branch \in Seq(Commits) /\ c \in Commits /\ Len(r.branch) \in Nat
  BY LenProperties DEF Repos, Commits
<1>2. /\ Append(r.branch, c) \in Seq(Commits)
      /\ Len(Append(r.branch, c)) = Len(r.branch) + 1
      /\ \A i \in 1..Len(r.branch) : Append(r.branch, c)[i] = r.branch[i]
      /\ Append(r.branch, c)[Len(r.branch) + 1] = c
  BY <1>1, AppendProperties
<1>3. CASE Staged(r) = {}
  BY <1>1, <1>3 DEF Commit
<1>4. CASE Staged(r) # {}
  <2>1. Commit(r, t) = [r EXCEPT !.branch = Append(@, c)]
    BY <1>4 DEF Commit
  <2>2. Commit(r, t) \in Repos /\ Commit(r, t).branch = Append(r.branch, c)
    BY <1>2, <2>1 DEF Repos
  <2>3. QED
    BY <1>2, <1>4, <2>2 DEF Tip
<1>5. QED
  BY <1>3, <1>4

\* A hard reset keeps exactly the commits up to the one it goes back to.
LEMMA ResetHardToType ==
  ASSUME NEW r \in Repos, NEW n \in 1..Len(r.branch)
  PROVE  /\ ResetHardTo(r, n) \in Repos
         /\ Len(ResetHardTo(r, n).branch) = n
         /\ \A i \in 1..n : ResetHardTo(r, n).branch[i] = r.branch[i]
<1>1. r.branch \in Seq(Commits) /\ Len(r.branch) \in Nat
  BY LenProperties DEF Repos
<1>2. \A i \in 1..n : r.branch[i] \in Commits
  BY <1>1, ElementOfSeq
<1>3. /\ SubSeq(r.branch, 1, n) \in Seq(Commits)
      /\ Len(SubSeq(r.branch, 1, n)) = n
      /\ \A i \in 1..n : SubSeq(r.branch, 1, n)[i] = r.branch[i]
  BY <1>1, <1>2, SubSeqProperties
<1> DEFINE to == r.branch[n].tree
<1>4. to \in Trees
  BY <1>2 DEF Commits
<1>5. [f \in Files |-> IF f \in Untracked(r) /\ to[f] = Absent
                       THEN r.tree[f] ELSE to[f]] \in Trees
  BY <1>4 DEF Repos, Trees
<1>6. QED
  BY <1>3, <1>4, <1>5 DEF ResetHardTo, Repos

---------------------------------------------------------------------------
(* What the steps do to the repository *)

\* The commits of r are still there in q, in their places.
Keeps(r, q) == /\ q \in Repos
               /\ Len(q.branch) >= Len(r.branch)
               /\ \A i \in 1..Len(r.branch) : q.branch[i] = r.branch[i]

LEMMA LenType == TypeOK => /\ repo \in Repos
                           /\ Len(repo.branch) \in Nat
                           /\ Len(repo.branch) >= 1
<1> SUFFICES ASSUME TypeOK PROVE repo \in Repos /\ Len(repo.branch) \in Nat
                                 /\ Len(repo.branch) >= 1
  OBVIOUS
<1>1. repo \in Repos
  BY DEF TypeOK, Repos, Commits
<1>2. Len(repo.branch) \in Nat
  BY <1>1, LenProperties DEF Repos
<1>3. start \in 1..Len(repo.branch)
  BY DEF TypeOK
<1>4. QED
  BY <1>1, <1>2, <1>3

LEMMA CommitKeeps ==
  ASSUME TypeOK, ticket \in Tickets
  PROVE  Keeps(repo, Commit(repo, ticket))
  BY LenType, CommitType DEF Keeps

LEMMA ResetChangesKeeps ==
  ASSUME TypeOK
  PROVE  /\ Keeps(repo, ResetChanges(repo))
         /\ ResetChanges(repo).branch = repo.branch
  BY LenType, ResetChangesType DEF Keeps

\* A coder call keeps all commits, and makes none unless the agent may.
LEMMA CoderKeeps ==
  ASSUME TypeOK, ticket \in Tickets, ApiCall \/ CliCall
  PROVE  /\ Keeps(repo, repo')
         /\ ~coder.commits => Len(repo'.branch) = Len(repo.branch)
<1> USE LenType
<1>1. call \in 1..MaxRetries + 3
  BY DEF TypeOK
<1>2. CASE ApiCall
  <2>1. PICK W \in SUBSET Scope[ticket], S \in SUBSET Files :
          repo' = Add(Write(repo, W, S), W) \/ repo' = Write(repo, W, S)
    BY <1>2 DEF ApiCall, CoderDone, CoderFailed
  <2>2. Write(repo, W, S) \in Repos /\ Write(repo, W, S).branch = repo.branch
    BY <1>1, WriteType
  <2>3. repo' \in Repos /\ repo'.branch = repo.branch
    BY <2>1, <2>2, AddType
  <2>4. QED
    BY <2>3 DEF Keeps
<1>3. CASE CliCall
  <2>1. PICK W \in SUBSET Files, S \in SUBSET Files, commits \in BOOLEAN :
          LET wrote == Write(repo, W, S)
              r     == IF commits THEN Commit(Add(wrote, Files), ticket) ELSE wrote
          IN  /\ commits => coder.commits
              /\ \/ repo' = r
                 \/ repo' = ResetHardTo(r, Len(repo.branch))
                 \/ repo' = Add(r, Changed(r, repo))
    BY <1>3 DEF CliCall, CoderDone, CoderFailed
  <2> DEFINE wrote == Write(repo, W, S)
             r     == IF commits THEN Commit(Add(wrote, Files), ticket) ELSE wrote
  <2>2. wrote \in Repos /\ wrote.branch = repo.branch
    BY <1>1, WriteType
  <2>3. Add(wrote, Files) \in Repos /\ Add(wrote, Files).branch = repo.branch
    BY <2>2, AddType
  <2>4. Keeps(repo, Commit(Add(wrote, Files), ticket))
    <3> HIDE DEF wrote
    <3> QED
      BY <2>3, CommitType DEF Keeps
  <2>5. /\ Keeps(repo, r)
        /\ ~coder.commits => Len(r.branch) = Len(repo.branch)
    BY <2>1, <2>2, <2>4 DEF Keeps
  <2> HIDE DEF wrote, r
  <2>6. r \in Repos /\ Len(r.branch) >= Len(repo.branch) /\ Len(r.branch) \in Nat
    BY <2>5, LenProperties DEF Keeps, Repos
  <2>7. CASE repo' = r
    BY <2>5, <2>7
  <2>8. CASE repo' = ResetHardTo(r, Len(repo.branch))
    <3>1. Len(repo.branch) \in 1..Len(r.branch)
      BY <2>6
    <3>2. QED
      BY <2>5, <2>6, <2>8, <3>1, ResetHardToType DEF Keeps
  <2>9. CASE repo' = Add(r, Changed(r, repo))
    BY <2>5, <2>6, <2>9, AddType DEF Keeps
  <2>10. QED
    BY <2>1, <2>7, <2>8, <2>9 DEF wrote, r
<1>4. QED
  BY <1>2, <1>3

---------------------------------------------------------------------------
(* Types *)

Inv == TypeOK /\ Bookkeeping

LEMMA InitInv == Init => Inv
<1> SUFFICES ASSUME Init PROVE Inv
  OBVIOUS
<1> DEFINE first == [f \in Files |-> IF f \in Tracked THEN Base ELSE Absent]
           c     == [by |-> NoTicket, tree |-> first]
<1>1. first \in Trees
  BY DEF Trees, Contents
<1>2. c \in Commits
  BY <1>1 DEF Commits
<1>3. <<c>> \in Seq(Commits) /\ Len(<<c>>) = 1
  BY <1>2
<1>4. repo = [branch |-> <<c>>, index |-> first, tree |-> first]
  BY DEF Init
<1>5. repo \in Repos /\ Len(repo.branch) = 1
  BY <1>1, <1>3, <1>4 DEF Repos
<1>6. queue \in Seq(Tickets) /\ todo \in Seq(ChildTickets)
  <2>1. Queue \in Seq(Elements(Queue)) /\ Elements(Queue) \subseteq Tickets
    BY AttemptConstants DEF Tickets
  <2>2. Queue \in Seq(Tickets)
    BY <2>1, SeqMonotonic
  <2>3. QED
    BY <2>2, EmptySeq DEF Init
<1>7. 1 \in 1..MaxRetries + 3
  BY AttemptConstants
<1>8. QED
  BY <1>5, <1>6, <1>7 DEF Init, Inv, TypeOK, Bookkeeping, Repos, Commits

\* What the runner remembers stays in bounds while commits are kept.
LEMMA KeepsBounds ==
  ASSUME TypeOK, Keeps(repo, repo')
  PROVE  /\ preSplit \in 1..Len(repo'.branch)
         /\ start \in 1..Len(repo'.branch)
         /\ repo' \in [branch : Seq([by : Tickets \cup {NoTicket}, tree : Trees]),
                      index : Trees, tree : Trees]
<1>1. Len(repo'.branch) \in Nat /\ Len(repo.branch) \in Nat
  BY LenType, LenProperties DEF Keeps, Repos
<1>2. preSplit \in 1..Len(repo.branch) /\ start \in 1..Len(repo.branch)
  BY DEF TypeOK
<1>3. QED
  BY <1>1, <1>2 DEF Keeps, Repos, Commits

\* The modes by the number of the call.
LEMMA CallBounds ==
  ASSUME TypeOK
  PROVE  /\ MaxRetries \in Nat /\ call \in Nat
         /\ Mode \in {"attempt", "repair"} => call + 1 \in 1..MaxRetries + 3
         /\ LastAttempt => Mode = "attempt"
  BY AttemptConstants DEF TypeOK, Mode, LastAttempt

LEMMA StepInv == Inv /\ [Next]_vars => Inv'
<1> SUFFICES ASSUME Inv, [Next]_vars PROVE Inv'
  OBVIOUS
<1>1. TypeOK /\ Bookkeeping
  BY DEF Inv
<1>2. stage # "idle" => ticket \in Tickets
  BY <1>1 DEF TypeOK, Bookkeeping
<1>3. /\ 1 \in 1..MaxRetries + 3
      /\ Tickets \cap {NoTicket} = {} /\ ChildTickets \subseteq Tickets
  BY AttemptConstants DEF Tickets
<1> DEFINE Others == /\ queue' \in Seq(Tickets) /\ todo' \in Seq(ChildTickets)
                     /\ {ticket', parent'} \subseteq Tickets \cup {NoTicket}
                     /\ call' \in 1..MaxRetries + 3
                     /\ origin' \in {"none", "error", "findings"}
                     /\ stage' \in {"idle", "call", "coded", "errored",
                                    "approved", "returned"}
                     /\ verdict' \in {"PENDING", "PASS", "CODED_UNGOVERNED", "FAIL"}
                     /\ backend' \in Backends /\ autoRepair' \in AutoRepair
                     /\ coder' \in Coders
<1>4. ASSUME Keeps(repo, repo'), Others, UNCHANGED <<preSplit, start>>,
             approved' \subseteq Files \X Contents
      PROVE  TypeOK'
  BY <1>1, <1>4, KeepsBounds DEF TypeOK
<1>5. Keeps(repo, repo)
  BY <1>1, LenType DEF Keeps
<1>6. CASE TakeTicket
  <2>1. Head(queue) \in Tickets /\ Tail(queue) \in Seq(Tickets)
    BY <1>1, <1>6, HeadTailProperties DEF TypeOK, TakeTicket
  <2>2. Len(repo.branch) \in 1..Len(repo.branch)
    BY <1>1, LenType
  <2>3. QED
    BY <1>1, <1>3, <1>6, <2>1, <2>2
    DEF TakeTicket, Inv, TypeOK, Bookkeeping, options, split
<1>7. CASE ApiCall \/ CliCall
  <2>1. Keeps(repo, repo')
    BY <1>1, <1>2, <1>7, CoderKeeps DEF ApiCall, CliCall
  <2>2. stage # "idle" /\ stage' \in {"coded", "errored"}
        /\ UNCHANGED <<options, queue, ticket, split, call, origin, verdict,
                       start, approved>>
    BY <1>7 DEF ApiCall, CliCall, CoderDone, CoderFailed
  <2>3. TypeOK'
    BY <1>1, <1>4, <2>1, <2>2 DEF TypeOK, options, split
  <2>4. QED
    BY <1>1, <2>2, <2>3 DEF Inv, Bookkeeping, split
<1>8. CASE CoderError
  <2>1. /\ Others /\ stage # "idle" /\ stage' # "idle"
        /\ UNCHANGED <<repo, ticket, split, start, approved>>
    BY <1>1, <1>8, CallBounds
    DEF CoderError, CallAgain, Return, NotRepaired, TypeOK, options, split
  <2>2. QED
    BY <1>1, <1>4, <1>5, <2>1 DEF Inv, TypeOK, Bookkeeping, split
<1>9. CASE Approve
  <2>1. \A f \in Files : <<f, repo.index[f]>> \in Files \X Contents
    BY <1>1 DEF TypeOK, Trees
  <2>2. approved' \subseteq Files \X Contents
    BY <1>1, <1>9, <2>1 DEF Approve, TypeOK, Staged
  <2>3. QED
    BY <1>1, <1>4, <1>5, <1>9, <2>2
    DEF Approve, Inv, TypeOK, Bookkeeping, options, split
<1>10. CASE GovernanceFails \/ Reject \/ ChecksFail \/ ChecksPass \/ CommitFinal
  <2>1. repo' = ResetChanges(repo) \/ repo' = Commit(repo, ticket)
    BY <1>10 DEF GovernanceFails, Reject, ChecksFail, ChecksPass, CommitFinal,
                 CommitUngoverned
  <2>2. stage # "idle"
    BY <1>10 DEF GovernanceFails, Reject, ChecksFail, ChecksPass, CommitFinal
  <2>3. Keeps(repo, repo')
    BY <1>1, <1>2, <2>1, <2>2, CommitKeeps, ResetChangesKeeps
  <2>4. /\ Others /\ stage' # "idle"
        /\ UNCHANGED <<ticket, split, start, approved>>
    BY <1>1, <1>10, CallBounds
    DEF GovernanceFails, Reject, ChecksFail, ChecksPass, CommitFinal,
        CommitUngoverned, CallAgain, Return, NotRepaired, TypeOK, options, split
  <2>5. QED
    BY <1>1, <1>4, <2>2, <2>3, <2>4 DEF Inv, TypeOK, Bookkeeping, split
<1>11. CASE SplitLastResort
  <2>1. Children[ticket] \in Seq(ChildTickets) /\ Children[ticket] # <<>>
    BY <1>2, <1>11, AttemptConstants DEF SplitLastResort
  <2>2. Head(Children[ticket]) \in ChildTickets
        /\ Tail(Children[ticket]) \in Seq(ChildTickets)
    BY <2>1, HeadTailProperties
  <2>3. Keeps(repo, repo') /\ repo'.branch = repo.branch
    BY <1>1, <1>11, ResetChangesKeeps DEF SplitLastResort
  <2>4. preSplit' = Len(repo.branch) /\ start <= Len(repo.branch)
    BY <1>1, <1>11 DEF SplitLastResort, RevparseHead, TypeOK
  <2>5. preSplit' \in 1..Len(repo'.branch)
    BY <1>1, <2>3, <2>4, LenType
  <2>6. QED
    BY <1>1, <1>2, <1>3, <1>11, <2>2, <2>3, <2>4, <2>5, KeepsBounds
    DEF SplitLastResort, StartChild, Inv, TypeOK, Bookkeeping, options
<1>12. CASE ChildPasses
  <2>1. todo # <<>> => Head(todo) \in ChildTickets /\ Tail(todo) \in Seq(ChildTickets)
    BY <1>1, HeadTailProperties DEF TypeOK
  <2>2. /\ Others /\ stage' # "idle" /\ ticket' # NoTicket
        /\ (parent' # NoTicket => parent # NoTicket)
        /\ UNCHANGED <<repo, preSplit, start, approved>>
    BY <1>1, <1>3, <1>12, <2>1
    DEF ChildPasses, StartChild, TypeOK, options
  <2>3. QED
    BY <1>1, <1>4, <1>5, <2>2 DEF Inv, TypeOK, Bookkeeping
<1>13. CASE ChildFails
  <2>1. preSplit \in 1..Len(repo.branch) /\ parent # NoTicket /\ start <= preSplit
    BY <1>1, <1>13 DEF ChildFails, TypeOK, Bookkeeping
  <2>2. repo' \in Repos /\ Len(repo'.branch) = preSplit
    BY <1>1, <1>13, <2>1, LenType, ResetHardToType DEF ChildFails
  <2>3. start' \in 1..Len(repo'.branch) /\ preSplit' \in 1..Len(repo'.branch)
    BY <1>1, <1>13, <2>1, <2>2, LenType DEF ChildFails, TypeOK
  <2>4. /\ Others /\ stage' # "idle" /\ ticket' # NoTicket /\ parent' = NoTicket
        /\ UNCHANGED approved
    BY <1>1, <1>13, <2>1, EmptySeq DEF ChildFails, TypeOK, options
  <2>5. QED
    BY <1>1, <2>2, <2>3, <2>4 DEF Inv, TypeOK, Bookkeeping, Repos, Commits
<1>14. CASE Finish
  <2>1. /\ Others /\ stage' = "idle" /\ parent' = NoTicket
        /\ UNCHANGED <<repo, split, start, approved>>
    BY <1>1, <1>14 DEF Finish, TypeOK, options, split
  <2>2. QED
    BY <1>1, <1>4, <1>5, <2>1 DEF Inv, TypeOK, Bookkeeping, split
<1>15. CASE UNCHANGED vars
  BY <1>1, <1>15 DEF vars, options, split, Inv, TypeOK, Bookkeeping
<1>16. QED
  BY <1>6, <1>7, <1>8, <1>9, <1>10, <1>11, <1>12, <1>13, <1>14, <1>15 DEF Next

\* The runner stays within its stages, its number of coder calls and the
\* commits of the branch, for any queue, split and number of retries
\* (_run_ticket_with_retries).
THEOREM TypesKept == Spec => []TypeOK
<1>1. Inv => TypeOK
  BY DEF Inv
<1>2. QED
  BY InitInv, StepInv, <1>1, PTL DEF Spec

---------------------------------------------------------------------------
(* Earlier work *)

LEMMA StepKeepsEarlier ==
  ASSUME Inv, Next, stage # "idle"
  PROVE  /\ repo' \in Repos
         /\ Len(repo'.branch) >= start
         /\ \A i \in 1..start : repo'.branch[i] = repo.branch[i]
<1>1. TypeOK /\ Bookkeeping /\ ticket \in Tickets
  BY DEF Inv, TypeOK, Bookkeeping
<1>2. /\ repo \in Repos /\ Len(repo.branch) \in Nat
      /\ start \in 1..Len(repo.branch) /\ preSplit \in 1..Len(repo.branch)
  BY <1>1, LenType DEF TypeOK
<1>3. ASSUME Keeps(repo, repo')
      PROVE  /\ repo' \in Repos
             /\ Len(repo'.branch) >= start
             /\ \A i \in 1..start : repo'.branch[i] = repo.branch[i]
  <2>1. Len(repo'.branch) \in Nat
    BY <1>3, LenProperties DEF Keeps, Repos
  <2>2. QED
    BY <1>2, <1>3, <2>1 DEF Keeps
<1>4. CASE ApiCall \/ CliCall
  BY <1>1, <1>3, <1>4, CoderKeeps
<1>5. CASE ChildFails
  <2>1. repo' = ResetHardTo(repo, preSplit) /\ start <= preSplit
    BY <1>1, <1>5 DEF ChildFails, Bookkeeping
  <2>2. QED
    BY <1>2, <2>1, ResetHardToType
<1>6. CASE ~(ApiCall \/ CliCall \/ ChildFails)
  <2>1. \/ repo' = repo \/ repo' = ResetChanges(repo)
        \/ repo' = Commit(repo, ticket)
    BY <1>6 DEF Next, TakeTicket, CoderError, Approve, GovernanceFails, Reject,
                ChecksPass, ChecksFail, CommitFinal, CommitUngoverned,
                SplitLastResort, ChildPasses, Finish
  <2>2. Keeps(repo, repo)
    BY <1>2 DEF Keeps
  <2>3. QED
    BY <1>1, <1>3, <2>1, <2>2, CommitKeeps, ResetChangesKeeps
<1>7. QED
  BY <1>4, <1>5, <1>6

LEMMA SamePrefix ==
  ASSUME NEW r \in Repos, NEW q \in Repos, NEW n \in Nat,
         n <= Len(r.branch), n <= Len(q.branch),
         \A i \in 1..n : q.branch[i] = r.branch[i]
  PROVE  SubSeq(q.branch, 1, n) = SubSeq(r.branch, 1, n)
<1> DEFINE a == SubSeq(q.branch, 1, n)
           b == SubSeq(r.branch, 1, n)
<1>1. /\ r.branch \in Seq(Commits) /\ Len(r.branch) \in Nat
      /\ q.branch \in Seq(Commits) /\ Len(q.branch) \in Nat
  BY LenProperties DEF Repos
<1>2. \A i \in 1..n : r.branch[i] \in Commits /\ q.branch[i] \in Commits
  BY <1>1, ElementOfSeq
<1>3. /\ a \in Seq(Commits) /\ Len(a) = n
      /\ b \in Seq(Commits) /\ Len(b) = n
      /\ \A i \in 1..n : a[i] = q.branch[i] /\ b[i] = r.branch[i]
  BY <1>2, SubSeqProperties
<1> HIDE DEF a, b
<1>4. a = b
  BY <1>3, SeqEqual
<1>5. QED
  BY <1>4 DEF a, b

\* While a ticket is executed, no reset of an attempt, a scope violation or a
\* failed split reaches back past its beginning, whatever the agent commits
\* (_git_reset_changes, _git_reset_hard_to).
THEOREM EarlierWorkIsKept == Spec => EarlierWorkKept
<1> DEFINE Kept == stage # "idle" =>
                     /\ Len(repo'.branch) >= start
                     /\ SubSeq(repo'.branch, 1, start)
                          = SubSeq(repo.branch, 1, start)
<1>1. Inv /\ [Next]_vars => [Kept]_vars
  <2> SUFFICES ASSUME Inv, Next, stage # "idle" PROVE Kept
    BY DEF Kept
  <2>1. /\ repo' \in Repos
        /\ Len(repo'.branch) >= start
        /\ \A i \in 1..start : repo'.branch[i] = repo.branch[i]
    BY StepKeepsEarlier
  <2>2. repo \in Repos /\ start \in Nat /\ start <= Len(repo.branch)
    BY LenType DEF Inv, TypeOK
  <2>3. QED
    BY <2>1, <2>2, SamePrefix
<1>2. QED
  BY InitInv, StepInv, <1>1, PTL DEF Spec, EarlierWorkKept

---------------------------------------------------------------------------
(* Failed tickets *)

LEMMA InitBranch == Init => BranchInv
  BY DEF Init, BranchInv, FailedLeftNothing, Returned

LEMMA StepBranch ==
  ASSUME ~coder.commits, Inv, BranchInv, [Next]_vars
  PROVE  BranchInv'
<1>1. TypeOK /\ Bookkeeping
  BY DEF Inv
<1>2. stage # "idle" => ticket \in Tickets
  BY <1>1 DEF TypeOK, Bookkeeping
<1>3. repo \in Repos /\ Len(repo.branch) \in Nat
  BY <1>1, LenType
<1>4. CASE TakeTicket
  BY <1>1, <1>4 DEF TakeTicket, BranchInv, FailedLeftNothing, Returned,
                    Bookkeeping, split
<1>5. CASE ApiCall \/ CliCall
  <2>1. Len(repo'.branch) = Len(repo.branch)
    BY <1>1, <1>2, <1>5, CoderKeeps DEF ApiCall, CliCall
  <2>2. /\ stage = "call" /\ stage' \in {"coded", "errored"}
        /\ UNCHANGED <<parent, preSplit, start>>
    BY <1>5 DEF ApiCall, CliCall, CoderDone, CoderFailed, split
  <2>3. QED
    BY <2>1, <2>2 DEF BranchInv, FailedLeftNothing, Returned
<1>6. CASE CoderError \/ Approve \/ GovernanceFails
  <2>1. /\ repo'.branch = repo.branch
        /\ stage \in {"errored", "coded"} /\ stage' # "idle"
        /\ UNCHANGED <<parent, preSplit, start>>
    BY <1>1, <1>6, ResetChangesKeeps
    DEF CoderError, Approve, GovernanceFails, CallAgain, Return, NotRepaired, split
  <2>2. QED
    BY <2>1 DEF BranchInv, FailedLeftNothing, Returned
<1>7. CASE Reject \/ ChecksPass \/ ChecksFail \/ CommitFinal
  <2>1. /\ stage \in {"coded", "approved"} /\ stage' \in {"call", "returned"}
        /\ UNCHANGED <<parent, preSplit, start>>
    BY <1>7 DEF Reject, ChecksPass, ChecksFail, CommitFinal, CommitUngoverned,
                CallAgain, Return, NotRepaired, split
  <2>2. \/ repo'.branch = repo.branch
        \/ stage' = "returned" /\ verdict' # "FAIL"
    BY <1>1, <1>7, ResetChangesKeeps
    DEF Reject, ChecksPass, ChecksFail, CommitFinal, CommitUngoverned, Return
  <2>3. QED
    BY <2>1, <2>2 DEF BranchInv, FailedLeftNothing, Returned
<1>8. CASE SplitLastResort
  BY <1>1, <1>2, <1>8, ResetChangesKeeps, AttemptConstants
  DEF SplitLastResort, RevparseHead, StartChild, BranchInv, FailedLeftNothing,
      Returned
<1>9. CASE ChildPasses
  BY <1>9 DEF ChildPasses, StartChild, BranchInv, FailedLeftNothing, Returned
<1>10. CASE ChildFails
  <2>1. preSplit \in 1..Len(repo.branch) /\ preSplit = start
    BY <1>1, <1>10 DEF ChildFails, TypeOK, BranchInv
  <2>2. Len(repo'.branch) = start
    BY <1>3, <1>10, <2>1, ResetHardToType DEF ChildFails
  <2>3. QED
    BY <1>10, <2>2 DEF ChildFails, BranchInv, FailedLeftNothing, Returned
<1>11. CASE Finish
  BY <1>11 DEF Finish, BranchInv, FailedLeftNothing, Returned, split
<1>12. CASE UNCHANGED vars
  BY <1>12 DEF vars, split, BranchInv, FailedLeftNothing, Returned
<1>13. QED
  BY <1>4, <1>5, <1>6, <1>7, <1>8, <1>9, <1>10, <1>11, <1>12 DEF Next

LEMMA SameCoder == [Next]_vars => coder' = coder
<1>1. TakeTicket \/ ApiCall \/ CliCall \/ CoderError => coder' = coder
  BY DEF options, TakeTicket, ApiCall, CliCall, CoderError
<1>2. Approve \/ GovernanceFails \/ Reject \/ ChecksPass => coder' = coder
  BY DEF options, Approve, GovernanceFails, Reject, ChecksPass, CommitUngoverned
<1>3. ChecksFail \/ CommitFinal \/ SplitLastResort => coder' = coder
  BY DEF options, ChecksFail, CommitFinal, CommitUngoverned, SplitLastResort
<1>4. ChildPasses \/ ChildFails \/ Finish \/ UNCHANGED vars => coder' = coder
  BY DEF vars, options, ChildPasses, ChildFails, Finish
<1>5. QED
  BY <1>1, <1>2, <1>3, <1>4 DEF Next

\* A ticket that failed left nothing on the branch, the children of its split
\* neither, as long as commits are the runner's alone
\* (_run_ticket_with_retries, _split_and_run_as_last_resort).
THEOREM FailuresLeaveBranch == Spec => []FailLeavesBranch
<1> DEFINE IInv == Inv /\ (~coder.commits => BranchInv)
<1>1. Init => IInv
  BY InitInv, InitBranch
<1>2. ASSUME IInv, [Next]_vars
      PROVE  IInv'
  <2>1. Inv' /\ coder' = coder
    BY <1>2, StepInv, SameCoder
  <2>2. CASE coder.commits
    BY <2>1, <2>2
  <2>3. CASE ~coder.commits
    BY <1>2, <2>1, <2>3, StepBranch
  <2>4. QED
    BY <2>2, <2>3
<1>3. IInv => FailLeavesBranch
  BY DEF BranchInv, FailedLeftNothing, FailLeavesBranch
<1>4. QED
  BY <1>1, <1>2, <1>3, PTL DEF Spec

---------------------------------------------------------------------------
(* Passed tickets *)

LEMMA InitGoverned == Init => GovernedInv
  BY DEF Init, GovernedInv

LEMMA StepGoverned ==
  ASSUME ~coder.commits, Inv, BranchInv, GovernedInv, [Next]_vars
  PROVE  GovernedInv'
<1> DEFINE
      Settled == stage # "idle" /\ (stage = "returned" => verdict = "PASS")
      Seen(r) == \A f \in Files : Tip(r)[f] # repo.branch[start].tree[f]
                                   => <<f, Tip(r)[f]>> \in approved
<1>1. TypeOK /\ Bookkeeping
  BY DEF Inv
<1>2. stage # "idle" => ticket \in Tickets
  BY <1>1 DEF TypeOK, Bookkeeping
<1>3. /\ repo \in Repos /\ Len(repo.branch) \in Nat /\ Len(repo.branch) >= 1
      /\ start \in 1..Len(repo.branch)
  BY <1>1, LenType DEF TypeOK
<1>4. Settled => Seen(repo)
  BY DEF GovernedInv
<1>5. ASSUME NEW q, q.branch = repo.branch
      PROVE  Tip(q) = Tip(repo)
  BY <1>5 DEF Tip
<1>6. ASSUME Settled, repo'.branch = repo.branch, stage' # "approved",
             UNCHANGED <<start, approved>>
      PROVE  GovernedInv'
  BY <1>4, <1>6 DEF GovernedInv, Tip
<1>7. CASE TakeTicket
  BY <1>3, <1>7 DEF TakeTicket, GovernedInv, Tip
<1>8. CASE ApiCall \/ CliCall
  <2>1. stage = "call" /\ stage' \in {"coded", "errored"}
        /\ UNCHANGED <<start, approved>>
    BY <1>8 DEF ApiCall, CliCall, CoderDone, CoderFailed
  <2>2. Keeps(repo, repo') /\ Len(repo'.branch) = Len(repo.branch)
    BY <1>1, <1>2, <1>8, <2>1, CoderKeeps
  <2>3. repo'.branch = repo.branch
    BY <1>3, <2>2, SeqEqual DEF Keeps, Repos
  <2>4. QED
    BY <1>6, <2>1, <2>3
<1>9. CASE CoderError \/ GovernanceFails
  <2>1. repo'.branch = repo.branch /\ stage' # "approved"
        /\ stage \in {"errored", "coded"} /\ UNCHANGED <<start, approved>>
    BY <1>1, <1>9, ResetChangesKeeps
    DEF CoderError, GovernanceFails, CallAgain, Return, NotRepaired
  <2>2. QED
    BY <1>6, <2>1
<1>10. CASE Approve
  BY <1>4, <1>10 DEF Approve, GovernedInv
<1>11. CASE Reject \/ ChecksFail \/ CommitFinal
  <2>1. /\ stage \in {"coded", "approved"} /\ stage' \in {"call", "returned"}
        /\ UNCHANGED <<start, approved>>
    BY <1>11 DEF Reject, ChecksFail, CommitFinal, CommitUngoverned,
                 CallAgain, Return, NotRepaired
  <2>2. \/ repo'.branch = repo.branch
        \/ stage' = "returned" /\ verdict' # "PASS"
    BY <1>1, <1>11, ResetChangesKeeps
    DEF Reject, ChecksFail, CommitFinal, CommitUngoverned, Return
  <2>3. QED
    BY <1>6, <2>1, <2>2 DEF GovernedInv
<1>12. CASE ChecksPass
  <2>1. /\ stage = "approved" /\ stage' = "returned"
        /\ repo' = Commit(repo, ticket)
        /\ UNCHANGED <<start, approved>>
    BY <1>12 DEF ChecksPass, Return
  <2>2. /\ repo'.branch[start] = repo.branch[start]
        /\ Tip(repo') = IF Staged(repo) = {} THEN Tip(repo) ELSE repo.index
    BY <1>2, <1>3, <2>1, CommitType
  <2>3. Seen(repo) /\ \A f \in Staged(repo) : <<f, repo.index[f]>> \in approved
    BY <1>4, <2>1 DEF GovernedInv
  <2>4. Seen(repo')
    BY <2>2, <2>3 DEF Staged
  <2>5. QED
    BY <2>1, <2>2, <2>4 DEF GovernedInv
<1>13. CASE SplitLastResort
  <2>1. repo'.branch = repo.branch /\ stage = "coded" /\ stage' = "call"
        /\ UNCHANGED <<start, approved>>
    BY <1>1, <1>13, ResetChangesKeeps DEF SplitLastResort, StartChild
  <2>2. QED
    BY <1>6, <2>1
<1>14. CASE ChildPasses
  BY <1>6, <1>14 DEF ChildPasses, StartChild
<1>15. CASE ChildFails
  BY <1>15 DEF ChildFails, GovernedInv
<1>16. CASE Finish
  BY <1>16 DEF Finish, GovernedInv
<1>17. CASE UNCHANGED vars
  BY <1>17 DEF vars, GovernedInv, Tip, Staged
<1>18. QED
  BY <1>7, <1>8, <1>9, <1>10, <1>11, <1>12, <1>13, <1>14, <1>15, <1>16, <1>17
  DEF Next

\* All that a passed ticket put on the branch, over its attempts, its repair
\* and its children, was staged when governance approved it, as long as
\* commits are the runner's alone (_run_ticket_with_retries).
THEOREM PassesAreGoverned == Spec => []PassIsGoverned
<1> DEFINE IInv == Inv /\ (~coder.commits => BranchInv /\ GovernedInv)
<1>1. Init => IInv
  BY InitInv, InitBranch, InitGoverned
<1>2. ASSUME IInv, [Next]_vars
      PROVE  IInv'
  <2>1. Inv' /\ coder' = coder
    BY <1>2, StepInv, SameCoder
  <2>2. CASE coder.commits
    BY <2>1, <2>2
  <2>3. CASE ~coder.commits
    <3>1. BranchInv'
      BY <1>2, <2>3, StepBranch
    <3>2. GovernedInv'
      BY <1>2, <2>3, StepGoverned
    <3>3. QED
      BY <2>1, <3>1, <3>2
  <2>4. QED
    BY <2>2, <2>3
<1>3. IInv => PassIsGoverned
  BY DEF GovernedInv, PassIsGoverned, EveryPassIsGoverned, Returned
<1>4. QED
  BY <1>1, <1>2, <1>3, PTL DEF Spec
---------------------------------------------------------------------------
(* What lies in the index and in the working tree *)

\* Outside governance and commit nothing is staged, and then something is,
\* unless the agent has committed it.
IndexInv ==
  /\ stage \notin {"coded", "approved"} => repo.index = Tip(repo)
  /\ stage \in {"coded", "approved"} /\ ~coder.same =>
       \/ Staged(repo) # {}
       \/ coder.commits /\ Len(repo.branch) > start

\* What the coder wrote is all staged, then all committed or thrown away.
TreeInv ==
  IF stage \in {"coded", "approved"} THEN repo.tree = repo.index
  ELSE repo.tree = Tip(repo)

\* What is reported as coded is on the branch, a child's work included.
CodedInv ==
  stage = "returned" /\ verdict \in {"PASS", "CODED_UNGOVERNED"} =>
    Len(repo.branch) > start

LEMMA TreeEqual ==
  ASSUME NEW a \in Trees, NEW b \in Trees, \A f \in Files : a[f] = b[f]
  PROVE  a = b
BY DEF Trees

\* The parts of a repository and of its tip.
LEMMA PartTypes ==
  ASSUME NEW r \in Repos, Len(r.branch) >= 1
  PROVE  r.index \in Trees /\ r.tree \in Trees /\ Tip(r) \in Trees
BY TipType DEF Repos

\* A commit of everything leaves nothing staged and nothing dirty.
LEMMA CommitAll ==
  ASSUME NEW r \in Repos, Len(r.branch) >= 1, NEW t \in Tickets
  PROVE  LET q == Commit(Add(r, Files), t)
         IN  /\ q \in Repos /\ Tip(q) = r.tree /\ q.index = r.tree /\ q.tree = r.tree
             /\ r.tree # Tip(r) => Len(q.branch) = Len(r.branch) + 1
<1> DEFINE p == Add(r, Files)
           q == Commit(p, t)
<1>1. p \in Repos /\ p.branch = r.branch /\ p.tree = r.tree
  BY AddType DEF Add
<1>2. Tip(p) = Tip(r)
  BY <1>1 DEF Tip
<1>3. p.index \in Trees /\ r.tree \in Trees /\ Tip(r) \in Trees
  BY <1>1, PartTypes
<1>4. p.index = r.tree
  <2>1. \A f \in Files : p.index[f] = r.tree[f]
    BY DEF Add
  <2>2. QED
    BY <1>3, <2>1, TreeEqual
<1> HIDE DEF p
<1>5. CASE Staged(p) = {}
  <2>1. \A f \in Files : p.index[f] = Tip(p)[f]
    BY <1>5 DEF Staged
  <2>2. r.tree = Tip(r)
    BY <1>2, <1>3, <1>4, <2>1, TreeEqual
  <2>3. q = p
    BY <1>5 DEF Commit
  <2>4. QED
    BY <1>1, <1>2, <1>4, <2>2, <2>3 DEF p
<1>6. CASE Staged(p) # {}
  <2>1. /\ q \in Repos /\ Tip(q) = p.index
    BY <1>1, <1>6, CommitType
  <2>2. q = [p EXCEPT !.branch = Append(@, [by |-> t, tree |-> p.index])]
    BY <1>6 DEF Commit
  <2>3. q.index = p.index /\ q.tree = p.tree
    BY <1>1, <2>2 DEF Repos
  <2>4. Len(q.branch) = Len(p.branch) + 1
    <3>1. q.branch = Append(p.branch, [by |-> t, tree |-> p.index])
      BY <1>1, <2>2 DEF Repos
    <3>2. p.branch \in Seq(Commits) /\ [by |-> t, tree |-> p.index] \in Commits
      BY <1>1, <1>3 DEF Repos, Commits
    <3>3. QED
      BY <3>1, <3>2, AppendProperties
  <2>5. QED
    BY <1>1, <1>4, <2>1, <2>3, <2>4 DEF p
<1>7. QED
  BY <1>5, <1>6 DEF p

\* Adding files to an index that held nothing stages those that differ.
LEMMA AddStages ==
  ASSUME NEW r \in Repos, Len(r.branch) >= 1, r.index = Tip(r), NEW W
  PROVE  /\ Staged(Add(r, W)) = {f \in Files \cap W : r.tree[f] # Tip(r)[f]}
         /\ Add(r, W).tree = r.tree
         /\ (\A f \in Files \ W : r.tree[f] = Tip(r)[f]) => Add(r, W).index = r.tree
<1> DEFINE q == Add(r, W)
<1>1. q \in Repos /\ q.branch = r.branch /\ q.tree = r.tree
  BY AddType DEF Add, Repos
<1>2. Tip(q) = Tip(r)
  BY <1>1 DEF Tip
<1>3. \A f \in Files : q.index[f] = IF f \in W THEN r.tree[f] ELSE Tip(r)[f]
  BY DEF Add, Repos
<1>4. q.index \in Trees /\ r.tree \in Trees
  BY <1>1, PartTypes
<1> HIDE DEF q
<1>5. Staged(q) = {f \in Files \cap W : r.tree[f] # Tip(r)[f]}
  BY <1>2, <1>3 DEF Staged
<1>6. (\A f \in Files \ W : r.tree[f] = Tip(r)[f]) => q.index = r.tree
  BY <1>3, <1>4, TreeEqual
<1>7. QED
  BY <1>1, <1>5, <1>6 DEF q

\* After a hard reset the index is the commit it went to, and so is a tree in
\* which nothing was untracked.
LEMMA ResetTip ==
  ASSUME NEW r \in Repos, NEW n \in 1..Len(r.branch)
  PROVE  LET q == ResetHardTo(r, n)
         IN  /\ q.index = Tip(q)
             /\ r.tree = r.index => q.tree = Tip(q)
<1> DEFINE q  == ResetHardTo(r, n)
           to == r.branch[n].tree
<1>1. /\ q \in Repos /\ Len(q.branch) = n /\ q.branch[n] = r.branch[n]
  BY ResetHardToType
<1>2. Tip(q) = to /\ q.index = to
  BY <1>1 DEF Tip, ResetHardTo
<1>3. ASSUME r.tree = r.index PROVE q.tree = to
  <2>1. Untracked(r) = {}
    BY <1>3 DEF Untracked
  <2>2. \A f \in Files : q.tree[f] = to[f]
    BY <2>1 DEF ResetHardTo
  <2>3. q.tree \in Trees /\ q.index \in Trees
    BY <1>1 DEF Repos
  <2>4. QED
    BY <1>2, <2>2, <2>3, TreeEqual
<1>4. QED
  BY <1>2, <1>3

---------------------------------------------------------------------------
(* A coder call *)

\* What a call may leave behind, given the repository it found.
Left(r) ==
  /\ stage' = "errored" => r.index = Tip(r)
  /\ stage' = "coded" /\ ~coder.same =>
       Staged(r) # {} \/ (coder.commits /\ Len(r.branch) > Len(repo.branch))
  /\ coder.faults = {} /\ repo.tree = Tip(repo) =>
       IF stage' = "coded" THEN r.tree = r.index ELSE r.tree = Tip(r)

\* The files written with something new differ from the branch, the others do
\* not change.
LEMMA WriteDiffers ==
  ASSUME Inv, stage # "idle", NEW W, NEW S, CoderWrites(W, S)
  PROVE  LET r == Write(repo, W, S)
         IN  /\ r \in Repos /\ r.branch = repo.branch /\ r.index = repo.index
             /\ Tip(r) = Tip(repo)
             /\ \A f \in Files \ W : r.tree[f] = repo.tree[f]
             /\ ~coder.same => \A f \in W : r.tree[f] # Tip(repo)[f]
<1>1. TypeOK /\ ticket \in Tickets /\ call \in 1..MaxRetries + 3
  BY DEF Inv, TypeOK, Bookkeeping
<1>2. repo \in Repos /\ Len(repo.branch) >= 1
  BY <1>1, LenType
<1> DEFINE r == Write(repo, W, S)
<1>3. r \in Repos /\ r.branch = repo.branch
  BY <1>1, <1>2, WriteType
<1>4. r.index = repo.index /\ Tip(r) = Tip(repo)
  BY <1>2, <1>3 DEF Write, Repos, Tip
<1>5. \A f \in Files : r.tree[f] = IF f \in W \cap S THEN Tip(repo)[f]
                                   ELSE IF f \in W THEN <<ticket, call>>
                                   ELSE repo.tree[f]
  BY <1>2 DEF Write, Repos
<1>6. W \subseteq Files /\ (~coder.same => S = {})
      /\ \A f \in W \ S : Tip(repo)[f] # <<ticket, call>>
  BY DEF CoderWrites
<1> HIDE DEF r
<1>7. QED
  BY <1>3, <1>4, <1>5, <1>6 DEF r

LEMMA ApiLeaves ==
  ASSUME Inv, repo.index = Tip(repo), ApiCall
  PROVE  Left(repo')
<1>1. PICK W \in SUBSET Scope[ticket], S \in SUBSET Files :
        /\ CoderWrites(W, S)
        /\ \/ W # {} /\ CoderDone(Write(repo, W, S), W)
           \/ W = {} /\ CoderFailed(Write(repo, W, S))
           \/ "scope" \in coder.faults /\ CoderFailed(Write(repo, W, S))
  BY DEF ApiCall
<1> DEFINE r == Write(repo, W, S)
<1>2. stage # "idle" /\ W \subseteq Files
  BY <1>1 DEF ApiCall, CoderWrites
<1>3. /\ r \in Repos /\ r.branch = repo.branch /\ r.index = Tip(r)
      /\ Tip(r) = Tip(repo)
      /\ \A f \in Files \ W : r.tree[f] = repo.tree[f]
      /\ ~coder.same => \A f \in W : r.tree[f] # Tip(repo)[f]
  BY <1>1, <1>2, WriteDiffers
<1>4. Len(r.branch) >= 1
  BY <1>3, LenType DEF Inv
<1> HIDE DEF r
<1>5. CASE W # {} /\ CoderDone(r, W)
  <2>1. stage' = "coded" /\ repo' = Add(r, W)
    BY <1>5 DEF CoderDone
  <2>2. ~coder.same => Staged(repo') # {}
    BY <1>2, <1>3, <1>4, <1>5, <2>1, AddStages
  <2>3. repo.tree = Tip(repo) => repo'.tree = repo'.index
    BY <1>3, <1>4, <2>1, AddStages
  <2>4. QED
    BY <2>1, <2>2, <2>3 DEF Left
<1>6. CASE CoderFailed(r) /\ (W = {} \/ "scope" \in coder.faults)
  <2>1. stage' = "errored" /\ repo' = r
    BY <1>6 DEF CoderFailed
  <2>2. W = {} /\ repo.tree = Tip(repo) => r.tree = Tip(r)
    <3>1. r.tree \in Trees /\ Tip(r) \in Trees
      BY <1>3, <1>4, PartTypes
    <3>2. QED
      BY <1>3, <3>1, TreeEqual
  <2>3. QED
    BY <1>3, <1>6, <2>1, <2>2 DEF Left
<1>7. QED
  BY <1>1, <1>5, <1>6 DEF r

LEMMA CliLeaves ==
  ASSUME Inv, repo.index = Tip(repo), CliCall
  PROVE  Left(repo')
<1>1. PICK W \in SUBSET Files, S \in SUBSET Files, commits \in BOOLEAN :
        /\ CoderWrites(W, S)
        /\ W \subseteq Scope[ticket] \/ "scope" \in coder.faults
        /\ commits => coder.commits
        /\ LET wrote == Write(repo, W, S)
               r     == IF commits THEN Commit(Add(wrote, Files), ticket) ELSE wrote
               files == Changed(r, repo)
           IN  \/ "error" \in coder.faults /\ CoderFailed(r)
               \/ /\ ~(files \subseteq Scope[ticket])
                  /\ CoderFailed(ResetHardTo(r, Len(repo.branch)))
               \/ files = {} /\ CoderFailed(r)
               \/ /\ files # {} /\ files \subseteq Scope[ticket]
                  /\ CoderDone(r, files)
  BY DEF CliCall
<1> DEFINE wrote == Write(repo, W, S)
           r     == IF commits THEN Commit(Add(wrote, Files), ticket) ELSE wrote
           files == Changed(r, repo)
<1>2. stage # "idle" /\ ticket \in Tickets /\ TypeOK
  BY DEF CliCall, Inv, TypeOK, Bookkeeping
<1>3. /\ wrote \in Repos /\ wrote.branch = repo.branch /\ wrote.index = Tip(wrote)
      /\ Tip(wrote) = Tip(repo)
      /\ \A f \in Files \ W : wrote.tree[f] = repo.tree[f]
  BY <1>1, <1>2, WriteDiffers
<1>4. /\ repo \in Repos /\ Len(repo.branch) \in Nat /\ Len(repo.branch) >= 1
      /\ Len(wrote.branch) >= 1
  BY <1>2, <1>3, LenType
<1> HIDE DEF wrote
\* Nothing is staged after the call, and the tree differs from what the call
\* found only in what it reports and in what it wrote.
<1>5. /\ r \in Repos /\ r.index = Tip(r) /\ Len(r.branch) >= 1
      /\ \A f \in Files \ files :
           r.tree[f] = Tip(r)[f] \/ repo.tree[f] # Tip(repo)[f]
      /\ files \subseteq Files
      /\ repo.tree = Tip(repo) => files \subseteq W
      /\ files # {} => \/ \E f \in files : r.tree[f] # Tip(r)[f]
                       \/ coder.commits /\ Len(r.branch) > Len(repo.branch)
  <2>1. CASE ~commits
    <3>1. r = wrote
      BY <2>1
    <3>2. files = {f \in Files : wrote.tree[f] # Tip(wrote)[f]}
                    \ (Untracked(wrote) \cap Untracked(repo))
      BY <1>3, <3>1 DEF Changed, Dirty, Staged
    <3>3. \A f \in Untracked(repo) : repo.tree[f] # Tip(repo)[f]
      BY DEF Untracked
    <3>4. QED
      BY <1>3, <1>4, <3>1, <3>2, <3>3
  <2>2. CASE commits
    <3>1. /\ r \in Repos /\ Tip(r) = wrote.tree /\ r.index = wrote.tree
          /\ r.tree = wrote.tree
          /\ wrote.tree # Tip(wrote) => Len(r.branch) = Len(repo.branch) + 1
      BY <1>2, <1>3, <1>4, <2>2, CommitAll
    <3>2. files = {f \in Files : wrote.tree[f] # Tip(repo)[f]}
      BY <3>1 DEF Changed, Dirty, Staged
    <3>3. Len(r.branch) >= 1
      <4>1. Keeps(wrote, r)
        BY <1>2, <1>3, <1>4, <2>2, CommitType, AddType DEF Keeps
      <4>2. QED
        BY <1>4, <4>1, LenProperties DEF Keeps, Repos
    <3>4. QED
      BY <1>1, <1>3, <1>4, <2>2, <3>1, <3>2, <3>3
  <2>3. QED
    BY <2>1, <2>2
<1> HIDE DEF r, files
<1>6. CASE /\ files # {} /\ files \subseteq Scope[ticket]
           /\ CoderDone(r, files)
  <2>1. stage' = "coded" /\ repo' = Add(r, files)
    BY <1>6 DEF CoderDone
  <2>2. repo'.branch = r.branch
    BY <1>5, <2>1, AddType
  <2>3. Staged(repo') # {} \/ (coder.commits /\ Len(repo'.branch) > Len(repo.branch))
    BY <1>5, <1>6, <2>1, <2>2, AddStages
  <2>4. repo.tree = Tip(repo) => repo'.tree = repo'.index
    BY <1>5, <2>1, AddStages
  <2>5. QED
    BY <2>1, <2>3, <2>4 DEF Left
<1>7. CASE CoderFailed(r) /\ ("error" \in coder.faults \/ files = {})
  <2>1. stage' = "errored" /\ repo' = r
    BY <1>7 DEF CoderFailed
  <2>2. files = {} /\ repo.tree = Tip(repo) => r.tree = Tip(r)
    <3>1. r.tree \in Trees /\ Tip(r) \in Trees
      BY <1>5, PartTypes
    <3>2. QED
      BY <1>5, <3>1, TreeEqual
  <2>3. QED
    BY <1>5, <1>7, <2>1, <2>2 DEF Left
<1>8. CASE ~(files \subseteq Scope[ticket])
           /\ CoderFailed(ResetHardTo(r, Len(repo.branch)))
  <2>1. stage' = "errored" /\ repo' = ResetHardTo(r, Len(repo.branch))
    BY <1>8 DEF CoderFailed
  <2>2. Keeps(repo, r)
    BY <1>1, <1>2, <1>3, <1>4, CommitType, AddType DEF r, Keeps
  <2>3. Len(repo.branch) \in 1..Len(r.branch)
    BY <1>4, <2>2, LenProperties DEF Keeps, Repos
  <2>4. repo'.index = Tip(repo')
    BY <2>1, <2>3, <1>5, ResetTip
  <2>5. QED
    BY <1>1, <1>5, <1>8, <2>1, <2>4 DEF Left
<1>9. QED
  BY <1>1, <1>6, <1>7, <1>8 DEF r, files, wrote
---------------------------------------------------------------------------
(* Verdicts and commits *)

LEMMA InitWork == Init => IndexInv /\ TreeInv /\ CodedInv
BY DEF Init, IndexInv, TreeInv, CodedInv, Tip

\* What a commit of the index leaves behind.
LEMMA CommitClears ==
  ASSUME NEW r \in Repos, Len(r.branch) >= 1, NEW t \in Tickets
  PROVE  LET q == Commit(r, t)
         IN  /\ q.index = Tip(q)
             /\ r.tree = r.index => q.tree = Tip(q)
             /\ Staged(r) # {} => Len(q.branch) = Len(r.branch) + 1
<1>1. r.index \in Trees /\ Tip(r) \in Trees /\ r.branch \in Seq(Commits)
  BY PartTypes DEF Repos
<1>2. CASE Staged(r) = {}
  <2>1. r.index = Tip(r)
    BY <1>1, <1>2, TreeEqual DEF Staged
  <2>2. QED
    BY <1>2, <2>1 DEF Commit
<1>3. CASE Staged(r) # {}
  <2> DEFINE c == [by |-> t, tree |-> r.index]
             q == Commit(r, t)
  <2>1. q = [r EXCEPT !.branch = Append(@, c)]
    BY <1>3 DEF Commit
  <2>2. q.branch = Append(r.branch, c) /\ q.index = r.index /\ q.tree = r.tree
    BY <2>1 DEF Repos
  <2>3. c \in Commits
    BY <1>1 DEF Commits
  <2>4. Len(q.branch) = Len(r.branch) + 1
    BY <1>1, <2>2, <2>3, AppendProperties
  <2>5. Tip(q) = r.index
    BY <1>3, CommitType
  <2>6. QED
    BY <2>2, <2>4, <2>5
<1>4. QED
  BY <1>2, <1>3

\* What a reset leaves behind.
LEMMA ResetClears ==
  ASSUME NEW r \in Repos
  PROVE  LET q == ResetChanges(r)
         IN  q.branch = r.branch /\ q.index = Tip(q) /\ q.tree = Tip(q)
BY DEF ResetChanges, Repos, Tip

\* The steps that take up, leave or approve work do not touch it; only a coder
\* call leads to "coded".
LEMMA StepWork ==
  ASSUME Inv, IndexInv, [Next]_vars,
         coder.faults = {} => TreeInv
  PROVE  IndexInv' /\ (coder.faults = {} => TreeInv')
<1>1. TypeOK /\ Bookkeeping
  BY DEF Inv
<1>2. stage # "idle" => ticket \in Tickets
  BY <1>1 DEF TypeOK, Bookkeeping
<1>3. /\ repo \in Repos /\ Len(repo.branch) \in Nat /\ Len(repo.branch) >= 1
      /\ start \in 1..Len(repo.branch) /\ preSplit \in 1..Len(repo.branch)
  BY <1>1, LenType DEF TypeOK
<1>4. coder' = coder
  BY SameCoder
<1>5. ASSUME stage' \notin {"coded", "approved"}, repo'.index = Tip(repo'),
             coder.faults = {} => repo'.tree = Tip(repo')
      PROVE  IndexInv' /\ (coder.faults = {} => TreeInv')
  BY <1>5 DEF IndexInv, TreeInv
<1>6. CASE TakeTicket \/ CoderError \/ ChildPasses \/ Finish
  <2>1. /\ repo' = repo /\ stage \notin {"coded", "approved"}
        /\ stage' \notin {"coded", "approved"}
    BY <1>6 DEF TakeTicket, CoderError, ChildPasses, Finish, StartChild,
                CallAgain, Return, NotRepaired
  <2>2. QED
    BY <1>5, <2>1 DEF IndexInv, TreeInv
<1>7. CASE ApiCall \/ CliCall
  <2>1. /\ stage = "call" /\ stage' \in {"coded", "errored"} /\ start' = start
    BY <1>7 DEF ApiCall, CliCall, CoderDone, CoderFailed
  <2>2. repo.index = Tip(repo) /\ (coder.faults = {} => repo.tree = Tip(repo))
    BY <2>1 DEF IndexInv, TreeInv
  <2>3. Left(repo')
    BY <1>7, <2>2, ApiLeaves, CliLeaves
  <2>4. Keeps(repo, repo')
    BY <1>1, <1>2, <1>7, <2>1, CoderKeeps
  <2>5. Len(repo'.branch) \in Nat
    BY <2>4, LenProperties DEF Keeps, Repos
  <2>6. QED
    BY <1>3, <1>4, <2>1, <2>2, <2>3, <2>5 DEF Left, IndexInv, TreeInv
<1>8. CASE Approve
  BY <1>4, <1>8 DEF Approve, IndexInv, TreeInv
<1>9. CASE GovernanceFails \/ Reject \/ ChecksPass \/ ChecksFail \/ CommitFinal
  <2>1. /\ stage \in {"coded", "approved"} /\ stage' \in {"call", "returned"}
        /\ repo' = ResetChanges(repo) \/ repo' = Commit(repo, ticket)
    BY <1>9 DEF GovernanceFails, Reject, ChecksPass, ChecksFail, CommitFinal,
                CommitUngoverned, CallAgain, Return, NotRepaired
  <2>2. repo'.index = Tip(repo') /\ (repo.tree = repo.index => repo'.tree = Tip(repo'))
    BY <1>2, <1>3, <2>1, ResetClears, CommitClears
  <2>3. QED
    BY <1>5, <2>1, <2>2 DEF TreeInv
<1>10. CASE SplitLastResort
  BY <1>3, <1>5, <1>10, ResetClears DEF SplitLastResort, StartChild
<1>11. CASE ChildFails
  <2>1. /\ stage = "returned" /\ stage' = stage /\ repo' = ResetHardTo(repo, preSplit)
    BY <1>11 DEF ChildFails
  <2>2. repo.index = Tip(repo) /\ (coder.faults = {} => repo.tree = Tip(repo))
    BY <2>1 DEF IndexInv, TreeInv
  <2>3. QED
    BY <1>3, <1>5, <2>1, <2>2, ResetTip
<1>12. CASE UNCHANGED vars
  BY <1>4, <1>12 DEF vars, IndexInv, TreeInv, Staged, Tip
<1>13. QED
  BY <1>6, <1>7, <1>8, <1>9, <1>10, <1>11, <1>12 DEF Next

LEMMA StepCoded ==
  ASSUME Inv, IndexInv, CodedInv, ~coder.same, [Next]_vars
  PROVE  CodedInv'
<1>1. TypeOK /\ Bookkeeping
  BY DEF Inv
<1>2. /\ repo \in Repos /\ Len(repo.branch) \in Nat /\ Len(repo.branch) >= 1
      /\ start \in 1..Len(repo.branch)
  BY <1>1, LenType DEF TypeOK
<1>3. CASE TakeTicket \/ ApiCall \/ CliCall \/ Approve \/ SplitLastResort \/ Finish
  BY <1>3 DEF TakeTicket, ApiCall, CliCall, CoderDone, CoderFailed, Approve,
              SplitLastResort, StartChild, Finish, CodedInv
<1>4. CASE CoderError \/ GovernanceFails \/ ChildFails
  <2>1. stage' # "returned" \/ verdict' = "FAIL"
    BY <1>4 DEF CoderError, GovernanceFails, ChildFails, CallAgain, Return,
                NotRepaired
  <2>2. QED
    BY <2>1 DEF CodedInv
<1>5. CASE Reject \/ ChecksPass \/ ChecksFail \/ CommitFinal
  <2>1. /\ stage \in {"coded", "approved"} /\ start' = start
        /\ \/ stage' # "returned" \/ verdict' = "FAIL"
           \/ repo' = Commit(repo, ticket)
    BY <1>5 DEF Reject, ChecksPass, ChecksFail, CommitFinal, CommitUngoverned,
                CallAgain, Return, NotRepaired
  <2>2. ticket \in Tickets
    BY <1>1, <2>1 DEF TypeOK, Bookkeeping
  <2>3. Staged(repo) # {} \/ Len(repo.branch) > start
    BY <2>1 DEF IndexInv
  <2>4. ASSUME repo' = Commit(repo, ticket) PROVE Len(repo'.branch) > start
    <3>1. Len(repo'.branch) \in {Len(repo.branch), Len(repo.branch) + 1}
      BY <1>2, <2>2, <2>4, CommitType
    <3>2. Staged(repo) # {} => Len(repo'.branch) = Len(repo.branch) + 1
      BY <1>2, <2>2, <2>4, CommitClears
    <3>3. QED
      BY <1>2, <2>3, <3>1, <3>2
  <2>5. QED
    BY <2>1, <2>4 DEF CodedInv
<1>6. CASE ChildPasses \/ UNCHANGED vars
  BY <1>6 DEF ChildPasses, StartChild, vars, CodedInv
<1>7. QED
  BY <1>3, <1>4, <1>5, <1>6 DEF Next

\* With a coder that writes something new, a ticket that comes back as passed
\* or coded has a commit; with one that neither fails nor strays, all that
\* lies in the tree when the checks of a passed ticket have run is on the
\* branch (_run_ticket_with_retries, _git_add_files, _git_commit).
THEOREM CodeIsCommittedAndChecked == Spec => []CommitsAreChecked
<1> DEFINE IInv == /\ Inv /\ IndexInv
                   /\ coder.faults = {} => TreeInv
                   /\ ~coder.same => CodedInv
<1>1. Init => IInv
  BY InitInv, InitWork
<1>2. ASSUME IInv, [Next]_vars
      PROVE  IInv'
  <2>1. Inv' /\ coder' = coder
    BY <1>2, StepInv, SameCoder
  <2>2. IndexInv' /\ (coder.faults = {} => TreeInv')
    BY <1>2, StepWork
  <2>3. ~coder.same => CodedInv'
    BY <1>2, StepCoded
  <2>4. QED
    BY <2>1, <2>2, <2>3
<1>3. IInv => CommitsAreChecked
  BY DEF TreeInv, CodedInv, CommitsAreChecked, CodedIsCommitted,
         VerifiedIsCommitted, Returned
<1>4. QED
  BY <1>1, <1>2, <1>3, PTL DEF Spec
---------------------------------------------------------------------------
(* The contract with the run loop *)

Log == LogUpTo(repo.branch, Len(repo.branch))
PreSplitLog == LogUpTo(repo.branch, preSplit)

\* Of the children of a split, those that came before the one at hand are on
\* the branch, unless the coder may write what is there already.
SplitInv ==
  parent # NoTicket =>
    /\ {ticket} \cup Elements(todo) \subseteq Elements(Children[parent])
    /\ ~coder.same =>
         /\ Elements(Children[parent]) \subseteq
              Log \cup {ticket} \cup Elements(todo)
         /\ stage = "returned" /\ verdict = "PASS" => ticket \in Log

ContractInv == Inv /\ IndexInv /\ SplitInv

\* A commit adds the ticket it is for.
LEMMA CommitLog ==
  ASSUME NEW r \in Repos, Len(r.branch) >= 1, NEW t \in Tickets,
         Staged(r) # {}
  PROVE  LET q == Commit(r, t).branch
         IN  LogUpTo(q, Len(q)) = LogUpTo(r.branch, Len(r.branch)) \cup {t}
<1> DEFINE c == [by |-> t, tree |-> r.index]
           q == Commit(r, t).branch
           n == Len(r.branch)
<1>1. q = Append(r.branch, c)
  BY DEF Commit, Repos
<1>2. r.branch \in Seq(Commits) /\ c \in Commits /\ n \in Nat /\ n >= 1
  BY LenProperties DEF Repos, Commits
<1>3. /\ Len(q) = n + 1
      /\ \A k \in 1..n : q[k] = r.branch[k]
      /\ q[n + 1] = c
  BY <1>1, <1>2, AppendProperties
<1>4. c.by = t
  OBVIOUS
<1> HIDE DEF c, q, n
<1>5. 2..(n + 1) = (2..n) \cup {n + 1} /\ 2..n \subseteq 1..n
  BY <1>2
<1>6. \A k \in 2..n : q[k].by = r.branch[k].by
  BY <1>3, <1>5
<1>7. q[n + 1].by = t
  BY <1>3, <1>4
<1>8. {q[k].by : k \in 2..(n + 1)} = {r.branch[k].by : k \in 2..n} \cup {t}
  BY <1>5, <1>6, <1>7, Zenon
<1>9. QED
  BY <1>3, <1>8 DEF LogUpTo, q, n

LEMMA InitContract == Init => ContractInv
BY InitInv, InitWork DEF Init, ContractInv, SplitInv

\* What a step does to the log while commits are the runner's alone.
LEMMA StepLog ==
  ASSUME Inv, ~coder.commits, Next
  PROVE  IF ChildFails THEN Log' = PreSplitLog
         ELSE \/ repo'.branch = repo.branch /\ Log' = Log
              \/ /\ stage \in {"coded", "approved"} /\ repo' = Commit(repo, ticket)
                 /\ Staged(repo) # {} /\ Log' = Log \cup {ticket}
<1>1. TypeOK /\ (stage # "idle" => ticket \in Tickets)
  BY DEF Inv, TypeOK, Bookkeeping
<1>2. /\ repo \in Repos /\ Len(repo.branch) \in Nat /\ Len(repo.branch) >= 1
      /\ preSplit \in 1..Len(repo.branch)
  BY <1>1, LenType DEF TypeOK
<1>3. ASSUME repo'.branch = repo.branch PROVE Log' = Log
  BY <1>3 DEF Log
<1>4. CASE ChildFails
  <2>1. /\ Len(repo'.branch) = preSplit
        /\ \A i \in 1..preSplit : repo'.branch[i] = repo.branch[i]
    BY <1>2, <1>4, ResetHardToType DEF ChildFails
  <2>2. QED
    BY <1>2, <1>4, <2>1 DEF Log, PreSplitLog, LogUpTo
<1>5. CASE ApiCall \/ CliCall
  <2>1. /\ ticket \in Tickets /\ stage = "call" /\ stage' # stage
    BY <1>1, <1>5 DEF ApiCall, CliCall, CoderDone, CoderFailed
  <2>2. Keeps(repo, repo') /\ Len(repo'.branch) = Len(repo.branch)
    BY <1>1, <1>5, <2>1, CoderKeeps
  <2>3. repo'.branch = repo.branch
    BY <1>2, <2>2, SeqEqual DEF Keeps, Repos
  <2>4. ~ChildFails
    BY <2>1 DEF ChildFails
  <2>5. QED
    BY <1>3, <2>3, <2>4
<1>6. CASE ~(ApiCall \/ CliCall \/ ChildFails)
  <2>1. \/ repo' = repo \/ repo' = ResetChanges(repo)
        \/ stage \in {"coded", "approved"} /\ repo' = Commit(repo, ticket)
    BY <1>6 DEF Next, TakeTicket, CoderError, Approve, GovernanceFails, Reject,
                ChecksPass, ChecksFail, CommitFinal, CommitUngoverned,
                SplitLastResort, ChildPasses, Finish
  <2>2. CASE repo' = repo \/ repo' = ResetChanges(repo)
    BY <1>2, <1>3, <1>6, <2>2, ResetClears
  <2>3. CASE stage \in {"coded", "approved"} /\ repo' = Commit(repo, ticket)
    <3>1. ticket \in Tickets
      BY <1>1, <2>3
    <3>2. CASE Staged(repo) = {}
      BY <1>3, <1>6, <2>3, <3>2 DEF Commit
    <3>3. CASE Staged(repo) # {}
      <4>1. Log' = Log \cup {ticket}
        BY <1>2, <2>3, <3>1, <3>3, CommitLog DEF Log
      <4>2. QED
        BY <1>6, <2>3, <3>3, <4>1
    <3>4. QED
      BY <3>2, <3>3
  <2>4. QED
    BY <2>1, <2>2, <2>3
<1>7. QED
  BY <1>4, <1>5, <1>6

LEMMA HeadAndTail ==
  ASSUME NEW S, NEW s \in Seq(S), s # <<>>
  PROVE  Elements(s) = {Head(s)} \cup Elements(Tail(s))
<1>1. /\ Head(s) = s[1] /\ Len(s) \in Nat /\ Len(s) >= 1
      /\ DOMAIN s = 1..Len(s)
      /\ DOMAIN Tail(s) = 1..(Len(s) - 1)
      /\ \A k \in 1..(Len(s) - 1) : Tail(s)[k] = s[k + 1]
  BY EmptySeq, LenProperties, HeadTailProperties
<1>2. ASSUME NEW k \in 1..Len(s)
      PROVE  s[k] = Head(s) \/ s[k] \in Elements(Tail(s))
  <2>1. k = 1 \/ (k - 1 \in DOMAIN Tail(s) /\ s[k] = Tail(s)[k - 1])
    BY <1>1
  <2>2. QED
    BY <1>1, <2>1 DEF Elements
<1>3. ASSUME NEW k \in 1..(Len(s) - 1)
      PROVE  Tail(s)[k] \in Elements(s)
  BY <1>1 DEF Elements
<1>4. Head(s) \in Elements(s)
  BY <1>1 DEF Elements
<1>5. QED
  BY <1>1, <1>2, <1>3, <1>4, Zenon DEF Elements

\* What is remembered of the branch before a split stays what it was.
LEMMA StepPreSplit ==
  ASSUME Inv, ~coder.commits, Next, ~ChildFails, preSplit' = preSplit
  PROVE  PreSplitLog' = PreSplitLog
<1>1. TypeOK
  BY DEF Inv
<1>2. /\ repo \in Repos /\ Len(repo.branch) \in Nat /\ Len(repo.branch) >= 1
      /\ preSplit \in 1..Len(repo.branch)
  BY <1>1, LenType DEF TypeOK
<1>3. \/ repo'.branch = repo.branch
      \/ ticket \in Tickets /\ repo' = Commit(repo, ticket)
  BY StepLog DEF Inv, TypeOK, Bookkeeping
<1>4. \A k \in 1..Len(repo.branch) : repo'.branch[k] = repo.branch[k]
  BY <1>2, <1>3, CommitType
<1>5. QED
  BY <1>2, <1>4 DEF PreSplitLog, LogUpTo

LEMMA StepSplit ==
  ASSUME ContractInv, ~coder.commits, [Next]_vars
  PROVE  SplitInv'
<1>1. Inv /\ IndexInv /\ SplitInv /\ TypeOK /\ coder' = coder
  BY SameCoder DEF ContractInv, Inv
<1>2. CASE TakeTicket \/ Finish \/ ChildFails
  <2>1. parent' = NoTicket
    BY <1>1, <1>2 DEF TakeTicket, Finish, ChildFails, split, Inv, Bookkeeping
  <2>2. QED
    BY <2>1 DEF SplitInv
<1>3. CASE SplitLastResort
  <2>1. /\ parent' = ticket /\ ticket' = Head(Children[ticket])
        /\ todo' = Tail(Children[ticket]) /\ Children[ticket] # <<>>
        /\ stage' = "call" /\ stage # "idle"
    BY <1>3 DEF SplitLastResort, StartChild
  <2>2. Children[ticket] \in Seq(ChildTickets)
    BY <1>1, <2>1, AttemptConstants DEF TypeOK, Inv, Bookkeeping
  <2>3. Elements(Children[ticket]) = {ticket'} \cup Elements(todo')
    BY <2>1, <2>2, HeadAndTail
  <2>4. QED
    BY <2>1, <2>3 DEF SplitInv
<1>4. CASE ChildPasses
  <2>1. CASE todo # <<>>
    <3>1. /\ ticket' = Head(todo) /\ todo' = Tail(todo) /\ parent' = parent
          /\ repo' = repo /\ stage' = "call"
          /\ stage = "returned" /\ verdict = "PASS" /\ parent # NoTicket
      BY <1>4, <2>1 DEF ChildPasses, StartChild
    <3>2. Elements(todo) = {ticket'} \cup Elements(todo')
      BY <1>1, <2>1, <3>1, HeadAndTail DEF TypeOK
    <3>3. Log' = Log
      BY <3>1 DEF Log
    <3>4. QED
      BY <1>1, <3>1, <3>2, <3>3 DEF SplitInv
  <2>2. CASE todo = <<>>
    BY <1>4, <2>2 DEF ChildPasses, SplitInv
  <2>3. QED
    BY <2>1, <2>2
<1>5. CASE Next /\ ~(TakeTicket \/ Finish \/ ChildFails \/ SplitLastResort \/ ChildPasses)
  <2>1. UNCHANGED split /\ ticket' = ticket
    BY <1>5 DEF Next, ApiCall, CliCall, CoderError, Approve, GovernanceFails,
                Reject, ChecksPass, ChecksFail, CommitFinal, CommitUngoverned
  <2>2. Log \subseteq Log'
    BY <1>1, <1>5, StepLog
  <2>3. ASSUME ~coder.same, stage' = "returned", verdict' = "PASS"
        PROVE  ticket \in Log'
    <3>1. stage = "approved" /\ repo' = Commit(repo, ticket)
      BY <1>5, <2>3 DEF Next, ApiCall, CliCall, CoderDone, CoderFailed,
           CoderError, Approve, GovernanceFails, Reject, ChecksPass, ChecksFail,
           CommitFinal, CommitUngoverned, CallAgain, Return, NotRepaired
    <3>2. Staged(repo) # {}
      BY <1>1, <2>3, <3>1 DEF IndexInv
    <3>3. /\ repo \in Repos /\ Len(repo.branch) >= 1 /\ ticket \in Tickets
      BY <1>1, <3>1, LenType DEF TypeOK, Inv, Bookkeeping
    <3>4. QED
      BY <3>1, <3>2, <3>3, CommitLog DEF Log
  <2>4. QED
    BY <1>1, <2>1, <2>2, <2>3 DEF SplitInv, split
<1>6. CASE UNCHANGED vars
  BY <1>1, <1>6 DEF vars, split, SplitInv, Log
<1>7. QED
  BY <1>2, <1>3, <1>4, <1>5, <1>6 DEF Next

---------------------------------------------------------------------------
(* Each step, seen from the run loop *)

\* The state the run loop sees.
AStage == IF parent # NoTicket THEN "children"
          ELSE IF stage \in {"idle", "returned"} THEN stage ELSE "exec"
ACurrent == IF parent # NoTicket THEN parent ELSE ticket
APreSplit == IF parent # NoTicket THEN PreSplitLog ELSE {}
AVerdict == IF stage = "returned" /\ parent = NoTicket THEN verdict
            ELSE "PENDING"
Seen == <<AStage, ACurrent, Log, APreSplit, AVerdict>>

\* The attempts at a ticket, or at a child, are not seen; only their end is.
LEMMA AttemptsContract ==
  ASSUME ContractInv, ~coder.commits,
         \/ ApiCall \/ CliCall \/ CoderError \/ Approve \/ GovernanceFails
         \/ Reject \/ ChecksPass \/ ChecksFail \/ CommitFinal
  PROVE  Outcome!Next \/ UNCHANGED Seen
<1>1. Inv /\ IndexInv /\ SplitInv /\ TypeOK /\ Next
  BY DEF ContractInv, Inv, Next
<1>2. /\ parent' = parent /\ ticket' = ticket /\ preSplit' = preSplit
      /\ stage \notin {"idle", "returned"} /\ stage' # "idle"
      /\ \/ /\ stage' # "returned"
            /\ stage \in {"coded", "approved"} => repo'.branch = repo.branch
         \/ stage' = "returned" /\ verdict' = "FAIL" /\ repo'.branch = repo.branch
         \/ /\ stage \in {"coded", "approved"}
            /\ stage' = "returned" /\ verdict' \in {"PASS", "CODED_UNGOVERNED"}
            /\ repo' = Commit(repo, ticket)
  <2>1. ResetChanges(repo).branch = repo.branch
    BY <1>1, LenType, ResetClears
  <2>2. CASE ApiCall \/ CliCall
    BY <2>2 DEF ApiCall, CliCall, CoderDone, CoderFailed, split
  <2>3. CASE CoderError \/ Approve \/ GovernanceFails \/ ChecksPass \/ CommitFinal
    BY <2>1, <2>3 DEF CoderError, Approve, GovernanceFails, ChecksPass,
       CommitFinal, CommitUngoverned, CallAgain, Return, NotRepaired, split
  <2>4. CASE Reject \/ ChecksFail
    BY <2>1, <2>4 DEF Reject, ChecksFail, CommitUngoverned, CallAgain, Return,
                      NotRepaired, split
  <2>5. QED
    BY <2>2, <2>3, <2>4
<1>3. ~ChildFails /\ ticket \in Tickets
  BY <1>1, <1>2 DEF ChildFails, Inv, TypeOK, Bookkeeping
<1>4. PreSplitLog' = PreSplitLog
  BY <1>1, <1>2, <1>3, StepPreSplit
<1>5. \/ Log' = Log
      \/ /\ stage \in {"coded", "approved"} /\ repo' = Commit(repo, ticket)
         /\ Staged(repo) # {} /\ Log' = Log \cup {ticket}
  BY <1>1, <1>3, StepLog
<1>6. ASSUME repo'.branch = repo.branch PROVE Log' = Log
  BY <1>6 DEF Log
<1>7. CASE parent # NoTicket
  <2>1. /\ AStage = "children" /\ AStage' = AStage /\ ACurrent' = ACurrent
        /\ APreSplit' = APreSplit /\ AVerdict' = AVerdict
        /\ ACurrent = parent
    BY <1>2, <1>4, <1>7 DEF AStage, ACurrent, APreSplit, AVerdict
  <2>2. CASE Log' = Log
    BY <2>1, <2>2 DEF Seen
  <2>3. CASE Log' = Log \cup {ticket} /\ ticket \notin Log
    <3>1. ticket \in Elements(Children[parent]) /\ parent \in Tickets
      BY <1>1, <1>7 DEF SplitInv, TypeOK
    <3>2. Outcome!ChildCommits
      BY <2>1, <2>3, <3>1 DEF Outcome!ChildCommits, AStage, ACurrent, APreSplit,
                              AVerdict, Log, PreSplitLog
    <3>3. QED
      BY <3>2 DEF Outcome!Next
  <2>4. QED
    BY <1>5, <2>2, <2>3
<1>8. CASE parent = NoTicket
  <2>1. /\ AStage = "exec" /\ ACurrent = ticket /\ ACurrent' = ticket
        /\ APreSplit' = {} /\ APreSplit = {} /\ AVerdict = "PENDING"
        /\ stage' # "returned" => AStage' = "exec" /\ AVerdict' = "PENDING"
        /\ stage' = "returned" => AStage' = "returned" /\ AVerdict' = verdict'
    BY <1>2, <1>8 DEF AStage, ACurrent, APreSplit, AVerdict
  <2>2. CASE stage' # "returned"
    BY <1>2, <1>5, <1>6, <2>1, <2>2 DEF Seen
  <2>3. CASE stage' = "returned" /\ verdict' = "FAIL" /\ repo'.branch = repo.branch
    <3>1. Log' = Log
      BY <1>6, <2>3
    <3>2. Outcome!FailTicket
      BY <2>1, <2>3, <3>1 DEF Outcome!FailTicket, Outcome!Return, AStage,
                              ACurrent, APreSplit, AVerdict, Log, PreSplitLog
    <3>3. QED
      BY <3>2 DEF Outcome!Next
  <2>4. ASSUME NEW d \in {"PASS", "CODED_UNGOVERNED"},
               stage \in {"coded", "approved"}, stage' = "returned",
               verdict' = d, repo' = Commit(repo, ticket)
        PROVE  Outcome!CommitTicket(d)
    <3>1. Log' = Log \cup {ticket} \/ (Log' = Log /\ \E c \in Coders : c.same)
      <4>1. CASE coder.same
        BY <1>1, <1>5, <4>1 DEF TypeOK
      <4>2. CASE ~coder.same
        <5>1. Staged(repo) # {} /\ repo \in Repos /\ Len(repo.branch) >= 1
          BY <1>1, <2>4, <4>2, LenType DEF IndexInv
        <5>2. QED
          BY <1>3, <2>4, <5>1, CommitLog DEF Log
      <4>3. QED
        BY <4>1, <4>2
    <3>2. QED
      BY <2>1, <2>4, <3>1 DEF Outcome!CommitTicket, Outcome!Return, AStage,
                              ACurrent, APreSplit, AVerdict, Log, PreSplitLog
  <2>5. QED
    BY <1>2, <2>2, <2>3, <2>4 DEF Outcome!Next
<1>9. QED
  BY <1>7, <1>8

\* Taking a ticket, the split, its end and the return to the loop are seen as
\* what they are.
LEMMA StepContract ==
  ASSUME ContractInv, ~coder.commits, [Next]_vars
  PROVE  Outcome!Next \/ UNCHANGED Seen
<1>1. Inv /\ IndexInv /\ SplitInv /\ TypeOK /\ Bookkeeping
  BY DEF ContractInv, Inv
<1>2. CASE TakeTicket
  <2>1. /\ stage = "idle" /\ stage' = "call" /\ parent = NoTicket
        /\ parent' = parent /\ repo' = repo /\ ticket' = Head(queue)
        /\ ticket' \in Tickets
    BY <1>1, <1>2, HeadTailProperties DEF TakeTicket, split, Bookkeeping, TypeOK
  <2>2. Outcome!Take(ticket')
    BY <2>1 DEF Outcome!Take
  <2>3. QED
    BY <2>1, <2>2 DEF Outcome!Next
<1>3. CASE SplitLastResort
  <2>1. /\ stage \notin {"idle", "returned"} /\ parent = NoTicket
        /\ parent' = ticket /\ ticket # NoTicket /\ ticket \in Tickets
        /\ Children[ticket] # <<>> /\ preSplit' = Len(repo.branch)
        /\ repo' = ResetChanges(repo)
    BY <1>1, <1>3 DEF SplitLastResort, StartChild, RevparseHead, Bookkeeping, TypeOK
  <2>2. repo'.branch = repo.branch
    BY <1>1, <2>1, LenType, ResetClears
  <2>3. Log' = Log /\ PreSplitLog' = Log
    BY <2>1, <2>2 DEF Log, PreSplitLog
  <2>4. Elements(Children[ticket]) # {}
    <3>1. Children[ticket] \in Seq(ChildTickets)
      BY <2>1, AttemptConstants
    <3>2. QED
      BY <2>1, <3>1, HeadAndTail
  <2>5. Outcome!SplitLastResort
    BY <2>1, <2>3, <2>4 DEF Outcome!SplitLastResort, Log, PreSplitLog
  <2>6. QED
    BY <2>5 DEF Outcome!Next
<1>4. CASE ChildPasses
  <2>1. /\ stage = "returned" /\ parent # NoTicket /\ verdict = "PASS"
        /\ repo' = repo /\ preSplit' = preSplit
    BY <1>4 DEF ChildPasses
  <2>2. Log' = Log /\ PreSplitLog' = PreSplitLog
    BY <2>1 DEF Log, PreSplitLog
  <2>3. CASE todo # <<>>
    <3>1. parent' = parent
      BY <1>4, <2>3 DEF ChildPasses
    <3>2. QED
      BY <2>1, <2>2, <3>1 DEF Seen, AStage, ACurrent, APreSplit, AVerdict
  <2>4. CASE todo = <<>>
    <3>1. ticket' = parent /\ parent' = NoTicket /\ stage' = stage /\ verdict' = verdict
      BY <1>4, <2>4 DEF ChildPasses, StartChild
    <3>2. parent \in Tickets /\ coder \in Coders
      BY <1>1, <2>1 DEF TypeOK
    <3>3. Elements(todo) = {}
      BY <2>4 DEF Elements
    <3>4. Elements(Children[parent]) \subseteq Log \/ \E c \in Coders : c.same
      BY <1>1, <2>1, <3>2, <3>3 DEF SplitInv
    <3>5. Outcome!ChildrenPass
      BY <2>1, <2>2, <3>1, <3>2, <3>4 DEF Outcome!ChildrenPass, Outcome!Return,
                                          Log, PreSplitLog
    <3>6. QED
      BY <3>5 DEF Outcome!Next
  <2>5. QED
    BY <2>3, <2>4
<1>5. CASE ChildFails
  <2>1. /\ stage = "returned" /\ parent # NoTicket /\ stage' = stage
        /\ ticket' = parent /\ parent' = NoTicket /\ verdict' = "FAIL"
    BY <1>5 DEF ChildFails
  <2>2. Log' = PreSplitLog
    BY <1>1, <1>5, StepLog DEF Next
  <2>3. Outcome!ChildFails
    BY <2>1, <2>2 DEF Outcome!ChildFails, Outcome!Return, Log, PreSplitLog
  <2>4. QED
    BY <2>3 DEF Outcome!Next
<1>6. CASE Finish
  <2>1. /\ stage = "returned" /\ parent = NoTicket /\ parent' = parent
        /\ stage' = "idle" /\ ticket' = NoTicket /\ repo' = repo
    BY <1>6 DEF Finish, split
  <2>2. Outcome!Leave
    BY <2>1 DEF Outcome!Leave
  <2>3. QED
    BY <2>2 DEF Outcome!Next
<1>7. CASE UNCHANGED vars
  BY <1>7 DEF vars, split, Seen, AStage, ACurrent, APreSplit, AVerdict, Log,
              PreSplitLog
<1>8. QED
  BY <1>2, <1>3, <1>4, <1>5, <1>6, <1>7, AttemptsContract DEF Next

\* As long as commits are the runner's alone, what the run loop sees of the
\* attempts, of their retries, resets and children, is a behaviour of
\* TicketOutcome: a ticket comes back committed or failed, and a split with the
\* commits of all its children or of none (_run_ticket_with_retries).
THEOREM AttemptsKeepContract == Spec => KeepsContract
<1>1. Init => ContractInv /\ (~coder.commits => Outcome!Init)
  <2> SUFFICES ASSUME Init PROVE ContractInv /\ Outcome!Init
    OBVIOUS
  <2>1. ContractInv
    BY InitContract
  <2>2. Log = {}
    BY DEF Init, Log, LogUpTo
  <2>3. Outcome!Init
    BY <2>2 DEF Init, Outcome!Init, Log
  <2>4. QED
    BY <2>1, <2>3
<1> DEFINE IInv == Inv /\ IndexInv /\ (coder.faults = {} => TreeInv)
                       /\ (~coder.commits => SplitInv)
<1>2. Init => IInv
  BY <1>1, InitWork DEF ContractInv
<1>3. IInv /\ [Next]_vars => IInv'
  <2> SUFFICES ASSUME IInv, [Next]_vars PROVE IInv'
    OBVIOUS
  <2>1. Inv' /\ coder' = coder
    BY StepInv, SameCoder
  <2>2. IndexInv' /\ (coder.faults = {} => TreeInv')
    BY StepWork
  <2>3. ~coder.commits => SplitInv'
    BY StepSplit DEF ContractInv
  <2>4. QED
    BY <2>1, <2>2, <2>3
<1>4. IInv /\ [Next]_vars => (~coder.commits => [Outcome!Next]_(Outcome!vars))
  <2> SUFFICES ASSUME IInv, [Next]_vars, ~coder.commits
               PROVE  Outcome!Next \/ UNCHANGED Outcome!vars
    OBVIOUS
  <2>1. Outcome!Next \/ UNCHANGED Seen
    BY StepContract DEF ContractInv
  <2>2. QED
    BY <2>1 DEF Seen, Outcome!vars, AStage, ACurrent, APreSplit, AVerdict, Log,
                PreSplitLog
<1> HIDE DEF IInv
<1>5. QED
  BY <1>1, <1>2, <1>3, <1>4, PTL DEF Spec, KeepsContract
=============================================================================
