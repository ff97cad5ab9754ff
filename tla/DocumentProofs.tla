--------------------------- MODULE DocumentProofs ---------------------------
(***************************************************************************)
(* Theorems about DocumentRun, for any number of sections, roles, doc-     *)
(* specs, runs and approve commands, however these overlap and wherever    *)
(* they are cut.                                                           *)
(***************************************************************************)
EXTENDS DocumentRun, TLAPS

---------------------------------------------------------------------------
(* Types *)

\* The entries of section_results, of which none is pending or failed.
Entries == Verified \cup {"PROVISIONAL_UNVERIFIED"}

\* What a stage of the run has at hand.
AtStage ==
  /\ pc # "idle" => spec \in Specs
  /\ pc = "sections" => /\ Len(results) < N /\ attempt \in 1..(Retries + 1)
                        /\ status \in [Sections -> Statuses]
  /\ pc \notin {"idle", "sections"} => Len(results) = N

RunTypes ==
  /\ premium \in BOOLEAN /\ runs \in 0..MaxRuns /\ spec \in Specs \cup {None}
  /\ pc \in {"idle", "sections", "global", "claims", "decide", "evidence"}
  /\ status \in [Sections -> Statuses] \cup {<<>>}
  /\ results \in Seq(Entries) /\ Len(results) <= N
  /\ attempt \in 0..(Retries + 1) /\ findings \subseteq {"warning", "error"}
  /\ disposition \in Released \cup {"PENDING", "FAIL", "BLOCKED_FOR_SIGNOFF"}
  /\ text \in [Sections -> Texts \cup {None}]

SigningTypes ==
  /\ store \in Records \cup {Torn} /\ last \in Records
  /\ approvals \in 0..MaxApprovals /\ signed \subseteq Documents \X Roles
  /\ cmd \in [Approvers -> Command \cup {None}]

TypeInv == RunTypes /\ SigningTypes /\ AtStage

LEMMA InitTypes == Init => TypeInv
<1> SUFFICES ASSUME Init PROVE TypeInv
  OBVIOUS
<1>1. NoSigns \in [Roles -> Signs \cup {None}]
  BY DEF NoSigns
<1>2. NoRecords \in Records
  BY <1>1 DEF NoRecords, Records
<1>3. SigningTypes
  BY DocumentConstants, <1>2 DEF Init, SigningTypes
<1>4. text \in [Sections -> Texts \cup {None}]
  <2>1. [doc |-> 0, verdict |-> "PASS"] \in Texts
    BY DocumentConstants DEF Texts, Documents, Verified
  <2>2. Empty \in [Sections -> Texts \cup {None}]
    BY DEF Empty
  <2>3. [i \in Sections |-> [doc |-> 0, verdict |-> "PASS"]] \in [Sections -> Texts \cup {None}]
    BY <2>1
  <2>4. QED
    BY <2>2, <2>3 DEF Init, Directory
<1>5. pc = "idle" /\ spec = None /\ runs = 0 /\ attempt = 0 /\ findings = {}
      /\ disposition = "PENDING" /\ premium \in BOOLEAN /\ status = <<>> /\ results = <<>>
  BY DEF Init
<1>6. results \in Seq(Entries) /\ Len(results) <= N
  BY DocumentConstants, <1>5
<1>7. 0 \in 0..MaxRuns /\ 0 \in 0..(Retries + 1)
  BY DocumentConstants
<1>8. RunTypes
  BY <1>4, <1>5, <1>6, <1>7 DEF RunTypes
<1>9. AtStage
  BY <1>5 DEF AtStage
<1>10. QED
  BY <1>3, <1>8, <1>9 DEF TypeInv

\* A text is written to the section in progress.
LEMMA WriteType ==
  ASSUME TypeInv, pc = "sections", NEW v \in Verified \cup {"FAIL"}, Write(v)
  PROVE  /\ text' \in [Sections -> Texts \cup {None}]
         /\ text'[Now] = [doc |-> runs, verdict |-> v]
         /\ \A i \in Sections \ {Now} : text'[i] = text[i]
<1>1. Now \in Sections
  BY DocumentConstants DEF Now, Sections, TypeInv, RunTypes, AtStage
<1>2. [doc |-> runs, verdict |-> v] \in Texts
  BY DEF Texts, Documents, TypeInv, RunTypes
<1> HIDE DEF Now
<1>3. QED
  BY <1>1, <1>2 DEF Write, TypeInv, RunTypes

LEMMA FinishType ==
  ASSUME TypeInv, pc = "sections", NEW s \in Statuses, NEW e \in Entries,
         Finish(s, e)
  PROVE  /\ status' \in [Sections -> Statuses]
         /\ results' = Append(results, e) /\ results' \in Seq(Entries)
         /\ Len(results') = Len(results) + 1 /\ Len(results') <= N
         /\ attempt' = 1 /\ 1 \in 1..(Retries + 1) /\ 1 \in 0..(Retries + 1)
         /\ pc' \in {"sections", "global"}
         /\ pc' = "sections" => Len(results') < N
         /\ pc' = "global" => Len(results') = N
<1>1. results \in Seq(Entries) /\ Len(results) \in Nat /\ Len(results) < N /\ N \in Nat
  BY DocumentConstants DEF TypeInv, RunTypes, AtStage
<1>2. status' \in [Sections -> Statuses]
  BY DEF Finish, TypeInv, AtStage
<1>3. results' = Append(results, e) /\ results' \in Seq(Entries)
      /\ Len(results') = Len(results) + 1
  BY <1>1 DEF Finish
<1>4. attempt' = 1 /\ 1 \in 1..(Retries + 1) /\ 1 \in 0..(Retries + 1)
  BY DocumentConstants DEF Finish
<1>5. pc' = IF Len(results) + 1 = N THEN "global" ELSE "sections"
  BY DEF Finish, Now
<1>6. QED
  BY <1>1, <1>2, <1>3, <1>4, <1>5

LEMMA SectionType ==
  ASSUME TypeInv, Section
  PROVE  TypeInv'
<1>1. pc = "sections" /\ spec \in Specs /\ status \in [Sections -> Statuses]
      /\ attempt \in 1..(Retries + 1)
  BY DEF Section, GenerateError, SectionRaises, Generate, TypeInv, AtStage
<1>2. UNCHANGED <<run, verdict, signing>>
  BY DEF Section, GenerateError, SectionRaises, Generate
<1>3. text' \in [Sections -> Texts \cup {None}]
  BY <1>1, WriteType DEF Section, GenerateError, SectionRaises, Generate, TypeInv, RunTypes
<1>4. SigningTypes'
  BY <1>2 DEF TypeInv, SigningTypes, signing
<1>5. ASSUME NEW s \in Statuses, NEW e \in Entries, Finish(s, e) PROVE TypeInv'
  <2>1. /\ status' \in [Sections -> Statuses]
        /\ results' \in Seq(Entries) /\ Len(results') <= N
        /\ attempt' \in 1..(Retries + 1) /\ attempt' \in 0..(Retries + 1)
        /\ pc' \in {"sections", "global"}
        /\ pc' = "sections" => Len(results') < N
        /\ pc' = "global" => Len(results') = N
    BY <1>1, <1>5, FinishType
  <2>2. RunTypes'
    BY <1>2, <1>3, <2>1 DEF TypeInv, RunTypes, run, verdict
  <2>3. AtStage'
    BY <1>1, <1>2, <2>1 DEF AtStage, run
  <2>4. QED
    BY <1>4, <2>2, <2>3 DEF TypeInv
<1>6. ASSUME UNCHANGED <<pc, status, results, partial>>, attempt' = attempt + 1, ~Exhausted
      PROVE  TypeInv'
  <2>1. attempt' \in 1..(Retries + 1) /\ attempt' \in 0..(Retries + 1)
    BY DocumentConstants, <1>1, <1>6 DEF Exhausted
  <2>2. RunTypes'
    BY <1>2, <1>3, <1>6, <2>1 DEF TypeInv, RunTypes, run, verdict
  <2>3. AtStage'
    BY <1>1, <1>2, <1>6, <2>1 DEF TypeInv, AtStage, run
  <2>4. QED
    BY <1>4, <2>2, <2>3 DEF TypeInv
<1>7. "PROVISIONAL_UNVERIFIED" \in Statuses \cap Entries /\ Verified \subseteq Statuses \cap Entries
  BY DEF Statuses, Entries
<1>8. CASE GenerateError
  <2>1. Now \in Sections
    BY DocumentConstants, <1>1 DEF Now, Sections, TypeInv, RunTypes, AtStage
  <2>2. status[Now] \in Statuses
    BY <1>1, <2>1
  <2>3. QED
    BY <1>5, <1>7, <1>8, <2>2 DEF GenerateError
<1>9. CASE SectionRaises
  BY <1>5, <1>7, <1>9 DEF SectionRaises
<1>10. ASSUME NEW v \in Verified \cup {"FAIL"}, Generate(v) PROVE TypeInv'
  BY <1>5, <1>6, <1>7, <1>10 DEF Generate
<1>11. QED
  BY <1>8, <1>9, <1>10 DEF Section

LEMMA StartType ==
  ASSUME TypeInv, NEW s \in Specs, NEW fresh \in BOOLEAN, Start(s, fresh)
  PROVE  TypeInv'
<1>1. runs' \in 0..MaxRuns
  BY DocumentConstants DEF Start, TypeInv, RunTypes
<1>2. status' \in [Sections -> Statuses]
  BY DEF Start, Statuses
<1>3. results' = <<>> /\ results' \in Seq(Entries) /\ Len(results') = 0 /\ 0 < N /\ 0 <= N
  BY DocumentConstants DEF Start
<1>4. attempt' = 1 /\ 1 \in 1..(Retries + 1) /\ 1 \in 0..(Retries + 1)
  BY DocumentConstants DEF Start
<1>5. text' \in [Sections -> Texts \cup {None}]
  BY DEF Start, files, Empty, TypeInv, RunTypes
<1>6. RunTypes'
  BY <1>1, <1>2, <1>3, <1>4, <1>5 DEF Start, TypeInv, RunTypes
<1>7. AtStage'
  BY <1>2, <1>3, <1>4 DEF Start, AtStage
<1>8. SigningTypes'
  BY DEF Start, signing, TypeInv, SigningTypes
<1>9. QED
  BY <1>6, <1>7, <1>8 DEF TypeInv

\* What ends leaves nothing of the wrong type behind.
LEMMA EndType ==
  ASSUME TypeInv, End, UNCHANGED <<premium, runs, signing>>,
         text' \in [Sections -> Texts \cup {None}]
  PROVE  TypeInv'
<1>1. results' = <<>> /\ results' \in Seq(Entries) /\ Len(results') = 0 /\ 0 <= N
  BY DocumentConstants DEF End
<1>2. attempt' \in 0..(Retries + 1)
  BY DocumentConstants DEF End
<1>3. RunTypes'
  BY <1>1, <1>2 DEF End, TypeInv, RunTypes
<1>4. AtStage' /\ SigningTypes'
  BY DEF End, AtStage, signing, TypeInv, SigningTypes
<1>5. QED
  BY <1>3, <1>4 DEF TypeInv

LEMMA StageType ==
  ASSUME TypeInv, Stage
  PROVE  TypeInv'
<1>1. CASE WriteEvidence
  BY <1>1, EndType DEF WriteEvidence, TypeInv, RunTypes
<1>2. CASE GlobalChecks \/ ClaimAnalysis \/ Decide
  <2>1. /\ UNCHANGED <<run, sections, files, signing>>
        /\ pc \notin {"idle", "sections"} /\ pc' \in {"claims", "decide", "evidence"}
    BY <1>2 DEF GlobalChecks, ClaimAnalysis, Decide
  <2>2. findings' \subseteq {"warning", "error"}
    BY <1>2 DEF GlobalChecks, ClaimAnalysis, Decide, TypeInv, RunTypes
  <2>3. disposition' \in Released \cup {"PENDING", "FAIL", "BLOCKED_FOR_SIGNOFF"}
    BY <1>2 DEF GlobalChecks, ClaimAnalysis, Decide, DocumentStatus, Released, Verified,
                TypeInv, RunTypes
  <2>4. RunTypes'
    BY <2>1, <2>2, <2>3 DEF TypeInv, RunTypes, run, sections, files
  <2>5. AtStage' /\ SigningTypes'
    BY <2>1 DEF TypeInv, AtStage, SigningTypes, run, sections, signing
  <2>6. QED
    BY <2>4, <2>5 DEF TypeInv
<1>3. QED
  BY <1>1, <1>2 DEF Stage

LEMMA RecordedType ==
  ASSUME NEW c \in Command
  PROVE  Recorded(c) \in Records
<1>1. c.seen \in Records /\ c.doc \in Documents /\ c.role \in Roles /\ c.sign \in Signs
  BY DEF Command
<1>2. c.seen[c.doc] \in [Roles -> Signs \cup {None}]
  BY <1>1 DEF Records
<1>3. [c.seen[c.doc] EXCEPT ![c.role] = c.sign] \in [Roles -> Signs \cup {None}]
  BY <1>1, <1>2
<1>4. Recorded(c) = [c.seen EXCEPT ![c.doc] = [c.seen[c.doc] EXCEPT ![c.role] = c.sign]]
  BY DEF Recorded
<1>5. QED
  BY <1>1, <1>3, <1>4 DEF Records

LEMMA ApproveType ==
  ASSUME TypeInv, NEW a \in Approvers, Approve(a)
  PROVE  /\ TypeInv'
         /\ \A b \in Approvers \ {a} : cmd'[b] = cmd[b]
<1>1. UNCHANGED <<run, pc, sections, verdict, files>>
  BY DEF Approve, ReadApprovals, TruncateApprovals, WriteApprovals, ApproveDies
<1>2. RunTypes' /\ AtStage'
  BY <1>1 DEF TypeInv, RunTypes, AtStage, run, sections, verdict, files
<1>3. SigningTypes
  BY DEF TypeInv
<1> DEFINE Rest == \A b \in Approvers \ {a} : cmd'[b] = cmd[b]
<1>31. ASSUME NEW c \in Command \cup {None}, cmd' = [cmd EXCEPT ![a] = c]
      PROVE  cmd' \in [Approvers -> Command \cup {None}] /\ Rest
  BY <1>3, <1>31 DEF SigningTypes
<1> HIDE DEF Rest
<1>4. ASSUME NEW d \in Documents, NEW r \in Roles, NEW sign \in Signs,
             ReadApprovals(a, d, r, sign)
      PROVE  SigningTypes' /\ Rest
  <2>1. NoRecords \in Records
    <3>1. NoSigns \in [Roles -> Signs \cup {None}]
      BY DEF NoSigns
    <3>2. QED
      BY <3>1 DEF NoRecords, Records
  <2>2. Loaded(store) \in Records
    BY <1>3, <2>1 DEF Loaded, SigningTypes
  <2> DEFINE c == [doc |-> d, role |-> r, sign |-> sign, seen |-> Loaded(store),
                   writing |-> FALSE]
  <2>3. c \in Command /\ cmd' = [cmd EXCEPT ![a] = c]
    BY <1>4, <2>2 DEF ReadApprovals, Command
  <2> HIDE DEF c
  <2>4. approvals' \in 0..MaxApprovals
    BY DocumentConstants, <1>3, <1>4 DEF ReadApprovals, SigningTypes
  <2>5. QED
    BY <1>3, <1>4, <1>31, <2>3, <2>4 DEF ReadApprovals, SigningTypes
<1>5. ASSUME TruncateApprovals(a) PROVE SigningTypes' /\ Rest
  <2> DEFINE c == [cmd[a] EXCEPT !.writing = TRUE]
  <2>1. cmd[a] \in Command
    BY <1>3, <1>5 DEF TruncateApprovals, SigningTypes
  <2>2. c \in Command /\ cmd' = [cmd EXCEPT ![a] = c]
    BY <1>5, <2>1 DEF TruncateApprovals, Command
  <2> HIDE DEF c
  <2>3. cmd' \in [Approvers -> Command \cup {None}] /\ Rest
    BY <1>31, <2>2
  <2>4. store' = Torn /\ UNCHANGED <<last, approvals, signed>>
    BY <1>5 DEF TruncateApprovals
  <2>5. QED
    BY <1>3, <2>3, <2>4 DEF SigningTypes
<1>6. ASSUME WriteApprovals(a) PROVE SigningTypes' /\ Rest
  <2> DEFINE c == cmd[a]
  <2>1. c \in Command
    BY <1>3, <1>6 DEF WriteApprovals, SigningTypes
  <2>2. Recorded(c) \in Records
    BY <2>1, RecordedType
  <2>3. c.doc \in Documents /\ c.role \in Roles /\ c.sign \in Signs
    BY <2>1 DEF Command
  <2>4. store' \in Records \cup {Torn} /\ cmd' = [cmd EXCEPT ![a] = None]
        /\ approvals' = approvals
    BY <1>6, <2>2 DEF WriteApprovals
  <2>5. last' = [last EXCEPT ![c.doc] = [last[c.doc] EXCEPT ![c.role] = c.sign]]
    BY <1>6 DEF WriteApprovals
  <2>6. signed' \subseteq signed \cup {<<c.doc, c.role>>}
    BY <1>6 DEF WriteApprovals
  <2> HIDE DEF c
  <2>7. last' \in Records
    BY <1>3, <2>3, <2>5 DEF Records, SigningTypes
  <2>8. signed' \subseteq Documents \X Roles
    BY <1>3, <2>3, <2>6 DEF SigningTypes
  <2>9. cmd' \in [Approvers -> Command \cup {None}] /\ Rest
    BY <1>31, <2>4
  <2>10. QED
    BY <1>3, <2>4, <2>7, <2>8, <2>9 DEF SigningTypes
<1>7. ASSUME ApproveDies(a) PROVE SigningTypes' /\ Rest
  <2>1. cmd' = [cmd EXCEPT ![a] = None]
    BY <1>7 DEF ApproveDies
  <2>2. cmd' \in [Approvers -> Command \cup {None}] /\ Rest
    BY <1>31, <2>1
  <2>3. UNCHANGED <<store, last, approvals, signed>>
    BY <1>7 DEF ApproveDies
  <2>4. QED
    BY <1>3, <2>2, <2>3 DEF SigningTypes
<1>8. SigningTypes' /\ Rest
  BY <1>4, <1>5, <1>6, <1>7 DEF Approve
<1>9. QED
  BY <1>2, <1>8 DEF TypeInv, Rest

LEMMA InterruptType ==
  ASSUME TypeInv, Interrupt
  PROVE  TypeInv'
<1>1. text' \in [Sections -> Texts \cup {None}]
  BY WriteType DEF Interrupt, TypeInv, RunTypes
<1>2. QED
  BY <1>1, EndType DEF Interrupt

LEMMA NextTypes == TypeInv /\ [Next]_vars => TypeInv'
<1> SUFFICES ASSUME TypeInv, [Next]_vars PROVE TypeInv'
  OBVIOUS
<1>1. CASE UNCHANGED vars
  BY <1>1 DEF vars, run, sections, verdict, files, signing,
              TypeInv, RunTypes, SigningTypes, AtStage
<1>2. QED
  BY <1>1, StartType, SectionType, StageType, InterruptType, ApproveType DEF Next

LEMMA TypesHold == Spec => []TypeInv
<1>1. QED
  BY InitTypes, NextTypes, PTL DEF Spec

\* Document runs and approve commands keep their types.
THEOREM TypesKept == Spec => []TypeOK
<1>1. TypeInv => TypeOK
  <2> SUFFICES ASSUME TypeInv PROVE TypeOK
    OBVIOUS
  <2>1. Range(results) \subseteq Statuses
    <3>1. \A i \in DOMAIN results : results[i] \in Entries
      BY DEF TypeInv, RunTypes
    <3>2. QED
      BY <3>1 DEF Range, Entries, Statuses
  <2>2. Range(status) \subseteq Statuses
    <3>1. CASE status = <<>>
      BY <3>1 DEF Range
    <3>2. CASE status \in [Sections -> Statuses]
      BY <3>2 DEF Range
    <3>3. QED
      BY <3>1, <3>2 DEF TypeInv, RunTypes
  <2>3. QED
    BY <2>1, <2>2 DEF TypeInv, RunTypes, SigningTypes, TypeOK
<1>2. QED
  BY <1>1, TypesHold, PTL

---------------------------------------------------------------------------
(* The approvals file *)

\* Without two commands at once and none dead, one reads, empties and writes
\* the file; while it is empty that command has opened it, else it holds what
\* was last said, and so does what the command has read.
OneWriter ==
  /\ \A a, b \in Approvers : cmd[a] # None /\ cmd[b] # None => a = b
  /\ \A a \in Approvers : cmd[a] # None =>
       /\ cmd[a].seen = last
       /\ cmd[a].writing => store = Torn
  /\ store = Torn => \E a \in Approvers : cmd[a] # None
  /\ store # Torn => store = last

LEMMA WriterInit == Init => OneWriter
<1> SUFFICES ASSUME Init PROVE OneWriter
  OBVIOUS
<1>1. NoSigns \in [Roles -> Signs \cup {None}]
  BY DEF NoSigns
<1>2. NoRecords \in Records
  BY <1>1 DEF NoRecords, Records
<1>3. store # Torn
  BY DocumentConstants, <1>2 DEF Init
<1>4. QED
  BY <1>3 DEF Init, OneWriter

LEMMA WriterStep ==
  ASSUME TypeInv, ~clash => OneWriter, [Next]_vars
  PROVE  ~clash' => OneWriter'
<1> SUFFICES ASSUME ~clash' PROVE OneWriter'
  OBVIOUS
<1>1. ASSUME UNCHANGED signing PROVE OneWriter'
  BY <1>1 DEF signing, OneWriter
<1>2. ASSUME NEW a \in Approvers, Approve(a) PROVE OneWriter'
  <2>1. SigningTypes /\ SigningTypes'
    BY <1>2, ApproveType DEF TypeInv
  <2>2. ~clash /\ OneWriter
    <3>1. ~clash
      BY <1>2 DEF Approve, ReadApprovals, TruncateApprovals, WriteApprovals, ApproveDies
    <3>2. QED
      BY <3>1
  <2>3. \A b \in Approvers \ {a} : cmd'[b] = cmd[b] /\ cmd[b] = None
    BY <1>2, <2>2, ApproveType
       DEF Approve, ReadApprovals, TruncateApprovals, WriteApprovals, ApproveDies, OneWriter
  <2>4. ASSUME NEW d \in Documents, NEW r \in Roles, NEW sign \in Signs,
               ReadApprovals(a, d, r, sign)
        PROVE  OneWriter'
    <3>1. store # Torn /\ store = last /\ store' = store /\ last' = last
      BY <2>2, <2>3, <2>4 DEF ReadApprovals, OneWriter
    <3>2. cmd'[a].seen = last /\ ~cmd'[a].writing
      BY <2>1, <2>4, <3>1 DEF ReadApprovals, Loaded, SigningTypes
    <3>3. QED
      BY <2>3, <3>1, <3>2 DEF OneWriter
  <2>5. CASE TruncateApprovals(a)
    <3>1. cmd[a] \in Command /\ store' = Torn /\ last' = last
          /\ cmd'[a] = [cmd[a] EXCEPT !.writing = TRUE]
      BY <2>1, <2>5 DEF TruncateApprovals, SigningTypes
    <3>2. cmd'[a] \in Command /\ cmd'[a].seen = cmd[a].seen
      BY <3>1 DEF Command
    <3>3. cmd'[a] # None /\ cmd[a] # None
      BY DocumentConstants, <2>5, <3>2 DEF TruncateApprovals
    <3>4. cmd[a].seen = last
      BY <2>2, <3>3 DEF OneWriter
    <3>5. store' = Torn /\ last' = last /\ cmd'[a].seen = last'
      BY <3>1, <3>2, <3>4
    <3>6. QED
      BY <2>3, <3>3, <3>5 DEF OneWriter
  <2>6. CASE WriteApprovals(a)
    <3> DEFINE c == cmd[a]
    <3>1. c \in Command /\ c.seen = last /\ store = Torn
      BY <2>1, <2>2, <2>6 DEF WriteApprovals, SigningTypes, OneWriter
    <3>2. store' = Recorded(c) /\ last' = Recorded(c)
      <4>1. last' = [last EXCEPT ![c.doc] = [last[c.doc] EXCEPT ![c.role] = c.sign]]
        BY <2>6 DEF WriteApprovals
      <4>2. Recorded(c) = [c.seen EXCEPT ![c.doc] = [c.seen[c.doc] EXCEPT ![c.role] = c.sign]]
        BY DEF Recorded
      <4>3. store' = Recorded(c)
        BY <2>6, <3>1 DEF WriteApprovals
      <4>4. QED
        BY <3>1, <4>1, <4>2, <4>3
    <3>3. Recorded(c) # Torn /\ cmd'[a] = None
      BY DocumentConstants, <2>1, <2>6, <3>1, RecordedType DEF WriteApprovals, SigningTypes
    <3>4. QED
      BY <2>3, <3>2, <3>3 DEF OneWriter
  <2>7. ~ApproveDies(a)
    BY DEF ApproveDies
  <2>8. QED
    BY <1>2, <2>4, <2>5, <2>6, <2>7 DEF Approve
<1>3. CASE Next
  BY <1>1, <1>2, <1>3 DEF Next, Start, Section, GenerateError, SectionRaises, Generate,
     Stage, GlobalChecks, ClaimAnalysis, Decide, WriteEvidence, Interrupt
<1>4. CASE UNCHANGED vars
  BY <1>1, <1>4 DEF vars
<1>5. QED
  BY <1>3, <1>4

\* As long as approve commands neither overlap nor die, approvals.json holds
\* what each role last said of each document, or is being written
\* (ApprovalsStand).
THEOREM ApprovalsAreKept == Spec => []ApprovalsStand
<1> DEFINE Writer == ~clash => OneWriter
<1>1. Init => TypeInv /\ Writer
  BY InitTypes, WriterInit
<1>2. TypeInv /\ Writer /\ [Next]_vars => (TypeInv /\ Writer)'
  BY NextTypes, WriterStep
<1>3. Writer => ApprovalsStand
  BY DEF OneWriter, ApprovalsStand
<1> HIDE DEF Writer
<1>4. QED
  BY <1>1, <1>2, <1>3, PTL DEF Spec

---------------------------------------------------------------------------
(* Who has approved what *)

\* What the records call approved is among those who signed.
Backed(records, who) ==
  \A d \in Documents, r \in Roles : records[d][r] = "approved" => <<d, r>> \in who

SignedInv ==
  /\ store # Torn => Backed(store, signed)
  /\ \A a \in Approvers : cmd[a] # None => Backed(cmd[a].seen, signed)

LEMMA NothingApproved == \A who : Backed(NoRecords, who)
<1>1. \A d \in Documents, r \in Roles : NoRecords[d][r] = None
  BY DEF NoRecords, NoSigns
<1>2. None # "approved"
  BY DocumentConstants DEF Signs
<1>3. QED
  BY <1>1, <1>2 DEF Backed

LEMMA SignedInit == Init => SignedInv
<1>1. QED
  BY NothingApproved DEF Init, SignedInv

\* One more sign, after which whoever gave an approval has signed.
LEMMA RecordedIsBacked ==
  ASSUME NEW c \in Command, NEW who, Backed(c.seen, who)
  PROVE  Backed(Recorded(c), IF c.sign = "approved" THEN who \cup {<<c.doc, c.role>>} ELSE who)
<1>1. c.seen \in Records /\ c.doc \in Documents /\ c.role \in Roles /\ c.sign \in Signs
  BY DEF Command
<1>2. Recorded(c) = [c.seen EXCEPT ![c.doc] = [c.seen[c.doc] EXCEPT ![c.role] = c.sign]]
  BY DEF Recorded
<1>3. ASSUME NEW d \in Documents, NEW r \in Roles
      PROVE  Recorded(c)[d][r] = IF d = c.doc /\ r = c.role THEN c.sign ELSE c.seen[d][r]
  <2>1. c.seen[d] \in [Roles -> Signs \cup {None}]
    BY <1>1 DEF Records
  <2>2. CASE d = c.doc
    <3>1. Recorded(c)[d] = [c.seen[d] EXCEPT ![c.role] = c.sign]
      BY <1>1, <1>2, <2>2 DEF Records
    <3>2. QED
      BY <1>1, <2>1, <2>2, <3>1
  <2>3. CASE d # c.doc
    BY <1>1, <1>2, <2>3 DEF Records
  <2>4. QED
    BY <2>2, <2>3
<1>4. QED
  BY <1>3 DEF Backed

LEMMA SignedStep ==
  ASSUME TypeInv, SignedInv, [Next]_vars
  PROVE  SignedInv' /\ signed \subseteq signed'
<1>1. ASSUME UNCHANGED signing PROVE SignedInv' /\ signed \subseteq signed'
  BY <1>1 DEF signing, SignedInv
<1>2. ASSUME NEW a \in Approvers, Approve(a) PROVE SignedInv' /\ signed \subseteq signed'
  <2>1. SigningTypes /\ SigningTypes' /\ \A b \in Approvers \ {a} : cmd'[b] = cmd[b]
    BY <1>2, ApproveType DEF TypeInv
  <2>2. signed \subseteq signed'
    <3>1. WriteApprovals(a) => signed \subseteq signed'
      BY DEF WriteApprovals
    <3>2. QED
      BY <1>2, <3>1 DEF Approve, ReadApprovals, TruncateApprovals, ApproveDies
  <2>3. \A records : Backed(records, signed) => Backed(records, signed')
    BY <2>2 DEF Backed
  <2>4. ASSUME store' # Torn => Backed(store', signed'),
               cmd'[a] # None => Backed(cmd'[a].seen, signed')
        PROVE  SignedInv'
    BY <2>1, <2>3, <2>4 DEF SignedInv
  <2>5. ASSUME NEW d \in Documents, NEW r \in Roles, NEW sign \in Signs,
               ReadApprovals(a, d, r, sign)
        PROVE  SignedInv'
    <3>1. store' = store /\ cmd'[a].seen = Loaded(store)
      BY <2>1, <2>5 DEF ReadApprovals, SigningTypes
    <3>2. Backed(Loaded(store), signed)
      BY NothingApproved DEF Loaded, SignedInv
    <3>3. QED
      BY <2>3, <2>4, <3>1, <3>2 DEF SignedInv
  <2>6. ASSUME TruncateApprovals(a) PROVE SignedInv'
    <3>1. cmd[a] \in Command /\ cmd[a] # None /\ store' = Torn
          /\ cmd'[a] = [cmd[a] EXCEPT !.writing = TRUE]
      BY <2>1, <2>6 DEF TruncateApprovals, SigningTypes
    <3>2. cmd'[a].seen = cmd[a].seen
      BY <3>1 DEF Command
    <3>3. QED
      BY <2>3, <2>4, <3>1, <3>2 DEF SignedInv
  <2>7. ASSUME WriteApprovals(a) PROVE SignedInv'
    <3> DEFINE c == cmd[a]
    <3>1. c \in Command /\ Backed(c.seen, signed)
      BY <2>1, <2>7 DEF WriteApprovals, SigningTypes, SignedInv
    <3>2. signed' = IF c.sign = "approved" THEN signed \cup {<<c.doc, c.role>>} ELSE signed
      BY <2>7 DEF WriteApprovals
    <3>3. Backed(Recorded(c), signed')
      BY <3>1, <3>2, RecordedIsBacked
    <3>4. store' \in {Recorded(c), Torn} /\ cmd'[a] = None
      BY <2>1, <2>7 DEF WriteApprovals, SigningTypes
    <3>5. QED
      BY <2>4, <3>3, <3>4
  <2>8. ASSUME ApproveDies(a) PROVE SignedInv'
    <3>1. store' = store /\ cmd'[a] = None
      BY <2>1, <2>8 DEF ApproveDies, SigningTypes
    <3>2. QED
      BY <2>3, <2>4, <3>1 DEF SignedInv
  <2>9. QED
    BY <1>2, <2>2, <2>5, <2>6, <2>7, <2>8 DEF Approve
<1>3. CASE Next
  BY <1>1, <1>2, <1>3 DEF Next, Start, Section, GenerateError, SectionRaises, Generate,
     Stage, GlobalChecks, ClaimAnalysis, Decide, WriteEvidence, Interrupt
<1>4. CASE UNCHANGED vars
  BY <1>1, <1>4 DEF vars
<1>5. QED
  BY <1>3, <1>4

---------------------------------------------------------------------------
(* The decision *)

\* What the decision rests on until the evidence is written.
DecidedInv ==
  pc = "evidence" =>
    /\ disposition \in Released =>
         /\ \A r \in spec.roles : <<runs, r>> \in signed
         /\ spec.risk = "high" => ~Provisional
    /\ disposition = "PASS" => Range(results) \subseteq {"PASS"}

LEMMA DecideIsBacked ==
  ASSUME TypeInv, SignedInv, Decide
  PROVE  DecidedInv'
<1> DEFINE signs == Loaded(store)[runs]
<1>1. /\ spec \in Specs /\ runs \in Documents
      /\ UNCHANGED <<runs, spec, results, signed>>
  BY DEF Decide, run, sections, signing, TypeInv, RunTypes, AtStage, Documents
<1>2. spec.risk \in {"low", "medium", "high"} /\ spec.roles \subseteq Roles
      /\ (spec.risk = "low" \/ spec.roles # {})
  BY DocumentConstants, <1>1
<1>3. \A r \in Roles : r \in Approved(signs) => <<runs, r>> \in signed
  <2>1. Backed(Loaded(store), signed)
    BY NothingApproved DEF Loaded, SignedInv
  <2>2. QED
    BY <1>1, <2>1 DEF Backed, Approved
<1> HIDE DEF signs
<1>4. disposition' = IF premium
                     THEN DocumentStatus(Publishable(signs), SignoffComplete(signs))
                     ELSE DocumentStatus(TRUE, spec.roles = {})
  BY DEF Decide, signs
<1>5. Range(results) \subseteq Entries
  BY DEF TypeInv, RunTypes, Range
<1>6. disposition' = "PASS" => Range(results) \subseteq {"PASS"}
  BY <1>4, <1>5 DEF DocumentStatus, Provisional, Entries, Verified
<1>7. ASSUME disposition' \in Released
      PROVE  /\ \A r \in spec.roles : <<runs, r>> \in signed
             /\ spec.risk = "high" => ~Provisional
  <2>1. CASE premium
    <3>1. Publishable(signs) /\ (spec.roles # {} => SignoffComplete(signs))
      BY <1>4, <1>7, <2>1 DEF DocumentStatus, Released, Verified
    <3>2. spec.risk = "high" => ~Provisional
      BY <3>1 DEF Publishable
    <3>3. \A r \in spec.roles : <<runs, r>> \in signed
      BY <1>2, <1>3, <3>1 DEF SignoffComplete
    <3>4. QED
      BY <3>2, <3>3
  <2>2. CASE ~premium
    <3>1. spec.roles = {}
      BY <1>4, <1>7, <2>2 DEF DocumentStatus, Released, Verified
    <3>2. QED
      BY <1>2, <3>1
  <2>3. QED
    BY <2>1, <2>2
<1>8. QED
  BY <1>1, <1>6, <1>7 DEF DecidedInv, Provisional

LEMMA DecidedStep ==
  ASSUME TypeInv, SignedInv, DecidedInv, [Next]_vars
  PROVE  DecidedInv'
<1>1. signed \subseteq signed'
  BY SignedStep
<1>2. ASSUME pc' # "evidence" PROVE DecidedInv'
  BY <1>2 DEF DecidedInv
<1>3. ASSUME UNCHANGED <<runs, spec, pc, results, disposition>> PROVE DecidedInv'
  BY <1>1, <1>3 DEF DecidedInv, Provisional
<1>4. CASE Decide
  BY <1>4, DecideIsBacked
<1>5. CASE Section
  <2>1. pc' \in {"sections", "global"}
    BY <1>5 DEF Section, GenerateError, SectionRaises, Generate, Finish
  <2>2. QED
    BY <1>2, <2>1
<1>6. CASE GlobalChecks \/ ClaimAnalysis \/ WriteEvidence \/ Interrupt
  BY <1>2, <1>6 DEF GlobalChecks, ClaimAnalysis, WriteEvidence, Interrupt, End
<1>7. ASSUME NEW s \in Specs, NEW fresh \in BOOLEAN, Start(s, fresh) PROVE DecidedInv'
  BY <1>2, <1>7 DEF Start
<1>8. ASSUME NEW a \in Approvers, Approve(a) PROVE DecidedInv'
  BY <1>3, <1>8 DEF Approve, ReadApprovals, TruncateApprovals, WriteApprovals, ApproveDies,
                    run, sections, verdict
<1>9. CASE UNCHANGED vars
  BY <1>3, <1>9 DEF vars, run, sections, verdict
<1>10. QED
  BY <1>4, <1>5, <1>6, <1>7, <1>8, <1>9 DEF Next, Stage

---------------------------------------------------------------------------
(* The output directory *)

\* A file says which run wrote it; the run in progress has written neither the
\* final document nor its summary yet.
Filed ==
  /\ partial # None => partial.doc \in 0..runs /\ DOMAIN partial.statuses \subseteq Sections
  /\ final # None => final.doc \in 0..runs /\ (pc # "idle" => final.doc # runs)
  /\ summary # None => summary.doc \in 0..runs /\ (pc # "idle" => summary.doc # runs)

\* Its partial summary, once there is one, holds its results.
Partly ==
  /\ pc # "idle" /\ partial # None /\ partial.doc = runs => partial.statuses = results
  /\ pc \notin {"idle", "sections"} => partial.doc = runs /\ partial.statuses = results

\* The texts it accepted are in their files.
Accepted ==
  \A i \in 1..Len(results) :
    results[i] \in Verified => text[i] = [doc |-> runs, verdict |-> results[i]]

DirectoryInv == Filed /\ Partly /\ Accepted /\ SummariesMatchTexts /\ ReleasedIsSigned

LEMMA DirectoryInit == Init => DirectoryInv
<1> SUFFICES ASSUME Init PROVE DirectoryInv
  OBVIOUS
<1> DEFINE clean == [i \in Sections |-> [doc |-> 0, verdict |-> "PASS"]]
           counts == [passed |-> N, failed |-> 0, provisional |-> 0]
<1>1. Accepted /\ pc = "idle" /\ runs = 0 /\ 0 \in 0..0
  BY DEF Init, Accepted
<1>2. CASE Directory(Empty, None, None, None)
  BY <1>1, <1>2
     DEF Directory, DirectoryInv, Filed, Partly, SummariesMatchTexts, AcceptedTextOnDisk,
         PassedTextIsClean, ReleasedIsSigned
<1>3. ASSUME NEW s \in Specs, s.risk = "low" /\ s.roles = {},
             Directory(clean,
               [doc |-> 0, counts |-> counts, statuses |-> [i \in Sections |-> "PASS"]],
               [doc |-> 0, texts |-> clean],
               [doc |-> 0, disposition |-> "PASS", counts |-> counts, spec |-> s])
      PROVE  DirectoryInv
  <2>1. /\ text = clean /\ final.doc = 0 /\ final.texts = clean
        /\ partial.doc = 0 /\ partial.statuses = [i \in Sections |-> "PASS"]
        /\ summary.doc = 0 /\ summary.disposition = "PASS" /\ summary.spec = s
    BY <1>3 DEF Directory
  <2>2. \A i \in Sections : clean[i] = [doc |-> 0, verdict |-> "PASS"]
    OBVIOUS
  <2>3. DOMAIN partial.statuses = Sections /\ \A i \in Sections : partial.statuses[i] = "PASS"
    BY <2>1
  <2> HIDE DEF clean, counts
  <2>4. Filed /\ Partly
    BY <1>1, <2>1, <2>3 DEF Filed, Partly
  <2>5. AcceptedTextOnDisk
    BY <2>1, <2>2, <2>3 DEF AcceptedTextOnDisk
  <2>6. PassedTextIsClean
    BY <2>1, <2>2 DEF PassedTextIsClean
  <2>7. ReleasedIsSigned
    BY <1>3, <2>1 DEF ReleasedIsSigned
  <2>8. QED
    BY <1>1, <2>4, <2>5, <2>6, <2>7 DEF DirectoryInv, SummariesMatchTexts
<1>4. QED
  BY <1>2, <1>3 DEF Init

\* A step that leaves the files alone, forgets no sign, and stays in the run
\* or ends it.
LEMMA SameFiles ==
  ASSUME DirectoryInv, UNCHANGED <<runs, files>>, signed \subseteq signed',
         \/ results' = results /\ pc' = pc
         \/ results' = results /\ pc \notin {"idle", "sections"} /\ pc' # "idle"
         \/ results' = <<>> /\ pc' = "idle"
  PROVE  DirectoryInv'
<1>1. UNCHANGED <<text, partial, final, summary>>
  BY DEF files
<1>2. Filed' /\ Partly'
  BY <1>1 DEF DirectoryInv, Filed, Partly
<1>3. Accepted'
  <2>1. CASE results' = results
    BY <1>1, <2>1 DEF DirectoryInv, Accepted
  <2>2. CASE results' = <<>>
    BY <2>2 DEF Accepted
  <2>3. QED
    BY <2>1, <2>2
<1>4. SummariesMatchTexts'
  BY <1>1 DEF DirectoryInv, SummariesMatchTexts, AcceptedTextOnDisk, PassedTextIsClean
<1>5. ReleasedIsSigned'
  BY <1>1 DEF DirectoryInv, ReleasedIsSigned
<1>6. QED
  BY <1>2, <1>3, <1>4, <1>5 DEF DirectoryInv

\* Writing the section in progress touches no text accepted so far.
LEMMA WriteKeeps ==
  ASSUME TypeInv, DirectoryInv, pc = "sections",
         text' = text \/ \E v \in Verified \cup {"FAIL"} : Write(v)
  PROVE  /\ Now \in Sections /\ Now \notin 1..Len(results)
         /\ \A i \in Sections \ {Now} : text'[i] = text[i]
         /\ text'[Now] = text[Now] \/ text'[Now].doc = runs
         /\ \A i \in 1..Len(results) : i \in Sections /\ text'[i] = text[i]
<1>1. Len(results) \in Nat /\ Len(results) < N /\ N \in Nat
  BY DocumentConstants DEF TypeInv, RunTypes, AtStage
<1>2. Now \in Sections /\ Now \notin 1..Len(results)
  BY <1>1 DEF Now, Sections
<1>3. \A i \in 1..Len(results) : i \in Sections
  BY <1>1 DEF Sections
<1>4. ASSUME NEW v \in Verified \cup {"FAIL"}, Write(v)
      PROVE  /\ \A i \in Sections \ {Now} : text'[i] = text[i]
             /\ text'[Now].doc = runs
  <2>1. /\ \A i \in Sections \ {Now} : text'[i] = text[i]
        /\ text'[Now] = [doc |-> runs, verdict |-> v]
    BY <1>4, WriteType
  <2>2. QED
    BY <2>1
<1>5. /\ \A i \in Sections \ {Now} : text'[i] = text[i]
      /\ text'[Now] = text[Now] \/ text'[Now].doc = runs
  BY <1>4
<1>6. QED
  BY <1>2, <1>3, <1>5

\* ... and no partial summary speaks of it.
LEMMA RewriteKeeps ==
  ASSUME TypeInv, DirectoryInv, pc = "sections",
         text' = text \/ \E v \in Verified \cup {"FAIL"} : Write(v),
         UNCHANGED <<runs, partial, final, summary>>
  PROVE  AcceptedTextOnDisk'
<1>1. /\ Now \notin 1..Len(results)
      /\ \A i \in Sections \ {Now} : text'[i] = text[i]
      /\ text'[Now] = text[Now] \/ text'[Now].doc = runs
  BY WriteKeeps
<1>2. AcceptedTextOnDisk /\ Filed /\ Partly
  BY DEF DirectoryInv, SummariesMatchTexts
<1>3. DOMAIN results = 1..Len(results)
  BY DEF TypeInv, RunTypes
<1> HIDE DEF Now
<1> SUFFICES ASSUME partial # None, NEW i \in DOMAIN partial.statuses,
                    partial.statuses[i] \in Verified
             PROVE  LET accepted == [doc |-> partial.doc, verdict |-> partial.statuses[i]] IN
                    /\ text'[i] # None /\ text'[i].doc = partial.doc => text'[i] = accepted
                    /\ final # None /\ final.doc = partial.doc => final.texts[i] = accepted
  BY DEF AcceptedTextOnDisk
<1>4. i \in Sections
  BY <1>2 DEF Filed
<1>5. CASE text'[i] = text[i]
  BY <1>2, <1>5 DEF AcceptedTextOnDisk
<1>6. CASE text'[i] # text[i]
  <2>1. i = Now /\ text'[i].doc = runs
    BY <1>1, <1>4, <1>6
  <2>2. partial.doc # runs
    BY <1>1, <1>2, <1>3, <2>1 DEF Partly
  <2>3. QED
    BY <1>2, <2>1, <2>2 DEF AcceptedTextOnDisk
<1>7. QED
  BY <1>5, <1>6

\* A section's result is in, and with it the partial summary.
LEMMA FinishKeeps ==
  ASSUME TypeInv, DirectoryInv, pc = "sections",
         text' = text \/ \E v \in Verified \cup {"FAIL"} : Write(v),
         UNCHANGED <<runs, final, summary, signed>>,
         NEW s \in Statuses, NEW e \in Entries, Finish(s, e),
         e \in Verified => text'[Now] = [doc |-> runs, verdict |-> e]
  PROVE  DirectoryInv'
<1>1. /\ results' = Append(results, e) /\ results' \in Seq(Entries)
      /\ Len(results') = Len(results) + 1 /\ Len(results') <= N
      /\ pc' \in {"sections", "global"} /\ Len(results) \in Nat /\ N \in Nat
      /\ Now = Len(results) + 1
  BY DocumentConstants, FinishType DEF TypeInv, RunTypes, Now
<1>2. DOMAIN results' = 1..Len(results')
  BY <1>1
<1>3. /\ \A i \in 1..Len(results) : results'[i] = results[i]
      /\ results'[Now] = e
      /\ \A i \in 1..Len(results') : i \in 1..Len(results) \/ i = Now
      /\ \A i \in 1..Len(results') : i \in Sections
  BY <1>1 DEF Sections, TypeInv, RunTypes
<1>4. partial'.doc = runs /\ partial'.statuses = results'
  BY DEF Finish
<1>5. /\ Filed /\ Partly /\ Accepted /\ PassedTextIsClean /\ ReleasedIsSigned
  BY DEF DirectoryInv, SummariesMatchTexts
<1>6. \A i \in 1..Len(results) : text'[i] = text[i]
  BY WriteKeeps
<1>7. runs \in 0..runs
  BY DEF TypeInv, RunTypes
<1> HIDE DEF Now
<1>8. Accepted'
  BY <1>1, <1>3, <1>5, <1>6 DEF Accepted
<1>9. Filed'
  BY <1>1, <1>2, <1>3, <1>4, <1>5, <1>7 DEF Filed
<1>10. Partly'
  BY <1>1, <1>4 DEF Partly
<1>11. AcceptedTextOnDisk'
  <2>1. final' # None => final'.doc # partial'.doc
    BY <1>4, <1>5 DEF Filed
  <2>2. \A i \in DOMAIN results' : results'[i] \in Verified =>
          text'[i] = [doc |-> runs, verdict |-> results'[i]]
    BY <1>2, <1>8 DEF Accepted
  <2>3. QED
    BY <1>4, <2>1, <2>2 DEF AcceptedTextOnDisk
<1>12. PassedTextIsClean'
  BY <1>5 DEF PassedTextIsClean
<1>13. ReleasedIsSigned'
  <2>1. summary # None => summary.doc # runs
    BY <1>5 DEF Filed
  <2>2. QED
    BY <1>4, <1>5, <2>1 DEF ReleasedIsSigned
<1>14. QED
  BY <1>8, <1>9, <1>10, <1>11, <1>12, <1>13 DEF DirectoryInv, SummariesMatchTexts

LEMMA SectionKeeps ==
  ASSUME TypeInv, DirectoryInv, Section
  PROVE  DirectoryInv'
<1>1. pc = "sections" /\ UNCHANGED <<runs, final, summary, signed>>
  BY DEF Section, GenerateError, SectionRaises, Generate, run, signing
<1>2. Now \in Sections
  BY DocumentConstants, <1>1 DEF Now, Sections, TypeInv, RunTypes, AtStage
<1>3. status[Now] \in Statuses
  BY <1>1, <1>2 DEF TypeInv, AtStage
<1>4. /\ "PROVISIONAL_UNVERIFIED" \in Statuses \cap Entries
      /\ "PROVISIONAL_UNVERIFIED" \notin Verified
      /\ Verified \subseteq Statuses \cap Entries
  BY DEF Statuses, Entries, Verified
<1>5. CASE GenerateError
  BY <1>1, <1>3, <1>4, <1>5, FinishKeeps DEF GenerateError
<1>6. CASE SectionRaises
  BY <1>1, <1>4, <1>6, FinishKeeps DEF SectionRaises
<1>7. ASSUME NEW v \in Verified \cup {"FAIL"}, Generate(v) PROVE DirectoryInv'
  <2>1. Write(v) /\ text'[Now] = [doc |-> runs, verdict |-> v]
    BY <1>1, <1>7, WriteType DEF Generate
  <2>2. CASE v \in Verified
    <3>1. Finish(v, v)
      <4>1. CASE v = "PASS"
        BY <1>7, <4>1 DEF Generate, Verified
      <4>2. CASE v = "WARN"
        BY <1>7, <4>2 DEF Generate, Verified
      <4>3. QED
        BY <2>2, <4>1, <4>2 DEF Verified
    <3>2. v \in Statuses /\ v \in Entries
      BY <1>4, <2>2
    <3>3. QED
      BY <1>1, <2>1, <3>1, <3>2, FinishKeeps
  <2>3. CASE v = "FAIL" /\ ~Exhausted
    <3>1. UNCHANGED <<pc, results, partial>>
      BY <1>7, <2>3 DEF Generate, Verified
    <3>2. AcceptedTextOnDisk'
      BY <1>1, <2>1, <3>1, RewriteKeeps
    <3>3. \A i \in 1..Len(results) : text'[i] = text[i]
      BY <1>1, <2>1, WriteKeeps
    <3>4. Accepted'
      BY <1>1, <3>1, <3>3 DEF DirectoryInv, Accepted
    <3>5. Filed' /\ Partly'
      BY <1>1, <3>1 DEF DirectoryInv, Filed, Partly
    <3>6. PassedTextIsClean' /\ ReleasedIsSigned'
      BY <1>1, <3>1 DEF DirectoryInv, SummariesMatchTexts, PassedTextIsClean, ReleasedIsSigned
    <3>7. QED
      BY <3>2, <3>4, <3>5, <3>6 DEF DirectoryInv, SummariesMatchTexts
  <2>4. CASE v = "FAIL" /\ Exhausted
    <3>1. Finish("PROVISIONAL_UNVERIFIED", "PROVISIONAL_UNVERIFIED")
      BY <1>7, <2>4 DEF Generate, Verified
    <3>2. QED
      BY <1>1, <1>4, <2>1, <3>1, FinishKeeps
  <2>5. QED
    BY <2>2, <2>3, <2>4
<1>8. QED
  BY <1>5, <1>6, <1>7 DEF Section

LEMMA InterruptKeeps ==
  ASSUME TypeInv, DirectoryInv, Interrupt
  PROVE  DirectoryInv'
<1>1. /\ results' = <<>> /\ pc' = "idle" /\ pc # "idle"
      /\ UNCHANGED <<runs, final, summary, signed>>
  BY DEF Interrupt, End, signing
<1>2. CASE UNCHANGED <<text, partial>>
  BY <1>1, <1>2, SameFiles DEF files
<1>3. ASSUME pc = "sections",
             text' = text \/ \E v \in Verified \cup {"FAIL"} : Write(v),
             partial' = [doc |-> runs, counts |-> Counts(status), statuses |-> results]
      PROVE  DirectoryInv'
  <2>1. DOMAIN results = 1..Len(results) /\ runs \in 0..runs
    BY DEF TypeInv, RunTypes
  <2>2. \A i \in 1..Len(results) : i \in Sections /\ text'[i] = text[i]
    BY <1>3, WriteKeeps
  <2>3. partial'.doc = runs /\ partial'.statuses = results
    BY <1>3
  <2>4. Filed' /\ Partly' /\ Accepted'
    BY <1>1, <2>1, <2>2, <2>3 DEF DirectoryInv, Filed, Partly, Accepted
  <2>5. AcceptedTextOnDisk'
    <3>1. final' # None => final'.doc # runs
      BY <1>1 DEF DirectoryInv, Filed
    <3>2. \A i \in DOMAIN results : results[i] \in Verified =>
            text'[i] = [doc |-> runs, verdict |-> results[i]]
      BY <2>1, <2>2 DEF DirectoryInv, Accepted
    <3>3. QED
      BY <2>3, <3>1, <3>2 DEF AcceptedTextOnDisk
  <2>6. PassedTextIsClean'
    BY <1>1 DEF DirectoryInv, SummariesMatchTexts, PassedTextIsClean
  <2>7. ReleasedIsSigned'
    <3>1. summary # None => summary.doc # runs
      BY <1>1 DEF DirectoryInv, Filed
    <3>2. QED
      BY <1>1, <2>3, <3>1 DEF DirectoryInv, ReleasedIsSigned
  <2>8. QED
    BY <2>4, <2>5, <2>6, <2>7 DEF DirectoryInv, SummariesMatchTexts
<1>4. QED
  BY <1>2, <1>3 DEF Interrupt

\* A new run finds files of earlier ones, or none.
LEMMA StartKeeps ==
  ASSUME TypeInv, DirectoryInv,
         NEW s \in Specs, NEW fresh \in BOOLEAN, Start(s, fresh)
  PROVE  DirectoryInv'
<1>1. /\ runs' = runs + 1 /\ runs \in Nat /\ pc' = "sections" /\ results' = <<>>
      /\ signed' = signed
  BY DocumentConstants DEF Start, signing, TypeInv, RunTypes
<1>2. \A d \in 0..runs : d \in 0..runs' /\ d # runs'
  BY <1>1
<1>3. Accepted'
  BY <1>1 DEF Accepted
<1>4. CASE fresh
  <2>1. partial' = None /\ final' = None /\ summary' = None
    BY <1>4 DEF Start
  <2>2. QED
    BY <1>1, <1>3, <2>1
       DEF DirectoryInv, Filed, Partly, SummariesMatchTexts, AcceptedTextOnDisk,
           PassedTextIsClean, ReleasedIsSigned
<1>5. CASE ~fresh
  <2>1. UNCHANGED <<text, partial, final, summary>>
    BY <1>5 DEF Start, files
  <2>2. Filed' /\ Partly'
    BY <1>1, <1>2, <2>1 DEF DirectoryInv, Filed, Partly
  <2>3. SummariesMatchTexts' /\ ReleasedIsSigned'
    BY <1>1, <2>1
       DEF DirectoryInv, SummariesMatchTexts, AcceptedTextOnDisk, PassedTextIsClean,
           ReleasedIsSigned
  <2>4. QED
    BY <1>3, <2>2, <2>3 DEF DirectoryInv
<1>6. QED
  BY <1>4, <1>5

LEMMA EvidenceKeeps ==
  ASSUME TypeInv, DirectoryInv, DecidedInv, WriteEvidence
  PROVE  DirectoryInv'
<1>1. /\ pc = "evidence" /\ pc' = "idle" /\ results' = <<>>
      /\ UNCHANGED <<runs, text, partial, signed>>
  BY DEF WriteEvidence, End, signing
<1>2. CASE UNCHANGED <<final, summary>>
  BY <1>1, <1>2, SameFiles DEF files
<1>3. ASSUME final' = [doc |-> runs, texts |-> text],
             \/ UNCHANGED summary
             \/ summary' = [doc |-> runs, disposition |-> disposition,
                            counts |-> Counts(status), spec |-> spec]
      PROVE  DirectoryInv'
  <2>1. /\ partial.doc = runs /\ partial.statuses = results
        /\ summary # None => summary.doc \in 0..runs /\ summary.doc # runs
        /\ final'.doc = runs /\ final'.texts = text
    BY <1>1, <1>3 DEF DirectoryInv, Partly, Filed
  <2>2. DOMAIN results = 1..Len(results) /\ runs \in 0..runs /\ Len(results) = N
    BY <1>1 DEF TypeInv, RunTypes, AtStage
  <2>3. \A i \in Sections : results[i] \in Verified =>
          text[i] = [doc |-> runs, verdict |-> results[i]]
    BY <2>2 DEF DirectoryInv, Accepted, Sections
  <2>4. Accepted'
    BY <1>1 DEF Accepted
  <2>5. Partly'
    BY <1>1 DEF Partly
  <2>6. Filed'
    <3>1. summary' # None => summary'.doc \in 0..runs
      BY <1>3, <2>1, <2>2
    <3>2. QED
      BY <1>1, <2>1, <2>2, <3>1 DEF DirectoryInv, Filed
  <2>7. AcceptedTextOnDisk'
    <3>1. \A i \in DOMAIN partial.statuses : partial.statuses[i] \in Verified =>
            /\ text[i] = [doc |-> partial.doc, verdict |-> partial.statuses[i]]
            /\ final'.texts[i] = [doc |-> partial.doc, verdict |-> partial.statuses[i]]
      BY <2>1, <2>2, <2>3 DEF Sections
    <3>2. QED
      BY <1>1, <3>1 DEF AcceptedTextOnDisk
  <2>8. PassedTextIsClean'
    <3> SUFFICES ASSUME summary' # None, final' # None, summary'.disposition = "PASS",
                        final'.doc = summary'.doc, NEW i \in Sections
                 PROVE  final'.texts[i] = [doc |-> summary'.doc, verdict |-> "PASS"]
      BY DEF PassedTextIsClean
    <3>1. summary' = [doc |-> runs, disposition |-> disposition,
                      counts |-> Counts(status), spec |-> spec]
      BY <1>3, <2>1
    <3>2. disposition = "PASS" /\ summary'.doc = runs
      BY <3>1
    <3>3. results[i] = "PASS"
      <4>1. i \in DOMAIN results
        BY <2>2 DEF Sections
      <4>2. QED
        BY <1>1, <3>2, <4>1 DEF DecidedInv, Range
    <3>4. QED
      BY <2>1, <2>3, <3>2, <3>3 DEF Verified
  <2>9. ReleasedIsSigned'
    <3>1. CASE UNCHANGED summary
      BY <1>1, <3>1 DEF DirectoryInv, ReleasedIsSigned
    <3>2. CASE summary' = [doc |-> runs, disposition |-> disposition,
                           counts |-> Counts(status), spec |-> spec]
      <4>1. /\ summary'.doc = runs /\ summary'.disposition = disposition
            /\ summary'.spec = spec
        BY <3>2
      <4>2. QED
        BY <1>1, <2>1, <4>1 DEF DecidedInv, Provisional, ReleasedIsSigned
    <3>3. QED
      BY <1>3, <3>1, <3>2
  <2>10. QED
    BY <2>4, <2>5, <2>6, <2>7, <2>8, <2>9 DEF DirectoryInv, SummariesMatchTexts
<1>4. QED
  BY <1>2, <1>3 DEF WriteEvidence

LEMMA DirectoryStep ==
  ASSUME TypeInv, SignedInv, DecidedInv, DirectoryInv, [Next]_vars
  PROVE  DirectoryInv'
<1>1. signed \subseteq signed'
  BY SignedStep
<1>2. CASE GlobalChecks \/ ClaimAnalysis \/ Decide
  BY <1>1, <1>2, SameFiles DEF GlobalChecks, ClaimAnalysis, Decide, run, sections
<1>3. ASSUME NEW a \in Approvers, Approve(a) PROVE DirectoryInv'
  BY <1>1, <1>3, SameFiles
     DEF Approve, ReadApprovals, TruncateApprovals, WriteApprovals, ApproveDies, run, sections
<1>4. CASE UNCHANGED vars
  BY <1>1, <1>4, SameFiles DEF vars, run, sections
<1>5. QED
  BY <1>2, <1>3, <1>4, SectionKeeps, InterruptKeeps, StartKeeps, EvidenceKeeps
     DEF Next, Stage

DocumentInv == TypeInv /\ SignedInv /\ DecidedInv /\ DirectoryInv

LEMMA DocumentInvHolds == Spec => []DocumentInv
<1>1. Init => DocumentInv
  <2>1. Init => DecidedInv
    BY DEF Init, DecidedInv
  <2>2. QED
    BY <2>1, InitTypes, SignedInit, DirectoryInit DEF DocumentInv
<1>2. DocumentInv /\ [Next]_vars => DocumentInv'
  BY NextTypes, SignedStep, DecidedStep, DirectoryStep DEF DocumentInv
<1>3. QED
  BY <1>1, <1>2, PTL DEF Spec

\* A document released by its summary was approved by every role its spec
\* names, under its own id, and one of high risk has no provisional section,
\* whatever approve commands overlap, die or reject and wherever runs were cut
\* (ReleasedIsSigned).
THEOREM ReleasesAreSigned == Spec => []ReleasedIsSigned
<1>1. DocumentInv => ReleasedIsSigned
  BY DEF DocumentInv, DirectoryInv
<1>2. QED
  BY <1>1, DocumentInvHolds, PTL

\* What the summaries say of a text is what the verifier said of the text that
\* lies beside them, wherever a run was cut (SummariesMatchTexts).
THEOREM SummariesAreTrue == Spec => []SummariesMatchTexts
<1>1. DocumentInv => SummariesMatchTexts
  BY DEF DocumentInv, DirectoryInv
<1>2. QED
  BY <1>1, DocumentInvHolds, PTL

=============================================================================
