---------------------------- MODULE DocumentRun ----------------------------
(***************************************************************************)
(* Document mode: run_document generates, verifies and retries a section   *)
(* after the other, checks the whole, reads the approvals on file, decides *)
(* the document's status and writes its evidence (document_runner.py and   *)
(* the modules it calls), while `saturnday approve` commands, processes of *)
(* their own, read, change and rewrite approvals.json (signoff.py).        *)
(*                                                                         *)
(* A text is the run that generated it and what the verifier says of it.   *)
(* Every section is a required one, as generate_document_plan makes one    *)
(* section of each name in required_sections.                              *)
(***************************************************************************)
EXTENDS Naturals, Sequences, FiniteSets, Functions

CONSTANTS
  N,             \* number of sections
  Roles,         \* roles that may sign
  Retries,       \* max_retry_per_section
  Specs,         \* the doc-specs: their risk_class and sign_off_roles
  Approvers,     \* approve commands that may be under way together
  MaxRuns,       \* bound: document runs
  MaxApprovals,  \* bound: approve commands
  None,          \* no file, no record, no command
  Torn           \* approvals.json truncated or mixed: not JSON

\* document_id: a fresh uuid for every plan.  Document 0 is one of an earlier
\* run, which may have left its files in the directory.
Documents == 0..MaxRuns
Sections == 1..N
Signs == {"approved", "rejected", "pending"}
Records == [Documents -> [Roles -> Signs \cup {None}]]
Command == [doc : Documents, role : Roles, sign : Signs, seen : Records,
            writing : BOOLEAN]

\* validate_doc_spec: there are required sections, and medium and high risk
\* must name sign-off roles.
ASSUME DocumentConstants ==
  /\ N \in Nat \ {0} /\ {Retries, MaxRuns, MaxApprovals} \subseteq Nat
  /\ Specs \subseteq [risk : {"low", "medium", "high"}, roles : SUBSET Roles]
  /\ \A s \in Specs : s.risk = "low" \/ s.roles # {}
  /\ Torn \notin Records /\ None \notin Signs \cup Command

NoSigns == [r \in Roles |-> None]
NoRecords == [d \in Documents |-> NoSigns]

Verified == {"PASS", "WARN"}
Texts == [doc : Documents, verdict : Verified \cup {"FAIL"}]

VARIABLES
  premium,     \* whether the registry holds doc_post_global
  runs,        \* runs started; the last one's document_id
  pc,          \* the stage of the run in progress, or "idle"
  spec,        \* its doc-spec
  status,      \* plan.sections[i].status
  results,     \* the status of each entry of section_results
  attempt,     \* attempt_n of the section in progress
  findings,    \* severities among global_findings
  disposition, \* document_status
  text,        \* sections/S00i/section.md of the output directory
  partial,     \* partial-run-summary.json
  final,       \* final-document.md
  summary,     \* run-summary.json
  store,       \* approvals.json
  cmd,         \* the approve command of each approver
  approvals,   \* approve commands given
  last,        \* history: what each role last said of each document
  signed,      \* history: who ever approved which document
  clash        \* history: two commands overlapped, or one died

run      == <<runs, spec, premium>>
sections == <<status, results, attempt>>
verdict  == <<findings, disposition>>
files    == <<text, partial, final, summary>>
signing  == <<store, cmd, approvals, last, signed, clash>>
vars     == <<run, pc, sections, verdict, files, signing>>

Directory(texts, summed, assembled, told) ==
  text = texts /\ partial = summed /\ final = assembled /\ summary = told

Empty == [i \in Sections |-> None]

\* The directory is empty, or as a document of N clean sections left it.
Init ==
  /\ premium \in BOOLEAN /\ runs = 0 /\ pc = "idle" /\ spec = None
  /\ status = <<>> /\ results = <<>> /\ attempt = 0
  /\ findings = {} /\ disposition = "PENDING"
  /\ LET clean == [i \in Sections |-> [doc |-> 0, verdict |-> "PASS"]]
         counts == [passed |-> N, failed |-> 0, provisional |-> 0] IN
     \/ Directory(Empty, None, None, None)
     \/ \E s \in Specs :
          /\ s.risk = "low" /\ s.roles = {}
          /\ Directory(clean,
               [doc |-> 0, counts |-> counts, statuses |-> [i \in Sections |-> "PASS"]],
               [doc |-> 0, texts |-> clean],
               [doc |-> 0, disposition |-> "PASS", counts |-> counts, spec |-> s])
  /\ store = NoRecords /\ cmd = [a \in Approvers |-> None] /\ approvals = 0
  /\ last = NoRecords /\ signed = {} /\ clash = FALSE

---------------------------------------------------------------------------
(* The run: its sections *)

\* Without --output-dir the directory is a new one.
Start(s, fresh) ==
  /\ pc = "idle" /\ runs < MaxRuns
  /\ runs' = runs + 1 /\ spec' = s /\ pc' = "sections"
  /\ status' = [i \in Sections |-> "PENDING"] /\ results' = <<>> /\ attempt' = 1
  /\ findings' = {} /\ disposition' = "PENDING"
  /\ IF fresh THEN /\ text' = Empty
                   /\ partial' = None /\ final' = None /\ summary' = None
     ELSE UNCHANGED files
  /\ UNCHANGED <<premium, signing>>

Now == Len(results) + 1  \* the section in progress

Counted(st, which) == Cardinality({i \in Sections : st[i] \in which})

Counts(st) == [passed      |-> Counted(st, Verified),
               failed      |-> Counted(st, {"FAIL"}),
               provisional |-> Counted(st, {"PROVISIONAL_UNVERIFIED"})]

\* The section's result is in: the counts are taken from plan.sections, the
\* statuses from section_results, and both are written to the partial summary.
Finish(sectionStatus, resultStatus) ==
  /\ status' = [status EXCEPT ![Now] = sectionStatus]
  /\ results' = Append(results, resultStatus)
  /\ partial' = [doc |-> runs, counts |-> Counts(status'), statuses |-> results']
  /\ attempt' = 1
  /\ pc' = IF Now = N THEN "global" ELSE "sections"

\* The file of an earlier attempt is kept.
Bug_Write(v) ==
  text' = IF text[Now] = None THEN [text EXCEPT ![Now] = [doc |-> runs, verdict |-> v]]
          ELSE text

Write(v) == text' = [text EXCEPT ![Now] = [doc |-> runs, verdict |-> v]]

Bug_Exhausted == attempt > Retries + 1
Exhausted == attempt > Retries

\* One attempt whose text is written and then verified.
Generate(v) ==
  /\ pc = "sections" /\ Write(v)
  /\ CASE v \in Verified -> Finish(v, v)
       [] v = "FAIL" /\ ~Exhausted ->
            attempt' = attempt + 1 /\ UNCHANGED <<pc, status, results, partial>>
       [] OTHER -> Finish("PROVISIONAL_UNVERIFIED", "PROVISIONAL_UNVERIFIED")
  /\ UNCHANGED <<run, verdict, final, summary, signing>>

\* run_section returns ERROR, before or after it wrote the text: the result
\* turns provisional, section.status is not assigned.
GenerateError ==
  /\ pc = "sections"
  /\ text' = text \/ \E v \in Verified \cup {"FAIL"} : Write(v)
  /\ Finish(status[Now], "PROVISIONAL_UNVERIFIED")
  /\ UNCHANGED <<run, verdict, final, summary, signing>>

\* The verifier or the archiving of an attempt raises.
SectionRaises ==
  /\ pc = "sections"
  /\ \E v \in Verified \cup {"FAIL"} : Write(v)
  /\ Finish("PROVISIONAL_UNVERIFIED", "PROVISIONAL_UNVERIFIED")
  /\ UNCHANGED <<run, verdict, final, summary, signing>>

\* What the run keeps in memory is gone.
End ==
  /\ pc' = "idle" /\ spec' = None /\ status' = <<>> /\ results' = <<>>
  /\ attempt' = 0 /\ findings' = {} /\ disposition' = "PENDING"

\* Ctrl-C, or the process dies; in the section loop Ctrl-C writes the partial
\* summary once more, and may come between a text and its verification.
Interrupt ==
  /\ pc # "idle" /\ End
  /\ \/ UNCHANGED <<text, partial>>
     \/ /\ pc = "sections"
        /\ text' = text \/ \E v \in Verified \cup {"FAIL"} : Write(v)
        /\ partial' = [doc |-> runs, counts |-> Counts(status), statuses |-> results]
  /\ UNCHANGED <<premium, runs, final, summary, signing>>

---------------------------------------------------------------------------
(* The run: the whole document *)

Provisional == "PROVISIONAL_UNVERIFIED" \in Range(results)

\* run_global_checks warns of provisional sections; its other checks may find
\* anything; a failure of the whole leaves no findings.
GlobalChecks ==
  /\ pc = "global" /\ pc' = IF premium THEN "claims" ELSE "decide"
  /\ \/ \E found \in SUBSET {"warning", "error"} :
          findings' = found \cup (IF Provisional THEN {"warning"} ELSE {})
     \/ findings' = {}
  /\ UNCHANGED <<run, sections, disposition, files, signing>>

\* Contradicted claims are errors, unsupported ones warnings.
ClaimAnalysis ==
  /\ pc = "claims" /\ pc' = "decide"
  /\ \E found \in SUBSET {"warning", "error"} : findings' = findings \cup found
  /\ UNCHANGED <<run, sections, disposition, files, signing>>

Approved(signs) == {r \in Roles : signs[r] = "approved"}

Publishable(signs) ==
  /\ "FAIL" \notin Range(results)
  /\ Provisional => CASE spec.risk = "high"   -> FALSE
                      [] spec.risk = "medium" -> spec.roles \subseteq Approved(signs)
                      [] spec.risk = "low"    -> TRUE

\* One signature will do.
Bug_SignoffAny(signs) == Approved(signs) # {} \/ spec.roles = {}

SignoffComplete(signs) ==
  /\ \A r \in Roles : signs[r] # "rejected"
  /\ spec.roles \subseteq Approved(signs)

\* _determine_document_status, in its order of precedence.
DocumentStatus(publishable, complete) ==
  IF "FAIL" \in Range(results) \/ "error" \in findings THEN "FAIL"
  ELSE IF ~publishable \/ (spec.roles # {} /\ ~complete) THEN "BLOCKED_FOR_SIGNOFF"
  ELSE IF Provisional /\ spec.risk # "low" THEN "PROVISIONAL_UNVERIFIED"
  ELSE IF Provisional \/ "WARN" \in Range(results) \/ "warning" \in findings
       THEN "WARN"
  ELSE "PASS"

\* An unreadable file holds no approvals.
Loaded(s) == IF s = Torn THEN NoRecords ELSE s

\* Stages 7 to 9.  Without the premium hook nothing is loaded.
Decide ==
  LET signs == Loaded(store)[runs] IN
  /\ pc = "decide" /\ pc' = "evidence"
  /\ disposition' = IF premium
                    THEN DocumentStatus(Publishable(signs), SignoffComplete(signs))
                    ELSE DocumentStatus(TRUE, spec.roles = {})
  /\ UNCHANGED <<run, sections, findings, files, signing>>

\* The sections' files are read again.  A failure at any point is not fatal:
\* the files written so far stay.
WriteEvidence ==
  /\ pc = "evidence" /\ End
  /\ \/ UNCHANGED <<final, summary>>
     \/ /\ final' = [doc |-> runs, texts |-> text]
        /\ \/ UNCHANGED summary
           \/ summary' = [doc |-> runs, disposition |-> disposition,
                          counts |-> Counts(status), spec |-> spec]
  /\ UNCHANGED <<premium, runs, text, partial, signing>>

---------------------------------------------------------------------------
(* saturnday approve *)

\* record_approval reads the whole file first.
ReadApprovals(a, d, r, sign) ==
  /\ premium /\ cmd[a] = None /\ approvals < MaxApprovals /\ d <= runs
  /\ approvals' = approvals + 1
  /\ cmd' = [cmd EXCEPT ![a] = [doc |-> d, role |-> r, sign |-> sign,
                                seen |-> Loaded(store), writing |-> FALSE]]
  /\ clash' = (clash \/ \E b \in Approvers : cmd[b] # None)
  /\ UNCHANGED <<run, pc, sections, verdict, files, store, last, signed>>

\* write_text opens the file, which empties it ...
TruncateApprovals(a) ==
  /\ cmd[a] # None /\ ~cmd[a].writing
  /\ cmd' = [cmd EXCEPT ![a].writing = TRUE] /\ store' = Torn
  /\ UNCHANGED <<run, pc, sections, verdict, files, approvals, last, signed, clash>>

\* The role's records of every document are dropped.
Bug_Recorded(c) ==
  [d \in Documents |-> [c.seen[d] EXCEPT ![c.role] = IF d = c.doc THEN c.sign
                                                     ELSE None]]

\* The role's record of this document replaces an older one.
Recorded(c) == [c.seen EXCEPT ![c.doc][c.role] = c.sign]

\* ... and then writes the records.  Two commands that have both opened it may
\* leave a mixture of their texts.
WriteApprovals(a) ==
  LET c == cmd[a] IN
  /\ c # None /\ c.writing
  /\ cmd' = [cmd EXCEPT ![a] = None]
  /\ store' = Recorded(c) \/ (store # Torn /\ store' = Torn)
  /\ last' = [last EXCEPT ![c.doc][c.role] = c.sign]
  /\ signed' = IF c.sign = "approved" THEN signed \cup {<<c.doc, c.role>>} ELSE signed
  /\ UNCHANGED <<run, pc, sections, verdict, files, approvals, clash>>

ApproveDies(a) ==
  /\ cmd[a] # None /\ cmd' = [cmd EXCEPT ![a] = None] /\ clash' = TRUE
  /\ UNCHANGED <<run, pc, sections, verdict, files, store, approvals, last, signed>>

---------------------------------------------------------------------------

Stage == GlobalChecks \/ ClaimAnalysis \/ Decide \/ WriteEvidence

Section == GenerateError \/ SectionRaises
           \/ \E v \in Verified \cup {"FAIL"} : Generate(v)

Approve(a) ==
  \/ \E d \in Documents, r \in Roles, sign \in Signs : ReadApprovals(a, d, r, sign)
  \/ TruncateApprovals(a) \/ WriteApprovals(a) \/ ApproveDies(a)

Next ==
  \/ \E s \in Specs, fresh \in BOOLEAN : Start(s, fresh)
  \/ Section \/ Stage \/ Interrupt
  \/ \E a \in Approvers : Approve(a)

Spec == Init /\ [][Next]_vars

---------------------------------------------------------------------------
(* Properties *)

Statuses == Verified \cup {"PENDING", "FAIL", "PROVISIONAL_UNVERIFIED"}
Released == Verified \cup {"PROVISIONAL_UNVERIFIED"}

\* Every variable has its type.
TypeOK ==
  /\ premium \in BOOLEAN /\ runs \in 0..MaxRuns /\ spec \in Specs \cup {None}
  /\ pc \in {"idle", "sections", "global", "claims", "decide", "evidence"}
  /\ Range(status) \cup Range(results) \subseteq Statuses /\ Len(results) <= N
  /\ attempt \in 0..(Retries + 1) /\ findings \subseteq {"warning", "error"}
  /\ disposition \in Released \cup {"PENDING", "FAIL", "BLOCKED_FOR_SIGNOFF"}
  /\ text \in [Sections -> Texts \cup {None}]
  /\ store \in Records \cup {Torn} /\ last \in Records
  /\ approvals \in 0..MaxApprovals /\ signed \subseteq Documents \X Roles
  /\ \A a \in Approvers : cmd[a] \in Command \cup {None}

\* A released document, one whose summary does not say FAIL or BLOCKED, was
\* approved by every role its spec names, under its own id and while it ran;
\* and one of high risk has no provisional section.  This holds whatever
\* approve commands overlap, die or reject (document_runner.py:566-580).
ReleasedIsSigned ==
  summary # None /\ summary.disposition \in Released =>
    /\ \A r \in summary.spec.roles : <<summary.doc, r>> \in signed
    /\ summary.spec.risk = "high" /\ partial.doc = summary.doc =>
         "PROVISIONAL_UNVERIFIED" \notin Range(partial.statuses)

\* A text that a partial summary calls PASS or WARN is the one the verifier
\* said that of, in its file and in the final document, wherever the run was
\* cut, as long as no later run has used the directory.
AcceptedTextOnDisk ==
  partial # None =>
    \A i \in DOMAIN partial.statuses :
      LET accepted == [doc |-> partial.doc, verdict |-> partial.statuses[i]] IN
      partial.statuses[i] \in Verified =>
        /\ text[i] # None /\ text[i].doc = partial.doc => text[i] = accepted
        /\ final # None /\ final.doc = partial.doc => final.texts[i] = accepted

\* A summary that says PASS stands on a final document of which the verifier
\* had nothing to say, written by that run.
PassedTextIsClean ==
  summary # None /\ final # None /\ summary.disposition = "PASS"
      /\ final.doc = summary.doc =>
    \A i \in Sections : final.texts[i] = [doc |-> summary.doc, verdict |-> "PASS"]

\* Both summaries, the one written after each section and the last one, tell
\* the truth about the texts that lie beside them.
SummariesMatchTexts == AcceptedTextOnDisk /\ PassedTextIsClean

\* As long as approve commands neither overlap nor die, the file holds what
\* each role last said of each document (signoff.py:160-174).
ApprovalsStand ==
  ~clash => IF store = Torn THEN \E a \in Approvers : cmd[a] # None
            ELSE store = last
=============================================================================
