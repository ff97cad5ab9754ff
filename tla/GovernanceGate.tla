---------------------------- MODULE GovernanceGate ----------------------------
(***************************************************************************)
(* What may enter HEAD past saturnday's two gates: the operator's commits  *)
(* through the pre-commit hook, a ticket's commit through _run_governance. *)
(* Both scan the changed files of the working tree (review.run_review),    *)
(* drop what the policy exempts, compute a disposition, soften it by       *)
(* expected_findings, and hold it against the ratchet baseline and the     *)
(* waivers (governance.py, ratchet.py, waivers.py); a run then discounts   *)
(* what was failing before the ticket.                                     *)
(*                                                                         *)
(* A finding is a site: a check and the file it reports, the repository    *)
(* itself for the project-level checks.  What the files hold, which tools  *)
(* answer and how fast the deadline comes is open.                         *)
(***************************************************************************)
EXTENDS Integers, FiniteSets

CONSTANTS
  Files, PyFiles,  \* the files of the repository, the Python files
  Repo,            \* where project-level checks report
  Checks,          \* the checks
  Errors,          \* those of error severity; the others are warnings
  Syntax,          \* the check that hides others when it fails
  Masked,          \* the checks it hides
  Tools,           \* the masked checks that run an external program
  Quiet, Radius,   \* the checks a run is silent about, does not count
  Sites,           \* what can be reported: pairs of a check and a place
  GateRule,        \* the rule id a gate gives the findings of a check,
  BaselineRule,    \* the one "baseline generate" gives them
  Settings,        \* the policies and baseline options to consider
  Starts,          \* what HEAD holds at first
  LastDay,         \* bound: the last day
  MaxScans,        \* bound: scans for a commit, an attempt or a baseline
  None             \* no baseline, no ticket, no verdict

Places == Files \cup {Repo}
At(p) == {s \in Sites : s[2] = p}
ProjectChecks == {s[1] : s \in At(Repo)}
Rules == {GateRule[c] : c \in Checks} \cup {BaselineRule[c] : c \in Checks}
Fingerprints == Rules \X Places
Answers == {"ran", "skipped", "garbled"}

Setting == [exempt : SUBSET Sites, expected : SUBSET Checks,
            waivers : SUBSET [rule : Rules, place : Places, until : Int],
            mode : {"block_new", "ratchet_down"}, deadline : Nat]

ASSUME GateConstants ==
  /\ IsFiniteSet(Files) /\ IsFiniteSet(Checks)
  /\ PyFiles \subseteq Files /\ Repo \notin Files
  /\ Errors \subseteq Checks /\ Syntax \in Checks /\ Quiet \subseteq Checks
  /\ Tools \subseteq Masked /\ Masked \subseteq Checks \ {Syntax}
  /\ Radius \subseteq Quiet
  /\ Sites \subseteq Checks \X Places
  /\ ProjectChecks \cap (Masked \cup Quiet \cup {Syntax}) = {}
  /\ DOMAIN GateRule = Checks /\ DOMAIN BaselineRule = Checks
  /\ Settings \subseteq Setting
  /\ Starts \subseteq SUBSET Sites
  /\ LastDay \in Nat /\ MaxScans \in Nat

VARIABLES
  settings, \* policy and baseline options, fixed
  head,     \* the sites in HEAD
  index,    \* those in what is staged
  work,     \* those in the working tree
  touched,  \* the places that differ from HEAD
  staged,   \* the places whose change is staged
  baseline, \* .saturnday-baseline.json: fingerprints, or None
  today,    \* the date
  scans,    \* scans so far
  ticket,   \* the project checks failing before the ticket, None outside one
  verdict,  \* history: the last decision, None when something happened since
  captured  \* history: what the scan the baseline was taken from reported

trees == <<head, index, work, touched, staged>>
vars == <<settings, trees, baseline, today, scans, ticket, verdict, captured>>

Init ==
  /\ settings \in Settings
  /\ head \in Starts /\ index = head /\ work = head
  /\ touched = {} /\ staged = {}
  /\ baseline = None /\ captured = {}
  /\ today = 0 /\ scans = 0 /\ ticket = None /\ verdict = None

---------------------------------------------------------------------------
(* The scan *)

Unparsed(F) == \E f \in F : <<Syntax, f>> \in work

\* The checks of a scan of F that report nothing: behind a syntax error, or
\* their program is missing, timed out or printed what cannot be read.
Silent(F, tools) ==
  IF Unparsed(F) THEN Masked ELSE {t \in Tools : tools[t] # "ran"}

\* Output that cannot be read is a failure without findings.
Garbled(F, tools) ==
  IF Unparsed(F) \/ F \cap PyFiles = {} THEN {}
  ELSE {t \in Tools : tools[t] = "garbled"}

\* run_review over the files F of the working tree; project-level checks
\* always run.
Seen(F, tools) ==
  {s \in work : s[2] \in F \cup {Repo} /\ s[1] \notin Silent(F, tools)}

\* A failing check whose findings are all exempt passes.
Report(tools) == [kept    |-> Seen(staged, tools) \ settings.exempt,
                  garbled |-> Garbled(staged, tools)]

Failing(r) == {s[1] : s \in r.kept} \cup r.garbled

Disposition(failing) ==
  CASE failing \cap Errors # {} -> "FAIL"
    [] failing \cap Errors = {} /\ failing # {} -> "WARN"
    [] failing = {} -> "PASS"

---------------------------------------------------------------------------
(* Policy and ratchet *)

\* Mutant: one expected finding is enough.
Bug_Cleared(r) ==
  /\ Failing(r) \cap Errors # {}
  /\ \E s \in r.kept : s[1] \in Errors \cap settings.expected

\* expected_findings: every failing error check is expected or has no
\* findings left to look at.
Cleared(r) ==
  /\ Failing(r) \cap Errors # {} /\ settings.expected # {}
  /\ \A s \in r.kept : s[1] \in Errors => s[1] \in settings.expected

Fingerprint(rule, s) == <<rule[s[1]], s[2]>>
FingerprintsOf(r) == {Fingerprint(GateRule, s) : s \in r.kept}

Waived(p) ==
  \E w \in settings.waivers : w.rule = p[1] /\ w.place = p[2] /\ w.until >= today

\* Mutant: the deadline is not looked at.
Bug_Overdue(legacy) == FALSE
Overdue(legacy) == today >= settings.deadline /\ legacy # {}

\* Mutant: the ratchet compares how many findings there are.
Bug_Compare(current, known, waived) ==
  IF Cardinality(current) > Cardinality(known) THEN "FAIL" ELSE "PASS"

\* compare_findings
Compare(current, known, waived) ==
  IF \/ (current \ known) \ waived # {}
     \/ /\ settings.mode = "ratchet_down"
        /\ Cardinality(current \ waived) > Cardinality(known \ waived)
     \/ Overdue((current \cap known) \ waived)
  THEN "FAIL" ELSE "PASS"

Ratchet(r) ==
  IF baseline = None THEN "none"
  ELSE Compare(FingerprintsOf(r), baseline, {p \in FingerprintsOf(r) : Waived(p)})

\* Mutant: the ratchet only ever adds failures.
Bug_Reduces(r) == FALSE

\* When every finding is known or waived, what fails is known debt.
Reduces(r) ==
  /\ Ratchet(r) = "PASS" /\ FingerprintsOf(r) # {}
  /\ \A p \in FingerprintsOf(r) : p \in baseline \/ Waived(p)

\* run_governance_check
Governance(r) ==
  LET policy == IF Cleared(r) THEN "WARN" ELSE Disposition(Failing(r)) IN
  CASE Ratchet(r) = "FAIL" -> "FAIL"
    [] Ratchet(r) # "FAIL" /\ policy = "FAIL" /\ Reduces(r) -> "PASS"
    [] Ratchet(r) # "FAIL" /\ ~(policy = "FAIL" /\ Reduces(r)) -> policy

---------------------------------------------------------------------------
(* The gates *)

\* The hook lets warnings through.
HookPasses(r) == Governance(r) # "FAIL"

\* _run_governance: a run is silent about some checks, and about project
\* checks that failed or could not be run before the ticket.
Relevant(r) == {s \in r.kept : s[1] \notin Quiet \cup ticket}

\* What is left of the failing checks decides, and a failure counts only when
\* it has a finding.  Of the warnings only an expected failure passes.
RunPasses(r) ==
  \/ Failing(r) \ (ticket \cup Radius) = {}
  \/ Governance(r) = "PASS"
  \/ Governance(r) = "FAIL" /\ Relevant(r) = {}
  \/ Governance(r) = "WARN" /\ Cleared(r)

---------------------------------------------------------------------------
(* The operator and the coder *)

Quietly == scans < MaxScans /\ verdict' = None
Scan == scans < MaxScans /\ scans' = scans + 1

\* A place is changed once before and once after it is staged.
Edit(p, D) ==
  /\ p \in touched => p \in staged /\ work \cap At(p) = index \cap At(p)
  /\ ticket = None \/ staged = {}
  /\ work' = (work \ At(p)) \cup D
  /\ touched' = touched \cup {p}
  /\ Quietly
  /\ UNCHANGED <<settings, head, index, staged, baseline, today, scans, ticket, captured>>

Stage(p) ==
  /\ ticket = None /\ p \in touched
  /\ index' = (index \ At(p)) \cup (work \cap At(p))
  /\ staged' = staged \cup {p}
  /\ Quietly
  /\ UNCHANGED <<settings, head, work, touched, baseline, today, scans, ticket, captured>>

Tick ==
  /\ today < LastDay /\ today' = today + 1
  /\ Quietly
  /\ UNCHANGED <<settings, trees, baseline, scans, ticket, captured>>

\* What saturnday baseline generate writes, for the bootstrap as well.
Captured(tools) ==
  /\ baseline' = {Fingerprint(BaselineRule, s) : s \in Seen(Files, tools)}
  /\ captured' = Seen(Files, tools)

GenerateBaseline(tools) ==
  /\ ticket = None /\ Scan
  /\ Captured(tools)
  /\ Quietly
  /\ UNCHANGED <<settings, trees, today, ticket>>

\* Mutant: the commit takes the working tree.
Bug_Commit == head' = work /\ staged' = {} /\ touched' = touched \ staged

Commit ==
  /\ head' = index /\ staged' = {}
  /\ touched' = (touched \ staged)
                  \cup {p \in staged : work \cap At(p) # index \cap At(p)}

\* git commit in the operator's shell.
HookCommit(tools) ==
  /\ ticket = None /\ staged # {} /\ Scan
  /\ LET r == Report(tools) IN
     /\ verdict' = [gate |-> "hook", passed |-> HookPasses(r), tools |-> tools,
                    kept |-> r.kept]
     /\ IF HookPasses(r) THEN Commit ELSE UNCHANGED <<head, staged, touched>>
  /\ UNCHANGED <<settings, index, work, baseline, today, ticket, captured>>

\* saturnday run seeds a missing baseline, always in block_new and without a
\* date, or goes on without one when that fails; then it looks at the project
\* checks once for all attempts; one that raises counts as failing.
StartTicket(tools, unknown) ==
  /\ ticket = None /\ touched = {}
  /\ ticket' = {c \in ProjectChecks : <<c, Repo>> \in work} \cup unknown
  /\ \/ /\ baseline = None /\ settings.mode = "block_new" /\ settings.deadline > LastDay
        /\ Scan /\ Captured(tools)
     \/ UNCHANGED <<baseline, captured, scans>>
  /\ Quietly
  /\ UNCHANGED <<settings, trees, today>>

\* git add, then governance.
AddAll ==
  /\ ticket # None /\ staged = {} /\ touched # {}
  /\ index' = work /\ staged' = touched
  /\ Quietly
  /\ UNCHANGED <<settings, head, work, touched, baseline, today, scans, ticket, captured>>

\* A passing attempt is committed.  Another is reset and tried again, or, the
\* last, committed for review.
RunGate(tools) ==
  /\ ticket # None /\ staged # {} /\ Scan
  /\ LET r == Report(tools) IN
     /\ verdict' = [gate |-> "run", passed |-> RunPasses(r), tools |-> tools,
                    kept |-> r.kept]
     /\ \/ /\ Commit /\ ticket' = None /\ UNCHANGED <<index, work>>
        \/ /\ ~RunPasses(r)
           /\ index' = head /\ work' = head /\ staged' = {} /\ touched' = {}
           /\ UNCHANGED <<head, ticket>>
  /\ UNCHANGED <<settings, baseline, today, captured>>

ToolAnswers == [Tools -> Answers]

Next ==
  \/ \E p \in Places : \E D \in SUBSET At(p) : Edit(p, D)
  \/ \E p \in Places : Stage(p)
  \/ Tick
  \/ \E tools \in ToolAnswers : GenerateBaseline(tools)
  \/ \E tools \in ToolAnswers : HookCommit(tools)
  \/ \E tools \in ToolAnswers, unknown \in SUBSET ProjectChecks :
       StartTicket(tools, unknown)
  \/ AddAll
  \/ \E tools \in ToolAnswers : RunGate(tools)

Spec == Init /\ [][Next]_vars

---------------------------------------------------------------------------
(* Properties *)

Verdicts == [gate : {"hook", "run"}, passed : BOOLEAN, tools : ToolAnswers,
             kept : SUBSET Sites]

\* Types, and that the three trees agree where nothing was changed or staged.
TypeOK ==
  /\ settings \in Settings
  /\ head \subseteq Sites /\ index \subseteq Sites /\ work \subseteq Sites
  /\ staged \subseteq touched /\ touched \subseteq Places
  /\ \A p \in Places \ staged : index \cap At(p) = head \cap At(p)
  /\ \A p \in Places \ touched : work \cap At(p) = head \cap At(p)
  /\ baseline = None \/ baseline \subseteq Fingerprints
  /\ captured \subseteq Sites
  /\ today \in 0 .. LastDay /\ scans \in 0 .. MaxScans
  /\ ticket = None \/ ticket \subseteq ProjectChecks
  /\ verdict = None \/ verdict \in Verdicts

\* What a run does not hold against a ticket.
Discounted(v) == IF v.gate = "run" THEN Quiet \cup ticket ELSE {}

Known(s) == baseline # None /\ Fingerprint(GateRule, s) \in baseline
Excused(s) == Waived(Fingerprint(GateRule, s))

\* A gate has just decided.
Decided == verdict' # None /\ verdict' # verdict
Passes  == Decided /\ verdict'.passed
Refuses == Decided /\ ~verdict'.passed

NewDebtHasExcuse ==
  Passes /\ baseline # None =>
    \A s \in head' \ head :
      \/ Known(s) \/ Excused(s) \/ s \in settings.exempt
      \/ s \notin work \/ s[1] \in Silent(staged, verdict'.tools)
      \/ s[1] \in Discounted(verdict')

\* Under a baseline no finding enters HEAD through a gate unless it is in the
\* baseline, waived today or exempt, or the gate could not see it: staged and
\* edited away since, behind a syntax error or a tool that did not answer, or
\* one a run discounts (governance.py's steps 5 to 7b, _run_governance).
NewDebtBlocks == [][NewDebtHasExcuse]_vars

ErrorsHaveReasons ==
  Passes => \A s \in verdict'.kept :
    \/ s[1] \notin Errors \/ s[1] \in settings.expected
    \/ Known(s) \/ (baseline # None /\ Excused(s))
    \/ s[1] \in Discounted(verdict')

NothingIsGraced ==
  Passes /\ baseline # None /\ today >= settings.deadline =>
    \A s \in verdict'.kept : Excused(s) \/ s[1] \in Discounted(verdict')

\* Whatever the order in which policy, ratchet and run soften a failure, what
\* passes holds no error a gate counted that is not expected by the policy, in
\* the baseline, waived or discounted; and from the enforcement date on the
\* baseline excuses nothing: what passes was waived, or discounted by a run
\* (Baseline's contract, ratchet.py).
PassedErrorsAreKnown == [][ErrorsHaveReasons /\ NothingIsGraced]_vars

Answered(v) == \A t \in Tools : v.tools[t] = "ran"

RefusalHasReason ==
  Refuses /\ Answered(verdict') /\ baseline # None /\ today < settings.deadline =>
    \E s \in verdict'.kept :
      \/ s \notin captured
      \/ GateRule[s[1]] # BaselineRule[s[1]]
      \/ verdict'.gate = "run" /\ s[1] \notin Errors

\* Before it, with every tool at work, a gate refuses only over a finding that
\* the baseline's scan did not report, that got another rule id there, or, in
\* a run, that is a warning (the reduction of governance.py 524-553).
KnownDebtPasses == [][RefusalHasReason]_vars
=============================================================================
