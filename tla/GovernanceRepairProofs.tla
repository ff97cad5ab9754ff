---------------------- MODULE GovernanceRepairProofs ----------------------
(***************************************************************************)
(* Proofs about what governance lets through and what repairs it.          *)
(*                                                                         *)
(* About GovernanceGate, for every set of files, checks, rules and         *)
(* policies: the types and the agreement of the three trees, that what a   *)
(* gate lets pass is known, waived or discounted debt, that the deadline   *)
(* ends the grace of the baseline, and that known debt passes before it.   *)
(*                                                                         *)
(* About RepairBatch, for every repository, kinds of findings, limits and  *)
(* number of commands: the types and counts, and that nothing but fixes is *)
(* committed or left behind.                                               *)
(***************************************************************************)
EXTENDS GovernanceGate, RepairBatch, FiniteSetTheorems, NaturalsInduction,
        WellFoundedInduction, TLAPS

USE GateConstants

---------------------------------------------------------------------------
(* The ratchet *)

LEMMA FiniteFingerprints == IsFiniteSet(Fingerprints)
<1> DEFINE G == {GateRule[c] : c \in Checks}
           B == {BaselineRule[c] : c \in Checks}
<1>1. IsFiniteSet(G)
  <2>1. [c \in Checks |-> GateRule[c]] \in Surjection(Checks, G)
    BY DEF Surjection
  <2>2. QED
    BY <2>1, FS_Surjection
<1>2. IsFiniteSet(B)
  <2>1. [c \in Checks |-> BaselineRule[c]] \in Surjection(Checks, B)
    BY DEF Surjection
  <2>2. QED
    BY <2>1, FS_Surjection
<1>3. IsFiniteSet(Rules)
  BY <1>1, <1>2, FS_Union DEF Rules
<1>4. IsFiniteSet(Places)
  BY FS_Singleton, FS_Union DEF Places
<1>5. QED
  BY <1>3, <1>4, FS_Product DEF Fingerprints

\* The count that "ratchet_down" adds to the comparison of compare_findings
\* never decides anything: with nothing new there cannot be more than before.
\* The two modes of the ratchet are one.
THEOREM ModesAgree ==
  ASSUME NEW known \in SUBSET Fingerprints, NEW now, NEW waived
  PROVE  Compare(now, known, waived) =
           IF \/ (now \ known) \ waived # {}
              \/ Overdue((now \cap known) \ waived)
           THEN "FAIL" ELSE "PASS"
<1>1. ASSUME (now \ known) \ waived = {}
      PROVE  ~(Cardinality(now \ waived) > Cardinality(known \ waived))
  <2>1. (now \ waived) \in SUBSET (known \ waived)
    BY <1>1
  <2>2. IsFiniteSet(known \ waived)
    BY FiniteFingerprints, FS_Subset
  <2>3. IsFiniteSet(now \ waived)
    BY <2>1, <2>2, FS_Subset
  <2>4. Cardinality(now \ waived) <= Cardinality(known \ waived)
    BY <2>1, <2>2, FS_Subset
  <2>5. QED
    BY <2>2, <2>3, <2>4, FS_CardinalityType
<1>2. QED
  BY <1>1 DEF Compare

---------------------------------------------------------------------------
(* Types, and the agreement of the trees *)

LEMMA SitePlaces == \A s \in Sites : s[2] \in Places /\ s[1] \in Checks
  OBVIOUS

LEMMA CapturedType ==
  ASSUME TypeOK, NEW tools, Captured(tools)
  PROVE  baseline' \subseteq Fingerprints /\ captured' \subseteq Sites
<1>1. Seen(Files, tools) \subseteq Sites
  BY DEF TypeOK, Seen
<1>2. \A s \in Sites : Fingerprint(BaselineRule, s) \in Fingerprints
  BY SitePlaces DEF Fingerprint, Fingerprints, Rules
<1>3. QED
  BY <1>1, <1>2 DEF Captured

LEMMA ReportType ==
  ASSUME TypeOK, NEW tools
  PROVE  /\ Report(tools).kept \subseteq Sites
         /\ Report(tools).kept \subseteq work
         /\ \A s \in Report(tools).kept : /\ s \notin settings.exempt
                                          /\ s[2] \in staged \cup {Repo}
  BY DEF TypeOK, Report, Seen

LEMMA VerdictType ==
  ASSUME TypeOK, NEW tools \in ToolAnswers, NEW passed \in BOOLEAN,
         NEW gate \in {"hook", "run"}
  PROVE  [gate |-> gate, passed |-> passed, tools |-> tools,
          kept |-> Report(tools).kept] \in Verdicts
  BY ReportType DEF Verdicts

LEMMA TypeInit == Init => TypeOK
  BY DEF Init, TypeOK, trees

\* A commit moves HEAD to the index where a change was staged.
LEMMA CommitAgrees ==
  ASSUME TypeOK, Commit, UNCHANGED <<index, work>>
  PROVE  /\ head' \subseteq Sites
         /\ staged' \subseteq touched' /\ touched' \subseteq Places
         /\ \A p \in Places \ staged' : index' \cap At(p) = head' \cap At(p)
         /\ \A p \in Places \ touched' : work' \cap At(p) = head' \cap At(p)
<1>1. \A p \in Places \ touched' : work' \cap At(p) = head' \cap At(p)
  <2> SUFFICES ASSUME NEW p \in Places \ touched'
               PROVE  work \cap At(p) = index \cap At(p)
    BY DEF Commit
  <2>1. CASE p \in staged
    BY <2>1 DEF Commit
  <2>2. CASE p \notin staged
    <3>1. p \notin touched
      BY <2>2 DEF Commit
    <3>2. QED
      BY <2>2, <3>1 DEF TypeOK
  <2>3. QED
    BY <2>1, <2>2
<1>2. QED
  BY <1>1 DEF Commit, TypeOK

LEMMA TypeNext == TypeOK /\ [Next]_vars => TypeOK'
<1> SUFFICES ASSUME TypeOK, [Next]_vars PROVE TypeOK'
  OBVIOUS
<1>1. ASSUME NEW p \in Places, NEW X \in SUBSET At(p), Edit(p, X)
      PROVE  TypeOK'
  <2>1. \A q \in Places : q # p => At(q) \cap At(p) = {}
    BY DEF At
  <2>2. \A q \in Places \ touched' : work' \cap At(q) = head' \cap At(q)
    BY <1>1, <2>1 DEF Edit, TypeOK
  <2>3. work' \subseteq Sites
    BY <1>1 DEF Edit, TypeOK, At
  <2>4. QED
    BY <1>1, <2>2, <2>3 DEF Edit, TypeOK, Quietly
<1>2. ASSUME NEW p \in Places, Stage(p)
      PROVE  TypeOK'
  <2>1. \A q \in Places : q # p => At(q) \cap At(p) = {}
    BY DEF At
  <2>2. \A q \in Places \ staged' : index' \cap At(q) = head' \cap At(q)
    BY <1>2, <2>1 DEF Stage, TypeOK
  <2>3. index' \subseteq Sites
    BY <1>2 DEF Stage, TypeOK
  <2>4. QED
    BY <1>2, <2>2, <2>3 DEF Stage, TypeOK, Quietly
<1>3. CASE Tick
  BY <1>3 DEF Tick, TypeOK, Quietly, trees
<1>4. ASSUME NEW tools \in ToolAnswers, GenerateBaseline(tools)
      PROVE  TypeOK'
  <2>1. baseline' \subseteq Fingerprints /\ captured' \subseteq Sites
    BY <1>4, CapturedType DEF GenerateBaseline
  <2>2. QED
    BY <1>4, <2>1 DEF GenerateBaseline, TypeOK, Quietly, Scan, trees
<1>5. ASSUME NEW tools \in ToolAnswers, HookCommit(tools)
      PROVE  TypeOK'
  <2>0. HookPasses(Report(tools)) \in BOOLEAN
    BY Zenon DEF HookPasses
  <2>1. verdict' \in Verdicts
    BY <1>5, <2>0, VerdictType DEF HookCommit
  <2>2. CASE Commit
    BY <1>5, <2>1, <2>2, CommitAgrees DEF HookCommit, TypeOK, Scan
  <2>3. CASE UNCHANGED <<head, staged, touched>>
    BY <1>5, <2>1, <2>3 DEF HookCommit, TypeOK, Scan
  <2>4. QED
    BY <1>5, <2>2, <2>3 DEF HookCommit
<1>6. ASSUME NEW tools \in ToolAnswers, NEW unknown \in SUBSET ProjectChecks,
             StartTicket(tools, unknown)
      PROVE  TypeOK'
  <2>1. ticket' \subseteq ProjectChecks
    BY <1>6 DEF StartTicket
  <2>2. /\ baseline' = None \/ baseline' \subseteq Fingerprints
        /\ captured' \subseteq Sites /\ scans' \in 0 .. MaxScans
    BY <1>6, CapturedType DEF StartTicket, TypeOK, Scan
  <2>3. QED
    BY <1>6, <2>1, <2>2 DEF StartTicket, TypeOK, Quietly, trees
<1>7. CASE AddAll
  BY <1>7 DEF AddAll, TypeOK, Quietly
<1>8. ASSUME NEW tools \in ToolAnswers, RunGate(tools)
      PROVE  TypeOK'
  <2>0. RunPasses(Report(tools)) \in BOOLEAN
    BY Zenon DEF RunPasses
  <2>1. verdict' \in Verdicts
    BY <1>8, <2>0, VerdictType DEF RunGate
  <2>2. CASE Commit /\ ticket' = None /\ UNCHANGED <<index, work>>
    BY <1>8, <2>1, <2>2, CommitAgrees DEF RunGate, TypeOK, Scan
  <2>3. CASE /\ index' = head /\ work' = head /\ staged' = {} /\ touched' = {}
             /\ UNCHANGED <<head, ticket>>
    BY <1>8, <2>1, <2>3 DEF RunGate, TypeOK, Scan
  <2>4. QED
    BY <1>8, <2>2, <2>3 DEF RunGate
<1>9. CASE UNCHANGED vars
  BY <1>9 DEF vars, trees, TypeOK
<1>10. QED
  BY <1>1, <1>2, <1>3, <1>4, <1>5, <1>6, <1>7, <1>8, <1>9 DEF Next

\* The variables keep their types, and HEAD, index and working tree agree
\* wherever nothing was changed or staged.
THEOREM GateTypesKept == Spec => []TypeOK
<1>1. QED
  BY TypeInit, TypeNext, PTL DEF Spec

---------------------------------------------------------------------------
(* What a gate that lets pass has established *)

Decides(tools) == HookCommit(tools) \/ RunGate(tools)

\* Only a gate leaves a verdict behind; everything else wipes it out.
LEMMA OnlyGatesDecide ==
  ASSUME [Next]_vars, Decided
  PROVE  \E tools \in ToolAnswers : Decides(tools)
<1>1. ASSUME UNCHANGED vars PROVE FALSE
  BY <1>1 DEF vars, Decided
<1>2. ASSUME verdict' = None PROVE FALSE
  BY <1>2 DEF Decided
<1>3. QED
  BY <1>1, <1>2 DEF Next, Decides, Edit, Stage, Tick, GenerateBaseline, StartTicket,
                    AddAll, Quietly

\* What the verdict of a gate says, and what deciding leaves alone.
LEMMA VerdictIs ==
  ASSUME NEW tools, Decides(tools)
  PROVE  /\ verdict'.tools = tools /\ verdict'.kept = Report(tools).kept
         /\ \/ verdict'.gate = "hook" /\ verdict'.passed = HookPasses(Report(tools))
            \/ /\ verdict'.gate = "run" /\ ticket # None
               /\ verdict'.passed = RunPasses(Report(tools))
         /\ head' = index \/ head' = head
  BY DEF Decides, HookCommit, RunGate, Commit

\* A ratchet that does not fail knows or waives every fingerprint, and waives
\* every one from the deadline on.
LEMMA RatchetHolds ==
  ASSUME TypeOK, NEW r, Ratchet(r) # "FAIL", baseline # None
  PROVE  \A s \in r.kept :
           /\ Known(s) \/ Excused(s)
           /\ today >= settings.deadline => Excused(s)
<1> DEFINE waived == {p \in FingerprintsOf(r) : Waived(p)}
<1>1. baseline \in SUBSET Fingerprints
  BY DEF TypeOK
<1>2. /\ (FingerprintsOf(r) \ baseline) \ waived = {}
      /\ ~Overdue((FingerprintsOf(r) \cap baseline) \ waived)
  <2>1. Compare(FingerprintsOf(r), baseline, waived) # "FAIL"
    BY DEF Ratchet
  <2>2. QED
    BY <1>1, <2>1, ModesAgree
<1>3. \A s \in r.kept : Fingerprint(GateRule, s) \in FingerprintsOf(r)
  BY DEF FingerprintsOf
<1>4. QED
  BY <1>2, <1>3 DEF Overdue, Known, Excused

\* A gate that fails by its ratchet lets pass only what a run discounts.
LEMMA PassHolds ==
  ASSUME NEW tools, Decides(tools), verdict'.passed
  PROVE  \/ Ratchet(Report(tools)) # "FAIL"
         \/ \A s \in verdict'.kept : s[1] \in Discounted(verdict')
<1> DEFINE r == Report(tools)
<1>1. ASSUME Governance(r) # "FAIL" PROVE Ratchet(r) # "FAIL"
  BY <1>1 DEF Governance
<1>2. CASE verdict'.gate = "hook" /\ verdict'.passed = HookPasses(r)
  BY <1>1, <1>2 DEF HookPasses
<1>3. CASE /\ verdict'.gate = "run" /\ ticket # None
           /\ verdict'.passed = RunPasses(r)
  <2>1. CASE Failing(r) \ (ticket \cup Radius) = {}
    BY <1>3, <2>1, VerdictIs DEF Failing, Discounted
  <2>2. CASE Relevant(r) = {}
    BY <1>3, <2>2, VerdictIs DEF Relevant, Discounted
  <2>3. CASE Governance(r) = "PASS" \/ Governance(r) = "WARN"
    BY <1>1, <2>3
  <2>4. QED
    BY <1>3, <2>1, <2>2, <2>3 DEF RunPasses
<1>4. QED
  BY <1>2, <1>3, VerdictIs

---------------------------------------------------------------------------
(* New debt, errors and the deadline *)

LEMMA NewDebtStep ==
  ASSUME TypeOK, NEW tools, Decides(tools), verdict'.passed, baseline # None,
         NEW s \in head' \ head
  PROVE  \/ Known(s) \/ Excused(s) \/ s \in settings.exempt
         \/ s \notin work \/ s[1] \in Silent(staged, verdict'.tools)
         \/ s[1] \in Discounted(verdict')
<1>1. s \in index /\ s \in Sites /\ s[2] \in Places
  BY VerdictIs, SitePlaces DEF TypeOK
<1>2. s[2] \in staged
  BY <1>1 DEF TypeOK, At
<1> SUFFICES ASSUME s \in work, s[1] \notin Silent(staged, tools),
                    s \notin settings.exempt
             PROVE  Known(s) \/ Excused(s) \/ s[1] \in Discounted(verdict')
  BY VerdictIs
<1>3. s \in Report(tools).kept
  BY <1>2 DEF Report, Seen
<1>4. QED
  BY <1>3, PassHolds, RatchetHolds, VerdictIs

\* Through either gate, no finding that the gate could see enters HEAD under a
\* baseline unless the baseline, a waiver, an exemption or the run's discount
\* for it speaks for it; whatever was staged, edited away or left unstaged.
THEOREM NewDebtIsBlocked == Spec => NewDebtBlocks
<1>1. TypeOK /\ [Next]_vars => NewDebtHasExcuse
  BY OnlyGatesDecide, NewDebtStep DEF NewDebtHasExcuse, Passes
<1>2. QED
  BY <1>1, GateTypesKept, PTL DEF Spec, NewDebtBlocks

LEMMA ErrorStep ==
  ASSUME TypeOK, NEW tools, Decides(tools), verdict'.passed,
         NEW s \in verdict'.kept
  PROVE  \/ s[1] \notin Errors \/ s[1] \in settings.expected
         \/ Known(s) \/ (baseline # None /\ Excused(s))
         \/ s[1] \in Discounted(verdict')
<1> DEFINE r == Report(tools)
<1> SUFFICES ASSUME s[1] \in Errors, s[1] \notin settings.expected,
                    s[1] \notin Discounted(verdict')
             PROVE  Known(s) \/ (baseline # None /\ Excused(s))
  OBVIOUS
<1>1. s \in r.kept
  BY VerdictIs
<1>2. ~Cleared(r) /\ Disposition(Failing(r)) = "FAIL"
  BY <1>1 DEF Cleared, Disposition, Failing
<1>3. CASE baseline = None
  <2>1. Governance(r) = "FAIL"
    BY <1>2, <1>3 DEF Governance, Ratchet, Reduces
  <2>2. ~(Failing(r) \ (ticket \cup Radius) = {}) \/ verdict'.gate = "hook"
    BY <1>1, VerdictIs DEF Failing, Discounted
  <2>3. ~(Relevant(r) = {}) \/ verdict'.gate = "hook"
    BY <1>1, VerdictIs DEF Relevant, Discounted
  <2>4. QED
    BY <2>1, <2>2, <2>3, VerdictIs DEF HookPasses, RunPasses
<1>4. CASE baseline # None
  BY <1>1, <1>4, PassHolds, RatchetHolds
<1>5. QED
  BY <1>3, <1>4

\* Policy, ratchet and run soften a failure one after the other; together they
\* let no error pass that none of them has a reason for, and from the
\* enforcement date on nothing passes for being in the baseline.
THEOREM PassedErrorsHaveReasons == Spec => PassedErrorsAreKnown
<1>1. TypeOK /\ [Next]_vars => ErrorsHaveReasons
  BY OnlyGatesDecide, ErrorStep DEF ErrorsHaveReasons, Passes
<1>2. TypeOK /\ [Next]_vars => NothingIsGraced
  BY OnlyGatesDecide, PassHolds, RatchetHolds, VerdictIs DEF NothingIsGraced, Passes
<1>3. QED
  BY <1>1, <1>2, GateTypesKept, PTL DEF Spec, PassedErrorsAreKnown

---------------------------------------------------------------------------
(* Known debt *)

\* The baseline is what its scan reported, under the rule ids of the command.
BaselineIsCaptured ==
  baseline # None => baseline = {Fingerprint(BaselineRule, s) : s \in captured}

LEMMA CapturedInit == Init => BaselineIsCaptured
  BY DEF Init, BaselineIsCaptured

LEMMA CapturedNext == BaselineIsCaptured /\ [Next]_vars => BaselineIsCaptured'
<1> SUFFICES ASSUME BaselineIsCaptured, [Next]_vars PROVE BaselineIsCaptured'
  OBVIOUS
<1>1. ASSUME NEW tools, Captured(tools) PROVE BaselineIsCaptured'
  BY <1>1 DEF Captured, BaselineIsCaptured, Fingerprint
<1>2. ASSUME UNCHANGED <<baseline, captured>> PROVE BaselineIsCaptured'
  BY <1>2 DEF BaselineIsCaptured, Fingerprint
<1>3. CASE Next
  <2>1. \/ \E tools : Captured(tools)
        \/ UNCHANGED <<baseline, captured>>
    BY <1>3 DEF Next, Edit, Stage, Tick, GenerateBaseline, HookCommit,
                StartTicket, AddAll, RunGate
  <2>2. QED
    BY <1>1, <1>2, <2>1
<1>4. QED
  BY <1>2, <1>3 DEF vars

\* A comparison without anything new, in time, passes.
LEMMA NothingNewPasses ==
  ASSUME NEW known \in SUBSET Fingerprints, NEW now, NEW waived,
         (now \ known) \ waived = {},
         ~Overdue((now \cap known) \ waived)
  PROVE  Compare(now, known, waived) = "PASS"
  BY ModesAgree

LEMMA KnownDebtStep ==
  ASSUME TypeOK, BaselineIsCaptured, NEW tools, Decides(tools),
         Refuses, Answered(verdict'), baseline # None, today < settings.deadline
  PROVE  \E s \in verdict'.kept :
           \/ s \notin captured
           \/ GateRule[s[1]] # BaselineRule[s[1]]
           \/ verdict'.gate = "run" /\ s[1] \notin Errors
<1> DEFINE r == Report(tools)
<1> SUFFICES ASSUME \A s \in r.kept : s \in captured,
                    \A s \in r.kept : GateRule[s[1]] = BaselineRule[s[1]],
                    verdict'.gate = "run" => \A s \in r.kept : s[1] \in Errors
             PROVE  FALSE
  BY VerdictIs
<1>1. r.garbled = {}
  BY VerdictIs DEF Report, Garbled, Answered
<1>2. FingerprintsOf(r) \subseteq baseline
  <2> SUFFICES ASSUME NEW s \in r.kept PROVE Fingerprint(GateRule, s) \in baseline
    BY DEF FingerprintsOf
  <2>1. Fingerprint(GateRule, s) = Fingerprint(BaselineRule, s)
    BY Zenon DEF Fingerprint
  <2>2. QED
    BY <2>1 DEF BaselineIsCaptured
<1>3. Ratchet(r) = "PASS"
  <2>1. baseline \in SUBSET Fingerprints
    BY DEF TypeOK
  <2>2. PICK W : W = {p \in FingerprintsOf(r) : Waived(p)}
    OBVIOUS
  <2>3. (FingerprintsOf(r) \ baseline) \ W = {}
    BY <1>2
  <2>4. ~(today >= settings.deadline)
    BY DEF TypeOK, Setting
  <2>5. ~Overdue((FingerprintsOf(r) \cap baseline) \ W)
    BY <2>4 DEF Overdue
  <2>6. PICK P : P = FingerprintsOf(r)
    OBVIOUS
  <2>7. Compare(P, baseline, W) = "PASS"
    <3>1. (P \ baseline) \ W = {} /\ ~Overdue((P \cap baseline) \ W)
      BY Zenon, <2>3, <2>5, <2>6
    <3>2. QED
      BY <2>1, <3>1, NothingNewPasses
  <2>8. QED
    BY Zenon, <2>2, <2>6, <2>7 DEF Ratchet
<1>4. ASSUME Disposition(Failing(r)) = "FAIL" PROVE FingerprintsOf(r) # {}
  <2>1. PICK c \in Failing(r) : c \in Errors
    BY <1>4 DEF Disposition
  <2>2. r.kept # {}
    BY <1>1, <2>1 DEF Failing
  <2>3. QED
    BY <2>2 DEF FingerprintsOf
<1>5. Governance(r) # "FAIL"
  BY <1>2, <1>3, <1>4 DEF Governance, Reduces, Disposition
<1>6. CASE verdict'.gate = "hook"
  BY <1>5, <1>6, VerdictIs DEF HookPasses, Refuses
<1>7. CASE verdict'.gate = "run"
  <2>1. Failing(r) \subseteq Errors
    BY <1>1, <1>7 DEF Failing
  <2>2. CASE Cleared(r)
    <3>1. Governance(r) = "WARN"
      BY <1>3, <2>2 DEF Governance
    <3>2. QED
      BY <1>7, <2>2, <3>1, VerdictIs DEF RunPasses, Refuses
  <2>3. CASE ~Cleared(r)
    <3>1. Governance(r) = "PASS"
      BY <1>2, <1>3, <1>4, <2>1, <2>3 DEF Governance, Reduces, Disposition
    <3>2. QED
      BY <1>7, <3>1, VerdictIs DEF RunPasses, Refuses
  <2>4. QED
    BY <2>2, <2>3
<1>8. QED
  BY <1>6, <1>7, VerdictIs

\* Before the deadline, and with every tool at work, the order in which ratchet
\* and policy are asked never lets known debt block: a refusal names a finding
\* the baseline's scan did not report, one whose check has two rule ids, or, in
\* a run, a warning.
THEOREM KnownDebtGoesThrough == Spec => KnownDebtPasses
<1>1. TypeOK /\ BaselineIsCaptured /\ [Next]_vars => RefusalHasReason
  BY OnlyGatesDecide, KnownDebtStep DEF RefusalHasReason, Refuses
<1>2. QED
  BY <1>1, GateTypesKept, CapturedInit, CapturedNext, PTL DEF Spec, KnownDebtPasses

HIDE GateConstants

---------------------------------------------------------------------------
(* Sums over files *)

Picked(s) == CHOOSE x \in s : TRUE
Body(w, iter, s) == IF s = {} THEN 0 ELSE w[Picked(s)] + iter[s \ {Picked(s)}]

\* What MapThenSumSet unfolds to.
Sums(w, S) == CHOOSE iter : iter = [s \in SUBSET S |-> Body(w, iter, s)]

LEMMA SumUnfolds ==
  ASSUME NEW k, NEW S, NEW w, w = [f \in S |-> tree[f].debt[k]]
  PROVE  MapThenSumSet(LAMBDA f : tree[f].debt[k], S) = Sums(w, S)[S]
BY DEF MapThenSumSet, MapThenFoldSet, Sums, Body, Picked

\* A function that adds up every set of at most n files.
AddsUp(w, S, n) ==
  \E g \in [SUBSET S -> Nat] :
    \A s \in SUBSET S : Cardinality(s) <= n => g[s] = Body(w, g, s)

LEMMA PickedType == \A s : s # {} => Picked(s) \in s
BY DEF Picked

LEMMA AddsUpOneMore ==
  ASSUME NEW S, IsFiniteSet(S), NEW w \in [S -> Nat], NEW n \in Nat, AddsUp(w, S, n)
  PROVE  AddsUp(w, S, n + 1)
<1>1. PICK g \in [SUBSET S -> Nat] :
             \A s \in SUBSET S : Cardinality(s) <= n => g[s] = Body(w, g, s)
  BY DEF AddsUp
<1> DEFINE h == [s \in SUBSET S |-> Body(w, g, s)]
<1>2. \A s \in SUBSET S : Body(w, g, s) \in Nat
  BY PickedType DEF Body
<1>3. h \in [SUBSET S -> Nat]
  BY <1>2
<1>4. ASSUME NEW s \in SUBSET S, Cardinality(s) <= n + 1 PROVE h[s] = Body(w, h, s)
  <2>1. CASE s = {}
    BY <2>1 DEF Body
  <2>2. CASE s # {}
    <3> DEFINE r == s \ {Picked(s)}
    <3>1. r \in SUBSET S /\ Picked(s) \in s /\ IsFiniteSet(s)
      BY <2>2, PickedType, FS_Subset
    <3>2. Cardinality(r) = Cardinality(s) - 1 /\ Cardinality(s) \in Nat
      BY <3>1, FS_RemoveElement, FS_CardinalityType
    <3>3. h[r] = g[r]
      BY <1>1, <1>4, <3>1, <3>2
    <3>4. QED
      BY <2>2, <3>1, <3>3 DEF Body
  <2>3. QED
    BY <2>1, <2>2
<1> HIDE DEF h
<1>5. QED
  BY <1>3, <1>4 DEF AddsUp

LEMMA AddsUpAll ==
  ASSUME NEW S, IsFiniteSet(S), NEW w \in [S -> Nat], NEW n \in Nat
  PROVE  AddsUp(w, S, n)
<1> DEFINE Bad == {m \in Nat : ~AddsUp(w, S, m)}
<1>1. AddsUp(w, S, 0)
  <2> DEFINE g == [s \in SUBSET S |-> 0]
  <2>1. g \in [SUBSET S -> Nat]
    OBVIOUS
  <2>2. ASSUME NEW s \in SUBSET S, Cardinality(s) <= 0 PROVE g[s] = Body(w, g, s)
    <3>1. s = {}
      BY <2>2, FS_Subset, FS_CardinalityType, FS_EmptySet
    <3>2. QED
      BY <3>1 DEF Body
  <2> HIDE DEF g
  <2>3. QED
    BY <2>1, <2>2 DEF AddsUp
<1>2. ASSUME Bad # {} PROVE FALSE
  <2>1. PICK m \in Bad : \A j \in Bad : ~(<<j, m>> \in OpToRel(<, Nat))
    <3> HIDE DEF Bad
    <3>1. Bad \subseteq Nat
      BY DEF Bad
    <3>2. QED
      BY <1>2, <3>1, WFMin, NatLessThanWellFounded
  <2>2. m # 0 /\ m \in Nat
    BY <1>1
  <2>3. m - 1 \in Nat /\ <<m - 1, m>> \in OpToRel(<, Nat)
    BY <2>2 DEF OpToRel
  <2>4. AddsUp(w, S, m - 1)
    BY <2>1, <2>3
  <2>5. m = (m - 1) + 1
    BY <2>2
  <2>6. AddsUp(w, S, m)
    BY <2>3, <2>4, <2>5, AddsUpOneMore
  <2>7. QED
    BY <2>6
<1>3. QED
  BY <1>2

LEMMA SumType ==
  ASSUME NEW S, IsFiniteSet(S), NEW w \in [S -> Nat]
  PROVE  Sums(w, S)[S] \in Nat
<1> DEFINE iter == Sums(w, S)
<1>1. PICK g \in [SUBSET S -> Nat] : \A s \in SUBSET S : g[s] = Body(w, g, s)
  <2>1. Cardinality(S) \in Nat
    BY FS_CardinalityType
  <2>2. \A s \in SUBSET S : Cardinality(s) <= Cardinality(S)
    BY FS_Subset
  <2>3. AddsUp(w, S, Cardinality(S))
    BY <2>1, AddsUpAll
  <2>4. QED
    BY <2>2, <2>3 DEF AddsUp
<1>2. g = [s \in SUBSET S |-> Body(w, g, s)]
  BY <1>1
<1>3. iter = [s \in SUBSET S |-> Body(w, iter, s)]
  BY <1>2 DEF Sums
<1> HIDE DEF iter
<1> DEFINE Bad == {s \in SUBSET S : iter[s] \notin Nat}
<1>4. ASSUME Bad # {} PROVE FALSE
  <2>1. Bad \subseteq FiniteSubsetsOf(S)
    BY FS_Subset DEF FiniteSubsetsOf
  <2>2. PICK s \in Bad : \A r \in Bad : ~(<<r, s>> \in StrictSubsetOrdering(S))
    <3> HIDE DEF Bad
    <3>1. QED
      BY <1>4, <2>1, WFMin, FS_StrictSubsetOrderingWellFounded
  <2>3. s # {}
    BY <1>3 DEF Body
  <2>4. Picked(s) \in s
    BY <2>3, PickedType
  <2>5. <<s \ {Picked(s)}, s>> \in StrictSubsetOrdering(S)
    BY <2>4 DEF StrictSubsetOrdering
  <2>6. iter[s \ {Picked(s)}] \in Nat
    BY <2>2, <2>5
  <2>7. iter[s] = w[Picked(s)] + iter[s \ {Picked(s)}]
    BY <1>3, <2>3 DEF Body
  <2>8. QED
    BY <2>4, <2>6, <2>7
<1>5. QED
  BY <1>4 DEF iter

---------------------------------------------------------------------------
(* Types *)

\* While its coder and its scans run, a ticket keeps its file open.
Working == {"coding", "answered", "failed"}

\* A kind is skipped once it failed too often, and no ticket of a skipped kind
\* is at work; a ticket at hand remembers a content of its target; nothing is
\* at hand between tickets, and no step is under way between commands.
Given ==
  /\ \A k \in Kinds : failures[k] >= MaxFailures => k \in skipped
  /\ step \in Working \cup {"fixed", "added"} => current # Nothing
  /\ step \in Working => current.key[2] \notin skipped
  /\ current # Nothing => /\ step \in Working \cup {"fixed", "added", "summary"}
                          /\ current.pre \in Contents(current.key[1])
  /\ caller = "idle" => step = "next" /\ ~agentic

LEMMA BoundTypes ==
  /\ MaxPerTicket \in Nat \ {0} /\ MaxFailures \in Nat \ {0}
         /\ MaxCommands \in Nat \ {0}
BY RepairConstants

LEMMA CountType ==
  ASSUME RepairTypeOK, NEW key \in Keys
  PROVE  Count(key) \in Nat
<1>1. \A f \in Sources, k \in Kinds : tree[f].debt[k] \in Nat
  <2>1. \A f \in Sources, k \in Kinds : <<f, k>> \in Keys
    BY DEF Keys
  <2> SUFFICES ASSUME NEW f \in Sources, NEW k \in Kinds PROVE tree[f].debt[k] \in Nat
    OBVIOUS
  <2>2. tree[f] \in Contents(f)
    BY DEF RepairTypeOK, Trees
  <2>3. tree[f].debt \in [Kinds -> 0..Max(Range(MaxCount))]
    BY <2>2 DEF Contents, Debts
  <2>4. tree[f].debt[k] \in 0..Max(Range(MaxCount))
    BY <2>3
  <2>5. QED
    BY <2>4
<1>2. key[1] \in Sources /\ key[2] \in Kinds
  BY DEF Keys
<1>3. CASE Targeted(key)
  BY <1>1, <1>2, <1>3 DEF Count
<1>4. CASE ~Targeted(key)
  <2> DEFINE S == Scanned(caller)
             w == [f \in S |-> tree[f].debt[key[2]]]
  <2>1. S \subseteq Sources
    BY RepairConstants DEF Scanned
  <2>2. IsFiniteSet(S)
    BY RepairConstants, <2>1, FS_Subset
  <2>3. w \in [S -> Nat]
    BY <1>1, <1>2, <2>1
  <2> HIDE DEF S
  <2>4. MapThenSumSet(LAMBDA f : tree[f].debt[key[2]], S) = Sums(w, S)[S]
    BY SumUnfolds
  <2> HIDE DEF w
  <2>5. Sums(w, S)[S] \in Nat
    BY <2>2, <2>3, SumType
  <2>6. QED
    BY <1>4, <2>4, <2>5 DEF Count, S
<1>5. QED
  BY <1>3, <1>4

LEMMA TreeType ==
  ASSUME NEW t \in Trees, NEW f \in Sources, NEW c \in Contents(f)
  PROVE  [t EXCEPT ![f] = c] \in Trees
BY DEF Trees

LEMMA DebtType ==
  ASSUME RepairTypeOK, NEW f \in Sources, NEW k \in Kinds
  PROVE  tree[f].debt[k] \in Nat
<1>1. tree[f] \in Contents(f)
  BY DEF RepairTypeOK, Trees
<1>2. tree[f].debt \in [Kinds -> 0..Max(Range(MaxCount))]
  BY <1>1 DEF Contents, Debts
<1>3. tree[f].debt[k] \in 0..Max(Range(MaxCount))
  BY <1>2
<1>4. QED
  BY <1>3

\* Changing what the scan finds in a file, or who decides on it, leaves a tree.
LEMMA EditedTree ==
  ASSUME NEW t \in Trees, NEW f \in Sources
  PROVE  /\ \A d \in Debts(f) : /\ [t EXCEPT ![f].debt = d] \in Trees
                                /\ \A b \in BOOLEAN :
                                     [t EXCEPT ![f] = [debt |-> d, open |-> b]] \in Trees
         /\ [t EXCEPT ![f].open = FALSE] \in Trees
<1>1. t[f] \in Contents(f)
  BY DEF Trees
<1>2. ASSUME NEW c \in Contents(f) PROVE [t EXCEPT ![f] = c] \in Trees
  BY TreeType
<1>3. [t EXCEPT ![f].open = FALSE] \in Trees
  <2>1. [t[f] EXCEPT !.open = FALSE] \in Contents(f)
    BY <1>1 DEF Contents
  <2>2. [t EXCEPT ![f].open = FALSE] = [t EXCEPT ![f] = [t[f] EXCEPT !.open = FALSE]]
    OBVIOUS
  <2>3. QED
    BY <1>2, <2>1, <2>2
<1>4. ASSUME NEW d \in Debts(f)
      PROVE  /\ [t EXCEPT ![f].debt = d] \in Trees
             /\ \A b \in BOOLEAN : [t EXCEPT ![f] = [debt |-> d, open |-> b]] \in Trees
  <2>1. [t[f] EXCEPT !.debt = d] \in Contents(f)
    BY <1>1 DEF Contents
  <2>2. [t EXCEPT ![f].debt = d] = [t EXCEPT ![f] = [t[f] EXCEPT !.debt = d]]
    OBVIOUS
  <2>3. \A b \in BOOLEAN : [debt |-> d, open |-> b] \in Contents(f)
    BY DEF Contents
  <2>4. QED
    BY <1>2, <2>1, <2>2, <2>3
<1>5. QED
  BY <1>3, <1>4

\* The text of a ticket or an agent is a content of the file.
LEMMA WrittenTree ==
  ASSUME RepairTypeOK, NEW f \in Sources, NEW d \in Debts(f)
  PROVE  [tree EXCEPT ![f] = Written(f, d)] \in Trees
<1>1. tree \in Trees /\ tree[f].open \in BOOLEAN
  BY DEF RepairTypeOK, Trees, Contents
<1>2. \E b \in BOOLEAN : Written(f, d) = [debt |-> d, open |-> b]
  BY <1>1 DEF Written
<1>3. QED
  BY <1>1, <1>2, EditedTree

LEMMA InitTypes ==
  ASSUME RepairInit
  PROVE  RepairTypeOK /\ Given
<1>1. 0 \in 0..MaxFailures /\ 0 \in 0..MaxCommands /\ ~(0 >= MaxFailures)
  BY BoundTypes
<1>2. {cached, landed} \subseteq [Sources -> Marks]
  BY DEF RepairInit, Unstaged, Marks
<1>3. QED
  BY <1>1, <1>2 DEF RepairInit, RepairTypeOK, Given, Working

\* git keeps the types of the index and of what is committed.
LEMMA GitTypes ==
  ASSUME RepairTypeOK
  PROVE  /\ Unstaged \in [Sources -> Marks]
         /\ \A F : Added(F) \subseteq [Sources -> Marks]
         /\ GitCommit => {cached', landed'} \subseteq [Sources -> Marks]
<1>1. Unstaged \in [Sources -> Marks]
  BY DEF Unstaged, Marks
<1>2. \A F : Added(F) \subseteq [Sources -> Marks]
  BY DEF Added
<1>3. ASSUME GitCommit PROVE {cached', landed'} \subseteq [Sources -> Marks]
  <2>1. CASE UNCHANGED <<cached, landed>>
    BY <2>1 DEF RepairTypeOK
  <2>2. CASE /\ landed' = [f \in Sources |->
                             IF cached[f] = "head" THEN landed[f] ELSE cached[f]]
             /\ cached' = Unstaged
    BY <1>1, <2>2 DEF RepairTypeOK
  <2>3. QED
    BY <1>3, <2>1, <2>2 DEF GitCommit
<1>4. QED
  BY <1>1, <1>2, <1>3

LEMMA OthersTypes ==
  ASSUME RepairTypeOK, Given, Others
  PROVE  RepairTypeOK' /\ Given'
<1>1. ASSUME NEW f \in Sources, OperatorEdits(f) PROVE RepairTypeOK' /\ Given'
  <2>1. tree' \in Trees
    <3>1. PICK d \in Debts(f) : tree' = [tree EXCEPT ![f].debt = d]
      BY <1>1 DEF OperatorEdits
    <3>2. tree \in Trees
      BY DEF RepairTypeOK
    <3>3. [tree EXCEPT ![f].debt = d] \in Trees
      BY <3>2, EditedTree
    <3>4. QED
      BY <3>1, <3>3
  <2>2. QED
    BY <1>1, <2>1 DEF OperatorEdits, RepairTypeOK, Given, git, command, tally
<1>2. ASSUME NEW f \in Sources, OperatorStages(f) PROVE RepairTypeOK' /\ Given'
  <2>1. cached' \in [Sources -> Marks]
    BY <1>2 DEF OperatorStages, RepairTypeOK, Marks
  <2>2. QED
    BY <1>2, <2>1 DEF OperatorStages, RepairTypeOK, Given, command, tally
<1>3. ASSUME NEW f \in Sources, AgentEdits(f) PROVE RepairTypeOK' /\ Given'
  <2>1. tree' \in Trees
    BY <1>3, WrittenTree DEF AgentEdits
  <2>2. QED
    BY <1>3, <2>1 DEF AgentEdits, RepairTypeOK, Given, git, command, tally
<1>4. ASSUME NEW f \in Sources, AgentStages(f) PROVE RepairTypeOK' /\ Given'
  <2>1. cached' \in [Sources -> Marks]
    BY <1>4, GitTypes DEF AgentStages
  <2>2. QED
    BY <1>4, <2>1 DEF AgentStages, RepairTypeOK, Given, command, tally
<1>5. CASE OperatorCommits
  BY <1>5, GitTypes DEF OperatorCommits, RepairTypeOK, Given, command, tally
<1>6. CASE AgentCommits
  <2>1. {cached', landed'} \subseteq [Sources -> Marks]
    BY <1>6, GitTypes DEF AgentCommits
  <2>2. QED
    BY <1>6, <2>1 DEF AgentCommits, RepairTypeOK, Given, command, tally
<1>7. QED
  BY <1>1, <1>2, <1>3, <1>4, <1>5, <1>6 DEF Others

\* A command begins.
LEMMA BeginTypes ==
  ASSUME RepairTypeOK, Given, Repair \/ \E who \in {"guided", "sweep", "dod"} : RepairFor(who)
  PROVE  RepairTypeOK' /\ Given'
<1>1. \A scanned : GeneratedTickets(scanned) \in [Keys -> Nat]
  <2> SUFFICES ASSUME NEW scanned, NEW key \in Keys, key[1] \in scanned
               PROVE  Chunks(tree[key[1]].debt[key[2]]) \in Nat
    BY DEF GeneratedTickets
  <2>1. tree[key[1]].debt[key[2]] \in Nat
    BY DebtType DEF Keys
  <2>2. QED
    BY <2>1, BoundTypes DEF Chunks
<1>2. \A q \in [Keys -> Nat] : Suppress(q) \in [Keys -> Nat]
  BY DEF Suppress
<1>3. ASSUME NEW who \in {"repair", "guided", "sweep", "dod"}, NEW q \in [Keys -> Nat],
             Begin(who, q)
      PROVE  RepairTypeOK' /\ Given'
  <2>1. commands' \in 0..MaxCommands
    BY <1>3, BoundTypes DEF Begin, RepairTypeOK
  <2>2. /\ caller' \in {"idle", "repair", "guided", "sweep", "dod"} /\ agentic' \in BOOLEAN
        /\ queue' \in [Keys -> Nat] /\ foreign' \subseteq Sources
    BY <1>3 DEF Begin, RepairTypeOK
  <2>3. caller' = "idle" => agentic' = agentic /\ caller = "idle"
    BY <1>3 DEF Begin
  <2>4. QED
    BY <1>3, <2>1, <2>2, <2>3 DEF Begin, RepairTypeOK, Given, tally
<1>4. CASE Repair
  BY <1>1, <1>2, <1>3, <1>4 DEF Repair
<1>5. ASSUME NEW who \in {"guided", "sweep", "dod"}, RepairFor(who) PROVE RepairTypeOK' /\ Given'
  BY <1>1, <1>3, <1>5 DEF RepairFor
<1>6. QED
  BY <1>4, <1>5

LEMMA TallyTypes ==
  ASSUME RepairTypeOK, Given, NEW key \in Keys, key[2] \notin skipped,
         NEW status, Tally(key, status)
  PROVE  /\ failures' \in [Kinds -> 0..MaxFailures] /\ skipped' \subseteq Kinds
         /\ \A k \in Kinds : failures'[k] >= MaxFailures => k \in skipped'
<1>1. key[2] \in Kinds /\ failures[key[2]] \in 0..MaxFailures /\ MaxFailures \in Nat
  BY RepairConstants DEF Keys, RepairTypeOK
<1>2. failures[key[2]] + 1 \in 0..MaxFailures /\ 0 \in 0..MaxFailures
  BY <1>1 DEF Given
<1>3. failures' \in [Kinds -> 0..MaxFailures]
  BY <1>1, <1>2 DEF Tally, RepairTypeOK
<1>4. skipped' \subseteq Kinds
  BY <1>1 DEF Tally, RepairTypeOK
<1>5. ASSUME NEW k \in Kinds, failures'[k] >= MaxFailures PROVE k \in skipped'
  <2>1. CASE k = key[2]
    BY <1>5, <2>1 DEF Tally
  <2>2. CASE k # key[2]
    BY <1>5, <2>2 DEF Tally, Given, RepairTypeOK
  <2>3. QED
    BY <2>1, <2>2
<1>6. QED
  BY <1>3, <1>4, <1>5

\* A result that came in is one.
LEMMA ResultType ==
  ASSUME RepairTypeOK, NEW key \in Keys, NEW found \in BOOLEAN,
         NEW status \in {"fixed", "partial", "failed", "skipped"}, Enter(key, status, found)
  PROVE  results' \subseteq Outcomes
<1> DEFINE r == [key |-> key, status |-> status, found |-> found]
<1>1. r \in Outcomes
  BY DEF Outcomes
<1>2. results' = results \cup {r} /\ results \subseteq Outcomes
  BY DEF Enter, RepairTypeOK
<1> HIDE DEF r
<1>3. QED
  BY <1>1, <1>2

\* A ticket is settled.
LEMMA SettledTypes ==
  ASSUME RepairTypeOK, Given, step \in Working, NEW status \in {"fixed", "partial", "failed"},
         Settle(status)
  PROVE  /\ results' \subseteq Outcomes
         /\ failures' \in [Kinds -> 0..MaxFailures] /\ skipped' \subseteq Kinds
         /\ \A k \in Kinds : failures'[k] >= MaxFailures => k \in skipped'
<1>1. current \in Ticket /\ current.key \in Keys /\ current.key[2] \notin skipped
  BY DEF Given, RepairTypeOK, Ticket
<1>2. results' \subseteq Outcomes
  BY <1>1, ResultType DEF Settle
<1>3. QED
  BY <1>1, <1>2, TallyTypes DEF Settle

LEMMA CalledType ==
  ASSUME RepairTypeOK, NEW key \in Keys, CallCoder(key)
  PROVE  current' \in Ticket /\ current'.pre \in Contents(key[1])
<1>1. tree[key[1]] \in Contents(key[1]) /\ key[1] \in Sources
  BY DEF RepairTypeOK, Trees, Keys
<1>2. Count(key) \in Nat \ {0}
  BY CountType DEF CallCoder
<1>3. QED
  BY <1>1, <1>2 DEF CallCoder, Ticket

LEMMA SummaryType ==
  ASSUME RepairTypeOK, WriteSummary
  PROVE  prior' \in (SUBSET Keys) \cup {Nothing}
<1>1. FixedKeys \subseteq Keys
  BY DEF FixedKeys, RepairTypeOK, Outcomes
<1>2. QED
  BY <1>1 DEF WriteSummary, RepairTypeOK

\* A ticket is taken from the queue.
LEMMA TakenTypes ==
  ASSUME RepairTypeOK, Given, NEW key \in Keys,
         SkipTicket(key) \/ AlreadyClean(key) \/ CallCoder(key)
  PROVE  RepairTypeOK' /\ Given'
<1>1. key[1] \in Sources /\ key[2] \in Kinds
  BY DEF Keys
<1>2. ASSUME TakeNext(key)
      PROVE  queue' \in [Keys -> Nat] /\ caller # "idle" /\ current = Nothing
  <2>1. queue \in [Keys -> Nat] /\ queue[key] - 1 \in Nat
    BY <1>2 DEF TakeNext, RepairTypeOK
  <2>2. current = Nothing
    BY <1>2 DEF TakeNext, Given, Working
  <2>3. QED
    BY <1>2, <2>1, <2>2 DEF TakeNext
<1>3. CASE SkipTicket(key)
  <2>1. results' \subseteq Outcomes
    BY <1>3, ResultType DEF SkipTicket
  <2>2. QED
    BY <1>2, <1>3, <2>1 DEF SkipTicket, RepairTypeOK, Given, git, command
<1>4. CASE AlreadyClean(key)
  <2>1. results' \subseteq Outcomes
    BY <1>4, ResultType DEF AlreadyClean
  <2>2. /\ failures' \in [Kinds -> 0..MaxFailures] /\ skipped' \subseteq Kinds
        /\ \A k \in Kinds : failures'[k] >= MaxFailures => k \in skipped'
    BY <1>4, TallyTypes DEF AlreadyClean
  <2>3. QED
    BY <1>2, <1>4, <2>1, <2>2 DEF AlreadyClean, RepairTypeOK, Given, Working, git, command
<1>5. CASE CallCoder(key)
  <2>1. current' \in Ticket /\ current'.pre \in Contents(key[1]) /\ current'.key = key
    BY <1>5, CalledType DEF CallCoder
  <2>2. current' # Nothing
    BY <2>1, RepairConstants
  <2>3. queue' \in [Keys -> Nat] /\ caller # "idle" /\ key[2] \notin skipped
    BY <1>2, <1>5 DEF CallCoder
  <2>4. RepairTypeOK'
    BY <1>5, <2>1, <2>3 DEF CallCoder, RepairTypeOK, git, command, tally
  <2>5. Given'
    BY <1>5, <2>1, <2>2, <2>3 DEF CallCoder, Given, Working, command, tally
  <2>6. QED
    BY <2>4, <2>5
<1>6. QED
  BY <1>3, <1>4, <1>5

LEMMA TicketTypes ==
  ASSUME RepairTypeOK, Given, OneTicket
  PROVE  RepairTypeOK' /\ Given'
<1>1. step \in Working => /\ current \in Ticket /\ current.key[1] \in Sources
                          /\ current # Nothing /\ caller # "idle"
  BY DEF Given, RepairTypeOK, Ticket, Keys, Working
<1>2. CASE \E key \in Keys : SkipTicket(key) \/ AlreadyClean(key) \/ CallCoder(key)
  BY <1>2, TakenTypes
<1>3. CASE CoderAnswers
  <2>1. tree' \in Trees
    <3>1. CASE agentic \/ ~Targeted(current.key)
      BY <1>3, <3>1 DEF CoderAnswers, RepairTypeOK
    <3>2. CASE ~(agentic \/ ~Targeted(current.key))
      <4>1. current.key[1] \in Sources
        BY <1>1, <1>3 DEF CoderAnswers, Working
      <4>2. \E d \in Debts(current.key[1]) :
              tree' = [tree EXCEPT ![current.key[1]] = Written(current.key[1], d)]
        BY <1>3, <3>2 DEF CoderAnswers
      <4>3. QED
        BY <4>1, <4>2, WrittenTree
    <3>3. QED
      BY <3>1, <3>2
  <2>2. QED
    BY <1>1, <1>3, <2>1 DEF CoderAnswers, RepairTypeOK, Given, Working, git, command, tally
<1>4. CASE CoderRefused
  <2>1. step = "coding" /\ Settle("failed") /\ step \in Working
    BY <1>4 DEF CoderRefused, Working
  <2>2. /\ results' \subseteq Outcomes
        /\ failures' \in [Kinds -> 0..MaxFailures] /\ skipped' \subseteq Kinds
        /\ \A k \in Kinds : failures'[k] >= MaxFailures => k \in skipped'
    BY <2>1, SettledTypes
  <2>3. QED
    BY <1>1, <1>4, <2>1, <2>2 DEF CoderRefused, RepairTypeOK, Given, Working, git, command
<1>5. CASE CoderRaises
  BY <1>1, <1>5 DEF CoderRaises, RepairTypeOK, Given, Working, git, command, tally
<1>6. CASE PostScan
  <2>1. step = "answered" /\ step \in Working
    BY <1>6 DEF PostScan, Working
  <2>2. CASE Status = "failed"
    BY <1>1, <1>6, <2>1, <2>2 DEF PostScan, RepairTypeOK, Given, Working, git, command, tally
  <2>3. CASE Status # "failed"
    <3>1. tree' = Accepted /\ Settle(Status) /\ step' \in {"fixed", "summary"}
      BY <1>6, <2>3 DEF PostScan
    <3>2. Status \in {"fixed", "partial", "failed"}
      BY DEF Status
    <3>3. /\ results' \subseteq Outcomes
          /\ failures' \in [Kinds -> 0..MaxFailures] /\ skipped' \subseteq Kinds
          /\ \A k \in Kinds : failures'[k] >= MaxFailures => k \in skipped'
      BY <2>1, <3>1, <3>2, SettledTypes
    <3>4. tree' \in Trees
      BY <1>1, <2>1, <3>1, EditedTree DEF Accepted, RepairTypeOK
    <3>5. UNCHANGED <<git, command, queue, current, prior>>
      BY <1>6 DEF PostScan
    <3>6. QED
      BY <1>1, <2>1, <3>1, <3>3, <3>4, <3>5 DEF RepairTypeOK, Given, Working, git, command
  <2>4. QED
    BY <2>2, <2>3
<1>7. CASE Rollback
  <2>1. step = "failed" /\ Settle("failed") /\ step \in Working
    BY <1>7 DEF Rollback, Working
  <2>2. /\ results' \subseteq Outcomes
        /\ failures' \in [Kinds -> 0..MaxFailures] /\ skipped' \subseteq Kinds
        /\ \A k \in Kinds : failures'[k] >= MaxFailures => k \in skipped'
    BY <2>1, SettledTypes
  <2>3. tree' \in Trees
    <3>1. current.pre \in Contents(current.key[1])
      BY <1>1, <2>1 DEF Given
    <3>2. QED
      BY <1>1, <1>7, <2>1, <3>1, TreeType DEF Rollback, Restored, RepairTypeOK
  <2>4. QED
    BY <1>1, <1>7, <2>1, <2>2, <2>3 DEF Rollback, RepairTypeOK, Given, Working, git, command
<1>8. CASE AddFix
  <2>1. cached' \in [Sources -> Marks]
    BY <1>8, GitTypes DEF AddFix, GitAdd, RepairTypeOK
  <2>2. QED
    BY <1>8, <2>1 DEF AddFix, RepairTypeOK, Given, Working, command, tally
<1>9. CASE CommitFix
  <2>1. {cached', landed'} \subseteq [Sources -> Marks]
    BY <1>9, GitTypes DEF CommitFix
  <2>2. QED
    BY <1>9, <2>1 DEF CommitFix, RepairTypeOK, Given, Working, command, tally
<1>10. CASE EndTicket
  <2>1. prior' \in (SUBSET Keys) \cup {Nothing}
    BY <1>10, SummaryType DEF EndTicket
  <2>2. QED
    BY <1>10, <2>1 DEF EndTicket, RepairTypeOK, Given, Working, git, command, tally
<1>11. QED
  BY <1>2, <1>3, <1>4, <1>5, <1>6, <1>7, <1>8, <1>9, <1>10 DEF OneTicket

LEMMA EndTypes ==
  ASSUME RepairTypeOK, Given, EndBatch \/ Simplified \/ AddRest \/ CommitRest \/ Crash
  PROVE  RepairTypeOK' /\ Given'
<1>1. ASSUME Leave
      PROVE  /\ caller' = "idle" /\ agentic' = FALSE /\ step' = "next"
             /\ landed' \in [Sources -> Marks] /\ foreign' = {} /\ results' = {}
             /\ failures' \in [Kinds -> 0..MaxFailures] /\ skipped' = {}
             /\ \A k \in Kinds : ~(failures'[k] >= MaxFailures)
             /\ UNCHANGED commands
  BY <1>1, GitTypes, BoundTypes DEF Leave
<1>2. CASE EndBatch
  <2>1. prior' \in (SUBSET Keys) \cup {Nothing}
    BY <1>2, SummaryType DEF EndBatch
  <2>2. current = Nothing /\ caller # "idle"
    BY <1>2 DEF EndBatch, Over, Given, Working
  <2>3. CASE Simplifies \/ CommitsRest
    BY <1>2, <2>1, <2>2, <2>3 DEF EndBatch, RepairTypeOK, Given, Working, command, tally
  <2>4. CASE ~(Simplifies \/ CommitsRest)
    <3>1. Leave /\ UNCHANGED <<tree, cached, queue, current>>
      BY <1>2, <2>4 DEF EndBatch
    <3>2. QED
      BY <1>1, <2>1, <2>2, <3>1 DEF RepairTypeOK, Given, Working
  <2>5. QED
    BY <2>3, <2>4
<1>3. CASE Simplified
  BY <1>3 DEF Simplified, RepairTypeOK, Given, Working, git, command, tally
<1>4. CASE AddRest
  <2>1. cached' \in [Sources -> Marks]
    BY <1>4, GitTypes DEF AddRest, GitAdd, RepairTypeOK
  <2>2. QED
    BY <1>4, <2>1 DEF AddRest, RepairTypeOK, Given, Working, command, tally
<1>5. CASE CommitRest
  <2>1. cached' \in [Sources -> Marks]
    BY <1>5, GitTypes DEF CommitRest, RepairTypeOK
  <2>2. current = Nothing
    BY <1>5 DEF CommitRest, Given, Working
  <2>3. QED
    BY <1>1, <1>5, <2>1, <2>2 DEF CommitRest, RepairTypeOK, Given, Working
<1>6. CASE Crash
  <2>1. tree' \in Trees
    <3>1. \A f \in Sources : [tree[f] EXCEPT !.open = FALSE] \in Contents(f)
      BY DEF RepairTypeOK, Trees, Contents
    <3>2. QED
      BY <1>6, <3>1 DEF Crash, Trees
  <2>2. prior' \in (SUBSET Keys) \cup {Nothing}
    BY <1>6 DEF Crash, RepairTypeOK
  <2>3. queue' \in [Keys -> Nat] /\ current' = Nothing /\ UNCHANGED cached
    BY <1>6 DEF Crash
  <2>4. Leave
    BY <1>6 DEF Crash
  <2>5. QED
    BY <1>1, <2>1, <2>2, <2>3, <2>4 DEF RepairTypeOK, Given, Working
<1>7. QED
  BY <1>2, <1>3, <1>4, <1>5, <1>6

LEMMA StepTypes ==
  ASSUME RepairTypeOK, Given, [RepairNext]_repairVars
  PROVE  RepairTypeOK' /\ Given'
<1>1. CASE UNCHANGED repairVars
  BY <1>1 DEF repairVars, git, command, tally, RepairTypeOK, Given
<1>2. QED
  BY <1>1, OthersTypes, BeginTypes, TicketTypes, EndTypes DEF RepairNext

\* Scans, tickets, results, trees and the index keep their types, and no kind
\* fails more often than max_failures in a row.
THEOREM RepairTypesKept == RepairSpec => []RepairTypeOK
<1>1. RepairInit => RepairTypeOK /\ Given
  BY InitTypes
<1>2. (RepairTypeOK /\ Given) /\ [RepairNext]_repairVars => (RepairTypeOK /\ Given)'
  BY StepTypes
<1>3. QED
  BY <1>1, <1>2, PTL DEF RepairSpec

---------------------------------------------------------------------------
(* What a batch leaves behind *)

\* Only the target of the ticket at work holds text not yet decided on, once an
\* agent or the executor has written it, and it held none before.
OpenInv ==
  /\ \A f \in Sources : tree[f].open =>
       /\ current # Nothing /\ Targeted(current.key) /\ current.key[1] = f
       /\ step \in Working /\ (step = "coding" => agentic)
  /\ current # Nothing => ~current.pre.open

LEMMA InitOpen == RepairInit => OpenInv
BY DEF RepairInit, OpenInv

\* Written text is open only in the target of the ticket at hand.
LEMMA WrittenOpen ==
  ASSUME RepairTypeOK, OpenInv, NEW g \in Sources, NEW d \in Debts(g),
         tree' = [tree EXCEPT ![g] = Written(g, d)]
  PROVE  \A f \in Sources : tree'[f].open =>
           current # Nothing /\ Targeted(current.key) /\ current.key[1] = f
<1>1. tree \in Trees
  BY DEF RepairTypeOK
<1>2. \A f \in Sources : f # g => tree'[f] = tree[f]
  BY <1>1 DEF Trees
<1>3. tree'[g] = Written(g, d)
  BY <1>1 DEF Trees
<1>4. QED
  BY <1>2, <1>3 DEF Written, OpenInv

LEMMA StepOpen ==
  ASSUME RepairTypeOK, Given, OpenInv, [RepairNext]_repairVars
  PROVE  OpenInv'
<1>1. tree \in Trees
  BY DEF RepairTypeOK
<1>2. ASSUME NEW f \in Sources, OperatorEdits(f) PROVE OpenInv'
  <2>1. PICK d \in Debts(f) : tree' = [tree EXCEPT ![f].debt = d]
    BY <1>2 DEF OperatorEdits
  <2>2. \A g \in Sources : tree'[g].open = tree[g].open
    BY <1>1, <2>1 DEF Trees, Contents
  <2>3. QED
    BY <1>2, <2>2 DEF OperatorEdits, OpenInv, command
<1>3. ASSUME NEW f \in Sources, AgentEdits(f) PROVE OpenInv'
  <2>1. \A g \in Sources : tree'[g].open =>
          current # Nothing /\ Targeted(current.key) /\ current.key[1] = g
    BY <1>3, WrittenOpen DEF AgentEdits
  <2>2. current # Nothing => step \in Working
    BY <1>3 DEF AgentEdits, AgentWorks, Given, Working
  <2>3. QED
    BY <1>3, <2>1, <2>2 DEF AgentEdits, AgentWorks, OpenInv, command
<1>4. CASE \/ \E f \in Sources : OperatorStages(f) \/ AgentStages(f)
           \/ OperatorCommits \/ AgentCommits
  <2>1. UNCHANGED <<tree, step, current, agentic>>
    BY <1>4 DEF OperatorStages, AgentStages, OperatorCommits, AgentCommits, command
  <2>2. QED
    BY <2>1 DEF OpenInv
<1>5. CASE Repair \/ \E who \in {"guided", "sweep", "dod"} : RepairFor(who)
  BY <1>5 DEF Repair, RepairFor, Begin, Given, OpenInv
<1>6. CASE \E key \in Keys : SkipTicket(key)
  BY <1>6 DEF SkipTicket, TakeNext, OpenInv, Working, command
<1>7. CASE \E key \in Keys : AlreadyClean(key)
  BY <1>7 DEF AlreadyClean, TakeNext, OpenInv, Working
<1>8. ASSUME NEW key \in Keys, CallCoder(key) PROVE OpenInv'
  <2>1. \A f \in Sources : ~tree[f].open
    BY <1>8 DEF CallCoder, TakeNext, OpenInv, Working
  <2>2. key[1] \in Sources
    BY DEF Keys
  <2>3. QED
    BY <1>8, <2>1, <2>2 DEF CallCoder, OpenInv
<1>9. CASE CoderAnswers
  <2>1. \A f \in Sources : tree'[f].open =>
          current # Nothing /\ Targeted(current.key) /\ current.key[1] = f
    <3>1. CASE agentic \/ ~Targeted(current.key)
      BY <1>9, <3>1 DEF CoderAnswers, OpenInv
    <3>2. CASE ~(agentic \/ ~Targeted(current.key))
      <4>1. current.key[1] \in Sources
        BY <1>9 DEF CoderAnswers, Given, Working, RepairTypeOK, Ticket, Keys
      <4>2. QED
        BY <1>9, <3>2, <4>1, WrittenOpen DEF CoderAnswers
    <3>3. QED
      BY <3>1, <3>2
  <2>2. QED
    BY <1>9, <2>1 DEF CoderAnswers, OpenInv, Working
<1>10. CASE CoderRefused
  BY <1>10 DEF CoderRefused, OpenInv, Working
<1>11. CASE CoderRaises
  BY <1>11 DEF CoderRaises, OpenInv, Working
<1>12. CASE PostScan
  <2>1. CASE Status = "failed"
    BY <1>12, <2>1 DEF PostScan, OpenInv, Working
  <2>2. CASE Status # "failed"
    <3>1. \A f \in Sources : ~Accepted[f].open
      BY <1>1 DEF Accepted, OpenInv, Trees, Contents
    <3>2. QED
      BY <1>12, <2>2, <3>1 DEF PostScan, OpenInv
  <2>3. QED
    BY <2>1, <2>2
<1>13. CASE Rollback
  <2>1. current # Nothing
    BY <1>13 DEF Rollback, Given, Working
  <2>2. \A f \in Sources : ~Restored[f].open
    BY <1>1, <2>1 DEF Restored, OpenInv, Trees
  <2>3. QED
    BY <1>13, <2>2 DEF Rollback, OpenInv
<1>14. CASE AddFix \/ CommitFix \/ EndTicket
  <2>1. \A f \in Sources : ~tree[f].open
    BY <1>14 DEF AddFix, CommitFix, EndTicket, OpenInv, Working
  <2>2. UNCHANGED tree /\ (current' = current \/ current' = Nothing)
    BY <1>14 DEF AddFix, CommitFix, EndTicket
  <2>3. QED
    BY <2>1, <2>2 DEF OpenInv
<1>15. CASE EndBatch \/ Simplified \/ AddRest \/ CommitRest
  <2>1. \A f \in Sources : ~tree[f].open
    BY <1>15 DEF EndBatch, Over, Simplified, AddRest, CommitRest, OpenInv, Working
  <2>2. UNCHANGED <<tree, current>>
    BY <1>15 DEF EndBatch, Simplified, AddRest, CommitRest
  <2>3. QED
    BY <2>1, <2>2 DEF OpenInv
<1>16. CASE Crash
  <2>1. \A f \in Sources : ~tree'[f].open
    BY <1>1, <1>16 DEF Crash, Trees, Contents
  <2>2. QED
    BY <1>16, <2>1 DEF Crash, OpenInv
<1>17. CASE UNCHANGED repairVars
  BY <1>17 DEF repairVars, git, command, tally, OpenInv
<1>18. QED
  BY <1>2, <1>3, <1>4, <1>5, <1>6, <1>7, <1>8, <1>9, <1>10, <1>11, <1>12, <1>13,
     <1>14, <1>15, <1>16, <1>17 DEF RepairNext, Others, OneTicket

\* A ticket for f was fixed, and something had been found.
Fixed(rs, f) == \E r \in rs : /\ r.key[1] = f /\ Targeted(r.key)
                              /\ r.status = "fixed" /\ r.found

\* A mark that is not another's is the text of a fix.
Fixes(marks, f) == marks[f] # "head" => \/ f \in foreign
                                        \/ marks[f] = "text" /\ Fixed(results, f)

\* Until the last git add of the command, what is staged is the fixes' or
\* staged by others; a ticket about to be committed has its result.
StagedInv ==
  /\ caller = "idle" => landed = Unstaged
  /\ caller # "idle" /\ step # "commitRest" => \A f \in Sources : Fixes(cached, f)
  /\ \A f \in Sources : Fixes(landed, f)
  /\ step \in {"fixed", "added"} => Fixed(results, current.key[1])

LEMMA InitStaged == RepairInit => StagedInv
BY DEF RepairInit, StagedInv, Fixes, Unstaged, Working

\* A commit of fixes leaves fixes.
LEMMA CommitOfFixes ==
  ASSUME StagedInv, GitCommit, caller # "idle", step # "commitRest",
         UNCHANGED <<foreign, results>>
  PROVE  \A f \in Sources : Fixes(cached, f)' /\ Fixes(landed, f)'
<1>1. CASE UNCHANGED <<cached, landed>>
  BY <1>1 DEF StagedInv, Fixes, Fixed
<1>2. CASE /\ landed' = [f \in Sources |->
                           IF cached[f] = "head" THEN landed[f] ELSE cached[f]]
           /\ cached' = Unstaged
  BY <1>2 DEF StagedInv, Fixes, Fixed, Unstaged
<1>3. QED
  BY <1>1, <1>2 DEF GitCommit

\* More results keep every fix.
LEMMA MoreResults ==
  ASSUME StagedInv, results \subseteq results', UNCHANGED git
  PROVE  /\ caller # "idle" /\ step # "commitRest" => \A f \in Sources : Fixes(cached, f)'
         /\ \A f \in Sources : Fixes(landed, f)'
BY DEF StagedInv, Fixes, Fixed, git

LEMMA OthersStaged ==
  ASSUME RepairTypeOK, Given, StagedInv, Others
  PROVE  StagedInv'
<1>1. CASE \E f \in Sources : OperatorEdits(f) \/ AgentEdits(f)
  BY <1>1 DEF OperatorEdits, AgentEdits, StagedInv, Fixes, Fixed, git, command, tally
<1>2. CASE OperatorCommits \/ \E f \in Sources : OperatorStages(f)
  <2>1. caller = "idle" /\ step = "next" /\ UNCHANGED <<landed, foreign, caller, step, results>>
    BY <1>2 DEF OperatorCommits, OperatorStages, Between, Given, command, tally
  <2>2. QED
    BY <2>1 DEF StagedInv, Fixes, Fixed
<1>3. ASSUME NEW g \in Sources, AgentStages(g) PROVE StagedInv'
  <2>1. /\ caller # "idle" /\ step \in {"coding", "simplify"}
        /\ UNCHANGED <<landed, caller, step, results, current>>
    BY <1>3 DEF AgentStages, AgentWorks, Given, command, tally
  <2>2. foreign' = foreign \cup {g} /\ \A f \in Sources : f # g => cached'[f] = cached[f]
    BY <1>3 DEF AgentStages, Added
  <2>3. QED
    BY <2>1, <2>2 DEF StagedInv, Fixes, Fixed
<1>4. CASE AgentCommits
  <2>1. /\ caller # "idle" /\ step \in {"coding", "simplify"} /\ GitCommit
        /\ UNCHANGED <<caller, step, results, current, foreign>>
    BY <1>4 DEF AgentCommits, AgentWorks, Given, command, tally
  <2>2. \A f \in Sources : Fixes(cached, f)' /\ Fixes(landed, f)'
    BY <2>1, CommitOfFixes
  <2>3. QED
    BY <2>1, <2>2 DEF StagedInv
<1>5. QED
  BY <1>1, <1>2, <1>3, <1>4 DEF Others

LEMMA TicketStaged ==
  ASSUME RepairTypeOK, Given, OpenInv, StagedInv, OneTicket
  PROVE  StagedInv'
<1>1. step \in Working => current \in Ticket /\ current.key \in Keys /\ caller # "idle"
  BY DEF Given, RepairTypeOK, Ticket, Working
<1>2. CASE \E key \in Keys : SkipTicket(key) \/ AlreadyClean(key) \/ CallCoder(key)
  <2>1. /\ caller # "idle" /\ UNCHANGED <<git, caller>> /\ step = "next"
        /\ step' \in {"next", "summary", "coding"} /\ results \subseteq results'
    BY <1>2 DEF SkipTicket, AlreadyClean, CallCoder, TakeNext, Enter, command, tally
  <2>2. QED
    BY <2>1, MoreResults DEF StagedInv
<1>3. CASE CoderAnswers \/ CoderRefused \/ CoderRaises \/ Rollback
  <2>1. /\ step \in Working /\ UNCHANGED <<git, caller>>
        /\ step' \in {"answered", "failed", "summary"} /\ results \subseteq results'
    BY <1>3 DEF CoderAnswers, CoderRefused, CoderRaises, Rollback, Settle, Enter, Working,
                command, tally
  <2>2. QED
    BY <1>1, <2>1, MoreResults DEF StagedInv, Working
<1>4. CASE PostScan
  <2>1. /\ step = "answered" /\ step \in Working /\ UNCHANGED <<git, caller, current>>
        /\ step' \in {"failed", "fixed", "summary"} /\ results \subseteq results'
    BY <1>4 DEF PostScan, Settle, Enter, Working, command, tally
  <2>2. ASSUME step' = "fixed" PROVE Fixed(results', current.key[1])
    <3>1. Status = "fixed" /\ Targeted(current.key) /\ Settle("fixed")
      BY <1>4, <2>2 DEF PostScan
    <3> DEFINE r == [key |-> current.key, status |-> "fixed", found |-> TRUE]
    <3>2. r \in results'
      BY <3>1 DEF Settle, Enter
    <3>3. /\ r.key[1] = current.key[1] /\ Targeted(r.key) /\ r.status = "fixed"
          /\ r.found
      BY <3>1
    <3> HIDE DEF r
    <3>4. QED
      BY <3>2, <3>3 DEF Fixed
  <2>3. QED
    BY <1>1, <2>1, <2>2, MoreResults DEF StagedInv
<1>5. CASE AddFix
  <2> DEFINE g == current.key[1]
  <2>1. /\ step = "fixed" /\ UNCHANGED <<landed, foreign, caller, results, current>>
        /\ step' = "added" /\ caller # "idle"
    BY <1>5 DEF AddFix, Given, command, tally
  <2>2. Fixed(results, g) /\ \A f \in Sources : ~tree[f].open
    BY <2>1 DEF StagedInv, OpenInv, Working
  <2>3. \A f \in Sources : cached'[f] = cached[f] \/ (f = g /\ cached'[f] \in {"head", "text"})
    <3>1. CASE cached' = cached
      BY <3>1
    <3>2. CASE cached' \in Added({g})
      BY <2>2, <3>2 DEF Added, Mark
    <3>3. QED
      BY <1>5, <3>1, <3>2 DEF AddFix, GitAdd, ScopedFiles
  <2> HIDE DEF g
  <2>4. \A f \in Sources : Fixes(cached, f)'
    BY <2>1, <2>2, <2>3 DEF StagedInv, Fixes, Fixed
  <2>5. QED
    BY <2>1, <2>4 DEF StagedInv, Fixes, Fixed
<1>6. CASE CommitFix
  <2>1. /\ step = "added" /\ GitCommit /\ UNCHANGED <<caller, results, foreign>>
        /\ step' = "summary" /\ caller # "idle"
    BY <1>6 DEF CommitFix, Given, command, tally
  <2>2. \A f \in Sources : Fixes(cached, f)' /\ Fixes(landed, f)'
    BY <2>1, CommitOfFixes
  <2>3. QED
    BY <2>1, <2>2 DEF StagedInv
<1>7. CASE EndTicket
  <2>1. step = "summary" /\ step' = "next" /\ UNCHANGED <<git, caller, results>>
    BY <1>7 DEF EndTicket, command, tally
  <2>2. QED
    BY <2>1 DEF StagedInv, Fixes, Fixed, git
<1>8. QED
  BY <1>2, <1>3, <1>4, <1>5, <1>6, <1>7 DEF OneTicket

LEMMA StepStaged ==
  ASSUME RepairTypeOK, Given, OpenInv, StagedInv, [RepairNext]_repairVars
  PROVE  StagedInv'
<1>1. ASSUME NEW who \in {"repair", "guided", "sweep", "dod"}, NEW q, Begin(who, q)
      PROVE  StagedInv'
  <2>1. caller = "idle" /\ step = "next" /\ landed = Unstaged
    BY <1>1 DEF Begin, Given, StagedInv
  <2>2. UNCHANGED <<cached, landed, step, results>>
    BY <1>1 DEF Begin, tally
  <2>3. caller' # "idle" => foreign' = {f \in Sources : cached[f] # "head"}
    BY <1>1, <2>1 DEF Begin
  <2>4. QED
    BY <2>1, <2>2, <2>3 DEF StagedInv, Fixes, Unstaged
<1>2. CASE Repair \/ \E who \in {"guided", "sweep", "dod"} : RepairFor(who)
  BY <1>1, <1>2 DEF Repair, RepairFor
<1>3. ASSUME Leave PROVE StagedInv'
  BY <1>3 DEF Leave, StagedInv, Fixes, Unstaged
<1>4. CASE CommitRest \/ Crash
  BY <1>3, <1>4 DEF CommitRest, Crash
<1>5. CASE EndBatch
  <2>1. CASE Simplifies \/ CommitsRest
    <3>1. /\ step' \in {"simplify", "addRest"} /\ step = "next" /\ caller # "idle"
          /\ UNCHANGED <<cached, landed, foreign, caller, results>>
      BY <1>5, <2>1 DEF EndBatch, Over, command, tally
    <3>2. QED
      BY <3>1 DEF StagedInv, Fixes, Fixed
  <2>2. CASE ~(Simplifies \/ CommitsRest)
    BY <1>3, <1>5, <2>2 DEF EndBatch
  <2>3. QED
    BY <2>1, <2>2
<1>6. CASE Simplified
  BY <1>6 DEF Simplified, StagedInv, Fixes, Fixed, git, command, tally
<1>7. CASE AddRest
  BY <1>7 DEF AddRest, StagedInv, Fixes, Fixed, command, tally
<1>8. CASE UNCHANGED repairVars
  BY <1>8 DEF repairVars, git, command, tally, StagedInv, Fixes, Fixed
<1>9. QED
  BY <1>2, <1>4, <1>5, <1>6, <1>7, <1>8, OthersStaged, TicketStaged DEF RepairNext

\* Outside the ticket at work no text waits for a decision, and a batch's
\* commits hold, beside what the operator, an agent or an earlier command had
\* staged, only targets of fixed tickets as these left them
\* (OnlyFixesAreCommitted).
THEOREM CommitsAreFixesOnly == RepairSpec => []OnlyFixesAreCommitted
<1> DEFINE Inv == RepairTypeOK /\ Given /\ OpenInv /\ StagedInv
<1>1. RepairInit => Inv
  BY InitTypes, InitOpen, InitStaged
<1>2. Inv /\ [RepairNext]_repairVars => Inv'
  BY StepTypes, StepOpen, StepStaged
<1>3. Inv => OnlyFixesAreCommitted
  BY DEF OpenInv, StagedInv, Fixes, Fixed, Working, FailedWorkStaysOut, CommitsAreFixes,
         OnlyFixesAreCommitted
<1>4. QED
  BY <1>1, <1>2, <1>3, PTL DEF RepairSpec

=============================================================================
