--------------------------- MODULE PlanningProofs ---------------------------
(***************************************************************************)
(* Proofs about Planning, for any models, operators and plans, however     *)
(* many tickets they have: the types, that what the run loop is given is   *)
(* in dependency order and in scope, and that the proof of a plan is the   *)
(* one its answers call for.                                               *)
(***************************************************************************)
EXTENDS Planning, SequenceTheorems, FiniteSetTheorems, TLAPS

---------------------------------------------------------------------------
(* Sequences *)

LEMMA ElementsType ==
  ASSUME NEW S, NEW s \in Seq(S)
  PROVE  /\ Elements(s) \subseteq S
         /\ \A x : x \in Elements(s) <=> \E k \in 1..Len(s) : s[k] = x
  BY DEF Elements

LEMMA ElementsAppend ==
  ASSUME NEW S, NEW s \in Seq(S), NEW e \in S
  PROVE  Elements(Append(s, e)) = Elements(s) \cup {e}
<1> DEFINE t == Append(s, e)
<1>1. /\ t \in Seq(S) /\ Len(t) = Len(s) + 1 /\ t[Len(s) + 1] = e
      /\ \A k \in 1..Len(s) : t[k] = s[k]
  BY AppendProperties
<1>2. Len(s) \in Nat
  BY LenProperties
<1> HIDE DEF t
<1>3. \A x : x \in Elements(t) <=> x \in Elements(s) \/ x = e
  <2> TAKE x
  <2>1. x \in Elements(t) <=> \E k \in 1..(Len(s) + 1) : t[k] = x
    BY <1>1, ElementsType
  <2>2. x \in Elements(s) <=> \E k \in 1..Len(s) : s[k] = x
    BY ElementsType
  <2>3. QED
    BY <1>1, <1>2, <2>1, <2>2
<1>4. QED
  BY <1>3 DEF t

LEMMA ElementsTail ==
  ASSUME NEW S, NEW s \in Seq(S), s # <<>>
  PROVE  /\ Head(s) \in S /\ Tail(s) \in Seq(S)
         /\ Elements(s) = {Head(s)} \cup Elements(Tail(s))
<1>1. /\ Head(s) \in S /\ Tail(s) \in Seq(S) /\ Len(Tail(s)) = Len(s) - 1
      /\ \A k \in 1..Len(Tail(s)) : Tail(s)[k] = s[k + 1]
  BY HeadTailProperties
<1>2. Len(s) \in Nat \ {0} /\ Head(s) = s[1]
  BY EmptySeq
<1>3. \A x : x \in Elements(s) <=> x = Head(s) \/ x \in Elements(Tail(s))
  <2> TAKE x
  <2>1. x \in Elements(Tail(s)) <=> \E k \in 1..(Len(s) - 1) : s[k + 1] = x
    <3>1. x \in Elements(Tail(s)) <=> \E k \in 1..Len(Tail(s)) : Tail(s)[k] = x
      BY <1>1, ElementsType
    <3>2. QED
      BY <1>1, <3>1
  <2>2. x \in Elements(s) <=> \E k \in 1..Len(s) : s[k] = x
    BY ElementsType
  <2>3. ASSUME NEW k \in 1..Len(s), s[k] = x, k # 1
        PROVE  \E j \in 1..(Len(s) - 1) : s[j + 1] = x
    <3>1. k - 1 \in 1..(Len(s) - 1) /\ s[(k - 1) + 1] = x
      BY <1>2, <2>3
    <3>2. QED
      BY <3>1
  <2>4. ASSUME NEW j \in 1..(Len(s) - 1), s[j + 1] = x
        PROVE  \E k \in 1..Len(s) : s[k] = x
    <3>1. j + 1 \in 1..Len(s)
      BY <1>2
    <3>2. QED
      BY <2>4, <3>1
  <2>5. 1 \in 1..Len(s)
    BY <1>2
  <2>6. QED
    BY <1>2, <2>1, <2>2, <2>3, <2>4, <2>5
<1>4. QED
  BY <1>1, <1>3

LEMMA ElementsEmpty == Elements(<<>>) = {}
  BY DEF Elements

LEMMA FrontProperties ==
  ASSUME NEW S, NEW s \in Seq(S), NEW n \in 0..Len(s)
  PROVE  /\ SubSeq(s, 1, n) \in Seq(S) /\ Len(SubSeq(s, 1, n)) = n
         /\ \A k \in 1..n : SubSeq(s, 1, n)[k] = s[k]
<1> DEFINE t == SubSeq(s, 1, n)
<1>1. Len(s) \in Nat
  BY LenProperties
<1>2. n \in Int /\ n >= 0 /\ 1 \in Int
  BY <1>1
<1>3. \A k \in 1..n : s[k] \in S
  <2> TAKE k \in 1..n
  <2>1. k \in 1..Len(s)
    BY <1>1
  <2>2. QED
    BY <2>1, ElementOfSeq
<1>4. /\ t \in Seq(S)
      /\ Len(t) = IF 1 <= n THEN n - 1 + 1 ELSE 0
      /\ \A k \in 1..(n - 1 + 1) : t[k] = s[1 + k - 1]
  BY <1>2, <1>3, SubSeqProperties
<1> HIDE DEF t
<1>5. Len(t) = n
  BY <1>2, <1>4
<1>6. ASSUME NEW k \in 1..n PROVE t[k] = s[k]
  <2>1. k \in 1..(n - 1 + 1) /\ 1 + k - 1 = k
    BY <1>2
  <2>2. QED
    BY <1>4, <2>1
<1>7. QED
  BY <1>4, <1>5, <1>6 DEF t

\* A sequence whose members are distinct has as many elements as members.
LEMMA DistinctElements ==
  ASSUME NEW S, NEW s \in Seq(S), \A i, j \in 1..Len(s) : s[i] = s[j] => i = j
  PROVE  Cardinality(Elements(s)) = Len(s)
<1>1. Len(s) \in Nat /\ s \in [1..Len(s) -> S] /\ DOMAIN s = 1..Len(s)
  BY LenProperties
<1>2. s \in Bijection(1..Len(s), Elements(s))
  BY <1>1 DEF Bijection, Injection, Surjection, IsInjective, Elements
<1>3. QED
  BY <1>1, <1>2, FS_CountingElements DEF ExistsBijection

---------------------------------------------------------------------------
(* The product *)

\* A product no strategy was recorded for; what its mode alone brings about.
Plain(p) ==
  /\ p \in Product /\ p.mode \in Modes /\ p.strategy = None
  /\ p.proof.by # "strategy" /\ p.proof.mode = p.mode

LEMMA NoneIsNoAnswer == None \notin Modes \cup Strategies
  BY PlanningConstants

LEMMA DefaultIsProof ==
  ASSUME NEW m \in Modes
  PROVE  /\ DefaultProof(m) \in Proof /\ DefaultProof(m).mode = m
         /\ DefaultProof(m).by # "strategy"
  BY DEF DefaultProof, Proof

LEMMA BriefIsPlain ==
  ASSUME NEW b \in Briefs
  PROVE  Plain(FromBrief(b))
<1>1. /\ b.mode \in Modes /\ b.profile \in Profiles /\ b.realism \in Realisms
  BY PlanningConstants
<1>2. NeedsDisclaimer(b) \in BOOLEAN
  BY DEF NeedsDisclaimer
<1>3. FromBrief(b) \in Product
  BY <1>1, <1>2, DefaultIsProof DEF FromBrief, Product, Sources
<1>4. QED
  BY <1>1, <1>3, DefaultIsProof DEF FromBrief, Plain

LEMMA ModeAnswered ==
  ASSUME NEW p, Plain(p), NEW r \in Record
  PROVE  LET q == WithMode(p, r.mode) IN
         /\ Plain(q)
         /\ r.mode \in Modes => q.mode = r.mode
<1> DEFINE q == WithMode(p, r.mode)
<1>1. CASE r.mode \in Modes \ {p.mode}
  <2>1. q = [p EXCEPT !.mode = r.mode, !.proof = DefaultProof(r.mode)]
    BY <1>1 DEF WithMode
  <2>2. DefaultProof(r.mode) \in Proof
    BY <1>1, DefaultIsProof
  <2>3. q \in Product
    BY <1>1, <2>1, <2>2 DEF Plain, Product
  <2>4. /\ q.mode = r.mode /\ q.proof = DefaultProof(r.mode)
        /\ q.strategy = p.strategy
    BY <2>1 DEF Plain, Product
  <2>5. QED
    BY <1>1, <2>3, <2>4, DefaultIsProof DEF Plain
<1>2. CASE r.mode \notin Modes \ {p.mode}
  BY <1>2 DEF WithMode
<1>3. QED
  BY <1>1, <1>2

\* What neither the intent nor the externals nor a seeded demo touch.
SameProof(p, q) == /\ q.mode = p.mode /\ q.proof = p.proof
                   /\ q.strategy = p.strategy

LEMMA IntentAnswered ==
  ASSUME NEW p, Plain(p), NEW r \in Record
  PROVE  LET q == WithIntent(p, r.intent) IN
         /\ Plain(q) /\ SameProof(p, q)
         /\ r.intent = "demo" => q.realism = "seeded_demo"
         /\ r.intent = "production_intent" => q.realism = "production_intent"
<1>1. r.intent \in {None, "demo", "production_intent"}
  BY DEF Record
<1>2. QED
  BY <1>1 DEF WithIntent, Seeded, Plain, Product, Realisms, SameProof

LEMMA ExternalAnswered ==
  ASSUME NEW p, Plain(p), NEW r \in Record
  PROVE  LET q == WithExternal(p, r.external) IN
         /\ Plain(q) /\ SameProof(p, q) /\ q.realism = p.realism
         /\ r.external \in {"live_integration", "local_fake"} =>
              q.profile = "external_dependencies"
  BY DEF WithExternal, Plain, Product, Profiles, SameProof

\* A strategy recorded for a plain product brings its own proof where there
\* is one, and leaves everything else alone.
LEMMA StrategyRecorded ==
  ASSUME NEW p, Plain(p), NEW s \in Strategies
  PROVE  LET q == Strategised(p, s) IN
         /\ q \in Product /\ ProofIsFor(q)
         /\ q.mode = p.mode /\ q.strategy = s
         /\ q.realism = p.realism /\ q.profile = p.profile
<1> DEFINE q == Strategised(p, s)
<1>1. s # None
  BY NoneIsNoAnswer
<1>2. CASE s \in Templates(p.mode)
  <2> DEFINE proof == [by |-> "strategy", mode |-> p.mode, strategy |-> s]
  <2>1. proof \in Proof
    BY DEF Plain, Proof
  <2>2. q = [p EXCEPT !.strategy = s, !.source = "clarification_strategy",
                      !.proof = proof]
    BY <1>2 DEF Strategised
  <2>3. q \in Product
    BY <2>1, <2>2 DEF Plain, Product, Sources
  <2>4. /\ q.mode = p.mode /\ q.strategy = s /\ q.proof = proof
        /\ q.realism = p.realism /\ q.profile = p.profile
    BY <2>2 DEF Plain, Product
  <2>5. QED
    BY <1>2, <2>3, <2>4 DEF ProofIsFor
<1>3. CASE s \notin Templates(p.mode)
  <2>1. q = [p EXCEPT !.strategy = s]
    BY <1>3 DEF Strategised
  <2>2. q \in Product
    BY <2>1 DEF Plain, Product
  <2>3. /\ q.mode = p.mode /\ q.strategy = s /\ q.proof = p.proof
        /\ q.realism = p.realism /\ q.profile = p.profile
    BY <2>1 DEF Plain, Product
  <2>4. QED
    BY <1>3, <2>2, <2>3 DEF ProofIsFor, Plain
<1>4. QED
  BY <1>2, <1>3

LEMMA SeededIsPlain ==
  ASSUME NEW p, Plain(p)
  PROVE  /\ Plain(Seeded(p)) /\ SameProof(p, Seeded(p))
         /\ Seeded(p).realism = "seeded_demo" /\ Seeded(p).profile = p.profile
  BY DEF Seeded, Plain, Product, Realisms, SameProof

\* What the record and its plan agree on once the strategy question is done.
LEMMA StrategyAnswered ==
  ASSUME NEW p, Plain(p), NEW r \in Record
  PROVE  LET q == WithFake(WithStrategy(p, r.strategy), r) IN
         /\ q \in Product /\ ProofIsFor(q)
         /\ q.mode = p.mode /\ q.profile = p.profile
         /\ r.strategy \in Strategies => q.strategy = r.strategy
         /\ r.strategy = None /\ r.external = "local_fake" =>
              q.strategy = "generated_fake"
         /\ r.strategy = "seeded_demo" => q.realism = "seeded_demo"
         /\ r.strategy # "seeded_demo" => q.realism = p.realism
<1> DEFINE q == WithFake(WithStrategy(p, r.strategy), r)
<1>1. r.strategy \in Strategies \cup {None, "other"}
  BY DEF Record
<1>2. /\ "seeded_demo" \in Strategies /\ "generated_fake" \in Strategies
      /\ "other" \notin Strategies
  BY DEF Strategies
<1>3. CASE r.strategy = "seeded_demo"
  <2>1. q = Strategised(Seeded(p), "seeded_demo")
    BY <1>2, <1>3, NoneIsNoAnswer DEF WithStrategy, WithFake
  <2>2. QED
    BY <1>2, <1>3, <2>1, SeededIsPlain, StrategyRecorded, NoneIsNoAnswer DEF SameProof
<1>4. CASE r.strategy \in Strategies \ {"seeded_demo"}
  <2>1. q = Strategised(p, r.strategy)
    BY <1>4, NoneIsNoAnswer DEF WithStrategy, WithFake
  <2>2. QED
    BY <1>4, <2>1, StrategyRecorded, NoneIsNoAnswer
<1>5. CASE r.strategy = None /\ r.external = "local_fake"
  <2>1. q = Strategised(p, "generated_fake")
    BY <1>2, <1>5, NoneIsNoAnswer DEF WithStrategy, WithFake
  <2>2. QED
    BY <1>2, <1>5, <2>1, StrategyRecorded, NoneIsNoAnswer
<1>6. CASE r.strategy \notin Strategies /\ ~(r.strategy = None /\ r.external = "local_fake")
  <2>1. q = p
    BY <1>2, <1>6 DEF WithStrategy, WithFake
  <2>2. QED
    BY <1>2, <1>6, <2>1 DEF Plain, ProofIsFor
<1>7. QED
  BY <1>1, <1>2, <1>3, <1>4, <1>5, <1>6, NoneIsNoAnswer

\* However a brief is understood, its product after all answers is the one
\* they ask for, with the proof for it.
LEMMA AllAnswered ==
  ASSUME NEW b \in Briefs, NEW r \in Record
  PROVE  LET p == ApplyClarificationAnswers(FromBrief(b), r) IN
         p \in Product /\ ProofIsFor(p) /\ AnswersCount(p, r)
<1> DEFINE m == WithMode(FromBrief(b), r.mode)
           i == WithIntent(m, r.intent)
           e == WithExternal(i, r.external)
           p == WithFake(WithStrategy(e, r.strategy), r)
<1>1. Plain(m) /\ (r.mode \in Modes => m.mode = r.mode)
  BY BriefIsPlain, ModeAnswered
<1>2. /\ Plain(i) /\ SameProof(m, i)
      /\ r.intent = "demo" => i.realism = "seeded_demo"
      /\ r.intent = "production_intent" => i.realism = "production_intent"
  BY <1>1, IntentAnswered
<1>3. /\ Plain(e) /\ SameProof(i, e) /\ e.realism = i.realism
      /\ r.external \in {"live_integration", "local_fake"} =>
           e.profile = "external_dependencies"
  BY <1>2, ExternalAnswered
<1> HIDE DEF m, i, e
<1>4. /\ p \in Product /\ ProofIsFor(p)
      /\ p.mode = e.mode /\ p.profile = e.profile
      /\ r.strategy \in Strategies => p.strategy = r.strategy
      /\ r.strategy = None /\ r.external = "local_fake" =>
           p.strategy = "generated_fake"
      /\ r.strategy = "seeded_demo" => p.realism = "seeded_demo"
      /\ r.strategy # "seeded_demo" => p.realism = e.realism
  BY <1>3, StrategyAnswered
<1> HIDE DEF p
<1>5. AnswersCount(p, r)
  BY <1>1, <1>2, <1>3, <1>4 DEF AnswersCount, SameProof
<1>6. p = ApplyClarificationAnswers(FromBrief(b), r)
  BY DEF m, i, e, p, ApplyClarificationAnswers
<1>7. QED
  BY <1>4, <1>5, <1>6

---------------------------------------------------------------------------
(* Planning *)

\* The planning half of TypeOK, with what a planning command holds at each
\* stage, and ProofFits with what it says of the plan being assembled.
WorkInv ==
  /\ stage \in Resting \cup Working \cup {"gate", "load"} \cup Loading
  /\ command \in {"none", "plan", "plan-confirm", "start", "run"}
  /\ brief \in Briefs \cup {None} /\ record \in Records \cup {None}
  /\ skeleton \in Skeletons \cup {<<>>} /\ pos \in Nat \ {0}
  /\ tries \in Nat /\ (tries < MaxTries \/ (stage = "single" /\ tries <= MaxRounds))
  /\ enriched \in Seq(Ticket) /\ plan \in Plan \cup {None}
  /\ file \in Plan \cup {None, Torn} /\ planned \in 0..MaxPlans
  /\ stage \in {"skeleton", "enrich"} => brief \in Briefs
  /\ stage \in Working => record \in Records
  /\ stage \notin Working => <<brief, record, plan>> = <<None, None, None>>
  /\ stage \in {"resolve", "validate"} =>
       plan \in Plan /\ ProofIsFor(plan.product) /\ AnswersCount(plan.product, plan.record)
  /\ ProofFits

\* A plan that may be written.
Fit(p) == /\ p \in Plan
          /\ p.record # None => ProofIsFor(p.product) /\ AnswersCount(p.product, p.record)

LEMMA WrittenIsFit == \A p \in Written : Fit(p)
  BY PlanningConstants DEF Fit

LEMMA InitWork == Init => WorkInv
<1> SUFFICES ASSUME Init PROVE WorkInv
  OBVIOUS
<1>1. file \in Plan \cup {None, Torn} /\ ProofFits
  BY WrittenIsFit, PlanningConstants DEF Init, ProofFits, Fit
<1>2. 0 < MaxTries /\ 0 \in 0..MaxPlans /\ <<>> \in Seq(Ticket)
  BY PlanningConstants
<1>3. QED
  BY <1>1, <1>2 DEF Init, WorkInv, Resting, Working

\* Steps of a command that plans nothing leave the planning half alone.
LEMMA WorkRests ==
  ASSUME WorkInv, stage \notin Working,
         stage' \in Resting \cup {"gate", "load"} \cup Loading,
         command' \in {"none", "plan", "plan-confirm", "start", "run"},
         UNCHANGED <<work, file, planned>>
  PROVE  WorkInv'
<1>1. stage' \notin Working /\ stage # "single" /\ stage' # "single"
  BY DEF Resting, Working, Loading
<1>2. ProofFits'
  BY DEF WorkInv, ProofFits
<1>3. QED
  BY <1>1, <1>2 DEF WorkInv, work, Working

LEMMA BeginWork ==
  ASSUME WorkInv, NEW c \in Commands, NEW b \in Briefs, NEW r \in Records, Begin(c, b, r)
  PROVE  WorkInv'
<1>1. /\ stage \in Resting /\ planned' \in 0..MaxPlans /\ file' = file
      /\ command' \in {"none", "plan", "plan-confirm", "start", "run"}
  BY PlanningConstants DEF Begin, WorkInv
<1>2. stage \notin Working /\ stage # "single"
  BY <1>1 DEF Resting, Working
<1>3. ProofFits'
  BY <1>1 DEF WorkInv, ProofFits
<1>4. CASE r.mode = "unanswered"
  <2>1. stage' = "refused" /\ UNCHANGED work
    BY <1>4 DEF Begin
  <2>2. QED
    BY <1>1, <1>2, <1>3, <2>1 DEF WorkInv, work, Resting, Working
<1>5. CASE r.mode # "unanswered"
  <2>1. /\ stage' = "skeleton" /\ brief' = b /\ record' = r
        /\ UNCHANGED <<skeleton, pos, tries, enriched, plan>>
    BY <1>5 DEF Begin
  <2>2. QED
    BY <1>1, <1>2, <1>3, <2>1 DEF WorkInv, Working
<1>6. QED
  BY <1>4, <1>5

LEMMA NoWorkType ==
  ASSUME WorkInv, NoWork, UNCHANGED <<command, planned>>,
         stage' \in Resting \cup {"gate"}, file' \in Plan \cup {None, Torn}, ProofFits'
  PROVE  WorkInv'
<1>1. 0 < MaxTries /\ <<>> \in Seq(Ticket)
  BY PlanningConstants
<1>2. stage' \notin Working
  BY DEF Resting, Working
<1>3. QED
  BY <1>1, <1>2 DEF WorkInv, NoWork, Working

LEMMA FailWork ==
  ASSUME WorkInv, Fail, UNCHANGED <<command, planned>>
  PROVE  WorkInv'
<1>1. ProofFits' /\ file' \in Plan \cup {None, Torn}
  BY DEF WorkInv, ProofFits, Fail
<1>2. QED
  BY <1>1, NoWorkType DEF Fail, Resting

LEMMA WriteWork ==
  ASSUME WorkInv, NEW p, Fit(p), Write(p), UNCHANGED <<command, planned>>
  PROVE  WorkInv'
<1>1. file' \in {p, Torn} /\ stage' \in {"planned", "gate", "failed"} /\ NoWork
  BY DEF Write
<1>2. ProofFits' /\ file' \in Plan \cup {None, Torn}
  BY <1>1, PlanningConstants DEF ProofFits, Fit
<1>3. QED
  BY <1>1, <1>2, NoWorkType DEF Resting

LEMMA SkeletonWork ==
  ASSUME WorkInv, AnswerSkeleton
  PROVE  WorkInv'
<1>1. stage = "skeleton" /\ UNCHANGED <<command, planned>>
  BY DEF AnswerSkeleton
<1>2. CASE /\ skeleton' \in Skeletons /\ stage' = "enrich"
           /\ UNCHANGED <<brief, record, pos, tries, enriched, plan, file>>
  <2>1. ProofFits'
    BY <1>2 DEF WorkInv, ProofFits
  <2>2. QED
    BY <1>1, <1>2, <2>1 DEF WorkInv, Working
<1>3. CASE stage' = "single" /\ UNCHANGED <<work, file>>
  <2>1. ProofFits'
    BY <1>3 DEF WorkInv, ProofFits
  <2>2. QED
    BY <1>1, <1>3, <2>1 DEF WorkInv, work, Working
<1>4. CASE Fail
  BY <1>1, <1>4, FailWork
<1>5. QED
  BY <1>2, <1>3, <1>4 DEF AnswerSkeleton

LEMMA BatchType ==
  ASSUME WorkInv, pos <= Len(skeleton)
  PROVE  Batch \in Seq(Ticket)
<1>1. skeleton \in Seq(Ticket) /\ pos \in Nat \ {0} /\ BatchSize \in Nat \ {0}
  BY PlanningConstants DEF WorkInv
<1>2. Len(skeleton) \in Nat
  BY <1>1, LenProperties
<1> DEFINE last == IF pos + BatchSize > Len(skeleton)
                   THEN Len(skeleton) ELSE pos + BatchSize - 1
<1>3. last \in Int /\ \A k \in pos..last : k \in 1..Len(skeleton)
  BY <1>1, <1>2
<1> HIDE DEF last
<1>4. \A k \in pos..last : skeleton[k] \in Ticket
  BY <1>1, <1>3, ElementOfSeq
<1>5. SubSeq(skeleton, pos, last) \in Seq(Ticket)
  BY <1>1, <1>3, <1>4, SubSeqProperties
<1>6. QED
  BY <1>5 DEF Batch, last

LEMMA EnrichWork ==
  ASSUME WorkInv, EnrichBatch
  PROVE  WorkInv'
<1>1. /\ stage = "enrich" /\ stage' = stage /\ pos <= Len(skeleton)
      /\ UNCHANGED <<command, brief, record, skeleton, plan, file, planned>>
  BY DEF EnrichBatch
<1>2. /\ enriched' \in Seq(Ticket)
  <2>1. ASSUME NEW a \in Seq(Ticket) PROVE enriched \o a \in Seq(Ticket)
    BY <2>1, ConcatProperties DEF WorkInv
  <2>2. QED
    BY <1>1, <2>1, BatchType, PlanningConstants DEF EnrichBatch, WorkInv
<1>3. pos' \in Nat \ {0}
  <2>1. pos + BatchSize \in Nat \ {0}
    BY PlanningConstants DEF WorkInv
  <2>2. QED
    BY <2>1 DEF EnrichBatch, WorkInv
<1>4. tries' \in Nat /\ tries' < MaxTries
  <2>1. tries \in Nat /\ tries < MaxTries /\ MaxTries \in Nat \ {0}
    BY <1>1, PlanningConstants DEF WorkInv
  <2>2. QED
    BY <2>1 DEF EnrichBatch, LastTry
<1>5. ProofFits'
  BY <1>1 DEF WorkInv, ProofFits
<1>6. QED
  BY <1>1, <1>2, <1>3, <1>4, <1>5 DEF WorkInv, Working

LEMMA AssembleWork ==
  ASSUME WorkInv, Assemble
  PROVE  WorkInv'
<1>1. /\ stage = "enrich" /\ stage' = "resolve" /\ UNCHANGED <<command, file, planned>>
      /\ record' = record /\ skeleton' = <<>> /\ enriched' = <<>> /\ pos' = 1
      /\ brief' = None /\ tries' = tries
  BY DEF Assemble
<1>2. brief \in Briefs /\ record \in Record /\ record \in Records
  BY <1>1, PlanningConstants DEF WorkInv, Working
<1> DEFINE product == ApplyClarificationAnswers(FromBrief(brief), record)
<1>3. product \in Product /\ ProofIsFor(product) /\ AnswersCount(product, record)
  BY <1>2, AllAnswered
<1> HIDE DEF product
<1>4. plan' = [tickets |-> enriched, phases |-> IdsOf(enriched), record |-> record,
               product |-> product]
  BY DEF Assemble, product
<1>5. IdsOf(enriched) \subseteq Ids \cup {None} /\ enriched \in Seq(Ticket)
  <2>1. \A k \in DOMAIN enriched : enriched[k] \in Ticket
    BY DEF WorkInv
  <2>2. QED
    BY <2>1 DEF WorkInv, IdsOf, Ticket
<1>6. plan' \in Plan
  BY <1>2, <1>3, <1>4, <1>5 DEF Plan
<1>7. ProofFits'
  BY <1>1 DEF WorkInv, ProofFits
<1>8. <<>> \in Seq(Ticket)
  OBVIOUS
<1>9. plan'.product = product /\ plan'.record = record
  BY <1>4
<1>10. QED
  BY <1>1, <1>2, <1>3, <1>6, <1>7, <1>8, <1>9 DEF WorkInv, Working

\* Whoever resolves a gap, the proof stays one for the plan's mode: where the
\* coder's goes, no strategy had one.
LEMMA ResolveWork ==
  ASSUME WorkInv, ResolveProofGap
  PROVE  WorkInv'
<1> DEFINE p == plan.product
<1>1. /\ stage = "resolve" /\ stage' = "validate"
      /\ UNCHANGED <<command, brief, record, skeleton, pos, tries, enriched, file, planned>>
  BY DEF ResolveProofGap
<1>2. /\ plan \in Plan /\ p \in Product /\ ProofIsFor(p) /\ AnswersCount(p, plan.record)
  BY <1>1 DEF WorkInv, Plan
<1>3. ASSUME NEW source \in Sources, NEW proof \in Proof,
             plan' = [plan EXCEPT !.product.source = source, !.product.proof = proof],
             ProofIsFor([p EXCEPT !.source = source, !.proof = proof])
      PROVE  /\ plan' \in Plan /\ ProofIsFor(plan'.product)
             /\ AnswersCount(plan'.product, plan'.record)
  <2> DEFINE q == [p EXCEPT !.source = source, !.proof = proof]
  <2>1. q \in Product
    BY <1>2 DEF Product
  <2>2. /\ q.mode = p.mode /\ q.profile = p.profile /\ q.strategy = p.strategy
        /\ q.realism = p.realism
    BY <1>2 DEF Product
  <2>3. plan' = [plan EXCEPT !.product = q]
    BY <1>2, <1>3 DEF Plan, Product
  <2> HIDE DEF q
  <2>4. plan' \in Plan /\ plan'.product = q /\ plan'.record = plan.record
    BY <1>2, <2>1, <2>3 DEF Plan
  <2>5. QED
    BY <1>2, <1>3, <2>2, <2>4 DEF AnswersCount, q
<1>4. ASSUME NEW source \in Sources, plan' = [plan EXCEPT !.product.source = source]
      PROVE  /\ plan' \in Plan /\ ProofIsFor(plan'.product)
             /\ AnswersCount(plan'.product, plan'.record)
  <2> DEFINE q == [p EXCEPT !.source = source]
  <2>1. q \in Product
    BY <1>2 DEF Product
  <2>2. /\ q.mode = p.mode /\ q.profile = p.profile /\ q.strategy = p.strategy
        /\ q.realism = p.realism /\ q.proof = p.proof
    BY <1>2 DEF Product
  <2>3. plan' = [plan EXCEPT !.product = q]
    BY <1>2, <1>4 DEF Plan, Product
  <2> HIDE DEF q
  <2>4. plan' \in Plan /\ plan'.product = q /\ plan'.record = plan.record
    BY <1>2, <2>1, <2>3 DEF Plan
  <2>5. QED
    BY <1>2, <2>2, <2>4 DEF AnswersCount, ProofIsFor
<1>5. /\ plan' \in Plan /\ ProofIsFor(plan'.product)
      /\ AnswersCount(plan'.product, plan'.record)
  <2>1. CASE plan' = [plan EXCEPT !.product.source = "planner_heuristic"]
    BY <2>1, <1>4 DEF Sources
  <2>2. CASE plan' = [plan EXCEPT !.product.source = "planner_gap"]
    BY <2>2, <1>4 DEF Sources
  <2>3. CASE /\ IsGap(p) /\ p.mode \in Resolvable
             /\ plan' = [plan EXCEPT !.product.source = "coder_plan_time",
                           !.product.proof = [by |-> "coder", mode |-> p.mode,
                                              strategy |-> None]]
    <3> DEFINE proof == [by |-> "coder", mode |-> p.mode, strategy |-> None]
               q == [p EXCEPT !.source = "coder_plan_time", !.proof = proof]
    <3>1. proof \in Proof /\ "coder_plan_time" \in Sources
      BY <2>3 DEF Proof, Resolvable, Modes, Sources
    <3>2. q.mode = p.mode /\ q.strategy = p.strategy /\ q.proof = proof
      BY <1>2 DEF Product
    <3>3. p.strategy # None => p.strategy \notin Templates(p.mode)
      BY <1>2, <2>3 DEF ProofIsFor, IsGap
    <3>4. ProofIsFor(q)
      BY <3>2, <3>3 DEF ProofIsFor
    <3>5. QED
      BY <1>3, <2>3, <3>1, <3>4
  <2>4. QED
    BY <2>1, <2>2, <2>3 DEF ResolveProofGap
<1>6. ProofFits'
  BY <1>1 DEF WorkInv, ProofFits
<1>7. QED
  BY <1>1, <1>5, <1>6 DEF WorkInv, Working

LEMMA RepairedIsPlan ==
  ASSUME NEW p \in Plan
  PROVE  /\ Repaired(p) \in Plan
         /\ Repaired(p).product = p.product /\ Repaired(p).record = p.record
<1> DEFINE ts == [k \in DOMAIN p.tickets |-> RepairedTicket(p.tickets[k], k)]
<1>1. /\ p.tickets \in Seq(Ticket) /\ Len(p.tickets) \in Nat
      /\ DOMAIN p.tickets = 1..Len(p.tickets)
  BY LenProperties DEF Plan
<1>2. \A k \in 1..Len(p.tickets) :
        RepairedTicket(p.tickets[k], k) \in Ticket
  <2> SUFFICES ASSUME NEW k \in 1..Len(p.tickets)
               PROVE  RepairedTicket(p.tickets[k], k) \in Ticket
    OBVIOUS
  <2>1. p.tickets[k] \in Ticket /\ k \in Ids
    BY <1>1, ElementOfSeq DEF Ids
  <2>2. QED
    BY <2>1 DEF Ticket, RepairedTicket
<1>3. ts \in [1..Len(p.tickets) -> Ticket]
  BY <1>1, <1>2
<1>4. ts \in Seq(Ticket)
  BY <1>1, <1>3, SeqDef
<1>5. Repaired(p) = [p EXCEPT !.tickets = ts]
  BY DEF Repaired
<1> HIDE DEF ts
<1>6. QED
  BY <1>4, <1>5 DEF Plan

LEMMA ValidateWork ==
  ASSUME WorkInv, Validate
  PROVE  WorkInv'
<1> DEFINE p == IF ValidPlan(plan) THEN plan ELSE Repaired(plan)
<1>1. /\ stage = "validate" /\ UNCHANGED <<command, planned>>
      /\ Write(p) \/ Fail
  BY DEF Validate
<1>2. Fit(p)
  BY <1>1, RepairedIsPlan DEF WorkInv, Fit
<1> HIDE DEF p
<1>3. QED
  BY <1>1, <1>2, WriteWork, FailWork

LEMMA SingleWork ==
  ASSUME WorkInv, SingleShot
  PROVE  WorkInv'
<1>1. stage = "single" /\ UNCHANGED <<command, planned>>
  BY DEF SingleShot
<1>2. ASSUME NEW p \in Written, Write(p) PROVE WorkInv'
  BY <1>1, <1>2, WrittenIsFit, WriteWork
<1>3. CASE /\ tries < MaxRounds /\ tries' = tries + 1
           /\ UNCHANGED <<stage, brief, record, skeleton, pos, enriched, plan, file>>
  <2>1. tries' \in Nat /\ tries' <= MaxRounds
    BY <1>3, PlanningConstants DEF WorkInv
  <2>2. ProofFits'
    BY <1>3 DEF WorkInv, ProofFits
  <2>3. QED
    BY <1>1, <1>3, <2>1, <2>2 DEF WorkInv, Working
<1>4. QED
  BY <1>1, <1>2, <1>3, FailWork DEF SingleShot

---------------------------------------------------------------------------
(* The depth-first search *)

\* needs gives the dependencies of each ticket.  o is what is ordered so far:
\* no ticket twice, each behind what it needs.
Sorted(needs, o) ==
  /\ Elements(o) \subseteq DOMAIN needs
  /\ \A i, j \in 1..Len(o) : o[i] = o[j] => i = j
  /\ \A k \in 1..Len(o) : \A n \in needs[o[k]] : \E j \in 1..(k - 1) : o[j] = n

\* s is the stack.  A ticket on it waits for the one above, which it needs;
\* the rest of its needs is ordered or still to visit.
Waiting(needs, s, o) ==
  \A k \in 1..Len(s) :
    /\ s[k].id \in DOMAIN needs /\ s[k].id \notin Elements(o)
    /\ Elements(s[k].left) \subseteq needs[s[k].id]
    /\ \A n \in needs[s[k].id] : \/ n \in Elements(o) \/ n \in Elements(s[k].left)
                                 \/ k < Len(s) /\ n = s[k + 1].id
    /\ k < Len(s) => s[k + 1].id \in needs[s[k].id]
    /\ \A j \in 1..Len(s) : s[j].id = s[k].id => j = k

\* Every ticket is ordered, on the stack, or a root still to visit.
Reached(needs, r, s, o) ==
  /\ Elements(r) \subseteq DOMAIN needs
  /\ \A n \in DOMAIN needs : \/ n \in Elements(o) \/ n \in Elements(r)
                             \/ \E k \in 1..Len(s) : s[k].id = n

DepthFirst(needs, r, s, o) ==
  Sorted(needs, o) /\ Waiting(needs, s, o) /\ Reached(needs, r, s, o)

\* A root that was visited is passed over.
LEMMA PassRoot ==
  ASSUME NEW needs, NEW r \in Seq(Ids), NEW o \in Seq(Ids), r # <<>>,
         DepthFirst(needs, r, <<>>, o), Head(r) \in Elements(o)
  PROVE  DepthFirst(needs, Tail(r), <<>>, o)
<1>1. Elements(r) = {Head(r)} \cup Elements(Tail(r))
  BY ElementsTail
<1>2. QED
  BY <1>1 DEF DepthFirst, Reached

\* Another one is the first of a new stack.
LEMMA EnterRoot ==
  ASSUME NEW needs, NEW r \in Seq(Ids), NEW o \in Seq(Ids), r # <<>>,
         DepthFirst(needs, r, <<>>, o), Head(r) \notin Elements(o),
         NEW frame \in Frames, frame.id = Head(r),
         Elements(frame.left) = needs[Head(r)]
  PROVE  DepthFirst(needs, Tail(r), <<frame>>, o)
<1>1. Elements(r) = {Head(r)} \cup Elements(Tail(r))
  BY ElementsTail
<1>2. Len(<<frame>>) = 1 /\ <<frame>>[1] = frame
  OBVIOUS
<1> DEFINE s == <<frame>>
<1> HIDE DEF s
<1>3. Len(s) = 1 /\ s[1] = frame
  BY <1>2 DEF s
<1>4. frame.id \in DOMAIN needs
  BY <1>1 DEF DepthFirst, Reached
<1>5. Waiting(needs, s, o)
  BY <1>3, <1>4 DEF Waiting
<1>6. Reached(needs, Tail(r), s, o)
  BY <1>1, <1>3 DEF DepthFirst, Reached
<1>7. DepthFirst(needs, Tail(r), s, o)
  BY <1>5, <1>6 DEF DepthFirst
<1>8. QED
  BY <1>7 DEF s

\* The stack once the first dependency of its top is passed over or entered.
Passed(s, t) ==
  /\ t \in Seq(Frames) /\ Len(t) = Len(s)
  /\ \A k \in 1..Len(s) : t[k].id = s[k].id
  /\ \A k \in 1..(Len(s) - 1) : t[k].left = s[k].left
  /\ t[Len(s)].left = Tail(s[Len(s)].left)

\* A dependency that was visited is passed over.
LEMMA PassDependency ==
  ASSUME NEW needs, NEW r \in Seq(Ids), NEW s \in Seq(Frames), NEW o \in Seq(Ids),
         s # <<>>, s[Len(s)].left # <<>>, DepthFirst(needs, r, s, o),
         Head(s[Len(s)].left) \in Elements(o),
         NEW t, Passed(s, t)
  PROVE  DepthFirst(needs, r, t, o)
<1> DEFINE left == s[Len(s)].left
<1>1. Len(s) \in Nat \ {0} /\ Len(t) = Len(s) /\ s[Len(s)] \in Frames
  BY EmptySeq, ElementOfSeq DEF Passed
<1>2. Elements(left) = {Head(left)} \cup Elements(Tail(left))
  BY <1>1, ElementsTail DEF Frames
<1>3. Waiting(needs, t, o)
  <2> SUFFICES ASSUME NEW k \in 1..Len(s)
               PROVE  /\ t[k].id \in DOMAIN needs /\ t[k].id \notin Elements(o)
                      /\ Elements(t[k].left) \subseteq needs[t[k].id]
                      /\ \A n \in needs[t[k].id] :
                           \/ n \in Elements(o) \/ n \in Elements(t[k].left)
                           \/ k < Len(s) /\ n = t[k + 1].id
                      /\ k < Len(s) => t[k + 1].id \in needs[t[k].id]
                      /\ \A j \in 1..Len(s) : t[j].id = t[k].id => j = k
    BY <1>1 DEF Waiting
  <2>1. t[k].id = s[k].id /\ (k < Len(s) => t[k + 1].id = s[k + 1].id)
    BY <1>1 DEF Passed
  <2>2. CASE k < Len(s)
    <3>1. k \in 1..(Len(s) - 1)
      BY <1>1, <2>2
    <3>2. t[k].left = s[k].left
      BY <3>1 DEF Passed
    <3>3. QED
      BY <1>1, <2>1, <2>2, <3>2 DEF DepthFirst, Waiting, Passed
  <2>3. CASE k = Len(s)
    <3>1. t[k].left = Tail(left)
      BY <2>3 DEF Passed
    <3>2. QED
      BY <1>1, <1>2, <2>1, <2>3, <3>1 DEF DepthFirst, Waiting, Passed
  <2>4. QED
    BY <1>1, <2>2, <2>3
<1>4. Reached(needs, r, t, o)
  BY <1>1 DEF DepthFirst, Reached, Passed
<1>5. QED
  BY <1>3, <1>4 DEF DepthFirst

\* One that was not, and that is no cycle, is entered.
LEMMA EnterDependency ==
  ASSUME NEW needs, NEW r \in Seq(Ids), NEW s \in Seq(Frames), NEW o \in Seq(Ids),
         s # <<>>, s[Len(s)].left # <<>>, DepthFirst(needs, r, s, o),
         \A n \in DOMAIN needs : needs[n] \subseteq DOMAIN needs,
         NEW id, id = Head(s[Len(s)].left), id \notin Elements(o),
         \A k \in 1..Len(s) : s[k].id # id,
         NEW t, Passed(s, t), NEW frame \in Frames, frame.id = id,
         Elements(frame.left) = needs[id]
  PROVE  DepthFirst(needs, r, Append(t, frame), o)
<1> DEFINE left == s[Len(s)].left
           u == Append(t, frame)
<1>1. Len(s) \in Nat \ {0} /\ Len(t) = Len(s) /\ s[Len(s)] \in Frames
  BY EmptySeq, ElementOfSeq DEF Passed
<1>2. Elements(left) = {id} \cup Elements(Tail(left))
  BY <1>1, ElementsTail DEF Frames
<1>3. /\ Len(u) = Len(s) + 1 /\ u[Len(s) + 1] = frame
      /\ \A k \in 1..Len(s) : u[k] = t[k]
  BY <1>1, AppendProperties DEF Passed
<1> HIDE DEF u
<1>4. \A k \in 1..Len(s) : u[k].id = s[k].id
  BY <1>3 DEF Passed
<1>5. id \in needs[s[Len(s)].id] /\ s[Len(s)].id \in DOMAIN needs /\ id \in DOMAIN needs
  <2>1. Len(s) \in 1..Len(s) /\ id \in Elements(left)
    BY <1>1, <1>2
  <2>2. /\ s[Len(s)].id \in DOMAIN needs
        /\ Elements(left) \subseteq needs[s[Len(s)].id]
    BY <2>1 DEF DepthFirst, Waiting
  <2>3. QED
    BY <2>1, <2>2
<1>6. Waiting(needs, u, o)
  <2> SUFFICES ASSUME NEW k \in 1..(Len(s) + 1)
               PROVE  /\ u[k].id \in DOMAIN needs /\ u[k].id \notin Elements(o)
                      /\ Elements(u[k].left) \subseteq needs[u[k].id]
                      /\ \A n \in needs[u[k].id] :
                           \/ n \in Elements(o) \/ n \in Elements(u[k].left)
                           \/ k < Len(s) + 1 /\ n = u[k + 1].id
                      /\ k < Len(s) + 1 => u[k + 1].id \in needs[u[k].id]
                      /\ \A j \in 1..(Len(s) + 1) : u[j].id = u[k].id => j = k
    BY <1>1, <1>3 DEF Waiting
  <2>1. \A j \in 1..(Len(s) + 1) : u[j].id = u[k].id => j = k
    BY <1>1, <1>3, <1>4 DEF DepthFirst, Waiting
  <2>2. CASE k < Len(s)
    <3>1. u[k].left = s[k].left /\ u[k].id = s[k].id /\ u[k + 1].id = s[k + 1].id
      BY <1>1, <1>3, <1>4, <2>2 DEF Passed
    <3>2. QED
      BY <1>1, <2>1, <2>2, <3>1 DEF DepthFirst, Waiting
  <2>3. CASE k = Len(s)
    <3>1. u[k].left = Tail(left) /\ u[k].id = s[k].id /\ u[k + 1].id = id
      BY <1>1, <1>3, <1>4, <2>3 DEF Passed
    <3>2. QED
      BY <1>1, <1>2, <1>5, <2>1, <2>3, <3>1 DEF DepthFirst, Waiting
  <2>4. CASE k = Len(s) + 1
    BY <1>1, <1>3, <1>5, <2>1, <2>4
  <2>5. QED
    BY <1>1, <2>2, <2>3, <2>4
<1>7. Reached(needs, r, u, o)
  BY <1>1, <1>3, <1>4 DEF DepthFirst, Reached
<1>8. DepthFirst(needs, r, u, o)
  BY <1>6, <1>7 DEF DepthFirst
<1>9. QED
  BY <1>8 DEF u

\* A ticket all of whose needs are ordered is the next.
LEMMA LeaveTop ==
  ASSUME NEW needs, NEW r \in Seq(Ids), NEW s \in Seq(Frames), NEW o \in Seq(Ids),
         s # <<>>, s[Len(s)].left = <<>>, DepthFirst(needs, r, s, o)
  PROVE  DepthFirst(needs, r, SubSeq(s, 1, Len(s) - 1), Append(o, s[Len(s)].id))
<1> DEFINE id == s[Len(s)].id
           t == SubSeq(s, 1, Len(s) - 1)
           q == Append(o, id)
<1>1. Len(s) \in Nat \ {0} /\ s[Len(s)] \in Frames /\ Len(o) \in Nat
  BY EmptySeq, ElementOfSeq, LenProperties
<1>2. id \in Ids
  BY <1>1 DEF Frames
<1>3. Len(t) = Len(s) - 1 /\ \A k \in 1..(Len(s) - 1) : t[k] = s[k]
  <2>1. Len(s) - 1 \in 0..Len(s)
    BY <1>1
  <2>2. QED
    BY <2>1, FrontProperties
<1>4. /\ Len(q) = Len(o) + 1 /\ q[Len(o) + 1] = id
      /\ \A k \in 1..Len(o) : q[k] = o[k]
  BY <1>2, AppendProperties
<1>5. Elements(q) = Elements(o) \cup {id}
  BY <1>2, ElementsAppend
<1>6. /\ id \in DOMAIN needs /\ id \notin Elements(o)
      /\ needs[id] \subseteq Elements(o)
      /\ \A k \in 1..(Len(s) - 1) : s[k].id # id
  BY <1>1, ElementsEmpty DEF DepthFirst, Waiting
<1>7. \A x : x \in Elements(o) <=> \E k \in 1..Len(o) : o[k] = x
  BY ElementsType
<1> HIDE DEF id, t, q
<1>8. Sorted(needs, q)
  <2>1. Elements(q) \subseteq DOMAIN needs
    BY <1>5, <1>6 DEF DepthFirst, Sorted
  <2>2. \A i, j \in 1..Len(q) : q[i] = q[j] => i = j
    BY <1>1, <1>4, <1>6, <1>7 DEF DepthFirst, Sorted
  <2>3. ASSUME NEW k \in 1..Len(q), NEW n \in needs[q[k]]
        PROVE  \E j \in 1..(k - 1) : q[j] = n
    <3>1. CASE k <= Len(o)
      <4>1. k \in 1..Len(o) /\ q[k] = o[k]
        BY <1>1, <1>4, <3>1
      <4>2. n \in needs[o[k]]
        BY <2>3, <4>1
      <4>3. PICK j \in 1..(k - 1) : o[j] = n
        BY <4>1, <4>2 DEF DepthFirst, Sorted
      <4>4. q[j] = n
        BY <1>1, <1>4, <3>1, <4>3
      <4>5. QED
        BY <4>4
    <3>2. CASE k = Len(o) + 1
      BY <1>1, <1>4, <1>6, <1>7, <2>3, <3>2
    <3>3. QED
      BY <1>1, <1>4, <3>1, <3>2
  <2>4. QED
    BY <2>1, <2>2, <2>3 DEF Sorted
<1>9. Waiting(needs, t, q)
  <2> SUFFICES ASSUME NEW k \in 1..(Len(s) - 1)
               PROVE  /\ t[k].id \in DOMAIN needs /\ t[k].id \notin Elements(q)
                      /\ Elements(t[k].left) \subseteq needs[t[k].id]
                      /\ \A n \in needs[t[k].id] :
                           \/ n \in Elements(q) \/ n \in Elements(t[k].left)
                           \/ k < Len(t) /\ n = t[k + 1].id
                      /\ k < Len(t) => t[k + 1].id \in needs[t[k].id]
                      /\ \A j \in 1..Len(t) : t[j].id = t[k].id => j = k
    BY <1>3 DEF Waiting
  <2>1. k \in 1..Len(s) /\ k < Len(s) /\ t[k] = s[k]
        /\ (k < Len(t) => t[k + 1] = s[k + 1])
        /\ (k = Len(t) => s[k + 1].id = id)
    BY <1>1, <1>3 DEF id
  <2>2. \A j \in 1..Len(t) : j \in 1..Len(s) /\ t[j] = s[j]
    BY <1>1, <1>3
  <2>3. QED
    BY <1>1, <1>3, <1>5, <1>6, <2>1, <2>2 DEF DepthFirst, Waiting
<1>10. Reached(needs, r, t, q)
  <2>1. \A k \in 1..Len(s) : (k \in 1..Len(t) /\ t[k] = s[k]) \/ s[k].id = id
    BY <1>1, <1>3 DEF id
  <2>2. QED
    BY <1>5, <2>1 DEF DepthFirst, Reached
<1>11. DepthFirst(needs, r, t, q)
  BY <1>8, <1>9, <1>10 DEF DepthFirst
<1>12. QED
  BY <1>11 DEF id, t, q

---------------------------------------------------------------------------
(* Loading and splitting *)

\* What each ticket of plan.json needs.
Needs == [n \in IdsOf(file.tickets) |-> Elements(NeedsOf(n))]

\* The search is one over the tickets of a valid plan; it is over when the run
\* has them, and a stack left behind shows a cycle.
LoadInv ==
  /\ order \in [roots : Seq(Ids), stack : Seq(Frames), ordered : Seq(Ids)]
  /\ subs.of \in Ids \cup {None}
  /\ stage \in Loading =>
       /\ file \in Plan /\ ValidTickets(file.tickets)
       /\ DepthFirst(Needs, order.roots, order.stack, order.ordered)
  /\ stage \in {"loaded", "split"} => order.roots = <<>> /\ order.stack = <<>>
  /\ CyclesAreReal
  /\ SplitsStayInside

LEMMA NeedsType ==
  ASSUME file \in Plan, ValidTickets(file.tickets), NEW id \in IdsOf(file.tickets)
  PROVE  /\ id \in Ids /\ NeedsOf(id) \in Seq(Ids)
         /\ Elements(NeedsOf(id)) \subseteq IdsOf(file.tickets)
         /\ Frame(id) \in Frames /\ Frame(id).id = id
         /\ Frame(id).left = NeedsOf(id)
<1>1. file.tickets \in Seq(Ticket)
  BY DEF Plan
<1>2. \E t \in Elements(file.tickets) : t.id = id
  BY DEF IdsOf, Elements
<1>3. TicketOf(id) \in Elements(file.tickets) /\ TicketOf(id).id = id
  BY <1>2 DEF TicketOf
<1>4. TicketOf(id) \in Ticket
  BY <1>1, <1>3, ElementsType
<1>5. id \in Ids /\ NeedsOf(id) \in Seq(Ids)
  BY <1>3, <1>4 DEF ValidTickets, Ticket, NeedsOf
<1>6. Elements(NeedsOf(id)) \subseteq IdsOf(file.tickets)
  BY <1>3 DEF ValidTickets, NeedsOf
<1>7. QED
  BY <1>5, <1>6 DEF Frame, Frames

LEMMA NeedsInside ==
  ASSUME file \in Plan, ValidTickets(file.tickets)
  PROVE  /\ DOMAIN Needs = IdsOf(file.tickets)
         /\ \A n \in DOMAIN Needs : /\ Needs[n] = Elements(NeedsOf(n))
                                    /\ Needs[n] \subseteq DOMAIN Needs
  BY NeedsType DEF Needs

LEMMA SameNeeds == file' = file => Needs' = Needs
  BY DEF Needs, NeedsOf, TicketOf, IdsOf, Elements

LEMMA SameCycle == file' = file /\ order' = order => OnACycle' = OnACycle
  BY DEF OnACycle, Top, NeedsOf, TicketOf, Elements

LEMMA SameSplit ==
  UNCHANGED <<stage, subs, file>> => SplitsStayInside' = SplitsStayInside
  BY DEF SplitsStayInside, TicketOf, Elements

\* Steps outside a run leave the last run's order and split alone.
LEMMA LoadRests ==
  ASSUME LoadInv, UNCHANGED <<order, subs>>, stage' \notin Loading \cup {"refused"}
  PROVE  LoadInv'
  BY DEF LoadInv, Loading, CyclesAreReal, SplitsStayInside

\* With nothing ordered nothing can be wrong.
LEMMA LoadCleared ==
  ASSUME order' = NoOrder, subs'.of \in Ids \cup {None}, stage' \notin Loading
  PROVE  LoadInv'
<1>1. order' \in [roots : Seq(Ids), stack : Seq(Frames), ordered : Seq(Ids)]
  BY DEF NoOrder
<1>2. order'.stack = <<>>
  BY DEF NoOrder
<1>3. QED
  BY <1>1, <1>2 DEF LoadInv, Loading, CyclesAreReal, SplitsStayInside

\* Within the search it is enough to follow the search.
LEMMA LoadSearches ==
  ASSUME LoadInv, stage' = "order", file \in Plan, ValidTickets(file.tickets),
         UNCHANGED <<subs, file>>,
         order' \in [roots : Seq(Ids), stack : Seq(Frames), ordered : Seq(Ids)],
         DepthFirst(Needs, order'.roots, order'.stack, order'.ordered)
  PROVE  LoadInv'
  BY SameNeeds DEF LoadInv, CyclesAreReal, SplitsStayInside

LEMMA InitLoad == Init => LoadInv
  BY DEF Init, LoadInv, NoOrder, NoSplit, Loading, CyclesAreReal, SplitsStayInside

LEMMA PlanLoad ==
  ASSUME LoadInv, file \in Plan \cup {None, Torn}, LoadPlan
  PROVE  LoadInv'
<1> DEFINE roots == [k \in DOMAIN file.tickets |-> file.tickets[k].id]
<1>1. UNCHANGED <<subs, file>>
  BY DEF LoadPlan
<1>2. CASE stage' = "refused" /\ order' = NoOrder
  BY <1>1, <1>2, LoadCleared DEF LoadInv, Loading
<1>3. CASE /\ file # Torn /\ ValidPlan(file) /\ stage' = "order"
           /\ order' = [NoOrder EXCEPT !.roots = roots]
           /\ file \in Plan
  <2>1. ValidTickets(file.tickets) /\ file.tickets \in Seq(Ticket)
    BY <1>3 DEF ValidPlan, Plan
  <2>2. /\ Len(file.tickets) \in Nat
        /\ DOMAIN file.tickets = 1..Len(file.tickets)
    BY <2>1, LenProperties
  <2>3. roots \in [1..Len(file.tickets) -> Ids]
    BY <2>2, <1>3, <2>1, NeedsType DEF IdsOf
  <2>4. roots \in Seq(Ids)
    BY <2>2, <2>3, SeqDef
  <2>5. Elements(roots) = IdsOf(file.tickets)
    BY DEF Elements, IdsOf
  <2> HIDE DEF roots
  <2>6. order' = [roots |-> roots, stack |-> <<>>, ordered |-> <<>>]
    BY <1>3 DEF NoOrder
  <2>7. order' \in [roots : Seq(Ids), stack : Seq(Frames), ordered : Seq(Ids)]
    BY <2>4, <2>6
  <2>8. DOMAIN Needs = IdsOf(file.tickets)
    BY DEF Needs
  <2>9. DepthFirst(Needs, roots, <<>>, <<>>)
    BY <2>5, <2>8, ElementsEmpty DEF DepthFirst, Sorted, Waiting, Reached
  <2>10. QED
    BY <1>1, <1>3, <2>1, <2>6, <2>7, <2>9, LoadSearches
<1>4. QED
  BY <1>2, <1>3 DEF LoadPlan

\* What holds of the stack whenever one is there.
LEMMA StackType ==
  ASSUME LoadInv, stage = "order", order.stack # <<>>
  PROVE  LET s == order.stack IN
         /\ s \in Seq(Frames) /\ Len(s) \in Nat \ {0} /\ Len(s) \in 1..Len(s)
         /\ Top = s[Len(s)] /\ Top \in Frames /\ Top.id \in DOMAIN Needs
         /\ Elements(Top.left) \subseteq Needs[Top.id]
<1>1. order.stack \in Seq(Frames)
  BY DEF LoadInv
<1>2. Len(order.stack) \in Nat \ {0} /\ Len(order.stack) \in 1..Len(order.stack)
  BY <1>1, EmptySeq
<1>3. Top \in Frames
  BY <1>1, <1>2, ElementOfSeq DEF Top
<1>4. Waiting(Needs, order.stack, order.ordered)
  BY DEF LoadInv, Loading, DepthFirst
<1>5. Top.id \in DOMAIN Needs /\ Elements(Top.left) \subseteq Needs[Top.id]
  BY <1>2, <1>4 DEF Waiting, Top
<1>6. QED
  BY <1>1, <1>2, <1>3, <1>5 DEF Top

LEMMA RootLoad ==
  ASSUME LoadInv, VisitRoot
  PROVE  LoadInv'
<1> DEFINE id == Head(order.roots)
<1>1. /\ stage = "order" /\ stage' = "order" /\ UNCHANGED <<subs, file>>
      /\ file \in Plan /\ ValidTickets(file.tickets)
      /\ order.stack = <<>> /\ order.roots # <<>>
      /\ order.roots \in Seq(Ids) /\ order.ordered \in Seq(Ids)
      /\ DepthFirst(Needs, order.roots, <<>>, order.ordered)
  BY DEF VisitRoot, LoadInv, Loading
<1>2. Tail(order.roots) \in Seq(Ids) /\ id \in Elements(order.roots)
  BY <1>1, ElementsTail
<1>3. id \in IdsOf(file.tickets)
  BY <1>1, <1>2, NeedsInside DEF DepthFirst, Reached
<1>4. /\ Frame(id) \in Frames /\ Frame(id).id = id
      /\ Elements(Frame(id).left) = Needs[id]
  BY <1>1, <1>3, NeedsType, NeedsInside
<1>5. CASE Visited(id)
  <2>1. /\ order'.roots = Tail(order.roots) /\ order'.stack = <<>>
        /\ order'.ordered = order.ordered
        /\ order' \in [roots : Seq(Ids), stack : Seq(Frames), ordered : Seq(Ids)]
    BY <1>1, <1>2, <1>5 DEF VisitRoot, LoadInv
  <2>2. DepthFirst(Needs, Tail(order.roots), <<>>, order.ordered)
    BY <1>1, <1>5, PassRoot DEF Visited
  <2>3. QED
    BY <1>1, <2>1, <2>2, LoadSearches
<1>6. CASE ~Visited(id)
  <2>1. <<Frame(id)>> \in Seq(Frames)
    BY <1>4
  <2>2. /\ order'.roots = Tail(order.roots) /\ order'.stack = <<Frame(id)>>
        /\ order'.ordered = order.ordered
        /\ order' \in [roots : Seq(Ids), stack : Seq(Frames), ordered : Seq(Ids)]
    BY <1>1, <1>2, <1>6, <2>1 DEF VisitRoot, LoadInv
  <2>3. DepthFirst(Needs, Tail(order.roots), <<Frame(id)>>, order.ordered)
    BY <1>1, <1>4, <1>6, EnterRoot DEF Visited
  <2>4. QED
    BY <1>1, <2>2, <2>3, LoadSearches
<1>7. QED
  BY <1>5, <1>6

\* The stack after its first dependency is taken off the top.
LEMMA SkipPasses ==
  ASSUME LoadInv, stage = "order", order.stack # <<>>, Top.left # <<>>
  PROVE  Passed(order.stack, Skip)
<1> DEFINE s == order.stack
           n == Len(s) - 1
           frame == [Top EXCEPT !.left = Tail(@)]
<1>1. /\ s \in Seq(Frames) /\ Len(s) \in Nat \ {0}
      /\ Top = s[Len(s)] /\ Top \in Frames
  BY StackType
<1>2. n \in 0..Len(s) /\ n + 1 = Len(s)
  BY <1>1
<1>3. /\ Below \in Seq(Frames) /\ Len(Below) = n
      /\ \A k \in 1..n : Below[k] = s[k]
  BY <1>1, <1>2, FrontProperties DEF Below
<1>4. /\ frame \in Frames /\ frame.id = Top.id /\ frame.left = Tail(Top.left)
  BY <1>1, ElementsTail DEF Frames
<1>5. Skip = Append(Below, frame)
  BY DEF Skip
<1> HIDE DEF frame
<1>6. /\ Skip \in Seq(Frames) /\ Len(Skip) = n + 1 /\ Skip[n + 1] = frame
      /\ \A k \in 1..n : Skip[k] = Below[k]
  BY <1>3, <1>4, <1>5, AppendProperties
<1>7. \A k \in 1..Len(s) : k \in 1..n \/ k = Len(s)
  BY <1>1
<1>8. QED
  BY <1>1, <1>2, <1>3, <1>4, <1>6, <1>7 DEF Passed

LEMMA DependencyLoad ==
  ASSUME LoadInv, VisitDependency
  PROVE  LoadInv'
<1> DEFINE id == Head(Top.left)
           s == order.stack
<1>1. /\ stage = "order" /\ UNCHANGED <<subs, file>>
      /\ file \in Plan /\ ValidTickets(file.tickets)
      /\ s # <<>> /\ Top.left # <<>>
      /\ order.roots \in Seq(Ids) /\ order.ordered \in Seq(Ids)
      /\ DepthFirst(Needs, order.roots, s, order.ordered)
  BY DEF VisitDependency, LoadInv, Loading
<1>2. /\ s \in Seq(Frames) /\ Len(s) \in Nat \ {0} /\ Len(s) \in 1..Len(s)
      /\ Top = s[Len(s)] /\ Top \in Frames /\ Top.id \in DOMAIN Needs
      /\ Elements(Top.left) \subseteq Needs[Top.id]
  BY <1>1, StackType
<1>3. id \in Needs[Top.id]
  BY <1>1, <1>2, ElementsTail DEF Frames
<1>4. Passed(s, Skip) /\ Skip \in Seq(Frames)
  BY <1>1, SkipPasses DEF Passed
<1>5. id \in IdsOf(file.tickets)
  BY <1>1, <1>2, <1>3, NeedsInside
<1>6. /\ Frame(id) \in Frames /\ Frame(id).id = id
      /\ Elements(Frame(id).left) = Needs[id]
  BY <1>1, <1>5, NeedsType, NeedsInside
<1>7. CASE Visited(id)
  <2>1. /\ order' = [order EXCEPT !.stack = Skip] /\ stage' = "order"
    BY <1>1, <1>7 DEF VisitDependency
  <2>2. /\ order'.roots = order.roots /\ order'.stack = Skip
        /\ order'.ordered = order.ordered
        /\ order' \in [roots : Seq(Ids), stack : Seq(Frames), ordered : Seq(Ids)]
    BY <1>4, <2>1 DEF LoadInv
  <2>3. DepthFirst(Needs, order.roots, Skip, order.ordered)
    BY <1>1, <1>2, <1>4, <1>7, PassDependency DEF Visited
  <2>4. QED
    BY <1>1, <2>1, <2>2, <2>3, LoadSearches
<1>8. CASE ~Visited(id) /\ InStack(id)
  <2>1. stage' = "refused" /\ order' = order
    BY <1>1, <1>8 DEF VisitDependency
  <2>2. PICK k \in 1..Len(s) : s[k].id = id
    BY <1>2, <1>8, LenProperties DEF InStack
  <2>3. Waiting(Needs, s, order.ordered)
    BY <1>1 DEF DepthFirst
  <2>4. \A j \in k..(Len(s) - 1) :
          /\ j \in 1..Len(s) /\ j < Len(s) /\ s[j].id \in DOMAIN Needs
    BY <1>2, <2>2, <2>3 DEF Waiting
  <2>5. \A j \in k..(Len(s) - 1) : s[j + 1].id \in Needs[s[j].id]
    BY <2>3, <2>4 DEF Waiting
  <2>6. \A n \in DOMAIN Needs : Needs[n] = Elements(NeedsOf(n))
    BY <1>1, NeedsInside
  <2>7. /\ s[k].id = Head(Top.left) /\ s[k].id \in Elements(NeedsOf(Top.id))
        /\ \A j \in k..(Len(s) - 1) : s[j + 1].id \in Elements(NeedsOf(s[j].id))
    BY <1>2, <1>3, <2>2, <2>4, <2>5, <2>6
  <2>8. k \in DOMAIN s
    BY <1>2, <2>2, LenProperties
  <2>9. OnACycle
    BY <2>7, <2>8 DEF OnACycle
  <2>10. QED
    BY <1>1, <2>1, <2>9, SameCycle DEF LoadInv, Loading, CyclesAreReal, SplitsStayInside
<1>9. CASE ~Visited(id) /\ ~InStack(id)
  <2> DEFINE t == Append(Skip, Frame(id))
  <2>1. order' = [order EXCEPT !.stack = t] /\ stage' = "order"
    BY <1>1, <1>9 DEF VisitDependency
  <2>2. t \in Seq(Frames)
    BY <1>4, <1>6, AppendProperties
  <2>3. \A k \in 1..Len(s) : s[k].id # id
    BY <1>2, <1>9, LenProperties DEF InStack
  <2>4. DepthFirst(Needs, order.roots, t, order.ordered)
    BY <1>1, <1>2, <1>4, <1>6, <1>9, <2>3, NeedsInside, EnterDependency DEF Visited
  <2> HIDE DEF t
  <2>5. /\ order'.roots = order.roots /\ order'.stack = t
        /\ order'.ordered = order.ordered
        /\ order' \in [roots : Seq(Ids), stack : Seq(Frames), ordered : Seq(Ids)]
    BY <2>1, <2>2 DEF LoadInv
  <2>6. QED
    BY <1>1, <2>1, <2>4, <2>5, LoadSearches
<1>10. QED
  BY <1>7, <1>8, <1>9

LEMMA LeaveLoad ==
  ASSUME LoadInv, LeaveTicket
  PROVE  LoadInv'
<1> DEFINE s == order.stack
           n == Len(s) - 1
           q == Append(order.ordered, Top.id)
<1>1. /\ stage = "order" /\ stage' = "order" /\ UNCHANGED <<subs, file>>
      /\ file \in Plan /\ ValidTickets(file.tickets)
      /\ s # <<>> /\ Top.left = <<>>
      /\ order.roots \in Seq(Ids) /\ order.ordered \in Seq(Ids)
      /\ DepthFirst(Needs, order.roots, s, order.ordered)
      /\ order' = [order EXCEPT !.stack = Below, !.ordered = q]
  BY DEF LeaveTicket, LoadInv, Loading
<1>2. /\ s \in Seq(Frames) /\ Len(s) \in Nat \ {0}
      /\ Top = s[Len(s)] /\ Top \in Frames
  BY <1>1, StackType
<1>3. n \in 0..Len(s)
  BY <1>2
<1>4. Below \in Seq(Frames)
  BY <1>2, <1>3, FrontProperties DEF Below
<1>5. q \in Seq(Ids)
  BY <1>1, <1>2, AppendProperties DEF Frames
<1>6. DepthFirst(Needs, order.roots, Below, q)
  BY <1>1, <1>2, LeaveTop DEF Below
<1> HIDE DEF q
<1>7. /\ order'.roots = order.roots /\ order'.stack = Below /\ order'.ordered = q
      /\ order' \in [roots : Seq(Ids), stack : Seq(Frames), ordered : Seq(Ids)]
  BY <1>1, <1>4, <1>5 DEF LoadInv
<1>8. QED
  BY <1>1, <1>6, <1>7, LoadSearches

LEMMA OrderedLoad ==
  ASSUME LoadInv, Ordered
  PROVE  LoadInv'
  BY SameNeeds DEF Ordered, LoadInv, Loading, CyclesAreReal, SplitsStayInside

\* Whatever the splitter answers, its parts stay inside their ticket.
LEMMA PartsStayInside ==
  ASSUME NEW t, NEW raws, NEW k \in DOMAIN ParseSplit(t, raws)
  PROVE  LET into == ParseSplit(t, raws)
             part == into[k]
         IN  /\ part.scope \subseteq t.scope /\ part.named \subseteq part.scope
             /\ part.outer = Elements(t.needs)
             /\ part.inner \subseteq {into[j].id : j \in {i \in DOMAIN into : i < k}}
<1> DEFINE into == ParseSplit(t, raws)
           Part(i) == [id |-> SubId(raws, i),
             scope |-> IF Candidate(raws[i]) = {} THEN t.scope ELSE Candidate(raws[i]),
             named |-> raws[i].named,
             outer |-> Elements(t.needs),
             inner |-> raws[i].after \cap {SubId(raws, j) : j \in KeptBefore(raws, i)}]
<1>1. into # <<>>
  BY DEF into
<1>2. /\ into = [i \in Kept(raws) |-> Part(i)]
      /\ \A i \in Kept(raws) : ~Escapes(t, raws[i])
  BY <1>1 DEF ParseSplit
<1>3. DOMAIN into = Kept(raws) /\ \A i \in Kept(raws) : into[i] = Part(i)
  BY <1>2
<1>4. k \in Kept(raws) /\ Candidate(raws[k]) \subseteq t.scope
  BY <1>2, <1>3 DEF Escapes
<1>5. into[k].scope \subseteq t.scope /\ into[k].named \subseteq into[k].scope
  BY <1>3, <1>4 DEF Candidate
<1>6. into[k].outer = Elements(t.needs)
  BY <1>3, <1>4
<1>7. KeptBefore(raws, k) = {i \in DOMAIN into : i < k}
  BY <1>3 DEF KeptBefore
<1>8. \A i \in Kept(raws) : into[i].id = SubId(raws, i)
  BY <1>3
<1>9. into[k].inner = raws[k].after \cap {SubId(raws, j) : j \in KeptBefore(raws, k)}
  BY <1>3, <1>4
<1> HIDE DEF into, Part
<1>10. into[k].inner \subseteq {into[j].id : j \in {i \in DOMAIN into : i < k}}
  <2> SUFFICES ASSUME NEW x \in into[k].inner
               PROVE  \E j \in {i \in DOMAIN into : i < k} : x = into[j].id
    OBVIOUS
  <2>1. PICK j \in KeptBefore(raws, k) : x = SubId(raws, j)
    BY <1>9
  <2>2. j \in Kept(raws)
    BY DEF KeptBefore
  <2>3. QED
    BY <1>7, <1>8, <2>1, <2>2
<1>11. QED
  BY <1>5, <1>6, <1>10 DEF into

LEMMA SplitLoad ==
  ASSUME LoadInv, NEW id \in Elements(order.ordered), NEW raws \in SubAnswers, Split(id, raws)
  PROVE  LoadInv'
<1>1. /\ stage \in {"loaded", "split"} /\ stage' = "split"
      /\ UNCHANGED <<order, file>>
      /\ subs' = [of |-> id, into |-> ParseSplit(TicketOf(id), raws)]
  BY DEF Split
<1>2. subs'.of = id /\ subs'.into = ParseSplit(TicketOf(id), raws)
  BY <1>1
<1>3. id \in Ids
  BY ElementsType DEF LoadInv
<1>4. TicketOf(subs.of)' = TicketOf(id)
  BY <1>1, <1>2 DEF TicketOf, Elements
<1>5. SplitsStayInside'
  BY <1>2, <1>4, PartsStayInside DEF SplitsStayInside
<1>6. CyclesAreReal'
  BY <1>1 DEF CyclesAreReal
<1>7. /\ stage \in Loading
      /\ file' \in Plan /\ ValidTickets(file'.tickets)
      /\ DepthFirst(Needs, order'.roots, order'.stack, order'.ordered)
  BY <1>1 DEF LoadInv, Loading
<1>8. QED
  BY <1>1, <1>2, <1>3, <1>5, <1>6, <1>7, SameNeeds DEF LoadInv

\* What the run loop is given is in the order it assumes.
LEMMA OrderedIsInOrder == LoadInv => LoadsInOrder
<1> SUFFICES ASSUME LoadInv, stage \in {"loaded", "split"}
             PROVE  LET o == order.ordered IN
                    /\ Elements(o) = IdsOf(file.tickets) /\ Len(o) = Len(file.tickets)
                    /\ \A k \in DOMAIN o :
                         Elements(NeedsOf(o[k])) \subseteq Elements(SubSeq(o, 1, k - 1))
  BY DEF LoadsInOrder
<1> DEFINE o == order.ordered
<1>1. /\ file \in Plan /\ ValidTickets(file.tickets)
      /\ DepthFirst(Needs, <<>>, <<>>, o) /\ o \in Seq(Ids)
  BY DEF LoadInv, Loading
<1>2. /\ DOMAIN Needs = IdsOf(file.tickets)
      /\ \A n \in DOMAIN Needs : Needs[n] = Elements(NeedsOf(n))
  BY <1>1, NeedsInside
<1>3. Len(o) \in Nat /\ DOMAIN o = 1..Len(o)
  BY <1>1, LenProperties
<1>4. Elements(o) = IdsOf(file.tickets)
  <2>1. Elements(o) \subseteq DOMAIN Needs
    BY <1>1 DEF DepthFirst, Sorted
  <2>2. Reached(Needs, <<>>, <<>>, o)
    BY <1>1 DEF DepthFirst
  <2>3. DOMAIN Needs \subseteq Elements(o)
    BY <2>2, ElementsEmpty DEF Reached
  <2>4. QED
    BY <1>2, <2>1, <2>3
<1>5. Cardinality(Elements(o)) = Len(o)
  BY <1>1, DistinctElements DEF DepthFirst, Sorted
<1>6. Len(o) = Len(file.tickets)
  BY <1>1, <1>4, <1>5 DEF ValidTickets
<1>7. ASSUME NEW k \in 1..Len(o), NEW n \in Elements(NeedsOf(o[k]))
      PROVE  n \in Elements(SubSeq(o, 1, k - 1))
  <2>1. o[k] \in DOMAIN Needs
    BY <1>1, <1>2, <1>4, ElementsType
  <2>2. n \in Needs[o[k]]
    BY <1>2, <1>7, <2>1
  <2>3. PICK j \in 1..(k - 1) : o[j] = n
    BY <1>1, <2>2 DEF DepthFirst, Sorted
  <2>4. k - 1 \in 0..Len(o)
    BY <1>3
  <2>5. /\ SubSeq(o, 1, k - 1) \in Seq(Ids) /\ Len(SubSeq(o, 1, k - 1)) = k - 1
        /\ SubSeq(o, 1, k - 1)[j] = n
    BY <1>1, <2>3, <2>4, FrontProperties
  <2>6. QED
    BY <2>5, ElementsType
<1>8. QED
  BY <1>3, <1>4, <1>6, <1>7

---------------------------------------------------------------------------
(* The theorems *)

Inv == WorkInv /\ LoadInv

LEMMA NextKeepsWork == Inv /\ [Next]_vars => WorkInv'
<1> SUFFICES ASSUME WorkInv, LoadInv, [Next]_vars PROVE WorkInv'
  BY DEF Inv
<1>1. CASE \E c \in Commands, b \in Briefs, r \in Records : Begin(c, b, r)
  BY <1>1, BeginWork
<1>2. CASE AnswerSkeleton
  BY <1>2, SkeletonWork
<1>3. CASE EnrichBatch
  BY <1>3, EnrichWork
<1>4. CASE Assemble
  BY <1>4, AssembleWork
<1>5. CASE ResolveProofGap
  BY <1>5, ResolveWork
<1>6. CASE Validate
  BY <1>6, ValidateWork
<1>7. CASE SingleShot
  BY <1>7, SingleWork
<1>8. CASE Approve
  <2>1. CASE UNCHANGED file
    BY <1>8, <2>1, WorkRests DEF Approve, Resting, Working, WorkInv
  <2>2. CASE file' = Torn /\ stage' = "failed"
    <3>1. stage \notin Working /\ stage' \notin Working /\ stage # "single"
      BY <1>8, <2>2 DEF Approve, Working
    <3>2. ProofFits'
      BY <2>2, PlanningConstants DEF ProofFits
    <3>3. QED
      BY <1>8, <2>2, <3>1, <3>2 DEF Approve, WorkInv, work, Working, Resting
  <2>3. QED
    BY <1>8, <2>1, <2>2 DEF Approve
<1>9. CASE LoadPlan
  BY <1>9, WorkRests DEF LoadPlan, Resting, Working, Loading, WorkInv
<1>10. CASE VisitRoot
  BY <1>10, WorkRests DEF VisitRoot, Working, Loading, WorkInv
<1>11. CASE VisitDependency
  BY <1>11, WorkRests DEF VisitDependency, Resting, Working, Loading, WorkInv
<1>12. CASE LeaveTicket
  BY <1>12, WorkRests DEF LeaveTicket, Working, Loading, WorkInv
<1>13. CASE Ordered
  BY <1>13, WorkRests DEF Ordered, Working, Loading, WorkInv
<1>14. CASE \E id \in Elements(order.ordered), raws \in SubAnswers : Split(id, raws)
  BY <1>14, WorkRests DEF Split, Working, Loading, WorkInv
<1>15. CASE EndRun
  BY <1>15, WorkRests DEF EndRun, Resting, Working, Loading, WorkInv
<1>16. CASE UNCHANGED vars
  BY <1>16 DEF vars, work, WorkInv, ProofFits
<1>17. QED
  BY <1>1, <1>2, <1>3, <1>4, <1>5, <1>6, <1>7, <1>8, <1>9, <1>10, <1>11, <1>12,
     <1>13, <1>14, <1>15, <1>16 DEF Next

LEMMA NextKeepsLoad == Inv /\ [Next]_vars => LoadInv'
<1> SUFFICES ASSUME WorkInv, LoadInv, [Next]_vars PROVE LoadInv'
  BY DEF Inv
<1>1. subs.of \in Ids \cup {None}
  BY DEF LoadInv
<1>2. ASSUME NEW c \in Commands, NEW b \in Briefs, NEW r \in Records, Begin(c, b, r)
      PROVE  LoadInv'
  BY <1>1, <1>2, LoadCleared DEF Begin, Loading
<1>3. CASE \/ AnswerSkeleton \/ EnrichBatch \/ Assemble \/ ResolveProofGap
           \/ Validate \/ SingleShot \/ Approve
  <2>1. UNCHANGED <<order, subs>>
    BY <1>3 DEF AnswerSkeleton, EnrichBatch, Assemble, ResolveProofGap, Validate,
                SingleShot, Approve
  <2>2. stage' \notin Loading \cup {"refused"}
    BY <1>3 DEF AnswerSkeleton, EnrichBatch, Assemble, ResolveProofGap, Validate,
                SingleShot, Approve, Fail, Write, Loading
  <2>3. QED
    BY <2>1, <2>2, LoadRests
<1>4. CASE LoadPlan
  BY <1>4, PlanLoad DEF WorkInv
<1>5. CASE VisitRoot
  BY <1>5, RootLoad
<1>6. CASE VisitDependency
  BY <1>6, DependencyLoad
<1>7. CASE LeaveTicket
  BY <1>7, LeaveLoad
<1>8. CASE Ordered
  BY <1>8, OrderedLoad
<1>9. ASSUME NEW id \in Elements(order.ordered), NEW raws \in SubAnswers, Split(id, raws)
      PROVE  LoadInv'
  BY <1>9, SplitLoad
<1>10. CASE EndRun
  <2>1. order' = NoOrder /\ stage' \notin Loading /\ subs'.of \in Ids \cup {None}
    BY <1>10 DEF EndRun, NoSplit, Loading
  <2>2. QED
    BY <2>1, LoadCleared
<1>11. CASE UNCHANGED vars
  <2>1. UNCHANGED <<stage, order, subs, file>>
    BY <1>11 DEF vars
  <2>2. CyclesAreReal' /\ SplitsStayInside'
    BY <2>1, SameCycle, SameSplit DEF LoadInv, CyclesAreReal
  <2>3. QED
    BY <2>1, <2>2, SameNeeds DEF LoadInv
<1>12. QED
  BY <1>2, <1>3, <1>4, <1>5, <1>6, <1>7, <1>8, <1>9, <1>10, <1>11 DEF Next

LEMMA AlwaysInv == Spec => []Inv
<1>1. Init => Inv
  BY InitWork, InitLoad DEF Inv
<1>2. Inv /\ [Next]_vars => Inv'
  BY NextKeepsWork, NextKeepsLoad DEF Inv
<1>3. QED
  BY <1>1, <1>2, PTL DEF Spec

\* Every variable keeps its type, calls and rounds stay within their limits,
\* and the work of a planning command is gone when none is in progress: for
\* any answers of a model and any plan the operator may write.
THEOREM TypesKept == Spec => []TypeOK
<1>1. Inv => TypeOK
  BY DEF Inv, WorkInv, LoadInv, TypeOK, Resting, Working
<1>2. QED
  BY <1>1, AlwaysInv, PTL

\* A plan load_plan accepts is handed to the run loop whole, once per ticket
\* and every one behind what it needs; one it refuses for a cycle has that
\* cycle; a split never leaves its ticket: for plans of any size.
THEOREM PlansAreRunnable == Spec => []PlanIsRunnable
<1>1. Inv => PlanIsRunnable
  BY OrderedIsInOrder DEF Inv, LoadInv, PlanIsRunnable
<1>2. QED
  BY <1>1, AlwaysInv, PTL

\* A plan of the three stages has the proof of its own mode and strategy, and
\* says what the operator answered, whatever the brief's keywords, the repair
\* and the coder's proof make of it.
THEOREM ProofsFit == Spec => []ProofFits
<1>1. Inv => ProofFits
  BY DEF Inv, WorkInv
<1>2. QED
  BY <1>1, AlwaysInv, PTL
=============================================================================
