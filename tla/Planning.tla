------------------------------ MODULE Planning ------------------------------
(***************************************************************************)
(* From a brief to the tickets a run executes: the clarification gate of   *)
(* saturnday plan, plan-confirm and start, the three stages of             *)
(* planner.generate_plan with their fallbacks, the approval gate,          *)
(* plan_parser.load_plan with its depth-first ordering, and the parser of  *)
(* the splitter's answers.  What is on disk in between is plan.json, which *)
(* the operator may write as well.                                         *)
(*                                                                         *)
(* A model answers with any of the tickets, plans and splits the constants *)
(* allow.  A ticket is what validation and ordering read of it; a product  *)
(* is what the plan says of the thing to build and of its proof, where a   *)
(* proof is known by who made it and for which mode and strategy.          *)
(***************************************************************************)
EXTENDS Naturals, Sequences, FiniteSets

CONSTANTS
  SubIds,     \* ids of sub-tickets within their ticket
  Files,      \* the repository's paths; as a scope, "**"
  Skeletons,  \* the ticket lists stage 1 may answer
  Answers,    \* the ticket lists a call of stage 2 may answer
  SubAnswers, \* the sub-ticket lists the splitter may be given
  Written,    \* plans of the operator or of the single-shot planner
  Briefs,     \* what the keyword scans make of a brief
  Records,    \* clarification records
  Commands,   \* subset of {"plan", "plan-confirm", "start"}
  BatchSize,  \* _ENRICH_BATCH_SIZE
  MaxTries,   \* calls per batch
  MaxRounds,  \* MAX_PLANNER_ROUNDS
  MaxSubs,    \* _MAX_SUB_TICKETS
  MaxPlans,   \* bound: planning commands in a behaviour
  None, Torn

\* Ticket ids, T001 as 1.
Ids == Nat

Modes      == {"library", "cli_tool", "web_service", "worker", "pipeline",
               "frontend", "storage_only"}
Profiles   == {"self_contained", "local_dependencies", "external_dependencies"}
Realisms   == {"production_intent", "seeded_demo"}
Strategies == {"live_credentials_gated", "local_emulator", "oss_substitute",
               "generated_fake", "seeded_demo", "recorded_fixture"}
Sources    == {"none", "clarification_strategy", "planner_heuristic",
               "planner_gap", "coder_plan_time"}

Ticket == [id : Ids \cup {None}, goal : BOOLEAN, criteria : BOOLEAN,
           needs : Seq(Ids), scope : SUBSET Files]

Proof == [by : {"nobody", "gap", "template", "strategy", "coder", "operator"},
          mode : Modes \cup {None}, strategy : Strategies \cup {None}]

Product == [mode : Modes \cup {"legacy_unclassified"}, profile : Profiles,
            realism : Realisms, strategy : Strategies \cup {None},
            externals : BOOLEAN, seed : BOOLEAN, disclaimer : BOOLEAN,
            acceptance : BOOLEAN, live : BOOLEAN, proof : Proof,
            source : Sources]

\* What the operator answered: None where a question was not asked or left
\* empty, "other" for an answer the planner does not know.  "unanswered" in
\* the first field stands for any blocking question nobody was there to answer.
Record == [mode : Modes \cup {None, "other", "unanswered"},
           intent : {None, "demo", "production_intent"},
           external : {None, "live_integration", "local_fake", "mock_only_test"},
           strategy : Strategies \cup {None, "other"}]

Plan == [tickets : Seq(Ticket), phases : SUBSET (Ids \cup {None}),
         product : Product, record : Record \cup {None}]

RawSub == [id : SubIds \cup {None}, goal : BOOLEAN, files : SUBSET Files,
           named : SUBSET Files, after : SUBSET SubIds]

NoAnswers == [mode |-> None, intent |-> None, external |-> None, strategy |-> None]

ASSUME PlanningConstants ==
  /\ SubIds \subseteq Nat \ {0}
  /\ Skeletons \subseteq Seq(Ticket) \ {<<>>} /\ Answers \subseteq Seq(Ticket)
  /\ SubAnswers \subseteq Seq(RawSub)
  /\ Written \subseteq Plan /\ \A p \in Written : p.record = None
  /\ Briefs \subseteq [mode : Modes, profile : Profiles, realism : Realisms]
  /\ Records \subseteq Record
  /\ Commands \subseteq {"plan", "plan-confirm", "start"}
  /\ BatchSize \in Nat \ {0} /\ MaxTries \in Nat \ {0} /\ MaxRounds \in Nat
  /\ MaxSubs \in Nat /\ MaxPlans \in Nat
  /\ None \notin Ids \cup SubIds \cup Plan \cup Modes \cup Strategies
  /\ Torn \notin Plan /\ Torn # None

VARIABLES
  stage,    \* where the command in progress stands, or how the last one ended
  command,  \* plan, plan-confirm, start or run
  brief, record,   \* what planning was given
  skeleton, pos,   \* tickets of stage 1, and the first of the current batch
  tries,           \* failed calls for the batch, or rounds of the single shot
  enriched,        \* enriched_tickets
  plan,            \* the plan being assembled
  order,    \* resolve_ticket_order: roots to visit, the stack, what is ordered
  subs,     \* sub-tickets of the ticket a run is splitting
  file,     \* plan.json: a Plan, None or Torn
  planned   \* planning commands so far

work == <<brief, record, skeleton, pos, tries, enriched, plan>>
vars == <<stage, command, work, order, subs, file, planned>>

Elements(s) == {s[k] : k \in DOMAIN s}
IdsOf(ts) == {ts[k].id : k \in DOMAIN ts}
NoOrder == [roots |-> <<>>, stack |-> <<>>, ordered |-> <<>>]
NoSplit == [of |-> None, into |-> <<>>]
Resting == {"idle", "planned", "failed", "refused", "aborted"}
Working == {"skeleton", "enrich", "resolve", "validate", "single"}
Loading == {"order", "loaded", "split"}

---------------------------------------------------------------------------
(* The product of a plan *)

\* _generate_local_proof_cmd: two modes have a convention to rely on, for the
\* others the proof is an honest gap that fails when it is run.
DefaultProof(m) ==
  [by |-> IF m \in {"pipeline", "storage_only"} THEN "template" ELSE "gap",
   mode |-> m, strategy |-> None]

NeedsDisclaimer(p) ==
  \/ p.realism = "seeded_demo"
  \/ p.mode = "storage_only"
  \/ p.profile = "external_dependencies"

FromBrief(b) ==
  [mode |-> b.mode, profile |-> b.profile, realism |-> b.realism,
   strategy |-> None, externals |-> b.profile = "external_dependencies",
   seed |-> b.realism = "seeded_demo", disclaimer |-> NeedsDisclaimer(b),
   acceptance |-> FALSE, live |-> FALSE, proof |-> DefaultProof(b.mode),
   source |-> "none"]

\* The strategies with a proof template for a mode.
Templates(m) ==
  {"live_credentials_gated"} \cup
    CASE m \in {"web_service", "cli_tool"} -> Strategies
      [] m = "worker"   -> Strategies \ {"recorded_fixture"}
      [] m = "pipeline" -> {"local_emulator", "oss_substitute", "seeded_demo"}
      [] m = "library"  -> {"generated_fake", "recorded_fixture"}
      [] OTHER          -> {}

Seeded(p) == [p EXCEPT !.realism = "seeded_demo", !.seed = TRUE, !.disclaimer = TRUE]

\* A strategy is recorded, and replaces the proof where it has a template.
Strategised(p, s) ==
  IF s \in Templates(p.mode)
  THEN [p EXCEPT !.strategy = s, !.source = "clarification_strategy",
                 !.proof = [by |-> "strategy", mode |-> p.mode, strategy |-> s]]
  ELSE [p EXCEPT !.strategy = s]

WithMode(p, a) ==
  IF a \in Modes \ {p.mode} THEN [p EXCEPT !.mode = a, !.proof = DefaultProof(a)] ELSE p

WithIntent(p, a) ==
  CASE a = "demo" -> Seeded(p)
    [] a = "production_intent" -> [p EXCEPT !.realism = "production_intent"]
    [] OTHER -> p

WithExternal(p, a) ==
  IF a \in {"live_integration", "local_fake"}
  THEN [p EXCEPT !.profile = "external_dependencies", !.externals = TRUE,
                 !.disclaimer = TRUE]
  ELSE p

WithStrategy(p, a) ==
  CASE a = "seeded_demo" -> Strategised(Seeded(p), a)
    [] a \in Strategies \ {"seeded_demo"} -> Strategised(p, a)
    [] OTHER -> p

\* A local fake asked for without a strategy is the strategy generated_fake.
WithFake(p, r) ==
  IF r.strategy = None /\ r.external = "local_fake"
  THEN Strategised(p, "generated_fake") ELSE p

ApplyClarificationAnswers(p, r) ==
  LET q == WithExternal(WithIntent(WithMode(p, r.mode), r.intent), r.external)
  IN  WithFake(WithStrategy(q, r.strategy), r)

\* Of the proofs the planner makes itself, the meaningfulness rules reject
\* three stubs that never call the product and the library's replay script.
Meaningful(p) ==
  \/ p.proof.by # "strategy"
  \/ /\ p.proof.strategy = "live_credentials_gated"
        => p.mode \notin {"library", "web_service", "frontend"}
     /\ p.proof.strategy = "recorded_fixture" => p.mode # "library"

ValidProduct(p) ==
  /\ p.mode \in Modes => p.proof.by # "nobody" /\ ~p.acceptance
  /\ p.mode \notin Modes => p.proof.by = "nobody"
  /\ p.externals <=> p.profile = "external_dependencies"
  /\ p.live => p.profile = "external_dependencies"
  /\ p.realism = "seeded_demo" => p.seed
  /\ p.strategy \in Strategies \ {"seeded_demo"} => p.profile # "self_contained"
  /\ p.strategy = "seeded_demo" => p.realism = "seeded_demo"
  /\ NeedsDisclaimer(p) => p.disclaimer
  /\ Meaningful(p)

ValidTickets(ts) ==
  /\ ts # <<>>
  /\ Cardinality(IdsOf(ts)) = Len(ts)
  /\ \A t \in Elements(ts) : /\ t.id # None /\ t.goal /\ t.criteria
                             /\ Elements(t.needs) \subseteq IdsOf(ts)

\* validate_plan; a phase may only name tickets of the plan.
ValidPlan(p) ==
  /\ ValidTickets(p.tickets)
  /\ p.phases \subseteq IdsOf(p.tickets)
  /\ ValidProduct(p.product)

---------------------------------------------------------------------------
(* Planning *)

NoWork ==
  /\ brief' = None /\ record' = None /\ skeleton' = <<>> /\ pos' = 1
  /\ tries' = 0 /\ enriched' = <<>> /\ plan' = None

Init ==
  /\ stage = "idle" /\ command = "none"
  /\ brief = None /\ record = None /\ skeleton = <<>> /\ pos = 1
  /\ tries = 0 /\ enriched = <<>> /\ plan = None
  /\ order = NoOrder /\ subs = NoSplit
  /\ file \in Written \cup {None} /\ planned = 0

\* plan and plan-confirm ask first; plan without a terminal refuses when a
\* blocking question has no answer.  start plans without asking.
Begin(c, b, r) ==
  /\ stage \in Resting /\ planned < MaxPlans
  /\ c = "start" => r = NoAnswers
  /\ c = "plan-confirm" => r.mode # "unanswered"
  /\ planned' = planned + 1 /\ command' = c /\ order' = NoOrder
  /\ IF r.mode = "unanswered"
     THEN stage' = "refused" /\ UNCHANGED work
     ELSE /\ stage' = "skeleton" /\ brief' = b /\ record' = r
          /\ UNCHANGED <<skeleton, pos, tries, enriched, plan>>
  /\ UNCHANGED <<subs, file>>

Fail == stage' = "failed" /\ NoWork /\ UNCHANGED file

\* plan is done with the file, the others ask for approval now.  A crash in
\* the middle leaves one that does not parse.
Write(p) ==
  /\ NoWork
  /\ \/ file' = p /\ stage' = IF command = "plan" THEN "planned" ELSE "gate"
     \/ file' = Torn /\ stage' = "failed"

\* Stage 1.  A call that fails or brings no tickets leads to the single-shot
\* planner, a bare list to an exception.
AnswerSkeleton ==
  /\ stage = "skeleton"
  /\ \/ /\ skeleton' \in Skeletons /\ stage' = "enrich"
        /\ UNCHANGED <<brief, record, pos, tries, enriched, plan, file>>
     \/ /\ stage' = "single"
        /\ UNCHANGED <<work, file>>
     \/ Fail
  /\ UNCHANGED <<command, order, subs, planned>>

Batch == SubSeq(skeleton, pos, IF pos + BatchSize > Len(skeleton)
                               THEN Len(skeleton) ELSE pos + BatchSize - 1)

\* Mutant: one call more than a batch may have.
Bug_LastTry == tries = MaxTries

LastTry == tries + 1 = MaxTries

\* Stage 2, a call for one batch: any list is taken as it is; after MaxTries
\* calls without one the batch stays as stage 1 had it.
EnrichBatch ==
  /\ stage = "enrich" /\ pos <= Len(skeleton)
  /\ \/ /\ \E a \in Answers : enriched' = enriched \o a
        /\ pos' = pos + BatchSize /\ tries' = 0
     \/ /\ ~LastTry
        /\ tries' = tries + 1 /\ UNCHANGED <<enriched, pos>>
     \/ /\ LastTry
        /\ enriched' = enriched \o Batch
        /\ pos' = pos + BatchSize /\ tries' = 0
  /\ UNCHANGED <<stage, command, brief, record, skeleton, plan, order, subs,
                 file, planned>>

\* Stage 3.  Phases are made of the ids as they are now, before any repair.
Assemble ==
  /\ stage = "enrich" /\ pos > Len(skeleton)
  /\ plan' = [tickets |-> enriched, phases |-> IdsOf(enriched), record |-> record,
              product |-> ApplyClarificationAnswers(FromBrief(brief), record)]
  /\ stage' = "resolve" /\ skeleton' = <<>> /\ enriched' = <<>>
  /\ pos' = 1 /\ brief' = None
  /\ UNCHANGED <<command, record, tries, order, subs, file, planned>>

Resolvable == {"library", "cli_tool", "web_service"}

\* Mutant: the coder's proof replaces whatever is there.
Bug_IsGap(p) == TRUE

IsGap(p) == p.proof.by = "gap"

\* resolve_proof_gap: a gap of three modes is filled with the coder's command,
\* if that passes the rules for the mode.  The source is overwritten anyway.
ResolveProofGap ==
  LET p == plan.product IN
  /\ stage = "resolve"
  /\ \/ /\ ~IsGap(p)
        /\ plan' = [plan EXCEPT !.product.source = "planner_heuristic"]
     \/ /\ IsGap(p)
        /\ plan' = [plan EXCEPT !.product.source = "planner_gap"]
     \/ /\ IsGap(p) /\ p.mode \in Resolvable
        /\ plan' = [plan EXCEPT !.product.source = "coder_plan_time",
                      !.product.proof = [by |-> "coder", mode |-> p.mode,
                                         strategy |-> None]]
  /\ stage' = "validate"
  /\ UNCHANGED <<command, brief, record, skeleton, pos, tries, enriched, order,
                 subs, file, planned>>

\* The one repair of common mistakes: an id from the position, a goal from
\* the title.  Phases keep the empty id.
RepairedTicket(t, k) == [t EXCEPT !.id = IF @ = None THEN k ELSE @, !.goal = TRUE]

Repaired(p) ==
  [p EXCEPT !.tickets = [k \in DOMAIN @ |-> RepairedTicket(@[k], k)]]

\* A plan that is valid, at once or repaired, is written.
Validate ==
  LET p == IF ValidPlan(plan) THEN plan ELSE Repaired(plan) IN
  /\ stage = "validate"
  /\ \/ ValidPlan(p) /\ Write(p)
     \/ ~ValidPlan(p) /\ Fail
  /\ UNCHANGED <<command, order, subs, planned>>

\* The single-shot planner: a whole plan per round, written when it is valid.
\* The operator's answers are not part of it.
SingleShot ==
  /\ stage = "single"
  /\ \/ /\ tries < MaxRounds
        /\ \E p \in Written : ValidPlan(p) /\ Write(p)
     \/ /\ tries < MaxRounds
        /\ tries' = tries + 1
        /\ UNCHANGED <<stage, brief, record, skeleton, pos, enriched, plan, file>>
     \/ Fail
  /\ UNCHANGED <<command, order, subs, planned>>

\* The definition-of-done gate; the plan is on disk by now.  Edited outcomes
\* rewrite the file, which a crash may cut short.
Approve ==
  /\ stage = "gate"
  /\ \/ /\ stage' \in {IF command = "start" THEN "load" ELSE "planned", "aborted"}
        /\ UNCHANGED file
     \/ file' = Torn /\ stage' = "failed"
  /\ UNCHANGED <<command, work, order, subs, planned>>

---------------------------------------------------------------------------
(* Loading *)

TicketOf(id) == CHOOSE t \in Elements(file.tickets) : t.id = id
NeedsOf(id)  == TicketOf(id).needs
Frames       == [id : Ids, left : Seq(Ids)]
Frame(id)    == [id |-> id, left |-> NeedsOf(id)]

Top == order.stack[Len(order.stack)]
Below == SubSeq(order.stack, 1, Len(order.stack) - 1)
Skip == Append(Below, [Top EXCEPT !.left = Tail(@)])

\* A run, or start behind its gate, loads plan.json: it is validated again,
\* then ordered from the tickets as they stand in it.
LoadPlan ==
  /\ stage \in Resting \cup {"load"} /\ file # None
  /\ command' = IF stage = "load" THEN command ELSE "run"
  /\ IF file # Torn /\ ValidPlan(file)
     THEN /\ stage' = "order"
          /\ order' = [NoOrder EXCEPT !.roots = [k \in DOMAIN file.tickets |-> file.tickets[k].id]]
     ELSE stage' = "refused" /\ order' = NoOrder
  /\ UNCHANGED <<work, subs, file, planned>>

InStack(id) == \E k \in DOMAIN order.stack : order.stack[k].id = id

\* Mutant: a ticket counts as visited from the moment it is entered.
Bug_Visited(id) == id \in Elements(order.ordered) \/ InStack(id)

Visited(id) == id \in Elements(order.ordered)

VisitRoot ==
  /\ stage = "order" /\ order.stack = <<>> /\ order.roots # <<>>
  /\ LET id == Head(order.roots) IN
     order' = [order EXCEPT !.roots = Tail(@),
                 !.stack = IF Visited(id) THEN @ ELSE <<Frame(id)>>]
  /\ UNCHANGED <<stage, command, work, subs, file, planned>>

\* A dependency is passed over when it was visited, a cycle when it is in the
\* stack, and visited next otherwise.
VisitDependency ==
  /\ stage = "order" /\ order.stack # <<>> /\ Top.left # <<>>
  /\ LET id == Head(Top.left) IN
     \/ /\ Visited(id)
        /\ order' = [order EXCEPT !.stack = Skip] /\ UNCHANGED stage
     \/ /\ ~Visited(id) /\ InStack(id)
        /\ stage' = "refused" /\ UNCHANGED order
     \/ /\ ~Visited(id) /\ ~InStack(id)
        /\ order' = [order EXCEPT !.stack = Append(Skip, Frame(id))] /\ UNCHANGED stage
  /\ UNCHANGED <<command, work, subs, file, planned>>

LeaveTicket ==
  /\ stage = "order" /\ order.stack # <<>> /\ Top.left = <<>>
  /\ order' = [order EXCEPT !.stack = Below, !.ordered = Append(@, Top.id)]
  /\ UNCHANGED <<stage, command, work, subs, file, planned>>

Ordered ==
  /\ stage = "order" /\ order.stack = <<>> /\ order.roots = <<>>
  /\ stage' = "loaded"
  /\ UNCHANGED <<command, work, order, subs, file, planned>>

---------------------------------------------------------------------------
(* Splitting *)

\* Positions of the answer that are kept: the first few, if they have a goal.
Kept(raws) == {k \in DOMAIN raws : k <= MaxSubs /\ raws[k].goal}

KeptBefore(raws, k) == {j \in Kept(raws) : j < k}

\* Files of the answer, and those its goal names that they do not cover.
Candidate(raw) == raw.files \cup raw.named

SubId(raws, k) ==
  IF raws[k].id = None THEN Cardinality(KeptBefore(raws, k)) + 1 ELSE raws[k].id

Escapes(t, raw) == ~ Candidate(raw) \subseteq t.scope

\* _parse_split_response: the ticket stays whole when fewer than two parts are
\* left or one of them would write outside its scope.  A part without files
\* has the ticket's scope; it waits for what the ticket needs and for those
\* earlier parts it names.
ParseSplit(t, raws) ==
  IF \/ Len(raws) < 2 \/ Cardinality(Kept(raws)) < 2
     \/ \E k \in Kept(raws) : Escapes(t, raws[k])
  THEN <<>>
  ELSE [k \in Kept(raws) |->
         [id |-> SubId(raws, k),
          scope |-> IF Candidate(raws[k]) = {} THEN t.scope ELSE Candidate(raws[k]),
          named |-> raws[k].named,
          outer |-> Elements(t.needs),
          inner |-> raws[k].after \cap {SubId(raws, j) : j \in KeptBefore(raws, k)}]]

\* analyze_and_split, before a ticket or as a last resort.
Split(id, raws) ==
  /\ stage \in {"loaded", "split"}
  /\ subs' = [of |-> id, into |-> ParseSplit(TicketOf(id), raws)]
  /\ stage' = "split"
  /\ UNCHANGED <<command, work, order, file, planned>>

EndRun ==
  /\ stage \in {"loaded", "split"}
  /\ stage' = "idle" /\ order' = NoOrder /\ subs' = NoSplit
  /\ UNCHANGED <<command, work, file, planned>>

Next ==
  \/ \E c \in Commands, b \in Briefs, r \in Records : Begin(c, b, r)
  \/ AnswerSkeleton \/ EnrichBatch \/ Assemble \/ ResolveProofGap
  \/ Validate \/ SingleShot \/ Approve
  \/ LoadPlan \/ VisitRoot \/ VisitDependency \/ LeaveTicket \/ Ordered
  \/ \E id \in Elements(order.ordered), raws \in SubAnswers : Split(id, raws)
  \/ EndRun

Spec == Init /\ [][Next]_vars

---------------------------------------------------------------------------
(* Properties *)

\* Every variable keeps its type, calls and rounds stay within their limits,
\* and the work of a planning command is gone when none is in progress.
TypeOK ==
  /\ stage \in Resting \cup Working \cup {"gate", "load"} \cup Loading
  /\ command \in {"none", "plan", "plan-confirm", "start", "run"}
  /\ brief \in Briefs \cup {None} /\ record \in Records \cup {None}
  /\ skeleton \in Skeletons \cup {<<>>} /\ pos \in Nat \ {0}
  /\ tries \in Nat /\ (tries < MaxTries \/ (stage = "single" /\ tries <= MaxRounds))
  /\ enriched \in Seq(Ticket) /\ plan \in Plan \cup {None}
  /\ order \in [roots : Seq(Ids), stack : Seq(Frames), ordered : Seq(Ids)]
  /\ subs.of \in Ids \cup {None}
  /\ file \in Plan \cup {None, Torn} /\ planned \in 0..MaxPlans
  /\ stage \in Resting => <<brief, record, plan>> = <<None, None, None>>

\* What load_plan returns is what the run loop assumes of it: the tickets of
\* plan.json, each once, every one behind all it depends on.
LoadsInOrder ==
  stage \in {"loaded", "split"} =>
    LET o == order.ordered IN
    /\ Elements(o) = IdsOf(file.tickets) /\ Len(o) = Len(file.tickets)
    /\ \A k \in DOMAIN o : Elements(NeedsOf(o[k])) \subseteq Elements(SubSeq(o, 1, k - 1))

\* From the ticket found again each entry of the stack needs the one above
\* it, and the last needs the first.
OnACycle ==
  LET s == order.stack IN
  \E k \in DOMAIN s :
    /\ s[k].id = Head(Top.left) /\ s[k].id \in Elements(NeedsOf(Top.id))
    /\ \A j \in k..(Len(s) - 1) : s[j + 1].id \in Elements(NeedsOf(s[j].id))

\* A valid plan is only refused for a cycle that is really in it.
CyclesAreReal == stage = "refused" /\ order.stack # <<>> => OnACycle

\* A split never widens what the operator allowed: each part writes within
\* the ticket's scope, may write every path its own goal names, waits for all
\* the ticket waits for, and within the ticket only for earlier parts.
SplitsStayInside ==
  stage = "split" =>
    LET t == TicketOf(subs.of) IN
    \A k \in DOMAIN subs.into :
      LET part == subs.into[k] IN
      /\ part.scope \subseteq t.scope /\ part.named \subseteq part.scope
      /\ part.outer = Elements(t.needs)
      /\ part.inner \subseteq {subs.into[j].id : j \in {i \in DOMAIN subs.into : i < k}}

\* What the run loop is given can be run: whoever wrote plan.json, and
\* whatever a model answers for a split (plan_parser.py:983,
\* ticket_splitter.py:246).
PlanIsRunnable == LoadsInOrder /\ CyclesAreReal /\ SplitsStayInside

\* The proof is one for the product's mode and strategy.
ProofIsFor(p) ==
  /\ p.proof.mode = p.mode
  /\ p.proof.by = "strategy" => p.proof.strategy = p.strategy
  /\ p.strategy # None => (p.proof.by = "strategy" <=> p.strategy \in Templates(p.mode))

\* The product is the one the answers ask for.
AnswersCount(p, r) ==
  /\ r.mode \in Modes => p.mode = r.mode
  /\ r.external \in {"live_integration", "local_fake"} => p.profile = "external_dependencies"
  /\ r.strategy \in Strategies => p.strategy = r.strategy
  /\ (r.strategy = None /\ r.external = "local_fake") => p.strategy = "generated_fake"
  /\ (r.intent = "demo" \/ r.strategy = "seeded_demo") => p.realism = "seeded_demo"
  /\ (r.intent = "production_intent" /\ r.strategy # "seeded_demo")
       => p.realism = "production_intent"

\* In a plan of the three stages the proof is one for the plan's mode and
\* strategy, and what the operator answered is what the plan says: five steps
\* write these fields one after another, and neither the brief's keywords nor
\* the coder's proof may win over an answer (planner.py:353, 1785).
ProofFits ==
  file \in Plan /\ file.record # None =>
    ProofIsFor(file.product) /\ AnswersCount(file.product, file.record)
=============================================================================
