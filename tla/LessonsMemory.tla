--------------------------- MODULE LessonsMemory ---------------------------
(***************************************************************************)
(* The lessons database, one per user: runs in several target repositories *)
(* write what failed tickets teach into its tables, retire what has become *)
(* stale, merge duplicates, count how often a rule fires and promote rules *)
(* (run/lessons.py, memory_retrieval.py, memory_enforcement.py and their   *)
(* calls in ticket_runner.py).  Each step is what a process does between   *)
(* two of its SQLite transactions, so runs interleave as the file lets     *)
(* them.  The memory provider is registered; without it nothing is stored. *)
(*                                                                         *)
(* An item is numbered by its created_at; its stale_after, 30 days later,  *)
(* passes in the same order.  Prompts are not modelled: what retrieval     *)
(* ranks is any few of the active items.                                   *)
(***************************************************************************)
EXTENDS Naturals, FiniteSets

CONSTANTS
  Procs,      \* the runs that share the database, each in a repository
  Files,      \* paths, relative to the repository
  Trees,      \* what a repository may hold
  Touched,    \* the changed files of a failing ticket: [primary, files]
  Kinds,      \* failure_mode and root_cause of an item
  Tickets,    \* ticket ids; a rule is named for the ticket's
  PromoteAt,  \* triggers that make a candidate active (3)
  MergeLimit, \* _DEDUP_LIMIT
  TopK,       \* items of a prompt
  MaxBefore,  \* bound: items of earlier runs
  MaxItems,   \* bound: items created
  MaxFired,   \* bound: triggers of a rule
  MaxRuns,    \* bound: runs started
  None        \* no item, rule, file or keeper

Ids == 1..MaxItems
Item == [kind : Kinds, primary : Files \cup {None}, files : SUBSET Files,
         status : {"active", "stale", "superseded"}, by : Ids \cup {None}]
Rule == [status : {"candidate", "active", "enforced"}, triggers : 0..MaxFired]
Pending == [id : Ids, kind : Kinds, touched : Touched, ticket : Tickets,
            severe : BOOLEAN]

ASSUME MemoryConstants ==
  /\ {PromoteAt, MergeLimit, TopK, MaxItems, MaxFired, MaxRuns} \subseteq Nat
  /\ MaxBefore \in 0..MaxItems
  /\ Trees \subseteq SUBSET Files
  /\ Touched \subseteq [primary : Files \cup {None}, files : SUBSET Files]
  /\ \A t \in Touched : IF t.files = {} THEN t.primary = None ELSE t.primary \in t.files
  /\ None \notin Files \cup Tickets \cup Nat \cup Item \cup Rule \cup Pending

VARIABLES
  tree,    \* the files of each run's repository
  created, \* created_at's taken
  expired, \* items up to this one are past their stale_after
  items,   \* table memory_items
  rules,   \* table rules
  pc,      \* where each run stands
  todo,    \* rows it has read and not yet dealt with
  seen,    \* the items as it read them
  merges,  \* merges of its dedup pass
  pending, \* the failure whose lesson it is storing
  runs,    \* runs started
  missed,  \* history: items whose primary file a run did not find
  fired,   \* history: how often a firing of each rule was written
  clash    \* history: two runs were under way together

tables  == <<items, rules>>
process == <<pc, todo, seen, merges, pending>>
world   == <<tree, created, expired, runs>>
history == <<missed, fired, clash>>
vars    == <<world, tables, process, history>>

NoItems == [i \in Ids |-> None]
Active(table) == {i \in Ids : table[i] # None /\ table[i].status = "active"}

Lesson(kind, touched) == [kind |-> kind, primary |-> touched.primary,
                          files |-> touched.files, status |-> "active", by |-> None]

\* The database is new, or earlier runs have left lessons in it.
Init ==
  /\ tree \in [Procs -> Trees] /\ expired = 0 /\ runs = 0
  /\ created \in 0..MaxBefore
  /\ \E k \in [1..created -> Kinds], t \in [1..created -> Touched] :
       items = [i \in Ids |-> IF i <= created THEN Lesson(k[i], t[i]) ELSE None]
  /\ rules = [t \in Tickets |-> None]
  /\ pc = [p \in Procs |-> "idle"] /\ todo = [p \in Procs |-> {}]
  /\ seen = [p \in Procs |-> NoItems] /\ merges = [p \in Procs |-> 0]
  /\ pending = [p \in Procs |-> None]
  /\ missed = {} /\ fired = [t \in Tickets |-> 0] /\ clash = FALSE

\* Run p goes on to stage s with the rows in rest left to deal with.
Goto(p, s, rest) ==
  /\ pc' = [pc EXCEPT ![p] = s] /\ todo' = [todo EXCEPT ![p] = rest]

---------------------------------------------------------------------------
(* The start of a run: staleness cleanup, then the dedup pass *)

\* run_staleness_cleanup reads the active items ...
Begin(p) ==
  /\ pc[p] = "idle" /\ runs < MaxRuns /\ runs' = runs + 1
  /\ Goto(p, "cleanup", Active(items))
  /\ clash' = (clash \/ \E q \in Procs : pc[q] # "idle")
  /\ UNCHANGED <<tree, created, expired, tables, seen, merges, pending, missed, fired>>

Missing(p, i) == items[i].primary # None /\ items[i].primary \notin tree[p]

Unfit(p, i) == i <= expired \/ Missing(p, i)

\* ... and goes through them one by one, as validate_before_injection does
\* with those it is given.  mark_stale looks at no other column.
Sift(p, i) ==
  /\ pc[p] \in {"cleanup", "attempt"} /\ i \in todo[p]
  /\ items' = IF Unfit(p, i) THEN [items EXCEPT ![i].status = "stale"] ELSE items
  /\ missed' = IF Missing(p, i) /\ i > expired THEN missed \cup {i} ELSE missed
  /\ todo' = [todo EXCEPT ![p] = @ \ {i}]
  /\ UNCHANGED <<world, rules, pc, seen, merges, pending, fired, clash>>

Alike(table, i, j) ==
  table[i].kind = table[j].kind /\ table[i].files \cap table[j].files # {}

\* A component of what is alike among the active items.
Component(table, g) ==
  /\ \A i \in g, j \in Active(table) \ g : ~Alike(table, i, j)
  /\ \A h \in SUBSET g :
       h # {} /\ h # g => \E i \in h, j \in g \ h : Alike(table, i, j)

\* find_duplicates: the components of more than one item.
Groups(table) ==
  {g \in SUBSET Active(table) : Cardinality(g) > 1 /\ Component(table, g)}

FindDuplicates(p) ==
  /\ pc[p] = "cleanup" /\ todo[p] = {}
  /\ Goto(p, "dedup", Groups(items)) /\ seen' = [seen EXCEPT ![p] = items]
  /\ UNCHANGED <<world, tables, merges, pending, history>>

\* Mutant: the oldest item is kept.
Bug_Keeper(g) == CHOOSE i \in g : \A j \in g : i <= j
Keeper(g) == CHOOSE i \in g : \A j \in g : j <= i

\* merge_duplicates, one transaction: the newest item takes over the files of
\* all, as they were read, and the others are superseded by it.
Merge(p, g) ==
  LET k == Keeper(g)
      union == UNION {seen[p][i].files : i \in g} IN
  /\ pc[p] = "dedup" /\ g \in todo[p] /\ merges[p] < MergeLimit
  /\ items' = [i \in Ids |->
       IF i \notin g THEN items[i]
       ELSE IF i = k THEN [items[i] EXCEPT !.files = union]
       ELSE [items[i] EXCEPT !.status = "superseded", !.by = k]]
  /\ todo' = [todo EXCEPT ![p] = @ \ {g}]
  /\ merges' = [merges EXCEPT ![p] = @ + Cardinality(g) - 1]
  /\ UNCHANGED <<world, rules, pc, seen, pending, history>>

EndDedup(p) ==
  /\ pc[p] = "dedup" /\ (todo[p] = {} \/ merges[p] >= MergeLimit)
  /\ Goto(p, "ticket", {}) /\ seen' = [seen EXCEPT ![p] = NoItems]
  /\ merges' = [merges EXCEPT ![p] = 0]
  /\ UNCHANGED <<world, tables, pending, history>>

---------------------------------------------------------------------------
(* A ticket *)

\* build_context_capsule: filter_relevant_items marks every active item past
\* its date, rank_and_select leaves a few for validation.
Retrieve(p, chosen) ==
  /\ pc[p] = "ticket"
  /\ chosen \subseteq Active(items) \ 1..expired /\ Cardinality(chosen) <= TopK
  /\ Goto(p, "attempt", chosen \cup (Active(items) \cap 1..expired))
  /\ UNCHANGED <<world, tables, seen, merges, pending, history>>

Enforced == {t \in Tickets : rules[t] # None /\ rules[t].status = "enforced"}

\* check_enforced_rules reads the enforced rules; those that fire ...
Enforce(p, fires) ==
  /\ pc[p] = "attempt" /\ todo[p] = {}
  /\ fires \subseteq Enforced /\ Goto(p, "count", fires)
  /\ UNCHANGED <<world, tables, seen, merges, pending, history>>

\* ... are counted one by one.
Increment(p, t) ==
  /\ pc[p] = "count" /\ t \in todo[p] /\ fired[t] < MaxFired
  /\ rules' = [rules EXCEPT ![t].triggers = @ + 1]
  /\ fired' = [fired EXCEPT ![t] = @ + 1]
  /\ todo' = [todo EXCEPT ![p] = @ \ {t}]
  /\ UNCHANGED <<world, items, pc, seen, merges, pending, missed, clash>>

\* Another attempt, or the end of a ticket that passed.
Pass(p) ==
  /\ pc[p] = "count" /\ todo[p] = {}
  /\ \E s \in {"attempt", "ticket"} : Goto(p, s, {})
  /\ UNCHANGED <<world, tables, seen, merges, pending, history>>

\* The ticket has failed: _extract_lesson_from_outcome takes the time.  It is
\* severe when generate_candidate_rule would make a rule of it.
Fail(p, kind, touched, ticket, severe) ==
  /\ pc[p] \in {"attempt", "count"} /\ todo[p] = {}
  /\ created < MaxItems /\ created' = created + 1
  /\ pending' = [pending EXCEPT ![p] =
       [id |-> created + 1, kind |-> kind, touched |-> touched,
        ticket |-> ticket, severe |-> severe]]
  /\ Goto(p, "store", {})
  /\ UNCHANGED <<tree, expired, runs, tables, seen, merges, history>>

StoreItem(p) ==
  LET f == pending[p] IN
  /\ pc[p] = "store"
  /\ items' = [items EXCEPT ![f.id] = Lesson(f.kind, f.touched)]
  /\ Goto(p, IF f.severe THEN "rule" ELSE "ticket", {})
  /\ pending' = IF f.severe THEN pending ELSE [pending EXCEPT ![p] = None]
  /\ UNCHANGED <<world, rules, seen, merges, history>>

\* Mutant: the conflict clause also takes the new rule's trigger_count.
Bug_Upsert(rule) == [status |-> "candidate", triggers |-> 0]

\* Mutant: rules begin as advisory, a status that only _load_rules knows.
Bug_UpsertAdvisory(rule) ==
  [status |-> "advisory", triggers |-> IF rule = None THEN 0 ELSE rule.triggers]

\* store_rule: the conflict clause resets everything but trigger_count.
Upsert(rule) ==
  [status |-> "candidate", triggers |-> IF rule = None THEN 0 ELSE rule.triggers]

StoreRule(p) ==
  LET t == pending[p].ticket IN
  /\ pc[p] = "rule"
  /\ rules' = [rules EXCEPT ![t] = Upsert(@)]
  /\ Goto(p, "ticket", {}) /\ pending' = [pending EXCEPT ![p] = None]
  /\ UNCHANGED <<world, items, seen, merges, history>>

\* A write to a locked database is given up: the lesson and its rule, the rule
\* alone, or a count.
Locked(p) ==
  /\ \/ /\ pc[p] \in {"store", "rule"}
        /\ Goto(p, "ticket", {}) /\ pending' = [pending EXCEPT ![p] = None]
     \/ /\ pc[p] = "count" /\ \E t \in todo[p] : Goto(p, "count", todo[p] \ {t})
        /\ UNCHANGED pending
  /\ UNCHANGED <<world, tables, seen, merges, history>>

---------------------------------------------------------------------------
(* The end of a run, and what happens around runs *)

\* promote_rules reads the candidates ...
Finish(p) ==
  /\ pc[p] = "ticket"
  /\ Goto(p, "promote", {t \in Tickets : rules[t] # None
                           /\ rules[t].status = "candidate"
                           /\ rules[t].triggers >= PromoteAt})
  /\ UNCHANGED <<world, tables, seen, merges, pending, history>>

\* ... and promotes them, whatever they are by then.
Promote(p) ==
  /\ pc[p] = "promote" /\ Goto(p, "idle", {})
  /\ rules' = [t \in Tickets |-> IF t \in todo[p]
                                 THEN [rules[t] EXCEPT !.status = "active"]
                                 ELSE rules[t]]
  /\ UNCHANGED <<world, items, seen, merges, pending, history>>

\* A run is killed; an open transaction is rolled back.
Die(p) ==
  /\ pc[p] # "idle" /\ Goto(p, "idle", {})
  /\ seen' = [seen EXCEPT ![p] = NoItems] /\ pending' = [pending EXCEPT ![p] = None]
  /\ merges' = [merges EXCEPT ![p] = 0]
  /\ UNCHANGED <<world, tables, history>>

\* promote_to_enforced, which the operator calls by hand.
PromoteToEnforced(t) ==
  /\ rules[t] # None /\ rules' = [rules EXCEPT ![t].status = "enforced"]
  /\ UNCHANGED <<world, items, process, history>>

\* Coders and operators create and delete files.
Edit(p, files) ==
  /\ tree' = [tree EXCEPT ![p] = files]
  /\ UNCHANGED <<created, expired, runs, tables, process, history>>

Tick ==
  /\ expired < created /\ expired' = expired + 1
  /\ UNCHANGED <<tree, created, runs, tables, process, history>>

---------------------------------------------------------------------------

Start(p) ==
  Begin(p) \/ FindDuplicates(p) \/ EndDedup(p)
    \/ (\E i \in Ids : Sift(p, i)) \/ (\E g \in SUBSET Ids : Merge(p, g))

Ticket(p) ==
  \/ \E chosen \in SUBSET Ids : Retrieve(p, chosen)
  \/ \E fires \in SUBSET Tickets : Enforce(p, fires)
  \/ \E t \in Tickets : Increment(p, t)
  \/ Pass(p)
  \/ \E kind \in Kinds, touched \in Touched, t \in Tickets, severe \in BOOLEAN :
       Fail(p, kind, touched, t, severe)
  \/ StoreItem(p) \/ StoreRule(p) \/ Locked(p)

Next ==
  \/ \E p \in Procs : Start(p) \/ Ticket(p) \/ Finish(p) \/ Promote(p) \/ Die(p)
  \/ \E t \in Tickets : PromoteToEnforced(t)
  \/ \E p \in Procs, files \in Trees : Edit(p, files)
  \/ Tick

Spec == Init /\ [][Next]_vars

---------------------------------------------------------------------------
(* Properties *)

Stages == {"idle", "cleanup", "dedup", "ticket", "attempt", "count",
           "store", "rule", "promote"}

\* What a run has read: groups of items, rules, or items.
Rows(stage) == IF stage = "dedup" THEN SUBSET Ids
               ELSE IF stage \in {"count", "promote"} THEN Tickets ELSE Ids

\* Every variable has its type.
TypeOK ==
  /\ tree \in [Procs -> Trees]
  /\ created \in 0..MaxItems /\ expired \in 0..created /\ runs \in 0..MaxRuns
  /\ items \in [Ids -> Item \cup {None}] /\ rules \in [Tickets -> Rule \cup {None}]
  /\ pc \in [Procs -> Stages] /\ merges \in [Procs -> Nat]
  /\ seen \in [Procs -> [Ids -> Item \cup {None}]]
  /\ pending \in [Procs -> Pending \cup {None}]
  /\ \A p \in Procs : todo[p] \subseteq Rows(pc[p])
  /\ missed \subseteq Ids /\ fired \in [Tickets -> 0..MaxFired] /\ clash \in BOOLEAN

Stored == {i \in Ids : items[i] # None}

\* Where the merges have taken each lesson.
Heir[i \in Ids] == IF i \notin Stored \/ items[i].by = None THEN i
                   ELSE Heir[items[i].by]

\* No lesson gets lost between runs that retire and merge what others store:
\* a merge leads, over any number of later ones, to a lesson that is active,
\* unless a run did not find that one's primary file, or the lesson itself is
\* past its date; and without two runs at once, to one that names all its
\* files (merge_duplicates: the most recent item is kept, with the union).
LessonsLive ==
  \A i \in Stored :
    LET heir == Heir[i] IN
    /\ items[heir].status = "active" \/ heir \in missed \/ i <= expired
    /\ ~clash => items[i].files \subseteq items[heir].files

\* Through upserts, demotions and promotions of several runs a rule's count
\* is the number of firings that were written, whatever other writes were
\* given up, and a rule is active only after as many
\* triggers as promote_rules asks for.  Rules fire only while enforced: what
\* is active has been enforced by hand before.
TriggersAreCounted ==
  \A t \in Tickets : rules[t] # None =>
    /\ rules[t].triggers = fired[t]
    /\ rules[t].status = "active" => fired[t] >= PromoteAt
=============================================================================
