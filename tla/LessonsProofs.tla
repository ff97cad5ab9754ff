--------------------------- MODULE LessonsProofs ---------------------------
(***************************************************************************)
(* Proofs about LessonsMemory, for any number of runs, repositories, items *)
(* and rules: the types, that rules count what they fired, that merges     *)
(* lead to newer lessons only, and that no lesson gets lost.               *)
(***************************************************************************)
EXTENDS LessonsMemory, WellFoundedInduction, FiniteSetTheorems, TLAPS

USE MemoryConstants

---------------------------------------------------------------------------
(* Merging *)

\* A set of items that is not empty has a newest one.
LEMMA KeeperIsNewest ==
  ASSUME NEW g \in SUBSET Ids, g # {}
  PROVE  Keeper(g) \in g /\ \A j \in g : j <= Keeper(g)
<1> DEFINE less == {ss \in Nat \X Nat : ss[1] < ss[2]}
           ages == {MaxItems - i : i \in g}
<1>1. MaxItems \in Nat
  OBVIOUS
<1>2. ages \subseteq Nat /\ ages # {}
  <2>1. \A i \in g : MaxItems - i \in Nat
    BY <1>1 DEF Ids
  <2>2. QED
    BY <2>1
<1>3. IsWellFoundedOn(less, Nat)
  BY NatLessThanWellFounded DEF OpToRel
<1>4. PICK a \in ages : \A b \in ages : <<b, a>> \notin less
  <2> HIDE DEF ages, less
  <2>1. \A T : T \subseteq Nat /\ T # {} =>
          \E x \in T : \A y \in T : ~ (<<y, x>> \in less)
    BY <1>3, WFMin
  <2>2. QED
    BY <1>2, <2>1
<1>5. \A b \in ages : a <= b
  <2> SUFFICES ASSUME NEW b \in ages PROVE a <= b
    OBVIOUS
  <2>1. a \in Nat /\ b \in Nat
    BY <1>2
  <2>2. <<b, a>> \in Nat \X Nat /\ <<b, a>>[1] = b /\ <<b, a>>[2] = a
    BY <2>1
  <2>3. ~(b < a)
    <3> HIDE DEF ages
    <3>1. QED
      BY <1>4, <2>2
  <2>4. QED
    BY <2>1, <2>3
<1>6. PICK k \in g : a = MaxItems - k
  BY <1>4
<1>7. \A j \in g : j <= k
  <2> SUFFICES ASSUME NEW j \in g PROVE j <= k
    OBVIOUS
  <2>1. MaxItems - k <= MaxItems - j
    BY <1>5, <1>6
  <2>2. j \in Int /\ k \in Int
    BY <1>1 DEF Ids
  <2>3. QED
    BY <1>1, <2>1, <2>2
<1>8. QED
  BY <1>7 DEF Keeper

\* What find_duplicates groups are at least two items that are active.
LEMMA GroupsAreStored ==
  ASSUME NEW table, NEW g \in Groups(table)
  PROVE  g \in SUBSET Ids /\ g # {} /\ \A i \in g : table[i] # None
<1>1. Cardinality({}) = 0
  BY FS_EmptySet
<1>2. g \in SUBSET Active(table) /\ Cardinality(g) > 1
  BY DEF Groups
<1>3. Cardinality(g) # 0
  BY <1>2
<1>4. QED
  BY <1>1, <1>2, <1>3, Zenon DEF Active

---------------------------------------------------------------------------
(* Types *)

\* Where a run stands decides what it holds: rows that exist, groups that are
\* not empty, a failure to store.
Holds(p) ==
  /\ pc[p] \in {"cleanup", "attempt"} => \A i \in todo[p] : items[i] # None
  /\ pc[p] = "dedup" => \A g \in todo[p] :
       g # {} /\ \A i \in g : items[i] # None /\ seen[p][i] # None
  /\ pc[p] \in {"store", "rule"} => pending[p] # None
  /\ pc[p] \in {"count", "promote"} => \A t \in todo[p] : rules[t] # None
  /\ pc[p] = "promote" => \A t \in todo[p] : fired[t] >= PromoteAt

Holdings == todo = [p \in Procs |-> todo[p]] /\ \A p \in Procs : Holds(p)

\* A rule there is has counted what it fired; where there is none, none fired.
Counts ==
  \A t \in Tickets :
    /\ rules[t] = None => fired[t] = 0
    /\ rules[t] # None => /\ rules[t].triggers = fired[t]
                          /\ rules[t].status = "active" => fired[t] >= PromoteAt

Inv == TypeOK /\ Holdings /\ Counts

LEMMA InitInv == Init => Inv
<1> SUFFICES ASSUME Init PROVE Inv
  OBVIOUS
<1>1. items \in [Ids -> Item \cup {None}]
  BY DEF Init, Lesson, Item, Ids
<1>2. \A p \in Procs : pc[p] = "idle" /\ todo[p] = {}
  BY DEF Init
<1>3. Holdings
  BY <1>2 DEF Init, Holdings, Holds
<1>4. seen \in [Procs -> [Ids -> Item \cup {None}]]
  BY DEF Init, NoItems
<1>5. \A p \in Procs : todo[p] \subseteq Rows(pc[p])
  BY <1>2
<1>6. created \in 0..MaxItems /\ expired \in 0..created /\ runs \in 0..MaxRuns
  BY DEF Init
<1>7. tree \in [Procs -> Trees] /\ rules \in [Tickets -> Rule \cup {None}]
  BY DEF Init
<1>8. /\ pc \in [Procs -> Stages] /\ merges \in [Procs -> Nat]
      /\ pending \in [Procs -> Pending \cup {None}]
  BY DEF Init, Stages
<1>9. missed \subseteq Ids /\ fired \in [Tickets -> 0..MaxFired] /\ clash \in BOOLEAN
  <2>1. MaxFired \in Nat
    OBVIOUS
  <2>2. fired \in [Tickets -> 0..MaxFired]
    BY <2>1 DEF Init
  <2>3. QED
    BY <2>2 DEF Init
<1>10. Counts
  BY DEF Init, Counts
<1>11. QED
  BY <1>1, <1>3, <1>4, <1>5, <1>6, <1>7, <1>8, <1>9, <1>10 DEF Inv, TypeOK

\* A step of run p leaves what the other runs hold, deletes no row, and takes
\* back no trigger.
Alone(p) ==
  /\ \A q \in Procs \ {p} : /\ pc'[q] = pc[q] /\ todo'[q] = todo[q]
                            /\ seen'[q] = seen[q] /\ pending'[q] = pending[q]
  /\ \A i \in Ids : items[i] # None => items'[i] # None
  /\ \A t \in Tickets : rules[t] # None => rules'[t] # None
  /\ \A t \in Tickets : fired[t] >= PromoteAt => fired'[t] >= PromoteAt

LEMMA OthersHold ==
  ASSUME Inv, NEW p \in Procs, Alone(p), Holds(p)',
         todo' = [q \in Procs |-> todo'[q]]
  PROVE  Holdings'
<1> SUFFICES ASSUME NEW q \in Procs \ {p} PROVE Holds(q)'
  BY DEF Holdings
<1>1. Holds(q) /\ todo[q] \subseteq Rows(pc[q])
  BY DEF Inv, Holdings, TypeOK
<1>2. /\ pc'[q] = pc[q] /\ todo'[q] = todo[q]
      /\ seen'[q] = seen[q] /\ pending'[q] = pending[q]
  BY DEF Alone
<1>3. pc[q] \in {"cleanup", "attempt"} => todo[q] \subseteq Ids
  BY <1>1 DEF Rows
<1>4. pc[q] = "dedup" => todo[q] \subseteq SUBSET Ids
  BY <1>1 DEF Rows
<1>5. pc[q] \in {"count", "promote"} => todo[q] \subseteq Tickets
  BY <1>1 DEF Rows
<1>6. QED
  BY <1>1, <1>2, <1>3, <1>4, <1>5 DEF Holds, Alone

LEMMA GotoType ==
  ASSUME Inv, NEW p \in Procs, NEW s \in Stages, NEW rest \in SUBSET Rows(s),
         Goto(p, s, rest)
  PROVE  /\ pc' \in [Procs -> Stages]
         /\ pc'[p] = s /\ todo'[p] = rest
         /\ \A q \in Procs \ {p} : pc'[q] = pc[q] /\ todo'[q] = todo[q]
         /\ todo' = [q \in Procs |-> todo'[q]]
         /\ \A q \in Procs : todo'[q] \subseteq Rows(pc'[q])
<1>1. /\ pc' \in [Procs -> Stages] /\ pc'[p] = s
      /\ \A q \in Procs \ {p} : pc'[q] = pc[q]
  BY DEF Goto, Inv, TypeOK
<1>2. /\ todo' = [q \in Procs |-> IF q = p THEN rest ELSE todo[q]]
  BY DEF Goto, Inv, Holdings
<1>3. QED
  BY <1>1, <1>2 DEF Inv, TypeOK

\* What is true of an action that has gone to s with rest, and of which the
\* other types and what p then holds are known.
LEMMA WentTo ==
  ASSUME Inv, NEW p \in Procs, NEW s \in Stages, NEW rest \in SUBSET Rows(s),
         Goto(p, s, rest), UNCHANGED <<tables, fired>>,
         seen' \in [Procs -> [Ids -> Item \cup {None}]],
         pending' \in [Procs -> Pending \cup {None}],
         \A q \in Procs \ {p} : seen'[q] = seen[q] /\ pending'[q] = pending[q],
         s \in {"cleanup", "attempt"} => \A i \in rest : items[i] # None,
         s = "dedup" => \A g \in rest :
           g # {} /\ \A i \in g : items[i] # None /\ seen'[p][i] # None,
         s \in {"store", "rule"} => pending'[p] # None,
         s \in {"count", "promote"} => \A t \in rest : rules[t] # None,
         s = "promote" => \A t \in rest : fired[t] >= PromoteAt,
         created' \in 0..MaxItems /\ expired' \in 0..created',
         tree' \in [Procs -> Trees], runs' \in 0..MaxRuns,
         merges' \in [Procs -> Nat], missed' \subseteq Ids, clash' \in BOOLEAN
  PROVE  Inv'
<1>1. /\ pc' \in [Procs -> Stages]
      /\ pc'[p] = s /\ todo'[p] = rest
      /\ \A q \in Procs \ {p} : pc'[q] = pc[q] /\ todo'[q] = todo[q]
      /\ todo' = [q \in Procs |-> todo'[q]]
      /\ \A q \in Procs : todo'[q] \subseteq Rows(pc'[q])
  BY GotoType
<1>2. Alone(p)
  BY <1>1 DEF Alone, tables
<1>3. Holds(p)'
  BY <1>1 DEF Holds, tables
<1>4. Holdings'
  BY <1>1, <1>2, <1>3, OthersHold
<1>5. TypeOK'
  BY <1>1 DEF Inv, TypeOK, tables
<1>6. Counts'
  BY DEF Inv, Counts, tables
<1>7. QED
  BY <1>4, <1>5, <1>6 DEF Inv

LEMMA BeginInv ==
  ASSUME Inv, NEW p \in Procs, Begin(p)
  PROVE  Inv'
<1>1. runs' \in 0..MaxRuns /\ clash' \in BOOLEAN
  <2>1. MaxRuns \in Nat
    OBVIOUS
  <2>2. QED
    BY <2>1 DEF Begin, Inv, TypeOK
<1>2. Active(items) \in SUBSET Rows("cleanup") /\ \A i \in Active(items) : items[i] # None
  BY DEF Active, Rows
<1>3. "cleanup" \in Stages
  BY DEF Stages
<1>4. QED
  BY <1>1, <1>2, <1>3, WentTo DEF Begin, Inv, TypeOK

LEMMA SiftInv ==
  ASSUME Inv, NEW p \in Procs, NEW i \in Ids, Sift(p, i)
  PROVE  Inv'
<1>1. items[i] \in Item
  BY DEF Sift, Inv, TypeOK, Holdings, Holds
<1>2. items' \in [Ids -> Item \cup {None}] /\ \A j \in Ids : items[j] # None => items'[j] # None
  <2>1. [items[i] EXCEPT !.status = "stale"] \in Item
    BY <1>1 DEF Item
  <2>2. CASE Unfit(p, i)
    <3>1. items' = [items EXCEPT ![i] = [items[i] EXCEPT !.status = "stale"]]
      BY <2>2 DEF Sift
    <3>2. QED
      BY <2>1, <3>1 DEF Inv, TypeOK
  <2>3. CASE ~Unfit(p, i)
    BY <2>3 DEF Sift, Inv, TypeOK
  <2>4. QED
    BY <2>2, <2>3
<1>3. /\ todo' = [q \in Procs |-> IF q = p THEN todo[p] \ {i} ELSE todo[q]]
      /\ UNCHANGED <<pc, rules, seen, pending, fired>>
  BY DEF Sift, Inv, Holdings
<1>4. Alone(p)
  BY <1>2, <1>3 DEF Alone
<1>5. Holds(p)'
  BY <1>2, <1>3 DEF Inv, Holdings, Holds, TypeOK, Rows
<1>6. Holdings'
  BY <1>3, <1>4, <1>5, OthersHold
<1>7. missed' \subseteq Ids
  BY DEF Sift, Inv, TypeOK
<1>8. \A q \in Procs : todo'[q] \subseteq Rows(pc'[q])
  BY <1>3 DEF Inv, TypeOK
<1>9. TypeOK'
  BY <1>2, <1>3, <1>7, <1>8 DEF Sift, world, Inv, TypeOK
<1>10. QED
  BY <1>3, <1>6, <1>9 DEF Inv, Counts

LEMMA FindDuplicatesInv ==
  ASSUME Inv, NEW p \in Procs, FindDuplicates(p)
  PROVE  Inv'
<1>1. seen'[p] = items /\ seen' \in [Procs -> [Ids -> Item \cup {None}]]
      /\ \A q \in Procs \ {p} : seen'[q] = seen[q]
  BY DEF FindDuplicates, Inv, TypeOK
<1>2. Groups(items) \in SUBSET Rows("dedup")
  BY GroupsAreStored DEF Rows
<1>3. "dedup" \in Stages
  BY DEF Stages
<1>4. \A g \in Groups(items) : g # {} /\ \A i \in g : items[i] # None /\ seen'[p][i] # None
  BY <1>1, GroupsAreStored
<1>5. QED
  BY <1>1, <1>2, <1>3, <1>4, WentTo DEF FindDuplicates, world, history, Inv, TypeOK

LEMMA MergeInv ==
  ASSUME Inv, NEW p \in Procs, NEW g \in SUBSET Ids, Merge(p, g)
  PROVE  /\ Inv'
         /\ Keeper(g) \in g /\ \A i \in g : i <= Keeper(g)
         /\ \A i \in g : items[i] \in Item /\ seen[p][i] \in Item
         /\ \A i \in Ids : items[i] # None => items'[i] # None
<1> DEFINE k == Keeper(g)
           union == UNION {seen[p][i].files : i \in g}
<1>1. /\ g # {} /\ \A i \in g : items[i] \in Item /\ seen[p][i] \in Item
  <2>1. g # {} /\ \A i \in g : items[i] # None /\ seen[p][i] # None
    BY DEF Merge, Inv, Holdings, Holds
  <2>2. \A i \in Ids : items[i] \in Item \cup {None} /\ seen[p][i] \in Item \cup {None}
    BY DEF Inv, TypeOK
  <2>3. QED
    BY <2>1, <2>2
<1>2. k \in g /\ \A i \in g : i <= k
  BY <1>1, KeeperIsNewest
<1>3. items' = [i \in Ids |->
         IF i \notin g THEN items[i]
         ELSE IF i = k THEN [items[i] EXCEPT !.files = union]
         ELSE [items[i] EXCEPT !.status = "superseded", !.by = k]]
  BY DEF Merge
<1>4. union \in SUBSET Files
  BY <1>1 DEF Item
<1>5. \A i \in g : items'[i] \in Item
  <2> HIDE DEF k, union
  <2> SUFFICES ASSUME NEW i \in g PROVE items'[i] \in Item
    OBVIOUS
  <2>1. items[i] \in Item /\ k \in Ids
    BY <1>1, <1>2
  <2>2. CASE i = k
    BY <1>3, <1>4, <2>1, <2>2 DEF Item
  <2>3. CASE i # k
    BY <1>3, <2>1, <2>3 DEF Item
  <2>4. QED
    BY <2>2, <2>3
<1>6. /\ items' \in [Ids -> Item \cup {None}]
      /\ \A i \in Ids : items[i] # None => items'[i] # None
  <2> HIDE DEF k, union
  <2>1. \A i \in Ids \ g : items'[i] = items[i] /\ items[i] \in Item \cup {None}
    BY <1>3 DEF Inv, TypeOK
  <2>2. \A i \in Ids : items'[i] \in Item \cup {None}
    BY <1>5, <2>1
  <2>3. \A i \in Ids : items[i] # None => items'[i] # None
    BY <1>5, <2>1
  <2>4. items' = [i \in Ids |-> items'[i]]
    BY <1>3
  <2>5. QED
    BY <2>2, <2>3, <2>4
<1>7. merges' \in [Procs -> Nat]
  <2>1. IsFiniteSet(1..MaxItems)
    <3>1. 1 \in Int /\ MaxItems \in Int
      OBVIOUS
    <3>2. QED
      BY <3>1, FS_Interval
  <2>2. IsFiniteSet(g)
    BY <2>1, FS_Subset DEF Ids
  <2>3. Cardinality(g) \in Nat /\ Cardinality(g) # 0
    BY <1>1, <2>2, FS_CardinalityType, FS_EmptySet
  <2>4. \A n \in Nat : n + Cardinality(g) - 1 \in Nat
    BY <2>3
  <2>5. QED
    BY <2>4 DEF Merge, Inv, TypeOK
<1>8. /\ todo' = [q \in Procs |-> IF q = p THEN todo[p] \ {g} ELSE todo[q]]
      /\ UNCHANGED <<pc, rules, seen, pending, fired>>
  BY DEF Merge, history, Inv, Holdings
<1>9. Alone(p)
  BY <1>6, <1>8 DEF Alone
<1>10. Holds(p)'
  BY <1>6, <1>8 DEF Inv, Holdings, Holds, TypeOK, Rows
<1>11. Holdings'
  BY <1>8, <1>9, <1>10, OthersHold
<1>12. \A q \in Procs : todo'[q] \subseteq Rows(pc'[q])
  BY <1>8 DEF Inv, TypeOK
<1>13. TypeOK'
  BY <1>6, <1>7, <1>8, <1>12 DEF Merge, world, history, Inv, TypeOK
<1>14. QED
  BY <1>1, <1>2, <1>6, <1>8, <1>11, <1>13 DEF Inv, Counts

LEMMA EndDedupInv ==
  ASSUME Inv, NEW p \in Procs, EndDedup(p)
  PROVE  Inv'
<1>1. /\ seen' \in [Procs -> [Ids -> Item \cup {None}]]
      /\ \A q \in Procs \ {p} : seen'[q] = seen[q]
  BY DEF EndDedup, NoItems, Inv, TypeOK
<1>2. merges' \in [Procs -> Nat]
  BY DEF EndDedup, Inv, TypeOK
<1>3. "ticket" \in Stages
  BY DEF Stages
<1>4. QED
  BY <1>1, <1>2, <1>3, WentTo DEF EndDedup, world, history, Inv, TypeOK

LEMMA RetrieveInv ==
  ASSUME Inv, NEW p \in Procs, NEW chosen \in SUBSET Ids, Retrieve(p, chosen)
  PROVE  Inv'
<1> DEFINE rest == chosen \cup (Active(items) \cap 1..expired)
<1>1. rest \in SUBSET Rows("attempt") /\ \A i \in rest : items[i] # None
  BY DEF Retrieve, Active, Rows
<1>2. "attempt" \in Stages
  BY DEF Stages
<1>3. QED
  BY <1>1, <1>2, WentTo DEF Retrieve, world, history, Inv, TypeOK

LEMMA EnforceInv ==
  ASSUME Inv, NEW p \in Procs, NEW fires \in SUBSET Tickets, Enforce(p, fires)
  PROVE  Inv'
<1>1. fires \in SUBSET Rows("count") /\ \A t \in fires : rules[t] # None
  BY DEF Enforce, Enforced, Rows
<1>2. "count" \in Stages
  BY DEF Stages
<1>3. QED
  BY <1>1, <1>2, WentTo DEF Enforce, world, history, Inv, TypeOK

LEMMA PassInv ==
  ASSUME Inv, NEW p \in Procs, Pass(p)
  PROVE  Inv'
<1>1. PICK s \in {"attempt", "ticket"} : Goto(p, s, {})
  BY DEF Pass
<1>2. s \in Stages
  BY DEF Stages
<1>3. QED
  BY <1>1, <1>2, WentTo DEF Pass, world, history, Inv, TypeOK

LEMMA FailInv ==
  ASSUME Inv, NEW p \in Procs, NEW kind \in Kinds, NEW touched \in Touched,
         NEW t \in Tickets, NEW severe \in BOOLEAN, Fail(p, kind, touched, t, severe)
  PROVE  Inv'
<1> DEFINE failure == [id |-> created + 1, kind |-> kind, touched |-> touched,
                       ticket |-> t, severe |-> severe]
<1>1. created + 1 \in Ids /\ created' = created + 1
  <2>1. MaxItems \in Nat
    OBVIOUS
  <2>2. QED
    BY <2>1 DEF Fail, Ids, Inv, TypeOK
<1>2. created' \in 0..MaxItems /\ expired' \in 0..created'
  <2>1. MaxItems \in Nat
    OBVIOUS
  <2>2. QED
    BY <1>1, <2>1 DEF Fail, Ids, Inv, TypeOK
<1>3. failure \in Pending
  BY <1>1 DEF Pending
<1>4. /\ pending' \in [Procs -> Pending \cup {None}] /\ pending'[p] # None
      /\ \A q \in Procs \ {p} : pending'[q] = pending[q]
  BY <1>3 DEF Fail, Inv, TypeOK
<1>5. "store" \in Stages
  BY DEF Stages
<1>6. QED
  BY <1>2, <1>4, <1>5, WentTo DEF Fail, history, Inv, TypeOK

LEMMA FinishInv ==
  ASSUME Inv, NEW p \in Procs, Finish(p)
  PROVE  Inv'
<1> DEFINE rest == {t \in Tickets : rules[t] # None /\ rules[t].status = "candidate"
                                    /\ rules[t].triggers >= PromoteAt}
<1>1. /\ rest \in SUBSET Rows("promote")
      /\ \A t \in rest : rules[t] # None /\ fired[t] >= PromoteAt
  BY DEF Rows, Inv, Counts
<1>2. "promote" \in Stages
  BY DEF Stages
<1>3. QED
  BY <1>1, <1>2, WentTo DEF Finish, world, history, Inv, TypeOK

LEMMA DieInv ==
  ASSUME Inv, NEW p \in Procs, Die(p)
  PROVE  Inv'
<1>1. /\ seen' \in [Procs -> [Ids -> Item \cup {None}]]
      /\ pending' \in [Procs -> Pending \cup {None}]
      /\ \A q \in Procs \ {p} : seen'[q] = seen[q] /\ pending'[q] = pending[q]
  BY DEF Die, NoItems, Inv, TypeOK
<1>2. merges' \in [Procs -> Nat]
  BY DEF Die, Inv, TypeOK
<1>3. "idle" \in Stages
  BY DEF Stages
<1>4. QED
  BY <1>1, <1>2, <1>3, WentTo DEF Die, world, history, Inv, TypeOK

LEMMA LockedInv ==
  ASSUME Inv, NEW p \in Procs, Locked(p)
  PROVE  Inv'
<1>1. /\ pending' \in [Procs -> Pending \cup {None}]
      /\ \A q \in Procs \ {p} : pending'[q] = pending[q]
  BY DEF Locked, Inv, TypeOK
<1>2. {"ticket", "count"} \subseteq Stages
  BY DEF Stages
<1>3. CASE Goto(p, "ticket", {})
  BY <1>1, <1>2, <1>3, WentTo DEF Locked, world, history, Inv, TypeOK
<1>4. ASSUME NEW t \in todo[p], pc[p] = "count", Goto(p, "count", todo[p] \ {t})
      PROVE  Inv'
  <2>1. todo[p] \in SUBSET Rows("count") /\ \A u \in todo[p] : rules[u] # None
    BY <1>4 DEF Inv, TypeOK, Holdings, Holds
  <2>2. todo[p] \ {t} \in SUBSET Rows("count")
    BY <2>1
  <2>3. QED
    BY <1>1, <1>2, <1>4, <2>1, <2>2, WentTo DEF Locked, world, history, Inv, TypeOK
<1>5. QED
  BY <1>3, <1>4 DEF Locked

\* What is true of a step that changes rules only, and of run p alone.
LEMMA RulesChanged ==
  ASSUME Inv, NEW p \in Procs,
         rules' \in [Tickets -> Rule \cup {None}],
         fired' \in [Tickets -> 0..MaxFired],
         Alone(p), Holds(p)', Counts',
         todo' = [q \in Procs |-> todo'[q]], todo'[p] \subseteq Rows(pc'[p]),
         pc' \in [Procs -> Stages], pending' \in [Procs -> Pending \cup {None}],
         UNCHANGED <<world, items, seen, merges, missed, clash>>
  PROVE  Inv'
<1>1. Holdings'
  BY OthersHold
<1>2. \A q \in Procs : todo'[q] \subseteq Rows(pc'[q])
  BY DEF Alone, Inv, TypeOK
<1>3. TypeOK'
  BY <1>2 DEF world, Inv, TypeOK
<1>4. QED
  BY <1>1, <1>3 DEF Inv

LEMMA IncrementInv ==
  ASSUME Inv, NEW p \in Procs, NEW t \in Tickets, Increment(p, t)
  PROVE  Inv'
<1> DEFINE more == [rules[t] EXCEPT !.triggers = rules[t].triggers + 1]
<1>1. /\ rules[t] \in Rule /\ rules[t].triggers = fired[t]
      /\ fired[t] \in 0..MaxFired /\ MaxFired \in Nat /\ PromoteAt \in Nat
      /\ rules[t].status = "active" => fired[t] >= PromoteAt
  BY DEF Increment, Inv, TypeOK, Holdings, Holds, Counts
<1>2. rules' = [rules EXCEPT ![t] = more] /\ fired' = [fired EXCEPT ![t] = fired[t] + 1]
  BY DEF Increment
<1>3. fired[t] + 1 \in 0..MaxFired
  BY <1>1 DEF Increment
<1>4. /\ more \in Rule /\ more # None
      /\ more.triggers = fired[t] + 1 /\ more.status = rules[t].status
  BY <1>1, <1>3 DEF Rule
<1>5. /\ rules' \in [Tickets -> Rule \cup {None}] /\ fired' \in [Tickets -> 0..MaxFired]
      /\ rules'[t] = more /\ fired'[t] = fired[t] + 1
      /\ \A u \in Tickets \ {t} : rules'[u] = rules[u] /\ fired'[u] = fired[u]
  <2> HIDE DEF more
  <2>1. QED
    BY <1>2, <1>3, <1>4 DEF Inv, TypeOK
<1>6. /\ todo' = [q \in Procs |-> IF q = p THEN todo[p] \ {t} ELSE todo[q]]
      /\ UNCHANGED <<pc, items, seen, pending>>
  BY DEF Increment, Inv, Holdings
<1>7. fired[t] >= PromoteAt => fired[t] + 1 >= PromoteAt
  BY <1>1
<1> HIDE DEF more
<1>8. Alone(p)
  BY <1>4, <1>5, <1>6, <1>7 DEF Alone
<1>9. Holds(p)'
  BY <1>6 DEF Increment, Holds, Inv, Holdings
<1>10. Counts'
  BY <1>1, <1>4, <1>5, <1>7 DEF Counts, Inv
<1>11. todo'[p] \subseteq Rows(pc'[p])
  BY <1>6 DEF Inv, TypeOK
<1>12. /\ pc' \in [Procs -> Stages] /\ pending' \in [Procs -> Pending \cup {None}]
       /\ todo' = [q \in Procs |-> todo'[q]]
       /\ UNCHANGED <<world, items, seen, merges, missed, clash>>
  BY <1>6 DEF Increment, Inv, TypeOK
<1>13. QED
  BY <1>5, <1>8, <1>9, <1>10, <1>11, <1>12, RulesChanged

LEMMA StoreItemInv ==
  ASSUME Inv, NEW p \in Procs, StoreItem(p)
  PROVE  Inv'
<1> DEFINE f == pending[p]
           s == IF f.severe THEN "rule" ELSE "ticket"
           lesson == Lesson(f.kind, f.touched)
<1>1. f \in Pending
  BY DEF StoreItem, Inv, TypeOK, Holdings, Holds
<1>2. lesson \in Item
  BY <1>1 DEF Lesson, Item, Pending
<1>3. f.id \in Ids /\ f.severe \in BOOLEAN
  BY <1>1 DEF Pending
<1>4. s \in Stages /\ Goto(p, s, {}) /\ items' = [items EXCEPT ![f.id] = lesson]
  BY DEF StoreItem, Stages
<1>5. /\ pc' \in [Procs -> Stages]
      /\ pc'[p] = s /\ todo'[p] = {}
      /\ \A q \in Procs \ {p} : pc'[q] = pc[q] /\ todo'[q] = todo[q]
      /\ todo' = [q \in Procs |-> todo'[q]]
      /\ \A q \in Procs : todo'[q] \subseteq Rows(pc'[q])
  <2>1. {} \in SUBSET Rows(s)
    OBVIOUS
  <2> HIDE DEF s
  <2>2. QED
    BY <1>4, <2>1, GotoType
<1>6. /\ items' \in [Ids -> Item \cup {None}]
      /\ \A i \in Ids : items[i] # None => items'[i] # None
  <2> HIDE DEF f, lesson
  <2>1. QED
    BY <1>2, <1>3, <1>4 DEF Inv, TypeOK
<1>7. /\ pending' \in [Procs -> Pending \cup {None}]
      /\ \A q \in Procs \ {p} : pending'[q] = pending[q]
      /\ f.severe => pending'[p] # None
  BY <1>1 DEF StoreItem, Inv, TypeOK
<1>8. Alone(p)
  BY <1>5, <1>6, <1>7 DEF StoreItem, history, Alone
<1>9. Holds(p)'
  BY <1>5, <1>7 DEF Holds
<1>10. Holdings'
  BY <1>5, <1>8, <1>9, OthersHold
<1>11. TypeOK'
  BY <1>5, <1>6, <1>7 DEF StoreItem, world, history, Inv, TypeOK
<1>12. QED
  BY <1>10, <1>11 DEF StoreItem, history, Inv, Counts

LEMMA StoreRuleInv ==
  ASSUME Inv, NEW p \in Procs, StoreRule(p)
  PROVE  Inv'
<1> DEFINE t == pending[p].ticket
           rule == Upsert(rules[t])
<1>1. pending[p] \in Pending
  BY DEF StoreRule, Inv, TypeOK, Holdings, Holds
<1>2. t \in Tickets
  BY <1>1 DEF Pending
<1>3. rules[t] \in Rule \cup {None} /\ fired[t] \in 0..MaxFired /\ MaxFired \in Nat
  BY <1>2 DEF Inv, TypeOK
<1>4. rule \in Rule /\ rule # None /\ rule.triggers = fired[t] /\ rule.status = "candidate"
  <2>1. IF rules[t] = None THEN fired[t] = 0 ELSE rules[t].triggers = fired[t]
    BY <1>2 DEF Inv, Counts
  <2>2. rule = [status |-> "candidate", triggers |-> fired[t]]
    BY <2>1 DEF Upsert
  <2>3. QED
    BY <1>3, <2>2 DEF Rule
<1>5. rules' = [rules EXCEPT ![t] = rule] /\ fired' = fired
  BY DEF StoreRule, history
<1> HIDE DEF t, rule
<1>6. /\ rules' \in [Tickets -> Rule \cup {None}] /\ rules'[t] = rule
      /\ \A u \in Tickets \ {t} : rules'[u] = rules[u]
  BY <1>2, <1>4, <1>5 DEF Inv, TypeOK
<1>7. /\ "ticket" \in Stages /\ {} \in SUBSET Rows("ticket") /\ Goto(p, "ticket", {})
  BY DEF StoreRule, Stages
<1>8. /\ pc' \in [Procs -> Stages]
      /\ pc'[p] = "ticket" /\ todo'[p] = {}
      /\ \A q \in Procs \ {p} : pc'[q] = pc[q] /\ todo'[q] = todo[q]
      /\ todo' = [q \in Procs |-> todo'[q]]
  BY <1>7, GotoType
<1>9. /\ pending' \in [Procs -> Pending \cup {None}]
      /\ \A q \in Procs \ {p} : pending'[q] = pending[q]
  BY DEF StoreRule, Inv, TypeOK
<1>10. Alone(p)
  BY <1>4, <1>5, <1>6, <1>8, <1>9 DEF StoreRule, Alone
<1>11. Holds(p)' /\ todo'[p] \subseteq Rows(pc'[p])
  BY <1>8 DEF Holds
<1>12. Counts'
  BY <1>4, <1>5, <1>6 DEF Counts, Inv
<1>13. /\ UNCHANGED <<world, items, seen, merges, missed, clash>>
       /\ fired' \in [Tickets -> 0..MaxFired]
  BY DEF StoreRule, history, Inv, TypeOK
<1>14. QED
  BY <1>6, <1>8, <1>9, <1>10, <1>11, <1>12, <1>13, RulesChanged

LEMMA PromoteInv ==
  ASSUME Inv, NEW p \in Procs, Promote(p)
  PROVE  Inv'
<1>1. todo[p] \subseteq Tickets /\ \A t \in todo[p] : rules[t] # None /\ fired[t] >= PromoteAt
  BY DEF Promote, Inv, TypeOK, Holdings, Holds, Rows
<1>2. rules' = [t \in Tickets |-> IF t \in todo[p]
                                  THEN [rules[t] EXCEPT !.status = "active"]
                                  ELSE rules[t]]
  BY DEF Promote
<1>3. \A t \in todo[p] : /\ rules'[t] \in Rule /\ rules'[t] # None
                         /\ rules'[t].triggers = rules[t].triggers
  <2> SUFFICES ASSUME NEW t \in todo[p]
               PROVE  /\ rules'[t] \in Rule /\ rules'[t] # None
                      /\ rules'[t].triggers = rules[t].triggers
    OBVIOUS
  <2>1. rules[t] \in Rule
    BY <1>1 DEF Inv, TypeOK
  <2>2. rules'[t] = [rules[t] EXCEPT !.status = "active"]
    BY <1>1, <1>2
  <2>3. QED
    BY <2>1, <2>2 DEF Rule
<1>4. \A t \in Tickets \ todo[p] : rules'[t] = rules[t]
  BY <1>2
<1>5. rules' \in [Tickets -> Rule \cup {None}]
  <2>1. \A t \in Tickets : rules'[t] \in Rule \cup {None}
    BY <1>3, <1>4 DEF Inv, TypeOK
  <2>2. rules' = [t \in Tickets |-> rules'[t]]
    BY <1>2
  <2>3. QED
    BY <2>1, <2>2
<1>6. "idle" \in Stages /\ {} \in SUBSET Rows("idle") /\ Goto(p, "idle", {})
  BY DEF Promote, Stages
<1>7. /\ pc' \in [Procs -> Stages]
      /\ pc'[p] = "idle" /\ todo'[p] = {}
      /\ \A q \in Procs \ {p} : pc'[q] = pc[q] /\ todo'[q] = todo[q]
      /\ todo' = [q \in Procs |-> todo'[q]]
  BY <1>6, GotoType
<1>8. /\ UNCHANGED <<world, items, seen, merges, missed, clash, pending, fired>>
      /\ fired' \in [Tickets -> 0..MaxFired]
      /\ pending' \in [Procs -> Pending \cup {None}]
  BY DEF Promote, history, Inv, TypeOK
<1>9. Alone(p)
  BY <1>3, <1>4, <1>7, <1>8 DEF Alone
<1>10. Holds(p)' /\ todo'[p] \subseteq Rows(pc'[p])
  BY <1>7 DEF Holds
<1>11. Counts'
  BY <1>1, <1>3, <1>4, <1>8 DEF Counts, Inv
<1>12. QED
  BY <1>5, <1>7, <1>8, <1>9, <1>10, <1>11, RulesChanged

LEMMA PromoteToEnforcedInv ==
  ASSUME Inv, NEW t \in Tickets, PromoteToEnforced(t)
  PROVE  Inv'
<1>1. rules[t] \in Rule
  BY DEF PromoteToEnforced, Inv, TypeOK
<1> DEFINE enforced == [rules[t] EXCEPT !.status = "enforced"]
<1>2. /\ enforced \in Rule /\ enforced # None
      /\ enforced.triggers = rules[t].triggers /\ enforced.status = "enforced"
  BY <1>1 DEF Rule
<1>3. rules' = [rules EXCEPT ![t] = enforced]
  BY DEF PromoteToEnforced
<1> HIDE DEF enforced
<1>4. /\ rules' \in [Tickets -> Rule \cup {None}] /\ rules'[t] = enforced
      /\ \A u \in Tickets \ {t} : rules'[u] = rules[u]
  BY <1>2, <1>3 DEF Inv, TypeOK
<1>5. UNCHANGED <<world, items, process, history>>
  BY DEF PromoteToEnforced
<1>6. \A u \in Tickets : rules[u] # None => rules'[u] # None
  BY <1>2, <1>4
<1>7. Counts'
  BY <1>2, <1>4, <1>5 DEF PromoteToEnforced, history, Counts, Inv
<1>8. TypeOK'
  BY <1>4, <1>5 DEF world, process, history, Inv, TypeOK
<1>9. Holdings'
  <2>1. \A p \in Procs : Holds(p)'
    <3> SUFFICES ASSUME NEW p \in Procs PROVE Holds(p)'
      OBVIOUS
    <3>1. Holds(p) /\ todo[p] \subseteq Rows(pc[p])
      BY DEF Inv, Holdings, TypeOK
    <3>2. pc[p] \in {"count", "promote"} => todo[p] \subseteq Tickets
      BY <3>1 DEF Rows
    <3>3. QED
      BY <1>5, <1>6, <3>1, <3>2 DEF Holds, process, history
  <2>2. QED
    BY <1>5, <2>1 DEF process, Inv, Holdings
<1>10. QED
  BY <1>7, <1>8, <1>9 DEF Inv

\* Coders, operators and the clock touch no table and no run.
LEMMA WorldInv ==
  ASSUME Inv, UNCHANGED <<tables, process, history>>,
         tree' \in [Procs -> Trees], created' = created,
         expired' \in 0..created, runs' = runs
  PROVE  Inv'
<1>1. Holdings' /\ Counts'
  BY DEF tables, process, history, Inv, Holdings, Holds, Counts
<1>2. TypeOK'
  BY DEF tables, process, history, Inv, TypeOK
<1>3. QED
  BY <1>1, <1>2 DEF Inv

LEMMA StepInv == Inv /\ [Next]_vars => Inv'
<1> SUFFICES ASSUME Inv, [Next]_vars PROVE Inv'
  OBVIOUS
<1>1. ASSUME NEW p \in Procs, Start(p) PROVE Inv'
  BY <1>1, BeginInv, FindDuplicatesInv, EndDedupInv, SiftInv, MergeInv DEF Start
<1>2. ASSUME NEW p \in Procs, Ticket(p) PROVE Inv'
  BY <1>2, RetrieveInv, EnforceInv, IncrementInv, PassInv, FailInv, StoreItemInv,
     StoreRuleInv, LockedInv DEF Ticket
<1>3. ASSUME NEW p \in Procs, Finish(p) \/ Promote(p) \/ Die(p) PROVE Inv'
  BY <1>3, FinishInv, PromoteInv, DieInv
<1>4. ASSUME NEW t \in Tickets, PromoteToEnforced(t) PROVE Inv'
  BY <1>4, PromoteToEnforcedInv
<1>5. ASSUME NEW p \in Procs, NEW files \in Trees, Edit(p, files) PROVE Inv'
  BY <1>5, WorldInv DEF Edit, Inv, TypeOK
<1>6. CASE Tick
  <2>1. expired' \in 0..created
    BY <1>6 DEF Tick, Inv, TypeOK
  <2>2. QED
    BY <1>6, <2>1, WorldInv DEF Tick, Inv, TypeOK
<1>7. CASE UNCHANGED vars
  BY <1>7, WorldInv DEF vars, world, Inv, TypeOK
<1>8. QED
  BY <1>1, <1>2, <1>3, <1>4, <1>5, <1>6, <1>7 DEF Next

LEMMA InvHolds == Spec => []Inv
<1>1. QED
  BY InitInv, StepInv, PTL DEF Spec

\* The tables, what the runs have read of them, and the histories keep their
\* types, however many runs share the database.
THEOREM TypesKept == Spec => []TypeOK
<1>1. Inv => TypeOK
  BY DEF Inv
<1>2. QED
  BY <1>1, InvHolds, PTL

\* However many runs upsert, count, demote and promote the same rules, and whatever
\* writes they give up, a rule's trigger_count is the number of firings that were
\* written, and what is active has fired as often as promote_rules asks for.
THEOREM RulesAreCounted == Spec => []TriggersAreCounted
<1>1. Inv => TriggersAreCounted
  BY DEF Inv, Counts, TriggersAreCounted
<1>2. QED
  BY <1>1, InvHolds, PTL

---------------------------------------------------------------------------
(* What the steps of a run leave of the table *)

\* What sifting leaves of the table: statuses may have become stale.
LEMMA SiftItems ==
  ASSUME Inv, NEW p \in Procs, NEW i \in Ids, Sift(p, i)
  PROVE  /\ Stored' = Stored
         /\ \A j \in Stored : /\ items'[j].by = items[j].by
                              /\ items'[j].files = items[j].files
                              /\ \/ items'[j].status = items[j].status
                                 \/ /\ items'[j].status = "stale"
                                    /\ j \in missed' \/ j <= expired
<1>1. items[i] \in Item
  BY DEF Sift, Inv, TypeOK, Holdings, Holds
<1>2. \A j \in Ids \ {i} : items'[j] = items[j]
  BY DEF Sift, Inv, TypeOK
<1>3. CASE Unfit(p, i)
  <2>1. items'[i] = [items[i] EXCEPT !.status = "stale"]
    BY <1>3 DEF Sift, Inv, TypeOK
  <2>2. /\ items'[i] \in Item /\ items'[i].status = "stale"
        /\ items'[i].by = items[i].by /\ items'[i].files = items[i].files
    BY <1>1, <2>1 DEF Item
  <2>3. i \in missed' \/ i <= expired
    <3>1. i \in Nat /\ expired \in Nat
      BY DEF Ids, Inv, TypeOK
    <3>2. QED
      BY <1>3, <3>1 DEF Sift, Unfit
  <2>4. Stored' = Stored
    BY <1>1, <1>2, <2>2 DEF Stored
  <2>5. QED
    BY <1>2, <2>2, <2>3, <2>4 DEF Stored
<1>4. CASE ~Unfit(p, i)
  BY <1>4 DEF Sift, Stored
<1>5. QED
  BY <1>3, <1>4

\* What a merge leaves of the table.
LEMMA MergeItems ==
  ASSUME Inv, NEW p \in Procs, NEW g \in SUBSET Ids, Merge(p, g)
  PROVE  /\ Stored' = Stored /\ g \subseteq Stored /\ Keeper(g) \in g
         /\ \A i \in Ids \ g : items'[i] = items[i]
         /\ \A i \in g \ {Keeper(g)} : /\ items'[i].by = Keeper(g)
                                       /\ items'[i].status = "superseded"
                                       /\ items'[i].files = items[i].files
         /\ items'[Keeper(g)].by = items[Keeper(g)].by
         /\ items'[Keeper(g)].status = items[Keeper(g)].status
         /\ items'[Keeper(g)].files = UNION {seen[p][i].files : i \in g}
<1> DEFINE k == Keeper(g)
           union == UNION {seen[p][i].files : i \in g}
<1>1. /\ k \in g /\ \A i \in g : items[i] \in Item /\ seen[p][i] \in Item
      /\ \A i \in Ids : items[i] # None => items'[i] # None
  BY MergeInv
<1>2. \A i \in Ids :
        items'[i] = IF i \notin g THEN items[i]
                    ELSE IF i = k THEN [items[i] EXCEPT !.files = union]
                    ELSE [items[i] EXCEPT !.status = "superseded", !.by = k]
  BY DEF Merge
<1> HIDE DEF k, union
<1>3. \A i \in g \ {k} : /\ items'[i].by = k /\ items'[i].status = "superseded"
                         /\ items'[i].files = items[i].files
  <2> SUFFICES ASSUME NEW i \in g \ {k}
               PROVE  /\ items'[i].by = k /\ items'[i].status = "superseded"
                      /\ items'[i].files = items[i].files
    OBVIOUS
  <2>1. items[i] \in Item
    BY <1>1
  <2>2. items'[i] = [items[i] EXCEPT !.status = "superseded", !.by = k]
    BY <1>2
  <2>3. QED
    BY <2>1, <2>2 DEF Item
<1>4. /\ items'[k].by = items[k].by /\ items'[k].status = items[k].status
      /\ items'[k].files = union
  <2>1. items[k] \in Item /\ items'[k] = [items[k] EXCEPT !.files = union]
    BY <1>1, <1>2
  <2>2. QED
    BY <2>1 DEF Item
<1>5. \A i \in g : items[i] # None
  BY <1>1
<1>6. \A i \in Ids \ g : items'[i] = items[i]
  BY <1>2
<1>7. Stored' = Stored /\ g \subseteq Stored
  <2>1. \A i \in Ids : items'[i] # None => items[i] # None
    BY <1>5, <1>6
  <2>2. QED
    BY <1>1, <1>5, <2>1 DEF Stored
<1>8. QED
  BY <1>1, <1>3, <1>4, <1>6, <1>7 DEF k, union

\* What storing a lesson leaves of the table.
LEMMA StoreItems ==
  ASSUME Inv, NEW p \in Procs, StoreItem(p)
  PROVE  /\ pending[p].id \in Ids /\ Stored' = Stored \cup {pending[p].id}
         /\ \A i \in Ids \ {pending[p].id} : items'[i] = items[i]
         /\ items'[pending[p].id].status = "active" /\ items'[pending[p].id].by = None
<1> DEFINE f == pending[p]
           lesson == Lesson(f.kind, f.touched)
<1>1. f \in Pending
  BY DEF StoreItem, Inv, TypeOK, Holdings, Holds
<1>2. f.id \in Ids /\ lesson \in Item /\ lesson.status = "active" /\ lesson.by = None
  BY <1>1 DEF Lesson, Item, Pending
<1>3. items' = [items EXCEPT ![f.id] = lesson]
  BY DEF StoreItem
<1> HIDE DEF f, lesson
<1>4. items'[f.id] = lesson /\ \A i \in Ids \ {f.id} : items'[i] = items[i]
  BY <1>2, <1>3 DEF Inv, TypeOK
<1>5. lesson # None
  BY <1>2
<1>6. Stored' = Stored \cup {f.id}
  BY <1>2, <1>4, <1>5 DEF Stored
<1>7. QED
  BY <1>2, <1>4, <1>6 DEF f

---------------------------------------------------------------------------
(* Merges lead to newer lessons *)

\* What superseded a lesson is in the table, and newer than it.
HeirsAreNewer ==
  \A i \in Ids : items[i] # None /\ items[i].by # None =>
    items[i].by \in Stored /\ items[i].by > i

\* A step that leaves every by, and the rows there are, keeps this.
LEMMA SameHeirs ==
  ASSUME HeirsAreNewer,
         \A i \in Ids : items[i] # None => items'[i] # None,
         \A i \in Ids : items'[i] # None /\ items'[i].by # None =>
           items[i] # None /\ items'[i].by = items[i].by
  PROVE  HeirsAreNewer'
<1> SUFFICES ASSUME NEW i \in Ids, items'[i] # None, items'[i].by # None
             PROVE  items'[i].by \in Stored' /\ items'[i].by > i
  BY DEF HeirsAreNewer
<1>1. items[i] # None /\ items'[i].by = items[i].by
  OBVIOUS
<1>2. items[i].by \in Stored /\ items[i].by > i
  BY <1>1 DEF HeirsAreNewer
<1>3. QED
  BY <1>1, <1>2 DEF Stored

LEMMA HeirsStep == Inv /\ HeirsAreNewer /\ [Next]_vars => HeirsAreNewer'
<1> SUFFICES ASSUME Inv, HeirsAreNewer, [Next]_vars PROVE HeirsAreNewer'
  OBVIOUS
<1>1. ASSUME UNCHANGED items PROVE HeirsAreNewer'
  BY <1>1 DEF HeirsAreNewer, Stored
<1>2. ASSUME NEW p \in Procs, NEW i \in Ids, Sift(p, i) PROVE HeirsAreNewer'
  <2>1. Stored' = Stored /\ \A j \in Stored : items'[j].by = items[j].by
    BY <1>2, SiftItems
  <2>2. QED
    BY <2>1, SameHeirs DEF Stored
<1>3. ASSUME NEW p \in Procs, NEW g \in SUBSET Ids, Merge(p, g) PROVE HeirsAreNewer'
  <2> DEFINE k == Keeper(g)
  <2>1. /\ Stored' = Stored /\ g \subseteq Stored /\ k \in g
        /\ \A i \in Ids \ g : items'[i] = items[i]
        /\ \A i \in g \ {k} : items'[i].by = k
        /\ items'[k].by = items[k].by
    BY <1>3, MergeItems
  <2>2. \A i \in g : i <= k
    BY <1>3, MergeInv
  <2> HIDE DEF k
  <2> SUFFICES ASSUME NEW i \in Ids, i \in Stored, items'[i].by # None
               PROVE  items'[i].by \in Stored /\ items'[i].by > i
    BY <2>1 DEF HeirsAreNewer, Stored
  <2>3. CASE i \in g /\ i # k
    <3>1. i \in Nat /\ k \in Nat
      BY <2>1 DEF Ids, Stored
    <3>2. i < k
      BY <2>2, <2>3, <3>1
    <3>3. QED
      BY <2>1, <2>3, <3>2
  <2>4. CASE i \notin g \/ i = k
    <3>1. items'[i].by = items[i].by
      BY <2>1, <2>4
    <3>2. QED
      BY <3>1 DEF HeirsAreNewer, Stored
  <2>5. QED
    BY <2>3, <2>4
<1>4. ASSUME NEW p \in Procs, StoreItem(p) PROVE HeirsAreNewer'
  <2>1. /\ Stored' = Stored \cup {pending[p].id} /\ items'[pending[p].id].by = None
        /\ \A i \in Ids \ {pending[p].id} : items'[i] = items[i]
    BY <1>4, StoreItems
  <2>2. QED
    BY <2>1, SameHeirs DEF Stored
<1>5. CASE Next
  <2>1. ASSUME NEW p \in Procs, Start(p) PROVE HeirsAreNewer'
    BY <1>1, <1>2, <1>3, <2>1 DEF Start, Begin, FindDuplicates, EndDedup, tables
  <2>2. ASSUME NEW p \in Procs, Ticket(p) PROVE HeirsAreNewer'
    BY <1>1, <1>4, <2>2
       DEF Ticket, Retrieve, Enforce, Increment, Pass, Fail, StoreRule, Locked, tables
  <2>3. ASSUME NEW p \in Procs, Finish(p) \/ Promote(p) \/ Die(p) PROVE HeirsAreNewer'
    BY <1>1, <2>3 DEF Finish, Promote, Die, tables
  <2>4. ASSUME NEW t \in Tickets, PromoteToEnforced(t) PROVE HeirsAreNewer'
    BY <1>1, <2>4 DEF PromoteToEnforced
  <2>5. ASSUME NEW p \in Procs, NEW files \in Trees, Edit(p, files) PROVE HeirsAreNewer'
    BY <1>1, <2>5 DEF Edit, tables
  <2>6. CASE Tick
    BY <1>1, <2>6 DEF Tick, tables
  <2>7. QED
    BY <1>5, <2>1, <2>2, <2>3, <2>4, <2>5, <2>6 DEF Next
<1>6. CASE UNCHANGED vars
  BY <1>1, <1>6 DEF vars, tables
<1>7. QED
  BY <1>5, <1>6

\* Merges of several runs, each from what it read before, never lead in a
\* circle: what supersedes a lesson is there and newer, so following the
\* merges (Heir) comes to an end.
THEOREM MergesLeadForward == Spec => []HeirsAreNewer
<1>1. Init => HeirsAreNewer
  BY DEF Init, HeirsAreNewer, Lesson
<1>2. QED
  BY <1>1, InvHolds, HeirsStep, PTL DEF Spec

---------------------------------------------------------------------------
(* Where the merges lead *)

\* The groups of a dedup pass have no item in common.
LEMMA GroupsAreDisjoint ==
  ASSUME NEW table, NEW g \in Groups(table), NEW h \in Groups(table), g \cap h # {}
  PROVE  g = h
<1>1. ASSUME NEW a \in Groups(table), NEW b \in Groups(table), a \cap b # {}
      PROVE  a \subseteq b
  <2> DEFINE c == a \cap b
  <2>1. /\ a \subseteq Active(table)
        /\ \A i \in b, j \in Active(table) \ b : ~Alike(table, i, j)
        /\ \A d \in SUBSET a :
             d # {} /\ d # a => \E i \in d, j \in a \ d : Alike(table, i, j)
    BY DEF Groups, Component
  <2>2. ASSUME c # a PROVE FALSE
    <3>1. c \in SUBSET a /\ c # {}
      BY <1>1
    <3>2. PICK i \in c, j \in a \ c : Alike(table, i, j)
      BY <2>1, <2>2, <3>1
    <3>3. i \in b /\ j \in Active(table) \ b
      BY <2>1, <3>2
    <3>4. QED
      BY <2>1, <3>2, <3>3
  <2>3. QED
    BY <2>2
<1>2. QED
  BY <1>1

\* Where every member of T points to something newer, following the pointers
\* is a function: the one that has it right from the newest item on down.
LEMMA HeirExists ==
  ASSUME NEW T \in SUBSET Ids, NEW next, \A i \in T : next[i] \in Ids /\ next[i] > i
  PROVE  \E f \in [Ids -> Ids] :
           \A i \in Ids : f[i] = IF i \notin T THEN i ELSE f[next[i]]
<1> DEFINE Right(f, i) == f[i] = IF i \notin T THEN i ELSE f[next[i]]
           RightFrom(n) == \E f \in [Ids -> Ids] : \A i \in Ids : i >= n => Right(f, i)
           bad == {n \in Ids : ~RightFrom(n)}
<1>1. MaxItems \in Nat /\ Ids \subseteq Nat
  BY DEF Ids
<1>2. ASSUME bad # {} PROVE FALSE
  <2> DEFINE k == Keeper(bad)
  <2>1. k \in Ids /\ ~RightFrom(k) /\ \A j \in Ids : ~RightFrom(j) => j <= k
    <3>1. bad \in SUBSET Ids
      OBVIOUS
    <3>2. k \in bad /\ \A j \in bad : j <= k
      <4> HIDE DEF bad
      <4>1. QED
        BY <1>2, <3>1, KeeperIsNewest
    <3>3. QED
      BY <3>2
  <2> HIDE DEF k
  <2>2. \E f \in [Ids -> Ids] : \A i \in Ids : i > k => Right(f, i)
    <3>1. CASE k + 1 \in Ids
      <4>1. RightFrom(k + 1)
        BY <1>1, <2>1, <3>1
      <4>2. \A i \in Ids : i > k => i >= k + 1
        BY <1>1, <2>1
      <4>3. QED
        BY <4>1, <4>2
    <3>2. CASE k + 1 \notin Ids
      <4>1. \A i \in Ids : ~(i > k)
        BY <1>1, <2>1, <3>2 DEF Ids
      <4>2. [i \in Ids |-> i] \in [Ids -> Ids]
        OBVIOUS
      <4>3. QED
        BY <4>1, <4>2
    <3>3. QED
      BY <3>1, <3>2
  <2>3. PICK g \in [Ids -> Ids] : \A i \in Ids : i > k => Right(g, i)
    BY <2>2
  <2> DEFINE f == [g EXCEPT ![k] = IF k \notin T THEN k ELSE g[next[k]]]
  <2>4. f \in [Ids -> Ids]
    BY <2>1
  <2>5. \A i \in Ids : i # k => f[i] = g[i]
    OBVIOUS
  <2>6. f[k] = IF k \notin T THEN k ELSE g[next[k]]
    BY <2>1
  <2> HIDE DEF f
  <2>7. \A i \in T : i >= k => next[i] \in Ids /\ next[i] # k
    BY <1>1, <2>1
  <2>8. ASSUME NEW i \in Ids, i >= k PROVE Right(f, i)
    <3>1. i \in T => f[next[i]] = g[next[i]]
      BY <2>5, <2>7, <2>8
    <3>2. CASE i = k
      BY <2>6, <3>1, <3>2
    <3>3. CASE i # k
      <4>1. i > k
        BY <1>1, <2>1, <2>8, <3>3
      <4>2. Right(g, i) /\ f[i] = g[i]
        BY <2>3, <2>5, <3>3, <4>1
      <4>3. QED
        BY <3>1, <4>2
    <3>4. QED
      BY <3>2, <3>3
  <2>9. RightFrom(k)
    BY <2>4, <2>8
  <2>10. QED
    BY <2>1, <2>9
<1>3. \E f \in [Ids -> Ids] : \A i \in Ids : Right(f, i)
  <2>1. CASE Ids = {}
    <3>1. [i \in Ids |-> i] \in [Ids -> Ids]
      OBVIOUS
    <3>2. QED
      BY <2>1, <3>1
  <2>2. CASE Ids # {}
    <3>1. 1 \in Ids /\ \A i \in Ids : i >= 1
      BY <1>1, <2>2 DEF Ids
    <3>2. RightFrom(1)
      BY <1>2, <3>1
    <3>3. QED
      BY <3>1, <3>2
  <2>3. QED
    BY <2>1, <2>2
<1>4. QED
  BY <1>3

\* As merges lead to newer lessons, the definition of Heir is its equation.
LEMMA HeirFollows ==
  ASSUME HeirsAreNewer, NEW i \in Ids
  PROVE  Heir[i] = IF i \notin Stored \/ items[i].by = None THEN i ELSE Heir[items[i].by]
<1> DEFINE T == {j \in Ids : ~(j \notin Stored \/ items[j].by = None)}
           next == [j \in Ids |-> items[j].by]
<1>1. \A j \in T : next[j] \in Ids /\ next[j] > j
  BY DEF HeirsAreNewer, Stored
<1>2. \A j \in Ids : (j \notin T <=> (j \notin Stored \/ items[j].by = None))
                     /\ next[j] = items[j].by
  OBVIOUS
<1> HIDE DEF T, next
<1>3. \E f \in [Ids -> Ids] : \A j \in Ids : f[j] = IF j \notin T THEN j ELSE f[next[j]]
  <2>1. T \in SUBSET Ids
    BY DEF T
  <2>2. QED
    BY <1>1, <2>1, HeirExists
<1>4. \E f : f = [j \in Ids |-> IF j \notin Stored \/ items[j].by = None THEN j
                                ELSE f[items[j].by]]
  <2>1. PICK f \in [Ids -> Ids] :
               \A j \in Ids : f[j] = IF j \notin T THEN j ELSE f[next[j]]
    BY <1>3
  <2>2. \A j \in Ids :
          f[j] = IF j \notin Stored \/ items[j].by = None THEN j ELSE f[items[j].by]
    BY <1>2, <2>1
  <2>3. f = [j \in Ids |-> IF j \notin Stored \/ items[j].by = None THEN j
                           ELSE f[items[j].by]]
    BY <2>1, <2>2
  <2>4. QED
    BY <2>3
<1>5. Heir = [j \in Ids |-> IF j \notin Stored \/ items[j].by = None THEN j
                            ELSE Heir[items[j].by]]
  BY <1>4 DEF Heir
<1>6. QED
  BY <1>5

\* What is superseded names its heir, what is active has none, and what is
\* stale without one was not found by a run or is past its date.
Settled ==
  \A i \in Stored :
    /\ items[i].status = "superseded" => items[i].by # None
    /\ items[i].status = "active" => items[i].by = None
    /\ items[i].by = None /\ items[i].status = "stale" => i \in missed \/ i <= expired

\* Only what has been created is stored or about to be.
Numbered ==
  /\ \A i \in Stored : i <= created
  /\ \A p \in Procs : pending[p] # None => pending[p].id <= created

\* What run p has read is as it read it, and what it stores is not there yet.
Fresh(p) ==
  /\ pc[p] = "dedup" => /\ todo[p] \subseteq Groups(seen[p])
                        /\ \A g \in todo[p] : \A i \in g : items[i] = seen[p][i]
  /\ pc[p] = "store" => items[pending[p].id] = None

RunsAlone ==
  /\ \A p, q \in Procs : pc[p] # "idle" /\ pc[q] # "idle" => p = q
  /\ \A p \in Procs : Fresh(p)

\* An heir names all the files of what it superseded.
FilesKept ==
  \A i \in Stored : items[i].by # None => items[i].files \subseteq items[items[i].by].files

LiveInv ==
  /\ Inv /\ HeirsAreNewer /\ Settled /\ Numbered
  /\ ~clash => RunsAlone /\ FilesKept

\* A step that leaves the table alone and forgets nothing.
LEMMA SameItems ==
  ASSUME Inv, Inv', UNCHANGED items, missed \subseteq missed', expired <= expired'
  PROVE  (Settled => Settled') /\ (FilesKept => FilesKept')
<1>1. \A i \in Stored : i \in Nat /\ expired \in Nat /\ expired' \in Nat
  BY DEF Stored, Ids, Inv, TypeOK
<1>2. FilesKept => FilesKept'
  BY DEF FilesKept, Stored
<1>3. Settled => Settled'
  <2> SUFFICES ASSUME Settled, NEW i \in Stored,
                      items[i].by = None /\ items[i].status = "stale"
               PROVE  i \in missed' \/ i <= expired'
    BY DEF Settled, Stored
  <2>1. i \in missed \/ i <= expired
    BY DEF Settled
  <2>2. QED
    BY <1>1, <2>1
<1>4. QED
  BY <1>2, <1>3

\* The only run under way takes a step.
LEMMA AloneStep ==
  ASSUME RunsAlone, NEW p \in Procs, pc[p] # "idle", Fresh(p)',
         \A q \in Procs \ {p} : pc'[q] = pc[q]
  PROVE  RunsAlone'
<1>1. \A q \in Procs \ {p} : pc'[q] = "idle"
  BY DEF RunsAlone
<1>2. \A q \in Procs \ {p} : Fresh(q)'
  BY <1>1 DEF Fresh
<1>3. QED
  BY <1>1, <1>2 DEF RunsAlone

LEMMA SettledStep == LiveInv /\ Inv' /\ [Next]_vars => Settled'
<1> SUFFICES ASSUME LiveInv, Inv', [Next]_vars PROVE Settled'
  OBVIOUS
<1>1. Inv /\ Settled
  BY DEF LiveInv
<1>2. expired \in Nat /\ created \in Nat /\ \A i \in Ids : i \in Nat
  BY <1>1 DEF Inv, TypeOK, Ids
<1>3. ASSUME UNCHANGED items, missed \subseteq missed', expired <= expired'
      PROVE  Settled'
  BY <1>1, <1>3, SameItems
<1>4. ASSUME UNCHANGED <<items, missed, expired>> PROVE Settled'
  BY <1>2, <1>3, <1>4
<1>5. ASSUME NEW p \in Procs, NEW i \in Ids, Sift(p, i) PROVE Settled'
  <2>1. missed \subseteq missed' /\ expired' = expired
    BY <1>5 DEF Sift, world
  <2>2. QED
    BY <1>1, <1>5, <2>1, SiftItems DEF Settled
<1>6. ASSUME NEW p \in Procs, NEW g \in SUBSET Ids, Merge(p, g) PROVE Settled'
  <2>1. missed' = missed /\ expired' = expired
    BY <1>6 DEF Merge, world, history
  <2>2. Keeper(g) # None /\ Keeper(g) \in Ids
    <3>1. Keeper(g) \in Ids
      BY <1>1, <1>6, MergeItems
    <3>2. Ids \subseteq Nat
      BY DEF Ids
    <3>3. QED
      BY <3>1, <3>2
  <2>3. ASSUME NEW i \in Stored
        PROVE  \/ /\ items'[i].by = items[i].by /\ items'[i].status = items[i].status
               \/ items'[i].by # None /\ items'[i].status = "superseded"
    <3>1. CASE i \notin g
      BY <1>1, <1>6, <3>1, MergeItems DEF Stored
    <3>2. CASE i = Keeper(g)
      BY <1>1, <1>6, <3>2, MergeItems
    <3>3. CASE i \in g \ {Keeper(g)}
      <4>1. items'[i].by = Keeper(g) /\ items'[i].status = "superseded"
        BY <1>1, <1>6, <3>3, MergeItems
      <4>2. QED
        BY <2>2, <4>1
    <3>4. QED
      BY <3>1, <3>2, <3>3
  <2>4. Stored' = Stored
    BY <1>1, <1>6, MergeItems
  <2>5. QED
    BY <1>1, <2>1, <2>3, <2>4 DEF Settled
<1>7. ASSUME NEW p \in Procs, StoreItem(p) PROVE Settled'
  <2>1. missed' = missed /\ expired' = expired
    BY <1>7 DEF StoreItem, world, history
  <2>2. QED
    BY <1>1, <1>7, <2>1, StoreItems DEF Settled, Stored
<1>8. CASE Next
  <2>1. ASSUME NEW p \in Procs, Start(p) PROVE Settled'
    BY <1>4, <1>5, <1>6, <2>1
       DEF Start, Begin, FindDuplicates, EndDedup, tables, world, history
  <2>2. ASSUME NEW p \in Procs, Ticket(p) PROVE Settled'
    BY <1>4, <1>7, <2>2
       DEF Ticket, Retrieve, Enforce, Increment, Pass, Fail, StoreRule, Locked, tables, world,
           history
  <2>3. ASSUME NEW p \in Procs, Finish(p) \/ Promote(p) \/ Die(p) PROVE Settled'
    BY <1>4, <2>3 DEF Finish, Promote, Die, tables, world, history
  <2>4. ASSUME NEW t \in Tickets, PromoteToEnforced(t) PROVE Settled'
    BY <1>4, <2>4 DEF PromoteToEnforced, world, history
  <2>5. ASSUME NEW p \in Procs, NEW files \in Trees, Edit(p, files) PROVE Settled'
    BY <1>4, <2>5 DEF Edit, tables, history
  <2>6. CASE Tick
    BY <1>2, <1>3, <2>6 DEF Tick, tables, history
  <2>7. QED
    BY <1>8, <2>1, <2>2, <2>3, <2>4, <2>5, <2>6 DEF Next
<1>9. CASE UNCHANGED vars
  BY <1>4, <1>9 DEF vars, tables, world, history
<1>10. QED
  BY <1>8, <1>9

LEMMA NumberedStep == LiveInv /\ [Next]_vars => Numbered'
<1> SUFFICES ASSUME LiveInv, [Next]_vars PROVE Numbered'
  OBVIOUS
<1>1. Inv /\ Numbered
  BY DEF LiveInv
<1>2. created \in Nat /\ \A i \in Ids : i \in Nat
  BY <1>1 DEF Inv, TypeOK, Ids
<1>3. ASSUME Stored' = Stored, created' = created,
             \A p \in Procs : pending'[p] \in {pending[p], None}
      PROVE  Numbered'
  BY <1>1, <1>3 DEF Numbered
<1>4. ASSUME UNCHANGED <<items, created, pending>> PROVE Numbered'
  BY <1>3, <1>4 DEF Stored
<1>5. ASSUME NEW p \in Procs, NEW i \in Ids, Sift(p, i) PROVE Numbered'
  BY <1>1, <1>3, <1>5, SiftItems DEF Sift, world
<1>6. ASSUME NEW p \in Procs, NEW g \in SUBSET Ids, Merge(p, g) PROVE Numbered'
  BY <1>1, <1>3, <1>6, MergeItems DEF Merge, world
<1>7. ASSUME NEW p \in Procs, NEW kind \in Kinds, NEW touched \in Touched,
             NEW t \in Tickets, NEW severe \in BOOLEAN, Fail(p, kind, touched, t, severe)
      PROVE  Numbered'
  <2>1. created' = created + 1 /\ Stored' = Stored
    BY <1>7 DEF Fail, tables, Stored
  <2>2. \A q \in Procs \ {p} : pending'[q] = pending[q]
    BY <1>1, <1>7 DEF Fail, Inv, TypeOK
  <2>3. pending'[p].id = created + 1
    BY <1>1, <1>7 DEF Fail, Inv, TypeOK
  <2>4. \A q \in Procs \ {p} : pending[q] # None => pending[q].id \in Nat
    <3>1. \A q \in Procs : pending[q] # None => pending[q].id \in Ids
      BY <1>1 DEF Inv, TypeOK, Pending
    <3>2. QED
      BY <1>2, <3>1
  <2>5. \A i \in Stored : i \in Nat
    BY <1>2 DEF Stored
  <2>6. QED
    BY <1>1, <1>2, <2>1, <2>2, <2>3, <2>4, <2>5 DEF Numbered
<1>8. ASSUME NEW p \in Procs, StoreItem(p) PROVE Numbered'
  <2>1. pending[p] # None /\ created' = created
    BY <1>1, <1>8 DEF StoreItem, world, Inv, Holdings, Holds
  <2>2. \A q \in Procs : pending'[q] \in {pending[q], None}
    BY <1>1, <1>8 DEF StoreItem, Inv, TypeOK
  <2>3. QED
    BY <1>1, <1>8, <2>1, <2>2, StoreItems DEF Numbered
<1>9. CASE Next
  <2>1. ASSUME NEW p \in Procs, Start(p) PROVE Numbered'
    BY <1>4, <1>5, <1>6, <2>1 DEF Start, Begin, FindDuplicates, EndDedup, tables, world
  <2>2. ASSUME NEW p \in Procs, Ticket(p) PROVE Numbered'
    <3>1. CASE StoreRule(p)
      <4>1. \A q \in Procs : pending'[q] \in {pending[q], None}
        BY <1>1, <3>1 DEF StoreRule, Inv, TypeOK
      <4>2. Stored' = Stored /\ created' = created
        BY <3>1 DEF StoreRule, world, Stored
      <4>3. QED
        BY <1>3, <4>1, <4>2
    <3>2. ASSUME Pass(p) \/ \/ \E chosen \in SUBSET Ids : Retrieve(p, chosen)
                            \/ \E fires \in SUBSET Tickets : Enforce(p, fires)
                            \/ \E t \in Tickets : Increment(p, t)
          PROVE  Numbered'
      BY <1>4, <3>2 DEF Retrieve, Enforce, Increment, Pass, tables, world
    <3>3. CASE Locked(p)
      <4>1. \A q \in Procs : pending'[q] \in {pending[q], None}
        BY <1>1, <3>3 DEF Locked, Inv, TypeOK
      <4>2. Stored' = Stored /\ created' = created
        BY <3>3 DEF Locked, world, tables, Stored
      <4>3. QED
        BY <1>3, <4>1, <4>2
    <3>4. QED
      BY <1>7, <1>8, <2>2, <3>1, <3>2, <3>3 DEF Ticket
  <2>3. ASSUME NEW p \in Procs, Die(p) PROVE Numbered'
    <3>1. \A q \in Procs : pending'[q] \in {pending[q], None}
      BY <1>1, <2>3 DEF Die, Inv, TypeOK
    <3>2. Stored' = Stored /\ created' = created
      BY <2>3 DEF Die, world, tables, Stored
    <3>3. QED
      BY <1>3, <3>1, <3>2
  <2>4. ASSUME NEW p \in Procs, Finish(p) \/ Promote(p) PROVE Numbered'
    BY <1>4, <2>4 DEF Finish, Promote, tables, world
  <2>5. ASSUME NEW t \in Tickets, PromoteToEnforced(t) PROVE Numbered'
    BY <1>4, <2>5 DEF PromoteToEnforced, world, process
  <2>6. ASSUME NEW p \in Procs, NEW files \in Trees, Edit(p, files) PROVE Numbered'
    BY <1>4, <2>6 DEF Edit, tables, process
  <2>7. CASE Tick
    BY <1>4, <2>7 DEF Tick, tables, process
  <2>8. QED
    BY <1>9, <2>1, <2>2, <2>3, <2>4, <2>5, <2>6, <2>7 DEF Next
<1>10. CASE UNCHANGED vars
  BY <1>4, <1>10 DEF vars, tables, world, process
<1>11. QED
  BY <1>9, <1>10

\* Merging one group leaves the items of the others as they were read.
LEMMA MergeFresh ==
  ASSUME LiveInv, ~clash, NEW p \in Procs, NEW g \in SUBSET Ids, Merge(p, g)
  PROVE  Fresh(p)'
<1>1. Inv /\ pc[p] = "dedup" /\ Fresh(p) /\ todo[p] \subseteq SUBSET Ids
  BY DEF LiveInv, RunsAlone, Merge, Inv, TypeOK, Rows
<1>2. /\ todo'[p] = todo[p] \ {g} /\ g \in todo[p]
      /\ pc' = pc /\ seen' = seen
  BY <1>1 DEF Merge, Inv, Holdings
<1>3. ASSUME NEW h \in todo[p], h # g, NEW i \in h PROVE items'[i] = seen[p][i]
  <2>1. h \in Groups(seen[p]) /\ g \in Groups(seen[p])
    BY <1>1, <1>2 DEF Fresh
  <2>2. i \notin g
    <3>1. i \in g => g \cap h # {}
      BY <1>3
    <3>2. QED
      BY <1>3, <2>1, <3>1, GroupsAreDisjoint
  <2>3. i \in Ids /\ items[i] = seen[p][i]
    BY <1>1, <1>3 DEF Fresh
  <2>4. QED
    BY <1>1, <2>2, <2>3, MergeItems
<1>4. todo'[p] \subseteq Groups(seen[p])
  BY <1>1, <1>2 DEF Fresh
<1>5. QED
  BY <1>1, <1>2, <1>3, <1>4 DEF Fresh

LEMMA AloneKept == LiveInv /\ [Next]_vars => (~clash' => ~clash /\ RunsAlone')
<1> SUFFICES ASSUME LiveInv, [Next]_vars, ~clash' PROVE ~clash /\ RunsAlone'
  OBVIOUS
<1>1. Inv /\ (~clash => RunsAlone)
  BY DEF LiveInv
<1>2. ASSUME UNCHANGED <<pc, todo, seen, pending, items, clash>> PROVE ~clash /\ RunsAlone'
  BY <1>1, <1>2 DEF RunsAlone, Fresh
<1>3. ASSUME NEW p \in Procs, pc[p] # "idle", clash' = clash, Fresh(p)',
             \A q \in Procs \ {p} : pc'[q] = pc[q]
      PROVE  ~clash /\ RunsAlone'
  BY <1>1, <1>3, AloneStep
<1>4. ASSUME NEW p \in Procs, NEW s \in Stages, NEW rest, Goto(p, s, rest),
             pc[p] # "idle", clash' = clash, s \notin {"dedup", "store"}
      PROVE  ~clash /\ RunsAlone'
  <2>1. pc'[p] = s /\ \A q \in Procs \ {p} : pc'[q] = pc[q]
    BY <1>1, <1>4 DEF Goto, Inv, TypeOK
  <2>2. Fresh(p)'
    BY <1>4, <2>1 DEF Fresh
  <2>3. QED
    BY <1>3, <1>4, <2>1, <2>2
<1>5. ASSUME NEW p \in Procs, Begin(p) PROVE ~clash /\ RunsAlone'
  <2>1. ~clash /\ \A q \in Procs : pc[q] = "idle"
    BY <1>5 DEF Begin
  <2>2. pc'[p] = "cleanup" /\ \A q \in Procs \ {p} : pc'[q] = "idle"
    BY <1>1, <1>5, <2>1 DEF Begin, Goto, Inv, TypeOK
  <2>3. \A q \in Procs : pc'[q] \notin {"dedup", "store"}
    BY <2>2
  <2>4. QED
    BY <2>1, <2>2, <2>3 DEF RunsAlone, Fresh
<1>6. ASSUME NEW p \in Procs, NEW i \in Ids, Sift(p, i) PROVE ~clash /\ RunsAlone'
  <2>1. pc[p] \in {"cleanup", "attempt"} /\ pc' = pc /\ clash' = clash
    BY <1>6 DEF Sift
  <2>2. Fresh(p)'
    BY <2>1 DEF Fresh
  <2>3. QED
    BY <1>3, <2>1, <2>2
<1>7. ASSUME NEW p \in Procs, FindDuplicates(p) PROVE ~clash /\ RunsAlone'
  <2>1. /\ pc[p] = "cleanup" /\ items' = items /\ clash' = clash
        /\ pc'[p] = "dedup" /\ todo'[p] = Groups(items) /\ seen'[p] = items
        /\ \A q \in Procs \ {p} : pc'[q] = pc[q]
    BY <1>1, <1>7 DEF FindDuplicates, Goto, tables, history, Inv, TypeOK, Holdings
  <2>2. Fresh(p)'
    BY <2>1 DEF Fresh
  <2>3. QED
    BY <1>3, <2>1, <2>2
<1>8. ASSUME NEW p \in Procs, NEW g \in SUBSET Ids, Merge(p, g) PROVE ~clash /\ RunsAlone'
  <2>1. pc[p] = "dedup" /\ pc' = pc /\ clash' = clash
    BY <1>8 DEF Merge, history
  <2>2. Fresh(p)'
    BY <1>8, <2>1, MergeFresh
  <2>3. QED
    BY <1>3, <2>1, <2>2
<1>9. ASSUME NEW p \in Procs, NEW kind \in Kinds, NEW touched \in Touched,
             NEW t \in Tickets, NEW severe \in BOOLEAN, Fail(p, kind, touched, t, severe)
      PROVE  ~clash /\ RunsAlone'
  <2>1. /\ pc[p] \in {"attempt", "count"} /\ items' = items /\ clash' = clash
        /\ pc'[p] = "store" /\ \A q \in Procs \ {p} : pc'[q] = pc[q]
    BY <1>1, <1>9 DEF Fail, Goto, tables, history, Inv, TypeOK
  <2>2. pending'[p].id = created + 1 /\ created + 1 \in Ids /\ created \in Nat
    <3>1. created \in 0..MaxItems /\ created < MaxItems /\ MaxItems \in Nat
      BY <1>1, <1>9 DEF Fail, Inv, TypeOK
    <3>2. created + 1 \in Ids /\ created \in Nat
      BY <3>1 DEF Ids
    <3>3. QED
      BY <1>1, <1>9, <3>2 DEF Fail, Inv, TypeOK
  <2>3. items[created + 1] = None
    BY <2>2 DEF LiveInv, Numbered, Stored
  <2>4. Fresh(p)'
    BY <2>1, <2>2, <2>3 DEF Fresh
  <2>5. QED
    BY <1>3, <2>1, <2>4
<1>10. ASSUME NEW p \in Procs, StoreItem(p) PROVE ~clash /\ RunsAlone'
  <2> DEFINE s == IF pending[p].severe THEN "rule" ELSE "ticket"
  <2>1. /\ s \in Stages /\ s \notin {"dedup", "store"} /\ Goto(p, s, {})
        /\ pc[p] # "idle" /\ clash' = clash
    BY <1>10 DEF StoreItem, Stages, history
  <2> HIDE DEF s
  <2>2. QED
    BY <1>4, <2>1
<1>11. CASE Next
  <2>1. {"ticket", "attempt", "count", "rule", "promote", "idle"} \subseteq Stages
    BY DEF Stages
  <2>2. ASSUME NEW p \in Procs, Start(p) PROVE ~clash /\ RunsAlone'
    <3>1. CASE EndDedup(p)
      BY <1>4, <2>1, <3>1 DEF EndDedup, history
    <3>2. QED
      BY <1>5, <1>6, <1>7, <1>8, <2>2, <3>1 DEF Start
  <2>3. ASSUME NEW p \in Procs, Ticket(p) PROVE ~clash /\ RunsAlone'
    <3>1. ASSUME NEW chosen \in SUBSET Ids, Retrieve(p, chosen) PROVE ~clash /\ RunsAlone'
      BY <1>4, <2>1, <3>1 DEF Retrieve, history
    <3>2. ASSUME NEW fires \in SUBSET Tickets, Enforce(p, fires) PROVE ~clash /\ RunsAlone'
      BY <1>4, <2>1, <3>2 DEF Enforce, history
    <3>3. ASSUME NEW t \in Tickets, Increment(p, t) PROVE ~clash /\ RunsAlone'
      <4>1. pc[p] = "count" /\ pc' = pc /\ clash' = clash
        BY <3>3 DEF Increment
      <4>2. Fresh(p)'
        BY <4>1 DEF Fresh
      <4>3. QED
        BY <1>3, <4>1, <4>2
    <3>4. CASE Pass(p)
      BY <1>4, <2>1, <3>4 DEF Pass, history
    <3>5. CASE StoreRule(p)
      BY <1>4, <2>1, <3>5 DEF StoreRule, history
    <3>6. CASE Locked(p)
      <4>1. CASE Goto(p, "ticket", {})
        BY <1>4, <2>1, <3>6, <4>1 DEF Locked, history
      <4>2. ASSUME NEW t \in todo[p], pc[p] = "count", Goto(p, "count", todo[p] \ {t})
            PROVE  ~clash /\ RunsAlone'
        <5>1. pc' = pc /\ clash' = clash
          BY <1>1, <3>6, <4>2 DEF Locked, Goto, history, Inv, TypeOK
        <5>2. Fresh(p)'
          BY <4>2, <5>1 DEF Fresh
        <5>3. QED
          BY <1>3, <4>2, <5>1, <5>2
      <4>3. QED
        BY <3>6, <4>1, <4>2 DEF Locked
    <3>7. QED
      BY <1>9, <1>10, <2>3, <3>1, <3>2, <3>3, <3>4, <3>5, <3>6 DEF Ticket
  <2>4. ASSUME NEW p \in Procs, Finish(p) \/ Promote(p) \/ Die(p)
        PROVE  ~clash /\ RunsAlone'
    <3>1. CASE Finish(p)
      BY <1>4, <2>1, <3>1 DEF Finish, history
    <3>2. CASE Promote(p)
      BY <1>4, <2>1, <3>2 DEF Promote, history
    <3>3. CASE Die(p)
      BY <1>4, <2>1, <3>3 DEF Die, history
    <3>4. QED
      BY <2>4, <3>1, <3>2, <3>3
  <2>5. ASSUME NEW t \in Tickets, PromoteToEnforced(t) PROVE ~clash /\ RunsAlone'
    BY <1>2, <2>5 DEF PromoteToEnforced, process, history
  <2>6. ASSUME NEW p \in Procs, NEW files \in Trees, Edit(p, files)
        PROVE  ~clash /\ RunsAlone'
    BY <1>2, <2>6 DEF Edit, tables, process, history
  <2>7. CASE Tick
    BY <1>2, <2>7 DEF Tick, tables, process, history
  <2>8. QED
    BY <1>11, <2>2, <2>3, <2>4, <2>5, <2>6, <2>7 DEF Next
<1>12. CASE UNCHANGED vars
  BY <1>2, <1>12 DEF vars, tables, process, history
<1>13. QED
  BY <1>11, <1>12

LEMMA FilesStep ==
  LiveInv /\ RunsAlone /\ FilesKept /\ Inv' /\ [Next]_vars => FilesKept'
<1> SUFFICES ASSUME LiveInv, RunsAlone, FilesKept, Inv', [Next]_vars PROVE FilesKept'
  OBVIOUS
<1>1. Inv /\ HeirsAreNewer /\ Settled
  BY DEF LiveInv
<1>2. ASSUME UNCHANGED items PROVE FilesKept'
  BY <1>2 DEF FilesKept, Stored
<1>3. \A i \in Stored : items[i].by # None => items[i].by \in Stored
  BY <1>1 DEF HeirsAreNewer, Stored
<1>4. ASSUME NEW p \in Procs, NEW i \in Ids, Sift(p, i) PROVE FilesKept'
  <2>1. Stored' = Stored /\ \A j \in Stored : /\ items'[j].by = items[j].by
                                              /\ items'[j].files = items[j].files
    BY <1>1, <1>4, SiftItems
  <2>2. QED
    BY <1>3, <2>1 DEF FilesKept
<1>5. ASSUME NEW p \in Procs, NEW g \in SUBSET Ids, Merge(p, g) PROVE FilesKept'
  <2> DEFINE k == Keeper(g)
             union == UNION {seen[p][i].files : i \in g}
  <2>1. /\ Stored' = Stored /\ g \subseteq Stored /\ k \in g
        /\ \A i \in Ids \ g : items'[i] = items[i]
        /\ \A i \in g \ {k} : items'[i].by = k /\ items'[i].files = items[i].files
        /\ items'[k].by = items[k].by /\ items'[k].files = union
    BY <1>1, <1>5, MergeItems
  <2>2. \A i \in g : items[i] = seen[p][i]
    BY <1>5 DEF RunsAlone, Fresh, Merge
  <2>3. items[k].by = None
    <3>1. g \in Groups(seen[p])
      BY <1>5 DEF RunsAlone, Fresh, Merge
    <3>2. g \subseteq Active(seen[p])
      BY <3>1 DEF Groups
    <3>3. seen[p][k].status = "active"
      BY <2>1, <3>2 DEF Active
    <3>4. QED
      BY <1>1, <2>1, <2>2, <3>3 DEF Settled
  <2>4. \A i \in g : items[i].files \subseteq union
    BY <2>2
  <2>5. Stored \subseteq Ids
    BY DEF Stored
  <2> HIDE DEF k, union
  <2>6. \A i \in Stored : items[i].files \subseteq items'[i].files
    BY <2>1, <2>4, <2>5
  <2> SUFFICES ASSUME NEW i \in Stored, items'[i].by # None
               PROVE  items'[i].files \subseteq items'[items'[i].by].files
    BY <2>1 DEF FilesKept
  <2>7. CASE i \in g
    <3>1. i # k
      BY <2>1, <2>3
    <3>2. QED
      BY <2>1, <2>4, <2>7, <3>1
  <2>8. CASE i \notin g
    <3>1. items'[i] = items[i] /\ items[i].by \in Stored
      BY <1>3, <2>1, <2>5, <2>8
    <3>2. items[i].files \subseteq items[items[i].by].files
      BY <3>1 DEF FilesKept
    <3>3. QED
      BY <2>6, <3>1, <3>2
  <2>9. QED
    BY <2>7, <2>8
<1>6. ASSUME NEW p \in Procs, StoreItem(p) PROVE FilesKept'
  <2> DEFINE n == pending[p].id
  <2>1. n \notin Stored
    BY <1>6 DEF RunsAlone, Fresh, StoreItem, Stored
  <2>2. /\ Stored' = Stored \cup {n} /\ items'[n].by = None
        /\ \A i \in Ids \ {n} : items'[i] = items[i]
    BY <1>1, <1>6, StoreItems
  <2>3. \A i \in Stored : items'[i] = items[i]
    BY <2>1, <2>2 DEF Stored
  <2> HIDE DEF n
  <2>4. QED
    BY <1>3, <2>2, <2>3 DEF FilesKept
<1>7. CASE Next
  <2>1. ASSUME NEW p \in Procs, Start(p) PROVE FilesKept'
    BY <1>2, <1>4, <1>5, <2>1 DEF Start, Begin, FindDuplicates, EndDedup, tables
  <2>2. ASSUME NEW p \in Procs, Ticket(p) PROVE FilesKept'
    BY <1>2, <1>6, <2>2
       DEF Ticket, Retrieve, Enforce, Increment, Pass, Fail, StoreRule, Locked, tables
  <2>3. ASSUME NEW p \in Procs, Finish(p) \/ Promote(p) \/ Die(p) PROVE FilesKept'
    BY <1>2, <2>3 DEF Finish, Promote, Die, tables
  <2>4. ASSUME NEW t \in Tickets, PromoteToEnforced(t) PROVE FilesKept'
    BY <1>2, <2>4 DEF PromoteToEnforced
  <2>5. ASSUME NEW p \in Procs, NEW files \in Trees, Edit(p, files) PROVE FilesKept'
    BY <1>2, <2>5 DEF Edit, tables
  <2>6. CASE Tick
    BY <1>2, <2>6 DEF Tick, tables
  <2>7. QED
    BY <1>7, <2>1, <2>2, <2>3, <2>4, <2>5, <2>6 DEF Next
<1>8. CASE UNCHANGED vars
  BY <1>2, <1>8 DEF vars, tables
<1>9. QED
  BY <1>7, <1>8

LEMMA LiveInvHolds == Spec => []LiveInv
<1>1. Init => LiveInv
  <2> SUFFICES ASSUME Init PROVE LiveInv
    OBVIOUS
  <2>1. Inv
    BY InitInv
  <2>2. \A i \in Stored : items[i].status = "active" /\ items[i].by = None /\ i <= created
    BY DEF Init, Stored, Lesson
  <2>3. HeirsAreNewer /\ Settled /\ FilesKept
    BY <2>2 DEF HeirsAreNewer, Settled, FilesKept, Stored
  <2>4. Numbered
    BY <2>2 DEF Init, Numbered
  <2>5. RunsAlone
    BY DEF Init, RunsAlone, Fresh
  <2>6. QED
    BY <2>1, <2>3, <2>4, <2>5 DEF LiveInv
<1>2. LiveInv /\ [Next]_vars => LiveInv'
  <2> SUFFICES ASSUME LiveInv, [Next]_vars PROVE LiveInv'
    OBVIOUS
  <2>1. Inv'
    BY StepInv DEF LiveInv
  <2>2. HeirsAreNewer'
    BY HeirsStep DEF LiveInv
  <2>3. Settled' /\ Numbered'
    BY <2>1, SettledStep, NumberedStep
  <2>4. ~clash' => ~clash /\ RunsAlone'
    BY AloneKept
  <2>5. ~clash' => FilesKept'
    BY <2>1, <2>4, FilesStep DEF LiveInv
  <2>6. QED
    BY <2>1, <2>2, <2>3, <2>4, <2>5 DEF LiveInv
<1>3. QED
  BY <1>1, <1>2, PTL DEF Spec

\* An heir is in the table, at least as new, superseded by nothing; and it
\* names the files of what it inherits from where no runs overlapped.
Inherits(i) ==
  /\ Heir[i] \in Stored /\ i <= Heir[i] /\ items[Heir[i]].by = None
  /\ ~clash => items[i].files \subseteq items[Heir[i]].files

LEMMA HeirsInherit ==
  ASSUME LiveInv, NEW i \in Stored
  PROVE  Inherits(i)
<1> DEFINE lost == {j \in Stored : ~Inherits(j)}
<1>1. Stored \subseteq Ids /\ Ids \subseteq Nat
  BY DEF Stored, Ids
<1>2. ASSUME lost # {} PROVE FALSE
  <2> DEFINE k == Keeper(lost)
  <2>1. k \in Stored /\ ~Inherits(k) /\ \A j \in Stored : ~Inherits(j) => j <= k
    <3>1. lost \in SUBSET Ids
      BY <1>1
    <3>2. k \in lost /\ \A j \in lost : j <= k
      <4> HIDE DEF lost
      <4>1. QED
        BY <1>2, <3>1, KeeperIsNewest
    <3>3. QED
      BY <3>2
  <2> HIDE DEF k
  <2>2. k \in Ids /\ k \in Nat
    BY <1>1, <2>1
  <2>3. CASE items[k].by = None
    <3>1. Heir[k] = k
      BY <2>2, <2>3, HeirFollows DEF LiveInv
    <3>2. QED
      BY <2>1, <2>2, <2>3, <3>1 DEF Inherits
  <2>4. CASE items[k].by # None
    <3> DEFINE n == items[k].by
    <3>1. n \in Stored /\ n > k
      BY <2>1, <2>2, <2>4 DEF LiveInv, HeirsAreNewer, Stored
    <3>2. Heir[k] = Heir[n]
      BY <2>1, <2>2, <2>4, HeirFollows DEF LiveInv
    <3>3. ~clash => items[k].files \subseteq items[n].files
      BY <2>1, <2>4 DEF LiveInv, FilesKept
    <3> HIDE DEF n
    <3>4. n \in Nat /\ Inherits(n)
      BY <1>1, <2>1, <2>2, <3>1
    <3>5. Heir[n] \in Nat
      BY <1>1, <3>4 DEF Inherits
    <3>6. Inherits(k)
      BY <2>2, <3>1, <3>2, <3>3, <3>4, <3>5 DEF Inherits
    <3>7. QED
      BY <2>1, <3>6
  <2>5. QED
    BY <2>3, <2>4
<1>3. QED
  BY <1>2

\* No lesson gets lost between runs that retire and merge what others store:
\* over any number of merges each comes to one that is active, unless a run
\* did not find that one's primary file or the lesson is past its date; and as
\* long as no two runs overlapped, that one names all its files.
THEOREM LessonsSurvive == Spec => []LessonsLive
<1>1. LiveInv => LessonsLive
  <2> SUFFICES ASSUME LiveInv, NEW i \in Stored
               PROVE  /\ \/ items[Heir[i]].status = "active"
                         \/ Heir[i] \in missed \/ i <= expired
                      /\ ~clash => items[i].files \subseteq items[Heir[i]].files
    BY Zenon DEF LessonsLive
  <2>1. Inherits(i)
    BY HeirsInherit
  <2> DEFINE heir == Heir[i]
  <2>2. /\ heir \in Stored /\ i <= heir /\ items[heir].by = None
        /\ ~clash => items[i].files \subseteq items[heir].files
    BY <2>1 DEF Inherits
  <2> HIDE DEF heir
  <2>3. items[heir].status \in {"active", "stale", "superseded"}
    BY <2>2 DEF LiveInv, Inv, TypeOK, Item, Stored
  <2>4. items[heir].status # "superseded"
    BY <2>2 DEF LiveInv, Settled
  <2>5. items[heir].status = "stale" => heir \in missed \/ heir <= expired
    BY <2>2 DEF LiveInv, Settled
  <2>6. i \in Nat /\ heir \in Nat /\ expired \in Nat
    BY <2>2 DEF LiveInv, Inv, TypeOK, Stored, Ids
  <2>7. items[heir].status = "active" \/ heir \in missed \/ i <= expired
    BY <2>2, <2>3, <2>4, <2>5, <2>6
  <2>8. QED
    BY <2>2, <2>7 DEF heir
<1>2. QED
  BY <1>1, LiveInvHolds, PTL
=============================================================================
