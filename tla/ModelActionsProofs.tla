-------------------------- MODULE ModelActionsProofs --------------------------
(***************************************************************************)
(* Theorems about ModelActions, for any number of actions, models,         *)
(* overlapping handlers and faults.                                        *)
(*                                                                         *)
(* A copy of the node that nobody has overtaken is fresh: memory, the      *)
(* file, and the record of a handler that read the node and was not made   *)
(* stale since.  Every write that is heard makes memory and file the same  *)
(* and leaves no other fresh copy, so that what is said of the fresh ones  *)
(* can be kept; a stale write counts as a slip, which the properties       *)
(* allow for.                                                              *)
(***************************************************************************)
EXTENDS ModelActions, SequenceTheorems, FiniteSetTheorems, TLAPS

\* A copy of the node in order, whose actions are in the set c.
Sane(r, c) ==
    /\ r \in Record
    /\ Coherent(r)
    /\ \A i \in 1..Len(r.actions) : r.actions[i].id \in c
    /\ Counted(r)
    /\ r.control = "passive" =>
          \A m \in DOMAIN r.models : r.models[m].state = "installed" /\ r.models[m].keep = FALSE

\* The call is about the first action of the copy that its handler writes.
About(q, r) ==
    q.kind # "none" =>
        /\ q.id \in Actions /\ q.status \in Statuses
        /\ Len(r.actions) > 0
        /\ r.actions[1].id = q.id /\ r.actions[1].status = q.status
        /\ q.kind = "claim" => q.status = "running"
        /\ q.kind = "report" => r.control = "managed"
        /\ q.kind = "report" /\ q.status = "completed" =>
              LET x == r.actions[1]
              IN  x.model \in DOMAIN r.models => r.models[x.model].keep = x.desired

\* The inductive invariant behind the coherence of the records.
RecordsInv ==
    /\ TypeOK
    /\ Sane(node, created) /\ Sane(disk, created)
    /\ \A h \in Handlers : pending[h] # None =>
          Sane(pending[h], created) /\ About(call[h], pending[h])

Fresh(h) == pending[h] # None /\ stale[h] = FALSE
Queued(r, a) == \E i \in 1..Len(r.actions) : r.actions[i].id = a /\ r.actions[i].status = "queued"

\* The action may be handed out once more.
Room(a) == handed[a] < 1 + requeued[a] + slips

\* The inductive invariant behind HandedOutOnce: what a fresh copy has queued,
\* or a fresh handler is about to hand out, may be handed out once more.
HandInv ==
    /\ HandedOutOnce
    /\ \A a \in Actions \ created : handed[a] = 0
    /\ \A a \in Actions : Queued(node, a) \/ Queued(disk, a) => Room(a)
    /\ \A h \in Handlers, a \in Actions :
          Fresh(h) /\ (Queued(pending[h], a) \/ (call[h].kind = "claim" /\ call[h].id = a)) => Room(a)

\* The copy says what was acknowledged (k) and has the desires (d) that were.
Stands(r, k, d) ==
    /\ \A i \in 1..Len(r.actions) : k[r.actions[i].id] \in {None, r.actions[i].status}
    /\ \A m \in Models : d[m] # None =>
          r.control = "managed" /\ m \in DOMAIN r.models /\ d[m] = r.models[m].keep

\* The inductive invariant behind AcknowledgedReportStands.
StandInv ==
    /\ \A a \in Actions \ created : acked[a] = None
    /\ slips = 0 =>
          /\ Stands(node, acked, desire) /\ Stands(disk, acked, desire)
          /\ \A h \in Handlers : Fresh(h) => Stands(pending[h], acked, desire)
-------------------------------------------------------------------------------
(* The list of actions *)

\* Removing position i of a sequence moves the later elements down by one.
LEMMA RemoveAtFacts ==
    ASSUME NEW S, NEW s \in Seq(S), NEW i \in 1..Len(s)
    PROVE  /\ RemoveAt(s, i) \in Seq(S)
           /\ Len(RemoveAt(s, i)) = Len(s) - 1
           /\ \A j \in 1..(Len(s) - 1) :
                 RemoveAt(s, i)[j] = IF j < i THEN s[j] ELSE s[j + 1]
<1> DEFINE front == SubSeq(s, 1, i - 1)
           back  == SubSeq(s, i + 1, Len(s))
<1>1. front \in Seq(S) /\ Len(front) = i - 1 /\ \A j \in 1..(i - 1) : front[j] = s[j]
  OBVIOUS
<1>2. /\ back \in Seq(S)
      /\ Len(back) = Len(s) - i
      /\ \A j \in 1..(Len(s) - i) : back[j] = s[i + j]
  OBVIOUS
<1> HIDE DEF front, back
<1>3. /\ front \o back \in Seq(S)
      /\ Len(front \o back) = Len(s) - 1
      /\ \A j \in 1..(Len(s) - 1) :
            (front \o back)[j] = IF j < i THEN s[j] ELSE s[j + 1]
  <2>1. front \o back \in Seq(S) /\ Len(front \o back) = Len(s) - 1
    BY <1>1, <1>2
  <2>2. ASSUME NEW j \in 1..(Len(s) - 1), j < i
        PROVE  (front \o back)[j] = s[j]
    BY <1>1, <1>2, <2>2
  <2>3. ASSUME NEW j \in 1..(Len(s) - 1), ~(j < i)
        PROVE  (front \o back)[j] = s[j + 1]
    <3>1. (front \o back)[j] = back[j - (i - 1)]
      BY <1>1, <1>2, <2>3
    <3>2. j - (i - 1) \in 1..(Len(s) - i) /\ i + (j - (i - 1)) = j + 1
      BY <1>1, <2>3
    <3> QED
      BY <1>2, <3>1, <3>2
  <2> QED
    BY <2>1, <2>2, <2>3
<1> QED
  BY <1>3 DEF RemoveAt, front, back

\* What the cut list holds is the new element or was there before.
LEMMA PrependElements ==
    ASSUME NEW S, NEW e \in S, NEW s \in Seq(S), NEW n \in Nat,
           NEW t, t = SubSeq(<<e>> \o s, 1, IF Len(s) < n THEN Len(s) + 1 ELSE n)
    PROVE  /\ t \in Seq(S)
           /\ Len(t) = IF Len(s) < n THEN Len(s) + 1 ELSE n
           /\ Len(t) > 0 => t[1] = e
           /\ \A i \in 2..Len(t) : i - 1 \in 1..Len(s) /\ t[i] = s[i - 1]
<1> DEFINE u == <<e>> \o s
           m == IF Len(s) < n THEN Len(s) + 1 ELSE n
<1>1. u \in Seq(S) /\ Len(u) = Len(s) + 1
  OBVIOUS
<1>2. m \in 0..Len(u)
  BY <1>1
<1>3. u[1] = e /\ \A i \in 2..Len(u) : i - 1 \in 1..Len(s) /\ u[i] = s[i - 1]
  BY <1>1
<1> HIDE DEF u, m
<1>4. SubSeq(u, 1, m) \in Seq(S) /\ Len(SubSeq(u, 1, m)) = m /\ \A i \in 1..m : SubSeq(u, 1, m)[i] = u[i]
  BY <1>1, <1>2
<1>5. t = SubSeq(u, 1, m)
  BY DEF u, m
<1> QED
  BY <1>1, <1>2, <1>3, <1>4, <1>5 DEF m

\* A bounded list that holds nothing twice.
InOrder(L) ==
    /\ L \in Seq(Action) /\ Len(L) <= MaxActions
    /\ \A i, j \in 1..Len(L) : L[i].id = L[j].id => i = j

\* The list as it is, with x in place of its old copy, or new: nothing twice.
LEMMA UpsertElements ==
    ASSUME NEW L, InOrder(L), NEW x \in Action, NEW u, u = upsertModelLifecycleAction(L, x)
    PROVE  /\ InOrder(u) /\ Len(u) > 0 /\ u[1] = x
           /\ \A k \in 1..Len(u) :
                 k = 1 \/ (u[k].id # x.id /\ \E i \in 1..Len(L) : u[k] = L[i])
<1> USE DEF InOrder
<1>1. MaxActions \in Nat \ {0} /\ Len(L) \in Nat
  BY ActionsAssumption
<1>2. ASSUME NEW rest \in Seq(Action), Len(rest) <= Len(L),
             \A i, j \in 1..Len(rest) : rest[i].id = rest[j].id => i = j,
             \A i \in 1..Len(rest) : rest[i].id # x.id /\ \E k \in 1..Len(L) : rest[i] = L[k],
             u = SubSeq(<<x>> \o rest, 1, IF Len(rest) < MaxActions THEN Len(rest) + 1 ELSE MaxActions)
      PROVE  /\ u \in Seq(Action) /\ Len(u) > 0 /\ Len(u) <= MaxActions /\ u[1] = x
             /\ \A k \in 1..Len(u) :
                   k = 1 \/ (u[k].id # x.id /\ \E i \in 1..Len(L) : u[k] = L[i])
             /\ \A i, j \in 1..Len(u) : u[i].id = u[j].id => i = j
  <2>a. \A i \in 1..Len(rest) : rest[i].id # x.id /\ \E k \in 1..Len(L) : rest[i] = L[k]
    BY <1>2
  <2>1. /\ u \in Seq(Action)
        /\ Len(u) = IF Len(rest) < MaxActions THEN Len(rest) + 1 ELSE MaxActions
        /\ Len(u) > 0 => u[1] = x
        /\ \A i \in 2..Len(u) : i - 1 \in 1..Len(rest) /\ u[i] = rest[i - 1]
    BY <1>1, <1>2, PrependElements
  <2>2. Len(u) \in Nat /\ Len(u) > 0 /\ Len(u) <= MaxActions
    BY <1>1, <2>1
  <2>3. \A k \in 1..Len(u) : k # 1 => k \in 2..Len(u)
    BY <2>2
  <2>4. ASSUME NEW k \in 1..Len(u), k # 1
        PROVE  u[k].id # x.id /\ \E i \in 1..Len(L) : u[k] = L[i]
    <3>1. k - 1 \in 1..Len(rest) /\ u[k] = rest[k - 1]
      BY <2>1, <2>3, <2>4
    <3>2. PICK y : y = rest[k - 1]
      OBVIOUS
    <3>3. y.id # x.id /\ \E i \in 1..Len(L) : y = L[i]
      BY <2>a, <3>1, <3>2
    <3> QED
      BY <3>1, <3>2, <3>3
  <2>5. ASSUME NEW i \in 1..Len(u), NEW j \in 1..Len(u), u[i].id = u[j].id, i # 1, j # 1
        PROVE  i = j
    <3>1. i - 1 \in 1..Len(rest) /\ u[i] = rest[i - 1] /\ j - 1 \in 1..Len(rest) /\ u[j] = rest[j - 1]
      BY <2>1, <2>3, <2>5
    <3>2. i - 1 = j - 1
      BY <1>2, <2>5, <3>1
    <3> QED
      BY <3>2
  <2>6. ASSUME NEW i \in 1..Len(u), NEW j \in 1..Len(u), u[i].id = u[j].id
        PROVE  i = j
    BY <2>1, <2>2, <2>4, <2>5, <2>6
  <2> QED
    BY <2>1, <2>2, <2>4, <2>6
<1>3. CASE Has(L, x.id)
  <2>1. PICK p : p = Find(L, x.id)
    OBVIOUS
  <2>2. p \in 1..Len(L) /\ L[p].id = x.id
    BY <1>3, <2>1 DEF Has, Find
  <2>3. PICK rest : rest = RemoveAt(L, p)
    OBVIOUS
  <2>4. /\ rest \in Seq(Action)
        /\ Len(rest) = Len(L) - 1
        /\ \A j \in 1..(Len(L) - 1) : rest[j] = IF j < p THEN L[j] ELSE L[j + 1]
    BY <2>2, <2>3, RemoveAtFacts
  <2>5. ASSUME NEW i \in 1..Len(rest)
        PROVE  \E k \in 1..Len(L) :
                  rest[i] = L[k] /\ k # p /\ (i < p => k = i) /\ (i >= p => k = i + 1)
    <3>1. CASE i < p
      <4>1. i \in 1..Len(L) /\ rest[i] = L[i]
        BY <1>1, <2>2, <2>4, <3>1
      <4> QED
        BY <1>1, <2>2, <3>1, <4>1
    <3>2. CASE ~ (i < p)
      <4>1. i + 1 \in 1..Len(L) /\ rest[i] = L[i + 1] /\ i + 1 # p
        BY <1>1, <2>2, <2>4, <3>2
      <4> QED
        BY <3>2, <4>1
    <3> QED
      BY <3>1, <3>2
  <2>6. \A i, j \in 1..Len(rest) : rest[i].id = rest[j].id => i = j
    BY <1>1, <2>2, <2>4, <2>5
  <2>7. \A i \in 1..Len(rest) : rest[i].id # x.id /\ \E k \in 1..Len(L) : rest[i] = L[k]
    BY <2>2, <2>5
  <2>8. Len(rest) <= Len(L)
    BY <1>1, <2>4
  <2> QED
    BY <1>2, <1>3, <2>1, <2>3, <2>4, <2>6, <2>7, <2>8 DEF upsertModelLifecycleAction
<1>4. CASE ~ Has(L, x.id)
  <2>1. \A i \in 1..Len(L) : L[i].id # x.id /\ \E k \in 1..Len(L) : L[i] = L[k]
    BY <1>4 DEF Has
  <2>2. Len(L) <= Len(L)
    BY <1>1
  <2>3. u = SubSeq(<<x>> \o L, 1, IF Len(L) < MaxActions THEN Len(L) + 1 ELSE MaxActions)
    BY <1>4 DEF upsertModelLifecycleAction
  <2> QED
    BY <1>2, <2>1, <2>2, <2>3
<1> QED
  BY <1>3, <1>4
-------------------------------------------------------------------------------
(* The record *)

\* An inventory is a function on some of the models.
LEMMA InventoryFacts ==
    ASSUME NEW inv
    PROVE  inv \in Inventory <=> DOMAIN inv \subseteq Models /\ inv \in [DOMAIN inv -> ModelState]
  BY DEF Inventory

\* The counts are numbers, and those of warm and kept models are 0 where there
\* is none.
LEMMA SummaryFacts ==
    ASSUME NEW inv \in Inventory
    PROVE  /\ Summary(inv) \in [count : Nat, warm : Nat, keep : Nat]
           /\ Summary(inv).count \in Nat
           /\ (\A m \in DOMAIN inv : inv[m].state # "warm" /\ inv[m].keep = FALSE) =>
                 Summary(inv).warm = 0 /\ Summary(inv).keep = 0
<1>1. PICK d, w, k : /\ d = DOMAIN inv
                     /\ w = {m \in DOMAIN inv : inv[m].state = "warm"}
                     /\ k = {m \in DOMAIN inv : inv[m].keep}
  OBVIOUS
<1>2. Summary(inv) = [count |-> Cardinality(d), warm |-> Cardinality(w), keep |-> Cardinality(k)]
  BY <1>1 DEF Summary
<1>3. d \in SUBSET Models /\ w \in SUBSET Models /\ k \in SUBSET Models
  BY <1>1, InventoryFacts
<1>4. IsFiniteSet(d) /\ IsFiniteSet(w) /\ IsFiniteSet(k)
  BY <1>3, ActionsAssumption, FS_Subset
<1>5. Cardinality(d) \in Nat /\ Cardinality(w) \in Nat /\ Cardinality(k) \in Nat
  BY <1>4, FS_CardinalityType
<1>6. ASSUME \A m \in DOMAIN inv : inv[m].state # "warm" /\ inv[m].keep = FALSE
      PROVE  Cardinality(w) = 0 /\ Cardinality(k) = 0
  <2>1. w = {} /\ k = {}
    BY <1>1, <1>6
  <2> QED
    BY <2>1, FS_EmptySet
<1>7. Summary(inv) \in [count : Nat, warm : Nat, keep : Nat] /\ Summary(inv).count \in Nat
  BY <1>2, <1>5
<1>8. ASSUME \A m \in DOMAIN inv : inv[m].state # "warm" /\ inv[m].keep = FALSE
      PROVE  Summary(inv).warm = 0 /\ Summary(inv).keep = 0
  <2>1. Cardinality(w) = 0 /\ Cardinality(k) = 0
    BY <1>6, <1>8
  <2> QED
    BY <1>2, <2>1
<1> QED
  BY <1>7, <1>8

\* The counts of an inventory and of one with another model, not warm and not
\* kept.
LEMMA SummarySame ==
    ASSUME NEW inv \in Inventory, NEW m, m \notin DOMAIN inv, NEW big,
           big = [n \in DOMAIN inv \union {m} |->
                    IF n = m THEN [keep |-> FALSE, state |-> "installed"] ELSE inv[n]]
    PROVE  /\ Summary(big).warm = Summary(inv).warm /\ Summary(big).keep = Summary(inv).keep
           /\ Summary(inv).count <= Summary(big).count
<1>0. IsFiniteSet(DOMAIN inv)
  BY ActionsAssumption, InventoryFacts, FS_Subset
<1>a. PICK d, D : d = DOMAIN inv /\ D = DOMAIN big
  OBVIOUS
<1>b. IsFiniteSet(d) /\ D = d \union {m}
  BY <1>0, <1>a
<1>c. Cardinality(D) = Cardinality(d) + 1 /\ Cardinality(d) \in Nat
  BY <1>a, <1>b, FS_AddElement, FS_CardinalityType
<1>d. Summary(inv).count <= Summary(big).count
  BY <1>a, <1>c DEF Summary
<1>1. {n \in DOMAIN big : big[n].state = "warm"} = {n \in DOMAIN inv : inv[n].state = "warm"}
  OBVIOUS
<1>2. {n \in DOMAIN big : big[n].keep} = {n \in DOMAIN inv : inv[n].keep}
  OBVIOUS
<1> QED
  BY <1>1, <1>2, <1>d DEF Summary

\* What an added action makes of a copy of the node.
LEMMA ActionSane ==
    ASSUME NEW e, NEW r, Sane(r, e), r.control = "managed",
           NEW x \in Action, x.id \in e, NEW n, n = WithAction(r, x)
    PROVE  /\ Sane(n, e)
           /\ n.control = r.control /\ n.models = r.models
           /\ Len(n.actions) > 0 /\ n.actions[1] = x
           /\ \A k \in 1..Len(n.actions) :
                 k = 1 \/ (n.actions[k].id # x.id /\ \E i \in 1..Len(r.actions) : n.actions[k] = r.actions[i])
<1>1. r \in Record /\ InOrder(r.actions)
  BY DEF Sane, Coherent, Record, InOrder
<1>2. PICK u, g, L : u = upsertModelLifecycleAction(L, x) /\ g = [id |-> x.id, status |-> x.status] /\ L = r.actions
  OBVIOUS
<1>3. /\ u \in Seq(Action) /\ Len(u) > 0 /\ Len(u) <= MaxActions /\ u[1] = x
      /\ \A k \in 1..Len(u) : k = 1 \/ (u[k].id # x.id /\ \E i \in 1..Len(L) : u[k] = L[i])
      /\ \A i, j \in 1..Len(u) : u[i].id = u[j].id => i = j
  <2>0. InOrder(L) /\ u = upsertModelLifecycleAction(L, x)
    BY <1>1, <1>2
  <2>1. InOrder(u) /\ Len(u) > 0 /\ u[1] = x
        /\ \A k \in 1..Len(u) : k = 1 \/ (u[k].id # x.id /\ \E i \in 1..Len(L) : u[k] = L[i])
    BY <2>0, UpsertElements
  <2> QED
    BY <2>1 DEF InOrder
<1>4. n = [r EXCEPT !.actions = u, !.head = g]
  BY <1>2 DEF WithAction
<1>5. g \in [id : Actions \union {None}, status : Statuses \union {None}]
  BY <1>2 DEF Action
<1>6. /\ n \in Record /\ n.actions = u /\ n.head = g /\ n.control = r.control
      /\ n.models = r.models /\ n.summary = r.summary
  BY <1>1, <1>3, <1>4, <1>5 DEF Record
<1>7. u # <<>> /\ 1 \in 1..Len(u)
  BY <1>3, EmptySeq
<1>8. Coherent(n)
  BY <1>2, <1>3, <1>6, <1>7 DEF Coherent
<1>9. \A k \in 1..Len(u) : u[k].id \in e
  BY <1>2, <1>3 DEF Sane
<1>10. Counted(n)
  BY <1>6 DEF Sane, Counted
<1> QED
  BY <1>2, <1>3, <1>6, <1>8, <1>9, <1>10 DEF Sane

\* What a new inventory makes of a managed copy of the node.
LEMMA ModelsSane ==
    ASSUME NEW c, NEW r, Sane(r, c), r.control = "managed", NEW inv \in Inventory,
           NEW n, n = WithModels(r, inv)
    PROVE  /\ Sane(n, c) /\ n.control = r.control /\ n.models = inv /\ n.actions = r.actions
<1>1. PICK s : s = Summary(inv)
  OBVIOUS
<1>2. s \in [count : Nat, warm : Nat, keep : Nat] /\ s.count \in Nat
  BY <1>1, SummaryFacts
<1>3. n = [r EXCEPT !.models = inv, !.summary = s]
  BY <1>1 DEF WithModels
<1>4. /\ n \in Record /\ n.actions = r.actions /\ n.head = r.head /\ n.control = r.control
      /\ n.models = inv /\ n.summary = s
  BY <1>2, <1>3 DEF Record, Sane
<1>5. Counted(n)
  BY <1>1, <1>2, <1>4 DEF Counted
<1> QED
  BY <1>4, <1>5 DEF Sane, Coherent

\* Nothing here is about ready.
LEMMA ReadySane ==
    ASSUME NEW c, NEW r, Sane(r, c), NEW b \in BOOLEAN, NEW n, n = [r EXCEPT !.ready = b]
    PROVE  Sane(n, c) /\ n.control = r.control /\ n.models = r.models /\ n.actions = r.actions
<1>1. /\ n \in Record /\ n.actions = r.actions /\ n.head = r.head /\ n.control = r.control
      /\ n.models = r.models /\ n.summary = r.summary
  BY DEF Record, Sane
<1>2. Counted(n)
  BY <1>1 DEF Sane, Counted
<1> QED
  BY <1>1, <1>2 DEF Sane, Coherent

\* The inventory with a model that a benchmark result was for.
WithResult(inv, m) ==
    [k \in DOMAIN inv \union {m} |->
        IF k = m THEN [keep |-> FALSE, state |-> "installed"] ELSE inv[k]]

\* What a benchmark result makes of the inventory.
LEMMA ResultSane ==
    ASSUME NEW c, NEW r, Sane(r, c), r.control = "managed", NEW inv, inv = r.models,
           NEW m \in Models, m \notin DOMAIN inv,
           NEW big, big = WithResult(inv, m), NEW n, n = [r EXCEPT !.models = big]
    PROVE  /\ Sane(n, c) /\ n.control = r.control /\ n.actions = r.actions /\ n.models = big
           /\ \A k \in DOMAIN inv : k \in DOMAIN big /\ big[k] = inv[k]
<1>1. big = [k \in DOMAIN inv \union {m} |->
                IF k = m THEN [keep |-> FALSE, state |-> "installed"] ELSE inv[k]]
  BY DEF WithResult
<1>2. inv \in Inventory
  BY DEF Sane, Record
<1>3. big \in Inventory
  <2>1. DOMAIN inv \subseteq Models /\ inv \in [DOMAIN inv -> ModelState]
    BY <1>2, InventoryFacts
  <2>2. DOMAIN big = DOMAIN inv \union {m}
    BY <1>1
  <2>3. [keep |-> FALSE, state |-> "installed"] \in ModelState
    BY DEF ModelState
  <2>4. \A k \in DOMAIN big : big[k] \in ModelState
    BY <1>1, <2>1, <2>3
  <2>5. big \in [DOMAIN big -> ModelState]
    BY <1>1, <2>2, <2>4
  <2> QED
    BY <2>1, <2>2, <2>5, InventoryFacts
<1>4. /\ n \in Record /\ n.actions = r.actions /\ n.head = r.head /\ n.control = r.control
      /\ n.models = big /\ n.summary = r.summary
  BY <1>3 DEF Record, Sane
<1>5. /\ Summary(big).warm = Summary(inv).warm /\ Summary(big).keep = Summary(inv).keep
      /\ Summary(inv).count <= Summary(big).count
  BY <1>1, <1>2, SummarySame
<1>a. Summary(inv).count \in Nat /\ Summary(big).count \in Nat
  BY <1>2, <1>3, SummaryFacts
<1>b. r.summary.count \in Nat
  BY DEF Sane, Record
<1>c. r.summary.warm = Summary(inv).warm /\ r.summary.keep = Summary(inv).keep
      /\ r.summary.count <= Summary(inv).count
  BY DEF Sane, Counted
<1>d. Counted(n)
  BY <1>4, <1>5, <1>a, <1>b, <1>c DEF Counted
<1>6. Sane(n, c)
  BY <1>1, <1>4, <1>d DEF Sane, Coherent
<1> QED
  BY <1>1, <1>4, <1>6

\* What /api/tags lists is an inventory in which nothing is warm or kept.
LEMMA ListedFacts ==
    ASSUME NEW inv \in Inventory
    PROVE  /\ Listed(inv) \in Inventory
           /\ \A m \in DOMAIN Listed(inv) :
                 Listed(inv)[m].state = "installed" /\ Listed(inv)[m].keep = FALSE
           /\ Summary(Listed(inv)).warm = 0 /\ Summary(Listed(inv)).keep = 0
<1>1. PICK l : l = [m \in DOMAIN inv |-> [keep |-> FALSE, state |-> "installed"]]
  OBVIOUS
<1>2. DOMAIN l = DOMAIN inv /\ \A m \in DOMAIN l : l[m] = [keep |-> FALSE, state |-> "installed"]
  BY <1>1
<1>3. [keep |-> FALSE, state |-> "installed"] \in ModelState
  BY DEF ModelState
<1>4. l \in [DOMAIN l -> ModelState] /\ DOMAIN l \subseteq Models
  BY <1>1, <1>2, <1>3, InventoryFacts
<1>5. l \in Inventory
  BY <1>4, InventoryFacts
<1>6. \A m \in DOMAIN l : l[m].state = "installed" /\ l[m].keep = FALSE
  BY <1>2
<1>7. Summary(l).warm = 0 /\ Summary(l).keep = 0
  BY <1>5, <1>6, SummaryFacts
<1> QED
  BY <1>1, <1>5, <1>6, <1>7 DEF Listed

\* What a probe makes of a passive copy of the node.
LEMMA ProbeSane ==
    ASSUME NEW c, NEW r, Sane(r, c), r.control = "passive", NEW inv \in Inventory,
           NEW n, n = [r EXCEPT !.models = Listed(inv)]
    PROVE  Sane(n, c) /\ n.control = r.control /\ n.actions = r.actions
<1>1. PICK l : l = Listed(inv)
  OBVIOUS
<1>2. /\ l \in Inventory /\ Summary(l).warm = 0 /\ Summary(l).keep = 0
      /\ \A m \in DOMAIN l : l[m].state = "installed" /\ l[m].keep = FALSE
  BY <1>1, ListedFacts
<1>3. /\ n \in Record /\ n.actions = r.actions /\ n.head = r.head /\ n.control = r.control
      /\ n.models = l /\ n.summary = r.summary
  BY <1>1, <1>2 DEF Record, Sane
<1>4. r.models \in Inventory
  BY DEF Sane, Record
<1>5. r.summary.warm = 0 /\ r.summary.keep = 0
  <2>1. \A m \in DOMAIN r.models : r.models[m].state # "warm" /\ r.models[m].keep = FALSE
    BY DEF Sane
  <2>2. Summary(r.models).warm = 0 /\ Summary(r.models).keep = 0
    BY <1>4, <2>1, SummaryFacts
  <2> QED
    BY <2>2 DEF Sane, Counted
<1>6. Counted(n)
  BY <1>2, <1>3, <1>5 DEF Counted
<1> QED
  BY <1>2, <1>3, <1>6 DEF Sane, Coherent

\* A node as it is added is in order.
LEMMA AddedSane ==
    ASSUME NEW c, NEW control \in {"managed", "passive"}, NEW inv \in Inventory,
           control = "passive" =>
              \A m \in DOMAIN inv : inv[m].state = "installed" /\ inv[m].keep = FALSE,
           NEW n, n = Added(control, inv)
    PROVE  Sane(n, c) /\ n.control = control /\ n.models = inv /\ n.actions = <<>>
<1>1. Summary(inv) \in [count : Nat, warm : Nat, keep : Nat] /\ Summary(inv).count \in Nat
  BY SummaryFacts
<1>2. PICK e : e = <<>>
  OBVIOUS
<1>3. e \in Seq(Action) /\ Len(e) = 0 /\ Len(e) <= MaxActions
  BY <1>2, ActionsAssumption
<1>4. /\ n \in Record /\ n.control = control /\ n.models = inv /\ n.actions = e
      /\ n.head.id = None /\ n.summary = Summary(inv)
  BY <1>1, <1>2, <1>3 DEF Added, Record
<1>5. Counted(n)
  BY <1>1, <1>4 DEF Counted
<1> QED
  BY <1>2, <1>3, <1>4, <1>5 DEF Sane, Coherent

\* What a completed action makes of a managed copy of the node.
LEMMA CompletedSane ==
    ASSUME NEW c, NEW r, Sane(r, c), r.control = "managed", NEW x \in Action,
           NEW n, n = applyCompletedModelLifecycleAction(r, x)
    PROVE  /\ Sane(n, c) /\ n.control = r.control /\ n.actions = r.actions
           /\ DOMAIN n.models = DOMAIN r.models
           /\ \A m \in DOMAIN r.models : m # x.model => n.models[m] = r.models[m]
           /\ x.model \in DOMAIN n.models => n.models[x.model].keep = x.desired
<1>1. r.models \in Inventory /\ x.model \in Models /\ x.desired \in BOOLEAN
  BY DEF Sane, Record, Action
<1>2. CASE x.model \in DOMAIN r.models
  <2>1. PICK inv, s : inv = r.models /\ s = [keep |-> x.desired, state |-> IF x.desired THEN "warm" ELSE inv[x.model].state]
    OBVIOUS
  <2>2. PICK new : new = [inv EXCEPT ![x.model] = s]
    OBVIOUS
  <2>3. n = WithModels(r, new)
    BY <1>2, <2>1, <2>2 DEF applyCompletedModelLifecycleAction
  <2>4. DOMAIN inv \subseteq Models /\ inv \in [DOMAIN inv -> ModelState]
    BY <1>1, <2>1, InventoryFacts
  <2>5. s \in ModelState
    <3>1. inv[x.model].state \in {"installed", "warm"}
      BY <1>2, <2>1, <2>4 DEF ModelState
    <3> QED
      BY <1>1, <2>1, <3>1 DEF ModelState
  <2>6. DOMAIN new = DOMAIN inv /\ new \in [DOMAIN inv -> ModelState]
    BY <2>2, <2>4, <2>5
  <2>7. new \in Inventory
    BY <2>4, <2>6, InventoryFacts
  <2>8. Sane(n, c) /\ n.control = r.control /\ n.models = new /\ n.actions = r.actions
    BY <2>3, <2>7, ModelsSane
  <2>9. new[x.model].keep = x.desired
    BY <1>2, <2>1, <2>2
  <2>10. \A m \in DOMAIN inv : m # x.model => new[m] = inv[m]
    BY <2>2
  <2> QED
    BY <2>1, <2>6, <2>8, <2>9, <2>10
<1>3. CASE x.model \notin DOMAIN r.models
  <2>1. n = WithModels(r, r.models)
    BY <1>3 DEF applyCompletedModelLifecycleAction
  <2> QED
    BY <1>1, <1>3, <2>1, ModelsSane
<1> QED
  BY <1>2, <1>3
-------------------------------------------------------------------------------
(* What a handler has made of the node it read *)

\* Handler h sets out to write r, which is in order, is what its call q says,
\* has nothing queued that the node did not have queued, was new or reported
\* queued, and says what was acknowledged where the node says so.
Prepares(h, r, q) ==
    /\ Work(h, r, q)
    /\ Sane(r, created') /\ About(q, r) /\ q \in Call
    /\ created \subseteq created' /\ created' \subseteq Actions
    /\ requeued' \in [Actions -> Nat]
    /\ acked' \in [Actions -> Statuses \union {None}]
    /\ desire' \in [Models -> BOOLEAN \union {None}]
    /\ \A a \in Actions : requeued[a] <= requeued'[a] /\ acked'[a] \in {None, acked[a]}
    /\ \A m \in Models : desire'[m] \in {None, desire[m]}
    /\ \A a \in Actions : Queued(r, a) \/ (q.kind = "claim" /\ q.id = a) =>
          Queued(node, a) \/ a \notin created \/ requeued[a] < requeued'[a]
    /\ (\A a \in Actions \ created : acked[a] = None) /\ Stands(node, acked, desire) =>
          Stands(r, acked', desire')

\* The histories that a handler leaves alone.
LEMMA HistoryKept ==
    ASSUME TypeOK
    PROVE  /\ requeued \in [Actions -> Nat] /\ \A a \in Actions : requeued[a] <= requeued[a]
           /\ acked \in [Actions -> Statuses \union {None}]
           /\ desire \in [Models -> BOOLEAN \union {None}]
           /\ created \subseteq Actions
<1>1. \A a \in Actions : requeued[a] \in Nat
  BY DEF TypeOK
<1> QED
  BY <1>1 DEF TypeOK

\* The operator queues an action.
LEMMA QueuePrepares ==
    ASSUME RecordsInv, NEW h \in Handlers, NEW a \in Actions, NEW m \in Models, NEW d \in BOOLEAN,
           QueueAction(h, a, m, d)
    PROVE  \E r, q : Prepares(h, r, q)
<1>1. PICK x, q, r : /\ x = [id |-> a, model |-> m, desired |-> d, status |-> "queued"]
                     /\ q = [kind |-> "queue", id |-> a, status |-> "queued"]
                     /\ r = WithAction(node, x)
  OBVIOUS
<1>2. x \in Action /\ x.id = a /\ x.status = "queued"
  BY <1>1 DEF Action, Statuses
<1>3. /\ Work(h, r, q) /\ a \notin created /\ created' = created \union {a} /\ node.control = "managed"
      /\ requeued' = requeued /\ acked' = acked /\ desire' = desire
  BY <1>1 DEF QueueAction
<1>4. Sane(node, created') /\ x.id \in created'
  BY <1>2, <1>3 DEF RecordsInv, Sane
<1>5. /\ Sane(r, created') /\ r.control = node.control /\ r.models = node.models
      /\ Len(r.actions) > 0 /\ r.actions[1] = x
      /\ \A k \in 1..Len(r.actions) :
            k = 1 \/ (r.actions[k].id # x.id /\ \E i \in 1..Len(node.actions) : r.actions[k] = node.actions[i])
  BY <1>1, <1>2, <1>3, <1>4, ActionSane
<1>6. q \in Call /\ About(q, r)
  BY <1>1, <1>2, <1>5 DEF Call, About, Statuses
<1>7. ASSUME NEW b \in Actions, Queued(r, b)
      PROVE  Queued(node, b) \/ b \notin created
  BY <1>2, <1>3, <1>5, <1>7 DEF Queued
<1>8. ASSUME \A b \in Actions \ created : acked[b] = None, Stands(node, acked, desire)
      PROVE  Stands(r, acked, desire)
  BY <1>2, <1>3, <1>5, <1>8 DEF Stands
<1>9. /\ requeued \in [Actions -> Nat] /\ \A b \in Actions : requeued[b] <= requeued[b]
      /\ acked \in [Actions -> Statuses \union {None}]
      /\ desire \in [Models -> BOOLEAN \union {None}]
      /\ created \subseteq Actions
  BY HistoryKept DEF RecordsInv
<1>10. q.kind # "claim"
  BY <1>1
<1>11. Prepares(h, r, q)
  BY <1>3, <1>5, <1>6, <1>7, <1>8, <1>9, <1>10 DEF Prepares
<1> QED
  BY <1>11

\* The subscriber claims an action.
LEMMA ClaimPrepares ==
    ASSUME RecordsInv, NEW h \in Handlers, NEW i \in 1..Len(node.actions), ClaimAction(h, i)
    PROVE  \E r, q : Prepares(h, r, q)
<1>1. PICK y, x, q, r : /\ y = node.actions[i]
                        /\ x = [y EXCEPT !.status = "running"]
                        /\ q = [kind |-> "claim", id |-> y.id, status |-> "running"]
                        /\ r = WithAction(node, x)
  OBVIOUS
<1>2. Sane(node, created)
  BY DEF RecordsInv
<1>3. y \in Action /\ y.id \in created /\ y.status = "queued" /\ node.control = "managed"
  BY <1>1, <1>2 DEF Sane, Record, ClaimAction, NextQueued
<1>4. x \in Action /\ x.id = y.id /\ x.status = "running" /\ y.id \in Actions
  BY <1>1, <1>3 DEF Action, Statuses
<1>5. /\ Work(h, r, q) /\ created' = created /\ acked' = [acked EXCEPT ![y.id] = None]
      /\ requeued' = requeued /\ desire' = desire
  BY <1>1 DEF ClaimAction
<1>6. /\ Sane(r, created) /\ r.control = node.control /\ r.models = node.models
      /\ Len(r.actions) > 0 /\ r.actions[1] = x
      /\ \A k \in 1..Len(r.actions) :
            k = 1 \/ (r.actions[k].id # x.id /\ \E j \in 1..Len(node.actions) : r.actions[k] = node.actions[j])
  <2>1. x \in Action /\ x.id \in created /\ r = WithAction(node, x)
    BY <1>1, <1>3, <1>4
  <2> QED
    BY <1>2, <1>3, <2>1, ActionSane
<1>7. q \in Call /\ About(q, r)
  BY <1>1, <1>4, <1>6 DEF Call, About, Statuses
<1>8. ASSUME NEW b \in Actions, Queued(r, b) \/ (q.kind = "claim" /\ q.id = b)
      PROVE  Queued(node, b)
  <2>1. CASE Queued(r, b)
    BY <1>4, <1>6, <2>1 DEF Queued
  <2>2. CASE q.id = b
    BY <1>1, <1>3, <2>2 DEF Queued
  <2> QED
    BY <1>8, <2>1, <2>2
<1>9. /\ requeued \in [Actions -> Nat] /\ \A b \in Actions : requeued[b] <= requeued[b]
      /\ acked \in [Actions -> Statuses \union {None}]
      /\ desire \in [Models -> BOOLEAN \union {None}]
      /\ created \subseteq Actions
  BY HistoryKept DEF RecordsInv
<1>10. /\ acked' \in [Actions -> Statuses \union {None}]
       /\ acked'[y.id] = None /\ \A b \in Actions : b # y.id => acked'[b] = acked[b]
  BY <1>4, <1>5, <1>9
<1>11. ASSUME Stands(node, acked, desire)
       PROVE  Stands(r, acked', desire)
  <2>1. ASSUME NEW k \in 1..Len(r.actions)
        PROVE  acked'[r.actions[k].id] \in {None, r.actions[k].status}
    <3>1. CASE k = 1
      BY <1>4, <1>6, <1>10, <3>1
    <3>2. CASE k # 1
      <4>1. PICK j \in 1..Len(node.actions) : r.actions[k] = node.actions[j] /\ r.actions[k].id # x.id
        BY <1>6, <3>2
      <4>2. node.actions[j].id \in Actions
        BY <1>2, <1>9 DEF Sane
      <4> QED
        BY <1>4, <1>10, <1>11, <4>1, <4>2 DEF Stands
    <3> QED
      BY <3>1, <3>2
  <2> QED
    BY <1>6, <1>11, <2>1 DEF Stands
<1>12. Prepares(h, r, q)
  BY <1>5, <1>6, <1>7, <1>8, <1>9, <1>10, <1>11 DEF Prepares
<1> QED
  BY <1>12

\* The subscriber reports on an action.
LEMMA ReportPrepares ==
    ASSUME RecordsInv, NEW h \in Handlers, NEW a \in Actions, NEW s \in Reports, ReportAction(h, a, s)
    PROVE  \E r, q : Prepares(h, r, q)
<1>1. Sane(node, created) /\ Has(node.actions, a) /\ node.control = "managed" /\ s \in Statuses
  BY ActionsAssumption DEF RecordsInv, ReportAction
<1>2. PICK p : p = Find(node.actions, a)
  OBVIOUS
<1>3. p \in 1..Len(node.actions) /\ node.actions[p].id = a
  BY <1>1, <1>2 DEF Has, Find
<1>4. PICK y, x, n, q, r :
        /\ y = node.actions[p]
        /\ x = [y EXCEPT !.status = s]
        /\ n = IF s = "completed" THEN applyCompletedModelLifecycleAction(node, x) ELSE node
        /\ q = [kind |-> "report", id |-> a, status |-> s]
        /\ r = WithAction(n, x)
  OBVIOUS
<1>5. y \in Action /\ y.id = a /\ a \in created
  BY <1>1, <1>3, <1>4 DEF Sane, Record
<1>6. x \in Action /\ x.id = a /\ x.status = s /\ x.model \in Models
  BY <1>1, <1>4, <1>5 DEF Action
<1>7. /\ Sane(n, created) /\ n.control = "managed" /\ n.actions = node.actions
      /\ DOMAIN n.models = DOMAIN node.models
      /\ \A m \in DOMAIN node.models : m # x.model \/ s # "completed" => n.models[m] = node.models[m]
      /\ s = "completed" /\ x.model \in DOMAIN n.models => n.models[x.model].keep = x.desired
  <2>1. CASE s = "completed"
    <3>1. n = applyCompletedModelLifecycleAction(node, x)
      BY <1>4, <2>1
    <3> QED
      BY <1>1, <1>6, <2>1, <3>1, CompletedSane
  <2>2. CASE s # "completed"
    BY <1>1, <1>4, <2>2
  <2> QED
    BY <2>1, <2>2
<1>8. /\ Sane(r, created) /\ r.control = "managed" /\ r.models = n.models
      /\ Len(r.actions) > 0 /\ r.actions[1] = x
      /\ \A k \in 1..Len(r.actions) :
            k = 1 \/ (r.actions[k].id # a /\ \E j \in 1..Len(node.actions) : r.actions[k] = node.actions[j])
  <2>1. x \in Action /\ x.id \in created /\ r = WithAction(n, x)
    BY <1>4, <1>5, <1>6
  <2>2. /\ Sane(r, created) /\ r.control = n.control /\ r.models = n.models
        /\ Len(r.actions) > 0 /\ r.actions[1] = x
        /\ \A k \in 1..Len(r.actions) :
              k = 1 \/ (r.actions[k].id # x.id /\ \E j \in 1..Len(n.actions) : r.actions[k] = n.actions[j])
    BY <1>7, <2>1, ActionSane
  <2> QED
    BY <1>6, <1>7, <2>2
<1>9. /\ Work(h, r, q) /\ created' = created /\ acked' = [acked EXCEPT ![a] = None]
      /\ requeued' = IF s = "queued" THEN [requeued EXCEPT ![a] = requeued[a] + 1] ELSE requeued
      /\ desire' = IF s = "completed" THEN [desire EXCEPT ![x.model] = None] ELSE desire
  BY <1>2, <1>4 DEF ReportAction
<1>10. q \in Call /\ About(q, r)
  BY <1>1, <1>4, <1>6, <1>7, <1>8 DEF Call, About
<1>11. /\ requeued \in [Actions -> Nat] /\ \A b \in Actions : requeued[b] <= requeued[b]
       /\ acked \in [Actions -> Statuses \union {None}]
       /\ desire \in [Models -> BOOLEAN \union {None}]
       /\ created \subseteq Actions
  BY HistoryKept DEF RecordsInv
<1>12. /\ acked' \in [Actions -> Statuses \union {None}]
       /\ acked'[a] = None /\ \A b \in Actions : b # a => acked'[b] = acked[b]
  BY <1>9, <1>11
<1>13. /\ desire' \in [Models -> BOOLEAN \union {None}]
       /\ s = "completed" => desire'[x.model] = None
       /\ \A m \in Models : m # x.model \/ s # "completed" => desire'[m] = desire[m]
  BY <1>6, <1>9, <1>11
<1>14. /\ requeued' \in [Actions -> Nat]
       /\ s = "queued" => requeued[a] < requeued'[a]
       /\ \A b \in Actions : requeued[b] <= requeued'[b]
  <2>1. CASE s = "queued"
    <3>1. requeued[a] \in Nat /\ requeued[a] + 1 \in Nat /\ requeued[a] < requeued[a] + 1
      BY <1>11
    <3>2. requeued' = [requeued EXCEPT ![a] = requeued[a] + 1]
      BY <1>9, <2>1
    <3>3. \A b \in Actions : requeued'[b] = IF b = a THEN requeued[a] + 1 ELSE requeued[b]
      BY <1>11, <3>2
    <3>4. requeued' \in [Actions -> Nat]
      BY <1>11, <3>1, <3>2
    <3> QED
      BY <1>11, <3>1, <3>3, <3>4
  <2>2. CASE s # "queued"
    BY <1>9, <1>11, <2>2
  <2> QED
    BY <2>1, <2>2
<1>15. ASSUME NEW b \in Actions, Queued(r, b) \/ (q.kind = "claim" /\ q.id = b)
       PROVE  Queued(node, b) \/ requeued[b] < requeued'[b]
  <2>1. Queued(r, b)
    BY <1>4, <1>15
  <2>2. PICK k \in 1..Len(r.actions) : r.actions[k].id = b /\ r.actions[k].status = "queued"
    BY <2>1 DEF Queued
  <2>3. CASE k = 1
    BY <1>6, <1>8, <1>14, <2>2, <2>3
  <2>4. CASE k # 1
    BY <1>8, <2>2, <2>4 DEF Queued
  <2> QED
    BY <2>3, <2>4
<1>16. ASSUME Stands(node, acked, desire)
       PROVE  Stands(r, acked', desire')
  <2>1. ASSUME NEW k \in 1..Len(r.actions)
        PROVE  acked'[r.actions[k].id] \in {None, r.actions[k].status}
    <3>1. CASE k = 1
      BY <1>6, <1>8, <1>12, <3>1
    <3>2. CASE k # 1
      <4>1. PICK j \in 1..Len(node.actions) : r.actions[k] = node.actions[j] /\ r.actions[k].id # a
        BY <1>8, <3>2
      <4>2. node.actions[j].id \in Actions
        BY <1>1, <1>11 DEF Sane
      <4> QED
        BY <1>12, <1>16, <4>1, <4>2 DEF Stands
    <3> QED
      BY <3>1, <3>2
  <2>2. ASSUME NEW m \in Models, desire'[m] # None
        PROVE  r.control = "managed" /\ m \in DOMAIN r.models /\ desire'[m] = r.models[m].keep
    <3>1. (m # x.model \/ s # "completed") /\ desire'[m] = desire[m]
      BY <1>13, <2>2
    <3>2. m \in DOMAIN node.models /\ desire[m] = node.models[m].keep
      BY <1>16, <2>2, <3>1 DEF Stands
    <3> QED
      BY <1>7, <1>8, <3>1, <3>2
  <2> QED
    BY <2>1, <2>2 DEF Stands
<1>17. \A b \in Actions : acked'[b] \in {None, acked[b]}
  BY <1>12
<1>18. \A m \in Models : desire'[m] \in {None, desire[m]}
  BY <1>13
<1>19. Prepares(h, r, q)
  BY <1>8, <1>9, <1>10, <1>11, <1>12, <1>13, <1>14, <1>15, <1>16, <1>17, <1>18 DEF Prepares
<1> QED
  BY <1>19

\* A handler that sets out to write and leaves every action alone.
LEMMA OtherPrepares ==
    ASSUME RecordsInv, NEW h \in Handlers, NEW r, Work(h, r, NoCall), Sane(r, created),
           r.actions = node.actions, UNCHANGED <<created, requeued, acked>>,
           desire' \in [Models -> BOOLEAN \union {None}],
           \A m \in Models : desire'[m] \in {None, desire[m]},
           Stands(node, acked, desire) =>
              \A m \in Models : desire'[m] # None =>
                 r.control = "managed" /\ m \in DOMAIN r.models /\ desire'[m] = r.models[m].keep
    PROVE  \E q : Prepares(h, r, q)
<1>1. NoCall \in Call /\ About(NoCall, r) /\ NoCall.kind # "claim"
  BY DEF NoCall, Call, About
<1>2. /\ requeued \in [Actions -> Nat] /\ \A a \in Actions : requeued[a] <= requeued[a]
      /\ acked \in [Actions -> Statuses \union {None}]
      /\ created \subseteq Actions
  BY HistoryKept DEF RecordsInv
<1>3. \A a \in Actions : Queued(r, a) => Queued(node, a)
  BY DEF Queued
<1>4. Stands(node, acked, desire) => Stands(r, acked, desire')
  BY DEF Stands
<1>5. Prepares(h, r, NoCall)
  BY <1>1, <1>2, <1>3, <1>4 DEF Prepares
<1> QED
  BY <1>5

\* A heartbeat: the desires are forgotten with the inventory they were about.
LEMMA HeartbeatPrepares ==
    ASSUME RecordsInv, NEW h \in Handlers, NEW inv \in Inventories \union {None}, NEW ready \in BOOLEAN,
           Heartbeat(h, inv, ready)
    PROVE  \E r, q : Prepares(h, r, q)
<1>1. Sane(node, created) /\ node.control = "managed"
  BY DEF RecordsInv, Heartbeat
<1>2. PICK new, n, r : /\ new = IF inv = None THEN node.models ELSE inv
                       /\ n = WithModels(node, new)
                       /\ r = [n EXCEPT !.ready = ready]
  OBVIOUS
<1>3. new \in Inventory
  BY <1>1, <1>2, ActionsAssumption DEF Sane, Record
<1>4. Sane(n, created) /\ n.control = node.control /\ n.models = new /\ n.actions = node.actions
  BY <1>1, <1>2, <1>3, ModelsSane
<1>5. Sane(r, created) /\ r.control = "managed" /\ r.models = new /\ r.actions = node.actions
  <2>1. Sane(r, created) /\ r.control = n.control /\ r.models = n.models /\ r.actions = n.actions
    BY <1>2, <1>4, ReadySane
  <2> QED
    BY <1>1, <1>4, <2>1
<1>6. Work(h, r, NoCall) /\ UNCHANGED <<created, requeued, acked>>
  BY <1>2 DEF Heartbeat
<1>7. desire' = IF inv = None THEN desire ELSE [m \in Models |-> None]
  BY DEF Heartbeat
<1>8. desire \in [Models -> BOOLEAN \union {None}]
  BY DEF RecordsInv, TypeOK
<1>9. /\ desire' \in [Models -> BOOLEAN \union {None}]
      /\ \A m \in Models : desire'[m] \in {None, desire[m]}
      /\ \A m \in Models : desire'[m] # None => inv = None /\ desire'[m] = desire[m]
  BY <1>7, <1>8
<1>10. Stands(node, acked, desire) =>
          \A m \in Models : desire'[m] # None =>
             r.control = "managed" /\ m \in DOMAIN r.models /\ desire'[m] = r.models[m].keep
  BY <1>2, <1>5, <1>9 DEF Stands
<1> QED
  BY <1>5, <1>6, <1>9, <1>10, OtherPrepares

\* The operator's other actions, benchmark results and probes.
LEMMA UpdatePrepares ==
    ASSUME RecordsInv, NEW h \in Handlers,
           \/ \E ready \in BOOLEAN : UpdateNode(h, ready)
           \/ \E m \in Models : BenchmarkResult(h, m)
           \/ \E inv \in Inventories : ProbePassive(h, inv)
    PROVE  \E r, q : Prepares(h, r, q)
<1>1. Sane(node, created) /\ desire \in [Models -> BOOLEAN \union {None}]
  BY DEF RecordsInv, TypeOK
<1>2. /\ UNCHANGED <<created, requeued, acked>> /\ desire' = desire
  BY DEF UpdateNode, BenchmarkResult, ProbePassive
<1>3. /\ desire' \in [Models -> BOOLEAN \union {None}]
      /\ \A m \in Models : desire'[m] \in {None, desire[m]}
  BY <1>1, <1>2
<1>4. PICK r : /\ Work(h, r, NoCall) /\ Sane(r, created) /\ r.actions = node.actions
               /\ r.control = node.control
               /\ r.control = "managed" =>
                     \A k \in DOMAIN node.models : k \in DOMAIN r.models /\ r.models[k] = node.models[k]
  <2>1. ASSUME NEW ready \in BOOLEAN, UpdateNode(h, ready)
        PROVE  \E r : /\ Work(h, r, NoCall) /\ Sane(r, created) /\ r.actions = node.actions
                      /\ r.control = node.control
                      /\ r.control = "managed" =>
                            \A k \in DOMAIN node.models : k \in DOMAIN r.models /\ r.models[k] = node.models[k]
    <3>1. PICK r : r = [node EXCEPT !.ready = ready]
      OBVIOUS
    <3>2. Sane(r, created) /\ r.control = node.control /\ r.models = node.models /\ r.actions = node.actions
      BY <1>1, <3>1, ReadySane
    <3>3. Work(h, r, NoCall)
      BY <2>1, <3>1 DEF UpdateNode
    <3> QED
      BY <3>2, <3>3
  <2>2. ASSUME NEW m \in Models, BenchmarkResult(h, m)
        PROVE  \E r : /\ Work(h, r, NoCall) /\ Sane(r, created) /\ r.actions = node.actions
                      /\ r.control = node.control
                      /\ r.control = "managed" =>
                            \A k \in DOMAIN node.models : k \in DOMAIN r.models /\ r.models[k] = node.models[k]
    <3>1. PICK inv, big, r : inv = node.models /\ big = WithResult(inv, m) /\ r = [node EXCEPT !.models = big]
      OBVIOUS
    <3>2. node.control = "managed" /\ m \notin DOMAIN inv
      BY <2>2, <3>1 DEF BenchmarkResult
    <3>3. /\ Sane(r, created) /\ r.control = node.control /\ r.actions = node.actions /\ r.models = big
          /\ \A k \in DOMAIN inv : k \in DOMAIN big /\ big[k] = inv[k]
      BY <1>1, <3>1, <3>2, ResultSane
    <3>4. Work(h, r, NoCall)
      BY <2>2, <3>1 DEF BenchmarkResult, WithResult
    <3>5. \A k \in DOMAIN node.models : k \in DOMAIN r.models /\ r.models[k] = node.models[k]
      BY <3>1, <3>3
    <3>6. Sane(r, created) /\ r.actions = node.actions /\ r.control = node.control
      BY <3>3
    <3> QED
      BY <3>4, <3>5, <3>6
  <2>3. ASSUME NEW inv \in Inventories, ProbePassive(h, inv)
        PROVE  \E r : /\ Work(h, r, NoCall) /\ Sane(r, created) /\ r.actions = node.actions
                      /\ r.control = node.control
                      /\ r.control = "managed" =>
                            \A k \in DOMAIN node.models : k \in DOMAIN r.models /\ r.models[k] = node.models[k]
    <3>1. PICK r : r = [node EXCEPT !.models = Listed(inv)]
      OBVIOUS
    <3>2. node.control = "passive" /\ inv \in Inventory
      BY <2>3, ActionsAssumption DEF ProbePassive
    <3>3. Sane(r, created) /\ r.control = node.control /\ r.actions = node.actions
      BY <1>1, <3>1, <3>2, ProbeSane
    <3>4. Work(h, r, NoCall)
      BY <2>3, <3>1 DEF ProbePassive
    <3> QED
      BY <3>2, <3>3, <3>4
  <2> QED
    BY <2>1, <2>2, <2>3
<1>5. Stands(node, acked, desire) =>
         \A m \in Models : desire'[m] # None =>
            r.control = "managed" /\ m \in DOMAIN r.models /\ desire'[m] = r.models[m].keep
  BY <1>2, <1>4 DEF Stands
<1> QED
  BY <1>2, <1>3, <1>4, <1>5, OtherPrepares

\* Every handler that reads the node sets out to write such a copy.
LEMMA WorkPrepares ==
    ASSUME RecordsInv, NEW h \in Handlers,
           \/ \E a \in Actions, m \in Models, d \in BOOLEAN : QueueAction(h, a, m, d)
           \/ \E i \in 1..Len(node.actions) : ClaimAction(h, i)
           \/ \E a \in Actions, s \in Reports : ReportAction(h, a, s)
           \/ \E inv \in Inventories \union {None}, ready \in BOOLEAN : Heartbeat(h, inv, ready)
           \/ \E ready \in BOOLEAN : UpdateNode(h, ready)
           \/ \E m \in Models : BenchmarkResult(h, m)
           \/ \E inv \in Inventories : ProbePassive(h, inv)
    PROVE  \E r, q : Prepares(h, r, q)
  BY QueuePrepares, ClaimPrepares, ReportPrepares, HeartbeatPrepares, UpdatePrepares
-------------------------------------------------------------------------------
(* The invariants *)

\* The initial state satisfies them.
LEMMA InvInit == Init => RecordsInv /\ HandInv /\ StandInv
<1> SUFFICES ASSUME Init PROVE RecordsInv /\ HandInv /\ StandInv
  OBVIOUS
<1>1. PICK inv \in Inventories : node = [Added("managed", inv) EXCEPT !.ready = TRUE]
  BY DEF Init
<1>2. PICK n : n = Added("managed", inv)
  OBVIOUS
<1>3. inv \in Inventory
  BY ActionsAssumption
<1>4. Sane(n, created) /\ n.control = "managed" /\ n.models = inv /\ n.actions = <<>>
  BY <1>2, <1>3, AddedSane
<1>5. node = [n EXCEPT !.ready = TRUE]
  BY <1>1, <1>2
<1>6. Sane(node, created) /\ node.actions = <<>>
  <2>1. Sane(node, created) /\ node.actions = n.actions
    BY <1>4, <1>5, ReadySane
  <2> QED
    BY <1>4, <2>1
<1>7. disk = node /\ node \in Record /\ disk \in Record
  BY <1>6 DEF Init, Sane
<1>8. NoCall \in Call
  BY DEF NoCall, Call
<1>9. /\ pending \in [Handlers -> Record \union {None}] /\ call \in [Handlers -> Call]
      /\ \A h \in Handlers : pending[h] = None
  BY <1>8 DEF Init
<1>10. /\ handed \in [Actions -> Nat] /\ requeued \in [Actions -> Nat] /\ slips \in Nat
       /\ \A a \in Actions : handed[a] = 0 /\ requeued[a] = 0 /\ acked[a] = None
       /\ slips = 0
  BY DEF Init
<1>11. /\ calls \in 0..MaxCalls /\ faults \in 0..MaxFaults /\ created = {}
       /\ acked \in [Actions -> Statuses \union {None}]
       /\ desire \in [Models -> BOOLEAN \union {None}]
       /\ \A m \in Models : desire[m] = None
  BY ActionsAssumption DEF Init
<1>12. stale \in [Handlers -> BOOLEAN]
  BY DEF Init
<1>13. TypeOK
  BY <1>7, <1>9, <1>10, <1>11, <1>12 DEF TypeOK
<1>14. RecordsInv
  BY <1>6, <1>7, <1>9, <1>13 DEF RecordsInv
<1>15. 1..Len(node.actions) = {} /\ 1..Len(disk.actions) = {}
  BY <1>6, <1>7
<1>16. HandInv
  BY <1>7, <1>9, <1>10, <1>15 DEF HandInv, HandedOutOnce, Queued, Fresh
<1>17. StandInv
  BY <1>7, <1>9, <1>10, <1>11, <1>15 DEF StandInv, Stands, Fresh
<1> QED
  BY <1>14, <1>16, <1>17

\* A handler that has read the node.
LEMMA PreparesKeeps ==
    ASSUME RecordsInv, HandInv, StandInv, NEW h \in Handlers, NEW r, NEW q, Prepares(h, r, q)
    PROVE  RecordsInv' /\ HandInv' /\ StandInv'
<1>1. /\ pending' = [pending EXCEPT ![h] = r] /\ call' = [call EXCEPT ![h] = q]
      /\ stale' = [stale EXCEPT ![h] = FALSE] /\ pending[h] = None
      /\ UNCHANGED <<node, disk, handed, slips, faults>> /\ calls < MaxCalls /\ calls' = calls + 1
  BY DEF Prepares, Work, Called
<1>2. /\ Sane(r, created') /\ r \in Record /\ About(q, r) /\ q \in Call
      /\ created \subseteq created' /\ created' \subseteq Actions
  BY DEF Prepares, Sane
<1>3. /\ pending \in [Handlers -> Record \union {None}] /\ call \in [Handlers -> Call]
      /\ stale \in [Handlers -> BOOLEAN] /\ calls \in 0..MaxCalls /\ MaxCalls \in Nat
      /\ handed \in [Actions -> Nat] /\ requeued \in [Actions -> Nat] /\ slips \in Nat
  BY ActionsAssumption DEF RecordsInv, TypeOK
<1>4. /\ pending'[h] = r /\ call'[h] = q /\ stale'[h] = FALSE
      /\ \A g \in Handlers : g # h => pending'[g] = pending[g] /\ call'[g] = call[g] /\ stale'[g] = stale[g]
  BY <1>1, <1>3
<1>5. TypeOK'
  <2>1. /\ pending' \in [Handlers -> Record \union {None}] /\ call' \in [Handlers -> Call]
        /\ stale' \in [Handlers -> BOOLEAN]
    BY <1>1, <1>2, <1>3
  <2>2. calls' \in 0..MaxCalls
    BY <1>1, <1>3
  <2> QED
    BY <1>1, <1>2, <2>1, <2>2 DEF TypeOK, RecordsInv, Prepares
<1>6. RecordsInv'
  <2>1. \A n : Sane(n, created) => Sane(n, created')
    BY <1>2 DEF Sane
  <2>2. Sane(node', created') /\ Sane(disk', created')
    BY <1>1, <2>1 DEF RecordsInv
  <2>3. ASSUME NEW g \in Handlers, pending'[g] # None
        PROVE  Sane(pending'[g], created') /\ About(call'[g], pending'[g])
    BY <1>2, <1>4, <2>1, <2>3 DEF RecordsInv
  <2> QED
    BY <1>5, <2>2, <2>3 DEF RecordsInv
<1>7. HandInv'
  <2>1. requeued' \in [Actions -> Nat] /\ \A a \in Actions : requeued[a] <= requeued'[a]
    BY DEF Prepares
  <2>2. \A a \in Actions : Room(a) => Room(a)'
    <3> SUFFICES ASSUME NEW a \in Actions, Room(a) PROVE Room(a)'
      OBVIOUS
    <3>1. handed[a] \in Nat /\ requeued[a] \in Nat /\ requeued'[a] \in Nat /\ slips \in Nat
      BY <1>3, <2>1
    <3> QED
      BY <1>1, <2>1, <3>1 DEF Room
  <2>3. ASSUME NEW a \in Actions PROVE handed'[a] <= 1 + requeued'[a] + slips'
    <3>1. handed[a] \in Nat /\ requeued[a] \in Nat /\ requeued'[a] \in Nat /\ slips \in Nat
      BY <1>3, <2>1
    <3>2. handed[a] <= 1 + requeued[a] + slips
      BY DEF HandInv, HandedOutOnce
    <3> QED
      BY <1>1, <2>1, <3>1, <3>2
  <2>4. \A a \in Actions \ created' : handed'[a] = 0
    BY <1>1, <1>2 DEF HandInv
  <2>5. \A a \in Actions : Queued(node', a) \/ Queued(disk', a) => Room(a)'
    BY <1>1, <2>2 DEF HandInv
  <2>6. ASSUME NEW a \in Actions, Queued(r, a) \/ (q.kind = "claim" /\ q.id = a)
        PROVE  Room(a)'
    <3>1. Queued(node, a) \/ a \notin created \/ requeued[a] < requeued'[a]
      BY <2>6 DEF Prepares
    <3>2. handed[a] \in Nat /\ requeued[a] \in Nat /\ requeued'[a] \in Nat /\ slips \in Nat
      BY <1>3, <2>1
    <3>3. CASE Queued(node, a)
      BY <2>2, <3>3 DEF HandInv
    <3>4. CASE a \notin created
      <4>1. handed[a] = 0
        BY <3>4 DEF HandInv
      <4> QED
        BY <1>1, <3>2, <4>1 DEF Room
    <3>5. CASE requeued[a] < requeued'[a]
      <4>1. handed[a] <= 1 + requeued[a] + slips
        BY DEF HandInv, HandedOutOnce
      <4> QED
        BY <1>1, <3>2, <3>5, <4>1 DEF Room
    <3> QED
      BY <3>1, <3>3, <3>4, <3>5
  <2>7. ASSUME NEW g \in Handlers, NEW a \in Actions, Fresh(g)',
               Queued(pending'[g], a) \/ (call'[g].kind = "claim" /\ call'[g].id = a)
        PROVE  Room(a)'
    <3>1. CASE g = h
      BY <1>4, <2>6, <2>7, <3>1
    <3>2. CASE g # h
      <4>1. pending'[g] = pending[g] /\ call'[g] = call[g] /\ Fresh(g)
        BY <1>4, <2>7, <3>2 DEF Fresh
      <4> QED
        BY <2>2, <2>7, <4>1 DEF HandInv
    <3> QED
      BY <3>1, <3>2
  <2> QED
    BY <2>3, <2>4, <2>5, <2>7 DEF HandInv, HandedOutOnce
<1>8. StandInv'
  <2>1. /\ \A a \in Actions : acked'[a] \in {None, acked[a]}
        /\ \A m \in Models : desire'[m] \in {None, desire[m]}
    BY DEF Prepares
  <2>2. ASSUME NEW n, Sane(n, created), Stands(n, acked, desire)
        PROVE  Stands(n, acked', desire')
    <3>1. \A i \in 1..Len(n.actions) : n.actions[i].id \in Actions
      BY <1>2, <2>2 DEF Sane
    <3> QED
      BY <2>1, <2>2, <3>1 DEF Stands
  <2>3. \A a \in Actions \ created' : acked'[a] = None
    BY <1>2, <2>1 DEF StandInv
  <2>4. ASSUME slips' = 0
        PROVE  /\ Stands(node', acked', desire') /\ Stands(disk', acked', desire')
               /\ \A g \in Handlers : Fresh(g)' => Stands(pending'[g], acked', desire')
    <3>1. slips = 0
      BY <1>1, <2>4
    <3>2. Stands(node', acked', desire') /\ Stands(disk', acked', desire')
      BY <1>1, <2>2, <3>1 DEF StandInv, RecordsInv
    <3>3. Stands(r, acked', desire')
      BY <3>1 DEF Prepares, StandInv
    <3>4. ASSUME NEW g \in Handlers, Fresh(g)'
          PROVE  Stands(pending'[g], acked', desire')
      <4>1. CASE g = h
        BY <1>4, <3>3, <4>1
      <4>2. CASE g # h
        <5>1. pending'[g] = pending[g] /\ Fresh(g)
          BY <1>4, <3>4, <4>2 DEF Fresh
        <5> QED
          BY <2>2, <3>1, <5>1 DEF StandInv, RecordsInv, Fresh
      <4> QED
        BY <4>1, <4>2
    <3> QED
      BY <3>2, <3>4
  <2> QED
    BY <2>3, <2>4 DEF StandInv
<1> QED
  BY <1>6, <1>7, <1>8

\* What a handler that answers knows of its call: the action is the first of
\* the copy it wrote, and nothing else in it has that name.
LEMMA AboutFirst ==
    ASSUME NEW c, NEW r, Sane(r, c), NEW q, About(q, r), q.kind # "none"
    PROVE  /\ q.id \in Actions /\ q.id \in c /\ q.status \in Statuses
           /\ Find(r.actions, q.id) = 1 /\ 1 \in 1..Len(r.actions)
           /\ r.actions[1] \in Action /\ r.actions[1].id = q.id /\ r.actions[1].status = q.status
           /\ \A k \in 1..Len(r.actions) : r.actions[k].id = q.id => k = 1
<1>1. PICK L : L = r.actions
  OBVIOUS
<1>2. L \in Seq(Action) /\ \A i, j \in 1..Len(L) : L[i].id = L[j].id => i = j
  BY <1>1 DEF Sane, Coherent, Record
<1>3. Len(L) > 0 /\ L[1].id = q.id /\ L[1].status = q.status /\ q.id \in Actions /\ q.status \in Statuses
  BY <1>1 DEF About
<1>4. 1 \in 1..Len(L) /\ L[1] \in Action
  BY <1>2, <1>3
<1>5. \A k \in 1..Len(L) : L[k].id = q.id => k = 1
  BY <1>2, <1>3, <1>4
<1>6. Find(L, q.id) = 1
  BY <1>3, <1>4, <1>5 DEF Find
<1>7. q.id \in c
  BY <1>1, <1>3, <1>4 DEF Sane
<1> QED
  BY <1>1, <1>3, <1>4, <1>5, <1>6, <1>7

\* What the callers have heard after the answer, or without one.
LEMMA HeardFacts ==
    ASSUME TypeOK, NEW c, NEW r, Sane(r, c), NEW q, About(q, r),
           Heard(q, r) \/ UNCHANGED <<handed, acked, desire>>
    PROVE  /\ handed' \in [Actions -> Nat]
           /\ \A a \in Actions :
                 \/ handed'[a] = handed[a]
                 \/ q.kind = "claim" /\ q.id = a /\ handed'[a] = handed[a] + 1
           /\ acked' \in [Actions -> Statuses \union {None}]
           /\ \A a \in Actions :
                 \/ acked'[a] = acked[a]
                 \/ q.kind = "report" /\ q.id = a /\ acked'[a] = q.status
           /\ desire' \in [Models -> BOOLEAN \union {None}]
           /\ \A m \in Models :
                 \/ desire'[m] = desire[m]
                 \/ desire'[m] = None
                 \/ r.control = "managed" /\ m \in DOMAIN r.models /\ desire'[m] = r.models[m].keep
<1>0. /\ handed \in [Actions -> Nat] /\ acked \in [Actions -> Statuses \union {None}]
      /\ desire \in [Models -> BOOLEAN \union {None}]
  BY DEF TypeOK
<1>1. CASE UNCHANGED <<handed, acked, desire>>
  BY <1>0, <1>1
<1>2. CASE Heard(q, r)
  <2>1. /\ handed' \in [Actions -> Nat]
        /\ \A a \in Actions :
              \/ handed'[a] = handed[a]
              \/ q.kind = "claim" /\ q.id = a /\ handed'[a] = handed[a] + 1
    <3>1. CASE q.kind = "claim"
      <4>1. q.id \in Actions
        BY <3>1, AboutFirst
      <4>2. PICK b, n : b = q.id /\ n = handed[b] + 1
        OBVIOUS
      <4>3. n \in Nat
        BY <1>0, <4>1, <4>2
      <4>4. handed' = [handed EXCEPT ![b] = n]
        BY <1>2, <3>1, <4>2 DEF Heard
      <4> QED
        BY <1>0, <3>1, <4>1, <4>2, <4>3, <4>4
    <3>2. CASE q.kind # "claim"
      BY <1>0, <1>2, <3>2 DEF Heard
    <3> QED
      BY <3>1, <3>2
  <2>2. /\ acked' \in [Actions -> Statuses \union {None}]
        /\ \A a \in Actions :
              \/ acked'[a] = acked[a]
              \/ q.kind = "report" /\ q.id = a /\ acked'[a] = q.status
    <3>1. CASE q.kind = "report"
      <4>1. q.id \in Actions /\ q.status \in Statuses
        BY <3>1, AboutFirst
      <4>2. acked' = [acked EXCEPT ![q.id] = q.status]
        BY <1>2, <3>1 DEF Heard
      <4> QED
        BY <1>0, <3>1, <4>1, <4>2
    <3>2. CASE q.kind # "report"
      BY <1>0, <1>2, <3>2 DEF Heard
    <3> QED
      BY <3>1, <3>2
  <2>3. /\ desire' \in [Models -> BOOLEAN \union {None}]
        /\ \A m \in Models :
              \/ desire'[m] = desire[m]
              \/ desire'[m] = None
              \/ r.control = "managed" /\ m \in DOMAIN r.models /\ desire'[m] = r.models[m].keep
    <3>1. CASE q.kind = "report" /\ q.status = "completed"
      <4>1. PICK x : x = r.actions[1]
        OBVIOUS
      <4>2. Find(r.actions, q.id) = 1 /\ x \in Action
        BY <3>1, <4>1, AboutFirst
      <4>3. /\ r.control = "managed" /\ x.model \in Models /\ x.desired \in BOOLEAN
            /\ x.model \in DOMAIN r.models => r.models[x.model].keep = x.desired
        BY <3>1, <4>1, <4>2 DEF About, Action
      <4>4. PICK v : v = IF x.model \in DOMAIN r.models THEN x.desired ELSE None
        OBVIOUS
      <4>5. desire' = [desire EXCEPT ![x.model] = v]
        BY <1>2, <3>1, <4>1, <4>2, <4>4 DEF Heard
      <4>6. desire' \in [Models -> BOOLEAN \union {None}]
        <5>1. v \in BOOLEAN \union {None}
          BY <4>3, <4>4
        <5> QED
          BY <1>0, <4>3, <4>5, <5>1
      <4>7. desire'[x.model] = v /\ \A m \in Models : m # x.model => desire'[m] = desire[m]
        BY <1>0, <4>3, <4>5
      <4> QED
        BY <4>3, <4>4, <4>6, <4>7
    <3>2. CASE ~ (q.kind = "report" /\ q.status = "completed")
      BY <1>0, <1>2, <3>2 DEF Heard
    <3> QED
      BY <3>1, <3>2
  <2> QED
    BY <2>1, <2>2, <2>3
<1> QED
  BY <1>1, <1>2

\* A handler that writes: no other copy is fresh then.
LEMMA FinishKeeps ==
    ASSUME RecordsInv, HandInv, StandInv, NEW h \in Handlers, Write(h) \/ WriteUnheard(h)
    PROVE  RecordsInv' /\ HandInv' /\ StandInv'
<1>1. PICK r, q : r = pending[h] /\ q = call[h]
  OBVIOUS
<1>2. /\ pending[h] # None /\ pending' = [pending EXCEPT ![h] = None]
      /\ call' = [call EXCEPT ![h] = NoCall] /\ node' = r
      /\ slips' = IF stale[h] THEN slips + 1 ELSE slips
      /\ stale' = [g \in Handlers |-> pending'[g] # None]
      /\ UNCHANGED <<created, requeued, calls>>
  BY <1>1 DEF Write, WriteUnheard, Finish, Replace
<1>3. Sane(r, created) /\ About(q, r) /\ r \in Record /\ TypeOK
  BY <1>1, <1>2 DEF RecordsInv, Sane
<1>4. /\ disk' = r \/ (disk' = disk /\ UNCHANGED <<handed, acked, desire>>)
      /\ Heard(q, r) \/ UNCHANGED <<handed, acked, desire>>
      /\ faults' = faults \/ (faults < MaxFaults /\ faults' = faults + 1)
  BY <1>1 DEF Write, WriteUnheard, Fault
<1>5. /\ handed' \in [Actions -> Nat]
      /\ \A a \in Actions :
            \/ handed'[a] = handed[a]
            \/ q.kind = "claim" /\ q.id = a /\ handed'[a] = handed[a] + 1
      /\ acked' \in [Actions -> Statuses \union {None}]
      /\ \A a \in Actions :
            \/ acked'[a] = acked[a]
            \/ q.kind = "report" /\ q.id = a /\ acked'[a] = q.status
      /\ desire' \in [Models -> BOOLEAN \union {None}]
      /\ \A m \in Models :
            \/ desire'[m] = desire[m]
            \/ desire'[m] = None
            \/ r.control = "managed" /\ m \in DOMAIN r.models /\ desire'[m] = r.models[m].keep
  BY <1>3, <1>4, HeardFacts
<1>6. /\ pending \in [Handlers -> Record \union {None}] /\ call \in [Handlers -> Call]
      /\ stale \in [Handlers -> BOOLEAN] /\ faults \in 0..MaxFaults /\ MaxFaults \in Nat
      /\ handed \in [Actions -> Nat] /\ requeued \in [Actions -> Nat] /\ slips \in Nat
      /\ created \subseteq Actions
  BY ActionsAssumption DEF RecordsInv, TypeOK
<1>7. /\ pending'[h] = None
      /\ \A g \in Handlers : g # h => pending'[g] = pending[g] /\ call'[g] = call[g]
      /\ \A g \in Handlers : ~ Fresh(g)'
  <2>1. /\ pending'[h] = None
        /\ \A g \in Handlers : g # h => pending'[g] = pending[g] /\ call'[g] = call[g]
    BY <1>2, <1>6
  <2>2. \A g \in Handlers : stale'[g] = (pending'[g] # None)
    BY <1>2
  <2> QED
    BY <2>1, <2>2 DEF Fresh
<1>8. slips' \in Nat /\ slips <= slips' /\ (stale[h] => slips' = slips + 1) /\ (~ stale[h] => slips' = slips)
  BY <1>2, <1>6
<1>9. RecordsInv'
  <2>1. NoCall \in Call
    BY DEF NoCall, Call
  <2>2. /\ pending' \in [Handlers -> Record \union {None}] /\ call' \in [Handlers -> Call]
        /\ stale' \in [Handlers -> BOOLEAN]
    BY <1>2, <1>6, <2>1
  <2>3. faults' \in 0..MaxFaults
    BY <1>4, <1>6
  <2>4. node' \in Record /\ disk' \in Record
    BY <1>2, <1>3, <1>4 DEF TypeOK
  <2>5. calls' \in 0..MaxCalls /\ created' \subseteq Actions /\ requeued' \in [Actions -> Nat]
    BY <1>2, <1>3 DEF TypeOK
  <2>6. TypeOK'
    BY <1>5, <1>8, <2>2, <2>3, <2>4, <2>5 DEF TypeOK
  <2>7. Sane(node', created') /\ Sane(disk', created')
    BY <1>2, <1>3, <1>4 DEF RecordsInv
  <2>8. ASSUME NEW g \in Handlers, pending'[g] # None
        PROVE  Sane(pending'[g], created') /\ About(call'[g], pending'[g])
    <3>1. g # h /\ pending'[g] = pending[g] /\ call'[g] = call[g]
      BY <1>7, <2>8
    <3> QED
      BY <1>2, <2>8, <3>1 DEF RecordsInv
  <2> QED
    BY <2>6, <2>7, <2>8 DEF RecordsInv
<1>10. q.kind = "claim" => q.id \in created /\ ~ Queued(r, q.id)
  <2> SUFFICES ASSUME q.kind = "claim" PROVE q.id \in created /\ ~ Queued(r, q.id)
    OBVIOUS
  <2>1. /\ q.id \in created /\ r.actions[1].status = q.status
        /\ \A k \in 1..Len(r.actions) : r.actions[k].id = q.id => k = 1
    BY <1>3, AboutFirst
  <2>2. q.status = "running"
    BY <1>3 DEF About
  <2> QED
    BY <2>1, <2>2 DEF Queued
<1>11. HandInv'
  <2>1. ASSUME NEW a \in Actions
        PROVE  /\ handed[a] \in Nat /\ requeued[a] \in Nat /\ requeued'[a] = requeued[a]
               /\ handed[a] <= 1 + requeued[a] + slips
    BY <1>2, <1>6 DEF HandInv, HandedOutOnce
  <2>2. ASSUME NEW a \in Actions
        PROVE  handed'[a] <= 1 + requeued'[a] + slips'
    <3>1. CASE handed'[a] = handed[a]
      BY <1>6, <1>8, <2>1, <3>1
    <3>2. CASE q.kind = "claim" /\ q.id = a /\ handed'[a] = handed[a] + 1
      <4>1. CASE stale[h]
        BY <1>6, <1>8, <2>1, <3>2, <4>1
      <4>2. CASE ~ stale[h]
        <5>1. Fresh(h)
          BY <1>2, <1>6, <4>2 DEF Fresh
        <5>2. handed[a] < 1 + requeued[a] + slips
          BY <1>1, <3>2, <5>1 DEF HandInv, Room
        <5> QED
          BY <1>6, <1>8, <2>1, <3>2, <4>2, <5>2
      <4> QED
        BY <4>1, <4>2
    <3> QED
      BY <1>5, <3>1, <3>2
  <2>3. \A a \in Actions \ created' : handed'[a] = 0
    BY <1>2, <1>5, <1>10 DEF HandInv
  <2>4. ASSUME NEW a \in Actions, Queued(r, a)
        PROVE  handed'[a] < 1 + requeued'[a] + slips'
    <3>1. handed'[a] = handed[a]
      BY <1>5, <1>10, <2>4
    <3>2. CASE stale[h]
      BY <1>6, <1>8, <2>1, <3>1, <3>2
    <3>3. CASE ~ stale[h]
      <4>1. Fresh(h)
        BY <1>2, <1>6, <3>3 DEF Fresh
      <4>2. handed[a] < 1 + requeued[a] + slips
        BY <1>1, <2>4, <4>1 DEF HandInv, Room
      <4> QED
        BY <1>6, <1>8, <2>1, <3>1, <3>3, <4>2
    <3> QED
      BY <3>2, <3>3
  <2>5. ASSUME NEW a \in Actions, Queued(disk', a)
        PROVE  handed'[a] < 1 + requeued'[a] + slips'
    <3>1. CASE disk' = r
      BY <2>4, <2>5, <3>1
    <3>2. CASE disk' = disk /\ UNCHANGED <<handed, acked, desire>>
      <4>1. handed[a] < 1 + requeued[a] + slips
        BY <2>5, <3>2 DEF HandInv, Room
      <4> QED
        BY <1>6, <1>8, <2>1, <3>2, <4>1
    <3> QED
      BY <1>4, <3>1, <3>2
  <2>6. \A a \in Actions : Queued(node', a) \/ Queued(disk', a) => Room(a)'
    BY <1>2, <2>4, <2>5 DEF Room
  <2> QED
    BY <1>7, <2>2, <2>3, <2>6 DEF HandInv, HandedOutOnce
<1>12. StandInv'
  <2>1. q.kind = "report" => /\ q.id \in created
                             /\ r.actions[1].id = q.id /\ r.actions[1].status = q.status
                             /\ \A k \in 1..Len(r.actions) : r.actions[k].id = q.id => k = 1
    BY <1>3, AboutFirst
  <2>2. \A a \in Actions \ created' : acked'[a] = None
    BY <1>2, <1>5, <2>1 DEF StandInv
  <2>3. ASSUME slips' = 0
        PROVE  Stands(node', acked', desire') /\ Stands(disk', acked', desire')
    <3>1. slips = 0 /\ ~ stale[h]
      BY <1>6, <1>8, <2>3
    <3>2. Fresh(h)
      BY <1>2, <1>6, <3>1 DEF Fresh
    <3>3. Stands(r, acked, desire) /\ Stands(disk, acked, desire)
      BY <1>1, <3>1, <3>2 DEF StandInv
    <3>4. Stands(r, acked', desire')
      <4>1. ASSUME NEW k \in 1..Len(r.actions)
            PROVE  acked'[r.actions[k].id] \in {None, r.actions[k].status}
        <5>1. r.actions[k].id \in Actions
          BY <1>3, <1>6 DEF Sane
        <5>2. acked[r.actions[k].id] \in {None, r.actions[k].status}
          BY <3>3 DEF Stands
        <5> QED
          BY <1>5, <2>1, <5>1, <5>2
      <4>2. ASSUME NEW m \in Models, desire'[m] # None
            PROVE  r.control = "managed" /\ m \in DOMAIN r.models /\ desire'[m] = r.models[m].keep
        BY <1>5, <3>3, <4>2 DEF Stands
      <4> QED
        BY <4>1, <4>2 DEF Stands
    <3> QED
      BY <1>2, <1>4, <3>3, <3>4
  <2> QED
    BY <1>7, <2>2, <2>3 DEF StandInv
<1> QED
  BY <1>9, <1>11, <1>12

\* A new record: what was acknowledged is forgotten, every handler is stale.
LEMMA AddKeeps ==
    ASSUME RecordsInv, HandInv, StandInv, NEW control \in {"managed", "passive"},
           NEW inv \in Inventories, NEW saved \in BOOLEAN, AddNode(control, inv, saved)
    PROVE  RecordsInv' /\ HandInv' /\ StandInv'
<1>1. PICK new, r : new = (IF control = "managed" THEN inv ELSE Listed(inv)) /\ r = Added(control, new)
  OBVIOUS
<1>2. inv \in Inventory
  BY ActionsAssumption
<1>3. new \in Inventory /\ (control = "passive" =>
         \A m \in DOMAIN new : new[m].state = "installed" /\ new[m].keep = FALSE)
  BY <1>1, <1>2, ListedFacts
<1>4. Sane(r, created) /\ r.actions = <<>> /\ r \in Record
  <2>1. r = Added(control, new)
    BY <1>1
  <2>2. /\ new \in Inventory
        /\ control = "passive" =>
              \A m \in DOMAIN new : new[m].state = "installed" /\ new[m].keep = FALSE
    BY <1>3
  <2>3. Sane(r, created)
    BY <2>1, <2>2, AddedSane
  <2>4. r.actions = <<>>
    BY <2>1, <2>2, AddedSane
  <2> QED
    BY <2>3, <2>4 DEF Sane
<1>5. /\ node' = r /\ disk' \in {disk, r} /\ UNCHANGED <<pending, call, created, handed, requeued, slips>>
      /\ stale' = [h \in Handlers |-> pending'[h] # None]
      /\ acked' = [a \in Actions |-> None] /\ desire' = [m \in Models |-> None]
      /\ calls < MaxCalls /\ calls' = calls + 1
      /\ faults' = faults \/ (faults < MaxFaults /\ faults' = faults + 1)
  BY <1>1 DEF AddNode, Replace, Called, Fault
<1>6. \A h \in Handlers : ~ Fresh(h)'
  <2>1. \A h \in Handlers : stale'[h] = (pending'[h] # None)
    BY <1>5
  <2> QED
    BY <2>1 DEF Fresh
<1>7. RecordsInv'
  <2>1. calls' \in 0..MaxCalls /\ faults' \in 0..MaxFaults
    BY <1>5, ActionsAssumption DEF RecordsInv, TypeOK
  <2>2. /\ stale' \in [Handlers -> BOOLEAN] /\ acked' \in [Actions -> Statuses \union {None}]
        /\ desire' \in [Models -> BOOLEAN \union {None}]
    BY <1>5
  <2>3. node' \in Record /\ disk' \in Record
    BY <1>4, <1>5 DEF RecordsInv, TypeOK
  <2>4. TypeOK'
    BY <1>5, <2>1, <2>2, <2>3 DEF RecordsInv, TypeOK
  <2>5. Sane(node', created') /\ Sane(disk', created')
    BY <1>4, <1>5 DEF RecordsInv
  <2>6. \A h \in Handlers : pending'[h] # None => Sane(pending'[h], created') /\ About(call'[h], pending'[h])
    BY <1>5 DEF RecordsInv
  <2> QED
    BY <2>4, <2>5, <2>6 DEF RecordsInv
<1>8. HandInv'
  <2>1. \A a : ~ Queued(r, a)
    <3>1. 1..Len(r.actions) = {}
      BY <1>4
    <3> QED
      BY <3>1 DEF Queued
  <2>2. \A a \in Actions : Queued(node', a) \/ Queued(disk', a) => Room(a)'
    BY <1>5, <2>1 DEF HandInv, Room
  <2>3. HandedOutOnce' /\ \A a \in Actions \ created' : handed'[a] = 0
    BY <1>5 DEF HandInv, HandedOutOnce
  <2> QED
    BY <1>6, <2>2, <2>3 DEF HandInv
<1>9. StandInv'
  <2>1. \A n : Sane(n, created) => Stands(n, acked', desire')
    <3> SUFFICES ASSUME NEW n, Sane(n, created) PROVE Stands(n, acked', desire')
      OBVIOUS
    <3>1. \A i \in 1..Len(n.actions) : n.actions[i].id \in Actions
      BY DEF Sane, RecordsInv, TypeOK
    <3> QED
      BY <1>5, <3>1 DEF Stands
  <2>2. Stands(node', acked', desire') /\ Stands(disk', acked', desire')
    BY <1>4, <1>5, <2>1 DEF RecordsInv
  <2>3. \A a \in Actions \ created' : acked'[a] = None
    BY <1>5
  <2> QED
    BY <1>6, <2>2, <2>3 DEF StandInv
<1> QED
  BY <1>7, <1>8, <1>9

\* An audit event, a restart, or nothing.
LEMMA StoreKeeps ==
    ASSUME RecordsInv, HandInv, StandInv, AuditEvent \/ Restart \/ UNCHANGED vars
    PROVE  RecordsInv' /\ HandInv' /\ StandInv'
<1>1. /\ node' \in {node, disk} /\ disk' \in {node, disk}
      /\ UNCHANGED <<created, handed, requeued, slips, acked, desire, calls>>
      /\ faults' = faults \/ (faults < MaxFaults /\ faults' = faults + 1)
  BY DEF AuditEvent, Restart, Fault, vars, history, handlerVars
<1>2. \/ UNCHANGED <<pending, call, stale>>
      \/ /\ pending' = [h \in Handlers |-> None] /\ call' = [h \in Handlers |-> NoCall]
         /\ stale' = [h \in Handlers |-> FALSE]
  BY DEF AuditEvent, Restart, vars, handlerVars
<1>3. \A h \in Handlers : pending'[h] # None =>
         pending'[h] = pending[h] /\ call'[h] = call[h] /\ stale'[h] = stale[h]
  BY <1>2
<1>4. TypeOK'
  <2>1. NoCall \in Call
    BY DEF NoCall, Call
  <2>2. /\ pending' \in [Handlers -> Record \union {None}] /\ call' \in [Handlers -> Call]
        /\ stale' \in [Handlers -> BOOLEAN]
    BY <1>2, <2>1 DEF RecordsInv, TypeOK
  <2>3. faults' \in 0..MaxFaults
    BY <1>1, ActionsAssumption DEF RecordsInv, TypeOK
  <2> QED
    BY <1>1, <2>2, <2>3 DEF RecordsInv, TypeOK
<1>5. RecordsInv'
  BY <1>1, <1>3, <1>4 DEF RecordsInv
<1>6. \A h \in Handlers : Fresh(h)' => Fresh(h) /\ pending'[h] = pending[h] /\ call'[h] = call[h]
  BY <1>3 DEF Fresh
<1>7. HandInv'
  <2>1. HandedOutOnce' /\ (\A a \in Actions \ created' : handed'[a] = 0) /\ \A a \in Actions : Room(a) => Room(a)'
    BY <1>1 DEF HandInv, HandedOutOnce, Room
  <2>2. \A a \in Actions : Queued(node', a) \/ Queued(disk', a) => Room(a)'
    BY <1>1, <2>1 DEF HandInv
  <2> QED
    BY <1>6, <2>1, <2>2 DEF HandInv
<1>8. StandInv'
  BY <1>1, <1>6 DEF StandInv
<1> QED
  BY <1>5, <1>7, <1>8

\* Every step keeps the invariants.
LEMMA InvStep ==
    ASSUME RecordsInv, HandInv, StandInv, [Next]_vars
    PROVE  RecordsInv' /\ HandInv' /\ StandInv'
<1>1. ASSUME NEW h \in Handlers,
             \/ \E a \in Actions, m \in Models, d \in BOOLEAN : QueueAction(h, a, m, d)
             \/ \E i \in 1..Len(node.actions) : ClaimAction(h, i)
             \/ \E a \in Actions, s \in Reports : ReportAction(h, a, s)
             \/ \E inv \in Inventories \union {None}, ready \in BOOLEAN : Heartbeat(h, inv, ready)
             \/ \E ready \in BOOLEAN : UpdateNode(h, ready)
             \/ \E m \in Models : BenchmarkResult(h, m)
             \/ \E inv \in Inventories : ProbePassive(h, inv)
      PROVE  RecordsInv' /\ HandInv' /\ StandInv'
  BY <1>1, WorkPrepares, PreparesKeeps
<1>2. ASSUME NEW h \in Handlers, Write(h) \/ WriteUnheard(h)
      PROVE  RecordsInv' /\ HandInv' /\ StandInv'
  BY <1>2, FinishKeeps
<1> QED
  BY <1>1, <1>2, AddKeeps, StoreKeeps DEF Next

\* However handlers overlap, saves fail and the marshal restarts, every copy of
\* the node agrees with itself: no action is listed twice, no list outgrows its
\* bound, the observed fields show its head, passive endpoints have none, and
\* the counts of warm and kept models are those of the inventory.
THEOREM RecordsStayCoherent == Spec => []RecordsCoherent
<1>1. RecordsInv /\ HandInv /\ StandInv /\ [Next]_vars => RecordsInv' /\ HandInv' /\ StandInv'
  BY InvStep
<1>2. RecordsInv => RecordsCoherent
  BY DEF RecordsInv, Sane, RecordsCoherent, ActionListCoherent, SummaryMatchesModels
<1> QED
  BY <1>1, <1>2, InvInit, PTL DEF Spec

\* An action is handed to the subscriber once, and once more only for every
\* time it was reported queued and every write of a stale copy of the node.
THEOREM ActionsHandedOutOnce == Spec => []HandedOutOnce
<1>1. RecordsInv /\ HandInv /\ StandInv /\ [Next]_vars => RecordsInv' /\ HandInv' /\ StandInv'
  BY InvStep
<1>2. HandInv => HandedOutOnce
  BY DEF HandInv
<1> QED
  BY <1>1, <1>2, InvInit, PTL DEF Spec

\* As long as no stale copy was written, a report that was acknowledged is what
\* memory and file say of the action, through failed saves and restarts, and
\* a completed desire is the model's keep-warm flag.
THEOREM ReportsStand == Spec => []AcknowledgedReportStands
<1>1. RecordsInv /\ HandInv /\ StandInv /\ [Next]_vars => RecordsInv' /\ HandInv' /\ StandInv'
  BY InvStep
<1>2. ASSUME RecordsInv, StandInv PROVE AcknowledgedReportStands
  <2>1. ASSUME NEW n, n \in Record, Stands(n, acked, desire)
        PROVE  Keeps(n)
    <3>1. \A m \in DOMAIN n.models : m \in Models
      BY <2>1, InventoryFacts DEF Record
    <3> QED
      BY <2>1, <3>1 DEF Stands, Keeps
  <2> QED
    BY <1>2, <2>1 DEF StandInv, RecordsInv, TypeOK, AcknowledgedReportStands
<1> QED
  BY <1>1, <1>2, InvInit, PTL DEF Spec
===============================================================================
