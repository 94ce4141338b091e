------------------------ MODULE QueueSchedulerProofs --------------------------
(***************************************************************************)
(* Theorems about QueueScheduler, for any number of requests, operators,   *)
(* settings and slots.  The inductive invariants are SchedulerInv, and     *)
(* TrackerInv for the tracker beside the scheduler.                        *)
(***************************************************************************)
EXTENDS QueueScheduler, SequenceTheorems, FiniteSetTheorems, WellFoundedInduction, TLAPS

\* Removing position i of a sequence moves the later elements down by one.
LEMMA RemoveAtFacts ==
    ASSUME NEW S, NEW s \in Seq(S), NEW i \in 1..Len(s)
    PROVE  /\ RemoveAt(s, i) \in Seq(S)
           /\ Len(RemoveAt(s, i)) = Len(s) - 1
           /\ \A j \in 1..(Len(s) - 1) :
                 RemoveAt(s, i)[j] = IF j < i THEN s[j] ELSE s[j + 1]
<1> DEFINE front == SubSeq(s, 1, i - 1)
           back  == SubSeq(s, i + 1, Len(s))
<1>1. front \in Seq(S) /\ Len(front) = i - 1 /\ \A j \in 1..(i - 1) : front[j] = s[j]
  OBVIOUS
<1>2. /\ back \in Seq(S)
      /\ Len(back) = Len(s) - i
      /\ \A j \in 1..(Len(s) - i) : back[j] = s[i + j]
  OBVIOUS
<1> HIDE DEF front, back
<1>3. /\ front \o back \in Seq(S)
      /\ Len(front \o back) = Len(s) - 1
      /\ \A j \in 1..(Len(s) - 1) :
            (front \o back)[j] = IF j < i THEN s[j] ELSE s[j + 1]
  <2>1. front \o back \in Seq(S) /\ Len(front \o back) = Len(s) - 1
    BY <1>1, <1>2
  <2>2. ASSUME NEW j \in 1..(Len(s) - 1), j < i
        PROVE  (front \o back)[j] = s[j]
    BY <1>1, <1>2, <2>2
  <2>3. ASSUME NEW j \in 1..(Len(s) - 1), ~(j < i)
        PROVE  (front \o back)[j] = s[j + 1]
    <3>1. (front \o back)[j] = back[j - (i - 1)]
      BY <1>1, <1>2, <2>3
    <3>2. j - (i - 1) \in 1..(Len(s) - i) /\ i + (j - (i - 1)) = j + 1
      BY <1>1, <2>3
    <3> QED
      BY <1>2, <3>1, <3>2
  <2> QED
    BY <2>1, <2>2, <2>3
<1> QED
  BY <1>3 DEF RemoveAt, front, back

\* Removing position i of a list without repetitions removes just that element.
LEMMA RemoveAtUnique ==
    ASSUME NEW S, NEW s \in Seq(S), NEW i \in 1..Len(s),
           \A j, k \in 1..Len(s) : s[j] = s[k] => j = k
    PROVE  /\ \A j, k \in 1..Len(RemoveAt(s, i)) :
                 RemoveAt(s, i)[j] = RemoveAt(s, i)[k] => j = k
           /\ \A x : (\E j \in 1..Len(RemoveAt(s, i)) : RemoveAt(s, i)[j] = x)
                      <=> x # s[i] /\ \E j \in 1..Len(s) : s[j] = x
<1> DEFINE t == RemoveAt(s, i)
<1>1. /\ Len(t) = Len(s) - 1
      /\ \A j \in 1..(Len(s) - 1) : t[j] = IF j < i THEN s[j] ELSE s[j + 1]
  BY RemoveAtFacts
<1> HIDE DEF t
<1>2. \A j, k \in 1..Len(t) : t[j] = t[k] => j = k
  BY <1>1
<1>3. ASSUME NEW x, NEW j \in 1..Len(t), t[j] = x
      PROVE  x # s[i] /\ \E k \in 1..Len(s) : s[k] = x
  BY <1>1, <1>3
<1>4. ASSUME NEW x, x # s[i], NEW j \in 1..Len(s), s[j] = x
      PROVE  \E k \in 1..Len(t) : t[k] = x
  <2>1. CASE j < i
    <3>1. j \in 1..Len(t) /\ t[j] = x
      BY <1>1, <1>4, <2>1
    <3> QED
      BY <3>1
  <2>2. CASE j > i
    <3>1. j - 1 \in 1..Len(t) /\ t[j - 1] = x
      BY <1>1, <1>4, <2>2
    <3> QED
      BY <3>1
  <2>3. j # i
    BY <1>4
  <2> QED
    BY <2>1, <2>2, <2>3
<1> QED
  BY <1>2, <1>3, <1>4 DEF t

\* Prepending to a list and cutting it keeps the type of its elements.
LEMMA PrependType ==
    ASSUME NEW S, NEW e \in S, NEW s \in Seq(S), NEW n \in Nat
    PROVE  SubSeq(<<e>> \o s, 1, IF Len(s) < n THEN Len(s) + 1 ELSE n) \in Seq(S)
<1> DEFINE t == <<e>> \o s
           m == IF Len(s) < n THEN Len(s) + 1 ELSE n
<1>1. t \in Seq(S) /\ Len(t) = Len(s) + 1
  OBVIOUS
<1>2. m \in 0..Len(t)
  BY <1>1
<1> HIDE DEF t, m
<1>3. SubSeq(t, 1, m) \in Seq(S)
  BY <1>1, <1>2
<1> QED
  BY <1>3 DEF t, m

\* What the cut list holds is the new element or was there before.
LEMMA PrependElements ==
    ASSUME NEW S, NEW e \in S, NEW s \in Seq(S), NEW n \in Nat,
           NEW t, t = SubSeq(<<e>> \o s, 1, IF Len(s) < n THEN Len(s) + 1 ELSE n)
    PROVE  /\ t \in Seq(S)
           /\ Len(t) = IF Len(s) < n THEN Len(s) + 1 ELSE n
           /\ Len(t) > 0 => t[1] = e
           /\ \A i \in 2..Len(t) : i - 1 \in 1..Len(s) /\ t[i] = s[i - 1]
<1> DEFINE u == <<e>> \o s
           m == IF Len(s) < n THEN Len(s) + 1 ELSE n
<1>1. u \in Seq(S) /\ Len(u) = Len(s) + 1
  OBVIOUS
<1>2. m \in 0..Len(u)
  BY <1>1
<1>3. u[1] = e /\ \A i \in 2..Len(u) : i - 1 \in 1..Len(s) /\ u[i] = s[i - 1]
  BY <1>1
<1> HIDE DEF u, m
<1>4. SubSeq(u, 1, m) \in Seq(S) /\ Len(SubSeq(u, 1, m)) = m /\ \A i \in 1..m : SubSeq(u, 1, m)[i] = u[i]
  BY <1>1, <1>2
<1>5. t = SubSeq(u, 1, m)
  BY DEF u, m
<1> QED
  BY <1>1, <1>2, <1>3, <1>4, <1>5 DEF m

\* Normalisation makes capacity and weights positive whatever is sent.
LEMMA NormalizedType ==
    ASSUME NEW s \in Settings \union {Boot}
    PROVE  Normalized(s) \in NormalSettings
<1>1. s.depth \in Int /\ s.high \in Int /\ s.normal \in Int /\ s.low \in Int
  BY ConstantsAssumption
<1>2. Capacity(s) \in Nat \ {0}
  BY <1>1, ConstantsAssumption DEF Capacity, Positive
<1>3. normalizeQueuePriorityWeights(s) \in WeightSet
  BY <1>1 DEF normalizeQueuePriorityWeights, Positive, WeightSet
<1>4. normalizeQueueSchedulingPolicy(s) \in Policies
  BY DEF normalizeQueueSchedulingPolicy, Policies
<1> QED
  BY <1>2, <1>3, <1>4 DEF Normalized, NormalSettings

\* The initial state has the types of TypeOK.
LEMMA TypeOKInit == Init => TypeOK
<1> SUFFICES ASSUME Init PROVE TypeOK
  OBVIOUS
<1>1. Normalized(Boot) \in NormalSettings /\ Capacity(Boot) = Normalized(Boot).capacity
  BY NormalizedType DEF Normalized
<1>2. 0 \in 0 .. RoundLength(weights) - 1
  BY <1>1 DEF Init, NormalSettings, WeightSet, RoundLength
<1> QED
  BY <1>1, <1>2 DEF Init, TypeOK, NormalSettings, Labels, Entries, NoEntry

\* finish keeps the tracker's types.
LEMMA FinishEntryType ==
    ASSUME TypeOK, NEW r \in Requests, NEW status \in Final, FinishEntry(r, status)
    PROVE  /\ current' \in [Requests -> Entries]
           /\ recent' \in Seq([request : Requests, status : Final])
           /\ trackerCap' \in Nat \ {0}
<1>1. RecentCap \in Nat
  BY ConstantsAssumption
<1> DEFINE e == [request |-> r, status |-> status]
<1>2. e \in [request : Requests, status : Final]
  OBVIOUS
<1>3. recent' \in Seq([request : Requests, status : Final])
  BY <1>1, <1>2, PrependType DEF FinishEntry, TypeOK
<1> QED
  BY <1>3 DEF FinishEntry, TypeOK, NoEntry, Entries

\* Every step of the queue and its handlers keeps the types.
LEMMA TypeOKStep == TypeOK /\ [Next]_vars => TypeOK'
<1> SUFFICES ASSUME TypeOK, [Next]_vars PROVE TypeOK'
  OBVIOUS
<1> USE DEF TypeOK, Goto, Labels
<1>1. ASSUME NEW r \in Requests, Enqueue(r) PROVE TypeOK'
  <2>1. PICK h \in Headers :
           /\ header' = [header EXCEPT ![r] = h]
           /\ current' = [current EXCEPT ![r] =
                            [status |-> "waiting", priority |-> normalizeQueuePriority(h)]]
    BY <1>1 DEF Enqueue
  <2>2. h \in Priorities \union {"absent"} /\ normalizeQueuePriority(h) \in Priorities
    BY ConstantsAssumption DEF normalizeQueuePriority, Priorities
  <2>3. [status |-> "waiting", priority |-> normalizeQueuePriority(h)] \in Entries
    BY <2>2 DEF Entries
  <2> QED
    BY <1>1, <2>1, <2>2, <2>3 DEF Enqueue, schedVars, adminVars
<1>2. ASSUME NEW r \in Requests, AcquireFast(r) PROVE TypeOK'
  BY <1>2 DEF AcquireFast, adminVars, trackVars
<1>3. ASSUME NEW r \in Requests, AcquireWait(r) PROVE TypeOK'
  BY <1>3 DEF AcquireWait, adminVars, trackVars
<1>4. ASSUME NEW r \in Requests,
             Woken(r) \/ Expire(r) \/ ExpiredButDispatched(r) \/ Proxied(r)
      PROVE TypeOK'
  BY <1>4 DEF Woken, Expire, ExpiredButDispatched, Proxied, schedVars, adminVars, trackVars
<1>5. ASSUME NEW r \in Requests, Withdraw(r) PROVE TypeOK'
  <2>1. waiting' \in Seq(Requests)
    BY <1>5, RemoveAtFacts DEF Withdraw
  <2> QED
    BY <1>5, <2>1 DEF Withdraw, adminVars, trackVars
<1>6. ASSUME NEW r \in Requests, Start(r) PROVE TypeOK'
  BY <1>6 DEF Start, schedVars, adminVars, Entries
<1>7. ASSUME NEW r \in Requests, Deny(r) PROVE TypeOK'
  <2>1. PICK status \in {"cancelled", "rejected"} : FinishEntry(r, status)
    BY <1>7 DEF Deny
  <2>2. status \in Final
    BY DEF Final
  <2> QED
    BY <1>7, <2>1, <2>2, FinishEntryType DEF Deny, schedVars, adminVars
<1>8. ASSUME NEW r \in Requests, ReadBody(r) PROVE TypeOK'
  <2>1. PICK body \in BodyPriorities :
           current' = [current EXCEPT ![r].priority = parseRequestPriority(r, body)]
    BY <1>8 DEF ReadBody
  <2>2. parseRequestPriority(r, body) \in Priorities
    BY ConstantsAssumption DEF parseRequestPriority
  <2> QED
    BY <1>8, <2>1, <2>2 DEF ReadBody, schedVars, adminVars, Entries
<1>9. ASSUME NEW r \in Requests, Release(r) PROVE TypeOK'
  BY <1>9 DEF Release, adminVars, trackVars
<1>10. ASSUME NEW r \in Requests, ReleaseDone(r) PROVE TypeOK'
  BY <1>10 DEF ReleaseDone, adminVars, trackVars
<1>11. ASSUME NEW r \in Requests, Finish(r) PROVE TypeOK'
  <2>1. PICK status \in {"completed", "failed", "cancelled", "partial"} :
           FinishEntry(r, status)
    BY <1>11 DEF Finish
  <2>2. status \in Final
    BY DEF Final
  <2> QED
    BY <1>11, <2>1, <2>2, FinishEntryType DEF Finish, schedVars, adminVars
<1>12. ASSUME NEW a \in Admins, PutRoutingPolicies(a) PROVE TypeOK'
  BY <1>12, NormalizedType DEF PutRoutingPolicies, schedVars, trackVars
<1>13. ASSUME NEW a \in Admins, ConfigureScheduler(a) PROVE TypeOK'
  <2>1. wanted[a] \in NormalSettings
    OBVIOUS
  <2>2. /\ capacity' \in Nat \ {0}
        /\ policy' \in Policies
        /\ weights' \in WeightSet
    BY <1>13, <2>1 DEF ConfigureScheduler, NormalSettings
  <2>3. cursor' \in 0 .. RoundLength(weights') - 1
    <3>1. RoundLength(weights') \in Nat \ {0}
      BY <2>2 DEF RoundLength, WeightSet
    <3>2. cursor' = IF cursor >= RoundLength(weights') THEN 0 ELSE cursor
      BY <1>13 DEF ConfigureScheduler
    <3>3. cursor \in Nat
      BY DEF RoundLength, WeightSet
    <3> HIDE DEF TypeOK
    <3> QED
      BY <3>1, <3>2, <3>3
  <2> QED
    BY <1>13, <2>2, <2>3 DEF ConfigureScheduler, trackVars, RoundLength
<1>14. ASSUME NEW a \in Admins, ConfigureDone(a) PROVE TypeOK'
  BY <1>14 DEF ConfigureDone, trackVars
<1>15. ASSUME NEW a \in Admins, ConfigureTracker(a) PROVE TypeOK'
  BY <1>15 DEF ConfigureTracker, schedVars, NormalSettings
<1>16. ASSUME DispatchOne PROVE TypeOK'
  <2>1. PICK i \in 1..Len(waiting), c \in 0 .. RoundLength(weights) - 1 :
           /\ cursor' = c
           /\ waiting' = RemoveAt(waiting, i)
           /\ dispatched' = [dispatched EXCEPT ![waiting[i]] = TRUE]
           /\ active' = active + 1
    BY <1>16 DEF DispatchOne
  <2>2. waiting' \in Seq(Requests)
    BY <2>1, RemoveAtFacts
  <2> QED
    BY <1>16, <2>1, <2>2 DEF DispatchOne, adminVars, trackVars
<1>17. ASSUME UNCHANGED vars PROVE TypeOK'
  BY <1>17 DEF vars, schedVars, adminVars, trackVars
<1> QED
  BY <1>1, <1>2, <1>3, <1>4, <1>5, <1>6, <1>7, <1>8, <1>9, <1>10, <1>11, <1>12,
     <1>13, <1>14, <1>15, <1>16, <1>17 DEF Next, RequestStep, AdminStep

\* Type correctness of the queue: every variable keeps its type; in particular
\* no reconfiguration yields an empty round or leaves the cursor outside it.
THEOREM TypeCorrect == Spec => []TypeOK
  BY TypeOKInit, TypeOKStep, PTL DEF Spec
-------------------------------------------------------------------------------
(* The shape of a step, as seen by whoever counts slots. *)

Stays == UNCHANGED <<active, capacity>> /\ Holders' = Holders /\ Waiters' = Waiters

Joins(r) ==
    /\ UNCHANGED <<active, capacity>>
    /\ r \notin Holders \union Waiters
    /\ Holders' = Holders
    /\ Waiters' = Waiters \union {r}

Admits(r) ==
    /\ active < capacity
    /\ active' = active + 1
    /\ capacity' = capacity
    /\ r \notin Holders
    /\ Holders' = Holders \union {r}
    /\ Waiters' = Waiters \ {r}

Withdraws(r) ==
    /\ UNCHANGED <<active, capacity>>
    /\ r \in Waiters
    /\ Holders' = Holders
    /\ Waiters' = Waiters \ {r}

Leaves(r) ==
    /\ active' = IF active > 0 THEN active - 1 ELSE active
    /\ capacity' = capacity
    /\ r \in Holders
    /\ Holders' = Holders \ {r}
    /\ Waiters' = Waiters

Limits == {Capacity(s) : s \in Settings \union {Boot}}

\* The capacity and the settings on their way are ones an operator may choose.
LimitsOK == capacity \in Limits /\ \A a \in Admins : wanted[a].capacity \in Limits

Resizes ==
    /\ active' = active
    /\ LimitsOK => capacity' \in Limits
    /\ Holders' = Holders
    /\ Waiters' = Waiters

Shape ==
    \/ Stays
    \/ Resizes
    \/ \E r \in Requests : Joins(r) \/ Admits(r) \/ Withdraws(r) \/ Leaves(r)

\* Seen through the slot owners and the waiters, every step of the queue is
\* one of five kinds.
LEMMA StepShape == TypeOK /\ WaiterDiscipline /\ [Next]_vars => Shape
<1> SUFFICES ASSUME TypeOK, WaiterDiscipline, [Next]_vars PROVE Shape
  OBVIOUS
<1> USE DEF Holders, Waiters, Blocked, Goto
<1>0. pc \in [Requests -> Labels] /\ dispatched \in [Requests -> BOOLEAN]
  BY DEF TypeOK
<1>1. ASSUME NEW r \in Requests, Enqueue(r) PROVE Stays
  BY <1>0, <1>1 DEF Enqueue, schedVars, Stays
<1>2. ASSUME NEW r \in Requests, AcquireFast(r) PROVE Admits(r)
  BY <1>0, <1>2 DEF AcquireFast, Admits
<1>3. ASSUME NEW r \in Requests, AcquireWait(r) PROVE Joins(r)
  <2>1. ~ dispatched[r]
    BY <1>3 DEF AcquireWait, WaiterDiscipline
  <2> QED
    BY <1>0, <1>3, <2>1 DEF AcquireWait, Joins
<1>4. ASSUME NEW r \in Requests, Woken(r) \/ Expire(r) \/ ExpiredButDispatched(r)
      PROVE  Stays
  BY <1>0, <1>4 DEF Woken, Expire, ExpiredButDispatched, schedVars, Stays
<1>5. ASSUME NEW r \in Requests, Withdraw(r) PROVE Withdraws(r)
  BY <1>0, <1>5 DEF Withdraw, Withdraws
<1>6. ASSUME NEW r \in Requests, Start(r) \/ ReadBody(r) \/ Proxied(r) PROVE Stays
  BY <1>0, <1>6 DEF Start, ReadBody, Proxied, schedVars, Stays
<1>7. ASSUME NEW r \in Requests, Deny(r) \/ Finish(r) PROVE Stays
  BY <1>0, <1>7 DEF Deny, Finish, schedVars, Stays
<1>8. ASSUME NEW r \in Requests, Release(r) PROVE Leaves(r)
  BY <1>0, <1>8 DEF Release, Leaves
<1>9. ASSUME NEW r \in Requests, ReleaseDone(r) PROVE Stays
  BY <1>0, <1>9 DEF ReleaseDone, Stays
<1>10. ASSUME NEW a \in Admins,
              PutRoutingPolicies(a) \/ ConfigureDone(a) \/ ConfigureTracker(a)
       PROVE  Stays
  BY <1>10 DEF PutRoutingPolicies, ConfigureDone, ConfigureTracker, schedVars, Stays
<1>11. ASSUME NEW a \in Admins, ConfigureScheduler(a) PROVE Resizes
  BY <1>11 DEF ConfigureScheduler, Resizes, LimitsOK
<1>12. ASSUME DispatchOne PROVE \E r \in Requests : Admits(r)
  <2>1. PICK i \in 1..Len(waiting) :
           /\ dispatched' = [dispatched EXCEPT ![waiting[i]] = TRUE]
           /\ active' = active + 1
    BY <1>12 DEF DispatchOne
  <2>2. PICK r \in Requests : r = waiting[i]
    BY DEF TypeOK
  <2>3. r \in Waiters
    BY <2>2 DEF WaiterDiscipline
  <2>4. Admits(r)
    BY <1>0, <1>12, <2>1, <2>2, <2>3 DEF DispatchOne, CanDispatch, Admits
  <2> QED
    BY <2>4
<1>13. ASSUME UNCHANGED vars PROVE Stays
  BY <1>13 DEF vars, schedVars, Stays
<1> QED
  BY <1>1, <1>2, <1>3, <1>4, <1>5, <1>6, <1>7, <1>8, <1>9, <1>10, <1>11, <1>12, <1>13
  DEF Next, RequestStep, AdminStep, Shape

\* Whatever the step, the slot counter follows the set of holders.
LEMMA SlotAccountingStep ==
    ASSUME TypeOK, SlotAccounting, Shape
    PROVE  SlotAccounting'
<1>1. IsFiniteSet(Holders)
  BY ConstantsAssumption, FS_Subset DEF Holders
<1>2. CASE Holders' = Holders /\ active' = active
  BY <1>2 DEF SlotAccounting
<1>3. ASSUME NEW r \in Requests, Admits(r) PROVE SlotAccounting'
  BY <1>1, <1>3, FS_AddElement DEF Admits, SlotAccounting
<1>4. ASSUME NEW r \in Requests, Leaves(r) PROVE SlotAccounting'
  <2>1. Cardinality(Holders \ {r}) = Cardinality(Holders) - 1
    BY <1>1, <1>4, FS_RemoveElement DEF Leaves
  <2>2. active > 0
    <3>1. Cardinality(Holders) # 0
      BY <1>1, <1>4, FS_EmptySet DEF Leaves
    <3> QED
      BY <3>1 DEF SlotAccounting, TypeOK
  <2> QED
    BY <1>4, <2>1, <2>2 DEF Leaves, SlotAccounting
<1> QED
  BY <1>2, <1>3, <1>4 DEF Shape, Stays, Resizes, Joins, Withdraws
\* The waiting list stays the list of the requests that block undispatched.
LEMMA WaiterDisciplineStep ==
    TypeOK /\ WaiterDiscipline /\ [Next]_vars => WaiterDiscipline'
<1> SUFFICES ASSUME TypeOK, WaiterDiscipline, [Next]_vars PROVE WaiterDiscipline'
  OBVIOUS
<1> USE DEF Waiters, Blocked, Goto
<1>0. /\ pc \in [Requests -> Labels]
      /\ dispatched \in [Requests -> BOOLEAN]
      /\ waiting \in Seq(Requests)
  BY DEF TypeOK
<1>1. ASSUME NEW r \in Requests,
             Enqueue(r) \/ Woken(r) \/ Expire(r) \/ ExpiredButDispatched(r)
      PROVE  WaiterDiscipline'
  BY <1>0, <1>1 DEF Enqueue, Woken, Expire, ExpiredButDispatched, schedVars, WaiterDiscipline
<1>2. ASSUME NEW r \in Requests,
             AcquireFast(r) \/ Release(r) \/ ReleaseDone(r)
      PROVE  WaiterDiscipline'
  BY <1>0, <1>2 DEF AcquireFast, Release, ReleaseDone, WaiterDiscipline
<1>3. ASSUME NEW r \in Requests, AcquireWait(r) PROVE WaiterDiscipline'
  <2>1. /\ Len(waiting') = Len(waiting) + 1
        /\ waiting'[Len(waiting) + 1] = r
        /\ \A i \in 1..Len(waiting) : waiting'[i] = waiting[i]
    BY <1>0, <1>3 DEF AcquireWait
  <2>2. r \notin Waiters /\ ~ dispatched[r]
    BY <1>3 DEF AcquireWait, WaiterDiscipline
  <2>3. \A q \in Requests : q \in Waiters' <=> q \in Waiters \/ q = r
    BY <1>0, <1>3, <2>2 DEF AcquireWait
  <2>4. \A i \in 1..Len(waiting) : waiting[i] # r
    BY <2>2 DEF WaiterDiscipline
  <2>5. \A i, j \in 1..Len(waiting') : waiting'[i] = waiting'[j] => i = j
    BY <1>0, <2>1, <2>4 DEF WaiterDiscipline
  <2>6. \A q \in Requests :
           (\E i \in 1..Len(waiting') : waiting'[i] = q)
           <=> q = r \/ \E i \in 1..Len(waiting) : waiting[i] = q
    <3>1. ASSUME NEW q \in Requests, NEW i \in 1..Len(waiting'), waiting'[i] = q
          PROVE  q = r \/ \E j \in 1..Len(waiting) : waiting[j] = q
      BY <1>0, <2>1, <3>1
    <3>2. ASSUME NEW q \in Requests, NEW i \in 1..Len(waiting), waiting[i] = q
          PROVE  \E j \in 1..Len(waiting') : waiting'[j] = q
      <4>1. i \in 1..Len(waiting') /\ waiting'[i] = q
        BY <1>0, <2>1, <3>2
      <4> QED
        BY <4>1
    <3>3. Len(waiting) + 1 \in 1..Len(waiting')
      BY <1>0, <2>1
    <3> QED
      BY <2>1, <3>1, <3>2, <3>3
  <2>7. \A q \in Requests : pc'[q] \in {"idle", "enqueued"} => ~ dispatched'[q]
    BY <1>0, <1>3 DEF AcquireWait, WaiterDiscipline
  <2>8. \A q \in Requests : q \in Waiters' <=> \E i \in 1..Len(waiting') : waiting'[i] = q
    BY <2>3, <2>6 DEF WaiterDiscipline
  <2> QED
    BY <2>5, <2>7, <2>8 DEF WaiterDiscipline
<1>4. ASSUME NEW r \in Requests, Withdraw(r) PROVE WaiterDiscipline'
  <2>1. PICK i \in 1..Len(waiting) : waiting[i] = r /\ waiting' = RemoveAt(waiting, i)
    BY <1>4 DEF Withdraw
  <2>2. /\ \A j, k \in 1..Len(waiting') : waiting'[j] = waiting'[k] => j = k
        /\ \A x : (\E j \in 1..Len(waiting') : waiting'[j] = x)
                   <=> x # r /\ \E j \in 1..Len(waiting) : waiting[j] = x
    <3> DEFINE t == RemoveAt(waiting, i)
    <3>1. \A j, k \in 1..Len(waiting) : waiting[j] = waiting[k] => j = k
      BY DEF WaiterDiscipline
    <3>2. /\ \A j, k \in 1..Len(t) : t[j] = t[k] => j = k
          /\ \A x : (\E j \in 1..Len(t) : t[j] = x)
                     <=> x # waiting[i] /\ \E j \in 1..Len(waiting) : waiting[j] = x
      BY <1>0, <3>1, RemoveAtUnique
    <3> QED
      BY <2>1, <3>2
  <2>3. \A q \in Requests : q \in Waiters' <=> q \in Waiters /\ q # r
    BY <1>0, <1>4 DEF Withdraw
  <2>4. \A q \in Requests : pc'[q] \in {"idle", "enqueued"} => ~ dispatched'[q]
    BY <1>0, <1>4 DEF Withdraw, WaiterDiscipline
  <2> QED
    BY <2>2, <2>3, <2>4 DEF WaiterDiscipline
<1>5. ASSUME NEW r \in Requests, Start(r) \/ ReadBody(r) \/ Proxied(r) \/ Deny(r) \/ Finish(r)
      PROVE  WaiterDiscipline'
  BY <1>0, <1>5 DEF Start, ReadBody, Proxied, Deny, Finish, schedVars, WaiterDiscipline
<1>6. ASSUME NEW a \in Admins, AdminStep(a) PROVE WaiterDiscipline'
  BY <1>6 DEF AdminStep, PutRoutingPolicies, ConfigureScheduler, ConfigureDone,
              ConfigureTracker, schedVars, WaiterDiscipline
<1>7. ASSUME DispatchOne PROVE WaiterDiscipline'
  <2>1. PICK i \in 1..Len(waiting) :
           /\ waiting' = RemoveAt(waiting, i)
           /\ dispatched' = [dispatched EXCEPT ![waiting[i]] = TRUE]
    BY <1>7 DEF DispatchOne
  <2>2. PICK r \in Requests : r = waiting[i]
    BY <1>0
  <2>3. /\ \A j, k \in 1..Len(waiting') : waiting'[j] = waiting'[k] => j = k
        /\ \A x : (\E j \in 1..Len(waiting') : waiting'[j] = x)
                   <=> x # r /\ \E j \in 1..Len(waiting) : waiting[j] = x
    <3> DEFINE t == RemoveAt(waiting, i)
    <3>1. \A j, k \in 1..Len(waiting) : waiting[j] = waiting[k] => j = k
      BY DEF WaiterDiscipline
    <3>2. /\ \A j, k \in 1..Len(t) : t[j] = t[k] => j = k
          /\ \A x : (\E j \in 1..Len(t) : t[j] = x)
                     <=> x # waiting[i] /\ \E j \in 1..Len(waiting) : waiting[j] = x
      BY <1>0, <3>1, RemoveAtUnique
    <3> QED
      BY <2>1, <2>2, <3>2
  <2>4. r \in Waiters
    BY <2>2 DEF WaiterDiscipline
  <2>5. pc' = pc /\ dispatched' = [dispatched EXCEPT ![r] = TRUE]
    BY <1>7, <2>1, <2>2 DEF DispatchOne
  <2>6. \A q \in Requests : q \in Waiters' <=> q \in Waiters /\ q # r
    BY <1>0, <2>5
  <2>7. \A q \in Requests : pc'[q] \in {"idle", "enqueued"} => ~ dispatched'[q]
    BY <1>0, <2>4, <2>5 DEF WaiterDiscipline
  <2> QED
    BY <2>3, <2>6, <2>7 DEF WaiterDiscipline
<1>8. ASSUME UNCHANGED vars PROVE WaiterDiscipline'
  BY <1>8 DEF vars, schedVars, WaiterDiscipline
<1> QED
  BY <1>1, <1>2, <1>3, <1>4, <1>5, <1>6, <1>7, <1>8 DEF Next, RequestStep
\* Nobody is left waiting beside a free slot when the mutex is left.
LEMMA WorkConservingStep ==
    TypeOK /\ WorkConserving /\ [Next]_vars => WorkConserving'
<1> SUFFICES ASSUME TypeOK, WorkConserving, [Next]_vars PROVE WorkConserving'
  OBVIOUS
<1> USE DEF WorkConserving
<1>0. /\ waiting \in Seq(Requests)
      /\ active \in Nat
      /\ capacity \in Nat \ {0}
      /\ Nobody \notin Requests \union Admins
  BY ConstantsAssumption DEF TypeOK
<1>1. ASSUME NEW r \in Requests,
             \/ Enqueue(r) \/ Woken(r) \/ Expire(r) \/ ExpiredButDispatched(r)
             \/ Start(r) \/ ReadBody(r) \/ Proxied(r) \/ Deny(r) \/ Finish(r)
      PROVE  WorkConserving'
  BY <1>1 DEF Enqueue, Woken, Expire, ExpiredButDispatched, Start, ReadBody, Proxied, Deny, Finish,
              schedVars
<1>2. ASSUME NEW r \in Requests, AcquireFast(r) PROVE WorkConserving'
  BY <1>2 DEF AcquireFast
<1>3. ASSUME NEW r \in Requests, AcquireWait(r) \/ Withdraw(r) PROVE WorkConserving'
  <2>1. mutex = Nobody /\ active' = active /\ capacity' = capacity
    BY <1>3 DEF AcquireWait, Withdraw
  <2>2. active >= capacity
    <3>1. CASE AcquireWait(r)
      BY <2>1, <3>1 DEF AcquireWait
    <3>2. CASE Withdraw(r)
      <4>1. waiting # <<>>
        BY <1>0, <3>2 DEF Withdraw
      <4> QED
        BY <2>1, <4>1
    <3> QED
      BY <1>3, <3>1, <3>2
  <2> QED
    BY <2>1, <2>2
<1>4. ASSUME NEW r \in Requests, Release(r) PROVE WorkConserving'
  BY <1>0, <1>4 DEF Release
<1>5. ASSUME NEW r \in Requests, ReleaseDone(r) PROVE WorkConserving'
  BY <1>0, <1>5 DEF ReleaseDone, CanDispatch
<1>6. ASSUME NEW a \in Admins, ConfigureScheduler(a) PROVE WorkConserving'
  BY <1>0, <1>6 DEF ConfigureScheduler
<1>7. ASSUME NEW a \in Admins, ConfigureDone(a) PROVE WorkConserving'
  BY <1>0, <1>7 DEF ConfigureDone, CanDispatch
<1>8. ASSUME NEW a \in Admins, PutRoutingPolicies(a) \/ ConfigureTracker(a)
      PROVE  WorkConserving'
  BY <1>8 DEF PutRoutingPolicies, ConfigureTracker, schedVars
<1>9. ASSUME DispatchOne PROVE WorkConserving'
  BY <1>9 DEF DispatchOne
<1>10. ASSUME UNCHANGED vars PROVE WorkConserving'
  BY <1>10 DEF vars, schedVars
<1> QED
  BY <1>1, <1>2, <1>3, <1>4, <1>5, <1>6, <1>7, <1>8, <1>9, <1>10
  DEF Next, RequestStep, AdminStep

\* The queue starts empty and consistent.
LEMMA SchedulerInvInit == Init => SchedulerInv
<1> SUFFICES ASSUME Init PROVE SchedulerInv
  OBVIOUS
<1>1. TypeOK
  BY TypeOKInit
<1>2. WaiterDiscipline
  BY DEF Init, WaiterDiscipline, Waiters, Blocked
<1>3. SlotAccounting
  <2>1. Holders = {}
    BY DEF Init, Holders, Blocked
  <2> QED
    BY <2>1, FS_EmptySet DEF Init, SlotAccounting
<1>4. WorkConserving
  BY DEF Init, WorkConserving
<1> QED
  BY <1>1, <1>2, <1>3, <1>4 DEF SchedulerInv

\* The three parts of the invariant together are kept by every step.
LEMMA SchedulerInvStep == SchedulerInv /\ [Next]_vars => SchedulerInv'
  BY TypeOKStep, StepShape, SlotAccountingStep, WaiterDisciplineStep, WorkConservingStep
  DEF SchedulerInv

\* acquire, release and configure, for any number of requests and slots: the
\* slot counter is the number of slot owners, the waiting list is the set of
\* the requests that block, and nobody waits beside a free slot.
THEOREM SchedulerCorrect == Spec => []SchedulerInv
  BY SchedulerInvInit, SchedulerInvStep, PTL DEF Spec

\* No slot is leaked or given back twice, whatever timeouts race dispatches.
THEOREM SlotsAreAccounted == Spec => []SlotAccounting
<1>1. SchedulerInv => SlotAccounting
  BY DEF SchedulerInv
<1> QED
  BY <1>1, SchedulerCorrect, PTL

\* No request waits while a slot is free and the mutex is not held.
THEOREM NoIdleSlot == Spec => []WorkConserving
<1>1. SchedulerInv => WorkConserving
  BY DEF SchedulerInv
<1> QED
  BY <1>1, SchedulerCorrect, PTL

\* No step raises the number of owned slots above the capacity of that moment.
THEOREM CapacityIsRespected == Spec => CapacityRespected
<1>1. SchedulerInv /\ [Next]_vars => [active' > active => active' <= capacity']_vars
  <2> SUFFICES ASSUME SchedulerInv, [Next]_vars, active' > active
               PROVE  active' <= capacity'
    OBVIOUS
  <2>1. active \in Nat /\ capacity \in Nat
    BY DEF SchedulerInv, TypeOK
  <2>2. Shape
    BY StepShape DEF SchedulerInv
  <2> QED
    BY <2>1, <2>2 DEF Shape, Stays, Resizes, Joins, Admits, Withdraws, Leaves
<1> QED
  BY <1>1, SchedulerCorrect, PTL DEF Spec, CapacityRespected
-------------------------------------------------------------------------------
(* The weighted round *)

\* Where a position lands that goes at most once past the end of the round.
LEMMA ModSmall ==
    ASSUME NEW n \in Nat \ {0}, NEW a \in 0 .. 2 * n - 1
    PROVE  a % n = IF a < n THEN a ELSE a - n
  OBVIOUS

\* Min finds the least element of a set of natural numbers.
LEMMA MinFacts ==
    ASSUME NEW S, S \subseteq Nat, S # {}
    PROVE  Min(S) \in S /\ \A y \in S : Min(S) <= y
<1>1. PICK x \in S : \A y \in S : ~ (<<y, x>> \in OpToRel(<, Nat))
  BY NatLessThanWellFounded, WFMin
<1>2. \A y \in S : ~ (y < x)
  BY <1>1 DEF OpToRel
<1>3. \A y \in S : x <= y
  BY <1>2
<1> QED
  BY <1>3 DEF Min

\* The tries, from position c of the round of weights w, that look for class p.
TriesFor(w, c, p) ==
    {k \in 0 .. RoundLength(w) - 1 : RoundAt(w, (c + k) % RoundLength(w)) = p}

\* Every class has a position in the round, so that a full round looks for it.
LEMMA EveryClassIsTried ==
    ASSUME NEW w \in WeightSet, NEW c \in 0 .. RoundLength(w) - 1, NEW p \in Priorities
    PROVE  TriesFor(w, c, p) # {}
<1> DEFINE L == RoundLength(w)
           pos == IF p = "high" THEN 0 ELSE IF p = "normal" THEN w.high ELSE w.high + w.normal
           k == IF c <= pos THEN pos - c ELSE L + pos - c
<1>1. w.high \in Nat \ {0} /\ w.normal \in Nat \ {0} /\ w.low \in Nat \ {0}
  BY DEF WeightSet
<1>2. L \in Nat \ {0} /\ pos \in 0 .. L - 1 /\ RoundAt(w, pos) = p
  BY <1>1 DEF RoundLength, RoundAt, Priorities
<1> HIDE DEF L, pos
<1>3. k \in 0 .. L - 1 /\ c + k \in 0 .. 2 * L - 1
  BY <1>2 DEF L
<1>4. (c + k) % L = pos
  <2>1. PICK a : a = c + k
    OBVIOUS
  <2>2. a \in 0 .. 2 * L - 1
    BY <1>3, <2>1
  <2>3. a % L = IF a < L THEN a ELSE a - L
    BY <1>2, <2>2, ModSmall
  <2> QED
    BY <1>2, <2>1, <2>3 DEF L
<1>5. k \in TriesFor(w, c, p)
  BY <1>2, <1>3, <1>4 DEF TriesFor, L
<1> QED
  BY <1>5

\* The try m of the old round is the try m - k - 1 of the one that begins after
\* its try k.
LEMMA RoundGoesOn ==
    ASSUME NEW w \in WeightSet, NEW c \in 0 .. RoundLength(w) - 1,
           NEW k \in 0 .. RoundLength(w) - 1, NEW m \in 0 .. RoundLength(w) - 1, k < m,
           NEW d, d = (c + k + 1) % RoundLength(w)
    PROVE  /\ d \in 0 .. RoundLength(w) - 1
           /\ (d + (m - k - 1)) % RoundLength(w) = (c + m) % RoundLength(w)
<1>1. RoundLength(w) \in Nat \ {0}
  BY DEF WeightSet, RoundLength
<1>2. PICK L \in Nat \ {0} : L = RoundLength(w)
  BY <1>1
<1>3. c \in 0 .. L - 1 /\ k \in 0 .. L - 1 /\ m \in 0 .. L - 1
  BY <1>2
<1>4. c + k + 1 \in 0 .. 2 * L - 1 /\ c + m \in 0 .. 2 * L - 1
  BY <1>3
<1>5. d = IF c + k + 1 < L THEN c + k + 1 ELSE c + k + 1 - L
  <2>1. PICK a : a = c + k + 1
    OBVIOUS
  <2>2. a \in 0 .. 2 * L - 1
    BY <1>4, <2>1
  <2>3. a % L = IF a < L THEN a ELSE a - L
    BY <2>2, ModSmall
  <2> QED
    BY <1>2, <2>1, <2>3
<1>6. d \in 0 .. L - 1 /\ d + (m - k - 1) \in 0 .. 2 * L - 1
  BY <1>3, <1>5
<1>7. (c + m) % L = IF c + m < L THEN c + m ELSE c + m - L
  <2>1. PICK a : a = c + m
    OBVIOUS
  <2>2. a \in 0 .. 2 * L - 1
    BY <1>4, <2>1
  <2>3. a % L = IF a < L THEN a ELSE a - L
    BY <2>2, ModSmall
  <2> QED
    BY <2>1, <2>3
<1>8. (d + (m - k - 1)) % L =
         IF d + (m - k - 1) < L THEN d + (m - k - 1) ELSE d + (m - k - 1) - L
  BY <1>6, ModSmall
<1>9. (d + (m - k - 1)) % L = (c + m) % L
  BY <1>3, <1>5, <1>7, <1>8
<1> QED
  BY <1>2, <1>6, <1>9

\* From the position after try k, a class whose first try was later than k is
\* reached in fewer tries.
LEMMA RoundGetsCloser ==
    ASSUME NEW w \in WeightSet, NEW c \in 0 .. RoundLength(w) - 1, NEW p \in Priorities,
           NEW k \in 0 .. RoundLength(w) - 1, k < Min(TriesFor(w, c, p)),
           NEW d, d = (c + k + 1) % RoundLength(w)
    PROVE  Min(TriesFor(w, d, p)) < Min(TriesFor(w, c, p))
<1>1. RoundLength(w) \in Nat \ {0}
  BY DEF WeightSet, RoundLength
<1>2. PICK m : m = Min(TriesFor(w, c, p))
  OBVIOUS
<1>3. m \in TriesFor(w, c, p)
  <2>1. TriesFor(w, c, p) \subseteq Nat
    BY <1>1 DEF TriesFor
  <2> QED
    BY <1>2, <2>1, EveryClassIsTried, MinFacts
<1>4. m \in 0 .. RoundLength(w) - 1 /\ RoundAt(w, (c + m) % RoundLength(w)) = p /\ k < m
  BY <1>2, <1>3 DEF TriesFor
<1>5. /\ d \in 0 .. RoundLength(w) - 1
      /\ (d + (m - k - 1)) % RoundLength(w) = (c + m) % RoundLength(w)
  BY <1>4, RoundGoesOn
<1>6. m - k - 1 \in TriesFor(w, d, p)
  <2>1. m - k - 1 \in 0 .. RoundLength(w) - 1
    BY <1>1, <1>4
  <2> QED
    BY <1>4, <1>5, <2>1 DEF TriesFor
<1>7. PICK n : n = Min(TriesFor(w, d, p))
  OBVIOUS
<1>8. n \in Nat /\ n <= m - k - 1
  <2>1. TriesFor(w, d, p) \subseteq Nat
    BY <1>1 DEF TriesFor
  <2> QED
    BY <1>6, <1>7, <2>1, MinFacts
<1> QED
  BY <1>2, <1>4, <1>7, <1>8

\* The only step that takes a slot for somebody in the list is the dispatch.
LEMMA OnlyDispatchShortens ==
    ASSUME TypeOK, [Next]_vars, active' > active, Len(waiting') < Len(waiting)
    PROVE  DispatchOne
<1>1. active \in Nat /\ waiting \in Seq(Requests)
  BY DEF TypeOK
<1>2. ASSUME NEW r \in Requests PROVE ~ RequestStep(r)
  BY <1>1, <1>2 DEF RequestStep, Enqueue, AcquireFast, AcquireWait, Woken, Expire,
     ExpiredButDispatched, Withdraw, Start, Deny, ReadBody, Proxied, Release, ReleaseDone, Finish, schedVars
<1>3. ASSUME NEW a \in Admins PROVE ~ AdminStep(a)
  BY <1>1, <1>3 DEF AdminStep, PutRoutingPolicies, ConfigureScheduler, ConfigureDone,
     ConfigureTracker, schedVars
<1>4. ~ UNCHANGED vars
  BY <1>1 DEF vars, schedVars
<1> QED
  BY <1>2, <1>3, <1>4 DEF Next

\* One dispatch under the weighted policy, seen by a class that waits.
LEMMA DispatchGetsCloser ==
    ASSUME TypeOK, WaiterDiscipline, DispatchOne, policy # "fifo", NEW p \in Priorities,
           ClassWaits(p),
           \A i \in 1..Len(waiting) : Class(waiting[i]) = p =>
               \E j \in 1..Len(waiting') : waiting'[j] = waiting[i]
    PROVE  Min(TriesFor(weights', cursor', p)) < Min(TriesFor(weights, cursor, p))
<1>1. weights \in WeightSet /\ cursor \in 0 .. RoundLength(weights) - 1 /\ waiting \in Seq(Requests)
  BY DEF TypeOK
<1>2. PICK i \in 1..Len(waiting), c \in 0 .. RoundLength(weights) - 1 :
         NextWaiterIndex(i, c) /\ cursor' = c /\ waiting' = RemoveAt(waiting, i) /\ weights' = weights
  BY DEF DispatchOne
<1>3. PICK m : m = Min(TriesFor(weights, cursor, p))
  OBVIOUS
<1>4. m \in Tries /\ TriedClass(m) = p
  <2>1. RoundLength(weights) \in Nat
    BY <1>1 DEF WeightSet, RoundLength
  <2>2. TriesFor(weights, cursor, p) \subseteq Nat /\ TriesFor(weights, cursor, p) # {}
    BY <1>1, <2>1, EveryClassIsTried DEF TriesFor
  <2>3. m \in TriesFor(weights, cursor, p)
    BY <1>3, <2>2, MinFacts
  <2> QED
    BY <2>3 DEF TriesFor, Tries, TriedClass
<1>5. PICK k \in Tries : /\ \A n \in Tries : n < k => ~ ClassWaits(TriedClass(n))
                         /\ Class(waiting[i]) = TriedClass(k)
                         /\ c = (cursor + k + 1) % RoundLength(weights)
  BY <1>2, <1>4 DEF NextWaiterIndex
<1>6. Class(waiting[i]) # p
  <2>1. \A j \in 1..Len(waiting') : waiting'[j] # waiting[i]
    BY <1>1, <1>2, RemoveAtUnique DEF WaiterDiscipline
  <2> QED
    BY <2>1
<1>7. k < m
  <2>1. k \in Int /\ m \in Int
    BY <1>1, <1>4 DEF Tries
  <2>2. ~ (m < k) /\ m # k
    BY <1>4, <1>5, <1>6
  <2> QED
    BY <2>1, <2>2
<1>8. k \in 0 .. RoundLength(weights) - 1 /\ k < Min(TriesFor(weights, cursor, p))
  BY <1>3, <1>7 DEF Tries
<1>9. Min(TriesFor(weights, c, p)) < Min(TriesFor(weights, cursor, p))
  BY <1>1, <1>5, <1>8, RoundGetsCloser
<1> QED
  BY <1>2, <1>9

\* nextWaiterIndexLocked, for any weights, any list and any cursor: a class
\* that a dispatch passes over is reached in fewer tries afterwards, so that
\* no mixture of priorities starves a class.
THEOREM RoundIsFair == Spec => PassedOverGetsCloser
<1> DEFINE Closer ==
       (active' > active /\ Len(waiting') < Len(waiting) /\ policy # "fifo") =>
          \A p \in Priorities :
             (/\ ClassWaits(p)
              /\ \A i \in 1..Len(waiting) : Class(waiting[i]) = p =>
                     \E j \in 1..Len(waiting') : waiting'[j] = waiting[i])
             => TriesUntil(p)' < TriesUntil(p)
<1>1. SchedulerInv /\ [Next]_vars => [Closer]_vars
  <2> SUFFICES ASSUME SchedulerInv, [Next]_vars, active' > active,
                      Len(waiting') < Len(waiting), policy # "fifo", NEW p \in Priorities,
                      ClassWaits(p),
                      \A i \in 1..Len(waiting) : Class(waiting[i]) = p =>
                          \E j \in 1..Len(waiting') : waiting'[j] = waiting[i]
               PROVE  TriesUntil(p)' < TriesUntil(p)
    OBVIOUS
  <2>1. TypeOK /\ WaiterDiscipline
    BY DEF SchedulerInv
  <2>2. DispatchOne
    BY <2>1, OnlyDispatchShortens
  <2>3. Min(TriesFor(weights', cursor', p)) < Min(TriesFor(weights, cursor, p))
    BY <2>1, <2>2, DispatchGetsCloser
  <2>4. TriesUntil(p) = Min(TriesFor(weights, cursor, p))
    BY DEF TriesUntil, TriesFor, Tries, TriedClass
  <2>5. TriesUntil(p)' = Min(TriesFor(weights', cursor', p))
    BY DEF TriesUntil, TriesFor, Tries, TriedClass
  <2> QED
    BY <2>3, <2>4, <2>5
<1> QED
  BY <1>1, SchedulerCorrect, PTL DEF Spec, PassedOverGetsCloser
-------------------------------------------------------------------------------
(* The tracker beside the scheduler *)

\* What the tracker knows of a request at every place of its handler: no entry
\* before and after, a waiting one until the slot is taken, an active one until
\* it was given back; only finished requests are in the recent list.
Tracked(r) ==
    /\ pc[r] \in {"idle", "done"} => current[r] = NoEntry
    /\ pc[r] \in {"enqueued", "waiting", "expired", "granted", "denied"} =>
          current[r].status = "waiting"
    /\ pc[r] \in {"active", "serving", "returning", "releasing", "released"} =>
          current[r].status = "active"

RecentDone == \A i \in 1..Len(recent) : pc[recent[i].request] = "done"

TrackerInv == RecentDone /\ \A r \in Requests : Tracked(r)

\* The handler of r ends: its entry goes to the recent list.
LEMMA FinishTracked ==
    ASSUME TypeOK, TrackerInv, NEW r \in Requests, NEW status \in Final,
           FinishEntry(r, status), Goto(r, "done")
    PROVE  TrackerInv'
<1>1. RecentCap \in Nat /\ recent \in Seq([request : Requests, status : Final])
  BY ConstantsAssumption DEF TypeOK
<1>2. PICK e \in [request : Requests, status : Final] : e = [request |-> r, status |-> status]
  OBVIOUS
<1>3. /\ Len(recent') > 0 => recent'[1] = e
      /\ \A i \in 2..Len(recent') : i - 1 \in 1..Len(recent) /\ recent'[i] = recent[i - 1]
      /\ Len(recent') \in Nat
  <2>1. PICK t : t = SubSeq(<<e>> \o recent, 1, IF Len(recent) < RecentCap THEN Len(recent) + 1 ELSE RecentCap)
    OBVIOUS
  <2>2. recent' = t
    BY <1>2, <2>1 DEF FinishEntry
  <2> QED
    BY <1>1, <2>1, <2>2, PrependElements
<1>4. pc' = [pc EXCEPT ![r] = "done"] /\ pc \in [Requests -> Labels]
  BY DEF Goto, TypeOK
<1>5. ASSUME NEW i \in 1..Len(recent') PROVE pc'[recent'[i].request] = "done"
  <2>1. CASE i = 1
    BY <1>2, <1>3, <1>4, <1>5, <2>1
  <2>2. CASE i # 1
    <3>1. i - 1 \in 1..Len(recent) /\ recent'[i] = recent[i - 1]
      BY <1>3, <1>5, <2>2
    <3>2. recent[i - 1] \in [request : Requests, status : Final]
      BY <1>1, <3>1, ElementOfSeq
    <3>3. recent[i - 1].request \in Requests
      BY <3>2
    <3>4. pc[recent[i - 1].request] = "done"
      BY <3>1 DEF TrackerInv, RecentDone
    <3> QED
      BY <1>4, <3>1, <3>3, <3>4
  <2> QED
    BY <2>1, <2>2
<1>6. current' = [current EXCEPT ![r] = NoEntry] /\ current \in [Requests -> Entries]
  BY DEF FinishEntry, TypeOK
<1>7. \A q \in Requests : Tracked(q)'
  BY <1>4, <1>6 DEF TrackerInv, Tracked
<1> QED
  BY <1>5, <1>7 DEF TrackerInv, RecentDone

\* A step of r that leaves the recent list alone, and everything of the others.
LEMMA QuietTracked ==
    ASSUME TypeOK, TrackerInv, NEW r \in Requests, recent' = recent, pc[r] # "done",
           pc' = [pc EXCEPT ![r] = pc'[r]], current' = [current EXCEPT ![r] = current'[r]],
           Tracked(r)'
    PROVE  TrackerInv'
<1>1. pc \in [Requests -> Labels] /\ current \in [Requests -> Entries]
  BY DEF TypeOK
<1>2. \A q \in Requests \ {r} : pc'[q] = pc[q] /\ current'[q] = current[q]
  BY <1>1
<1>3. \A q \in Requests : Tracked(q)'
  BY <1>2 DEF TrackerInv, Tracked
<1>4. ASSUME NEW i \in 1..Len(recent) PROVE recent[i].request \in Requests
  <2>1. recent \in Seq([request : Requests, status : Final])
    BY DEF TypeOK
  <2>2. recent[i] \in [request : Requests, status : Final]
    BY <2>1, ElementOfSeq
  <2> QED
    BY <2>2
<1>5. RecentDone'
  BY <1>2, <1>4 DEF TrackerInv, RecentDone
<1> QED
  BY <1>3, <1>5 DEF TrackerInv

LEMMA TrackerInvStep == TypeOK /\ TrackerInv /\ [Next]_vars => TrackerInv'
<1> SUFFICES ASSUME TypeOK, TrackerInv, [Next]_vars PROVE TrackerInv'
  OBVIOUS
<1>0. pc \in [Requests -> Labels] /\ current \in [Requests -> Entries]
  BY DEF TypeOK
<1>1. ASSUME NEW r \in Requests, NEW l,
             pc[r] # "done", pc' = [pc EXCEPT ![r] = l], current' = current, recent' = recent,
             l \in {"waiting", "expired", "granted", "denied"} =>
                pc[r] \in {"enqueued", "waiting", "expired"},
             l \in {"returning", "releasing", "released"} =>
                pc[r] \in {"serving", "returning", "releasing"},
             l \in {"waiting", "expired", "granted", "denied", "returning", "releasing", "released"}
      PROVE  TrackerInv'
  <2>1. pc'[r] = l /\ current' = [current EXCEPT ![r] = current'[r]]
    BY <1>0, <1>1
  <2>2. Tracked(r)'
    BY <1>1, <2>1 DEF Tracked, TrackerInv
  <2> QED
    BY <1>1, <2>1, <2>2, QuietTracked
<1>2. ASSUME NEW r \in Requests, Enqueue(r) PROVE TrackerInv'
  <2>0. PICK h \in Headers :
          current' = [current EXCEPT ![r] =
                         [status |-> "waiting", priority |-> normalizeQueuePriority(h)]]
    BY <1>2 DEF Enqueue
  <2>a. PICK e : e = [status |-> "waiting", priority |-> normalizeQueuePriority(h)]
    OBVIOUS
  <2>1. current' = [current EXCEPT ![r] = e] /\ e.status = "waiting"
    BY <2>0, <2>a
  <2>2. pc[r] = "idle" /\ pc' = [pc EXCEPT ![r] = "enqueued"] /\ recent' = recent
    BY <1>2 DEF Enqueue, Goto
  <2>3. pc'[r] = "enqueued" /\ current'[r] = e
    BY <1>0, <2>1, <2>2
  <2>4. Tracked(r)'
    BY <2>1, <2>3 DEF Tracked
  <2> QED
    BY <2>1, <2>2, <2>3, <2>4, QuietTracked
<1>3. ASSUME NEW r \in Requests, Start(r) PROVE TrackerInv'
  <2>1. current' = [current EXCEPT ![r].status = "active"] /\ recent' = recent
    BY <1>3 DEF Start
  <2>2. pc[r] = "granted" /\ pc' = [pc EXCEPT ![r] = "active"]
    BY <1>3 DEF Start, Goto
  <2>3. pc'[r] = "active" /\ current'[r].status = "active"
    BY <1>0, <2>1, <2>2 DEF Entries
  <2>4. Tracked(r)'
    BY <2>3 DEF Tracked
  <2> QED
    BY <1>0, <2>1, <2>2, <2>3, <2>4, QuietTracked
<1>4. ASSUME NEW r \in Requests, ReadBody(r) PROVE TrackerInv'
  <2>1. PICK p : current' = [current EXCEPT ![r].priority = p] /\ recent' = recent
    BY <1>4 DEF ReadBody
  <2>2. pc[r] = "active" /\ pc' = [pc EXCEPT ![r] = "serving"]
    BY <1>4 DEF ReadBody, Goto
  <2>3. pc'[r] = "serving" /\ current'[r].status = current[r].status
    BY <1>0, <2>1, <2>2 DEF Entries
  <2>4. Tracked(r)'
    BY <2>2, <2>3 DEF Tracked, TrackerInv
  <2> QED
    BY <1>0, <2>1, <2>2, <2>3, <2>4, QuietTracked
<1>5. ASSUME NEW r \in Requests, Deny(r) \/ Finish(r) PROVE TrackerInv'
  <2>1. PICK status \in Final : FinishEntry(r, status)
    BY <1>5 DEF Deny, Finish, Final
  <2>2. Goto(r, "done")
    BY <1>5 DEF Deny, Finish
  <2> QED
    BY <2>1, <2>2, FinishTracked
<1>6. ASSUME NEW r \in Requests, AcquireFast(r) \/ AcquireWait(r) PROVE TrackerInv'
  <2>1. PICK l \in {"granted", "waiting"} : pc' = [pc EXCEPT ![r] = l]
    BY <1>6 DEF AcquireFast, AcquireWait, Goto
  <2>2. pc[r] = "enqueued" /\ current' = current /\ recent' = recent
    BY <1>6 DEF AcquireFast, AcquireWait, trackVars
  <2> QED
    BY <1>1, <2>1, <2>2
<1>7. ASSUME NEW r \in Requests, Woken(r) \/ Expire(r) \/ ExpiredButDispatched(r) \/ Withdraw(r)
      PROVE  TrackerInv'
  <2>1. PICK l \in {"granted", "expired", "denied"} : pc' = [pc EXCEPT ![r] = l]
    BY <1>7 DEF Woken, Expire, ExpiredButDispatched, Withdraw, Goto
  <2>2. pc[r] \in {"waiting", "expired"} /\ current' = current /\ recent' = recent
    BY <1>7 DEF Woken, Expire, ExpiredButDispatched, Withdraw, trackVars
  <2> QED
    BY <1>1, <2>1, <2>2
<1>8. ASSUME NEW r \in Requests, Proxied(r) \/ Release(r) \/ ReleaseDone(r) PROVE TrackerInv'
  <2>1. PICK l \in {"returning", "releasing", "released"} : pc' = [pc EXCEPT ![r] = l]
    BY <1>8 DEF Proxied, Release, ReleaseDone, Goto
  <2>2. pc[r] \in {"serving", "returning", "releasing"} /\ current' = current /\ recent' = recent
    BY <1>8 DEF Proxied, Release, ReleaseDone, trackVars
  <2> QED
    BY <1>1, <2>1, <2>2
<1>9. CASE UNCHANGED <<pc, current, recent>>
  BY <1>9 DEF TrackerInv, RecentDone, Tracked
<1>10. ASSUME NEW a \in Admins, AdminStep(a) PROVE UNCHANGED <<pc, current, recent>>
  BY <1>10 DEF AdminStep, PutRoutingPolicies, ConfigureScheduler, ConfigureDone,
               ConfigureTracker, trackVars
<1>11. ASSUME DispatchOne \/ UNCHANGED vars PROVE UNCHANGED <<pc, current, recent>>
  BY <1>11 DEF DispatchOne, vars, trackVars
<1> QED
  BY <1>2, <1>3, <1>4, <1>5, <1>6, <1>7, <1>8, <1>9, <1>10, <1>11 DEF Next, RequestStep

\* queueTracker beside queueScheduler: a request has an entry exactly while it
\* is in progress, an active entry owns a slot or has just released it, and
\* nobody is in the current and the recent list at once.
THEOREM TrackerFollows == Spec => []TrackerAgreement
<1>1. Init => TrackerInv
  BY DEF Init, TrackerInv, RecentDone, Tracked
<1>2. TypeOK /\ TrackerInv => TrackerAgreement
  <2> SUFFICES ASSUME TypeOK, TrackerInv, NEW r \in Requests
               PROVE  /\ current[r] = NoEntry <=> pc[r] \in {"idle", "done"}
                      /\ current[r].status = "active" =>
                            r \in Holders \/ pc[r] \in {"releasing", "released"}
                      /\ (\E i \in 1..Len(recent) : recent[i].request = r) => pc[r] = "done"
    BY DEF TrackerAgreement
  <2>1. pc[r] \in Labels /\ Tracked(r) /\ RecentDone
    BY DEF TypeOK, TrackerInv
  <2>2. NoEntry.status = "none"
    BY DEF NoEntry
  <2>3. current[r] = NoEntry <=> pc[r] \in {"idle", "done"}
    BY <2>1, <2>2 DEF Tracked, Labels
  <2>4. current[r].status = "active" => pc[r] \in {"active", "serving", "returning", "releasing", "released"}
    BY <2>1, <2>2 DEF Tracked, Labels
  <2> QED
    BY <2>1, <2>3, <2>4 DEF Holders, RecentDone
<1> QED
  BY <1>1, <1>2, TrackerInvStep, TypeCorrect, PTL DEF Spec
-------------------------------------------------------------------------------
(* The refinement *)

\* The capacity in force, and those on their way to the scheduler, are ones an
\* operator may choose.
LEMMA LimitsAreSettings == Spec => []LimitsOK
<1> USE DEF LimitsOK, Limits
<1>1. Init => LimitsOK
  BY DEF Init, Normalized
<1>2. LimitsOK /\ TypeOK /\ [Next]_vars => LimitsOK'
  <2> SUFFICES ASSUME LimitsOK, TypeOK, [Next]_vars PROVE LimitsOK'
    OBVIOUS
  <2>1. CASE UNCHANGED <<capacity, wanted>>
    BY <2>1
  <2>2. ASSUME NEW a \in Admins, PutRoutingPolicies(a) PROVE LimitsOK'
    BY <2>2 DEF PutRoutingPolicies, schedVars, Normalized, TypeOK
  <2>3. ASSUME NEW a \in Admins, ConfigureScheduler(a) PROVE LimitsOK'
    BY <2>3 DEF ConfigureScheduler
  <2>4. ASSUME NEW r \in Requests, RequestStep(r) PROVE UNCHANGED <<capacity, wanted>>
    BY <2>4 DEF RequestStep, Enqueue, AcquireFast, AcquireWait, Woken, Expire,
                ExpiredButDispatched, Withdraw, Start, Deny, ReadBody, Proxied, Release,
                ReleaseDone, Finish, schedVars, adminVars
  <2>5. ASSUME NEW a \in Admins, ConfigureDone(a) \/ ConfigureTracker(a)
        PROVE  UNCHANGED <<capacity, wanted>>
    BY <2>5 DEF ConfigureDone, ConfigureTracker, schedVars
  <2>6. ASSUME DispatchOne \/ UNCHANGED vars PROVE UNCHANGED <<capacity, wanted>>
    BY <2>6 DEF DispatchOne, adminVars, vars, schedVars
  <2> QED
    BY <2>1, <2>2, <2>3, <2>4, <2>5, <2>6 DEF Next, AdminStep
<1> QED
  BY <1>1, <1>2, TypeCorrect, PTL DEF Spec

\* The queue with its mutex, waiting list, timeouts and weighted round
\* implements the plain admission control of AdmissionControl.
THEOREM QueueImplementsAdmission == Spec => Admission
<1>1. Init => AC!Init
  <2> SUFFICES ASSUME Init PROVE AC!Init
    OBVIOUS
  <2>1. Holders = {} /\ Waiters = {}
    BY DEF Init, Holders, Waiters, Blocked
  <2> QED
    BY <2>1 DEF Init, AC!Init, Normalized
<1>2. SchedulerInv /\ LimitsOK /\ [Next]_vars => [AC!Next]_AC!vars
  <2> SUFFICES ASSUME SchedulerInv, LimitsOK, [Next]_vars PROVE [AC!Next]_AC!vars
    OBVIOUS
  <2>1. Shape
    BY StepShape DEF SchedulerInv
  <2>2. active = Cardinality(Holders)
    BY DEF SchedulerInv, SlotAccounting
  <2>3. CASE Stays
    BY <2>3 DEF Stays, AC!vars
  <2>4. CASE Resizes
    BY <2>4 DEF Resizes, Limits, AC!Next, AC!Resize
  <2>5. ASSUME NEW r \in Requests, Joins(r) PROVE AC!Join(r)
    BY <2>5 DEF Joins, AC!Join
  <2>6. ASSUME NEW r \in Requests, Admits(r) PROVE AC!Admit(r)
    <3>1. Cardinality(Holders) < capacity
      BY <2>2, <2>6 DEF Admits
    <3>2. AC!Cardinality(Holders) = Cardinality(Holders)
      BY DEF Cardinality, AC!Cardinality
    <3> QED
      BY <3>1, <3>2, <2>6 DEF Admits, AC!Admit
  <2>7. ASSUME NEW r \in Requests, Withdraws(r) PROVE AC!Withdraw(r)
    BY <2>7 DEF Withdraws, AC!Withdraw
  <2>8. ASSUME NEW r \in Requests, Leaves(r) PROVE AC!Leave(r)
    BY <2>8 DEF Leaves, AC!Leave
  <2> QED
    BY <2>1, <2>3, <2>4, <2>5, <2>6, <2>7, <2>8 DEF Shape, AC!Next
<1> QED
  BY <1>1, <1>2, SchedulerCorrect, LimitsAreSettings, PTL DEF Spec, Admission, AC!Spec

===============================================================================
