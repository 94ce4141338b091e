---------------------------- MODULE SelectionProofs ----------------------------
(***************************************************************************)
(* Proofs about Consensus, for any number of nodes, every ranking, every   *)
(* bounds an alias may be configured with and every order of outcomes,     *)
(* deadline and cancellation; and about Routing, for any fleet, however it *)
(* came about, every request and every order of Go's map.                  *)
(***************************************************************************)
EXTENDS Consensus, Routing, FiniteSetTheorems, WellFoundedInduction, TLAPS

--------------------------------------------------------------------------------
(* Lists that are filtered and sorted. *)

\* R is a strict total order of I.
StrictOrder(I, R) ==
    /\ \A i \in I : <<i, i>> \notin R
    /\ \A i, j, k \in I : <<i, j>> \in R /\ <<j, k>> \in R => <<i, k>> \in R
    /\ \A i, j \in I : i # j => <<i, j>> \in R \/ <<j, i>> \in R

Before(i, I, R) == {j \in I : <<j, i>> \in R}

\* The number of elements before one is its rank: it grows with the order.
LEMMA RankGrows ==
    ASSUME NEW I, IsFiniteSet(I), NEW R, StrictOrder(I, R), NEW i \in I
    PROVE  /\ Cardinality(Before(i, I, R)) \in Nat
           /\ Cardinality(Before(i, I, R)) < Cardinality(I)
           /\ \A j \in I : <<i, j>> \in R =>
                 Cardinality(Before(i, I, R)) < Cardinality(Before(j, I, R))
<1> DEFINE B(x) == Before(x, I, R)
<1>1. \A x \in I : /\ IsFiniteSet(B(x)) /\ Cardinality(B(x)) \in Nat
  <2> TAKE x \in I
  <2>1. B(x) \in SUBSET I
    BY DEF Before
  <2> QED
    BY <2>1, FS_Subset, FS_CardinalityType
<1>2. Cardinality(I) \in Nat
  BY FS_CardinalityType
<1>3. Cardinality(B(i)) < Cardinality(I)
  <2>1. B(i) \in SUBSET I /\ i \notin B(i)
    BY DEF Before, StrictOrder
  <2>2. Cardinality(B(i)) <= Cardinality(I) /\ (Cardinality(I) = Cardinality(B(i)) => I = B(i))
    BY <2>1, FS_Subset
  <2>3. Cardinality(I) # Cardinality(B(i))
    BY <2>1, <2>2
  <2> HIDE DEF B
  <2> QED
    BY <1>1, <1>2, <2>2, <2>3
<1>4. ASSUME NEW j \in I, <<i, j>> \in R
      PROVE  Cardinality(B(i)) < Cardinality(B(j))
  <2>1. B(i) \in SUBSET B(j) /\ i \notin B(i) /\ i \in B(j)
    BY <1>4 DEF Before, StrictOrder
  <2>2. Cardinality(B(i)) <= Cardinality(B(j)) /\ (Cardinality(B(j)) = Cardinality(B(i)) => B(j) = B(i))
    <3> HIDE DEF B
    <3> QED BY <1>1, <2>1, FS_Subset
  <2> HIDE DEF B
  <2> QED
    BY <1>1, <2>1, <2>2
<1> QED
  BY <1>1, <1>3, <1>4

\* Every rank is taken.
LEMMA RankTaken ==
    ASSUME NEW I, IsFiniteSet(I), NEW R, StrictOrder(I, R)
    PROVE  /\ Cardinality(I) \in Nat
           /\ \A k \in 1..Cardinality(I) : \E i \in I : Cardinality(Before(i, I, R)) = k - 1
<1>1. PICK n \in Nat : n = Cardinality(I)
  BY FS_CardinalityType
<1>2. PICK f : f = [i \in I |-> Cardinality(Before(i, I, R)) + 1]
  OBVIOUS
<1>3. \A i \in I : /\ Cardinality(Before(i, I, R)) \in Nat /\ Cardinality(Before(i, I, R)) < n
                   /\ \A j \in I : <<i, j>> \in R =>
                        Cardinality(Before(i, I, R)) < Cardinality(Before(j, I, R))
  BY <1>1, RankGrows
<1>4. \A i \in I : f[i] \in 1..n
  BY <1>2, <1>3
<1>5. \A i, j \in I : i # j => f[i] # f[j]
  <2> TAKE i, j \in I
  <2> HAVE i # j
  <2>1. <<i, j>> \in R \/ <<j, i>> \in R
    BY DEF StrictOrder
  <2>2. Cardinality(Before(i, I, R)) # Cardinality(Before(j, I, R))
    BY <1>3, <2>1
  <2> QED
    BY <1>2, <1>3, <2>2
<1>6. f \in Injection(I, 1..n)
  BY <1>2, <1>4, <1>5 DEF Injection, IsInjective
<1>7. IsFiniteSet(1..n) /\ Cardinality(1..n) = n
  BY FS_Interval
<1>8. f \in Surjection(I, 1..n)
  BY <1>1, <1>6, <1>7, FS_Injection
<1>9. ASSUME NEW k \in 1..n
      PROVE  \E i \in I : Cardinality(Before(i, I, R)) = k - 1
  <2>1. PICK i \in I : f[i] = k
    BY <1>8 DEF Surjection
  <2> QED
    BY <1>2, <1>3, <2>1
<1> QED
  BY <1>1, <1>9

\* t has what s has at the positions I, the k-th of them f[k].
Takes(t, s, I, n, f) ==
    /\ f \in [1..n -> I]
    /\ t = [k \in 1..n |-> s[f[k]]]
    /\ \A i \in I : \E k \in 1..n : f[k] = i

\* The positions f[1], f[2], ... are in the order R.
Ascending(n, f, R) == \A k, l \in 1..n : k < l => <<f[k], f[l]>> \in R

\* Arranged takes every position once, in the order.
LEMMA Arrangement ==
    ASSUME NEW s, NEW I, IsFiniteSet(I), NEW R, StrictOrder(I, R)
    PROVE  \E n \in Nat : \E f : Takes(Arranged(s, I, R), s, I, n, f) /\ Ascending(n, f, R)
<1>1. PICK n \in Nat : n = Cardinality(I)
  BY RankTaken
<1>2. PICK f : f = [k \in 1..n |-> CHOOSE i \in I : Cardinality(Before(i, I, R)) = k - 1]
  OBVIOUS
<1>3. \A k \in 1..n : f[k] \in I /\ Cardinality(Before(f[k], I, R)) = k - 1
  <2> TAKE k \in 1..n
  <2>1. \E i \in I : Cardinality(Before(i, I, R)) = k - 1
    BY <1>1, RankTaken
  <2> QED
    BY <1>2, <2>1
<1>4. Arranged(s, I, R) = [k \in 1..n |-> s[f[k]]]
  BY <1>1, <1>2 DEF Arranged, Before
<1>5. \A i \in I : /\ Cardinality(Before(i, I, R)) \in Nat /\ Cardinality(Before(i, I, R)) < n
                   /\ \A j \in I : <<i, j>> \in R =>
                        Cardinality(Before(i, I, R)) < Cardinality(Before(j, I, R))
  BY <1>1, RankGrows
<1>6. \A i, j \in I : Cardinality(Before(i, I, R)) = Cardinality(Before(j, I, R)) => i = j
  <2> TAKE i, j \in I
  <2>1. i # j => <<i, j>> \in R \/ <<j, i>> \in R
    BY DEF StrictOrder
  <2> QED
    BY <1>5, <2>1
<1>7. ASSUME NEW i \in I
      PROVE  \E k \in 1..n : f[k] = i
  <2>1. PICK k : k = Cardinality(Before(i, I, R)) + 1
    OBVIOUS
  <2>2. k \in 1..n /\ k - 1 = Cardinality(Before(i, I, R))
    BY <1>5, <2>1
  <2>3. f[k] = i
    BY <1>3, <1>6, <2>2
  <2> QED
    BY <2>2, <2>3
<1>8. ASSUME NEW k \in 1..n, NEW l \in 1..n, k < l
      PROVE  <<f[k], f[l]>> \in R
  <2>1. f[k] \in I /\ f[l] \in I /\ Cardinality(Before(f[k], I, R)) < Cardinality(Before(f[l], I, R))
    BY <1>3, <1>8
  <2>2. f[k] # f[l] /\ <<f[l], f[k]>> \notin R
    BY <1>5, <2>1
  <2> QED
    BY <2>1, <2>2 DEF StrictOrder
<1>9. f \in [1..n -> I]
  BY <1>2, <1>3
<1>10. Takes(Arranged(s, I, R), s, I, n, f)
  BY <1>4, <1>7, <1>9 DEF Takes
<1>11. Ascending(n, f, R)
  BY <1>8 DEF Ascending
<1> QED
  BY <1>10, <1>11

\* A function on 1..n is a sequence of length n.
LEMMA SequenceOf ==
    ASSUME NEW S, NEW n \in Nat, NEW t \in [1..n -> S]
    PROVE  t \in Seq(S) /\ Len(t) = n /\ DOMAIN t = 1..n
OBVIOUS

\* Positions of a list are finitely many.
LEMMA PositionsFinite ==
    ASSUME NEW n \in Nat, NEW I \in SUBSET (1..n)
    PROVE  IsFiniteSet(I)
<1>1. IsFiniteSet(1..n)
  BY FS_Interval
<1> QED
  BY <1>1, FS_Subset

\* Kept takes the positions in their order.
LEMMA KeptOf ==
    ASSUME NEW s, NEW n \in Nat, NEW I \in SUBSET (1..n)
    PROVE  \E m \in Nat : \E f : Takes(Kept(s, I), s, I, m, f) /\ \A k, l \in 1..m : k < l => f[k] < f[l]
<1>1. PICK R : R = {p \in I \X I : p[1] < p[2]}
  OBVIOUS
<1>2. StrictOrder(I, R)
  BY <1>1 DEF StrictOrder
<1>3. IsFiniteSet(I)
  BY PositionsFinite
<1>4. PICK m \in Nat : \E f : Takes(Arranged(s, I, R), s, I, m, f) /\ Ascending(m, f, R)
  BY <1>2, <1>3, Arrangement
<1>4a. PICK f : Takes(Arranged(s, I, R), s, I, m, f) /\ Ascending(m, f, R)
  BY <1>4
<1>5. Kept(s, I) = Arranged(s, I, R)
  BY <1>1 DEF Kept
<1>6. \A k, l \in 1..m : k < l => f[k] < f[l]
  BY <1>1, <1>4a DEF Takes, Ascending
<1> QED
  BY <1>4a, <1>5, <1>6

\* t is what s has at the positions I, once each.
Excerpt(t, s, I, S) ==
    \E m \in Nat :
       /\ t \in [1..m -> S]
       /\ Distinct(t)
       /\ \A k \in 1..m : \E i \in I : t[k] = s[i]
       /\ \A i \in I : \E k \in 1..m : t[k] = s[i]

\* Of a list without repetitions a list without repetitions is taken.
LEMMA TakenDistinct ==
    ASSUME NEW S, NEW n \in Nat, NEW s \in [1..n -> S], Distinct(s), NEW I \in SUBSET (1..n),
           NEW m \in Nat, NEW f, NEW t, Takes(t, s, I, m, f),
           \A k, l \in 1..m : k < l => f[k] # f[l]
    PROVE  t \in [1..m -> S] /\ Excerpt(t, s, I, S)
<1>1. DOMAIN t = 1..m /\ \A k \in 1..m : t[k] = s[f[k]] /\ t[k] \in S /\ f[k] \in I
  BY DEF Takes
<1>2. t \in [1..m -> S]
  BY <1>1 DEF Takes
<1>3. Distinct(t)
  <2> SUFFICES ASSUME NEW k \in 1..m, NEW l \in 1..m, t[k] = t[l] PROVE k = l
    BY <1>1 DEF Distinct
  <2>1. f[k] \in 1..n /\ f[l] \in 1..n /\ s[f[k]] = s[f[l]]
    BY <1>1
  <2>2. f[k] = f[l]
    BY <2>1 DEF Distinct
  <2>3. ~(k < l) /\ ~(l < k)
    BY <1>1, <2>1, <2>2
  <2> QED
    BY <2>3
<1>4. \A k \in 1..m : \E i \in I : t[k] = s[i]
  BY <1>1
<1>5. \A i \in I : \E k \in 1..m : t[k] = s[i]
  BY <1>1 DEF Takes
<1> QED
  BY <1>2, <1>3, <1>4, <1>5 DEF Excerpt

\* Kept repeats nothing of a list without repetitions.
LEMMA KeptDistinct ==
    ASSUME NEW S, NEW n \in Nat, NEW s \in [1..n -> S], Distinct(s), NEW I \in SUBSET (1..n)
    PROVE  Excerpt(Kept(s, I), s, I, S)
<1>1. PICK m \in Nat : \E f : Takes(Kept(s, I), s, I, m, f) /\ \A k, l \in 1..m : k < l => f[k] < f[l]
  BY KeptOf
<1>1a. PICK f : Takes(Kept(s, I), s, I, m, f) /\ \A k, l \in 1..m : k < l => f[k] < f[l]
  BY <1>1
<1>2. \A k \in 1..m : f[k] \in Int
  <2>1. I \subseteq Int
    OBVIOUS
  <2> QED
    BY <1>1a, <2>1 DEF Takes
<1>3. \A k, l \in 1..m : k < l => f[k] # f[l]
  BY <1>1a, <1>2
<1> QED
  BY <1>1a, <1>3, TakenDistinct

\* A sequence of length n is a function on 1..n.
LEMMA FunctionOf ==
    ASSUME NEW S, NEW t \in Seq(S), NEW n \in Nat, Len(t) = n
    PROVE  t \in [1..n -> S]
OBVIOUS

\* A set of natural numbers has a least one.
LEMMA LeastOf ==
    ASSUME NEW S, S \subseteq Nat, S # {}
    PROVE  \E x \in S : \A y \in S : x <= y
<1>1. PICK x \in S : \A y \in S : ~ (<<y, x>> \in OpToRel(<, Nat))
  BY NatLessThanWellFounded, WFMin
<1>2. \A y \in S : ~ (y < x)
  BY <1>1 DEF OpToRel
<1> QED
  BY <1>2

--------------------------------------------------------------------------------
(* Consensus *)

\* The types, but for those of the answer: the winner is an entry of the list
\* that Evaluate's loop indexes, which takes the election below.
Typed ==
    /\ at \in {"arrived", "routed", "collecting", "deciding", "done"}
    /\ participants \in Seq(Nodes)
    /\ required \in Nat
    /\ gone \in BOOLEAN
    /\ fanout \in {"open", "deadline", "cancelled"}
    /\ fetch \in [Nodes -> {"idle", "calling", "reading", "ended"}]
    /\ outcome \in [Nodes -> Bodies \union Reasons \union {"pending"}]
    /\ results \in Seq(Nodes)
    /\ collected \subseteq Nodes
    /\ stopped \in {"no", "cancelled", "timeout"}

\* Before the fan-out nothing was called, collected or decided.
Early ==
    /\ at \in {"arrived", "routed"} =>
          /\ \A n \in Nodes : fetch[n] = "idle" /\ outcome[n] = "pending"
          /\ stopped = "no" /\ collected = {}
    /\ at # "done" => reply = "none"

\* Only goroutines that ended have an outcome in the channel or received.
Arrived ==
    /\ \A i \in 1..Len(results) : fetch[results[i]] = "ended"
    /\ \A n \in collected : fetch[n] = "ended"

\* Every mark that the deadline or the client left behind is true.
Truth ==
    /\ at # "done" /\ fanout = "cancelled" => gone
    /\ stopped = "cancelled" => gone
    /\ stopped = "timeout" => fanout = "deadline"
    /\ \A n \in Nodes : outcome[n] = "timeout" => fanout = "deadline"
    /\ \A n \in Nodes : outcome[n] = "cancellation" /\ (at # "done" \/ n \in collected) => gone
    /\ reply = "upstream_4xx" => Participants \subseteq collected

Inv == Typed /\ FanoutBounded /\ Early /\ Arrived /\ Truth /\ ErrorsTellWhy
--------------------------------------------------------------------------------
\* The bounds of every alias are positive, ordered and within the maximum
\* (consensusParticipantBounds).
LEMMA BoundsOrdered ==
    ASSUME NEW a \in Aliases
    PROVE  /\ MinParticipants(a) \in Nat /\ MinParticipants(a) >= 1
           /\ MaxParticipants(a) \in Nat
           /\ MinParticipants(a) <= MaxParticipants(a)
           /\ MaxParticipants(a) <= Maximum
  <1>1. a.min \in Int /\ a.max \in Int
    BY BoundsAssumption
  <1>2. MinParticipants(a) \in Nat /\ MinParticipants(a) >= 1 /\ MinParticipants(a) <= Maximum
    BY <1>1, BoundsAssumption DEF MinParticipants
  <1>3. QED
    BY <1>1, <1>2, BoundsAssumption DEF MaxParticipants

\* The participants are the best nodes of the ranking, each once, and no more
\* than the maximum (the truncation in Select).
LEMMA PickedBounded ==
    ASSUME NEW rank \in Rankings, NEW a \in Aliases
    PROVE  /\ Picked(rank, a) \in Seq(Nodes)
           /\ Len(Picked(rank, a)) <= Maximum
           /\ \A i, j \in 1..Len(Picked(rank, a)) :
                 Picked(rank, a)[i] = Picked(rank, a)[j] => i = j
  <1>1. rank \in Seq(Nodes) /\ \A i, j \in 1..Len(rank) : rank[i] = rank[j] => i = j
    BY NodesAssumption
  <1>2. /\ MaxParticipants(a) \in Nat /\ MaxParticipants(a) <= Maximum
        /\ MaxParticipants(a) >= 1
    BY BoundsOrdered
  <1>3. CASE Len(rank) > MaxParticipants(a)
    <2>1. Picked(rank, a) = SubSeq(rank, 1, MaxParticipants(a))
      BY <1>3 DEF Picked
    <2>2. /\ SubSeq(rank, 1, MaxParticipants(a)) \in Seq(Nodes)
          /\ Len(SubSeq(rank, 1, MaxParticipants(a))) = MaxParticipants(a)
          /\ \A i \in 1..MaxParticipants(a) : SubSeq(rank, 1, MaxParticipants(a))[i] = rank[i]
      BY <1>1, <1>2, <1>3
    <2>3. QED
      BY <2>1, <2>2, <1>1, <1>2, <1>3
  <1>4. CASE ~ (Len(rank) > MaxParticipants(a))
    <2>1. Picked(rank, a) = rank
      BY <1>4 DEF Picked
    <2>2. QED
      BY <2>1, <1>1, <1>2, <1>4, BoundsAssumption
  <1>5. QED
    BY <1>3, <1>4
--------------------------------------------------------------------------------
\* The invariant holds when the request arrives.
LEMMA InvInit == Init => Inv
  <1> SUFFICES ASSUME Init PROVE Inv
    OBVIOUS
  <1>1. Typed
    <2>1. participants \in Seq(Nodes) /\ results \in Seq(Nodes)
      BY DEF Init
    <2>2. /\ fetch \in [Nodes -> {"idle", "calling", "reading", "ended"}]
          /\ outcome \in [Nodes -> Bodies \union Reasons \union {"pending"}]
      BY DEF Init
    <2>3. gone \in BOOLEAN
      BY DEF Init
    <2>4. QED
      BY <2>1, <2>2, <2>3 DEF Init, Typed
  <1>2. FanoutBounded
    BY DEF Init, FanoutBounded, Participants
  <1>3. Early /\ Arrived /\ Truth
    BY OutcomeAssumption DEF Init, Early, Arrived, Truth
  <1>4. ErrorsTellWhy
    BY DEF Init, ErrorsTellWhy
  <1>5. QED
    BY <1>1, <1>2, <1>3, <1>4 DEF Inv
--------------------------------------------------------------------------------
(* Types *)

\* A failure comes from the fixed list, whatever the context says.
LEMMA ReasonTyped ==
    ASSUME NEW f \in Reasons
    PROVE  consensusFailureReasonForContext(f) \in Reasons
  BY DEF consensusFailureReasonForContext, Reasons

\* The goroutine of n puts an outcome into the channel.
Sent(n) == \E o \in Bodies \union Reasons :
              /\ Send(n, o)
              /\ fetch[n] \in {"calling", "reading"}
              /\ o = "timeout" => fanout = "deadline"
              /\ o = "cancellation" => fanout = "cancelled"

\* A step of a goroutine is the arrival of a head or the sending of an outcome
\* that names the context's end only when the context ended.
LEMMA FetchSends ==
    ASSUME NEW n \in Nodes, Fetch(n)
    PROVE  CallAnswered(n) \/ Sent(n)
  <1>1. ASSUME CallRefused(n) PROVE Sent(n)
    <2>1. PICK t \in {"missing_proxy_url", "connection_error", "upstream_4xx", "upstream_5xx"} : Send(n, t)
      BY <1>1 DEF CallRefused
    <2>2. t \in Reasons /\ t # "timeout" /\ t # "cancellation"
      BY DEF Reasons
    <2>3. QED
      BY <1>1, <2>1, <2>2 DEF Sent, CallRefused
  <1>2. ASSUME NEW f \in {"connection_error", "body_read_failure"},
               fetch[n] \in {"calling", "reading"},
               Send(n, consensusFailureReasonForContext(f))
        PROVE  Sent(n)
    <2>1. PICK o : o = consensusFailureReasonForContext(f)
      OBVIOUS
    <2>2. o \in Reasons
      BY <2>1, ReasonTyped DEF Reasons
    <2>3. (o = "timeout" => fanout = "deadline") /\ (o = "cancellation" => fanout = "cancelled")
      BY <2>1 DEF consensusFailureReasonForContext
    <2>4. QED
      BY <1>2, <2>1, <2>2, <2>3 DEF Sent
  <1>3. ASSUME CallFails(n) PROVE Sent(n)
    BY <1>2, <1>3 DEF CallFails
  <1>4. ASSUME ReadFails(n) PROVE Sent(n)
    BY <1>2, <1>4 DEF ReadFails
  <1>5. ASSUME TooLarge(n) PROVE Sent(n)
    BY <1>5 DEF TooLarge, Sent, Reasons
  <1>6. ASSUME ReadAll(n) PROVE Sent(n)
    <2>1. PICK b \in Bodies : Send(n, b)
      BY <1>6 DEF ReadAll
    <2>2. b # "timeout" /\ b # "cancellation"
      BY OutcomeAssumption DEF Reasons
    <2>3. QED
      BY <1>6, <2>1, <2>2 DEF ReadAll, Sent
  <1>7. QED
    BY <1>1, <1>3, <1>4, <1>5, <1>6 DEF Fetch
--------------------------------------------------------------------------------
(* The steps *)

\* The handler answers before the fan-out.
LEMMA InvRefuse ==
    ASSUME Inv, NEW code, Refuse(code), at \in {"arrived", "routed"},
           code \notin {"none", "504", "upstream_4xx"}
    PROVE  Inv'
  <1>1. Typed'
    BY DEF Inv, Typed, Refuse, callVars
  <1>2. FanoutBounded'
    BY DEF Inv, FanoutBounded, Refuse, callVars, Participants
  <1>3. Early' /\ Arrived'
    BY DEF Inv, Early, Arrived, Refuse, callVars
  <1>4. Truth'
    BY DEF Inv, Truth, Refuse, callVars, Participants
  <1>5. ErrorsTellWhy'
    <2>1. collected' = {} /\ stopped' = "no" /\ reply' = code
      BY DEF Inv, Early, Refuse
    <2>2. \A n \in Failures' : FailureReason(n)' = "connection_error"
      BY <2>1 DEF FailureReason
    <2>3. QED
      BY <2>1, <2>2 DEF ErrorsTellWhy
  <1>6. QED
    BY <1>1, <1>2, <1>3, <1>4, <1>5 DEF Inv

\* The participants are picked.
LEMMA InvRoute ==
    ASSUME Inv, NEW rank \in Rankings, NEW a \in Aliases, Route(rank, a)
    PROVE  Inv'
  <1>1. PICK p : p = Picked(rank, a)
    OBVIOUS
  <1>2. /\ p \in Seq(Nodes) /\ Len(p) <= Maximum
        /\ \A i, j \in 1..Len(p) : p[i] = p[j] => i = j
    BY <1>1, PickedBounded
  <1>3. at = "arrived" /\ at' = "routed" /\ participants' = p /\ required' = MinParticipants(a)
        /\ Len(p) >= MinParticipants(a)
    BY <1>1 DEF Route
  <1>4. MinParticipants(a) \in Nat /\ MinParticipants(a) >= 1
    BY BoundsOrdered
  <1>5. UNCHANGED <<gone, fanout, fetch, outcome, results, collected, stopped, reply>>
    BY DEF Route, callVars, replyVars
  <1>6. Typed'
    BY <1>2, <1>3, <1>4, <1>5 DEF Inv, Typed
  <1>7. Early' /\ Arrived'
    BY <1>3, <1>5 DEF Inv, Early, Arrived
  <1>8. FanoutBounded'
    <2>1. \A n \in Nodes : fetch'[n] = "idle"
      BY <1>3, <1>5 DEF Inv, Early
    <2>2. QED
      BY <1>2, <1>3, <1>4, <2>1 DEF FanoutBounded
  <1>9. Truth'
    <2>1. reply' = "none"
      BY <1>3, <1>5 DEF Inv, Early
    <2>2. QED
      BY <1>3, <1>5, <2>1 DEF Inv, Truth
  <1>10. ErrorsTellWhy'
    BY <1>3 DEF ErrorsTellWhy
  <1>11. QED
    BY <1>6, <1>7, <1>8, <1>9, <1>10 DEF Inv

\* The goroutines start.
LEMMA InvFanOut == Inv /\ FanOut => Inv'
  <1> SUFFICES ASSUME Inv, FanOut PROVE Inv'
    OBVIOUS
  <1>1. /\ at = "routed" /\ at' = "collecting"
        /\ fanout' = IF gone THEN "cancelled" ELSE "open"
        /\ fetch' = [n \in Nodes |-> IF n \in Participants THEN "calling" ELSE "idle"]
        /\ UNCHANGED <<participants, required, gone, outcome, results, collected, stopped, reply>>
    BY DEF FanOut, replyVars
  <1>2. Typed'
    BY <1>1 DEF Inv, Typed
  <1>3. FanoutBounded'
    BY <1>1 DEF Inv, FanoutBounded, Participants
  <1>4. collected = {} /\ stopped = "no" /\ reply = "none" /\ \A n \in Nodes : fetch[n] = "idle"
    BY <1>1 DEF Inv, Early
  <1>5. Early'
    BY <1>1, <1>4 DEF Early
  <1>6. Arrived'
    <2>1. \A i \in 1..Len(results) : FALSE
      BY <1>4 DEF Inv, Arrived, Typed
    <2>2. QED
      BY <1>1, <1>4, <2>1 DEF Arrived
  <1>7. Truth'
    <2>1. \A n \in Nodes : outcome[n] = "pending"
      BY <1>1 DEF Inv, Early
    <2>2. QED
      BY <1>1, <1>4, <2>1 DEF Inv, Truth
  <1>8. ErrorsTellWhy'
    BY <1>1 DEF ErrorsTellWhy
  <1>9. QED
    BY <1>2, <1>3, <1>5, <1>6, <1>7, <1>8 DEF Inv

\* The deadline passes, or the client's leaving is noticed.
LEMMA InvContext == Inv /\ (Deadline \/ ClientLeaves \/ CancelSpreads) => Inv'
  <1> SUFFICES ASSUME Inv, Deadline \/ ClientLeaves \/ CancelSpreads PROVE Inv'
    OBVIOUS
  <1>1. /\ at # "done"
        /\ UNCHANGED <<at, participants, required, fetch, outcome, results, collected, stopped, reply>>
        /\ \/ gone' = gone /\ fanout = "open" /\ fanout' = "deadline"
           \/ gone' = TRUE /\ fanout' = fanout
           \/ gone' = gone /\ gone /\ fanout = "open" /\ fanout' = "cancelled"
    BY DEF Deadline, ClientLeaves, CancelSpreads, Running, callVars, replyVars
  <1>2. Typed'
    BY <1>1 DEF Inv, Typed
  <1>3. FanoutBounded' /\ Early' /\ Arrived'
    BY <1>1 DEF Inv, FanoutBounded, Early, Arrived, Participants
  <1>4. Truth'
    BY <1>1 DEF Inv, Truth, Participants
  <1>5. ErrorsTellWhy'
    BY <1>1 DEF ErrorsTellWhy
  <1>6. QED
    BY <1>2, <1>3, <1>4, <1>5 DEF Inv

\* After the handler's answer, what it reported does not change: only the
\* outcomes of goroutines it no longer listens to do.
LEMMA ReportStays ==
    ASSUME ErrorsTellWhy, Truth,
           UNCHANGED <<at, participants, gone, fanout, collected, stopped, reply>>,
           \A n \in collected : outcome'[n] = outcome[n]
    PROVE  ErrorsTellWhy'
  <1>1. Participants' = Participants
    BY DEF Participants
  <1>2. Successes' = Successes
    BY DEF Successes
  <1>3. Failures' = Failures
    BY <1>1, <1>2 DEF Failures
  <1>4. \A n : FailureReason(n)' = FailureReason(n)
    BY DEF FailureReason
  <1>5. reply = "upstream_4xx" => \A n \in Participants : outcome'[n] = outcome[n]
    BY DEF Truth
  <1>6. QED
    BY <1>1, <1>3, <1>4, <1>5 DEF ErrorsTellWhy

\* A goroutine of a participant goes on.
LEMMA InvFetch ==
    ASSUME Inv, NEW n \in Nodes, Fetch(n)
    PROVE  Inv'
  <1>1. CASE CallAnswered(n)
    <2>1. /\ fetch[n] = "calling" /\ fetch' = [fetch EXCEPT ![n] = "reading"]
          /\ UNCHANGED <<at, participants, required, gone, fanout, outcome, results, collected, stopped, reply>>
      BY <1>1 DEF CallAnswered, replyVars
    <2>2. Typed'
      BY <2>1 DEF Inv, Typed
    <2>3. FanoutBounded'
      BY <2>1 DEF Inv, Typed, FanoutBounded, Participants
    <2>4. Early' /\ Arrived'
      BY <2>1 DEF Inv, Typed, Early, Arrived
    <2>5. Truth'
      BY <2>1 DEF Inv, Truth, Participants
    <2>6. ErrorsTellWhy'
      BY <2>1, ReportStays DEF Inv
    <2>7. QED
      BY <2>2, <2>3, <2>4, <2>5, <2>6 DEF Inv
  <1>2. CASE Sent(n)
    <2>1. PICK o \in Bodies \union Reasons :
              /\ Send(n, o) /\ fetch[n] \in {"calling", "reading"}
              /\ o = "timeout" => fanout = "deadline"
              /\ o = "cancellation" => fanout = "cancelled"
      BY <1>2 DEF Sent
    <2>2. /\ results' = Append(results, n)
          /\ outcome' = [outcome EXCEPT ![n] = o]
          /\ fetch' = [fetch EXCEPT ![n] = "ended"]
          /\ UNCHANGED <<at, participants, required, gone, fanout, collected, stopped, reply>>
      BY <2>1 DEF Send, replyVars
    <2>3. Typed'
      BY <2>2 DEF Inv, Typed
    <2>4. FanoutBounded'
      BY <2>1, <2>2 DEF Inv, Typed, FanoutBounded, Participants
    <2>5. Early'
      BY <2>1, <2>2 DEF Inv, Typed, Early
    <2>6. Arrived'
      BY <2>1, <2>2 DEF Inv, Typed, Arrived
    <2>7. n \notin collected
      BY <2>1 DEF Inv, Arrived
    <2>8. Truth'
      BY <2>1, <2>2, <2>7 DEF Inv, Typed, Truth, Participants
    <2>9. ErrorsTellWhy'
      <3>1. \A m \in collected : outcome'[m] = outcome[m]
        BY <2>2, <2>7 DEF Inv, Typed
      <3>2. QED
        BY <2>2, <3>1, ReportStays DEF Inv
    <2>10. QED
      BY <2>3, <2>4, <2>5, <2>6, <2>8, <2>9 DEF Inv
  <1>3. QED
    BY <1>1, <1>2, FetchSends

\* An outcome is received, or the handler stops listening.
LEMMA InvCollect == Inv /\ (Collect \/ Stop) => Inv'
  <1> SUFFICES ASSUME Inv, Collect \/ Stop PROVE Inv'
    OBVIOUS
  <1>1. /\ at = "collecting" /\ at' \in {"collecting", "deciding"}
        /\ UNCHANGED <<participants, required, gone, fanout, fetch, outcome, reply>>
    BY DEF Collect, Stop, callVars, replyVars
  <1>2. CASE Collect
    <2>1. /\ results # <<>> /\ collected' = collected \union {Head(results)}
          /\ results' = Tail(results) /\ stopped' = stopped
      BY <1>2 DEF Collect
    <2>2. /\ Head(results) \in Nodes /\ fetch[Head(results)] = "ended"
          /\ Tail(results) \in Seq(Nodes)
          /\ \A i \in 1..Len(Tail(results)) : fetch[Tail(results)[i]] = "ended"
      BY <2>1 DEF Inv, Typed, Arrived
    <2>3. Typed' /\ Arrived'
      BY <1>1, <2>1, <2>2 DEF Inv, Typed, Arrived
    <2>4. Truth'
      BY <1>1, <2>1 DEF Inv, Truth, Early, Participants
    <2>5. QED
      BY <1>1, <2>3, <2>4 DEF Inv, FanoutBounded, Early, ErrorsTellWhy, Participants
  <1>3. CASE Stop
    <2>1. /\ fanout # "open" /\ stopped' = IF gone THEN "cancelled" ELSE "timeout"
          /\ UNCHANGED <<results, collected>>
      BY <1>3 DEF Stop, callVars
    <2>2. Typed' /\ Arrived'
      BY <1>1, <2>1 DEF Inv, Typed, Arrived
    <2>3. ~gone => fanout = "deadline"
      BY <1>1, <2>1 DEF Inv, Truth, Typed
    <2>4. Truth'
      BY <1>1, <2>1, <2>3 DEF Inv, Truth, Participants
    <2>5. QED
      BY <1>1, <2>2, <2>4 DEF Inv, FanoutBounded, Early, ErrorsTellWhy, Participants
  <1>4. QED
    BY <1>2, <1>3

\* The handler answers.  A code for a timeout or an upstream error must be
\* backed by what was collected, and silence by the client's leaving.
LEMMA InvReturn ==
    ASSUME Inv, NEW code, NEW node, NEW final, Return(code, node, final),
           code = "none" => stopped = "cancelled",
           code = "504" => stopped = "timeout" \/ \E n \in Failures : FailureReason(n) = "timeout",
           code = "upstream_4xx" =>
               Successes = {} /\ \A n \in Failures : FailureReason(n) = "upstream_4xx"
    PROVE  Inv'
  <1>1. /\ at = "deciding" /\ at' = "done" /\ reply' = code
        /\ fanout' = IF fanout = "open" THEN "cancelled" ELSE fanout
        /\ UNCHANGED <<participants, required, gone, fetch, outcome, results, collected, stopped>>
    BY DEF Return, callVars
  <1>2. Typed'
    BY <1>1 DEF Inv, Typed
  <1>3. FanoutBounded' /\ Early' /\ Arrived'
    BY <1>1 DEF Inv, FanoutBounded, Early, Arrived, Participants
  <1>4. Failures \subseteq Nodes
    BY DEF Failures, Participants, Inv, Typed
  <1>5. \A n \in Failures :
           /\ FailureReason(n) = "cancellation" => gone
           /\ FailureReason(n) = "timeout" => fanout = "deadline"
    BY <1>1, <1>4 DEF Inv, Truth, FailureReason
  <1>6. code = "504" => fanout = "deadline"
    BY <1>5 DEF Inv, Truth
  <1>7. code = "upstream_4xx" => Participants \subseteq collected
                               /\ \A n \in Participants : outcome[n] = "upstream_4xx"
    <2> SUFFICES ASSUME code = "upstream_4xx", NEW n \in Participants
                 PROVE  n \in collected /\ outcome[n] = "upstream_4xx"
      OBVIOUS
    <2>1. FailureReason(n) = "upstream_4xx"
      BY DEF Failures
    <2>2. QED
      BY <2>1 DEF FailureReason
  <1>8. Participants' = Participants /\ Failures' = Failures /\ \A n : FailureReason(n)' = FailureReason(n)
    BY <1>1 DEF Participants, Failures, Successes, FailureReason
  <1>9. Truth'
    BY <1>1, <1>7, <1>8 DEF Inv, Truth
  <1>10. ErrorsTellWhy'
    BY <1>1, <1>5, <1>6, <1>7, <1>8 DEF Inv, Truth, ErrorsTellWhy
  <1>11. QED
    BY <1>2, <1>3, <1>9, <1>10 DEF Inv

\* Each of the three ways forwardConsensus ends.
LEMMA InvAnswer == Inv /\ (GiveUp \/ TooFewSuccesses \/ \E w \in BOOLEAN : Serve(w)) => Inv'
  <1>1. ASSUME Inv, GiveUp PROVE Inv'
    BY <1>1, InvReturn DEF GiveUp
  <1>2. ASSUME Inv, TooFewSuccesses PROVE Inv'
    <2>1. PICK code : code = consensusInferenceFailure
      OBVIOUS
    <2>2. /\ code # "none"
          /\ code = "504" => stopped = "timeout" \/ \E n \in Failures : FailureReason(n) = "timeout"
          /\ code = "upstream_4xx" =>
                Successes = {} /\ \A n \in Failures : FailureReason(n) = "upstream_4xx"
      BY <2>1 DEF consensusInferenceFailure
    <2>3. Return(code, NoNode, "failed")
      BY <1>2, <2>1 DEF TooFewSuccesses
    <2>4. QED
      BY <1>2, <2>2, <2>3, InvReturn
  <1>3. ASSUME Inv, NEW w \in BOOLEAN, Serve(w) PROVE Inv'
    <2>1. PICK node, final : Return("200", node, final)
      BY <1>3 DEF Serve
    <2>2. QED
      BY <1>3, <2>1, InvReturn
  <1>4. QED
    BY <1>1, <1>2, <1>3

\* A step that changes nothing.
LEMMA InvStutter == Inv /\ UNCHANGED vars => Inv'
  <1> SUFFICES ASSUME Inv, UNCHANGED vars PROVE Inv'
    OBVIOUS
  <1>1. Typed' /\ FanoutBounded' /\ Early' /\ Arrived'
    BY DEF Inv, Typed, FanoutBounded, Early, Arrived, Participants, vars, callVars, replyVars
  <1>2. Truth'
    BY DEF Inv, Truth, Participants, vars, callVars, replyVars
  <1>3. ErrorsTellWhy'
    BY ReportStays DEF Inv, vars, callVars, replyVars
  <1>4. QED
    BY <1>1, <1>2, <1>3 DEF Inv
--------------------------------------------------------------------------------
\* The inductive invariant of a consensus request.
THEOREM ConsensusCorrect == Spec => []Inv
  <1>1. Inv /\ [Next]_vars => Inv'
    <2> SUFFICES ASSUME Inv, [Next]_vars PROVE Inv'
      OBVIOUS
    <2>1. ASSUME NEW rank \in Rankings, NEW a \in Aliases, NoEligibleNode(rank, a) PROVE Inv'
      BY <2>1, InvRefuse DEF NoEligibleNode
    <2>2. ASSUME NEW rank \in Rankings, NEW a \in Aliases, Route(rank, a) PROVE Inv'
      BY <2>2, InvRoute
    <2>3. CASE RejectStreaming
      BY <2>3, InvRefuse DEF RejectStreaming
    <2>4. CASE FanOut
      BY <2>4, InvFanOut
    <2>5. CASE Collect \/ Stop
      BY <2>5, InvCollect
    <2>6. CASE GiveUp \/ TooFewSuccesses \/ \E w \in BOOLEAN : Serve(w)
      BY <2>6, InvAnswer
    <2>7. CASE Deadline \/ ClientLeaves \/ CancelSpreads
      BY <2>7, InvContext
    <2>8. ASSUME NEW n \in Nodes, Fetch(n) PROVE Inv'
      BY <2>8, InvFetch
    <2>9. CASE UNCHANGED vars
      BY <2>9, InvStutter
    <2>10. QED
      BY <2>1, <2>2, <2>3, <2>4, <2>5, <2>6, <2>7, <2>8, <2>9 DEF Next, Handle, Proceed
  <1>2. QED
    BY <1>1, InvInit, PTL DEF Spec

\* Every fan-out has a quorum that can be met and stays within the maximum, for
\* every bounds an alias may be configured with (consensusParticipantBounds and
\* Select in routing.go, the goroutines of forwardConsensus).
THEOREM FanoutIsBounded == Spec => []FanoutBounded
  <1>1. Inv => FanoutBounded
    BY DEF Inv
  <1>2. QED
    BY <1>1, ConsensusCorrect, PTL

\* What is reported about a failed participant or a failed request is what
\* happened, however deadline, client and calls race (forwardConsensus,
\* consensusFailureReasonForContext, consensusInferenceFailure).
THEOREM ErrorsAreTrue == Spec => []ErrorsTellWhy
  <1>1. Inv => ErrorsTellWhy
    BY DEF Inv
  <1>2. QED
    BY <1>1, ConsensusCorrect, PTL

--------------------------------------------------------------------------------
(* Consensus: the winner. *)

\* The size of a group, for a list of nodes.
LEMMA GroupSized ==
    ASSUME NEW n \in Nat, NEW c \in [1..n -> Nodes], NEW i \in 1..n
    PROVE  /\ Members(c, i) \subseteq 1..n /\ i \in Members(c, i)
           /\ IsFiniteSet(Members(c, i)) /\ Cardinality(Members(c, i)) \in Nat
<1>1. Len(c) = n
  BY SequenceOf
<1>2. Members(c, i) \subseteq 1..n /\ i \in Members(c, i)
  BY <1>1 DEF Members
<1>3. IsFiniteSet(Members(c, i))
  BY <1>2, PositionsFinite
<1> QED
  BY <1>2, <1>3, FS_CardinalityType

\* Group e is the best of those opened by the first i candidates.
BestOf(c, e, i) ==
    /\ e \in 1..i /\ OpensGroup(c, e)
    /\ \A j \in 1..i : OpensGroup(c, j) => ~betterGroup(c, j, e)

\* There are not two.
LEMMA BestUnique ==
    ASSUME NEW n \in Nat, NEW c \in [1..n -> Nodes], NEW i \in 1..n,
           NEW e, NEW f, BestOf(c, e, i), BestOf(c, f, i)
    PROVE  e = f
<1>1. e \in 1..n /\ f \in 1..n /\ ~betterGroup(c, e, f) /\ ~betterGroup(c, f, e)
  BY DEF BestOf
<1>2. Cardinality(Members(c, e)) \in Nat /\ Cardinality(Members(c, f)) \in Nat
  BY <1>1, GroupSized
<1> QED
  BY <1>1, <1>2 DEF betterGroup

\* The first candidate opens the first group.
LEMMA BestFirst ==
    ASSUME NEW n \in Nat, NEW c \in [1..n -> Nodes], 1 \in 1..n
    PROVE  BestOf(c, 1, 1)
<1>1. Members(c, 1) \subseteq 1..n /\ Cardinality(Members(c, 1)) \in Nat
  BY GroupSized
<1>2. OpensGroup(c, 1)
  BY <1>1 DEF OpensGroup
<1>3. ~betterGroup(c, 1, 1)
  BY <1>1 DEF betterGroup
<1>4. \A j \in 1..1 : j = 1
  OBVIOUS
<1> QED
  BY <1>2, <1>3, <1>4 DEF BestOf

\* One turn of the loop.
LEMMA BestStep ==
    ASSUME NEW n \in Nat, NEW c \in [1..n -> Nodes], NEW i \in 1..n, i # 1, NEW e,
           BestOf(c, e, i - 1)
    PROVE  /\ OpensGroup(c, i) /\ betterGroup(c, i, e) => BestOf(c, i, i)
           /\ ~(OpensGroup(c, i) /\ betterGroup(c, i, e)) => BestOf(c, e, i)
<1>1. e \in 1..i - 1 /\ e \in 1..n /\ OpensGroup(c, e)
  BY DEF BestOf
<1>2. \A j \in 1..n : Cardinality(Members(c, j)) \in Nat
  BY GroupSized
<1>3. \A j \in 1..i : j \in 1..i - 1 \/ j = i
  OBVIOUS
<1>4. \A j \in 1..i - 1 : OpensGroup(c, j) => ~betterGroup(c, j, e)
  BY DEF BestOf
<1>5. ASSUME OpensGroup(c, i), betterGroup(c, i, e)
      PROVE  BestOf(c, i, i)
  <2>1. ~betterGroup(c, i, i)
    BY <1>2 DEF betterGroup
  <2>2. \A j \in 1..n : betterGroup(c, j, i) => betterGroup(c, j, e)
    BY <1>1, <1>2, <1>5 DEF betterGroup
  <2>3. \A j \in 1..i : OpensGroup(c, j) => ~betterGroup(c, j, i)
    BY <1>3, <1>4, <2>1, <2>2
  <2> QED
    BY <1>5, <2>3 DEF BestOf
<1>6. ASSUME ~(OpensGroup(c, i) /\ betterGroup(c, i, e))
      PROVE  BestOf(c, e, i)
  <2>1. \A j \in 1..i : OpensGroup(c, j) => ~betterGroup(c, j, e)
    BY <1>3, <1>4, <1>6
  <2> QED
    BY <1>1, <2>1 DEF BestOf
<1> QED
  BY <1>5, <1>6

\* h is what the loop of Evaluate computes for the prefixes of c.
Loop(c, h) ==
    h = [i \in 1..Len(c) |->
          IF i = 1 THEN 1
          ELSE IF OpensGroup(c, i) /\ betterGroup(c, i, h[i - 1]) THEN i ELSE h[i - 1]]

HasBest(c, i) == \E e : BestOf(c, e, i)

\* For every prefix there is a best group.
LEMMA BestExists ==
    ASSUME NEW n \in Nat, NEW c \in [1..n -> Nodes], NEW i \in 1..n
    PROVE  HasBest(c, i)
<1> SUFFICES ASSUME ~HasBest(c, i) PROVE FALSE
  OBVIOUS
<1>1. PICK Bad : Bad = {k \in 1..n : ~HasBest(c, k)}
  OBVIOUS
<1>2. Bad \subseteq Nat /\ Bad # {}
  BY <1>1
<1>3. PICK k \in Bad : \A y \in Bad : k <= y
  BY <1>2, LeastOf
<1>4. k \in 1..n /\ ~HasBest(c, k)
  BY <1>1
<1>5. k # 1
  BY <1>4, BestFirst DEF HasBest
<1>6. k - 1 \in 1..n /\ k - 1 \notin Bad
  BY <1>3, <1>4, <1>5
<1>7. HasBest(c, k - 1)
  BY <1>1, <1>6
<1>8. PICK e : BestOf(c, e, k - 1)
  BY <1>7 DEF HasBest
<1> QED
  BY <1>4, <1>5, <1>8, BestStep DEF HasBest

\* What the loop computes is the best group.
LEMMA LoopFinds ==
    ASSUME NEW n \in Nat, NEW c \in [1..n -> Nodes], NEW h, Loop(c, h), NEW i \in 1..n
    PROVE  BestOf(c, h[i], i)
<1> SUFFICES ASSUME ~BestOf(c, h[i], i) PROVE FALSE
  OBVIOUS
<1>1. PICK Bad : Bad = {k \in 1..n : ~BestOf(c, h[k], k)}
  OBVIOUS
<1>2. Bad \subseteq Nat /\ Bad # {}
  BY <1>1
<1>3. PICK k \in Bad : \A y \in Bad : k <= y
  BY <1>2, LeastOf
<1>4. k \in 1..n /\ ~BestOf(c, h[k], k)
  BY <1>1
<1>5. Len(c) = n
  BY SequenceOf
<1>6. h[k] = IF k = 1 THEN 1
             ELSE IF OpensGroup(c, k) /\ betterGroup(c, k, h[k - 1]) THEN k ELSE h[k - 1]
  BY <1>4, <1>5 DEF Loop
<1>7. k # 1
  BY <1>4, <1>6, BestFirst
<1>8. k - 1 \in 1..n /\ k - 1 \notin Bad
  BY <1>3, <1>4, <1>7
<1>9. PICK e : e = h[k - 1] /\ BestOf(c, e, k - 1)
  BY <1>1, <1>8
<1> QED
  BY <1>4, <1>6, <1>7, <1>9, BestStep

\* The loop has a value.
LEMMA LoopEnds ==
    ASSUME NEW n \in Nat, NEW c \in [1..n -> Nodes]
    PROVE  \E h : Loop(c, h)
<1>1. PICK h : h = [i \in 1..n |-> CHOOSE e : BestOf(c, e, i)]
  OBVIOUS
<1>2. Len(c) = n
  BY SequenceOf
<1>3. \A i \in 1..n : BestOf(c, h[i], i)
  BY <1>1, BestExists DEF HasBest
<1>4. ASSUME NEW i \in 1..n
      PROVE  h[i] = IF i = 1 THEN 1
                    ELSE IF OpensGroup(c, i) /\ betterGroup(c, i, h[i - 1]) THEN i ELSE h[i - 1]
  <2>1. CASE i = 1
    BY <1>3, <2>1, BestFirst, BestUnique
  <2>2. CASE i # 1
    <3>1. PICK e : e = h[i - 1]
      OBVIOUS
    <3>2. BestOf(c, e, i - 1)
      BY <1>3, <2>2, <3>1
    <3>3. CASE OpensGroup(c, i) /\ betterGroup(c, i, e)
      BY <1>3, <2>2, <3>1, <3>2, <3>3, BestStep, BestUnique
    <3>4. CASE ~(OpensGroup(c, i) /\ betterGroup(c, i, e))
      BY <1>3, <2>2, <3>1, <3>2, <3>4, BestStep, BestUnique
    <3> QED
      BY <3>3, <3>4
  <2> QED
    BY <2>1, <2>2
<1>5. PICK g : g = [i \in 1..n |->
                       IF i = 1 THEN 1
                       ELSE IF OpensGroup(c, i) /\ betterGroup(c, i, h[i - 1]) THEN i ELSE h[i - 1]]
  OBVIOUS
<1>6. DOMAIN g = 1..n /\ g = [i \in 1..n |-> g[i]]
  BY <1>5
<1>7. h = [i \in 1..n |-> h[i]]
  BY <1>1
<1>8. \A i \in 1..n : h[i] = g[i]
  BY <1>4, <1>5
<1>9. h = g
  BY <1>6, <1>7, <1>8
<1> QED
  BY <1>2, <1>5, <1>9 DEF Loop

\* Evaluate finds the best group of all.
LEMMA EvaluateFinds ==
    ASSUME NEW n \in Nat \ {0}, NEW c \in [1..n -> Nodes]
    PROVE  BestOf(c, Evaluate(c), n)
<1>1. Len(c) = n
  BY SequenceOf
<1>2. Evaluate(c) = (CHOOSE h : Loop(c, h))[Len(c)]
  BY DEF Evaluate, Loop
<1>3. PICK h : h = (CHOOSE x : Loop(c, x))
  OBVIOUS
<1>4. Loop(c, h)
  BY <1>3, LoopEnds
<1> QED
  BY <1>1, <1>2, <1>3, <1>4, LoopFinds

\* No candidate has more support than the best group, and none of those that
\* have as much comes before the one who opens it.
LEMMA BestBeats ==
    ASSUME NEW n \in Nat, NEW c \in [1..n -> Nodes], NEW e, BestOf(c, e, n), NEW i \in 1..n
    PROVE  \/ Cardinality(Members(c, i)) < Cardinality(Members(c, e))
           \/ Cardinality(Members(c, i)) = Cardinality(Members(c, e)) /\ e <= i
<1>1. Members(c, i) \subseteq 1..n /\ i \in Members(c, i)
  BY GroupSized
<1>2. Members(c, i) \subseteq Nat /\ Members(c, i) # {}
  BY <1>1
<1>3. PICK o \in Members(c, i) : \A j \in Members(c, i) : o <= j
  BY <1>2, LeastOf
<1>4. o \in 1..n /\ o <= i
  BY <1>1, <1>3
<1>5. Members(c, o) = Members(c, i)
  BY <1>3 DEF Members
<1>6. OpensGroup(c, o)
  BY <1>3, <1>5 DEF OpensGroup
<1>7. e \in 1..n /\ ~betterGroup(c, o, e)
  BY <1>4, <1>6 DEF BestOf
<1>8. Cardinality(Members(c, o)) \in Nat /\ Cardinality(Members(c, e)) \in Nat
  BY <1>4, <1>7, GroupSized
<1> QED
  BY <1>4, <1>5, <1>7, <1>8 DEF betterGroup

\* A one-to-one image has the size of the set.
LEMMA SameSize ==
    ASSUME NEW S, IsFiniteSet(S), NEW T, NEW g \in [S -> T],
           \A a, b \in S : g[a] = g[b] => a = b, \A t \in T : \E a \in S : g[a] = t
    PROVE  IsFiniteSet(T) /\ Cardinality(T) = Cardinality(S)
<1>1. g \in Bijection(S, T)
  BY DEF Bijection, Injection, Surjection, IsInjective
<1>2. ExistsBijection(S, T)
  BY <1>1 DEF ExistsBijection
<1> QED
  BY <1>2, FS_Bijection

\* c lists the successes, each once: the k-th is the participant f[k].
Enumerates(c, m, f) ==
    /\ c \in [1..m -> Nodes] /\ f \in [1..m -> 1..Len(participants)]
    /\ \A k \in 1..m : c[k] = participants[f[k]] /\ c[k] \in Successes
    /\ \A k, l \in 1..m : k < l => f[k] < f[l]
    /\ \A n \in Successes : \E k \in 1..m : c[k] = n

\* The candidates are the successes, in the order of the routing.
LEMMA CandidatesListed ==
    ASSUME Inv
    PROVE  \E m \in Nat : \E f : Enumerates(Candidates, m, f)
<1>1. PICK N \in Nat : N = Len(participants) /\ participants \in [1..N -> Nodes]
  BY DEF Inv, Typed
<1>2. PICK I : I = {i \in DOMAIN participants : participants[i] \in Successes}
  OBVIOUS
<1>3. I \in SUBSET (1..N)
  BY <1>1, <1>2
<1>4. PICK m \in Nat : \E f : Takes(Kept(participants, I), participants, I, m, f)
                                 /\ \A k, l \in 1..m : k < l => f[k] < f[l]
  BY <1>3, KeptOf
<1>5. PICK f : Takes(Kept(participants, I), participants, I, m, f)
                  /\ \A k, l \in 1..m : k < l => f[k] < f[l]
  BY <1>4
<1>6. PICK c : c = Candidates
  OBVIOUS
<1>7. Takes(c, participants, I, m, f)
  BY <1>2, <1>5, <1>6 DEF Candidates
<1>8. f \in [1..m -> 1..N] /\ \A k \in 1..m : f[k] \in I
  BY <1>3, <1>7 DEF Takes
<1>9. \A k \in 1..m : c[k] = participants[f[k]] /\ c[k] \in Successes /\ c[k] \in Nodes
  BY <1>1, <1>2, <1>7, <1>8 DEF Takes
<1>10. c \in [1..m -> Nodes]
  BY <1>7, <1>9 DEF Takes
<1>11. ASSUME NEW n \in Successes
       PROVE  \E k \in 1..m : c[k] = n
  <2>1. n \in Nodes /\ fetch[n] = "ended"
    BY DEF Inv, Typed, Arrived, Successes
  <2>2. n \in Participants
    BY <2>1 DEF Inv, FanoutBounded
  <2>3. PICK i \in 1..N : participants[i] = n
    BY <1>1, <2>2 DEF Participants
  <2>4. i \in I
    BY <1>1, <1>2, <2>3
  <2>5. PICK k \in 1..m : f[k] = i
    BY <1>7, <2>4 DEF Takes
  <2> QED
    BY <1>9, <2>3, <2>5
<1>12. Enumerates(c, m, f)
  BY <1>1, <1>5, <1>8, <1>9, <1>10, <1>11 DEF Enumerates
<1> QED
  BY <1>6, <1>12

\* No candidate is listed twice.
LEMMA ListedOnce ==
    ASSUME Inv, NEW m \in Nat, NEW c, NEW f, Enumerates(c, m, f)
    PROVE  \A k, l \in 1..m : c[k] = c[l] => k = l
<1> SUFFICES ASSUME NEW k \in 1..m, NEW l \in 1..m, c[k] = c[l] PROVE k = l
  OBVIOUS
<1>1. Len(participants) \in Nat
  BY DEF Inv, Typed
<1>2. /\ f[k] \in 1..Len(participants) /\ f[l] \in 1..Len(participants)
      /\ participants[f[k]] = participants[f[l]]
  BY DEF Enumerates
<1>3. f[k] = f[l]
  BY <1>2 DEF Inv, FanoutBounded
<1>4. f[k] \in Int /\ f[l] \in Int
  BY <1>1, <1>2
<1>5. ~(k < l) /\ ~(l < k)
  BY <1>3, <1>4 DEF Enumerates
<1> QED
  BY <1>5

\* The group of a candidate has the size of its support, its rank is its
\* place among the participants, and there are as many candidates as successes.
LEMMA SupportOf ==
    ASSUME Inv, NEW m \in Nat, NEW c, NEW f, Enumerates(c, m, f), NEW i \in 1..m
    PROVE  /\ Support(c[i]) = Cardinality(Members(c, i))
           /\ Rank(c[i]) = f[i]
<1>0. c \in [1..m -> Nodes] /\ \A k \in 1..m : c[k] \in Successes
  BY DEF Enumerates
<1>1. Len(c) = m
  BY <1>0, SequenceOf
<1>2. PICK T : T = {n \in Successes : responseSignature(n) = responseSignature(c[i])}
  OBVIOUS
<1>3. PICK M : M = Members(c, i) /\ M \subseteq 1..m /\ IsFiniteSet(M)
  BY <1>0, GroupSized
<1>4. PICK g : g = [k \in M |-> c[k]]
  OBVIOUS
<1>5. \A k \in 1..m : k \in M <=> responseSignature(c[k]) = responseSignature(c[i])
  BY <1>1, <1>3 DEF Members
<1>6. \A n : n \in T <=> n \in Successes /\ responseSignature(n) = responseSignature(c[i])
  BY <1>2
<1>7. \A k \in M : g[k] = c[k] /\ c[k] \in T
  BY <1>0, <1>3, <1>4, <1>5, <1>6
<1>8. g \in [M -> T]
  BY <1>4, <1>7
<1>9. \A a, b \in M : g[a] = g[b] => a = b
  BY <1>3, <1>7, ListedOnce
<1>10. ASSUME NEW t \in T
       PROVE  \E a \in M : g[a] = t
  <2>1. t \in Successes /\ responseSignature(t) = responseSignature(c[i])
    BY <1>6
  <2>2. PICK k \in 1..m : c[k] = t
    BY <2>1 DEF Enumerates
  <2>3. k \in M
    BY <1>5, <2>1, <2>2
  <2> QED
    BY <1>7, <2>2, <2>3
<1>11. Cardinality(T) = Cardinality(M)
  BY <1>3, <1>8, <1>9, <1>10, SameSize
<1>12. Support(c[i]) = Cardinality(T)
  BY <1>2 DEF Support
<1>13. f[i] \in 1..Len(participants) /\ participants[f[i]] = c[i]
  BY DEF Enumerates
<1>14. \A j \in 1..Len(participants) : participants[j] = c[i] => j = f[i]
  BY <1>13 DEF Inv, FanoutBounded
<1>15. Rank(c[i]) = f[i]
  BY <1>13, <1>14 DEF Rank
<1> QED
  BY <1>3, <1>11, <1>12, <1>15

\* There are as many candidates as successes.
LEMMA ListedAll ==
    ASSUME Inv, NEW m \in Nat, NEW c, NEW f, Enumerates(c, m, f)
    PROVE  IsFiniteSet(Successes) /\ Cardinality(Successes) = m
<1>1. c \in [1..m -> Successes] /\ \A n \in Successes : \E k \in 1..m : c[k] = n
  BY DEF Enumerates
<1>2. \A k, l \in 1..m : c[k] = c[l] => k = l
  BY ListedOnce
<1>3. IsFiniteSet(1..m) /\ Cardinality(1..m) = m
  BY FS_Interval
<1>4. PICK S : S = Successes
  OBVIOUS
<1>5. PICK I : I = 1..m
  OBVIOUS
<1>6. IsFiniteSet(S) /\ Cardinality(S) = Cardinality(I)
  BY <1>1, <1>2, <1>3, <1>4, <1>5, SameSize
<1> QED
  BY <1>3, <1>4, <1>5, <1>6

\* n has more support than every success, or as much and a better rank.
Beats(n) ==
    \A o \in Successes :
       \/ Support(o) < Support(n)
       \/ Support(o) = Support(n) /\ Rank(n) <= Rank(o)

\* The candidate that Evaluate finds is the one to serve, and it is a consensus
\* when some answer is.
LEMMA EvaluateElects ==
    ASSUME Inv, Successes # {}
    PROVE  /\ Candidates[Evaluate(Candidates)] \in Successes
           /\ Beats(Candidates[Evaluate(Candidates)])
           /\ ConsensusReached(Candidates, Evaluate(Candidates)) <=>
                 \E n \in Successes : Support(n) >= 2 /\ 2 * Support(n) > Cardinality(Successes)
<1>1. PICK m \in Nat : \E f : Enumerates(Candidates, m, f)
  BY CandidatesListed
<1>2. PICK f : Enumerates(Candidates, m, f)
  BY <1>1
<1>3. PICK c : c = Candidates
  OBVIOUS
<1>4. Enumerates(c, m, f)
  BY <1>2, <1>3
<1>5. c \in [1..m -> Nodes] /\ \A k \in 1..m : c[k] \in Successes
  BY <1>4 DEF Enumerates
<1>6. m # 0
  BY <1>4 DEF Enumerates
<1>7. PICK e : e = Evaluate(c)
  OBVIOUS
<1>8. BestOf(c, e, m)
  BY <1>5, <1>6, <1>7, EvaluateFinds
<1>9. e \in 1..m
  BY <1>8 DEF BestOf
<1>10. \A i \in 1..m : \/ Cardinality(Members(c, i)) < Cardinality(Members(c, e))
                       \/ Cardinality(Members(c, i)) = Cardinality(Members(c, e)) /\ e <= i
  BY <1>5, <1>8, BestBeats
<1>11. \A i \in 1..m : Support(c[i]) = Cardinality(Members(c, i)) /\ Rank(c[i]) = f[i]
  BY <1>4, SupportOf
<1>12. \A i \in 1..m : f[i] \in Int
  <2>1. 1..Len(participants) \subseteq Int
    BY DEF Inv, Typed
  <2> QED
    BY <1>4, <2>1 DEF Enumerates
<1>13. ASSUME NEW i \in 1..m, e <= i
       PROVE  f[e] <= f[i]
  <2>1. CASE e < i
    <3>1. f[e] < f[i]
      BY <1>4, <1>9, <2>1 DEF Enumerates
    <3> QED
      BY <1>9, <1>12, <3>1
  <2>2. CASE e = i
    BY <1>9, <1>12, <2>2
  <2> QED
    BY <1>9, <1>13, <2>1, <2>2
<1>14. \A i \in 1..m : \/ Support(c[i]) < Support(c[e])
                       \/ Support(c[i]) = Support(c[e]) /\ Rank(c[e]) <= Rank(c[i])
  BY <1>9, <1>10, <1>11, <1>13
<1>15. \A o \in Successes : \E i \in 1..m : c[i] = o
  BY <1>4 DEF Enumerates
<1>16. Beats(c[e])
  BY <1>14, <1>15 DEF Beats
<1>17. c[e] \in Successes
  BY <1>5, <1>9
<1>18. Len(c) = m /\ Cardinality(Successes) = m
  BY <1>4, <1>5, SequenceOf, ListedAll
<1>19. \A i \in 1..m : Support(c[i]) \in Nat
  BY <1>5, <1>11, GroupSized
<1>20. ConsensusReached(c, e) <=> Support(c[e]) >= 2 /\ 2 * Support(c[e]) > m
  BY <1>9, <1>11, <1>18, <1>19 DEF ConsensusReached
<1>21. ASSUME NEW n \in Successes, Support(n) >= 2, 2 * Support(n) > m
       PROVE  Support(c[e]) >= 2 /\ 2 * Support(c[e]) > m
  <2>1. PICK i \in 1..m : c[i] = n
    BY <1>15
  <2>2. Support(n) \in Nat /\ Support(c[e]) \in Nat /\ Support(n) <= Support(c[e])
    BY <1>9, <1>14, <1>19, <2>1
  <2> QED
    BY <1>21, <2>2
<1> QED
  BY <1>3, <1>7, <1>16, <1>17, <1>18, <1>20, <1>21

\* A winner that was served stands: no later step of a participant, the timer
\* or the client changes what it was elected from.
Elected == reply = "200" => at = "done" /\ winner \in Successes /\ Beats(winner)

\* What the election depends on.
SameVotes == /\ Successes' = Successes /\ participants' = participants
             /\ \A n \in Successes : outcome'[n] = outcome[n]

\* An election stands while its votes do.
LEMMA ElectionStands ==
    ASSUME SameVotes, NEW w \in Successes, Beats(w)
    PROVE  w \in Successes' /\ Beats(w)'
<1>2. PICK S : S = Successes
  OBVIOUS
<1>3. Successes' = S /\ participants' = participants /\ \A n \in S : outcome'[n] = outcome[n]
  BY <1>2 DEF SameVotes
<1>4. \A n \in S : responseSignature(n)' = responseSignature(n)
  BY <1>3 DEF responseSignature
<1>5. ASSUME NEW n \in S
      PROVE  Support(n)' = Support(n)
  <2>1. {m \in S : responseSignature(m)' = responseSignature(n)'} = {m \in S : responseSignature(m) = responseSignature(n)}
    BY <1>4
  <2> QED
    BY <1>2, <1>3, <2>1 DEF Support
<1>6. ASSUME NEW n
      PROVE  Rank(n)' = Rank(n)
  BY <1>3 DEF Rank
<1>8. w \in S /\ \A o \in S : \/ Support(o) < Support(w)
                              \/ Support(o) = Support(w) /\ Rank(w) <= Rank(o)
  BY <1>2 DEF Beats
<1>9. \A o \in S : \/ Support(o)' < Support(w)'
                   \/ Support(o)' = Support(w)' /\ Rank(w)' <= Rank(o)'
  BY <1>5, <1>6, <1>8
<1>10. Beats(w)'
  BY <1>3, <1>9 DEF Beats
<1> QED
  BY <1>3, <1>8, <1>10

\* The node elected is the winner.
LEMMA WinnerElected ==
    ASSUME NEW w, w \in Successes', Beats(w)', winner' = w, at' = "done"
    PROVE  Elected'
<1>1. Beats(winner)'
  BY DEF Beats, Support, Rank, responseSignature
<1> QED
  BY <1>1 DEF Elected

\* A participant whose outcome was received does nothing more.
LEMMA VotesKept ==
    ASSUME Inv, NEW n \in Nodes, Fetch(n)
    PROVE  SameVotes /\ replyVars' = replyVars /\ at' = at
<1>1. n \notin collected
  BY DEF Inv, Arrived, Fetch, CallRefused, CallFails, CallAnswered, ReadFails, TooLarge, ReadAll
<1>2. /\ collected' = collected /\ participants' = participants
      /\ reply' = reply /\ winner' = winner /\ status' = status /\ at' = at
  BY DEF Fetch, CallRefused, CallFails, CallAnswered, ReadFails, TooLarge, ReadAll, Send, replyVars
<1>3. outcome' = outcome \/ \E o : outcome' = [outcome EXCEPT ![n] = o]
  BY DEF Fetch, CallRefused, CallFails, CallAnswered, ReadFails, TooLarge, ReadAll, Send
<1>4. \A m \in collected : m \in Nodes /\ m # n
  BY <1>1 DEF Inv, Typed
<1>5. \A m \in collected : outcome'[m] = outcome[m]
  BY <1>3, <1>4 DEF Inv, Typed
<1>6. Successes' = Successes
  BY <1>2, <1>5 DEF Successes
<1> QED
  BY <1>2, <1>5, <1>6 DEF SameVotes, Successes, replyVars

LEMMA ElectedInit == Init => Elected
  BY DEF Init, Elected

\* Every step keeps the election.
LEMMA ElectedNext == Inv /\ Elected /\ [Next]_vars => Elected'
<1> SUFFICES ASSUME Inv, Elected, [Next]_vars PROVE Elected'
  OBVIOUS
<1>1. ASSUME reply' # "200" PROVE Elected'
  BY <1>1 DEF Elected
<1>2. ASSUME at # "done" PROVE reply = "none"
  BY <1>2 DEF Inv, Early
<1>3. ASSUME NEW rank \in Rankings, NEW a \in Aliases, NoEligibleNode(rank, a) \/ Route(rank, a)
      PROVE  Elected'
  <2>1. reply' # "200"
    BY <1>2, <1>3 DEF NoEligibleNode, Route, Refuse, replyVars
  <2> QED
    BY <1>1, <2>1
<1>4. ASSUME RejectStreaming \/ FanOut \/ Collect \/ Stop PROVE Elected'
  <2>1. reply' # "200"
    BY <1>2, <1>4 DEF RejectStreaming, FanOut, Collect, Stop, Refuse, replyVars
  <2> QED
    BY <1>1, <2>1
<1>5. ASSUME GiveUp \/ TooFewSuccesses PROVE Elected'
  <2>1. consensusInferenceFailure # "200"
    BY DEF consensusInferenceFailure
  <2>2. reply' # "200"
    BY <1>5, <2>1 DEF GiveUp, TooFewSuccesses, Return
  <2> QED
    BY <1>1, <2>2
<1>6. ASSUME NEW written \in BOOLEAN, Serve(written) PROVE Elected'
  <2>1. /\ Cardinality(Successes) >= required /\ at = "deciding" /\ at' = "done"
        /\ winner' = Candidates[Evaluate(Candidates)]
        /\ participants' = participants /\ outcome' = outcome /\ collected' = collected
    BY <1>6 DEF Serve, Return, callVars
  <2>2. Successes # {}
    <3>1. required \in Nat /\ required >= 1
      BY <2>1 DEF Inv, Typed, FanoutBounded
    <3>2. PICK m \in Nat : \E f : Enumerates(Candidates, m, f)
      BY CandidatesListed
    <3>3. PICK f : Enumerates(Candidates, m, f)
      BY <3>2
    <3>4. Cardinality(Successes) = m /\ (m # 0 => 1 \in 1..m)
      BY <3>3, ListedAll
    <3>5. m # 0
      BY <2>1, <3>1, <3>4
    <3> QED
      BY <3>3, <3>4, <3>5 DEF Enumerates
  <2>3. PICK w : w = Candidates[Evaluate(Candidates)]
    OBVIOUS
  <2>4. w \in Successes /\ Beats(w)
    BY <2>2, <2>3, EvaluateElects
  <2>5. SameVotes
    BY <2>1 DEF SameVotes, Successes
  <2>6. winner' = w
    BY <2>1, <2>3
  <2>7. w \in Successes' /\ Beats(w)'
    BY <2>4, <2>5, ElectionStands
  <2> QED
    BY <2>1, <2>6, <2>7, WinnerElected
<1>7. ASSUME SameVotes, reply' = reply, winner' = winner, at' = at PROVE Elected'
  <2>1. CASE reply' # "200"
    BY <1>1, <2>1
  <2>2. CASE reply' = "200"
    <3>1. PICK w : w = winner
      OBVIOUS
    <3>2. at' = "done" /\ winner' = w /\ w \in Successes /\ Beats(w)
      BY <1>7, <2>2, <3>1 DEF Elected
    <3>3. w \in Successes' /\ Beats(w)'
      BY <1>7, <3>2, ElectionStands
    <3> QED
      BY <3>2, <3>3, WinnerElected
  <2> QED
    BY <2>1, <2>2
<1>8. ASSUME Deadline \/ ClientLeaves \/ CancelSpreads \/ UNCHANGED vars PROVE Elected'
  <2>1. /\ collected' = collected /\ outcome' = outcome /\ participants' = participants
        /\ reply' = reply /\ winner' = winner /\ at' = at
    BY <1>8 DEF Deadline, ClientLeaves, CancelSpreads, vars, callVars, replyVars
  <2>2. SameVotes
    BY <2>1 DEF SameVotes, Successes
  <2> QED
    BY <1>7, <2>1, <2>2
<1>9. ASSUME NEW n \in Nodes, Fetch(n) PROVE Elected'
  <2>1. SameVotes /\ replyVars' = replyVars /\ at' = at
    BY <1>9, VotesKept
  <2>2. reply' = reply /\ winner' = winner
    BY <2>1 DEF replyVars
  <2> QED
    BY <1>7, <2>1, <2>2
<1> QED
  BY <1>3, <1>4, <1>5, <1>6, <1>8, <1>9 DEF Next, Handle, Proceed

\* WinnerIsPlurality, of the answer marshalProxy serves: for every fleet, ranking
\* and alias, and in whatever order outcomes, deadline and client come, the
\* answer served has the most support of those received in time, of the best
\* ranked node that gave it, and is reported as a consensus exactly when some
\* answer has a strict majority of two or more (Evaluate in engine.go).
THEOREM PluralityWins == Spec => []WinnerIsPlurality
<1>1. Inv /\ Elected => WinnerIsPlurality
  <2> SUFFICES ASSUME Inv, Elected, reply = "200" PROVE WinnerIsPlurality
    BY DEF WinnerIsPlurality
  <2>1. winner \in Successes /\ Beats(winner)
    BY DEF Elected
  <2>2. ConsensusReached(Candidates, Evaluate(Candidates)) <=>
           \E n \in Successes : Support(n) >= 2 /\ 2 * Support(n) > Cardinality(Successes)
    BY <2>1, EvaluateElects
  <2> QED
    BY <2>1, <2>2 DEF WinnerIsPlurality, Beats
<1>2. Spec => []Elected
  BY ConsensusCorrect, ElectedInit, ElectedNext, PTL DEF Spec
<1> QED
  BY <1>1, <1>2, ConsensusCorrect, PTL

\* The types of the answer.
Answered ==
    /\ reply \in {"none", "no_eligible_node", "streaming_unsupported", "upstream_4xx", "502", "504", "200"}
    /\ winner \in Nodes \union {NoNode}
    /\ status \in {"active", "completed", "failed", "cancelled", "partial"}

\* Type correctness of a consensus request: the winner, an entry of a list that
\* Evaluate indexes, is always a node, and a failure one of the eight reasons
\* (consensus.go:21-30).
THEOREM ConsensusTyped == Spec => []TypeOK
<1>1. Init => Answered
  BY DEF Init, Answered
<1>2. Inv /\ Elected' /\ Answered /\ [Next]_vars => Answered'
  <2> SUFFICES ASSUME Inv, Elected', Answered, [Next]_vars PROVE Answered'
    OBVIOUS
  <2>1. ASSUME UNCHANGED <<reply, winner, status>> PROVE Answered'
    BY <2>1 DEF Answered
  <2>2. ASSUME NEW rank \in Rankings, NEW a \in Aliases, NoEligibleNode(rank, a) \/ Route(rank, a)
        PROVE  Answered'
    BY <2>2 DEF NoEligibleNode, Route, Refuse, replyVars, Answered
  <2>3. ASSUME RejectStreaming \/ FanOut \/ Collect \/ Stop PROVE Answered'
    BY <2>3 DEF RejectStreaming, FanOut, Collect, Stop, Refuse, replyVars, Answered
  <2>4. ASSUME GiveUp \/ TooFewSuccesses PROVE Answered'
    <3>1. consensusInferenceFailure \in {"upstream_4xx", "502", "504"}
      BY DEF consensusInferenceFailure
    <3> QED
      BY <2>4, <3>1 DEF GiveUp, TooFewSuccesses, Return, Answered
  <2>5. ASSUME NEW written \in BOOLEAN, Serve(written) PROVE Answered'
    <3>1. /\ reply' = "200" /\ status' \in {"completed", "partial"} /\ collected' = collected
      BY <2>5 DEF Serve, Return
    <3>2. winner' \in Successes'
      BY <3>1 DEF Elected
    <3>3. winner' \in Nodes
      BY <3>1, <3>2 DEF Inv, Typed, Successes
    <3> QED
      BY <3>1, <3>3 DEF Answered
  <2>6. ASSUME Deadline \/ ClientLeaves \/ CancelSpreads \/ UNCHANGED vars PROVE Answered'
    BY <2>1, <2>6 DEF Deadline, ClientLeaves, CancelSpreads, vars, replyVars
  <2>7. ASSUME NEW n \in Nodes, Fetch(n) PROVE Answered'
    BY <2>1, <2>7, VotesKept DEF replyVars
  <2> QED
    BY <2>2, <2>3, <2>4, <2>5, <2>6, <2>7 DEF Next, Handle, Proceed
<1>3. Inv /\ Answered => TypeOK
  BY DEF Inv, Typed, Answered, TypeOK
<1>4. Spec => []Elected
  BY ConsensusCorrect, ElectedInit, ElectedNext, PTL DEF Spec
<1> QED
  BY <1>1, <1>2, <1>3, <1>4, ConsensusCorrect, PTL DEF Spec

--------------------------------------------------------------------------------
(* Routing: the decision. *)

FleetTyped == fleet \in [NodeIds -> Rec \cup {NoRec}]

\* The walk over the map lists every node of the store once.
LEMMA KnownNodes ==
    ASSUME FleetTyped, NEW order \in Orders
    PROVE  \E m \in Nat :
             /\ Known(order) \in [1..m -> NodeIds]
             /\ Distinct(Known(order))
             /\ \A k \in 1..m : fleet[Known(order)[k]] # NoRec
             /\ \A n \in NodeIds : fleet[n] # NoRec => \E k \in 1..m : Known(order)[k] = n
<1>1. order \in Seq(NodeIds) /\ Distinct(order) /\ \A n \in NodeIds : \E i \in DOMAIN order : order[i] = n
  BY RoutingAssumption
<1>2. PICK n \in Nat : n = Len(order)
  BY <1>1
<1>3. order \in [1..n -> NodeIds] /\ DOMAIN order = 1..n
  BY <1>1, <1>2
<1>4. PICK I \in SUBSET (1..n) : I = {i \in DOMAIN order : fleet[order[i]] # NoRec}
  BY <1>3
<1>5. Known(order) = Kept(order, I)
  BY <1>4 DEF Known
<1>6. PICK m \in Nat :
             /\ Known(order) \in [1..m -> NodeIds]
             /\ Distinct(Known(order))
             /\ \A k \in 1..m : \E i \in I : Known(order)[k] = order[i]
             /\ \A i \in I : \E k \in 1..m : Known(order)[k] = order[i]
  <2>1. PICK t : t = Known(order)
    OBVIOUS
  <2>2. Excerpt(t, order, I, NodeIds)
    BY <1>1, <1>3, <1>5, <2>1, KeptDistinct
  <2>3. PICK m \in Nat :
             /\ t \in [1..m -> NodeIds]
             /\ Distinct(t)
             /\ \A k \in 1..m : \E i \in I : t[k] = order[i]
             /\ \A i \in I : \E k \in 1..m : t[k] = order[i]
    BY <2>2 DEF Excerpt
  <2> QED
    BY <2>1, <2>3
<1>7. \A k \in 1..m : fleet[Known(order)[k]] # NoRec
  BY <1>4, <1>5, <1>6
<1>8. \A x \in NodeIds : fleet[x] # NoRec => \E k \in 1..m : Known(order)[k] = x
  <2> SUFFICES ASSUME NEW x \in NodeIds, fleet[x] # NoRec
               PROVE  \E k \in 1..m : Known(order)[k] = x
    OBVIOUS
  <2>1. PICK i \in DOMAIN order : order[i] = x
    BY <1>1
  <2>2. i \in I
    BY <1>4, <2>1
  <2> QED
    BY <1>5, <1>6, <2>1, <2>2
<1> QED
  BY <1>5, <1>6, <1>7, <1>8

Entry == [id: NodeIds, rec: Rec]
Present(n) == fleet[n] # NoRec \/ \E i \in DOMAIN Subscribers : Subscribers[i] = n

\* Every node that the decision may know of, once, with its record.
IsRoster(list) ==
    /\ \E m \in Nat : list \in [1..m -> Entry]
    /\ \A i \in DOMAIN list : list[i].rec = RecordOf(list[i].id) /\ Present(list[i].id)
    /\ \A i, j \in DOMAIN list : list[i].id = list[j].id => i = j
    /\ \A n \in NodeIds : Present(n) => \E i \in DOMAIN list : list[i].id = n

\* A configured subscriber has a record like the others.
LEMMA ConfiguredTyped == Configured \in Rec
<1>1. Window + 1 \in Nat
  BY RoutingAssumption
<1>2. 0 \in Ages
  BY <1>1 DEF Ages
<1>3. <<>> \in Seq(Result)
  OBVIOUS
<1>4. "configured" \in Statuses /\ "lan_trusted" \in Trusts
  BY DEF Statuses, Trusts
<1>5. PICK r : r = Subscriber("configured", "lan_trusted", FALSE, {}, FALSE)
  OBVIOUS
<1>6. r \in Rec
  BY <1>2, <1>3, <1>4, <1>5 DEF Subscriber, Rec
<1>7. Configured = [r EXCEPT !.approval = "approved"]
  BY <1>5 DEF Configured
<1> QED
  BY <1>6, <1>7 DEF Rec

\* Store and configuration file together list every node once.
LEMMA ListedRoster ==
    ASSUME FleetTyped, NEW order \in Orders
    PROVE  IsRoster(Listed(Known(order)))
<1>1. PICK known : known = Known(order)
  OBVIOUS
<1>2. PICK m \in Nat :
             /\ known \in [1..m -> NodeIds]
             /\ Distinct(known)
             /\ \A k \in 1..m : fleet[known[k]] # NoRec
             /\ \A n \in NodeIds : fleet[n] # NoRec => \E k \in 1..m : known[k] = n
  BY <1>1, KnownNodes
<1>3. PICK len \in Nat : Subscribers \in [1..len -> NodeIds] /\ DOMAIN Subscribers = 1..len
  BY RoutingAssumption
<1>4. PICK I \in SUBSET (1..len) : I = {i \in DOMAIN Subscribers : fleet[Subscribers[i]] = NoRec}
  BY <1>3
<1>5. PICK unknown : unknown = Kept(Subscribers, I)
  OBVIOUS
<1>6. PICK u \in Nat :
             /\ unknown \in [1..u -> NodeIds]
             /\ Distinct(unknown)
             /\ \A k \in 1..u : \E i \in I : unknown[k] = Subscribers[i]
             /\ \A i \in I : \E k \in 1..u : unknown[k] = Subscribers[i]
  <2>1. Excerpt(unknown, Subscribers, I, NodeIds)
    BY <1>3, <1>5, KeptDistinct, RoutingAssumption
  <2> QED
    BY <2>1 DEF Excerpt
<1>7. \A k \in 1..u : fleet[unknown[k]] = NoRec /\ \E i \in DOMAIN Subscribers : Subscribers[i] = unknown[k]
  BY <1>3, <1>4, <1>6
<1>8. PICK a : a = [i \in 1..m |-> [id |-> known[i], rec |-> fleet[known[i]]]]
  OBVIOUS
<1>9. PICK b : b = [i \in 1..u |-> [id |-> unknown[i], rec |-> Configured]]
  OBVIOUS
<1>10. a \in [1..m -> Entry]
  BY <1>2, <1>8 DEF Entry, FleetTyped
<1>11. b \in [1..u -> Entry]
  BY <1>6, <1>9, ConfiguredTyped DEF Entry
<1>12. PICK list : list = a \o b
  OBVIOUS
<1>13. Listed(Known(order)) = list
  BY <1>1, <1>2, <1>4, <1>5, <1>6, <1>8, <1>9, <1>12 DEF Listed
<1>14. /\ list \in [1..m + u -> Entry] /\ m + u \in Nat /\ DOMAIN list = 1..m + u
       /\ \A i \in 1..m : list[i] = a[i]
       /\ \A i \in 1..m + u : i > m => i - m \in 1..u /\ list[i] = b[i - m]
  <2>1. a \in Seq(Entry) /\ Len(a) = m /\ b \in Seq(Entry) /\ Len(b) = u
    BY <1>10, <1>11, SequenceOf
  <2>2. list \in Seq(Entry) /\ Len(list) = m + u
    <3>1. a \o b \in Seq(Entry)
      BY <2>1
    <3>2. Len(a \o b) = m + u
      BY <2>1
    <3> QED
      BY <1>12, <3>1, <3>2
  <2>3. list \in [1..m + u -> Entry] /\ DOMAIN list = 1..m + u
    BY <2>2, FunctionOf
  <2>4. \A i \in 1..m : list[i] = a[i]
    BY <1>12, <2>1
  <2>5. \A i \in 1..m + u : i > m => i - m \in 1..u /\ list[i] = b[i - m]
    BY <1>12, <2>1
  <2> QED
    BY <2>3, <2>4, <2>5
<1>15. \A i \in 1..m : i \in 1..m + u /\ list[i].id = known[i] /\ list[i].rec = fleet[known[i]]
  BY <1>8, <1>14
<1>16. \A i \in 1..m + u : i > m => /\ i - m \in 1..u /\ list[i].id = unknown[i - m]
                                    /\ list[i].rec = Configured
  <2> SUFFICES ASSUME NEW i \in 1..m + u, i > m
               PROVE  i - m \in 1..u /\ list[i].id = unknown[i - m] /\ list[i].rec = Configured
    OBVIOUS
  <2>1. PICK j \in 1..u : j = i - m /\ list[i] = b[j]
    BY <1>14
  <2>2. b[j].id = unknown[j] /\ b[j].rec = Configured
    BY <1>9
  <2> QED
    BY <2>1, <2>2
<1>17. \A i \in 1..m + u : i \in 1..m \/ i > m
  OBVIOUS
<1>18. \A i \in DOMAIN list : list[i].rec = RecordOf(list[i].id) /\ Present(list[i].id)
  BY <1>2, <1>7, <1>14, <1>15, <1>16, <1>17 DEF RecordOf, Present
<1>19. \A i, j \in DOMAIN list : list[i].id = list[j].id => i = j
  <2> SUFFICES ASSUME NEW i \in 1..m + u, NEW j \in 1..m + u, list[i].id = list[j].id
               PROVE  i = j
    BY <1>14
  <2>1. CASE i \in 1..m /\ j \in 1..m
    BY <1>2, <1>15, <2>1 DEF Distinct
  <2>2. CASE i > m /\ j > m
    <3>1. i - m \in 1..u /\ j - m \in 1..u /\ unknown[i - m] = unknown[j - m]
      BY <1>16, <2>2
    <3>2. i - m = j - m
      BY <1>6, <3>1 DEF Distinct
    <3> QED
      BY <3>2
  <2>3. CASE i \in 1..m /\ j > m
    BY <1>2, <1>7, <1>15, <1>16, <2>3
  <2>4. CASE i > m /\ j \in 1..m
    BY <1>2, <1>7, <1>15, <1>16, <2>4
  <2> QED
    BY <2>1, <2>2, <2>3, <2>4
<1>20. \A n \in NodeIds : Present(n) => \E i \in DOMAIN list : list[i].id = n
  <2> SUFFICES ASSUME NEW n \in NodeIds, Present(n) PROVE \E i \in 1..m + u : list[i].id = n
    BY <1>14
  <2>1. CASE fleet[n] # NoRec
    BY <1>2, <1>15, <2>1
  <2>2. CASE fleet[n] = NoRec
    <3>1. PICK i \in I : Subscribers[i] = n
      BY <1>4, <2>2 DEF Present
    <3>2. PICK k \in 1..u : unknown[k] = n
      BY <1>6, <3>1
    <3>3. PICK j : j = m + k
      OBVIOUS
    <3>4. j \in 1..m + u /\ j > m /\ j - m = k
      BY <3>2, <3>3
    <3> QED
      BY <1>16, <3>2, <3>4
  <2> QED
    BY <2>1, <2>2
<1>21. \E x \in Nat : list \in [1..x -> Entry]
  BY <1>14
<1> QED
  BY <1>13, <1>18, <1>19, <1>20, <1>21 DEF IsRoster

\* Consensus adds the same to the score of every managed node.
LEMMA ScoreTyped ==
    ASSUME NEW r \in Rec
    PROVE  /\ \A c \in BOOLEAN : Score(r, c) \in Int
           /\ r.control = "managed" => Score(r, TRUE) = Score(r, FALSE) + 20
<1>1. PICK n \in Nat : n = Cardinality(r.models)
  <2>1. r.models \in SUBSET Models
    BY DEF Rec
  <2>2. IsFiniteSet(r.models)
    BY <2>1, FS_Subset, RoutingAssumption
  <2> QED
    BY <2>2, FS_CardinalityType
<1>2. r.jobs \in Int /\ r.heavy \in Int
  BY DEF Rec
<1>3. PICK t \in Int : t = (CASE r.trust = "local" -> 20 [] r.trust = "lan_trusted" -> 10
                              [] r.trust = "lan_unverified" -> -40 [] OTHER -> -1000)
  OBVIOUS
<1> QED
  BY <1>1, <1>2, <1>3 DEF Score

\* A rate that counts is a natural number.
LEMMA PlacementTyped ==
    ASSUME NEW r \in Rec, NEW model
    PROVE  Placement(r, model) \in Nat
<1>1. r.results \in Seq(Result)
  BY DEF Rec
<1>2. \A i \in DOMAIN r.results : r.results[i].rate \in Nat
  <2>1. PICK list \in Seq(Result) : list = r.results
    BY <1>1
  <2>2. \A i \in DOMAIN list : list[i] \in Result
    BY <2>1
  <2>3. \A x \in Result : x.rate \in Nat
    BY DEF Result
  <2> QED
    BY <2>1, <2>2, <2>3
<1>3. PICK good : good = {i \in Latest(r.results, model) :
                            r.results[i].done /\ r.results[i].age <= BenchWindow}
  OBVIOUS
<1>4. good \subseteq DOMAIN r.results
  BY <1>3 DEF Latest
<1>5. good # {} => (CHOOSE i \in good : TRUE) \in good
  OBVIOUS
<1>6. good # {} => r.results[CHOOSE i \in good : TRUE].rate \in Nat
  BY <1>2, <1>4, <1>5
<1> QED
  BY <1>3, <1>6 DEF Placement

\* The order of the first sort.
Better(a, b, c) ==
    \/ Score(a.rec, c) > Score(b.rec, c)
    \/ Score(a.rec, c) = Score(b.rec, c) /\ a.id < b.id

\* The first sort lists the same nodes, in its order.
LEMMA ByScoreRoster ==
    ASSUME FleetTyped, NEW c \in BOOLEAN, NEW list, IsRoster(list)
    PROVE  /\ IsRoster(ByScore(c, list))
           /\ \A i, j \in DOMAIN ByScore(c, list) :
                i < j => Better(ByScore(c, list)[i], ByScore(c, list)[j], c)
<1>1. PICK m \in Nat : list \in [1..m -> Entry] /\ DOMAIN list = 1..m
  BY DEF IsRoster
<1>2. list \in Seq(Entry) /\ Len(list) = m
  BY <1>1, SequenceOf
<1>3. PICK I : I = 1..m
  OBVIOUS
<1>4. PICK R : R = {p \in I \X I : Better(list[p[1]], list[p[2]], c)}
  OBVIOUS
<1>5. ByScore(c, list) = Arranged(list, I, R)
  BY <1>2, <1>3, <1>4 DEF ByScore, Better
<1>6. \A i \in I : list[i].id \in Int /\ Score(list[i].rec, c) \in Int
  <2> TAKE i \in I
  <2>1. list[i] \in Entry
    BY <1>1, <1>3
  <2>2. list[i].id \in NodeIds /\ list[i].rec \in Rec
    BY <2>1 DEF Entry
  <2> QED
    BY <2>2, ScoreTyped, RoutingAssumption
<1>7. \A i, j \in I : i # j => list[i].id # list[j].id
  BY <1>1, <1>3 DEF IsRoster
<1>8. StrictOrder(I, R)
  <2>1. \A i \in I : <<i, i>> \notin R
    BY <1>4, <1>6 DEF Better
  <2>2. \A i, j, k \in I : <<i, j>> \in R /\ <<j, k>> \in R => <<i, k>> \in R
    BY <1>4, <1>6 DEF Better
  <2>3. \A i, j \in I : i # j => <<i, j>> \in R \/ <<j, i>> \in R
    BY <1>4, <1>6, <1>7 DEF Better
  <2> QED
    BY <2>1, <2>2, <2>3 DEF StrictOrder
<1>9. IsFiniteSet(I)
  BY <1>3, FS_Interval
<1>10. PICK t : t = ByScore(c, list)
  OBVIOUS
<1>11. PICK n \in Nat : \E f : Takes(t, list, I, n, f) /\ Ascending(n, f, R)
  BY <1>5, <1>8, <1>9, <1>10, Arrangement
<1>11a. PICK f : Takes(t, list, I, n, f) /\ Ascending(n, f, R)
  BY <1>11
<1>12. DOMAIN t = 1..n /\ \A k \in 1..n : f[k] \in I /\ t[k] = list[f[k]] /\ t[k] \in Entry
  BY <1>1, <1>3, <1>11a DEF Takes
<1>13. t \in [1..n -> Entry]
  BY <1>11a, <1>12 DEF Takes
<1>14. \A k, l \in 1..n : k < l => Better(t[k], t[l], c) /\ f[k] # f[l]
  <2> SUFFICES ASSUME NEW k \in 1..n, NEW l \in 1..n, k < l
               PROVE  Better(t[k], t[l], c) /\ f[k] # f[l]
    OBVIOUS
  <2>1. <<f[k], f[l]>> \in R
    BY <1>11a DEF Ascending
  <2> QED
    BY <1>4, <1>8, <1>12, <2>1 DEF StrictOrder
<1>15. \A k \in 1..n : t[k].rec = RecordOf(t[k].id) /\ Present(t[k].id)
  BY <1>1, <1>3, <1>12 DEF IsRoster
<1>16. \A k, l \in 1..n : t[k].id = t[l].id => k = l
  <2> SUFFICES ASSUME NEW k \in 1..n, NEW l \in 1..n, t[k].id = t[l].id
               PROVE  k = l
    OBVIOUS
  <2>1. f[k] = f[l]
    BY <1>7, <1>12
  <2> QED
    BY <1>14, <2>1
<1>17. \A x \in NodeIds : Present(x) => \E k \in 1..n : t[k].id = x
  <2> SUFFICES ASSUME NEW x \in NodeIds, Present(x) PROVE \E k \in 1..n : t[k].id = x
    OBVIOUS
  <2>1. PICK i \in I : list[i].id = x
    BY <1>1, <1>3 DEF IsRoster
  <2>2. PICK k \in 1..n : f[k] = i
    BY <1>11a DEF Takes
  <2> QED
    BY <1>12, <2>1, <2>2
<1>18. IsRoster(t)
  <2>1. \E x \in Nat : t \in [1..x -> Entry]
    BY <1>13
  <2> QED
    BY <1>12, <1>15, <1>16, <1>17, <2>1 DEF IsRoster
<1> QED
  BY <1>10, <1>12, <1>14, <1>18

Fits(r, model, c) == Eligible(r, c) /\ Serves(r, model)

\* The order of the second sort, which keeps that of the first.
Ahead(a, b, model, c) ==
    \/ Placement(a.rec, model) > Placement(b.rec, model)
    \/ Placement(a.rec, model) = Placement(b.rec, model) /\ Better(a, b, c)

\* t has every node that may serve the model, each before those it is ahead of.
Ranked(t, model, c) ==
    /\ \E m \in Nat : t \in [1..m -> Entry]
    /\ \A k \in DOMAIN t : /\ t[k].rec = RecordOf(t[k].id) /\ Present(t[k].id)
                           /\ Fits(t[k].rec, model, c)
    /\ \A n \in NodeIds : Present(n) /\ Fits(RecordOf(n), model, c) => \E k \in DOMAIN t : t[k].id = n
    /\ \A k, l \in DOMAIN t : k < l => Ahead(t[k], t[l], model, c)

\* The filter and the second sort rank the candidates for a model.
LEMMA CandidatesRanked ==
    ASSUME FleetTyped, NEW c \in BOOLEAN, NEW model, NEW list, IsRoster(list),
           \A i, j \in DOMAIN list : i < j => Better(list[i], list[j], c)
    PROVE  Ranked(CandidatesFor(model, c, list), model, c)
<1>1. PICK m \in Nat : list \in [1..m -> Entry] /\ DOMAIN list = 1..m
  BY DEF IsRoster
<1>2. PICK I \in SUBSET (1..m) : I = {i \in DOMAIN list : Eligible(list[i].rec, c) /\ Serves(list[i].rec, model)}
  BY <1>1
<1>3. PICK R : R = {p \in I \X I :
                      \/ Placement(list[p[1]].rec, model) > Placement(list[p[2]].rec, model)
                      \/ Placement(list[p[1]].rec, model) = Placement(list[p[2]].rec, model) /\ p[1] < p[2]}
  OBVIOUS
<1>4. CandidatesFor(model, c, list) = Arranged(list, I, R)
  BY <1>2, <1>3 DEF CandidatesFor, ByPlacement
<1>5. \A i \in I : i \in 1..m /\ Placement(list[i].rec, model) \in Int
  <2> TAKE i \in I
  <2>1. list[i] \in Entry
    BY <1>1
  <2>2. list[i].rec \in Rec
    BY <2>1 DEF Entry
  <2> QED
    BY <2>2, PlacementTyped
<1>6. StrictOrder(I, R)
  <2>1. \A i \in I : <<i, i>> \notin R
    BY <1>3, <1>5
  <2>2. \A i, j, k \in I : <<i, j>> \in R /\ <<j, k>> \in R => <<i, k>> \in R
    BY <1>3, <1>5
  <2>3. \A i, j \in I : i # j => <<i, j>> \in R \/ <<j, i>> \in R
    BY <1>3, <1>5
  <2> QED
    BY <2>1, <2>2, <2>3 DEF StrictOrder
<1>7. IsFiniteSet(I)
  BY PositionsFinite
<1>8. PICK t : t = CandidatesFor(model, c, list)
  OBVIOUS
<1>9. PICK n \in Nat : \E f : Takes(t, list, I, n, f) /\ Ascending(n, f, R)
  BY <1>4, <1>6, <1>7, <1>8, Arrangement
<1>9a. PICK f : Takes(t, list, I, n, f) /\ Ascending(n, f, R)
  BY <1>9
<1>10. DOMAIN t = 1..n /\ \A k \in 1..n : f[k] \in I /\ f[k] \in 1..m /\ t[k] = list[f[k]] /\ t[k] \in Entry
  BY <1>1, <1>9a DEF Takes
<1>11. \E x \in Nat : t \in [1..x -> Entry]
  BY <1>9a, <1>10 DEF Takes
<1>12. \A k \in 1..n : /\ t[k].rec = RecordOf(t[k].id) /\ Present(t[k].id)
                       /\ Fits(t[k].rec, model, c)
  BY <1>1, <1>2, <1>10 DEF IsRoster, Fits
<1>13. \A k, l \in 1..n : k < l => Ahead(t[k], t[l], model, c)
  <2> SUFFICES ASSUME NEW k \in 1..n, NEW l \in 1..n, k < l
               PROVE  Ahead(t[k], t[l], model, c)
    OBVIOUS
  <2>1. <<f[k], f[l]>> \in R
    BY <1>9a DEF Ascending
  <2>2. f[k] < f[l] => Better(t[k], t[l], c)
    BY <1>1, <1>10
  <2> QED
    BY <1>3, <1>10, <2>1, <2>2 DEF Ahead
<1>14. ASSUME NEW x \in NodeIds, Present(x), Fits(RecordOf(x), model, c)
       PROVE  \E k \in 1..n : t[k].id = x
  <2>1. PICK i \in 1..m : list[i].id = x /\ list[i].rec = RecordOf(x)
    BY <1>1, <1>14 DEF IsRoster
  <2>2. i \in I
    BY <1>1, <1>2, <1>14, <2>1 DEF Fits
  <2>3. PICK k \in 1..n : f[k] = i
    BY <1>9a, <2>2 DEF Takes
  <2> QED
    BY <1>10, <2>1, <2>3
<1> QED
  BY <1>8, <1>10, <1>11, <1>12, <1>13, <1>14 DEF Ranked

\* A decision: for the first model that some node can serve.
IsDecided(d, q) ==
    \/ /\ d.ids = <<>> /\ d.model = 0
       /\ \A k \in DOMAIN q.wanted, n \in NodeIds :
            ~(Present(n) /\ Fits(RecordOf(n), q.wanted[k], q.consensus))
    \/ \E k \in DOMAIN q.wanted : \E t :
         /\ d.model = q.wanted[k] /\ Ranked(t, d.model, q.consensus) /\ t # <<>>
         /\ d.ids = [i \in DOMAIN t |-> t[i].id]
         /\ \A l \in DOMAIN q.wanted, n \in NodeIds :
              l < k => ~(Present(n) /\ Fits(RecordOf(n), q.wanted[l], q.consensus))

\* A ranking is empty if and only if no node can serve the model.
LEMMA RankedEmpty ==
    ASSUME NEW model, NEW c, NEW t, Ranked(t, model, c)
    PROVE  t = <<>> <=> \A n \in NodeIds : ~(Present(n) /\ Fits(RecordOf(n), model, c))
<1>1. PICK m \in Nat : t \in [1..m -> Entry] /\ DOMAIN t = 1..m
  BY DEF Ranked
<1>2. t \in Seq(Entry) /\ Len(t) = m
  BY <1>1, SequenceOf
<1>3. CASE m = 0
  <2>1. t = <<>> /\ DOMAIN t = {}
    BY <1>1, <1>2, <1>3
  <2> QED
    BY <2>1 DEF Ranked
<1>4. CASE m # 0
  <2>1. 1 \in DOMAIN t /\ t # <<>>
    BY <1>1, <1>2, <1>4
  <2>2. t[1].id \in NodeIds /\ Present(t[1].id) /\ Fits(RecordOf(t[1].id), model, c)
    BY <1>1, <2>1 DEF Ranked, Entry
  <2> QED
    BY <2>1, <2>2
<1> QED
  BY <1>3, <1>4

\* Select decides for the first model that some node can serve.
LEMMA SelectedDecides ==
    ASSUME FleetTyped, NEW q \in Request, NEW order \in Orders
    PROVE  IsDecided(Selected(q, Known(order)), q)
<1>1. q.wanted \in Seq(Models) /\ q.consensus \in BOOLEAN
  BY DEF Request
<1>2. PICK list : list = ByScore(q.consensus, Listed(Known(order)))
  OBVIOUS
<1>3. IsRoster(list) /\ \A i, j \in DOMAIN list : i < j => Better(list[i], list[j], q.consensus)
  BY <1>1, <1>2, ListedRoster, ByScoreRoster
<1>4. \A k \in DOMAIN q.wanted :
        Ranked(CandidatesFor(q.wanted[k], q.consensus, list), q.wanted[k], q.consensus)
  BY <1>1, <1>3, CandidatesRanked
<1>5. \A k \in DOMAIN q.wanted :
        CandidatesFor(q.wanted[k], q.consensus, list) = <<>> <=>
          \A n \in NodeIds : ~(Present(n) /\ Fits(RecordOf(n), q.wanted[k], q.consensus))
  BY <1>4, RankedEmpty
<1>6. PICK found : found = {k \in DOMAIN q.wanted : CandidatesFor(q.wanted[k], q.consensus, list) # <<>>}
  OBVIOUS
<1>7. PICK first : first = CHOOSE k \in found : \A l \in found : k <= l
  OBVIOUS
<1>8. PICK d : d = Selected(q, Known(order))
  OBVIOUS
<1>9. CASE found = {}
  <2>1. d = [model |-> 0, ids |-> <<>>]
    BY <1>2, <1>6, <1>8, <1>9 DEF Selected
  <2>2. d.ids = <<>> /\ d.model = 0
    BY <2>1
  <2>3. \A k \in DOMAIN q.wanted, n \in NodeIds :
            ~(Present(n) /\ Fits(RecordOf(n), q.wanted[k], q.consensus))
    BY <1>5, <1>6, <1>9
  <2> QED
    BY <1>8, <2>2, <2>3 DEF IsDecided
<1>10. CASE found # {}
  <2>1. found \subseteq Nat
    BY <1>1, <1>6
  <2>2. first \in found /\ \A l \in found : first <= l
    BY <1>7, <1>10, <2>1, LeastOf
  <2>3. PICK t : t = CandidatesFor(q.wanted[first], q.consensus, list)
    OBVIOUS
  <2>4. d = [model |-> q.wanted[first], ids |-> [i \in DOMAIN t |-> t[i].id]]
    BY <1>2, <1>6, <1>7, <1>8, <1>10, <2>3 DEF Selected
  <2>5. d.model = q.wanted[first] /\ d.ids = [i \in DOMAIN t |-> t[i].id]
    BY <2>4
  <2>6. first \in DOMAIN q.wanted /\ t # <<>>
    BY <1>6, <2>2, <2>3
  <2>7. Ranked(t, d.model, q.consensus)
    BY <1>4, <2>3, <2>5, <2>6
  <2>8. \A l \in DOMAIN q.wanted, n \in NodeIds :
          l < first => ~(Present(n) /\ Fits(RecordOf(n), q.wanted[l], q.consensus))
    <3> SUFFICES ASSUME NEW l \in DOMAIN q.wanted, l < first, NEW n \in NodeIds
                 PROVE  ~(Present(n) /\ Fits(RecordOf(n), q.wanted[l], q.consensus))
      OBVIOUS
    <3>1. l \in Nat /\ first \in Nat
      BY <1>1, <2>6
    <3>2. l \notin found
      BY <2>2, <3>1
    <3> QED
      BY <1>5, <1>6, <3>2
  <2> QED
    BY <1>8, <2>5, <2>6, <2>7, <2>8 DEF IsDecided
<1> QED
  BY <1>9, <1>10

--------------------------------------------------------------------------------
(* Routing: the invariant. *)

\* A node's record and the age of its last sign of life: who ever gave one is a
\* managed node that must, and the record has its age.
Sound(r, b) ==
    /\ r # NoRec => r \in Rec /\ Len(r.results) <= MaxResults
    /\ b \in Ages \cup {Never}
    /\ b # Never => r # NoRec /\ r.required /\ r.control = "managed" /\ b = r.heard

Outcome(q, order) ==
    [wanted |-> q.wanted, consensus |-> q.consensus,
     model |-> Selected(q, Known(order)).model, ids |-> Selected(q, Known(order)).ids]

Fresh == decision = NoDecision \/ \E q \in Requests, order \in Orders : decision = Outcome(q, order)

RoutingInv ==
    /\ fleet \in [NodeIds -> Rec \cup {NoRec}]
    /\ beats \in [NodeIds -> Ages \cup {Never}]
    /\ \A n \in NodeIds : Sound(fleet[n], beats[n])
    /\ events \in 0 .. MaxEvents
    /\ Fresh

\* Ages stay in their range.
LEMMA AgeTyped ==
    /\ 0 \in Ages /\ Never \notin Ages
    /\ \A a \in Ages : Older(a, Window) \in Ages
    /\ \A a \in ResultAges : Older(a, BenchWindow) \in ResultAges
<1>1. Window \in Nat /\ BenchWindow \in Nat
  BY RoutingAssumption
<1> QED
  BY <1>1 DEF Ages, ResultAges, Never, Older

\* A sound record may be stored.
LEMMA PutKeeps ==
    ASSUME RoutingInv, NEW n \in NodeIds, NEW r \in Rec, NEW b, Sound(r, b),
           Put(n, r), beats' = [beats EXCEPT ![n] = b]
    PROVE  RoutingInv'
<1>1. /\ fleet \in [NodeIds -> Rec \cup {NoRec}]
      /\ beats \in [NodeIds -> Ages \cup {Never}]
      /\ \A x \in NodeIds : Sound(fleet[x], beats[x])
  BY DEF RoutingInv
<1>2. fleet' = [fleet EXCEPT ![n] = r] /\ decision' = NoDecision
  BY DEF Put
<1>3. fleet' \in [NodeIds -> Rec \cup {NoRec}]
  BY <1>1, <1>2
<1>4. b \in Ages \cup {Never}
  BY DEF Sound
<1>5. beats' \in [NodeIds -> Ages \cup {Never}]
  BY <1>1, <1>4
<1>6. \A x \in NodeIds : Sound(fleet'[x], beats'[x])
  BY <1>1, <1>2
<1>7. events' \in 0 .. MaxEvents
  BY RoutingAssumption DEF Put, RoutingInv
<1>8. Fresh'
  BY <1>2 DEF Fresh
<1> QED
  BY <1>3, <1>5, <1>6, <1>7, <1>8 DEF RoutingInv

\* The same if nothing is heard from the node.
LEMMA PutSilent ==
    ASSUME RoutingInv, NEW n \in NodeIds, NEW r \in Rec, Sound(r, beats[n]),
           Put(n, r), UNCHANGED beats
    PROVE  RoutingInv'
<1>1. beats' = [beats EXCEPT ![n] = beats[n]]
  BY DEF RoutingInv
<1>2. PICK b : b = beats[n]
  OBVIOUS
<1> QED
  BY <1>1, <1>2, PutKeeps

\* A subscriber enters the store with a record of its type.
LEMMA SubscriberSound ==
    ASSUME NEW condition \in Statuses, NEW trust \in Trusts, NEW ollama \in BOOLEAN,
           NEW models \in SUBSET Models, NEW duty \in BOOLEAN, NEW r,
           r = Subscriber(condition, trust, ollama, models, duty)
    PROVE  r \in Rec /\ Len(r.results) <= MaxResults
<1>1. <<>> \in Seq(Result) /\ Len(<<>>) = 0
  OBVIOUS
<1>2. r.results = <<>>
  BY DEF Subscriber
<1>3. r \in Rec
  BY <1>1, AgeTyped DEF Subscriber, Rec
<1>4. Len(r.results) <= MaxResults
  BY <1>1, <1>2, RoutingAssumption
<1> QED
  BY <1>3, <1>4

\* A node enrolls.
LEMMA InvEnroll ==
    ASSUME RoutingInv, NEW n \in NodeIds, NEW rep \in Reports, NEW trust \in EndpointTrust,
           Enroll(n, rep, trust)
    PROVE  RoutingInv'
<1>1. rep \in Report /\ trust \in Trusts
  BY RoutingAssumption
<1>2. rep.status \in Statuses \cup {"none"} /\ rep.ollama \in BOOLEAN /\ rep.models \in SUBSET Models
  BY <1>1 DEF Report
<1>3. PICK condition : condition = IF rep.status = "none" THEN "registered" ELSE rep.status
  OBVIOUS
<1>4. condition \in Statuses
  BY <1>2, <1>3 DEF Statuses
<1>5. PICK r : r = Subscriber(condition, trust, rep.ollama, rep.models, TRUE)
  OBVIOUS
<1>6. /\ r \in Rec /\ Len(r.results) <= MaxResults
      /\ r.control = "managed" /\ r.heard = 0 /\ r.required
  <2>1. r \in Rec /\ Len(r.results) <= MaxResults
    BY <1>1, <1>2, <1>4, <1>5, SubscriberSound
  <2> QED
    BY <1>5, <2>1 DEF Subscriber
<1>7. Sound(r, 0)
  BY <1>6, AgeTyped, RoutingAssumption DEF Sound
<1>8. Put(n, r) /\ beats' = [beats EXCEPT ![n] = 0]
  BY <1>3, <1>5 DEF Enroll
<1> QED
  BY <1>6, <1>7, <1>8, PutKeeps

\* An operator adds a subscriber.
LEMMA InvManualAdd ==
    ASSUME RoutingInv, NEW n \in NodeIds, NEW rep \in Reports, NEW trust \in EndpointTrust,
           ManualAdd(n, rep, trust)
    PROVE  RoutingInv'
<1>1. rep \in Report /\ trust \in Trusts
  BY RoutingAssumption
<1>2. rep.status \in Statuses \cup {"none"} /\ rep.ollama \in BOOLEAN /\ rep.models \in SUBSET Models
  BY <1>1 DEF Report
<1>3. PICK condition : condition = IF rep.status = "none" THEN "healthy" ELSE rep.status
  OBVIOUS
<1>4. condition \in Statuses /\ "degraded" \in Statuses
  BY <1>2, <1>3 DEF Statuses
<1>5. beats' = [beats EXCEPT ![n] = Never]
  BY DEF ManualAdd
<1>6. ASSUME NEW s \in Statuses, NEW o \in BOOLEAN, NEW models \in SUBSET Models,
             Put(n, Subscriber(s, trust, o, models, FALSE))
      PROVE  RoutingInv'
  <2>1. PICK r : r = Subscriber(s, trust, o, models, FALSE)
    OBVIOUS
  <2>2. r \in Rec /\ Len(r.results) <= MaxResults
    BY <1>1, <2>1, SubscriberSound
  <2>3. Sound(r, Never)
    BY <2>2 DEF Sound
  <2>4. Put(n, r)
    BY <1>6, <2>1
  <2> QED
    BY <1>5, <2>2, <2>3, <2>4, PutKeeps
<1>7. CASE Put(n, Subscriber(condition, trust, rep.ollama, rep.models, FALSE))
  BY <1>2, <1>4, <1>6, <1>7
<1>8. CASE Put(n, Subscriber("degraded", trust, FALSE, {}, FALSE))
  <2>1. PICK none \in SUBSET Models : none = {}
    OBVIOUS
  <2>2. Put(n, Subscriber("degraded", trust, FALSE, none, FALSE))
    BY <1>8, <2>1
  <2> QED
    BY <1>4, <1>6, <2>2
<1> QED
  BY <1>3, <1>7, <1>8 DEF ManualAdd

\* An operator adds a passive endpoint.
LEMMA InvPassiveAdd ==
    ASSUME RoutingInv, NEW n \in NodeIds, NEW rep \in Reports, NEW trust \in EndpointTrust,
           PassiveAdd(n, rep, trust)
    PROVE  RoutingInv'
<1>1. rep \in Report /\ trust \in Trusts /\ "healthy" \in Statuses
  BY RoutingAssumption DEF Statuses
<1>2. rep.models \in SUBSET Models
  BY <1>1 DEF Report
<1>3. PICK r : r = Subscriber("healthy", trust, TRUE, rep.models, FALSE)
  OBVIOUS
<1>4. r \in Rec /\ Len(r.results) <= MaxResults
  BY <1>1, <1>2, <1>3, SubscriberSound
<1>5. PICK passive : passive = [r EXCEPT !.control = "passive"]
  OBVIOUS
<1>6. passive \in Rec /\ passive.results = r.results
  BY <1>4, <1>5 DEF Rec
<1>7. Sound(passive, Never)
  BY <1>4, <1>6 DEF Sound
<1>8. Put(n, passive) /\ beats' = [beats EXCEPT ![n] = Never]
  BY <1>3, <1>5 DEF PassiveAdd
<1> QED
  BY <1>6, <1>7, <1>8, PutKeeps

\* What the store knows of a node it has.
LEMMA KnownSound ==
    ASSUME RoutingInv, NEW n \in NodeIds, fleet[n] # NoRec
    PROVE  fleet[n] \in Rec /\ Len(fleet[n].results) <= MaxResults /\ Sound(fleet[n], beats[n])
BY DEF RoutingInv, Sound

\* Fields that a sign of life does not depend on may change.
LEMMA SameLife ==
    ASSUME NEW r \in Rec, NEW b, Sound(r, b), NEW s \in Rec, Len(s.results) <= MaxResults,
           s.required = r.required, s.control = r.control, s.heard = r.heard
    PROVE  Sound(s, b)
BY RoutingAssumption DEF Sound

\* A heartbeat arrives.
LEMMA InvHeartbeat ==
    ASSUME RoutingInv, NEW n \in NodeIds, NEW rep \in Reports, Heartbeat(n, rep)
    PROVE  RoutingInv'
<1>1. PICK r : r = fleet[n]
  OBVIOUS
<1>2. r \in Rec /\ Len(r.results) <= MaxResults /\ r.control = "managed"
  BY <1>1, KnownSound DEF Heartbeat
<1>3. rep \in Report
  BY RoutingAssumption
<1>4. PICK condition : condition = IF rep.status # "none" THEN rep.status
                             ELSE IF r.status = "registered" THEN "healthy" ELSE r.status
  OBVIOUS
<1>5. condition \in Statuses
  BY <1>2, <1>3, <1>4 DEF Rec, Report, Statuses
<1>6. PICK s : s = [r EXCEPT !.status = condition, !.ollama = rep.ollama, !.models = rep.models,
                             !.jobs = rep.jobs, !.required = TRUE, !.heard = 0]
  OBVIOUS
<1>7. s \in Rec
  BY <1>2, <1>3, <1>5, <1>6, AgeTyped DEF Rec, Report
<1>8. s.results = r.results /\ s.control = "managed" /\ s.heard = 0 /\ s.required
  BY <1>2, <1>6 DEF Rec
<1>9. Sound(s, 0)
  BY <1>2, <1>7, <1>8, AgeTyped, RoutingAssumption DEF Sound
<1>10. Put(n, s) /\ beats' = [beats EXCEPT ![n] = 0]
  BY <1>1, <1>2, <1>4, <1>6 DEF Heartbeat, Rec
<1> QED
  BY <1>7, <1>9, <1>10, PutKeeps

\* The list of results stays within its bound.
LEMMA ResultsBounded ==
    ASSUME NEW list \in Seq(Result), NEW result \in Result
    PROVE  /\ appendBenchmarkResult(list, result) \in Seq(Result)
           /\ Len(appendBenchmarkResult(list, result)) <= MaxResults
<1>1. PICK longer : longer = <<result>> \o list
  OBVIOUS
<1>2. longer \in Seq(Result)
  BY <1>1
<1>3. MaxResults \in Nat
  BY RoutingAssumption
<1>4. CASE Len(longer) > MaxResults
  <2>1. appendBenchmarkResult(list, result) = SubSeq(longer, 1, MaxResults)
    BY <1>1, <1>4 DEF appendBenchmarkResult
  <2>2. SubSeq(longer, 1, MaxResults) \in Seq(Result) /\ Len(SubSeq(longer, 1, MaxResults)) = MaxResults
    BY <1>2, <1>3, <1>4
  <2> QED
    BY <1>3, <2>1, <2>2
<1>5. CASE ~(Len(longer) > MaxResults)
  <2>1. appendBenchmarkResult(list, result) = longer
    BY <1>1, <1>5 DEF appendBenchmarkResult
  <2>2. Len(longer) \in Nat
    BY <1>2
  <2> QED
    BY <1>2, <1>3, <1>5, <2>1, <2>2
<1> QED
  BY <1>4, <1>5

\* A benchmark result arrives.
LEMMA InvBenchmarkResult ==
    ASSUME RoutingInv, NEW n \in NodeIds, NEW result \in Results, BenchmarkResult(n, result)
    PROVE  RoutingInv'
<1>1. PICK r : r = fleet[n]
  OBVIOUS
<1>2. r \in Rec /\ Sound(r, beats[n])
  BY <1>1, KnownSound DEF BenchmarkResult
<1>3. result \in Result
  BY RoutingAssumption
<1>4. PICK list : list = appendBenchmarkResult(r.results, result)
  OBVIOUS
<1>5. list \in Seq(Result) /\ Len(list) <= MaxResults
  <2>1. PICK old \in Seq(Result) : old = r.results
    BY <1>2 DEF Rec
  <2> QED
    BY <1>3, <1>4, <2>1, ResultsBounded
<1>6. PICK models : models = IF result.rate > 0 /\ result.model # 0 THEN r.models \cup {result.model} ELSE r.models
  OBVIOUS
<1>7. models \in SUBSET Models
  BY <1>2, <1>3, <1>6 DEF Rec, Result
<1>8. PICK s : s = [r EXCEPT !.results = list, !.models = models]
  OBVIOUS
<1>9. s \in Rec
  BY <1>2, <1>5, <1>7, <1>8 DEF Rec
<1>10. s.results = list /\ s.required = r.required /\ s.control = r.control /\ s.heard = r.heard
  BY <1>2, <1>8 DEF Rec
<1>11. Sound(s, beats[n])
  BY <1>2, <1>5, <1>9, <1>10, SameLife
<1>12. Put(n, s) /\ UNCHANGED beats
  BY <1>1, <1>2, <1>4, <1>6, <1>8 DEF BenchmarkResult, Rec
<1> QED
  BY <1>9, <1>11, <1>12, PutSilent

\* A record that is edited in the fields of an operator or a probe.
LEMMA InvEdit ==
    ASSUME RoutingInv, NEW n \in NodeIds, fleet[n] # NoRec, NEW s \in Rec,
           s.results = fleet[n].results, s.required = fleet[n].required,
           s.control = fleet[n].control, s.heard = fleet[n].heard,
           Put(n, s), UNCHANGED beats
    PROVE  RoutingInv'
<1>1. fleet[n] \in Rec /\ Len(fleet[n].results) <= MaxResults /\ Sound(fleet[n], beats[n])
  BY KnownSound
<1>2. Sound(s, beats[n])
  BY <1>1, SameLife
<1> QED
  BY <1>2, PutSilent

\* A passive endpoint answers a probe.
LEMMA InvProbe ==
    ASSUME RoutingInv, NEW n \in NodeIds, NEW rep \in Reports, Probe(n, rep)
    PROVE  RoutingInv'
<1>1. PICK r : r = fleet[n]
  OBVIOUS
<1>2. r \in Rec /\ r # NoRec
  BY <1>1, KnownSound DEF Probe
<1>3. rep.models \in SUBSET Models
  BY RoutingAssumption DEF Report
<1>4. PICK s : s = [r EXCEPT !.models = rep.models, !.ollama = TRUE, !.status = "healthy"]
  OBVIOUS
<1>5. /\ s \in Rec /\ s.results = r.results /\ s.required = r.required
      /\ s.control = r.control /\ s.heard = r.heard
  BY <1>2, <1>3, <1>4 DEF Rec, Statuses
<1>6. Put(n, s) /\ UNCHANGED beats
  BY <1>1, <1>4 DEF Probe
<1> QED
  BY <1>1, <1>2, <1>5, <1>6, InvEdit

\* An operator approves a node.
LEMMA InvApprove ==
    ASSUME RoutingInv, NEW n \in NodeIds, Approve(n)
    PROVE  RoutingInv'
<1>1. PICK r : r = fleet[n]
  OBVIOUS
<1>2. r \in Rec /\ r # NoRec
  BY <1>1, KnownSound DEF Approve
<1>3. PICK condition : condition = IF r.status = "disabled" THEN "healthy" ELSE r.status
  OBVIOUS
<1>4. condition \in Statuses
  BY <1>2, <1>3 DEF Rec, Statuses
<1>5. PICK s : s = [r EXCEPT !.approval = "approved", !.enabled = TRUE, !.status = condition]
  OBVIOUS
<1>6. /\ s \in Rec /\ s.results = r.results /\ s.required = r.required
      /\ s.control = r.control /\ s.heard = r.heard
  BY <1>2, <1>4, <1>5 DEF Rec
<1>7. Put(n, s) /\ UNCHANGED beats
  BY <1>1, <1>2, <1>3, <1>5 DEF Approve, Rec
<1> QED
  BY <1>1, <1>2, <1>6, <1>7, InvEdit

\* An operator acts on a node otherwise.
LEMMA InvNodeAction ==
    ASSUME RoutingInv, NEW n \in NodeIds, NodeAction(n)
    PROVE  RoutingInv'
<1>1. PICK r : r = fleet[n]
  OBVIOUS
<1>2. r \in Rec /\ r # NoRec /\ UNCHANGED beats
  BY <1>1, KnownSound DEF NodeAction
<1>3. ASSUME NEW s \in Rec, s.results = r.results, s.required = r.required,
             s.control = r.control, s.heard = r.heard, Put(n, s)
      PROVE  RoutingInv'
  BY <1>1, <1>2, <1>3, InvEdit
<1>4. CASE Put(n, [r EXCEPT !.approval = "revoked", !.enabled = FALSE, !.status = "disabled"])
  <2>1. PICK s : s = [r EXCEPT !.approval = "revoked", !.enabled = FALSE, !.status = "disabled"]
    OBVIOUS
  <2>2. /\ s \in Rec /\ s.results = r.results /\ s.required = r.required
        /\ s.control = r.control /\ s.heard = r.heard
    BY <1>2, <2>1 DEF Rec, Statuses
  <2> QED
    BY <1>3, <1>4, <2>1, <2>2
<1>5. CASE Put(n, [r EXCEPT !.enabled = TRUE, !.status = "healthy"])
  <2>1. PICK s : s = [r EXCEPT !.enabled = TRUE, !.status = "healthy"]
    OBVIOUS
  <2>2. /\ s \in Rec /\ s.results = r.results /\ s.required = r.required
        /\ s.control = r.control /\ s.heard = r.heard
    BY <1>2, <2>1 DEF Rec, Statuses
  <2> QED
    BY <1>3, <1>5, <2>1, <2>2
<1>6. CASE Put(n, [r EXCEPT !.enabled = FALSE, !.status = "disabled"])
  <2>1. PICK s : s = [r EXCEPT !.enabled = FALSE, !.status = "disabled"]
    OBVIOUS
  <2>2. /\ s \in Rec /\ s.results = r.results /\ s.required = r.required
        /\ s.control = r.control /\ s.heard = r.heard
    BY <1>2, <2>1 DEF Rec, Statuses
  <2> QED
    BY <1>3, <1>6, <2>1, <2>2
<1>7. CASE \E t \in Trusts : Put(n, [r EXCEPT !.trust = t])
  <2>1. PICK t \in Trusts : Put(n, [r EXCEPT !.trust = t])
    BY <1>7
  <2>2. PICK s : s = [r EXCEPT !.trust = t]
    OBVIOUS
  <2>3. /\ s \in Rec /\ s.results = r.results /\ s.required = r.required
        /\ s.control = r.control /\ s.heard = r.heard
    BY <1>2, <2>2 DEF Rec
  <2> QED
    BY <1>3, <2>1, <2>2, <2>3
<1>8. CASE \E k \in 0..2 : Put(n, [r EXCEPT !.heavy = k])
  <2>1. PICK k \in 0..2 : Put(n, [r EXCEPT !.heavy = k])
    BY <1>8
  <2>2. PICK s : s = [r EXCEPT !.heavy = k]
    OBVIOUS
  <2>3. /\ s \in Rec /\ s.results = r.results /\ s.required = r.required
        /\ s.control = r.control /\ s.heard = r.heard
    BY <1>2, <2>2 DEF Rec
  <2> QED
    BY <1>3, <2>1, <2>2, <2>3
<1> QED
  BY <1>1, <1>4, <1>5, <1>6, <1>7, <1>8 DEF NodeAction

AgedBeat(b) == IF b = Never THEN Never ELSE Older(b, Window)

\* A record, a tick later.
LEMMA TickSound ==
    ASSUME NEW r \in Rec, NEW b, Sound(r, b)
    PROVE  AgedRecord(r) \in Rec /\ Sound(AgedRecord(r), AgedBeat(b))
<1>0. PICK list, s, c : list = [i \in DOMAIN r.results |-> AgedResult(r.results[i])] /\ s = AgedRecord(r) /\ c = AgedBeat(b)
  OBVIOUS
<1>1. PICK old \in Seq(Result) : old = r.results
  BY DEF Rec
<1>2. PICK n \in Nat : n = Len(old) /\ DOMAIN old = 1..n
  BY <1>1
<1>3. \A i \in 1..n : old[i] \in Result
  BY <1>1, <1>2
<1>4. \A x \in Result : AgedResult(x) \in Result
  <2> SUFFICES ASSUME NEW x \in Result PROVE AgedResult(x) \in Result
    OBVIOUS
  <2>1. x.age \in ResultAges
    BY DEF Result
  <2>2. PICK a \in ResultAges : a = Older(x.age, BenchWindow)
    BY <2>1, AgeTyped
  <2> QED
    BY <2>2 DEF Result, AgedResult
<1>5. list \in [1..n -> Result]
  BY <1>0, <1>1, <1>2, <1>3, <1>4
<1>6. list \in Seq(Result) /\ Len(list) = n
  BY <1>5, SequenceOf
<1>7. PICK h \in Ages : h = Older(r.heard, Window)
  BY AgeTyped DEF Rec
<1>8. s = [r EXCEPT !.heard = h, !.results = list]
  BY <1>0, <1>7 DEF AgedRecord, Rec
<1>9. s \in Rec
  BY <1>6, <1>8 DEF Rec
<1>10. s.results = list /\ s.required = r.required /\ s.control = r.control /\ s.heard = h
  BY <1>8 DEF Rec
<1>11. Len(s.results) <= MaxResults
  BY <1>1, <1>2, <1>6, <1>10, RoutingAssumption DEF Sound
<1>12. CASE b = Never
  <2>1. c = Never
    BY <1>0, <1>12 DEF AgedBeat
  <2> QED
    BY <1>0, <1>9, <1>11, <2>1 DEF Sound
<1>13. CASE b # Never
  <2>1. b \in Ages /\ r.required /\ r.control = "managed" /\ b = r.heard
    BY <1>13 DEF Sound
  <2>2. c \in Ages /\ c = s.heard
    BY <1>0, <1>7, <1>10, <1>13, <2>1 DEF AgedBeat
  <2>3. Sound(s, c)
    BY <1>9, <1>10, <1>11, <2>1, <2>2, RoutingAssumption DEF Sound
  <2> QED
    BY <1>0, <1>9, <2>3
<1> QED
  BY <1>12, <1>13

\* Time passes.
LEMMA InvTick == RoutingInv /\ Tick => RoutingInv'
<1> SUFFICES ASSUME RoutingInv, Tick PROVE RoutingInv'
  OBVIOUS
<1>1. /\ fleet \in [NodeIds -> Rec \cup {NoRec}]
      /\ beats \in [NodeIds -> Ages \cup {Never}]
      /\ \A x \in NodeIds : Sound(fleet[x], beats[x])
  BY DEF RoutingInv
<1>2. DOMAIN fleet' = NodeIds /\ fleet' = [n \in NodeIds |-> fleet'[n]]
  BY DEF Tick
<1>3. DOMAIN beats' = NodeIds /\ beats' = [n \in NodeIds |-> beats'[n]]
  BY DEF Tick
<1>4. ASSUME NEW n \in NodeIds
      PROVE  /\ fleet'[n] \in Rec \cup {NoRec} /\ beats'[n] \in Ages \cup {Never}
             /\ Sound(fleet'[n], beats'[n])
  <2>1. PICK b : b = beats[n]
    OBVIOUS
  <2>2. beats'[n] = AgedBeat(b)
    BY <2>1 DEF Tick, AgedBeat
  <2>3. CASE fleet[n] = NoRec
    <3>1. fleet'[n] = NoRec
      BY <2>3 DEF Tick
    <3>2. b = Never
      BY <1>1, <2>1, <2>3 DEF Sound
    <3>3. AgedBeat(b) = Never
      BY <3>2 DEF AgedBeat
    <3>4. Sound(NoRec, Never)
      BY Zenon DEF Sound
    <3> QED
      BY <2>2, <3>1, <3>3, <3>4
  <2>4. CASE fleet[n] # NoRec
    <3>1. PICK r \in Rec : r = fleet[n]
      BY <1>1, <2>4
    <3>2. fleet'[n] = AgedRecord(r)
      BY <2>4, <3>1 DEF Tick
    <3>3. Sound(r, b)
      BY <1>1, <2>1, <3>1
    <3>4. AgedRecord(r) \in Rec /\ Sound(AgedRecord(r), AgedBeat(b))
      BY <3>3, TickSound
    <3>5. AgedBeat(b) \in Ages \cup {Never}
      BY <3>4 DEF Sound
    <3> QED
      BY <2>2, <3>2, <3>4, <3>5
  <2> QED
    BY <2>3, <2>4
<1>5. fleet' \in [NodeIds -> Rec \cup {NoRec}]
  BY <1>2, <1>4
<1>6. beats' \in [NodeIds -> Ages \cup {Never}]
  BY <1>3, <1>4
<1>7. events' \in 0 .. MaxEvents
  <2>1. events < MaxEvents /\ events' = events + 1
    BY DEF Tick
  <2>2. events \in 0 .. MaxEvents /\ MaxEvents \in Nat
    BY RoutingAssumption DEF RoutingInv
  <2> QED
    BY <2>1, <2>2
<1>8. Fresh'
  BY DEF Fresh, Tick
<1> QED
  BY <1>4, <1>5, <1>6, <1>7, <1>8 DEF RoutingInv

\* A request is routed.
LEMMA InvSelect ==
    ASSUME RoutingInv, NEW q \in Requests, NEW order \in Orders, Select(q, order)
    PROVE  RoutingInv'
<1>1. UNCHANGED <<fleet, beats, events>>
  BY DEF Select
<1>2. Outcome(q, order)' = Outcome(q, order)
  BY <1>1 DEF Outcome, Selected, Listed, Known
<1>3. decision' = Outcome(q, order)
  BY DEF Select, Outcome
<1>4. Fresh'
  BY <1>2, <1>3 DEF Fresh
<1> QED
  BY <1>1, <1>4 DEF RoutingInv

\* The invariant holds of a marshal that has been running.
LEMMA InvRoutingInit == RoutingInit => RoutingInv
<1> SUFFICES ASSUME RoutingInit PROVE RoutingInv
  OBVIOUS
<1>1. fleet \in [NodeIds -> Rec \cup {NoRec}]
  BY RoutingAssumption DEF RoutingInit
<1>2. \A n \in NodeIds : /\ beats[n] \in Ages \cup {Never}
                         /\ Sound(fleet[n], beats[n])
  <2> SUFFICES ASSUME NEW n \in NodeIds
               PROVE  beats[n] \in Ages \cup {Never} /\ Sound(fleet[n], beats[n])
    OBVIOUS
  <2>1. beats[n] = IF fleet[n] # NoRec /\ fleet[n].required THEN fleet[n].heard ELSE Never
    BY DEF RoutingInit
  <2>2. fleet[n] # NoRec => /\ fleet[n].required => fleet[n].control = "managed"
                            /\ Len(fleet[n].results) <= MaxResults
    BY RoutingAssumption DEF RoutingInit
  <2>3. fleet[n] # NoRec => fleet[n] \in Rec /\ fleet[n].heard \in Ages
    BY <1>1 DEF Rec
  <2>4. CASE fleet[n] # NoRec /\ fleet[n].required
    <3>1. beats[n] = fleet[n].heard
      BY <2>1, <2>4
    <3> QED
      BY <2>2, <2>3, <2>4, <3>1 DEF Sound
  <2>5. CASE ~(fleet[n] # NoRec /\ fleet[n].required)
    <3>1. beats[n] = Never
      BY <2>1, <2>5
    <3>2. fleet[n] # NoRec => fleet[n] \in Rec /\ Len(fleet[n].results) <= MaxResults
      BY <2>2, <2>3
    <3>3. Sound(fleet[n], Never)
      BY <3>2, Zenon DEF Sound
    <3> QED
      BY <3>1, <3>3
  <2> QED
    BY <2>4, <2>5
<1>3. beats \in [NodeIds -> Ages \cup {Never}]
  BY <1>2 DEF RoutingInit
<1>4. events \in 0 .. MaxEvents /\ Fresh
  BY RoutingAssumption DEF RoutingInit, Fresh
<1> QED
  BY <1>1, <1>2, <1>3, <1>4 DEF RoutingInv

\* Every step keeps the invariant.
LEMMA InvRoutingNext == RoutingInv /\ [RoutingNext]_routingVars => RoutingInv'
<1> SUFFICES ASSUME RoutingInv, [RoutingNext]_routingVars PROVE RoutingInv'
  OBVIOUS
<1>1. CASE Tick
  BY <1>1, InvTick
<1>2. ASSUME NEW q \in Requests, NEW order \in Orders, Select(q, order) PROVE RoutingInv'
  BY <1>2, InvSelect
<1>3. ASSUME NEW n \in NodeIds, Approve(n) \/ NodeAction(n) PROVE RoutingInv'
  BY <1>3, InvApprove, InvNodeAction
<1>4. ASSUME NEW n \in NodeIds, NEW result \in Results, BenchmarkResult(n, result) PROVE RoutingInv'
  BY <1>4, InvBenchmarkResult
<1>5. ASSUME NEW n \in NodeIds, NEW rep \in Reports, Heartbeat(n, rep) \/ Probe(n, rep)
      PROVE  RoutingInv'
  BY <1>5, InvHeartbeat, InvProbe
<1>6. ASSUME NEW n \in NodeIds, NEW rep \in Reports, NEW trust \in EndpointTrust,
             Enroll(n, rep, trust) \/ ManualAdd(n, rep, trust) \/ PassiveAdd(n, rep, trust)
      PROVE  RoutingInv'
  BY <1>6, InvEnroll, InvManualAdd, InvPassiveAdd
<1>7. CASE UNCHANGED routingVars
  <2>1. fleet' = fleet /\ beats' = beats /\ decision' = decision /\ events' = events
    BY <1>7 DEF routingVars
  <2>2. \A q \in Requests, order \in Orders : Outcome(q, order)' = Outcome(q, order)
    BY <2>1 DEF Outcome, Selected, Listed, Known
  <2>3. Fresh'
    BY <2>1, <2>2 DEF Fresh, RoutingInv
  <2> QED
    BY <2>1, <2>3 DEF RoutingInv
<1> QED
  BY <1>1, <1>2, <1>3, <1>4, <1>5, <1>6, <1>7 DEF RoutingNext

--------------------------------------------------------------------------------
(* Routing: what a decision says. *)

\* A decision is none, none for want of a node, or the ranking of a model.
LEMMA Readout ==
    ASSUME RoutingInv
    PROVE  \/ decision = NoDecision
           \/ /\ decision.wanted \in Seq(Models) /\ decision.consensus \in BOOLEAN
              /\ decision.ids = <<>> /\ decision.model = 0
              /\ \A k \in DOMAIN decision.wanted, n \in NodeIds : ~Candidate(n, decision.wanted[k])
           \/ /\ decision.wanted \in Seq(Models) /\ decision.consensus \in BOOLEAN
              /\ \E k \in DOMAIN decision.wanted : \E t :
                   /\ decision.model = decision.wanted[k]
                   /\ Ranked(t, decision.model, decision.consensus) /\ t # <<>>
                   /\ decision.ids = [i \in DOMAIN t |-> t[i].id]
                   /\ \A l \in DOMAIN decision.wanted, n \in NodeIds :
                        l < k => ~Candidate(n, decision.wanted[l])
<1> SUFFICES ASSUME decision # NoDecision
             PROVE  \/ /\ decision.wanted \in Seq(Models) /\ decision.consensus \in BOOLEAN
                       /\ decision.ids = <<>> /\ decision.model = 0
                       /\ \A k \in DOMAIN decision.wanted, n \in NodeIds : ~Candidate(n, decision.wanted[k])
                    \/ /\ decision.wanted \in Seq(Models) /\ decision.consensus \in BOOLEAN
                       /\ \E k \in DOMAIN decision.wanted : \E t :
                            /\ decision.model = decision.wanted[k]
                            /\ Ranked(t, decision.model, decision.consensus) /\ t # <<>>
                            /\ decision.ids = [i \in DOMAIN t |-> t[i].id]
                            /\ \A l \in DOMAIN decision.wanted, n \in NodeIds :
                                 l < k => ~Candidate(n, decision.wanted[l])
  OBVIOUS
<1>1. PICK q \in Requests, order \in Orders : decision = Outcome(q, order)
  BY DEF RoutingInv, Fresh
<1>2. q \in Request
  BY RoutingAssumption
<1>3. PICK d : d = Selected(q, Known(order))
  OBVIOUS
<1>4. FleetTyped
  BY DEF RoutingInv, FleetTyped
<1>5. IsDecided(d, q)
  BY <1>2, <1>3, <1>4, SelectedDecides
<1>6. /\ decision.wanted = q.wanted /\ decision.consensus = q.consensus
      /\ decision.model = d.model /\ decision.ids = d.ids
  BY <1>1, <1>3 DEF Outcome
<1>7. decision.wanted \in Seq(Models) /\ decision.consensus \in BOOLEAN
  BY <1>2, <1>6 DEF Request
<1>8. \A n, model : Candidate(n, model) <=> Present(n) /\ Fits(RecordOf(n), model, q.consensus)
  BY <1>6 DEF Candidate, Present, Fits
<1>9. CASE /\ d.ids = <<>> /\ d.model = 0
           /\ \A k \in DOMAIN q.wanted, n \in NodeIds :
                ~(Present(n) /\ Fits(RecordOf(n), q.wanted[k], q.consensus))
  BY <1>6, <1>7, <1>8, <1>9
<1>10. CASE \E k \in DOMAIN q.wanted : \E t :
              /\ d.model = q.wanted[k] /\ Ranked(t, d.model, q.consensus) /\ t # <<>>
              /\ d.ids = [i \in DOMAIN t |-> t[i].id]
              /\ \A l \in DOMAIN q.wanted, n \in NodeIds :
                   l < k => ~(Present(n) /\ Fits(RecordOf(n), q.wanted[l], q.consensus))
  <2>1. PICK k \in DOMAIN q.wanted : \E t :
              /\ d.model = q.wanted[k] /\ Ranked(t, d.model, q.consensus) /\ t # <<>>
              /\ d.ids = [i \in DOMAIN t |-> t[i].id]
              /\ \A l \in DOMAIN q.wanted, n \in NodeIds :
                   l < k => ~(Present(n) /\ Fits(RecordOf(n), q.wanted[l], q.consensus))
    BY <1>10
  <2>2. PICK t :
              /\ d.model = q.wanted[k] /\ Ranked(t, d.model, q.consensus) /\ t # <<>>
              /\ d.ids = [i \in DOMAIN t |-> t[i].id]
              /\ \A l \in DOMAIN q.wanted, n \in NodeIds :
                   l < k => ~(Present(n) /\ Fits(RecordOf(n), q.wanted[l], q.consensus))
    BY <2>1
  <2>3. /\ k \in DOMAIN decision.wanted
        /\ decision.model = decision.wanted[k]
        /\ Ranked(t, decision.model, decision.consensus) /\ t # <<>>
    BY <1>6, <2>2
  <2>4. decision.ids = [i \in DOMAIN t |-> t[i].id]
    BY <1>6, <2>2
  <2>5. \A l \in DOMAIN decision.wanted, n \in NodeIds : l < k => ~Candidate(n, decision.wanted[l])
    BY <1>6, <1>8, <2>2
  <2> QED
    BY <1>7, <2>3, <2>4, <2>5
<1> QED
  BY <1>5, <1>9, <1>10 DEF IsDecided

\* The ids of a ranking are those of its candidates, in the order of preference.
LEMMA RankedIds ==
    ASSUME RoutingInv, NEW t, Ranked(t, decision.model, decision.consensus), t # <<>>,
           decision.ids = [i \in DOMAIN t |-> t[i].id]
    PROVE  /\ \E m \in Nat \ {0} : decision.ids \in [1..m -> NodeIds] /\ DOMAIN decision.ids = 1..m
           /\ decision.ids \in Seq(NodeIds) /\ decision.ids # <<>>
           /\ \A i \in DOMAIN decision.ids : Candidate(decision.ids[i], decision.model)
           /\ \A n \in NodeIds : Candidate(n, decision.model) =>
                \E i \in DOMAIN decision.ids : decision.ids[i] = n
           /\ \A i, j \in DOMAIN decision.ids : i < j => Preferred(decision.ids[i], decision.ids[j])
<1>1. PICK m \in Nat : t \in [1..m -> Entry] /\ DOMAIN t = 1..m
  BY DEF Ranked
<1>2. t \in Seq(Entry) /\ Len(t) = m
  BY <1>1, SequenceOf
<1>3. m # 0
  BY <1>2
<1>4. PICK ids : ids = decision.ids
  OBVIOUS
<1>5. DOMAIN ids = 1..m /\ \A i \in 1..m : ids[i] = t[i].id /\ ids[i] \in NodeIds /\ t[i].rec \in Rec
  BY <1>1, <1>4 DEF Entry
<1>6. ids \in [1..m -> NodeIds]
  BY <1>1, <1>4, <1>5
<1>7. ids \in Seq(NodeIds) /\ Len(ids) = m
  BY <1>6, SequenceOf
<1>8. ids # <<>>
  BY <1>3, <1>7
<1>9. \A i \in 1..m : /\ t[i].rec = RecordOf(ids[i]) /\ Present(ids[i])
                      /\ Fits(RecordOf(ids[i]), decision.model, decision.consensus)
  BY <1>1, <1>5 DEF Ranked
<1>10. \A i \in 1..m : Candidate(ids[i], decision.model)
  BY <1>9 DEF Candidate, Present, Fits
<1>11. \A n \in NodeIds : Candidate(n, decision.model) => \E i \in 1..m : ids[i] = n
  BY <1>1, <1>5 DEF Ranked, Candidate, Present, Fits
<1>12. decision.consensus \in BOOLEAN
  BY Readout DEF NoDecision
<1>13. ASSUME NEW i \in 1..m, NEW j \in 1..m, i < j
       PROVE  Preferred(ids[i], ids[j])
  <2>1. Ahead(t[i], t[j], decision.model, decision.consensus)
    BY <1>1, <1>13 DEF Ranked
  <2>2. PICK p1 \in Int, p2 \in Int : /\ p1 = Placement(t[i].rec, decision.model)
                                      /\ p2 = Placement(t[j].rec, decision.model)
    <3>1. Placement(t[i].rec, decision.model) \in Nat /\ Placement(t[j].rec, decision.model) \in Nat
      BY <1>5, PlacementTyped
    <3> QED
      BY <3>1
  <2>3. PICK s1 \in Int, s2 \in Int : /\ s1 = Score(t[i].rec, decision.consensus)
                                      /\ s2 = Score(t[j].rec, decision.consensus)
    BY <1>5, <1>12, ScoreTyped
  <2>4. p1 > p2 \/ (p1 = p2 /\ (s1 > s2 \/ (s1 = s2 /\ ids[i] < ids[j])))
    BY <1>5, <2>1, <2>2, <2>3 DEF Ahead, Better
  <2>5. /\ RecordOf(ids[i]) = t[i].rec /\ RecordOf(ids[j]) = t[j].rec
    BY <1>9
  <2>6. p1 - p2 > 0 \/ (p1 - p2 = 0 /\ (s1 - s2 > 0 \/ (s1 - s2 = 0 /\ ids[i] < ids[j])))
    BY <2>4
  <2> QED
    BY <2>2, <2>3, <2>5, <2>6 DEF Preferred
<1>14. \E x \in Nat \ {0} : ids \in [1..x -> NodeIds] /\ DOMAIN ids = 1..x
  BY <1>3, <1>5, <1>6
<1> QED
  BY <1>4, <1>5, <1>7, <1>8, <1>10, <1>11, <1>13, <1>14

\* The invariant tells what a decision lists, and in which order.
LEMMA PolicyFollowed == RoutingInv => DecisionFollowsPolicy
<1> SUFFICES ASSUME RoutingInv, decision.wanted # <<>>
             PROVE  LET ids == decision.ids IN
                    /\ {ids[i] : i \in DOMAIN ids} = {n \in NodeIds : Candidate(n, decision.model)}
                    /\ \A i, j \in DOMAIN ids : i < j => Preferred(ids[i], ids[j])
                    /\ \E last \in 0..Len(decision.wanted) :
                         /\ IF ids = <<>> THEN last = Len(decision.wanted)
                            ELSE last < Len(decision.wanted) /\ decision.wanted[last + 1] = decision.model
                         /\ \A k \in 1..last, n \in NodeIds : ~Candidate(n, decision.wanted[k])
  BY DEF DecisionFollowsPolicy
<1>1. decision # NoDecision
  BY DEF NoDecision
<1>2. CASE /\ decision.wanted \in Seq(Models) /\ decision.consensus \in BOOLEAN
           /\ decision.ids = <<>> /\ decision.model = 0
           /\ \A k \in DOMAIN decision.wanted, n \in NodeIds : ~Candidate(n, decision.wanted[k])
  <2>1. 1 \in DOMAIN decision.wanted /\ Len(decision.wanted) \in Nat
        /\ DOMAIN decision.wanted = 1..Len(decision.wanted)
    BY <1>2
  <2>2. \A n \in NodeIds : ~Candidate(n, 0)
    <3> SUFFICES ASSUME NEW n \in NodeIds, Candidate(n, 0) PROVE FALSE
      OBVIOUS
    <3>1. RecordOf(n) \in Rec
      BY ConfiguredTyped DEF RoutingInv, RecordOf
    <3>2. 0 \notin RecordOf(n).models
      BY <3>1, RoutingAssumption DEF Rec
    <3>3. Candidate(n, decision.wanted[1])
      BY <3>2 DEF Candidate, Serves
    <3> QED
      BY <1>2, <2>1, <3>3
  <2>3. {decision.ids[i] : i \in DOMAIN decision.ids} = {}
    BY <1>2
  <2>4. \A i, j \in DOMAIN decision.ids : i < j => Preferred(decision.ids[i], decision.ids[j])
    BY <1>2
  <2>5. \A k \in 1..Len(decision.wanted), n \in NodeIds : ~Candidate(n, decision.wanted[k])
    BY <1>2, <2>1
  <2>6. Len(decision.wanted) \in 0..Len(decision.wanted)
    BY <2>1
  <2> QED
    BY <1>2, <2>2, <2>3, <2>4, <2>5, <2>6
<1>3. CASE /\ decision.wanted \in Seq(Models) /\ decision.consensus \in BOOLEAN
           /\ \E k \in DOMAIN decision.wanted : \E t :
                /\ decision.model = decision.wanted[k]
                /\ Ranked(t, decision.model, decision.consensus) /\ t # <<>>
                /\ decision.ids = [i \in DOMAIN t |-> t[i].id]
                /\ \A l \in DOMAIN decision.wanted, n \in NodeIds :
                     l < k => ~Candidate(n, decision.wanted[l])
  <2>1. PICK k \in DOMAIN decision.wanted : \E t :
                /\ decision.model = decision.wanted[k]
                /\ Ranked(t, decision.model, decision.consensus) /\ t # <<>>
                /\ decision.ids = [i \in DOMAIN t |-> t[i].id]
                /\ \A l \in DOMAIN decision.wanted, n \in NodeIds :
                     l < k => ~Candidate(n, decision.wanted[l])
    BY <1>3
  <2>2. PICK t :
                /\ decision.model = decision.wanted[k]
                /\ Ranked(t, decision.model, decision.consensus) /\ t # <<>>
                /\ decision.ids = [i \in DOMAIN t |-> t[i].id]
                /\ \A l \in DOMAIN decision.wanted, n \in NodeIds :
                     l < k => ~Candidate(n, decision.wanted[l])
    BY <2>1
  <2>3. /\ decision.ids \in Seq(NodeIds) /\ decision.ids # <<>>
        /\ \A i \in DOMAIN decision.ids : Candidate(decision.ids[i], decision.model)
        /\ \A n \in NodeIds : Candidate(n, decision.model) =>
                \E i \in DOMAIN decision.ids : decision.ids[i] = n
        /\ \A i, j \in DOMAIN decision.ids : i < j => Preferred(decision.ids[i], decision.ids[j])
    BY <2>2, RankedIds
  <2>4. \A i \in DOMAIN decision.ids : decision.ids[i] \in NodeIds
    BY <2>3
  <2>5. {decision.ids[i] : i \in DOMAIN decision.ids} = {n \in NodeIds : Candidate(n, decision.model)}
    BY <2>3, <2>4
  <2>6. k \in 1..Len(decision.wanted) /\ Len(decision.wanted) \in Nat
        /\ DOMAIN decision.wanted = 1..Len(decision.wanted)
    BY <1>3
  <2>7. PICK last : last = k - 1
    OBVIOUS
  <2>8. last \in 0..Len(decision.wanted) /\ last < Len(decision.wanted) /\ last + 1 = k
    BY <2>6, <2>7
  <2>9. \A l \in 1..last, n \in NodeIds : ~Candidate(n, decision.wanted[l])
    BY <2>2, <2>6, <2>8
  <2> QED
    BY <2>2, <2>3, <2>5, <2>8, <2>9
<1> QED
  BY <1>1, <1>2, <1>3, Readout

\* The invariant tells that the nodes of a decision are alive.
LEMMA RoutedAlive == RoutingInv => RoutedNodesAreAlive
<1> SUFFICES ASSUME RoutingInv, NEW i \in DOMAIN decision.ids
             PROVE  LET n == decision.ids[i] IN
                    /\ fleet[n] # NoRec => fleet[n].approval = "approved" /\ fleet[n].enabled
                    /\ beats[n] \in 0..Window \cup {Never}
  BY DEF RoutedNodesAreAlive
<1>1. PICK n : n = decision.ids[i]
  OBVIOUS
<1>2. decision.ids # <<>> /\ decision # NoDecision
  BY DEF NoDecision
<1>3. n \in NodeIds /\ Candidate(n, decision.model)
  <2>1. \E t : /\ Ranked(t, decision.model, decision.consensus) /\ t # <<>>
               /\ decision.ids = [x \in DOMAIN t |-> t[x].id]
    BY <1>2, Readout
  <2>2. PICK t : /\ Ranked(t, decision.model, decision.consensus) /\ t # <<>>
                 /\ decision.ids = [x \in DOMAIN t |-> t[x].id]
    BY <2>1
  <2>3. /\ decision.ids \in Seq(NodeIds)
        /\ \A x \in DOMAIN decision.ids : Candidate(decision.ids[x], decision.model)
    BY <2>2, RankedIds
  <2> QED
    BY <1>1, <2>3
<1>4. Sound(fleet[n], beats[n])
  BY <1>3 DEF RoutingInv
<1>5. fleet[n] # NoRec =>
        /\ fleet[n].enabled /\ fleet[n].approval = "approved"
        /\ fleet[n].required /\ fleet[n].control = "managed" => fleet[n].heard <= Window
  BY <1>3 DEF Candidate, RecordOf, Eligible
<1>6. beats[n] # Never => beats[n] \in 0..Window
  <2> SUFFICES ASSUME beats[n] # Never PROVE beats[n] \in 0..Window
    OBVIOUS
  <2>1. /\ beats[n] \in Ages /\ fleet[n] # NoRec /\ fleet[n].required
        /\ fleet[n].control = "managed" /\ beats[n] = fleet[n].heard
    BY <1>4 DEF Sound
  <2>2. fleet[n].heard <= Window
    BY <1>5, <2>1
  <2> QED
    BY <2>1, <2>2, RoutingAssumption DEF Ages
<1> QED
  BY <1>1, <1>5, <1>6

\* A list of elements of S in the asymmetric order L, and one that has them all.
Sorted(a, m, S, L) ==
    /\ a \in [1..m -> S]
    /\ \A x, y \in S : ~(<<x, y>> \in L /\ <<y, x>> \in L)
    /\ \A i, j \in 1..m : i < j => <<a[i], a[j]>> \in L
Covers(b, n, a, m) == \A i \in 1..m : \E j \in 1..n : a[i] = b[j]

\* Only one list has the elements of another in a given order.
LEMMA SameList ==
    ASSUME NEW S, NEW L, NEW m \in Nat, NEW n \in Nat, NEW a, NEW b,
           Sorted(a, m, S, L), Sorted(b, n, S, L), Covers(b, n, a, m), Covers(a, m, b, n)
    PROVE  a = b
<1>0. /\ a \in [1..m -> S] /\ b \in [1..n -> S]
      /\ \A x, y \in S : ~(<<x, y>> \in L /\ <<y, x>> \in L)
      /\ \A i, j \in 1..m : i < j => <<a[i], a[j]>> \in L
      /\ \A i, j \in 1..n : i < j => <<b[i], b[j]>> \in L
      /\ \A i \in 1..m : \E j \in 1..n : a[i] = b[j]
      /\ \A j \in 1..n : \E i \in 1..m : a[i] = b[j]
  <2>1. \A j \in 1..n : \E i \in 1..m : b[j] = a[i]
    BY DEF Covers
  <2>2. \A i \in 1..m : \E j \in 1..n : a[i] = b[j]
    BY DEF Covers
  <2> QED
    BY <2>1, <2>2 DEF Sorted
<1>1. \A i, j \in 1..m : i < j => a[i] # a[j]
  BY <1>0
<1>2. \A i, j \in 1..n : i < j => b[i] # b[j]
  BY <1>0
<1>3. PICK Bad : /\ Bad \subseteq 1..m
                 /\ \A k \in 1..m : k \in Bad <=> k > n \/ a[k] # b[k]
  <2>1. PICK B : B = {k \in 1..m : k > n \/ a[k] # b[k]}
    OBVIOUS
  <2>2. B \subseteq 1..m
    BY <2>1
  <2>3. \A k \in 1..m : k \in B <=> k > n \/ a[k] # b[k]
    BY <2>1
  <2> QED
    BY <2>2, <2>3
<1>4. Bad = {}
  <2> SUFFICES ASSUME Bad # {} PROVE FALSE
    OBVIOUS
  <2>1. Bad \subseteq Nat
    BY <1>3
  <2>2. PICK k \in Bad : \A y \in Bad : k <= y
    BY <2>1, LeastOf
  <2>3. k \in 1..m
    BY <1>3
  <2>4. \A l \in 1..m : l < k => l \in 1..n /\ a[l] = b[l]
    <3> SUFFICES ASSUME NEW l \in 1..m, l < k PROVE l \in 1..n /\ a[l] = b[l]
      OBVIOUS
    <3>1. l \notin Bad
      BY <2>2, <2>3
    <3>2. ~(l > n) /\ a[l] = b[l]
      BY <1>3, <3>1
    <3> QED
      BY <3>2
  <2>5. PICK j \in 1..n : a[k] = b[j]
    BY <1>0, <2>3
  <2>6. ~(j < k)
    <3> SUFFICES ASSUME j < k PROVE FALSE
      OBVIOUS
    <3>1. j \in 1..m
      BY <2>3
    <3>2. a[j] = a[k]
      BY <2>4, <2>5, <3>1
    <3> QED
      BY <1>1, <2>3, <3>1, <3>2
  <2>7. k \in 1..n /\ a[k] # b[k]
    BY <1>3, <2>2, <2>3, <2>6
  <2>8. <<b[k], a[k]>> \in L
    BY <1>0, <2>3, <2>5, <2>6, <2>7
  <2>9. PICK i \in 1..m : a[i] = b[k]
    BY <1>0, <2>7
  <2>10. ~(i < k)
    <3> SUFFICES ASSUME i < k PROVE FALSE
      OBVIOUS
    <3>1. i \in 1..n /\ b[i] = b[k]
      BY <2>4, <2>9
    <3> QED
      BY <1>2, <2>7, <3>1
  <2>11. <<a[k], b[k]>> \in L
    BY <1>0, <2>3, <2>7, <2>9, <2>10
  <2>12. a[k] \in S /\ b[k] \in S
    BY <1>0, <2>3, <2>7
  <2> QED
    BY <1>0, <2>8, <2>11, <2>12
<1>5. \A k \in 1..m : k <= n /\ a[k] = b[k]
  BY <1>3, <1>4
<1>6. m <= n
  BY <1>5
<1>7. n <= m
  <2> SUFFICES ASSUME m < n PROVE FALSE
    OBVIOUS
  <2>1. PICK k \in 1..n : k = m + 1
    OBVIOUS
  <2>2. PICK i \in 1..m : a[i] = b[k]
    BY <1>0
  <2>3. i \in 1..n /\ i < k /\ b[i] = b[k]
    BY <1>5, <2>1, <2>2
  <2> QED
    BY <1>2, <2>3
<1> QED
  BY <1>0, <1>5, <1>6, <1>7

\* n before x for the model, by the scores of a request that is no consensus.
Precedes(n, x, model) ==
    LET p == Placement(RecordOf(n), model)  px == Placement(RecordOf(x), model)
        s == Score(RecordOf(n), FALSE)      sx == Score(RecordOf(x), FALSE)
    IN  p > px \/ (p = px /\ (s > sx \/ (s = sx /\ n < x)))

ManagedAndTrusted(r) == r.control = "managed" /\ r.trust \in {"local", "lan_trusted"}

\* What a decision knows of a node has the type of a record.
LEMMA RecordTyped ==
    ASSUME FleetTyped, NEW n \in NodeIds
    PROVE  RecordOf(n) \in Rec
BY ConfiguredTyped DEF FleetTyped, RecordOf

\* No two nodes precede each other.
LEMMA PrecedesAsymmetric ==
    ASSUME FleetTyped, NEW n \in NodeIds, NEW x \in NodeIds, NEW model,
           Precedes(n, x, model)
    PROVE  ~Precedes(x, n, model)
<1>1. RecordOf(n) \in Rec /\ RecordOf(x) \in Rec /\ n \in Int /\ x \in Int
  BY RecordTyped, RoutingAssumption
<1>2. /\ Placement(RecordOf(n), model) \in Nat /\ Placement(RecordOf(x), model) \in Nat
      /\ Score(RecordOf(n), FALSE) \in Int /\ Score(RecordOf(x), FALSE) \in Int
  BY <1>1, PlacementTyped, ScoreTyped
<1>3. PICK p \in Nat, px \in Nat, s \in Int, sx \in Int :
         /\ p = Placement(RecordOf(n), model) /\ px = Placement(RecordOf(x), model)
         /\ s = Score(RecordOf(n), FALSE) /\ sx = Score(RecordOf(x), FALSE)
  BY <1>2
<1>4. p > px \/ (p = px /\ (s > sx \/ (s = sx /\ n < x)))
  BY <1>3 DEF Precedes
<1>5. ~(px > p \/ (px = p /\ (sx > s \/ (sx = s /\ x < n))))
  BY <1>1, <1>4
<1> QED
  BY <1>3, <1>5 DEF Precedes

\* Consensus takes the managed and trusted nodes of those that may serve.
LEMMA FitsConsensus ==
    ASSUME NEW r \in Rec, NEW model
    PROVE  Fits(r, model, TRUE) <=> Fits(r, model, FALSE) /\ ManagedAndTrusted(r)
<1>1. r.trust \in Trusts
  BY DEF Rec
<1> QED
  BY <1>1 DEF Fits, Eligible, ManagedAndTrusted, Trusts

\* A ranking is in that order in either mode, if the nodes are managed.
LEMMA RankedPrecedes ==
    ASSUME FleetTyped, NEW t, NEW model, NEW c \in BOOLEAN, Ranked(t, model, c),
           NEW i \in DOMAIN t, NEW j \in DOMAIN t, i < j,
           c => t[i].rec.control = "managed" /\ t[j].rec.control = "managed"
    PROVE  Precedes(t[i].id, t[j].id, model)
<1>1. Ahead(t[i], t[j], model, c)
  BY DEF Ranked
<1>2. PICK r \in Rec, x \in Rec : /\ r = t[i].rec /\ x = t[j].rec
                                  /\ r = RecordOf(t[i].id) /\ x = RecordOf(t[j].id)
  BY DEF Ranked, Entry
<1>3. /\ Placement(r, model) \in Nat /\ Placement(x, model) \in Nat
      /\ Score(r, c) \in Int /\ Score(x, c) \in Int
      /\ Score(r, FALSE) \in Int /\ Score(x, FALSE) \in Int
  BY PlacementTyped, ScoreTyped
<1>4. /\ Score(r, c) > Score(x, c) <=> Score(r, FALSE) > Score(x, FALSE)
      /\ Score(r, c) = Score(x, c) <=> Score(r, FALSE) = Score(x, FALSE)
  <2>1. CASE c = TRUE
    <3>1. Score(r, TRUE) = Score(r, FALSE) + 20 /\ Score(x, TRUE) = Score(x, FALSE) + 20
      BY <1>2, <2>1, ScoreTyped
    <3>2. PICK p \in Int, q \in Int : p = Score(r, FALSE) /\ q = Score(x, FALSE)
      BY <1>3
    <3>3. Score(r, c) = Score(r, TRUE) /\ Score(x, c) = Score(x, TRUE)
      BY <2>1, Zenon
    <3>4. Score(r, c) = p + 20 /\ Score(x, c) = q + 20
      BY <3>1, <3>2, <3>3
    <3>5. (p + 20 > q + 20 <=> p > q) /\ (p + 20 = q + 20 <=> p = q)
      OBVIOUS
    <3> QED
      BY <3>2, <3>4, <3>5
  <2>2. CASE c = FALSE
    BY <2>2
  <2> QED
    BY <2>1, <2>2
<1> QED
  BY <1>1, <1>2, <1>4 DEF Ahead, Better, Precedes

\* The lists of the two modes have the same nodes in the same order.
LEMMA StricterFor ==
    ASSUME RoutingInv, decision.consensus, decision.ids # <<>>, NEW order \in Orders, NEW single,
           single = Selected([wanted |-> <<decision.model>>, consensus |-> FALSE], Known(order)).ids
    PROVE  decision.ids = Kept(single, {i \in DOMAIN single :
             /\ RecordOf(single[i]).control = "managed"
             /\ RecordOf(single[i]).trust \in {"local", "lan_trusted"}})
<1>1. FleetTyped
  BY DEF RoutingInv, FleetTyped
<1>2. decision # NoDecision
  BY DEF NoDecision
<1>3. /\ decision.wanted \in Seq(Models)
      /\ \E k \in DOMAIN decision.wanted : \E t :
           /\ decision.model = decision.wanted[k]
           /\ Ranked(t, decision.model, decision.consensus) /\ t # <<>>
           /\ decision.ids = [i \in DOMAIN t |-> t[i].id]
  BY <1>2, Readout
<1>4. PICK model \in Models : model = decision.model
  BY <1>3
<1>5. PICK t : /\ Ranked(t, model, decision.consensus) /\ t # <<>>
               /\ decision.ids = [i \in DOMAIN t |-> t[i].id]
  BY <1>3, <1>4
<1>6. Ranked(t, model, TRUE)
  <2>1. decision.consensus = TRUE
    BY <1>2, Readout
  <2> QED
    BY <1>5, <2>1
<1>7. PICK q : q = [wanted |-> <<model>>, consensus |-> FALSE]
  OBVIOUS
<1>8. /\ q \in Request /\ q.consensus = FALSE
      /\ DOMAIN q.wanted = {1} /\ q.wanted[1] = model
  BY <1>7 DEF Request
<1>9. PICK d : d = Selected(q, Known(order))
  OBVIOUS
<1>10. IsDecided(d, q) /\ d.ids = single
  BY <1>1, <1>4, <1>7, <1>8, <1>9, SelectedDecides
<1>11. PICK m \in Nat : t \in [1..m -> Entry] /\ DOMAIN t = 1..m
  BY <1>6 DEF Ranked
<1>12. \A i \in 1..m : /\ t[i].id \in NodeIds /\ t[i].rec \in Rec /\ t[i].rec = RecordOf(t[i].id)
                       /\ Present(t[i].id) /\ Fits(t[i].rec, model, TRUE)
  BY <1>6, <1>11 DEF Ranked, Entry
<1>13. \A i \in 1..m : Fits(t[i].rec, model, FALSE) /\ ManagedAndTrusted(t[i].rec)
  BY <1>12, FitsConsensus
<1>14. 1 \in 1..m
  <2>1. t \in Seq(Entry) /\ Len(t) = m
    BY <1>11, SequenceOf
  <2> QED
    BY <1>5, <2>1
<1>15. PICK u : /\ Ranked(u, model, FALSE)
                /\ single = [i \in DOMAIN u |-> u[i].id]
  <2>1. Present(t[1].id) /\ t[1].id \in NodeIds /\ Fits(RecordOf(t[1].id), q.wanted[1], q.consensus)
    BY <1>8, <1>12, <1>13, <1>14
  <2>2. \E k \in DOMAIN q.wanted : \E u :
         /\ d.model = q.wanted[k] /\ Ranked(u, d.model, q.consensus)
         /\ d.ids = [i \in DOMAIN u |-> u[i].id]
    BY <1>8, <1>10, <2>1 DEF IsDecided
  <2>3. PICK u : /\ d.model = q.wanted[1] /\ Ranked(u, d.model, q.consensus)
                 /\ d.ids = [i \in DOMAIN u |-> u[i].id]
    BY <1>8, <2>2
  <2>4. Ranked(u, model, FALSE)
    BY <1>8, <2>3
  <2> QED
    BY <1>10, <2>3, <2>4
<1>16. PICK n \in Nat : u \in [1..n -> Entry] /\ DOMAIN u = 1..n
  BY <1>15 DEF Ranked
<1>17. \A i \in 1..n : /\ u[i].id \in NodeIds /\ u[i].rec \in Rec /\ u[i].rec = RecordOf(u[i].id)
                       /\ Present(u[i].id) /\ Fits(u[i].rec, model, FALSE)
  BY <1>15, <1>16 DEF Ranked, Entry
<1>18. DOMAIN single = 1..n /\ \A i \in 1..n : single[i] = u[i].id
  BY <1>15, <1>16
<1>19. PICK a : a = decision.ids
  OBVIOUS
<1>20. a \in [1..m -> NodeIds] /\ \A i \in 1..m : a[i] = t[i].id
  BY <1>5, <1>11, <1>12, <1>19
<1>21. PICK I \in SUBSET (1..n) : I = {i \in DOMAIN single :
             /\ RecordOf(single[i]).control = "managed"
             /\ RecordOf(single[i]).trust \in {"local", "lan_trusted"}}
  BY <1>18
<1>22. \A i \in 1..n : i \in I <=> ManagedAndTrusted(u[i].rec)
  BY <1>17, <1>18, <1>21 DEF ManagedAndTrusted
<1>23. PICK b : b = Kept(single, I)
  OBVIOUS
<1>24. PICK len \in Nat : \E f : Takes(b, single, I, len, f) /\ \A k, l \in 1..len : k < l => f[k] < f[l]
  BY <1>23, KeptOf
<1>25. PICK f : Takes(b, single, I, len, f) /\ \A k, l \in 1..len : k < l => f[k] < f[l]
  BY <1>24
<1>26. \A k \in 1..len : f[k] \in I /\ f[k] \in 1..n /\ b[k] = u[f[k]].id
  BY <1>18, <1>25 DEF Takes
<1>27. b \in [1..len -> NodeIds]
  <2>1. \A k \in 1..len : single[f[k]] \in NodeIds
    BY <1>17, <1>18, <1>26
  <2> QED
    BY <1>25, <2>1 DEF Takes
<1>28. PICK L : L = {p \in NodeIds \X NodeIds : Precedes(p[1], p[2], model)}
  OBVIOUS
<1>29. \A x, y \in NodeIds : ~(<<x, y>> \in L /\ <<y, x>> \in L)
  BY <1>1, <1>28, PrecedesAsymmetric
<1>30. \A i, j \in 1..m : i < j => <<a[i], a[j]>> \in L
  <2> SUFFICES ASSUME NEW i \in 1..m, NEW j \in 1..m, i < j PROVE <<a[i], a[j]>> \in L
    OBVIOUS
  <2>1. t[i].rec.control = "managed" /\ t[j].rec.control = "managed"
    BY <1>13 DEF ManagedAndTrusted
  <2>2. Precedes(t[i].id, t[j].id, model)
    BY <1>1, <1>6, <1>11, <2>1, RankedPrecedes
  <2> QED
    BY <1>12, <1>20, <1>28, <2>2
<1>31. \A i, j \in 1..len : i < j => <<b[i], b[j]>> \in L
  <2> SUFFICES ASSUME NEW i \in 1..len, NEW j \in 1..len, i < j PROVE <<b[i], b[j]>> \in L
    OBVIOUS
  <2>1. PICK fi \in 1..n, fj \in 1..n : fi = f[i] /\ fj = f[j] /\ fi < fj
    BY <1>25, <1>26
  <2>2. Precedes(u[fi].id, u[fj].id, model)
    BY <1>1, <1>15, <1>16, <2>1, RankedPrecedes
  <2> QED
    BY <1>17, <1>26, <1>28, <2>1, <2>2
<1>32. \A i \in 1..m : \E j \in 1..len : a[i] = b[j]
  <2> SUFFICES ASSUME NEW i \in 1..m PROVE \E j \in 1..len : a[i] = b[j]
    OBVIOUS
  <2>1. PICK k \in 1..n : u[k].id = t[i].id
    BY <1>12, <1>13, <1>15, <1>16 DEF Ranked
  <2>2. k \in I
    BY <1>12, <1>13, <1>17, <1>22, <2>1
  <2>3. PICK j \in 1..len : f[j] = k
    BY <1>25, <2>2 DEF Takes
  <2> QED
    BY <1>20, <1>26, <2>1, <2>3
<1>33. \A j \in 1..len : \E i \in 1..m : a[i] = b[j]
  <2> SUFFICES ASSUME NEW j \in 1..len PROVE \E i \in 1..m : a[i] = b[j]
    OBVIOUS
  <2>1. PICK k \in I : k \in 1..n /\ k = f[j] /\ b[j] = u[k].id
    BY <1>26
  <2>2. Fits(u[k].rec, model, TRUE)
    BY <1>17, <1>22, <2>1, FitsConsensus
  <2>3. PICK i \in 1..m : t[i].id = u[k].id
    BY <1>6, <1>11, <1>17, <2>1, <2>2 DEF Ranked
  <2> QED
    BY <1>20, <2>1, <2>3
<1>34. a = b
  <2>1. Sorted(a, m, NodeIds, L) /\ Sorted(b, len, NodeIds, L)
    BY <1>20, <1>27, <1>29, <1>30, <1>31 DEF Sorted
  <2>2. Covers(b, len, a, m)
    BY <1>32 DEF Covers
  <2>3. Covers(a, m, b, len)
    BY <1>33 DEF Covers
  <2> QED
    BY <2>1, <2>2, <2>3, SameList
<1> QED
  BY <1>19, <1>21, <1>23, <1>34

\* The same, as the property says it.
LEMMA Stricter == RoutingInv => ConsensusIsStricter
<1> SUFFICES ASSUME RoutingInv, decision.consensus, decision.ids # <<>>, NEW order \in Orders
             PROVE  LET single == Selected([wanted |-> <<decision.model>>, consensus |-> FALSE],
                                           Known(order)).ids
                    IN  decision.ids = Kept(single, {i \in DOMAIN single :
                          /\ RecordOf(single[i]).control = "managed"
                          /\ RecordOf(single[i]).trust \in {"local", "lan_trusted"}})
  BY DEF ConsensusIsStricter
<1> QED
  BY StricterFor

\* The invariant has the types in it.
LEMMA RoutingTyped == RoutingInv => RoutingTypeOK
<1> SUFFICES ASSUME RoutingInv PROVE RoutingTypeOK
  OBVIOUS
<1>1. /\ fleet \in [NodeIds -> Rec \cup {NoRec}]
      /\ beats \in [NodeIds -> Ages \cup {Never}]
      /\ events \in 0 .. MaxEvents
      /\ \A n \in NodeIds : fleet[n] # NoRec => Len(fleet[n].results) <= MaxResults
  BY DEF RoutingInv, Sound
<1>2. CASE decision = NoDecision
  <2>1. /\ decision.wanted = <<>> /\ decision.consensus = FALSE
        /\ decision.model = 0 /\ decision.ids = <<>>
    BY <1>2 DEF NoDecision
  <2>2. decision.wanted \in Seq(Models)
    BY <2>1
  <2>3. decision.ids \in Seq(NodeIds)
    BY <2>1
  <2>4. decision.consensus \in BOOLEAN /\ decision.model \in Models \cup {0}
    BY <2>1
  <2> QED
    BY <1>1, <2>2, <2>3, <2>4 DEF RoutingTypeOK
<1>3. CASE decision # NoDecision /\ decision.ids = <<>>
  <2>1. decision.wanted \in Seq(Models) /\ decision.consensus \in BOOLEAN
    BY <1>3, Readout
  <2>2. decision.model \in Models \cup {0}
    BY <1>3, <2>1, Readout
  <2>3. decision.ids \in Seq(NodeIds)
    BY <1>3
  <2> QED
    BY <1>1, <2>1, <2>2, <2>3 DEF RoutingTypeOK
<1>4. CASE decision # NoDecision /\ decision.ids # <<>>
  <2>1. /\ decision.wanted \in Seq(Models) /\ decision.consensus \in BOOLEAN
        /\ \E k \in DOMAIN decision.wanted : decision.model = decision.wanted[k]
        /\ \E t : /\ Ranked(t, decision.model, decision.consensus) /\ t # <<>>
                  /\ decision.ids = [x \in DOMAIN t |-> t[x].id]
    BY <1>4, Readout
  <2>2. decision.model \in Models
    BY <2>1
  <2>3. PICK t : /\ Ranked(t, decision.model, decision.consensus) /\ t # <<>>
                 /\ decision.ids = [x \in DOMAIN t |-> t[x].id]
    BY <2>1
  <2>4. decision.ids \in Seq(NodeIds)
    BY <2>3, RankedIds
  <2> QED
    BY <1>1, <2>1, <2>2, <2>4 DEF RoutingTypeOK
<1> QED
  BY <1>2, <1>3, <1>4

--------------------------------------------------------------------------------
\* The inductive invariant of the fleet and the decision made of it: records and
\* signs of life agree, and a decision is the one that the fleet as it is leads
\* to.
THEOREM RoutingCorrect == RoutingSpec => []RoutingInv
<1> QED
  BY InvRoutingInit, InvRoutingNext, PTL DEF RoutingSpec

\* Every variable has its type, and no node keeps more results than it may
\* (appendBenchmarkResult).
THEOREM RoutingTypeCorrect == RoutingSpec => []RoutingTypeOK
<1> QED
  BY RoutingCorrect, RoutingTyped, PTL

\* For any number of nodes, whatever the order of the map and whatever the
\* records say, a decision has exactly the nodes that may serve the first model
\* that any can serve, in the order of the policy (routing.Select).
THEOREM DecisionsFollowPolicy == RoutingSpec => []DecisionFollowsPolicy
<1> QED
  BY RoutingCorrect, PolicyFollowed, PTL

\* No decision has a node that is not approved, or that fell silent: no handler
\* loses the time of the last heartbeat or the duty to send them (classify,
\* heartbeatFreshness, the handlers of the registry).
THEOREM RoutedNodesAlive == RoutingSpec => []RoutedNodesAreAlive
<1> QED
  BY RoutingCorrect, RoutedAlive, PTL

\* Consensus asks the managed and trusted ones of the nodes that one request
\* would ask, in the same order, although it scores them differently (classify,
\* score).
THEOREM ConsensusStricter == RoutingSpec => []ConsensusIsStricter
<1> QED
  BY RoutingCorrect, Stricter, PTL

================================================================================
