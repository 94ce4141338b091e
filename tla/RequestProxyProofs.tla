-------------------------- MODULE RequestProxyProofs ---------------------------
(***************************************************************************)
(* Theorems about RequestProxy, for any number of requests, nodes and      *)
(* candidate lists.  The inductive invariant says, for each label of the   *)
(* handler, what the client was given so far and which nodes were tried.   *)
(***************************************************************************)
EXTENDS RequestProxy, SequenceTheorems, TLAPS

\* What the client of r was given, by where the handler is.
Given(r) ==
    /\ pc[r] \in {"queued", "routed", "next", "sent", "reading"} =>
          heads[r] = 0 /\ chunks[r] = 0 /\ status[r] = "none"
    /\ pc[r] = "streaming" => heads[r] = 1 /\ chunks[r] > 0 /\ status[r] = "none"
    /\ pc[r] = "done" =>
          /\ status[r] # "none"
          /\ heads[r] <= 1
          /\ status[r] # "cancelled" => heads[r] = 1
          /\ status[r] = "cancelled" => gone[r]
          /\ status[r] = "partial" => chunks[r] > 0
          /\ chunks[r] > 0 => heads[r] = 1

\* A handler past the routing decision has candidates and a node.
Routed(r) ==
    pc[r] = "routed" => candidates[r] # <<>> /\ chosen[r] \in Nodes

AnswerInv == TypeOK /\ \A r \in Requests : Given(r) /\ Routed(r)

\* Nothing is given to a client before the routing decision.
LEMMA AnswerInvInit == Init => AnswerInv
  BY ConstantsAssumption DEF Init, AnswerInv, TypeOK, Given, Routed, Labels, Final

\* What the end of a handler writes.
LEMMA EndFacts ==
    ASSUME TypeOK, NEW r \in Requests, NEW h \in Nat, NEW c \in Nat, NEW s \in Final,
           End(r, h, c, s)
    PROVE  /\ heads' \in [Requests -> Nat] /\ heads'[r] = heads[r] + h
           /\ chunks' \in [Requests -> Nat] /\ chunks'[r] = chunks[r] + c
           /\ status' \in [Requests -> Final \union {"none"}] /\ status'[r] = s
           /\ pc' \in [Requests -> Labels] /\ pc'[r] = "done"
  BY DEF TypeOK, End, Goto, Labels

\* Every step of a handler keeps the types and its own part of the invariant.
LEMMA AnswerStep ==
    ASSUME AnswerInv, NEW r \in Requests, Step(r) \/ ClientLeaves(r)
    PROVE  TypeOK' /\ Given(r)' /\ Routed(r)'
<1> USE DEF AnswerInv
<1> USE DEF TypeOK, Labels, Final, Given, Routed, routeVars, answerVars
<1>1. CASE RouteNone(r)
  <2>1. End(r, 1, 0, "failed")
    BY <1>1 DEF RouteNone
  <2>2. TypeOK'
    BY <1>1, <2>1, EndFacts DEF RouteNone
  <2>3. Given(r)' /\ Routed(r)'
    BY <1>1, <2>1, EndFacts DEF RouteNone
  <2> QED
    BY <2>2, <2>3
<1>2. CASE Route(r)
  <2>1. PICK c \in CandidateLists \ {<<>>} :
           /\ candidates' = [candidates EXCEPT ![r] = c]
           /\ chosen' = [chosen EXCEPT ![r] =
                 IF /\ Affinity \in {"strict", "task"}
                    /\ \E k \in 1..Len(c) : c[k] = session
                 THEN session ELSE c[1]]
    BY <1>2 DEF Route
  <2>2. c \in Seq(Nodes) /\ c # <<>> /\ c[1] \in Nodes
    BY ConstantsAssumption
  <2>3. chosen'[r] \in Nodes
    BY <2>1, <2>2
  <2>4. chosen' \in [Requests -> Nodes \union {NoNode}] /\ candidates' \in [Requests -> Seq(Nodes)]
    BY <2>1, <2>2
  <2> QED
    BY <1>2, <2>1, <2>2, <2>3, <2>4 DEF Route, Goto
<1>3. CASE Pin(r)
  <2>1. chosen[r] \in Nodes /\ candidates[r] \in Seq(Nodes) /\ candidates[r] # <<>>
    BY <1>3 DEF Pin
  <2>2. <<chosen[r]>> \o Tail(candidates[r]) \in Seq(Nodes)
    BY <2>1
  <2> QED
    BY <1>3, <2>1, <2>2 DEF Pin, Goto
<1>4. CASE MissingURL(r)
  BY <1>4 DEF MissingURL, NextNode, Node, Goto
<1>5. CASE SendRequest(r)
  BY <1>5 DEF SendRequest, Node, Goto
<1>6. CASE SendCancelled(r)
  <2>1. End(r, 0, 0, "cancelled")
    BY <1>6 DEF SendCancelled
  <2> QED
    BY <1>6, <2>1, EndFacts DEF SendCancelled
<1>7. CASE Exhausted(r)
  <2>1. End(r, 1, 0, "failed")
    BY <1>7 DEF Exhausted
  <2> QED
    BY <1>7, <2>1, EndFacts DEF Exhausted
<1>19. CASE BadURL(r)
  <2>1. End(r, 1, 0, "failed")
    BY <1>19 DEF BadURL
  <2> QED
    BY <1>19, <2>1, EndFacts DEF BadURL
<1>8. CASE CallFails(r)
  <2>1. CASE gone[r] /\ End(r, 0, 0, "cancelled") /\ UNCHANGED index
    <3>1. TypeOK'
      BY <1>8, <2>1, EndFacts DEF CallFails
    <3>2. Given(r)' /\ Routed(r)'
      BY <1>8, <2>1, EndFacts DEF CallFails
    <3> QED
      BY <3>1, <3>2
  <2>2. CASE ~ gone[r] /\ NextNode(r) /\ UNCHANGED answerVars
    BY <1>8, <2>2 DEF CallFails, NextNode, Goto
  <2> QED
    BY <1>8, <2>1, <2>2 DEF CallFails, Unanswered
<1>9. CASE Answer4xx(r)
  <2>1. End(r, 1, 0, "failed")
    BY <1>9 DEF Answer4xx
  <2> QED
    BY <1>9, <2>1, EndFacts DEF Answer4xx
<1>10. CASE Answer5xx(r)
  BY <1>10 DEF Answer5xx, NextNode, Goto
<1>11. CASE AnswerOK(r)
  BY <1>11 DEF AnswerOK, Goto
<1>12. CASE ReadFails(r)
  <2>1. CASE gone[r] /\ End(r, 0, 0, "cancelled") /\ UNCHANGED index
    BY <1>12, <2>1, EndFacts DEF ReadFails
  <2>2. CASE ~ gone[r] /\ NextNode(r) /\ UNCHANGED answerVars
    BY <1>12, <2>2 DEF ReadFails, NextNode, Goto
  <2> QED
    BY <1>12, <2>1, <2>2 DEF ReadFails, Unanswered
<1>13. CASE CopyWhole(r)
  <2>1. PICK c \in 0..1 : \E s \in {"completed", BrokenOff(r, c)} : End(r, 1, c, s)
    BY <1>13 DEF CopyWhole
  <2>2. PICK s \in {"completed", BrokenOff(r, c)} : End(r, 1, c, s)
    BY <2>1
  <2> QED
    BY <1>13, <2>2, EndFacts DEF CopyWhole, BrokenOff
<1>14. CASE CopyFirstAndEnd(r)
  <2>1. PICK c \in 0..1 : \E s \in {"completed", BrokenOff(r, c)} : End(r, 1, c, s)
    BY <1>14 DEF CopyFirstAndEnd
  <2>2. PICK s \in {"completed", BrokenOff(r, c)} : End(r, 1, c, s)
    BY <2>1
  <2> QED
    BY <1>14, <2>2, EndFacts DEF CopyFirstAndEnd, BrokenOff
<1>15. CASE CopyFirst(r)
  BY <1>15 DEF CopyFirst, Goto
<1>16. CASE CopyMore(r)
  BY <1>16 DEF CopyMore
<1>17. CASE CopyEnds(r)
  <2>1. PICK s \in {"completed", BrokenOff(r, chunks[r])} : End(r, 0, 0, s)
    BY <1>17 DEF CopyEnds
  <2> QED
    BY <1>17, <2>1, EndFacts DEF CopyEnds, BrokenOff
<1>18. CASE ClientLeaves(r)
  BY <1>18 DEF ClientLeaves
<1> QED
  BY <1>1, <1>2, <1>3, <1>4, <1>5, <1>6, <1>7, <1>8, <1>9, <1>10, <1>11, <1>12, <1>13,
     <1>14, <1>15, <1>16, <1>17, <1>18, <1>19
  DEF Step, Proceed, Copy

\* A step of one handler leaves the others alone.
LEMMA OthersKept ==
    ASSUME TypeOK, NEW r \in Requests, Step(r) \/ ClientLeaves(r),
           NEW q \in Requests, q # r
    PROVE  /\ pc'[q] = pc[q] /\ heads'[q] = heads[q] /\ chunks'[q] = chunks[q]
           /\ status'[q] = status[q] /\ gone'[q] = gone[q]
           /\ candidates'[q] = candidates[q] /\ chosen'[q] = chosen[q]
           /\ nodes'[q] = nodes[q] /\ index'[q] = index[q]
           /\ tried'[q] = tried[q] /\ skipped'[q] = skipped[q]
<1> USE DEF TypeOK, routeVars, answerVars, Goto, End
<1>1. CASE RouteNone(r) \/ Route(r) \/ Pin(r)
  BY <1>1 DEF RouteNone, Route, Pin
<1>2. CASE MissingURL(r) \/ BadURL(r) \/ SendRequest(r) \/ SendCancelled(r) \/ Exhausted(r)
  BY <1>2 DEF MissingURL, BadURL, SendRequest, SendCancelled, Exhausted, NextNode
<1>3. CASE CallFails(r) \/ ReadFails(r)
  BY <1>3 DEF CallFails, ReadFails, Unanswered, NextNode
<1>4. CASE Answer4xx(r) \/ Answer5xx(r) \/ AnswerOK(r)
  BY <1>4 DEF Answer4xx, Answer5xx, AnswerOK, NextNode
<1>5. CASE CopyWhole(r) \/ CopyFirstAndEnd(r) \/ CopyEnds(r)
  BY <1>5 DEF CopyWhole, CopyFirstAndEnd, CopyEnds
<1>6. CASE CopyFirst(r) \/ CopyMore(r) \/ ClientLeaves(r)
  BY <1>6 DEF CopyFirst, CopyMore, ClientLeaves
<1> QED
  BY <1>1, <1>2, <1>3, <1>4, <1>5, <1>6 DEF Step, Proceed, Copy

\* What every client was given stays in step with its handler.
LEMMA AnswerInvStep == AnswerInv /\ [Next]_vars => AnswerInv'
<1> SUFFICES ASSUME AnswerInv, [Next]_vars PROVE AnswerInv'
  OBVIOUS
<1>1. ASSUME NEW r \in Requests, Step(r) \/ ClientLeaves(r) PROVE AnswerInv'
  <2>1. TypeOK' /\ Given(r)' /\ Routed(r)'
    BY <1>1, AnswerStep
  <2>2. ASSUME NEW q \in Requests, q # r PROVE Given(q)' /\ Routed(q)'
    <3>1. /\ pc'[q] = pc[q] /\ heads'[q] = heads[q] /\ chunks'[q] = chunks[q]
          /\ status'[q] = status[q] /\ gone'[q] = gone[q]
          /\ candidates'[q] = candidates[q] /\ chosen'[q] = chosen[q]
      BY <1>1, <2>2, OthersKept DEF AnswerInv
    <3>2. Given(q) /\ Routed(q)
      BY DEF AnswerInv
    <3> QED
      BY <3>1, <3>2 DEF Given, Routed
  <2> QED
    BY <2>1, <2>2 DEF AnswerInv
<1>2. CASE UNCHANGED vars
  BY <1>2 DEF vars, AnswerInv, TypeOK, Given, Routed
<1> QED
  BY <1>1, <1>2 DEF Next

\* The client is given exactly one response head unless it left, whatever the
\* nodes answer and wherever they break off, and the queue status says so.
THEOREM ClientGetsOneAnswer == Spec => []OneAnswer
<1>1. AnswerInv => OneAnswer
  BY DEF AnswerInv, OneAnswer, Given, TypeOK, Labels
<1> QED
  BY <1>1, AnswerInvInit, AnswerInvStep, PTL DEF Spec

\* No further node is sent a request of which the client has seen anything, or
\* whose client has left.
THEOREM OutputIsNeverRetried == Spec => NoRetryAfterOutput
<1>1. AnswerInv /\ [Next]_vars =>
         [\A r \in Requests : heads[r] > 0 \/ gone[r] => tried'[r] = tried[r]]_vars
  <2> SUFFICES ASSUME AnswerInv, Next, NEW q \in Requests, heads[q] > 0 \/ gone[q]
               PROVE  tried'[q] = tried[q]
    OBVIOUS
  <2>1. PICK r \in Requests : Step(r) \/ ClientLeaves(r)
    BY DEF Next
  <2>2. CASE q # r
    BY <2>1, <2>2, OthersKept DEF AnswerInv
  <2>3. CASE q = r
    <3>1. CASE SendRequest(r)
      BY <2>3, <3>1 DEF SendRequest, AnswerInv, Given
    <3>2. CASE ~ SendRequest(r)
      BY <2>1, <2>3, <3>2
      DEF Step, Proceed, Copy, RouteNone, Route, Pin, MissingURL, BadURL, SendCancelled, Exhausted, CallFails,
          Answer4xx, Answer5xx, AnswerOK, ReadFails, CopyWhole, CopyFirstAndEnd,
          CopyFirst, CopyMore, CopyEnds, ClientLeaves
    <3> QED
      BY <3>1, <3>2
  <2> QED
    BY <2>2, <2>3
<1> QED
  BY <1>1, AnswerInvInit, AnswerInvStep, PTL DEF Spec, NoRetryAfterOutput
-------------------------------------------------------------------------------
\* The node that r tries first, and the condition on it: another one than the
\* first candidate only where the session pins.
FirstOK(r) == Affinity \in {"strict", "task"} \/ chosen[r] = candidates[r][1]

\* Which nodes r has been through: all before its position, and the one at its
\* position once the request was sent; from the second on they are the
\* candidates in order.
Through(r) ==
    /\ pc[r] = "queued" => candidates[r] = <<>> /\ nodes[r] = <<>>
    /\ pc[r] = "routed" => candidates[r] # <<>> /\ FirstOK(r) /\ index[r] = 1
    /\ pc[r] \notin {"queued", "routed"} =>
          /\ Len(nodes[r]) = Len(candidates[r])
          /\ \A k \in 1..Len(candidates[r]) :
                nodes[r][k] = IF k = 1 THEN chosen[r] ELSE candidates[r][k]
          /\ candidates[r] # <<>> => FirstOK(r)
    /\ pc[r] \in {"queued"} => index[r] = 1
    /\ pc[r] \in {"sent", "reading", "streaming"} =>
          index[r] <= Len(nodes[r]) /\ Node(r) \in tried[r]
    /\ \A k \in 1..Len(nodes[r]) :
          k < index[r] => nodes[r][k] \in tried[r] \union skipped[r]

\* A list with another node in the place of its head.
LEMMA NewHead ==
    ASSUME NEW c \in Seq(Nodes), c # <<>>, NEW n \in Nodes \union {NoNode}
    PROVE  /\ Len(<<n>> \o Tail(c)) = Len(c)
           /\ \A k \in 1..Len(c) : (<<n>> \o Tail(c))[k] = IF k = 1 THEN n ELSE c[k]
  OBVIOUS

\* A step of a handler keeps its own part of Through.
LEMMA ThroughStep ==
    ASSUME AnswerInv, NEW r \in Requests,
           Step(r) \/ ClientLeaves(r), Through(r)
    PROVE  Through(r)'
<1>0. TypeOK /\ Given(r) /\ Routed(r)
  BY DEF AnswerInv
<1> USE <1>0 DEF TypeOK, Through, FirstOK, routeVars, answerVars, Goto, Node
<1>1. CASE RouteNone(r)
  BY <1>1 DEF RouteNone, End
<1>2. CASE Route(r)
  BY <1>2, ConstantsAssumption DEF Route
<1>3. CASE Pin(r)
  <2>1. LET s == <<chosen[r]>> \o Tail(candidates[r])
            c == candidates[r]
        IN  Len(s) = Len(c) /\ \A k \in 1..Len(c) : s[k] = IF k = 1 THEN chosen[r] ELSE c[k]
    BY <1>3, NewHead DEF Pin, Routed
  <2> QED
    BY <1>3, <2>1 DEF Pin
<1>4. CASE MissingURL(r)
  BY <1>4 DEF MissingURL, NextNode
<1>5. CASE SendRequest(r)
  BY <1>5 DEF SendRequest
<1>6. CASE BadURL(r) \/ SendCancelled(r) \/ Exhausted(r) \/ Answer4xx(r)
  BY <1>6 DEF BadURL, SendCancelled, Exhausted, Answer4xx, End
<1>7. CASE CallFails(r) \/ ReadFails(r)
  BY <1>7 DEF CallFails, ReadFails, Unanswered, NextNode, End
<1>8. CASE Answer5xx(r) \/ AnswerOK(r)
  BY <1>8 DEF Answer5xx, AnswerOK, NextNode
<1>9. CASE CopyWhole(r) \/ CopyFirstAndEnd(r) \/ CopyEnds(r)
  BY <1>9 DEF CopyWhole, CopyFirstAndEnd, CopyEnds, End
<1>10. CASE CopyFirst(r) \/ CopyMore(r) \/ ClientLeaves(r)
  BY <1>10 DEF CopyFirst, CopyMore, ClientLeaves
<1> QED
  BY <1>1, <1>2, <1>3, <1>4, <1>5, <1>6, <1>7, <1>8, <1>9, <1>10 DEF Step, Proceed, Copy

\* A request is refused only after every candidate was sent the request or had
\* no proxy URL, whatever the other requests of its session do; only a session
\* that pins can take the first candidate's place (forwardWithFallback).
THEOREM AllCandidatesAreTried == Spec => []EveryCandidateTried
<1> DEFINE Inv == AnswerInv /\ \A r \in Requests : Through(r)
<1>1. Init => Inv
  <2>1. Init => \A r \in Requests : Through(r)
    BY DEF Init, Through
  <2> QED
    BY <2>1, AnswerInvInit
<1>2. Inv /\ [Next]_vars => Inv'
  <2> SUFFICES ASSUME Inv, [Next]_vars PROVE Inv'
    OBVIOUS
  <2>1. AnswerInv'
    BY AnswerInvStep
  <2>2. ASSUME NEW r \in Requests, Step(r) \/ ClientLeaves(r), NEW q \in Requests
        PROVE  Through(q)'
    <3>1. CASE q = r
      BY <2>2, <3>1, ThroughStep
    <3>2. CASE q # r
      <4>1. /\ pc'[q] = pc[q] /\ candidates'[q] = candidates[q] /\ chosen'[q] = chosen[q]
            /\ nodes'[q] = nodes[q] /\ index'[q] = index[q]
            /\ tried'[q] = tried[q] /\ skipped'[q] = skipped[q]
        BY <2>2, <3>2, OthersKept DEF AnswerInv
      <4> QED
        BY <4>1 DEF Through, FirstOK, Node
    <3> QED
      BY <3>1, <3>2
  <2>3. CASE UNCHANGED vars
    BY <2>1, <2>3 DEF vars, Through, FirstOK, Node
  <2> QED
    BY <2>1, <2>2, <2>3 DEF Next
<1>3. Inv => EveryCandidateTried
  <2> SUFFICES ASSUME Inv, NEW r \in Requests, Refused(r), NEW k \in 1..Len(candidates[r]),
                      ~ Displaced(r, k)
               PROVE  candidates[r][k] \in tried[r] \union skipped[r]
    BY DEF EveryCandidateTried
  <2>1. /\ candidates[r] \in Seq(Nodes) /\ nodes[r] \in Seq(Nodes) /\ index[r] \in Nat
        /\ pc[r] = "done" /\ index[r] > Len(nodes[r]) /\ Through(r)
    BY DEF AnswerInv, TypeOK, Refused
  <2>2. Len(nodes[r]) = Len(candidates[r]) /\ candidates[r] # <<>>
    BY <2>1 DEF Through
  <2>3. k < index[r] /\ k \in 1..Len(nodes[r])
    BY <2>1, <2>2
  <2>4. nodes[r][k] = candidates[r][k]
    BY <2>1, <2>2 DEF Through, FirstOK, Displaced
  <2> QED
    BY <2>1, <2>3, <2>4 DEF Through
<1> QED
  BY <1>1, <1>2, <1>3, PTL DEF Spec
===============================================================================
