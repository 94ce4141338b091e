----------------------------- MODULE RequestProxy ------------------------------
(***************************************************************************)
(* One inference request from its routing decision to its answer:          *)
(* marshalProxy after the queue, forwardWithFallback, copyUpstreamResponse *)
(* (internal/httpapi/server.go) and ApplyAffinity (internal/session).      *)
(* Requests of one session run concurrently and share the session record.  *)
(*                                                                         *)
(* The upstream nodes and the client are the environment: a node may       *)
(* answer anything, break off or never answer, in which case the HTTP      *)
(* client's timeout fails the call; the client may leave at any moment.    *)
(***************************************************************************)
EXTENDS Integers, Sequences, FiniteSets

CONSTANTS Requests,       \* requests of one session
          Nodes,          \* node identifiers
          CandidateLists, \* what routing.Select may return, best node first
          Affinity,       \* the session's affinity: none, soft, strict or task
          MaxChunks,      \* bound on the chunks of a streamed answer
          NoNode          \* no node

ASSUME ConstantsAssumption ==
    /\ NoNode \notin Nodes
    /\ CandidateLists \subseteq Seq(Nodes)
    /\ Affinity \in {"none", "soft", "strict", "task"}
    /\ MaxChunks \in Nat \ {0}

VARIABLES
    session,    \* the node the session record names, or NoNode
    pc,         \* pc[r]: where the handler of r is
    stream,     \* stream[r]: r asked for a streamed answer
    candidates, \* candidates[r]: the routing decision's candidate nodes
    chosen,     \* chosen[r]: the node ApplyAffinity settled on
    nodes,      \* nodes[r]: the nodes to try, in order
    index,      \* index[r]: the position in nodes[r]
    gone,       \* gone[r]: the client of r has left (ctx is done)
    tried,      \* tried[r]: the nodes r was sent to
    skipped,    \* skipped[r]: the nodes that had no proxy URL
    heads,      \* heads[r]: how often a response head was written to the client
    chunks,     \* chunks[r]: chunks of the body written to the client
    status      \* status[r]: the queue status the request ends with

vars == <<session, pc, stream, candidates, chosen, nodes, index, gone, tried, skipped,
          heads, chunks, status>>
routeVars == <<stream, candidates, chosen, nodes>>
answerVars == <<heads, chunks, status>>

Init ==
    /\ session = NoNode
    /\ pc = [r \in Requests |-> "queued"]
    /\ stream \in [Requests -> BOOLEAN]
    /\ candidates = [r \in Requests |-> <<>>]
    /\ chosen = [r \in Requests |-> NoNode]
    /\ nodes = [r \in Requests |-> <<>>]
    /\ index = [r \in Requests |-> 1]
    /\ gone = [r \in Requests |-> FALSE]
    /\ tried = [r \in Requests |-> {}]
    /\ skipped = [r \in Requests |-> {}]
    /\ heads = [r \in Requests |-> 0]
    /\ chunks = [r \in Requests |-> 0]
    /\ status = [r \in Requests |-> "none"]

Goto(r, l) == pc' = [pc EXCEPT ![r] = l]

\* The handler ends: h response heads are written, and c chunks of the body.
End(r, h, c, s) ==
    /\ Goto(r, "done")
    /\ heads' = [heads EXCEPT ![r] = @ + h]
    /\ chunks' = [chunks EXCEPT ![r] = @ + c]
    /\ status' = [status EXCEPT ![r] = s]
-------------------------------------------------------------------------------
(* The routing decision *)

\* routing.Select finds no eligible node: a 502.
RouteNone(r) ==
    /\ pc[r] = "queued"
    /\ <<>> \in CandidateLists
    /\ End(r, 1, 0, "failed")
    /\ UNCHANGED <<session, routeVars, index, gone, tried, skipped>>

\* routing.Select returns candidates, and ApplyAffinity reads the session:
\* strict and task affinity stay with its node while that is a candidate.
Route(r) ==
    /\ pc[r] = "queued"
    /\ \E c \in CandidateLists \ {<<>>} :
          /\ candidates' = [candidates EXCEPT ![r] = c]
          /\ chosen' = [chosen EXCEPT ![r] =
                IF /\ Affinity \in {"strict", "task"}
                   /\ \E k \in 1..Len(c) : c[k] = session
                THEN session ELSE c[1]]
    /\ Goto(r, "routed")
    /\ UNCHANGED <<session, stream, nodes, index, gone, tried, skipped, answerVars>>

\* Fault: the fallbacks lose their first node.
PinDroppingFallback(r) ==
    /\ pc[r] = "routed"
    /\ session' = IF Affinity = "none" THEN session ELSE chosen[r]
    /\ nodes' = [nodes EXCEPT ![r] =
          IF Len(candidates[r]) > 2
          THEN <<chosen[r]>> \o Tail(Tail(candidates[r]))
          ELSE <<chosen[r]>>]
    /\ Goto(r, "next")
    /\ UNCHANGED <<stream, candidates, chosen, index, gone, tried, skipped, answerVars>>

\* ApplyAffinity writes the session, under another lock than the read, and the
\* fallbacks are the candidates after the first.
Pin(r) ==
    /\ pc[r] = "routed"
    /\ session' = IF Affinity = "none" THEN session ELSE chosen[r]
    /\ nodes' = [nodes EXCEPT ![r] = <<chosen[r]>> \o Tail(candidates[r])]
    /\ Goto(r, "next")
    /\ UNCHANGED <<stream, candidates, chosen, index, gone, tried, skipped, answerVars>>
-------------------------------------------------------------------------------
(* The loop of forwardWithFallback *)

Node(r) == nodes[r][index[r]]

\* Fault: the loop does not advance.
SameNode(r) == Goto(r, "next") /\ UNCHANGED index

\* The next node is to be tried.
NextNode(r) ==
    /\ index' = [index EXCEPT ![r] = @ + 1]
    /\ Goto(r, "next")

\* nodeProxyURL knows no URL for the node (any more).
MissingURL(r) ==
    /\ pc[r] = "next"
    /\ index[r] <= Len(nodes[r])
    /\ skipped' = [skipped EXCEPT ![r] = @ \union {Node(r)}]
    /\ NextNode(r)
    /\ UNCHANGED <<session, routeVars, gone, tried, answerVars>>

\* The node's URL cannot be parsed: no request can be built and the loop ends,
\* fallbacks or not; marshalProxy writes a 502.
BadURL(r) ==
    /\ pc[r] = "next"
    /\ index[r] <= Len(nodes[r])
    /\ End(r, 1, 0, "failed")
    /\ UNCHANGED <<session, routeVars, index, gone, tried, skipped>>

\* client.Do sends the request to the node.
SendRequest(r) ==
    /\ pc[r] = "next"
    /\ index[r] <= Len(nodes[r])
    /\ ~ gone[r]
    /\ tried' = [tried EXCEPT ![r] = @ \union {Node(r)}]
    /\ Goto(r, "sent")
    /\ UNCHANGED <<session, routeVars, index, gone, skipped, answerVars>>

\* client.Do fails at once because the client has left.
SendCancelled(r) ==
    /\ pc[r] = "next"
    /\ index[r] <= Len(nodes[r])
    /\ gone[r]
    /\ End(r, 0, 0, "cancelled")
    /\ UNCHANGED <<session, routeVars, index, gone, tried, skipped>>

\* No node is left: marshalProxy writes a 502.
Exhausted(r) ==
    /\ pc[r] = "next"
    /\ index[r] > Len(nodes[r])
    /\ End(r, 1, 0, "failed")
    /\ UNCHANGED <<session, routeVars, index, gone, tried, skipped>>

\* The call, or the reading of the body before anything was written, fails:
\* the next node is tried unless the client has left.
Unanswered(r) ==
    \/ gone[r] /\ End(r, 0, 0, "cancelled") /\ UNCHANGED index
    \/ ~ gone[r] /\ NextNode(r) /\ UNCHANGED answerVars

\* client.Do fails: connection error, timeout, or the client left.
CallFails(r) ==
    /\ pc[r] = "sent"
    /\ Unanswered(r)
    /\ UNCHANGED <<session, routeVars, gone, tried, skipped>>

\* Fault: a client error is retried after it was written.
Answer4xxAndRetry(r) ==
    /\ pc[r] = "sent"
    /\ heads' = [heads EXCEPT ![r] = @ + 1]
    /\ NextNode(r)
    /\ UNCHANGED <<session, routeVars, gone, tried, skipped, chunks, status>>

\* The node answers 4xx: the error is passed on and not retried.
Answer4xx(r) ==
    /\ pc[r] = "sent"
    /\ End(r, 1, 0, "failed")
    /\ UNCHANGED <<session, routeVars, index, gone, tried, skipped>>

\* The node answers 5xx.
Answer5xx(r) ==
    /\ pc[r] = "sent"
    /\ NextNode(r)
    /\ UNCHANGED <<session, routeVars, gone, tried, skipped, answerVars>>

\* The node answers with a head below 400; its body is still to be read.
AnswerOK(r) ==
    /\ pc[r] = "sent"
    /\ Goto(r, "reading")
    /\ UNCHANGED <<session, routeVars, index, gone, tried, skipped, answerVars>>
-------------------------------------------------------------------------------
(* copyUpstreamResponse *)

\* The body breaks off before a byte of it was passed on.
ReadFails(r) ==
    /\ pc[r] = "reading"
    /\ Unanswered(r)
    /\ UNCHANGED <<session, routeVars, gone, tried, skipped>>

\* How a request ends whose answer breaks off after the head and c chunks.
BrokenOff(r, c) ==
    IF gone[r] THEN "cancelled" ELSE IF c > 0 THEN "partial" ELSE "failed"

\* Not streamed: the whole body was read; head and body are written.
CopyWhole(r) ==
    /\ pc[r] = "reading"
    /\ ~ stream[r]
    /\ \E c \in 0..1 : \E s \in {"completed", BrokenOff(r, c)} : End(r, 1, c, s)
    /\ UNCHANGED <<session, routeVars, index, gone, tried, skipped>>

\* Streamed: the body is empty, or its only chunk ends it or fails.
CopyFirstAndEnd(r) ==
    /\ pc[r] = "reading"
    /\ stream[r]
    /\ \E c \in 0..1 : \E s \in {"completed", BrokenOff(r, c)} : End(r, 1, c, s)
    /\ UNCHANGED <<session, routeVars, index, gone, tried, skipped>>

\* Streamed: the head and the first chunk are written.
CopyFirst(r) ==
    /\ pc[r] = "reading"
    /\ stream[r]
    /\ Goto(r, "streaming")
    /\ heads' = [heads EXCEPT ![r] = @ + 1]
    /\ chunks' = [chunks EXCEPT ![r] = 1]
    /\ UNCHANGED <<session, routeVars, index, gone, tried, skipped, status>>

\* Streamed: another chunk.
CopyMore(r) ==
    /\ pc[r] = "streaming"
    /\ chunks[r] < MaxChunks
    /\ chunks' = [chunks EXCEPT ![r] = @ + 1]
    /\ UNCHANGED <<session, pc, routeVars, index, gone, tried, skipped, heads, status>>

\* Fault: a stream that breaks off is retried elsewhere.
CopyEndsOrRetries(r) ==
    /\ pc[r] = "streaming"
    /\ \/ End(r, 0, 0, "completed") /\ UNCHANGED index
       \/ NextNode(r) /\ UNCHANGED answerVars
    /\ UNCHANGED <<session, routeVars, gone, tried, skipped>>

\* Streamed: the body ends, or reading or writing fails.
CopyEnds(r) ==
    /\ pc[r] = "streaming"
    /\ \E s \in {"completed", BrokenOff(r, chunks[r])} : End(r, 0, 0, s)
    /\ UNCHANGED <<session, routeVars, index, gone, tried, skipped>>
-------------------------------------------------------------------------------
\* The client closes its connection.
ClientLeaves(r) ==
    /\ pc[r] # "done"
    /\ ~ gone[r]
    /\ gone' = [gone EXCEPT ![r] = TRUE]
    /\ UNCHANGED <<session, pc, routeVars, index, tried, skipped, answerVars>>

\* What the handler does by itself, or waits for within s.client's timeout; its
\* own errors are small enough for the buffers of net/http.
Proceed(r) ==
    \/ RouteNone(r) \/ Route(r) \/ Pin(r)
    \/ MissingURL(r) \/ BadURL(r) \/ SendRequest(r) \/ SendCancelled(r) \/ Exhausted(r)
    \/ CallFails(r) \/ Answer4xx(r) \/ Answer5xx(r) \/ AnswerOK(r)

\* copyUpstreamResponse: reads from the node, writes to the client.
Copy(r) ==
    \/ ReadFails(r) \/ CopyWhole(r) \/ CopyFirstAndEnd(r)
    \/ CopyFirst(r) \/ CopyMore(r) \/ CopyEnds(r)

Step(r) == Proceed(r) \/ Copy(r)

Next == \E r \in Requests : Step(r) \/ ClientLeaves(r)

Spec == Init /\ [][Next]_vars

(* Fairness.  The handler goes on: a node that never answers is cut off by   *)
(* the timeout of s.client.  The copy is not fair.  Its reads are bounded by *)
(* the same timeout, but its writes go at the client's pace: the http.Server *)
(* of Run has no write timeout, so a client that neither reads nor hangs up  *)
(* keeps the handler, and its slot, for ever.                                *)
FairSpec == Spec /\ \A r \in Requests : WF_vars(Proceed(r))
-------------------------------------------------------------------------------
(* Properties *)

Labels == {"queued", "routed", "next", "sent", "reading", "streaming", "done"}
Final == {"completed", "failed", "cancelled", "partial"}

\* The type of every variable.
TypeOK ==
    /\ session \in Nodes \union {NoNode}
    /\ pc \in [Requests -> Labels]
    /\ stream \in [Requests -> BOOLEAN]
    /\ candidates \in [Requests -> Seq(Nodes)]
    /\ chosen \in [Requests -> Nodes \union {NoNode}]
    /\ nodes \in [Requests -> Seq(Nodes)]
    /\ index \in [Requests -> Nat \ {0}]
    /\ gone \in [Requests -> BOOLEAN]
    /\ tried \in [Requests -> SUBSET Nodes]
    /\ skipped \in [Requests -> SUBSET Nodes]
    /\ heads \in [Requests -> Nat]
    /\ chunks \in [Requests -> Nat]
    /\ status \in [Requests -> Final \union {"none"}]

\* marshalProxy, forwardWithFallback and copyUpstreamResponse: whatever the
\* nodes answer, the client is given one response head; it goes without only
\* when it left, and what it was given agrees with the status of the queue.
OneAnswer ==
    \A r \in Requests :
       /\ heads[r] <= 1
       /\ pc[r] = "done" /\ status[r] # "cancelled" => heads[r] = 1
       /\ status[r] = "cancelled" => gone[r]
       /\ status[r] = "partial" => chunks[r] > 0
       /\ chunks[r] > 0 => heads[r] = 1

\* forwardWithFallback: once anything was written to the client, or the client
\* has left, no further node is sent the request.
NoRetryAfterOutput ==
    [][\A r \in Requests : heads[r] > 0 \/ gone[r] => tried'[r] = tried[r]]_vars

Refused(r) == pc[r] = "done" /\ status[r] = "failed" /\ index[r] > Len(nodes[r])

\* The session put another node in the place of the first candidate.
Displaced(r, k) == k = 1 /\ Affinity \in {"strict", "task"} /\ chosen[r] # candidates[r][1]

\* forwardWithFallback: a request that ran out of nodes is refused only after
\* every eligible node was sent the request or had no URL.  The one exception
\* is the first candidate of a request that its session moved to another node.
EveryCandidateTried ==
    \A r \in Requests : Refused(r) =>
       \A k \in 1..Len(candidates[r]) :
          candidates[r][k] \in tried[r] \union skipped[r] \/ Displaced(r, k)

\* An assumption on the client, which nothing in the code enforces: it reads
\* what it is sent, or hangs up.
ClientReads(r) == []<>(pc[r] \notin {"reading", "streaming"})

\* forwardWithFallback: a request that got its slot ends, so that the slot is
\* given back, whatever the nodes do and whichever of them never answer, if its
\* client goes on reading or hangs up.
EveryRequestEnds == \A r \in Requests : ClientReads(r) => <>(pc[r] = "done")
===============================================================================
