------------------------------- MODULE Consensus -------------------------------
(***************************************************************************)
(* A consensus request: routing picks the participants (the consensus part *)
(* of Select in internal/routing/routing.go), marshalProxy fans the        *)
(* request out to all of them (forwardConsensus and                        *)
(* fetchConsensusParticipant in internal/httpapi/consensus.go), collects   *)
(* what arrives before the deadline, and serves the answer most of them    *)
(* gave (Evaluate in internal/consensus/engine.go).                        *)
(*                                                                         *)
(* Requests share nothing here, so there is one.  Its actors are the       *)
(* handler, one goroutine per participant, the timer of the deadline and   *)
(* the client, who may leave at any time.                                  *)
(***************************************************************************)
EXTENDS Lists

CONSTANTS Nodes,       \* the nodes
          Rankings,    \* lists of eligible nodes, best first, that routing may find
          Aliases,     \* [min, max]: the participant bounds of a model alias, as configured
          DefaultMin,  \* ConsensusDefaultMinParticipants (2 in the code)
          DefaultMax,  \* ConsensusDefaultMaxParticipants (4)
          Maximum,     \* ConsensusMaximumParticipants (8)
          Bodies,      \* the response bodies of the nodes
          Signature,   \* what is left of a body after normalisation
          Trouble,     \* the failures a node may show
          NoNode

Reasons == {"missing_proxy_url", "connection_error", "upstream_4xx", "upstream_5xx",
            "body_read_failure", "response_size_limit", "timeout", "cancellation"}

ASSUME BoundsAssumption ==
    /\ DefaultMin \in Nat \ {0} /\ DefaultMax \in Nat \ {0} /\ Maximum \in Nat \ {0}
    /\ DefaultMin <= Maximum /\ DefaultMax <= Maximum
    /\ Aliases \subseteq [min : Int, max : Int]
ASSUME NodesAssumption ==
    /\ NoNode \notin Nodes
    /\ Rankings \subseteq Seq(Nodes)
    /\ \A rank \in Rankings : \A i, j \in 1..Len(rank) : rank[i] = rank[j] => i = j
ASSUME OutcomeAssumption ==
    /\ Trouble \subseteq Reasons
    /\ Bodies \intersect (Reasons \union {"pending"}) = {}

VARIABLES
    at,           \* where the handler is
    participants, \* decision.CandidateNodes, best first
    required,     \* the successes needed
    gone,         \* the client left: the request's context is done
    fanout,       \* fanoutCtx: "open", "deadline" or "cancelled"
    fetch,        \* fetch[n]: where the goroutine of participant n is
    outcome,      \* outcome[n]: the body or the failure it ended with
    results,      \* the channel of outcomes
    collected,    \* the participants whose outcome was received
    stopped,      \* "no", or why the handler stopped collecting
    reply,        \* what the client was sent
    winner,       \* the node whose answer was served
    status        \* the final status of the queue entry

callVars == <<fetch, outcome, results>>
replyVars == <<reply, winner, status>>
vars == <<at, participants, required, gone, fanout, callVars, collected, stopped, replyVars>>

Init ==
    /\ at = "arrived"
    /\ participants = <<>> /\ required = 0
    /\ gone = FALSE /\ fanout = "open"
    /\ fetch = [n \in Nodes |-> "idle"]
    /\ outcome = [n \in Nodes |-> "pending"]
    /\ results = <<>> /\ collected = {} /\ stopped = "no"
    /\ reply = "none" /\ winner = NoNode /\ status = "active"
--------------------------------------------------------------------------------
(* Routing *)

\* The least and the largest number of participants, in that order.
MinParticipants(a) ==
    LET min == IF a.min < 1 THEN DefaultMin ELSE a.min
    IN  IF min > Maximum THEN Maximum ELSE min

MaxParticipants(a) ==
    LET max == IF a.max < 1 THEN DefaultMax ELSE a.max
        raised == IF max < MinParticipants(a) THEN MinParticipants(a) ELSE max
    IN  IF raised > Maximum THEN Maximum ELSE raised

Picked(rank, a) ==
    IF Len(rank) > MaxParticipants(a) THEN SubSeq(rank, 1, MaxParticipants(a)) ELSE rank

\* The handler answers with an error of its own and ends.
Refuse(code) ==
    /\ at' = "done" /\ reply' = code /\ status' = "failed"
    /\ UNCHANGED <<participants, required, gone, fanout, callVars, collected, stopped, winner>>

\* Select finds too few nodes.
NoEligibleNode(rank, a) ==
    /\ at = "arrived"
    /\ Len(Picked(rank, a)) < MinParticipants(a)
    /\ Refuse("no_eligible_node")

\* Fault: the quorum is not compared with the nodes found.
RouteUnchecked(rank, a) ==
    /\ at = "arrived"
    /\ at' = "routed"
    /\ participants' = Picked(rank, a) /\ required' = MinParticipants(a)
    /\ UNCHANGED <<gone, fanout, callVars, collected, stopped, replyVars>>

\* Select picks the participants.
Route(rank, a) ==
    /\ at = "arrived"
    /\ Len(Picked(rank, a)) >= MinParticipants(a)
    /\ at' = "routed"
    /\ participants' = Picked(rank, a) /\ required' = MinParticipants(a)
    /\ UNCHANGED <<gone, fanout, callVars, collected, stopped, replyVars>>

\* Streaming is refused before any node is called.
RejectStreaming == at = "routed" /\ Refuse("streaming_unsupported")
--------------------------------------------------------------------------------
(* The fan-out *)

Participants == {participants[i] : i \in 1..Len(participants)}

\* The context is derived from the request's, and done at once when that is.
FanOut ==
    /\ at = "routed"
    /\ at' = "collecting"
    /\ fanout' = IF gone THEN "cancelled" ELSE "open"
    /\ fetch' = [n \in Nodes |-> IF n \in Participants THEN "calling" ELSE "idle"]
    /\ UNCHANGED <<participants, required, gone, outcome, results, collected, stopped, replyVars>>

Running == at \in {"collecting", "deciding"}

\* The timer of fanoutCtx.
Deadline ==
    /\ Running /\ fanout = "open"
    /\ fanout' = "deadline"
    /\ UNCHANGED <<at, participants, required, gone, callVars, collected, stopped, replyVars>>

\* The connection to the client breaks.
ClientLeaves ==
    /\ at # "done" /\ ~gone
    /\ gone' = TRUE
    /\ UNCHANGED <<at, participants, required, fanout, callVars, collected, stopped, replyVars>>

\* The cancellation of the request's context reaches fanoutCtx.
CancelSpreads ==
    /\ Running /\ gone /\ fanout = "open"
    /\ fanout' = "cancelled"
    /\ UNCHANGED <<at, participants, required, gone, callVars, collected, stopped, replyVars>>

\* Fault: the channel has room for one outcome.
BufferOfOne == 1

\* The room in the channel: one place per participant.
ResultsBuffer == Len(participants)

\* The goroutine of n puts its outcome into the channel and ends.
Send(n, o) ==
    /\ Len(results) < ResultsBuffer
    /\ results' = Append(results, n)
    /\ outcome' = [outcome EXCEPT ![n] = o]
    /\ fetch' = [fetch EXCEPT ![n] = "ended"]
    /\ UNCHANGED <<at, participants, required, gone, fanout, collected, stopped, replyVars>>

consensusFailureReasonForContext(fallback) ==
    CASE fanout = "deadline"  -> "timeout"
      [] fanout = "cancelled" -> "cancellation"
      [] OTHER                -> fallback

\* No usable URL, or an answer with an error status.
CallRefused(n) ==
    /\ fetch[n] = "calling"
    /\ \E t \in Trouble \intersect {"missing_proxy_url", "connection_error", "upstream_4xx", "upstream_5xx"} :
          Send(n, t)

\* The call fails: the node cannot be reached, or the context is done.
CallFails(n) ==
    /\ fetch[n] = "calling"
    /\ fanout # "open" \/ "connection_error" \in Trouble
    /\ Send(n, consensusFailureReasonForContext("connection_error"))

\* The head of a good answer arrives.
CallAnswered(n) ==
    /\ fetch[n] = "calling"
    /\ fetch' = [fetch EXCEPT ![n] = "reading"]
    /\ UNCHANGED <<at, participants, required, gone, fanout, outcome, results, collected, stopped, replyVars>>

ReadFails(n) ==
    /\ fetch[n] = "reading"
    /\ fanout # "open" \/ "body_read_failure" \in Trouble
    /\ Send(n, consensusFailureReasonForContext("body_read_failure"))

TooLarge(n) ==
    /\ fetch[n] = "reading"
    /\ "response_size_limit" \in Trouble
    /\ Send(n, "response_size_limit")

ReadAll(n) ==
    /\ fetch[n] = "reading"
    /\ \E b \in Bodies : Send(n, b)

Fetch(n) ==
    CallRefused(n) \/ CallFails(n) \/ CallAnswered(n) \/ ReadFails(n) \/ TooLarge(n) \/ ReadAll(n)
--------------------------------------------------------------------------------
(* Collecting *)

\* One outcome is received; the loop ends with the last.
Collect ==
    /\ at = "collecting" /\ results # <<>>
    /\ collected' = collected \union {Head(results)}
    /\ results' = Tail(results)
    /\ at' = IF Cardinality(collected') < Len(participants) THEN "collecting" ELSE "deciding"
    /\ UNCHANGED <<participants, required, gone, fanout, fetch, outcome, stopped, replyVars>>

\* Fault: the request's context is not asked why.
StopUnasked ==
    /\ at = "collecting" /\ fanout # "open"
    /\ at' = "deciding"
    /\ stopped' = "timeout"
    /\ UNCHANGED <<participants, required, gone, fanout, callVars, collected, replyVars>>

\* fanoutCtx is done; the request's own context tells why.  With an outcome in
\* the channel too, select takes either.
Stop ==
    /\ at = "collecting" /\ fanout # "open"
    /\ at' = "deciding"
    /\ stopped' = IF gone THEN "cancelled" ELSE "timeout"
    /\ UNCHANGED <<participants, required, gone, fanout, callVars, collected, replyVars>>

Successes == {n \in collected : outcome[n] \in Bodies}
Failures == Participants \ Successes

\* The reason a failed participant is reported with.
FailureReason(n) ==
    IF n \in collected THEN outcome[n]
    ELSE CASE stopped = "cancelled" -> "cancellation"
           [] stopped = "timeout"   -> "timeout"
           [] OTHER                 -> "connection_error"
--------------------------------------------------------------------------------
(* Choosing *)

\* The successful participants in the order of the routing.
Candidates == Kept(participants, {i \in DOMAIN participants : participants[i] \in Successes})

responseSignature(n) == Signature[outcome[n]]

\* The members of the agreement group of n, and the index of the first.
Members(c, i) == {j \in 1..Len(c) : responseSignature(c[j]) = responseSignature(c[i])}

OpensGroup(c, i) == \A j \in Members(c, i) : i <= j

\* Fault: only a strict majority beats the group of the first participant, as
\* docs/12_ui_api.md:293 has it.
betterGroupAsDocumented(c, i, k) == Cardinality(Members(c, i)) * 2 > Len(c)

\* Group i against group k, each named by its first index; without validator
\* and with the evaluator that scores everything 0.
betterGroup(c, i, k) ==
    \/ Cardinality(Members(c, i)) > Cardinality(Members(c, k))
    \/ Cardinality(Members(c, i)) = Cardinality(Members(c, k)) /\ i < k

\* The loop over the groups, in the order in which they were opened.
Evaluate(c) ==
    LET best[i \in 1..Len(c)] ==
            IF i = 1 THEN 1
            ELSE IF OpensGroup(c, i) /\ betterGroup(c, i, best[i - 1]) THEN i ELSE best[i - 1]
    IN  best[Len(c)]

\* A strict majority of at least two.
ConsensusReached(c, i) ==
    LET agreement == Cardinality(Members(c, i)) IN agreement >= 2 /\ agreement * 2 > Len(c)
--------------------------------------------------------------------------------
(* Answering *)

\* forwardConsensus returns and cancels the calls still running.
Return(code, node, final) ==
    /\ at = "deciding"
    /\ at' = "done"
    /\ fanout' = IF fanout = "open" THEN "cancelled" ELSE fanout
    /\ reply' = code /\ winner' = node /\ status' = final
    /\ UNCHANGED <<participants, required, gone, callVars, collected, stopped>>

GiveUp == stopped = "cancelled" /\ Return("none", NoNode, "cancelled")

consensusInferenceFailure ==
    IF Successes = {} /\ \A n \in Failures : FailureReason(n) = "upstream_4xx" THEN "upstream_4xx"
    ELSE IF stopped = "timeout" \/ \E n \in Failures : FailureReason(n) = "timeout" THEN "504"
    ELSE "502"

TooFewSuccesses ==
    /\ stopped # "cancelled"
    /\ Cardinality(Successes) < required
    /\ Return(consensusInferenceFailure, NoNode, "failed")

\* The write may fail: the connection to the client is broken.
Serve(written) ==
    /\ stopped # "cancelled"
    /\ Cardinality(Successes) >= required
    /\ Return("200", Candidates[Evaluate(Candidates)], IF written THEN "completed" ELSE "partial")
--------------------------------------------------------------------------------
\* What the handler does by itself; its own errors are small enough for the
\* buffers of net/http.
Proceed ==
    \/ \E rank \in Rankings, a \in Aliases : NoEligibleNode(rank, a) \/ Route(rank, a)
    \/ RejectStreaming \/ FanOut \/ Collect \/ Stop \/ GiveUp \/ TooFewSuccesses

Handle == Proceed \/ \E written \in BOOLEAN : Serve(written)

Next ==
    \/ Handle
    \/ Deadline \/ ClientLeaves \/ CancelSpreads
    \/ \E n \in Nodes : Fetch(n)

Spec == Init /\ [][Next]_vars

\* A call whose context is done returns.
Aborted(n) == fanout # "open" /\ (CallFails(n) \/ ReadFails(n))

\* The handler's goroutine runs, the timer fires, and net/http returns from a
\* call whose context is done.  A node need not answer, and a client need not
\* leave.  Nor need it read: Serve is not fair, because its w.Write goes at the
\* client's pace and the http.Server of Run has no write timeout.
FairSpec ==
    /\ Spec
    /\ WF_vars(Proceed)
    /\ WF_vars(Deadline)
    /\ \A n \in Nodes : WF_vars(Aborted(n))
--------------------------------------------------------------------------------
(* Properties *)

\* The type of every variable; in particular a failure is one of the eight
\* reasons, never the text of an error (consensus.go:21-30).
TypeOK ==
    /\ at \in {"arrived", "routed", "collecting", "deciding", "done"}
    /\ participants \in Seq(Nodes)
    /\ required \in Nat
    /\ gone \in BOOLEAN
    /\ fanout \in {"open", "deadline", "cancelled"}
    /\ fetch \in [Nodes -> {"idle", "calling", "reading", "ended"}]
    /\ outcome \in [Nodes -> Bodies \union Reasons \union {"pending"}]
    /\ results \in Seq(Nodes)
    /\ collected \subseteq Nodes
    /\ stopped \in {"no", "cancelled", "timeout"}
    /\ reply \in {"none", "no_eligible_node", "streaming_unsupported", "upstream_4xx", "502", "504", "200"}
    /\ winner \in Nodes \union {NoNode}
    /\ status \in {"active", "completed", "failed", "cancelled", "partial"}

\* Whatever bounds an alias is configured with, a fan-out has a quorum that its
\* participants can meet, stays within the maximum, calls nobody else and
\* nobody twice (routing.go:171-218, consensus.go:95-101).
FanoutBounded ==
    /\ at \in {"routed", "collecting", "deciding"} =>
          required >= 1 /\ required <= Len(participants) /\ Len(participants) <= Maximum
    /\ \A i, j \in 1..Len(participants) : participants[i] = participants[j] => i = j
    /\ \A n \in Nodes : fetch[n] # "idle" => n \in Participants

\* What the client and the telemetry are told about a failure is what
\* happened: a cancellation is reported only when the client left, a timeout
\* only after the deadline, an upstream error only when every participant sent
\* one, and only a client that left gets no answer.  The deadline, the client,
\* the calls and the handler race for it (consensus.go:106-161, 260-313).
ErrorsTellWhy ==
    at = "done" =>
        /\ \A n \in Failures :
              /\ FailureReason(n) = "cancellation" => gone
              /\ FailureReason(n) = "timeout" => fanout = "deadline"
        /\ reply = "504" => fanout = "deadline"
        /\ reply = "upstream_4xx" => \A n \in Participants : outcome[n] = "upstream_4xx"
        /\ reply = "none" => gone

Support(n) == Cardinality({m \in Successes : responseSignature(m) = responseSignature(n)})

Rank(n) == CHOOSE i \in 1..Len(participants) : participants[i] = n

\* The answer served is one that no other answer has more support than, and of
\* the nodes with that support the winner is ranked first, in whatever order
\* the outcomes arrived; and the answer is reported as a consensus exactly when
\* some answer has a strict majority of two or more (engine.go:86-163).  This is
\* the rule of the code.  docs/12_ui_api.md:293 has another one for answers
\* without a majority: "the earliest routing-ranked successful participant is
\* returned".  The two differ from four participants on: of the answers a, b, b
\* and c the code serves b, the document a (betterGroupAsDocumented).
WinnerIsPlurality ==
    reply = "200" =>
        /\ winner \in Successes
        /\ \A n \in Successes :
              \/ Support(n) < Support(winner)
              \/ Support(n) = Support(winner) /\ Rank(winner) <= Rank(n)
        /\ ConsensusReached(Candidates, Evaluate(Candidates)) <=>
              \E n \in Successes : Support(n) >= 2 /\ 2 * Support(n) > Cardinality(Successes)

\* The handler is writing the winner's answer to the client.
Writing ==
    /\ at = "deciding" /\ stopped # "cancelled"
    /\ Cardinality(Successes) >= required

\* Every goroutine that a consensus request started ends, even when no node ever
\* answers and the client never reads: none is left waiting at the channel.  The
\* handler ends too, if its client goes on reading or hangs up, which nothing in
\* the code enforces (consensus.go:93-126, 184-197).
NothingIsLeftBehind ==
    /\ <>[](\A n \in Nodes : fetch[n] \in {"idle", "ended"})
    /\ []<>(~Writing) => <>(at = "done")
================================================================================
