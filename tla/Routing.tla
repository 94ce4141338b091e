------------------------------- MODULE Routing -------------------------------
(***************************************************************************)
(* routing.Select: which nodes a request may go to, and in which order.    *)
(* The state is what the decision is made of: the node records that        *)
(* enrollments, heartbeats, benchmark results, probes and operators leave  *)
(* in the store, and the time since then.  A handler's read and write of a *)
(* record are one step here; NodeRegistry has the handlers that overlap.   *)
(*                                                                         *)
(* Times are ages, counted up to the first one that is too old.  The limit *)
(* on consensus participants is applied afterwards, in Consensus.          *)
(***************************************************************************)
EXTENDS Lists

CONSTANTS
  NodeIds,       \* node ids, which are compared when all else is equal
  Models,        \* names of models
  Subscribers,   \* node ids in the configuration file, without repetition
  Requests,      \* models a request asks for, best first, and its mode
  Orders,        \* orders in which Go may walk the map of nodes
  Reports,       \* what a heartbeat says
  Results,       \* what a benchmark result says
  EndpointTrust, \* the trust levels that a node's URL can lead to
  Fleets,        \* node records of a marshal that has been running
  Window,        \* ManagedHeartbeatFreshnessWindow
  BenchWindow,   \* BenchmarkPlacementFreshnessWindow
  MaxResults,    \* maxBenchmarkResults
  MaxEvents,     \* bound on the changes of the fleet
  NoRec          \* a node that the store does not know

Statuses   == {"registered", "healthy", "degraded", "failed", "disabled", "configured"}
Trusts     == {"local", "lan_trusted", "lan_unverified", "external"}
Ages       == 0 .. Window + 1
ResultAges == 0 .. BenchWindow + 1
Result     == [model: Models \cup {0}, done: BOOLEAN, rate: Nat, age: ResultAges]
Rec == [approval: {"pending", "approved", "revoked"}, enabled: BOOLEAN,
        status: Statuses, control: {"managed", "passive"}, trust: Trusts,
        ollama: BOOLEAN, models: SUBSET Models, heavy: 0..2, jobs: Int,
        required: BOOLEAN, heard: Ages, results: Seq(Result)]

Report == [status: Statuses \cup {"none"}, ollama: BOOLEAN, models: SUBSET Models, jobs: Int]
Request == [wanted: Seq(Models), consensus: BOOLEAN]

\* A map is walked from end to end, a node that has to be heard of is a managed
\* one, and the operator's configuration names a node once.
ASSUME RoutingAssumption ==
  /\ NodeIds \subseteq Int
  /\ IsFiniteSet(Models) /\ 0 \notin Models
  /\ Subscribers \in Seq(NodeIds) /\ Distinct(Subscribers)
  /\ \A order \in Orders :
       /\ order \in Seq(NodeIds) /\ Distinct(order)
       /\ \A n \in NodeIds : \E i \in DOMAIN order : order[i] = n
  /\ Requests \subseteq Request
  /\ Reports \subseteq Report
  /\ Results \subseteq Result
  /\ Window \in Nat /\ BenchWindow \in Nat /\ MaxResults \in Nat /\ MaxEvents \in Nat
  /\ EndpointTrust \subseteq Trusts
  /\ NoRec \notin Rec
  /\ Fleets \subseteq [NodeIds -> Rec \cup {NoRec}]
  /\ \A f \in Fleets, n \in NodeIds :
       f[n] # NoRec => /\ f[n].required => f[n].control = "managed"
                       /\ Len(f[n].results) <= MaxResults

Never == Window + 2

VARIABLES
  fleet,     \* state.Nodes
  beats,     \* history: the age of a node's last sign of life, if it ever gave one
  decision,  \* the last decision, until the fleet changes
  events     \* changes of the fleet so far

routingVars == <<fleet, beats, decision, events>>

NoDecision == [wanted |-> <<>>, consensus |-> FALSE, model |-> 0, ids |-> <<>>]

RoutingInit ==
  /\ fleet \in Fleets
  /\ beats = [n \in NodeIds |-> IF fleet[n] # NoRec /\ fleet[n].required
                                THEN fleet[n].heard ELSE Never]
  /\ decision = NoDecision
  /\ events = 0

-----------------------------------------------------------------------------
(* The records.                                                            *)

Put(n, r) ==
  /\ events < MaxEvents
  /\ events' = events + 1
  /\ fleet' = [fleet EXCEPT ![n] = r]
  /\ decision' = NoDecision

\* A subscriber as it enters the store, not approved yet.
Subscriber(status, trust, ollama, models, required) ==
  [approval |-> "pending", enabled |-> TRUE, status |-> status, control |-> "managed",
   trust |-> trust, ollama |-> ollama, models |-> models, heavy |-> 0, jobs |-> 0,
   required |-> required, heard |-> 0, results |-> <<>>]

\* subscriberEnroll: the registration counts as the first heartbeat.
Enroll(n, rep, trust) ==
  /\ Put(n, Subscriber(IF rep.status = "none" THEN "registered" ELSE rep.status,
                       trust, rep.ollama, rep.models, TRUE))
  /\ beats' = [beats EXCEPT ![n] = 0]

\* manualAddNode: the subscriber's capabilities, or a degraded node without.  The
\* record is new and does not say heartbeat_required, unless the fetched JSON
\* does, which is left out; a sign of life of before counts no more.
ManualAdd(n, rep, trust) ==
  /\ \/ Put(n, Subscriber(IF rep.status = "none" THEN "healthy" ELSE rep.status,
                          trust, rep.ollama, rep.models, FALSE))
     \/ Put(n, Subscriber("degraded", trust, FALSE, {}, FALSE))
  /\ beats' = [beats EXCEPT ![n] = Never]

\* passiveAddNode: the operator names the trust, /api/tags the models.
PassiveAdd(n, rep, trust) ==
  /\ Put(n, [Subscriber("healthy", trust, TRUE, rep.models, FALSE)
               EXCEPT !.control = "passive"])
  /\ beats' = [beats EXCEPT ![n] = Never]

\* subscriberHeartbeat, with a credential that is accepted.
Heartbeat(n, rep) ==
  /\ fleet[n] # NoRec
  /\ fleet[n].control = "managed"
  /\ Put(n, [fleet[n] EXCEPT
       !.status = IF rep.status # "none" THEN rep.status
                  ELSE IF @ = "registered" THEN "healthy" ELSE @,
       !.ollama = rep.ollama, !.models = rep.models, !.jobs = rep.jobs,
       !.required = TRUE, !.heard = 0])
  /\ beats' = [beats EXCEPT ![n] = 0]

\* The newest result first, the oldest arrivals cut.
appendBenchmarkResult(list, result) ==
  LET longer == <<result>> \o list
  IN  IF Len(longer) > MaxResults THEN SubSeq(longer, 1, MaxResults) ELSE longer

\* subscriberBenchmarkResult, 0 if it names no model; a rate makes the model
\* one that the node has.
BenchmarkResult(n, result) ==
  /\ fleet[n] # NoRec
  /\ fleet[n].control = "managed"
  /\ Put(n, [fleet[n] EXCEPT
       !.results = appendBenchmarkResult(@, result),
       !.models = IF result.rate > 0 /\ result.model # 0 THEN @ \cup {result.model} ELSE @])
  /\ UNCHANGED beats

\* runPassiveBenchmarkProbe that reaches the endpoint.  Its result carries no
\* model and no rate, and placement ignores passive endpoints.
Probe(n, rep) ==
  /\ fleet[n] # NoRec
  /\ fleet[n].control = "passive"
  /\ Put(n, [fleet[n] EXCEPT !.models = rep.models, !.ollama = TRUE, !.status = "healthy"])
  /\ UNCHANGED beats

\* nodeAction: approve.
Approve(n) ==
  /\ fleet[n] # NoRec
  /\ Put(n, [fleet[n] EXCEPT !.approval = "approved", !.enabled = TRUE,
                             !.status = IF @ = "disabled" THEN "healthy" ELSE @])
  /\ UNCHANGED beats

\* nodeAction: revoke, enable, disable, trust and overrides.  The override of
\* the tags, of which only the ones for heavy work count, also stands for the tags
\* that a subscriber sends when it enrolls or reports.
NodeAction(n) ==
  LET r == fleet[n] IN
  /\ r # NoRec
  /\ \/ Put(n, [r EXCEPT !.approval = "revoked", !.enabled = FALSE, !.status = "disabled"])
     \/ Put(n, [r EXCEPT !.enabled = TRUE, !.status = "healthy"])
     \/ Put(n, [r EXCEPT !.enabled = FALSE, !.status = "disabled"])
     \/ \E t \in Trusts : Put(n, [r EXCEPT !.trust = t])
     \/ \E k \in 0..2 : Put(n, [r EXCEPT !.heavy = k])
  /\ UNCHANGED beats

Older(age, limit) == IF age > limit THEN age ELSE age + 1

\* A record when some time has passed.
AgedResult(x) == [x EXCEPT !.age = Older(@, BenchWindow)]
AgedRecord(r) == [r EXCEPT !.heard = Older(@, Window),
                           !.results = [i \in DOMAIN @ |-> AgedResult(@[i])]]

\* Time passes.
Tick ==
  /\ events < MaxEvents
  /\ events' = events + 1
  /\ fleet' = [n \in NodeIds |-> IF fleet[n] = NoRec THEN NoRec ELSE AgedRecord(fleet[n])]
  /\ beats' = [n \in NodeIds |-> IF beats[n] = Never THEN Never ELSE Older(beats[n], Window)]
  /\ decision' = NoDecision

-----------------------------------------------------------------------------
(* Select.                                                                 *)

\* Mutant: approval and switch are looked at, consensus is not told apart.
EligibleForAll(r, consensus) ==
  /\ r.enabled /\ r.approval = "approved"
  /\ r.status \notin {"disabled", "failed"}
  /\ r.required /\ r.control = "managed" => r.heard <= Window
  /\ r.trust # "external"
  /\ consensus => r.control = "managed"

\* classify: may the node be asked at all?
Eligible(r, consensus) ==
  /\ r.enabled /\ r.approval = "approved"
  /\ r.status \notin {"disabled", "failed"}
  /\ r.required /\ r.control = "managed" => r.heard <= Window
  /\ r.trust # "external"
  /\ consensus => r.control = "managed" /\ r.trust # "lan_unverified"

\* A node without a list of models may have any.
Serves(r, model) == model \in r.models \/ r.models = {}

Score(r, consensus) ==
    (IF r.status = "healthy" THEN 100 ELSE 0)
  + (IF r.ollama THEN 50 ELSE 0)
  + 5 * Cardinality(r.models) - 15 * r.jobs + 20 * r.heavy
  + (IF r.control = "managed" THEN 15 ELSE -20)
  + (CASE r.trust = "local" -> 20 [] r.trust = "lan_trusted" -> 10
       [] r.trust = "lan_unverified" -> -40 [] OTHER -> -1000)
  + (IF consensus /\ r.control = "managed" THEN 20 ELSE 0)

\* latestBenchmarkResult: of the results for the model, or for none by name,
\* the one completed last, and of those the one that arrived last.
Latest(list, model) ==
  LET own == {i \in DOMAIN list : list[i].model \in {model, 0}}
  IN  {i \in own : \A j \in own : \/ list[i].age < list[j].age
                                  \/ list[i].age = list[j].age /\ i <= j}

\* benchmarkPlacement: the rate that counts, 0 if none does.
Placement(r, model) ==
  IF r.control = "managed" /\ r.trust \in {"local", "lan_trusted"}
    THEN LET good == {i \in Latest(r.results, model) :
                        r.results[i].done /\ r.results[i].age <= BenchWindow}
         IN  IF good = {} THEN 0 ELSE r.results[CHOOSE i \in good : TRUE].rate
    ELSE 0

\* What a configured subscriber counts as that the store does not know.
Configured == [Subscriber("configured", "lan_trusted", FALSE, {}, FALSE)
                 EXCEPT !.approval = "approved"]

\* Mutant: the configuration file is added to what the store knows.
AllListed(order) ==
  [i \in DOMAIN order |-> [id |-> order[i], rec |-> fleet[order[i]]]]
    \o [i \in DOMAIN Subscribers |-> [id |-> Subscribers[i], rec |-> Configured]]

\* The records of the store in the map's order, then the subscribers of the
\* configuration file that it does not know.
Listed(order) ==
  LET unknown == Kept(Subscribers, {i \in DOMAIN Subscribers : fleet[Subscribers[i]] = NoRec})
  IN  [i \in DOMAIN order |-> [id |-> order[i], rec |-> fleet[order[i]]]]
        \o [i \in DOMAIN unknown |-> [id |-> unknown[i], rec |-> Configured]]

\* Mutant: nodes of equal score stay in the order of the map.
ByScoreOnly(consensus, list) ==
  LET points(i) == Score(list[i].rec, consensus)
  IN  Arranged(list, 1..Len(list), {p \in (1..Len(list)) \X (1..Len(list)) :
        \/ points(p[1]) > points(p[2])
        \/ points(p[1]) = points(p[2]) /\ p[1] < p[2]})

\* The highest score first, then the smallest id, which are all different.
ByScore(consensus, list) ==
  LET points(i) == Score(list[i].rec, consensus)
  IN  Arranged(list, 1..Len(list), {p \in (1..Len(list)) \X (1..Len(list)) :
        \/ points(p[1]) > points(p[2])
        \/ points(p[1]) = points(p[2]) /\ list[p[1]].id < list[p[2]].id})

\* Measured nodes first, by their rate; the others as they were (SliceStable).
ByPlacement(model, list, I) ==
  LET rate(i) == Placement(list[i].rec, model)
  IN  Arranged(list, I, {p \in I \X I : \/ rate(p[1]) > rate(p[2])
                                        \/ rate(p[1]) = rate(p[2]) /\ p[1] < p[2]})

CandidatesFor(model, consensus, list) ==
  ByPlacement(model, list,
    {i \in DOMAIN list : Eligible(list[i].rec, consensus) /\ Serves(list[i].rec, model)})

\* The first model of the alias that some node can serve.
Selected(q, order) ==
  LET list  == ByScore(q.consensus, Listed(order))
      found == {k \in DOMAIN q.wanted : CandidatesFor(q.wanted[k], q.consensus, list) # <<>>}
      first == CHOOSE k \in found : \A l \in found : k <= l
      nodes == CandidatesFor(q.wanted[first], q.consensus, list)
  IN  IF found = {} THEN [model |-> 0, ids |-> <<>>]
      ELSE [model |-> q.wanted[first], ids |-> [i \in DOMAIN nodes |-> nodes[i].id]]

Known(order) == Kept(order, {i \in DOMAIN order : fleet[order[i]] # NoRec})

\* A request is routed.
Select(q, order) ==
  /\ decision = NoDecision
  /\ \E d \in {Selected(q, Known(order))} :
       decision' = [wanted |-> q.wanted, consensus |-> q.consensus,
                    model |-> d.model, ids |-> d.ids]
  /\ UNCHANGED <<fleet, beats, events>>

-----------------------------------------------------------------------------
RoutingNext ==
  \/ Tick
  \/ \E q \in Requests, order \in Orders : Select(q, order)
  \/ \E n \in NodeIds :
       \/ Approve(n)
       \/ NodeAction(n)
       \/ \E result \in Results : BenchmarkResult(n, result)
       \/ \E rep \in Reports :
            \/ Heartbeat(n, rep)
            \/ Probe(n, rep)
            \/ \E trust \in EndpointTrust :
                 Enroll(n, rep, trust) \/ ManualAdd(n, rep, trust) \/ PassiveAdd(n, rep, trust)

RoutingSpec == RoutingInit /\ [][RoutingNext]_routingVars

-----------------------------------------------------------------------------
\* Every variable has its type, and a node keeps no more results than it may.
RoutingTypeOK ==
  /\ fleet \in [NodeIds -> Rec \cup {NoRec}]
  /\ \A n \in NodeIds : fleet[n] # NoRec => Len(fleet[n].results) <= MaxResults
  /\ beats \in [NodeIds -> Ages \cup {Never}]
  /\ decision.wanted \in Seq(Models) /\ decision.consensus \in BOOLEAN
  /\ decision.model \in Models \cup {0} /\ decision.ids \in Seq(NodeIds)
  /\ events \in 0 .. MaxEvents

\* The record that a decision knows of a node.
RecordOf(n) == IF fleet[n] = NoRec THEN Configured ELSE fleet[n]

Candidate(n, model) ==
  /\ fleet[n] # NoRec \/ \E i \in DOMAIN Subscribers : Subscribers[i] = n
  /\ Eligible(RecordOf(n), decision.consensus)
  /\ Serves(RecordOf(n), model)

\* n is asked before m: it was measured to be faster, or has the higher score,
\* or the smaller id.
Preferred(n, m) ==
  LET p == Placement(RecordOf(n), decision.model) - Placement(RecordOf(m), decision.model)
      s == Score(RecordOf(n), decision.consensus) - Score(RecordOf(m), decision.consensus)
  IN  p > 0 \/ (p = 0 /\ (s > 0 \/ (s = 0 /\ n < m)))

\* A decision lists every node that may serve the model, once, each before
\* those it is preferred to: the fallbacks are tried in that order whatever
\* the order of the map.  No model that was wanted more could be served
\* (routing.Select, which sorts twice).
DecisionFollowsPolicy ==
  LET ids == decision.ids IN
  decision.wanted # <<>> =>
    /\ {ids[i] : i \in DOMAIN ids} = {n \in NodeIds : Candidate(n, decision.model)}
    /\ \A i, j \in DOMAIN ids : i < j => Preferred(ids[i], ids[j])
    /\ \E last \in 0..Len(decision.wanted) :
         /\ IF ids = <<>> THEN last = Len(decision.wanted)
            ELSE last < Len(decision.wanted) /\ decision.wanted[last + 1] = decision.model
         /\ \A k \in 1..last, n \in NodeIds : ~Candidate(n, decision.wanted[k])

\* A request goes to nodes that an operator approved, in the store or, for one
\* that the store does not know, in the configuration file, and to no node
\* that gave signs of life since it was last added and has been silent for too
\* long, whatever probes, results, approvals and switches wrote to its record
\* since.  The first part restates eligible; the second is the point.  Adding a
\* node again (manualAddNode, passiveAddNode, enrollment) replaces the record and
\* no longer demands that the node be heard of, so the history begins anew there.
RoutedNodesAreAlive ==
  \A i \in DOMAIN decision.ids :
    LET n == decision.ids[i] IN
    /\ fleet[n] # NoRec => fleet[n].approval = "approved" /\ fleet[n].enabled
    /\ beats[n] \in 0..Window \cup {Never}

\* Consensus asks a part of the nodes that one request alone would ask for the
\* same model, in the same order: those that are managed and trusted, although
\* the scores of the two modes differ.
ConsensusIsStricter ==
  decision.consensus /\ decision.ids # <<>> =>
    \A order \in Orders :
      LET single == Selected([wanted |-> <<decision.model>>, consensus |-> FALSE],
                             Known(order)).ids
      IN  decision.ids = Kept(single, {i \in DOMAIN single :
            /\ RecordOf(single[i]).control = "managed"
            /\ RecordOf(single[i]).trust \in {"local", "lan_trusted"}})

=============================================================================
