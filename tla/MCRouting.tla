------------------------------ MODULE MCRouting ------------------------------
\* A fleet of two managed nodes and a passive endpoint, one of the managed
\* nodes also in the configuration file.
EXTENDS Routing

ThreeNodes == 1..3
TwoModels == {1, 2}
InConfiguration == <<2>>

BothModes == [wanted: {<<1>>, <<2, 1>>}, consensus: BOOLEAN]
MapOrders == {<<1, 2, 3>>, <<3, 2, 1>>, <<2, 3, 1>>}

HeartbeatReports ==
  {[status |-> "none", ollama |-> TRUE, models |-> {1}, jobs |-> 0],
   [status |-> "failed", ollama |-> FALSE, models |-> {}, jobs |-> 3]}

\* Two rates, one for no model by name and delayed on its way, and a failure.
BenchmarkResults ==
  {[model |-> 1, done |-> TRUE, rate |-> 3, age |-> 0],
   [model |-> 1, done |-> FALSE, rate |-> 0, age |-> 0],
   [model |-> 0, done |-> TRUE, rate |-> 2, age |-> 1]}

LanTrust == {"lan_unverified"}

Approved(models, rate) ==
  [Subscriber("healthy", "lan_trusted", TRUE, models, TRUE) EXCEPT
     !.approval = "approved",
     !.results = IF rate = 0 THEN <<>>
                 ELSE <<[model |-> 1, done |-> TRUE, rate |-> rate, age |-> 0]>>]
Passive(models) ==
  [Approved(models, 0) EXCEPT !.control = "passive", !.required = FALSE,
                              !.trust = "lan_unverified"]

\* Equal nodes, measured nodes, and nodes that the store does not know yet.
RunningFleets ==
  {<<Approved({1}, 0), Approved({1}, 0), Passive({1, 2})>>,
   <<Approved({1}, 1), Approved({1, 2}, 2), Approved({}, 0)>>,
   <<Approved({1}, 1), NoRec, Passive({1})>>}

=============================================================================
