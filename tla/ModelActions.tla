----------------------------- MODULE ModelActions -----------------------------
(***************************************************************************)
(* The keep-warm actions of one remote node: internal/httpapi/             *)
(* model_lifecycle_actions.go and model_lifecycle_status.go, over the node *)
(* record kept by internal/appstate/state.go.                              *)
(*                                                                         *)
(* The operator queues an action, the subscriber claims it and reports     *)
(* what became of it.  Every handler works on a copy of the node           *)
(* (Store.Snapshot) and writes the whole node back (Store.UpsertNode), as  *)
(* the benchmark handlers do, but there is no lease and no scheduler: what *)
(* a claim took stays taken.  Heartbeats, the operator's other actions,    *)
(* benchmark results and a new enrollment write the same record.           *)
(*                                                                         *)
(* Approval, enabled and status are one flag here, ready: NodeRegistry     *)
(* tells them apart.  Support for management and warm state is the same as *)
(* control = "managed" for every remote node (normalizeNode and the three  *)
(* handlers that add one).  A call without the node's credential, or for a *)
(* passive node, is refused before it reads anything else.                 *)
(***************************************************************************)
EXTENDS Integers, Sequences, FiniteSets, SequencesExt

CONSTANTS
    Actions,     \* action identifiers the marshal may draw
    Models,      \* model names
    Handlers,    \* marshal handlers that may run at the same time
    MaxActions,  \* length of the action list (maxModelLifecycleActions, 8)
    Reports,     \* the statuses the subscriber reports
    Inventories, \* the inventories a subscriber or an endpoint reports
    MaxCalls,    \* bound on the calls that change the node
    MaxFaults,   \* bound on failed saves, restarts and lost answers
    None         \* no action, no status, no desire, no inventory

Statuses == {"queued", "running", "completed", "failed", "cancelled"}
ModelState == [keep : BOOLEAN, state : {"installed", "warm"}]
Inventory == UNION {[S -> ModelState] : S \in SUBSET Models}

Action == [id : Actions, model : Models, desired : BOOLEAN, status : Statuses]

\* head is what observed["model_lifecycle_action_id" / "_status"] say, and
\* summary the counts of observed["model_lifecycle_summary"].
Record == [control : {"managed", "passive"}, ready : BOOLEAN, models : Inventory,
           actions : Seq(Action),
           head : [id : Actions \union {None}, status : Statuses \union {None}],
           summary : [count : Nat, warm : Nat, keep : Nat]]

ASSUME ActionsAssumption ==
    /\ MaxActions \in Nat \ {0}
    /\ IsFiniteSet(Models)
    /\ MaxCalls \in Nat /\ MaxFaults \in Nat
    /\ Reports \subseteq Statuses
    /\ Inventories \subseteq Inventory
    /\ None \notin Actions /\ None \notin Statuses
    /\ None \notin BOOLEAN /\ None \notin Inventory

VARIABLES
    node,     \* the node in memory
    disk,     \* the node in the state file
    pending,  \* pending[h]: the record handler h has still to write, or None
    call,     \* call[h]: what h will answer about
    stale,    \* stale[h]: the node was written since h read it
    created,  \* identifiers drawn so far
    handed,   \* history: how often an action was handed to the subscriber
    requeued, \* history: how often an action was reported queued
    slips,    \* history: writes of a stale copy
    acked,    \* history: the last report of an action, once acknowledged
    desire,   \* history: the last desire for a model acknowledged as completed
    calls, faults

handlerVars == <<pending, call, stale>>
history == <<handed, requeued, slips, acked, desire>>
vars == <<node, disk, handlerVars, created, history, calls, faults>>
-------------------------------------------------------------------------------
(* The record *)

\* modelLifecycleSummaryForModels and model_count.  What is not warm is
\* installed here, so the count of those is the difference.
Summary(inv) == [count |-> Cardinality(DOMAIN inv),
                 warm |-> Cardinality({m \in DOMAIN inv : inv[m].state = "warm"}),
                 keep |-> Cardinality({m \in DOMAIN inv : inv[m].keep})]

\* applyModelLifecycleObserved after a change of the inventory.
WithModels(r, inv) == [r EXCEPT !.models = inv, !.summary = Summary(inv)]

\* A node as it is added: nothing of the node it replaces is kept.  manualAddNode
\* keeps the observed map of the answer it fetched; a subscriber of this code
\* answers with a fresh scan of itself, which has no actions.
Added(control, inv) ==
    [control |-> control, ready |-> FALSE, models |-> inv, actions |-> <<>>,
     head |-> [id |-> None, status |-> None], summary |-> Summary(inv)]

Has(list, a) == \E i \in 1..Len(list) : list[i].id = a
Find(list, a) == CHOOSE i \in 1..Len(list) : list[i].id = a

\* Fault: the old copy stays in the list.
UpsertKeepingOld(list, x) == SubSeq(<<x>> \o list, 1, IF Len(list) < MaxActions THEN Len(list) + 1 ELSE MaxActions)

\* upsertModelLifecycleAction: to the front, old copy removed, list cut.  The
\* code drops every old copy; a list has one at most (ActionListCoherent).
upsertModelLifecycleAction(list, x) ==
    LET rest == IF Has(list, x.id) THEN RemoveAt(list, Find(list, x.id)) ELSE list
    IN  SubSeq(<<x>> \o rest, 1, IF Len(rest) < MaxActions THEN Len(rest) + 1 ELSE MaxActions)

\* The action and the observed fields that repeat it.
WithAction(r, x) ==
    [r EXCEPT !.actions = upsertModelLifecycleAction(r.actions, x),
              !.head = [id |-> x.id, status |-> x.status]]

\* applyCompletedModelLifecycleAction.
applyCompletedModelLifecycleAction(r, x) ==
    IF x.model \in DOMAIN r.models
    THEN WithModels(r, [r.models EXCEPT ![x.model] =
            [keep |-> x.desired, state |-> IF x.desired THEN "warm" ELSE @.state]])
    ELSE WithModels(r, r.models)

\* Fault: whatever runs may be claimed as well.
NextQueuedOrRunning(list, i) ==
    /\ list[i].status \in {"queued", "running"}
    /\ \A k \in 1..(i - 1) : list[k].status \notin {"queued", "running"}

\* nextQueuedModelLifecycleAction: i is the first queued position, that of the
\* action updated last.
NextQueued(list, i) ==
    /\ list[i].status = "queued"
    /\ \A k \in 1..(i - 1) : list[k].status # "queued"

-------------------------------------------------------------------------------
NoCall == [kind |-> "none", id |-> None, status |-> None]

\* A node that was enrolled, approved and has reported an inventory.
Init ==
    /\ node \in {[Added("managed", inv) EXCEPT !.ready = TRUE] : inv \in Inventories}
    /\ disk = node
    /\ pending = [h \in Handlers |-> None]
    /\ call = [h \in Handlers |-> NoCall]
    /\ stale = [h \in Handlers |-> FALSE]
    /\ created = {}
    /\ handed = [a \in Actions |-> 0]
    /\ requeued = [a \in Actions |-> 0]
    /\ slips = 0
    /\ acked = [a \in Actions |-> None]
    /\ desire = [m \in Models |-> None]
    /\ calls = 0
    /\ faults = 0

Called == calls < MaxCalls /\ calls' = calls + 1
Fault == faults < MaxFaults /\ faults' = faults + 1

\* Handler h has read the node and will write r.
Work(h, r, c) ==
    /\ pending[h] = None
    /\ Called
    /\ pending' = [pending EXCEPT ![h] = r]
    /\ call' = [call EXCEPT ![h] = c]
    /\ stale' = [stale EXCEPT ![h] = FALSE]
    /\ UNCHANGED <<node, disk, handed, slips, faults>>
-------------------------------------------------------------------------------
(* Calls that read, change and write the node *)

\* nodeAction "model-actions": createModelKeepWarmAction under its policy.
QueueAction(h, a, m, d) ==
    /\ a \notin created
    /\ node.control = "managed" /\ node.ready
    /\ m \in DOMAIN node.models
    /\ created' = created \union {a}
    /\ Work(h, WithAction(node, [id |-> a, model |-> m, desired |-> d, status |-> "queued"]),
            [kind |-> "queue", id |-> a, status |-> "queued"])
    /\ UNCHANGED <<requeued, acked, desire>>

\* subscriberModelActionClaim; without a queued action it answers no_action.
\* Neither approval nor enabled is asked for.
ClaimAction(h, i) ==
    /\ node.control = "managed"
    /\ NextQueued(node.actions, i)
    /\ LET x == node.actions[i]
       IN  /\ Work(h, WithAction(node, [x EXCEPT !.status = "running"]),
                   [kind |-> "claim", id |-> x.id, status |-> "running"])
           /\ acked' = [acked EXCEPT ![x.id] = None]
    /\ UNCHANGED <<created, requeued, desire>>

\* subscriberModelActionStatus: any status for any action of the list.
ReportAction(h, a, s) ==
    /\ node.control = "managed"
    /\ Has(node.actions, a)
    /\ LET x == [node.actions[Find(node.actions, a)] EXCEPT !.status = s]
           done == s = "completed"
       IN  /\ Work(h, WithAction(IF done THEN applyCompletedModelLifecycleAction(node, x) ELSE node, x),
                   [kind |-> "report", id |-> a, status |-> s])
           /\ desire' = IF done THEN [desire EXCEPT ![x.model] = None] ELSE desire
    /\ acked' = [acked EXCEPT ![a] = None]
    /\ requeued' = IF s = "queued" THEN [requeued EXCEPT ![a] = @ + 1] ELSE requeued
    /\ UNCHANGED created

\* subscriberHeartbeat, with an inventory or without one; the status it
\* reports may make the node ready or not.
Heartbeat(h, inv, ready) ==
    /\ node.control = "managed"
    /\ Work(h, [WithModels(node, IF inv = None THEN node.models ELSE inv) EXCEPT !.ready = ready], NoCall)
    /\ desire' = IF inv = None THEN desire ELSE [m \in Models |-> None]
    /\ UNCHANGED <<created, requeued, acked>>

\* nodeAction approve, enable, disable and revoke; with ready as it is, every
\* handler that writes the node but none of these fields (trust, overrides,
\* credentials, benchmark jobs, the second half of an enrollment).
UpdateNode(h, ready) ==
    /\ Work(h, [node EXCEPT !.ready = ready], NoCall)
    /\ UNCHANGED <<created, requeued, acked, desire>>

\* subscriberBenchmarkResult: updateModelBenchmarkRate adds a model it does
\* not find and leaves the summary alone.
BenchmarkResult(h, m) ==
    /\ node.control = "managed"
    /\ m \notin DOMAIN node.models
    /\ Work(h, [node EXCEPT !.models = [n \in DOMAIN node.models \union {m} |->
                   IF n = m THEN [keep |-> FALSE, state |-> "installed"] ELSE node.models[n]]], NoCall)
    /\ UNCHANGED <<created, requeued, acked, desire>>

\* What /api/tags lists, without a look at what is loaded.
Listed(inv) == [m \in DOMAIN inv |-> [keep |-> FALSE, state |-> "installed"]]

\* runPassiveBenchmarkProbe: a new inventory, the summary stays.
ProbePassive(h, inv) ==
    /\ node.control = "passive"
    /\ Work(h, [node EXCEPT !.models = Listed(inv)], NoCall)
    /\ UNCHANGED <<created, requeued, acked, desire>>
-------------------------------------------------------------------------------
(* Store.UpsertNode, and the answer *)

\* Memory is replaced: who read the node before now holds a stale copy.
Replace(r) ==
    /\ node' = r
    /\ stale' = [h \in Handlers |-> pending'[h] # None]

\* The subscriber or the operator hears the answer to call c.
Heard(c, r) ==
    /\ handed' = IF c.kind = "claim" THEN [handed EXCEPT ![c.id] = @ + 1] ELSE handed
    /\ acked' = IF c.kind = "report" THEN [acked EXCEPT ![c.id] = c.status] ELSE acked
    /\ desire' = IF c.kind = "report" /\ c.status = "completed"
                 THEN LET x == r.actions[Find(r.actions, c.id)]
                      IN  [desire EXCEPT ![x.model] = IF x.model \in DOMAIN r.models THEN x.desired ELSE None]
                 ELSE desire

Finish(h) ==
    /\ pending[h] # None
    /\ pending' = [pending EXCEPT ![h] = None]
    /\ call' = [call EXCEPT ![h] = NoCall]
    /\ slips' = IF stale[h] THEN slips + 1 ELSE slips
    /\ Replace(pending[h])
    /\ UNCHANGED <<created, requeued, calls>>

\* Fault: the handler answers although nothing was saved.
WriteMemoryOnly(h) ==
    /\ Finish(h)
    /\ Heard(call[h], pending[h])
    /\ UNCHANGED <<disk, faults>>

\* The node is saved and the handler answers.
Write(h) ==
    /\ Finish(h)
    /\ disk' = pending[h]
    /\ Heard(call[h], pending[h])
    /\ UNCHANGED faults

\* The node is saved, or only memory is changed and the answer is a 500 (the
\* operator's actions ignore the error); the caller does not hear a success.
WriteUnheard(h) ==
    /\ Finish(h)
    /\ Fault
    /\ disk' \in {disk, pending[h]}
    /\ UNCHANGED <<handed, acked, desire>>

\* The first half of subscriberEnroll (RegisterEnrollmentNode), manualAddNode
\* and passiveAddNode: a new record, whatever the store has.
AddNode(control, inv, saved) ==
    /\ Called
    /\ LET r == Added(control, IF control = "managed" THEN inv ELSE Listed(inv))
       IN  /\ UNCHANGED pending
           /\ Replace(r)
           /\ \/ saved /\ disk' = r /\ UNCHANGED faults
              \/ ~ saved /\ Fault /\ UNCHANGED disk
    /\ acked' = [a \in Actions |-> None]
    /\ desire' = [m \in Models |-> None]
    /\ UNCHANGED <<call, created, handed, requeued, slips>>

\* Every audit event saves the whole state (AddAudit), unsaved changes too.
AuditEvent ==
    /\ disk # node
    /\ disk' = node
    /\ UNCHANGED <<node, handlerVars, created, history, calls, faults>>

\* The marshal starts again from the file; requests under way are lost.
Restart ==
    /\ Fault
    /\ node' = disk
    /\ pending' = [h \in Handlers |-> None]
    /\ call' = [h \in Handlers |-> NoCall]
    /\ stale' = [h \in Handlers |-> FALSE]
    /\ UNCHANGED <<disk, created, history, calls>>

Next ==
    \/ \E h \in Handlers :
         \/ \E a \in Actions, m \in Models, d \in BOOLEAN : QueueAction(h, a, m, d)
         \/ \E i \in 1..Len(node.actions) : ClaimAction(h, i)
         \/ \E a \in Actions, s \in Reports : ReportAction(h, a, s)
         \/ \E inv \in Inventories \union {None}, ready \in BOOLEAN : Heartbeat(h, inv, ready)
         \/ \E ready \in BOOLEAN : UpdateNode(h, ready)
         \/ \E m \in Models : BenchmarkResult(h, m)
         \/ \E inv \in Inventories : ProbePassive(h, inv)
         \/ Write(h)
         \/ WriteUnheard(h)
    \/ \E control \in {"managed", "passive"}, inv \in Inventories, saved \in BOOLEAN :
         AddNode(control, inv, saved)
    \/ AuditEvent
    \/ Restart

Spec == Init /\ [][Next]_vars
-------------------------------------------------------------------------------
(* Properties *)

Call == [kind : {"none", "queue", "claim", "report"}, id : Actions \union {None},
         status : Statuses \union {None}]

\* Every variable keeps its type: the records in memory, in the file and in
\* the handlers, and the histories of what the callers heard.
TypeOK ==
    /\ node \in Record /\ disk \in Record
    /\ pending \in [Handlers -> Record \union {None}]
    /\ call \in [Handlers -> Call]
    /\ stale \in [Handlers -> BOOLEAN]
    /\ created \subseteq Actions
    /\ handed \in [Actions -> Nat] /\ requeued \in [Actions -> Nat] /\ slips \in Nat
    /\ acked \in [Actions -> Statuses \union {None}]
    /\ desire \in [Models -> BOOLEAN \union {None}]
    /\ calls \in 0..MaxCalls /\ faults \in 0..MaxFaults

Coherent(r) ==
    /\ Len(r.actions) <= MaxActions
    /\ \A i, j \in 1..Len(r.actions) : r.actions[i].id = r.actions[j].id => i = j
    /\ IF r.actions = <<>> THEN r.head.id = None
       ELSE r.head = [id |-> r.actions[1].id, status |-> r.actions[1].status]
    /\ r.control = "passive" => r.actions = <<>>

\* However handlers overlap, fail and restart, no copy of the node lists an
\* action twice, outgrows the bound or shows another action as the last one
\* than the head of its list, and a passive endpoint has no action
\* (upsertModelLifecycleAction, modelLifecycleActionSummary, passiveAddNode).
ActionListCoherent ==
    /\ Coherent(node) /\ Coherent(disk)
    /\ \A h \in Handlers : pending[h] # None => Coherent(pending[h])

Counted(r) ==
    /\ r.summary.warm = Summary(r.models).warm
    /\ r.summary.keep = Summary(r.models).keep
    /\ r.control = "managed" => r.summary.count <= Summary(r.models).count

\* Benchmark results and probes change the inventory without refreshing the
\* counts that are reported beside it (applyModelLifecycleObserved).  The warm
\* and keep-warm counts are those of the inventory all the same, in every copy;
\* the count of the models of a managed node may lag behind by the models that
\* results added (benchmark_results.go:200), and is never too high.  Nothing is
\* said of the count of a passive endpoint, which a probe makes stale both ways.
SummaryMatchesModels ==
    /\ Counted(node) /\ Counted(disk)
    /\ \A h \in Handlers : pending[h] # None => Counted(pending[h])

\* Every copy of the record agrees with itself: the two parts above.
RecordsCoherent == TypeOK /\ ActionListCoherent /\ SummaryMatchesModels

\* An action is handed to the subscriber once, once more for every time it was
\* reported queued, and once more for every write of a stale copy: neither a
\* failed save, a lost answer nor a restart hands one out again
\* (nextQueuedModelLifecycleAction, subscriberModelActionClaim).
HandedOutOnce == \A a \in Actions : handed[a] <= 1 + requeued[a] + slips

Keeps(r) ==
    /\ \A i \in 1..Len(r.actions) :
          acked[r.actions[i].id] \in {None, r.actions[i].status}
    /\ \A m \in DOMAIN r.models : desire[m] \in {None, r.models[m].keep}

\* As long as handlers did not overlap, a report that was acknowledged is what
\* memory and file say of the action until it is claimed or reported again,
\* and a completed desire is the model's keep-warm flag until the subscriber
\* reports an inventory or another action completes, restarts and failed saves
\* included (subscriberModelActionStatus).
AcknowledgedReportStands == slips = 0 => Keeps(node) /\ Keeps(disk)
===============================================================================
