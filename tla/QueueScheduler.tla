---------------------------- MODULE QueueScheduler ----------------------------
(***************************************************************************)
(* The marshal's inference queue: queueScheduler and queueTracker          *)
(* (internal/httpapi/queue.go) as acquireQueue, marshalProxy and           *)
(* putRoutingPolicies (internal/httpapi/server.go) drive them.             *)
(*                                                                         *)
(* One process per inference request (the goroutine of its handler) and    *)
(* one per operator request (PUT /wrangler/routing/policies).  The         *)
(* scheduler's mutex is explicit, because release and configure keep it    *)
(* through the dispatchLocked loop while waiters already dispatched run    *)
(* on.  The tracker has its own mutex, so its operations are steps of      *)
(* their own and may fall between any two steps of the scheduler.          *)
(***************************************************************************)
EXTENDS Integers, Sequences, FiniteSets, SequencesExt

CONSTANTS Requests,      \* request identifiers, one per inference request
          Admins,        \* operator requests that may be in flight together
          Headers,       \* values of X-Llama-Wrangler-Priority; "absent" when missing
          BodyPriorities,\* values of the JSON field priority or queue_priority
          Settings,      \* decoded routing settings an operator may send
          Boot,          \* the settings the service starts with
          DefaultDepth,  \* config.Default's queue_max_depth (128 in the code)
          RecentCap,     \* length of the tracker's recent list (50 in the code)
          Nobody         \* the mutex is free

Priorities == {"high", "normal", "low"}
Policies == {"weighted_priority", "fifo"}

ASSUME ConstantsAssumption ==
    /\ IsFiniteSet(Requests)
    /\ Nobody \notin Requests \union Admins
    /\ Requests \intersect Admins = {}
    /\ Headers \subseteq Priorities \union {"absent"}
    /\ BodyPriorities \subseteq Priorities
    /\ DefaultDepth \in Nat \ {0}
    /\ RecentCap \in Nat
    /\ \A s \in Settings \union {Boot} :
          /\ s.depth \in Int
          /\ s.policy \in STRING
          /\ s.high \in Int /\ s.normal \in Int /\ s.low \in Int

VARIABLES
    (* queueScheduler *)
    capacity,    \* slots
    active,      \* slots counted as taken
    policy,      \* "weighted_priority" or "fifo"
    weights,     \* slots of the round per priority: [high, normal, low]
    cursor,      \* 0-based position in the round
    waiting,     \* the waiters, in arrival order
    dispatched,  \* dispatched[r]: r's waiter was dispatched, its channel closed
    mutex,       \* who runs release or configure, or Nobody
    (* the handlers *)
    pc,          \* pc[r]: where the handler of request r is
    header,      \* header[r]: the priority header r came with
    apc,         \* apc[a]: where operator request a is
    wanted,      \* wanted[a]: the normalised settings a installs
    (* queueTracker *)
    trackerCap,  \* the capacity it reports
    current,     \* current[r]: the entry of a request in progress, else NoEntry
    recent       \* the entries of the last finished requests, newest first

schedVars == <<capacity, active, policy, weights, cursor, waiting, dispatched, mutex>>
trackVars == <<trackerCap, current, recent>>
adminVars == <<apc, wanted>>
vars == <<schedVars, trackVars, adminVars, pc, header>>
-------------------------------------------------------------------------------
(* Normalisation *)

Positive(n, default) == IF n <= 0 THEN default ELSE n

\* config.Normalize and max(1, depth): an absent depth is the default one, a
\* negative depth is one slot.
Capacity(s) == IF s.depth = 0 THEN DefaultDepth ELSE Positive(s.depth, 1)

normalizeQueueSchedulingPolicy(s) ==
    IF s.policy = "fifo" THEN "fifo" ELSE "weighted_priority"

normalizeQueuePriorityWeights(s) ==
    [high   |-> Positive(s.high, 3),
     normal |-> Positive(s.normal, 2),
     low    |-> Positive(s.low, 1)]

Normalized(s) ==
    [capacity |-> Capacity(s),
     policy   |-> normalizeQueueSchedulingPolicy(s),
     weights  |-> normalizeQueuePriorityWeights(s)]

normalizeQueuePriority(h) == IF h = "absent" THEN "normal" ELSE h

\* The class a request is scheduled under: the header's, read before the body.
Class(r) == normalizeQueuePriority(header[r])

\* parseRequestPriority: the header wins, then the body, then "normal".
parseRequestPriority(r, body) == IF header[r] # "absent" THEN header[r] ELSE body
-------------------------------------------------------------------------------
(* The weighted round *)

RoundLength(w) == w.high + w.normal + w.low

\* buildQueuePrioritySchedule: the class served at position i of the round.
RoundAt(w, i) ==
    IF i < w.high THEN "high"
    ELSE IF i < w.high + w.normal THEN "normal" ELSE "low"

\* The class the k-th try of nextWaiterIndexLocked looks for.
TriedClass(k) == RoundAt(weights, (cursor + k) % RoundLength(weights))

Tries == 0 .. RoundLength(weights) - 1

ClassWaits(p) == \E j \in 1..Len(waiting) : Class(waiting[j]) = p

\* Fault: the cursor is not advanced.
NextWaiterIndexStuckCursor(i, c) ==
    /\ \E k \in Tries :
          /\ \A m \in Tries : m < k => ~ ClassWaits(TriedClass(m))
          /\ Class(waiting[i]) = TriedClass(k)
          /\ \A j \in 1..(i - 1) : Class(waiting[j]) # TriedClass(k)
    /\ c = cursor

\* nextWaiterIndexLocked returns index i and leaves the cursor at c.  The last
\* disjunct is the fallback after a round that matched nobody.
NextWaiterIndex(i, c) ==
    \/ /\ policy = "fifo"
       /\ i = 1
       /\ c = cursor
    \/ /\ policy # "fifo"
       /\ \E k \in Tries :
             /\ \A m \in Tries : m < k => ~ ClassWaits(TriedClass(m))
             /\ Class(waiting[i]) = TriedClass(k)
             /\ \A j \in 1..(i - 1) : Class(waiting[j]) # TriedClass(k)
             /\ c = (cursor + k + 1) % RoundLength(weights)
    \/ /\ policy # "fifo"
       /\ \A k \in Tries : ~ ClassWaits(TriedClass(k))
       /\ i = 1
       /\ c = cursor
-------------------------------------------------------------------------------
NoEntry == [status |-> "none", priority |-> "none"]

Init ==
    /\ capacity = Normalized(Boot).capacity
    /\ policy = Normalized(Boot).policy
    /\ weights = Normalized(Boot).weights
    /\ active = 0
    /\ cursor = 0
    /\ waiting = <<>>
    /\ dispatched = [r \in Requests |-> FALSE]
    /\ mutex = Nobody
    /\ pc = [r \in Requests |-> "idle"]
    /\ header = [r \in Requests |-> "absent"]
    /\ apc = [a \in Admins |-> "idle"]
    /\ wanted = [a \in Admins |-> Normalized(Boot)]
    /\ trackerCap = Capacity(Boot)
    /\ current = [r \in Requests |-> NoEntry]
    /\ recent = <<>>

Goto(r, l) == pc' = [pc EXCEPT ![r] = l]
-------------------------------------------------------------------------------
(* acquireQueue *)

\* A request arrives and queueTracker.enqueue records it as waiting.
Enqueue(r) ==
    /\ pc[r] = "idle"
    /\ \E h \in Headers :
          /\ header' = [header EXCEPT ![r] = h]
          /\ current' = [current EXCEPT ![r] =
                            [status |-> "waiting", priority |-> normalizeQueuePriority(h)]]
    /\ Goto(r, "enqueued")
    /\ UNCHANGED <<schedVars, adminVars, trackerCap, recent>>

\* acquire, fast path: a slot is free and nobody waits.
AcquireFast(r) ==
    /\ pc[r] = "enqueued"
    /\ mutex = Nobody
    /\ active < capacity
    /\ waiting = <<>>
    /\ active' = active + 1
    /\ Goto(r, "granted")
    /\ UNCHANGED <<capacity, policy, weights, cursor, waiting, dispatched, mutex,
                   adminVars, trackVars, header>>

\* acquire, slow path: append a waiter and leave the mutex.
AcquireWait(r) ==
    /\ pc[r] = "enqueued"
    /\ mutex = Nobody
    /\ active >= capacity \/ waiting # <<>>
    /\ waiting' = Append(waiting, r)
    /\ Goto(r, "waiting")
    /\ UNCHANGED <<capacity, active, policy, weights, cursor, dispatched, mutex,
                   adminVars, trackVars, header>>

\* The select takes the ready channel; no mutex is needed.
Woken(r) ==
    /\ pc[r] = "waiting"
    /\ dispatched[r]
    /\ Goto(r, "granted")
    /\ UNCHANGED <<schedVars, adminVars, trackVars, header>>

\* The select takes ctx.Done: the two seconds are over or the client is gone.
\* When both channels are ready either branch may be taken.
Expire(r) ==
    /\ pc[r] = "waiting"
    /\ Goto(r, "expired")
    /\ UNCHANGED <<schedVars, adminVars, trackVars, header>>

\* Fault: the late dispatch is not noticed and the request is turned away.
ExpiredAndSlotForgotten(r) ==
    /\ pc[r] = "expired"
    /\ mutex = Nobody
    /\ dispatched[r]
    /\ Goto(r, "denied")
    /\ UNCHANGED <<schedVars, adminVars, trackVars, header>>

\* After ctx.Done, under the mutex: dispatched meanwhile, so the slot is taken.
ExpiredButDispatched(r) ==
    /\ pc[r] = "expired"
    /\ mutex = Nobody
    /\ dispatched[r]
    /\ Goto(r, "granted")
    /\ UNCHANGED <<schedVars, adminVars, trackVars, header>>

\* After ctx.Done, under the mutex: still waiting, so the waiter is removed.
Withdraw(r) ==
    /\ pc[r] = "expired"
    /\ mutex = Nobody
    /\ ~ dispatched[r]
    /\ \E i \in 1..Len(waiting) :
          /\ waiting[i] = r
          /\ waiting' = RemoveAt(waiting, i)
    /\ Goto(r, "denied")
    /\ UNCHANGED <<capacity, active, policy, weights, cursor, dispatched, mutex,
                   adminVars, trackVars, header>>

\* queueTracker.start after acquire returned true.
Start(r) ==
    /\ pc[r] = "granted"
    /\ current' = [current EXCEPT ![r].status = "active"]
    /\ Goto(r, "active")
    /\ UNCHANGED <<schedVars, adminVars, trackerCap, recent, header>>

\* queueTracker.finish: the entry leaves current and heads recent.
FinishEntry(r, status) ==
    /\ current' = [current EXCEPT ![r] = NoEntry]
    /\ recent' = SubSeq(<<[request |-> r, status |-> status]>> \o recent, 1,
                        IF Len(recent) < RecentCap THEN Len(recent) + 1 ELSE RecentCap)
    /\ UNCHANGED trackerCap

\* Fault: the handler returns without finishing the entry.
DenyWithoutFinish(r) ==
    /\ pc[r] = "denied"
    /\ Goto(r, "done")
    /\ UNCHANGED <<schedVars, adminVars, trackVars, header>>

\* acquire returned false: "cancelled" when the client is gone by now, else
\* "rejected" with a 429.
Deny(r) ==
    /\ pc[r] = "denied"
    /\ \E status \in {"cancelled", "rejected"} : FinishEntry(r, status)
    /\ Goto(r, "done")
    /\ UNCHANGED <<schedVars, adminVars, header>>
-------------------------------------------------------------------------------
(* marshalProxy *)

\* The body is read and queueTracker.update records the priority it asks for.
ReadBody(r) ==
    /\ pc[r] = "active"
    /\ \E body \in BodyPriorities :
          current' = [current EXCEPT ![r].priority = parseRequestPriority(r, body)]
    /\ Goto(r, "serving")
    /\ UNCHANGED <<schedVars, adminVars, trackerCap, recent, header>>

\* The request was routed, sent and answered, or refused (RequestProxy and
\* Consensus model how): marshalProxy returns.
Proxied(r) ==
    /\ pc[r] = "serving"
    /\ Goto(r, "returning")
    /\ UNCHANGED <<schedVars, adminVars, trackVars, header>>

\* The deferred release: give the slot back, keep the mutex for the dispatch.
Release(r) ==
    /\ pc[r] = "returning"
    /\ mutex = Nobody
    /\ active' = IF active > 0 THEN active - 1 ELSE active
    /\ mutex' = r
    /\ Goto(r, "releasing")
    /\ UNCHANGED <<capacity, policy, weights, cursor, waiting, dispatched,
                   adminVars, trackVars, header>>

\* The deferred finishQueue, with the status the proxy ended in.
Finish(r) ==
    /\ pc[r] = "released"
    /\ \E status \in {"completed", "failed", "cancelled", "partial"} :
          FinishEntry(r, status)
    /\ Goto(r, "done")
    /\ UNCHANGED <<schedVars, adminVars, header>>
-------------------------------------------------------------------------------
(* dispatchLocked, run by whoever holds the mutex *)

\* Fault: the loop runs while the queue is exactly full.
CanDispatchWhenFull == active <= capacity /\ waiting # <<>>

CanDispatch == active < capacity /\ waiting # <<>>

DispatchOne ==
    /\ mutex # Nobody
    /\ CanDispatch
    /\ \E i \in 1..Len(waiting) : \E c \in 0 .. RoundLength(weights) - 1 :
          /\ NextWaiterIndex(i, c)
          /\ cursor' = c
          /\ waiting' = RemoveAt(waiting, i)
          /\ dispatched' = [dispatched EXCEPT ![waiting[i]] = TRUE]
          /\ active' = active + 1
    /\ UNCHANGED <<capacity, policy, weights, mutex, adminVars, trackVars, pc, header>>

\* Fault: release forgets to dispatch.
ReleaseWithoutDispatch(r) ==
    /\ mutex = r
    /\ pc[r] = "releasing"
    /\ mutex' = Nobody
    /\ Goto(r, "released")
    /\ UNCHANGED <<capacity, active, policy, weights, cursor, waiting, dispatched,
                   adminVars, trackVars, header>>

\* The loop of a release is over: unlock.
ReleaseDone(r) ==
    /\ mutex = r
    /\ pc[r] = "releasing"
    /\ ~ CanDispatch
    /\ mutex' = Nobody
    /\ Goto(r, "released")
    /\ UNCHANGED <<capacity, active, policy, weights, cursor, waiting, dispatched,
                   adminVars, trackVars, header>>

\* The loop of a configure is over: unlock.
ConfigureDone(a) ==
    /\ mutex = a
    /\ apc[a] = "configuring"
    /\ ~ CanDispatch
    /\ mutex' = Nobody
    /\ apc' = [apc EXCEPT ![a] = "configured"]
    /\ UNCHANGED <<capacity, active, policy, weights, cursor, waiting, dispatched,
                   wanted, trackVars, pc, header>>
-------------------------------------------------------------------------------
(* putRoutingPolicies *)

\* The settings are decoded and normalised.
PutRoutingPolicies(a) ==
    /\ apc[a] = "idle"
    /\ \E s \in Settings : wanted' = [wanted EXCEPT ![a] = Normalized(s)]
    /\ apc' = [apc EXCEPT ![a] = "decoded"]
    /\ UNCHANGED <<schedVars, trackVars, pc, header>>

\* Fault: a shorter round keeps the old cursor.
ConfigureKeepingCursor(a) ==
    /\ apc[a] = "decoded"
    /\ mutex = Nobody
    /\ capacity' = wanted[a].capacity
    /\ policy' = wanted[a].policy
    /\ weights' = wanted[a].weights
    /\ mutex' = a
    /\ apc' = [apc EXCEPT ![a] = "configuring"]
    /\ UNCHANGED <<active, cursor, waiting, dispatched, wanted, trackVars, pc, header>>

\* queueScheduler.configure up to its dispatchLocked.
ConfigureScheduler(a) ==
    /\ apc[a] = "decoded"
    /\ mutex = Nobody
    /\ capacity' = wanted[a].capacity
    /\ policy' = wanted[a].policy
    /\ weights' = wanted[a].weights
    /\ cursor' = IF cursor >= RoundLength(wanted[a].weights) THEN 0 ELSE cursor
    /\ mutex' = a
    /\ apc' = [apc EXCEPT ![a] = "configuring"]
    /\ UNCHANGED <<active, waiting, dispatched, wanted, trackVars, pc, header>>

\* queueTracker.configure, after the scheduler's mutex was left.
ConfigureTracker(a) ==
    /\ apc[a] = "configured"
    /\ trackerCap' = wanted[a].capacity
    /\ apc' = [apc EXCEPT ![a] = "idle"]
    /\ UNCHANGED <<schedVars, current, recent, wanted, pc, header>>
-------------------------------------------------------------------------------
RequestStep(r) ==
    \/ Enqueue(r) \/ AcquireFast(r) \/ AcquireWait(r)
    \/ Woken(r) \/ Expire(r) \/ ExpiredButDispatched(r) \/ Withdraw(r)
    \/ Start(r) \/ Deny(r)
    \/ ReadBody(r) \/ Proxied(r) \/ Release(r) \/ ReleaseDone(r) \/ Finish(r)

AdminStep(a) ==
    \/ PutRoutingPolicies(a) \/ ConfigureScheduler(a)
    \/ ConfigureDone(a) \/ ConfigureTracker(a)

Next ==
    \/ \E r \in Requests : RequestStep(r)
    \/ \E a \in Admins : AdminStep(a)
    \/ DispatchOne

Spec == Init /\ [][Next]_vars

(* Fairness.  A goroutine that is runnable runs.  Steps that lock the        *)
(* scheduler's mutex are strongly fair, because a sync.Mutex hands itself to *)
(* a waiter it starves.  Arrivals, operator requests and Expire are not      *)
(* fair: what is promised of waiters holds even when no timer ever fires.    *)
(* ReadBody and Proxied are not fair either: io.ReadAll(r.Body) and the copy *)
(* of the answer go at the client's pace, the slot is held meanwhile, and    *)
(* the http.Server of Run has neither a read nor a write timeout.            *)
Fairness ==
    /\ \A r \in Requests :
          /\ SF_vars(AcquireFast(r) \/ AcquireWait(r))
          /\ WF_vars(Woken(r))
          /\ SF_vars(ExpiredButDispatched(r) \/ Withdraw(r))
          /\ WF_vars(Start(r) \/ Deny(r) \/ ReleaseDone(r) \/ Finish(r))
          /\ SF_vars(Release(r))
    /\ \A a \in Admins :
          /\ SF_vars(ConfigureScheduler(a))
          /\ WF_vars(ConfigureDone(a) \/ ConfigureTracker(a))
    /\ WF_vars(DispatchOne)

FairSpec == Spec /\ Fairness
-------------------------------------------------------------------------------
(* Properties *)

Labels == {"idle", "enqueued", "waiting", "expired", "granted", "active", "serving",
           "returning", "releasing", "released", "denied", "done"}
Final == {"completed", "failed", "cancelled", "rejected", "partial"}
Entries == [status : {"none", "waiting", "active"}, priority : Priorities \union {"none"}]
WeightSet == [high : Nat \ {0}, normal : Nat \ {0}, low : Nat \ {0}]
NormalSettings == [capacity : Nat \ {0}, policy : Policies, weights : WeightSet]

\* The type of every variable: capacities and weights stay positive through
\* every reconfiguration, and the cursor stays inside the current round.
TypeOK ==
    /\ capacity \in Nat \ {0}
    /\ active \in Nat
    /\ policy \in Policies
    /\ weights \in WeightSet
    /\ cursor \in 0 .. RoundLength(weights) - 1
    /\ waiting \in Seq(Requests)
    /\ dispatched \in [Requests -> BOOLEAN]
    /\ mutex \in Requests \union Admins \union {Nobody}
    /\ pc \in [Requests -> Labels]
    /\ header \in [Requests -> Priorities \union {"absent"}]
    /\ apc \in [Admins -> {"idle", "decoded", "configuring", "configured"}]
    /\ wanted \in [Admins -> NormalSettings]
    /\ trackerCap \in Nat \ {0}
    /\ current \in [Requests -> Entries]
    /\ recent \in Seq([request : Requests, status : Final])

Blocked(r) == pc[r] \in {"waiting", "expired"}

\* The requests that own a slot: granted and not yet released, or dispatched by
\* another goroutine while their own one still sleeps or has just timed out.
Holders ==
    {r \in Requests : \/ pc[r] \in {"granted", "active", "serving", "returning"}
                      \/ Blocked(r) /\ dispatched[r]}

Waiters == {r \in Requests : Blocked(r) /\ ~ dispatched[r]}

\* acquire/release: the slot counter is exactly the number of requests that own
\* a slot, through every race of a timeout with a dispatch; no slot is leaked
\* and none is given back twice.
SlotAccounting == active = Cardinality(Holders)

\* acquire/dispatchLocked: the waiting list holds every request that blocks
\* undispatched, once, and nobody else; so nobody sleeps outside the list and
\* a request that gave up leaves no waiter behind.  A request that has not yet
\* asked for a slot was not dispatched.
WaiterDiscipline ==
    /\ \A i, j \in 1..Len(waiting) : waiting[i] = waiting[j] => i = j
    /\ \A r \in Requests :
          r \in Waiters <=> \E i \in 1..Len(waiting) : waiting[i] = r
    /\ \A r \in Requests : pc[r] \in {"idle", "enqueued"} => ~ dispatched[r]

\* dispatchLocked: whenever the mutex is free, a request waits only if all the
\* slots are taken.
WorkConserving == mutex = Nobody => (waiting = <<>> \/ active >= capacity)

\* The inductive invariant of the scheduler, the basis of its proofs.
SchedulerInv == TypeOK /\ WaiterDiscipline /\ SlotAccounting /\ WorkConserving

\* acquireQueue and marshalProxy keep the tracker in step with the scheduler: a
\* request has an entry exactly while it is in progress, an "active" entry owns
\* a slot or has just released it, and nobody is in current and recent at once.
TrackerAgreement ==
    \A r \in Requests :
       /\ current[r] = NoEntry <=> pc[r] \in {"idle", "done"}
       /\ current[r].status = "active" =>
             r \in Holders \/ pc[r] \in {"releasing", "released"}
       /\ (\E i \in 1..Len(recent) : recent[i].request = r) => pc[r] = "done"

\* acquire, release and configure: no step raises the slot counter above the
\* capacity, also right after an operator lowered it below the counter.
CapacityRespected == [][active' > active => active' <= capacity']_vars

\* Tries until the round reaches class p.
TriesUntil(p) == Min({k \in Tries : TriedClass(k) = p})

\* nextWaiterIndexLocked: a dispatch that passes over a waiting class brings the
\* round strictly closer to that class, so between two reconfigurations a class
\* is passed over fewer times than the round is long.
PassedOverGetsCloser ==
    [][(active' > active /\ Len(waiting') < Len(waiting) /\ policy # "fifo") =>
          \A p \in Priorities :
             (/\ ClassWaits(p)
              /\ \A i \in 1..Len(waiting) : Class(waiting[i]) = p =>
                     \E j \in 1..Len(waiting') : waiting'[j] = waiting[i])
             => TriesUntil(p)' < TriesUntil(p)]_vars

\* An assumption on the clients, which nothing in the code enforces: none stops
\* for ever in the middle of its body or of the answer without hanging up.  The
\* node's part of the answer is bounded by the timeout of s.client.
ClientsGoOn == \A r \in Requests : []<>(pc[r] \notin {"active", "serving"})

\* acquire, release and configure: if no client holds its slot for ever, every
\* request that arrived is answered, even if no timer ever fires: a blocked
\* request is dispatched by somebody else's release or configure.
EveryRequestIsAnswered ==
    ClientsGoOn => \A r \in Requests : (pc[r] # "idle") ~> (pc[r] = "done")

\* The queue implements AdmissionControl.
AC == INSTANCE AdmissionControl WITH
        Limits <- {Capacity(s) : s \in Settings \union {Boot}}, limit <- capacity, holders <- Holders, waiters <- Waiters

Admission == AC!Spec
===============================================================================
