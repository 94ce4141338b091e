# Llama Wrangler: TLA+ models, checks and proofs

Llama Wrangler is a Go service that stands in front of several Ollama nodes. The
*marshal* accepts OpenAI- and Ollama-compatible requests, queues them, chooses a
node, forwards the request and streams the answer back. *Subscribers* run next to
an Ollama instance, enroll at the marshal, send heartbeats and carry out benchmark
jobs and model actions for it. This directory models the parts of the service that
hold state several goroutines or machines touch, checks them with TLC and proves
their main safety properties with TLAPS for every size of system.

All paths below are relative to `src/`.

## 1. Inventory

| Component | State | Operations | Used by / uses |
|---|---|---|---|
| Request queue (`internal/httpapi/queue.go`) | capacity, active count, policy, weights, round cursor, waiting list, per-waiter channel; tracker entries | acquire, timeout, release, dispatch, configure; enqueue, start, finish | every inference request; the operator's policy update |
| Routing selection (`internal/routing/routing.go`) | none | filter and score the nodes, list candidates | request handler; reads a snapshot of the store |
| Session affinity (`internal/session/session.go`) | session record in the store | read, replace the selected node, write | request handler |
| Request proxy and fallback (`server.go` marshalProxy, forwardWithFallback, copyUpstreamResponse) | the response already sent | try nodes, copy or stream the answer | queue, routing, session, nodes |
| Consensus (`consensus.go`, `internal/consensus/engine.go`) | results channel, deadline | fan out, collect, compare, choose | request handler |
| Node registry, enrollment, approval (`server.go`, `internal/appstate/state.go`) | nodes, enrollment queue, credentials | token, register, verify, rotate, heartbeat, manual and passive add, approve, revoke, enable, disable | subscribers, operator; routing reads it |
| State store (`internal/appstate/state.go`) | everything above in memory and one JSON file | snapshot, upsert, save, load | all handlers |
| Benchmark jobs and scheduler (`benchmark_jobs.go`, `benchmark_results.go`, `benchmark_scheduler_background.go`) | job list per node | create, reconcile, claim, status, result | operator, background tick, runner |
| Subscriber runner (`benchmark_runner_loop.go`) | current job | poll, run, report | benchmark jobs over HTTP |
| Model actions (`model_lifecycle_actions.go`) | action list, inventory and summary counts per node | queue, claim, report | operator, a subscriber outside this repository |
| Secrets (`internal/secrets/store.go`) | encrypted file, key file, OS keychain | get, set, delete, rekey | credentials, client keys |
| Client API keys (`server.go`, `auth.go`, `internal/appstate/state.go`) | an entry per key in the state file, its token in the secrets | create, rotate, revoke, put the default key in place, check a token | clients, operator, start-up |
| Admin token, failure limiter (`auth.go`, `auth_limiter.go`) | failures per scope and host; the token in memory, in its file and in the OS keychain | check, count, block, reset; rotate, ensure at start | every request |
| Configuration (`internal/config/config.go`, `server.go`) | the stored configuration, the file, `s.cfg`, and the parts of it in scheduler, tracker and telemetry | setup, recommended settings, config, aliases, routing policies, Splunk HEC, benchmark policy, first key; normalise, load, start | operator, start-up; everything reads it |
| Telemetry, reports, UI, discovery, support bundle, detection, frontier policy, command line | none that another component reads | formatting and I/O | - |

How they interact: an inference request passes authentication, the queue, routing,
session affinity and then either the proxy or consensus, and gives its queue slot
back at the end. The registry decides which nodes routing may see. All persistent
state goes through one store: `Snapshot` copies it under a lock, the handler changes
its copy, `UpsertNode` writes the whole node back under the lock and saves the file.
Nothing is locked between the two, and memory changes before the file does.

What is hard here:

- a queue wait that times out while another goroutine hands it a slot;
- capacity, policy and weights changed under waiting requests;
- a client that leaves or stops reading, or a node that breaks off, in the middle of an
  answer;
- fallback after the session replaced the chosen node;
- read-modify-write of a whole node by concurrent handlers;
- saves that fail and restarts that bring an old file back;
- leases that end while the runner still works, lost answers and repeated claims;
- one-time tokens presented twice, credentials stored in a second place;
- client keys whose entry and token live in two files and a keychain, changed one
  after the other, with a rekey that renames two files;
- candidates ordered by two stable sorts over a Go map, from records that age;
- model actions without a lease, claimed and reported by read-modify-write of the
  node, whose summary is refreshed by some of the handlers that change it, so that the
  number of models lags behind the inventory;
- a failure window that a block outlasts or not, beside a token that is rotated in
  three places;
- one configuration in seven copies, renewed one by one by handlers that overlap,
  some of which drop the error of their save.

`PROJECT.json` lists each of these as a hazard at the line where it bites, with
the properties that cover it.

## 2. Modules

| Module | Models | Role |
|---|---|---|
| `AdmissionControl` | what the queue promises | abstract specification |
| `QueueScheduler` | `queueScheduler`, `queueTracker`, acquireQueue, the queue part of marshalProxy, the configure calls of putRoutingPolicies | implements `AdmissionControl` |
| `RequestProxy` | marshalProxy after the queue, ApplyAffinity, forwardWithFallback, copyUpstreamResponse | component |
| `BenchmarkJobs` | the job list of a node, its handlers, the background tick and the subscriber's runner loop | composition of marshal, store and runner |
| `NodeRegistry` | tokens, registration, credentials, heartbeats, operator actions, memory and file | composition of handlers and store |
| `Consensus` | the consensus part of Select, forwardConsensus, fetchConsensusParticipant, Evaluate | component |
| `SecretsStore` | Open, Set, Get, Delete, Rekey, the migrations from plaintext and to the keychain | component |
| `ClientKeys` | the key handlers, ensureDefaultClientKey, validClientAPIKey, the entries in the state store | composition with `SecretsStore` |
| `Routing` | routing.Select with eligibility, score, placement and order, and the handlers that write what it reads | component |
| `Lists` | what a filter loop and `sort.SliceStable` return: elements by the rank of their positions | used by `Consensus` and `Routing` |
| `ModelActions` | the action list of a node, its handlers, and the handlers that write the same record | composition of handlers and store |
| `AuthGate` | requireAdmin, requireClientAPIKey, the failure limiter, rotation and start of the admin token | component |
| `Settings` | every handler that changes the configuration, its normalisation, its copies, NewServer | composition of handlers, store and the parts they configure |
| `QueueSchedulerProofs`, `RequestProxyProofs`, `BenchmarkJobsProofs`, `NodeRegistryProofs`, `SelectionProofs` (of `Consensus` and `Routing`), `CredentialProofs` (of `ClientKeys` and `AuthGate`), `SettingsProofs`, `ModelActionsProofs` | - | theorems |
| `MC...` | - | constants and symmetry sets for TLC |

### QueueScheduler

One process per request (`pc[r]`) and one per operator call (`apc[a]`). `acquire`
holds the mutex for a bounded piece of code, so it is one step: `AcquireFast` when a
slot is free and nobody waits, `AcquireWait` otherwise. `release` and `configure`
keep the mutex through the `dispatchLocked` loop while the waiters they wake
already run; that is the variable `mutex`, one `DispatchOne` step per turn of the
loop, and `ReleaseDone` or `ConfigureDone` at the unlock. A timeout or a lost
client is `Expire`, which may fall at any time before the handler sees its channel
closed; the handler then takes the mutex and finds either that it was dispatched
meanwhile (`ExpiredButDispatched`: the slot is given back) or not (`Withdraw`).
The tracker has a mutex of its own, so `Enqueue`, `Start`, `ReadBody` and `Finish`
are separate steps; `Proxied` is everything between, at the client's and the nodes'
pace, with the slot held. `Normalized` is the normalisation of the settings an operator
sends; `NextWaiterIndex` is the choice of the next waiter under both policies,
with the weighted round and its cursor.

### RequestProxy

Per request: the candidate list routing returned (an input), the chosen node, the
list to try, the position in it, and what the client was given (`heads`,
`chunks`, `status`). `Route` includes the read of the session record, `Pin` its
replacement of the node and its write. Each turn of the fallback loop is
`MissingURL`, `BadURL` or `SendRequest`; the call then fails or answers, and the
copy either reads the whole body before the first byte (non-streaming) or forwards
chunk by chunk. `Proceed` has the steps that the handler takes by itself or waits for
within the timeout of `s.client`, `Copy` those that write to the client.
`ClientLeaves` cancels the request's context at any time.

### BenchmarkJobs

`jobs` is the list in memory, `disk` the list in the file. A handler process
computes the lists it will write from the snapshot it reads (`Work`), and writes
them one by one (`Write`, or `WriteUnsaved` when the save fails); a claim writes up
to twice, after the reconciliation and after the claim. Any number of handlers run at
the same time, and nothing is locked between read and write. Times are countdowns
lowered by `Tick`, which stands for the clock: only the order of "due" and "not
yet" matters to the code. The runner (`rpc`, `rjob`) sends a claim, a running
status and a result; `LoseCall` loses a call before it was handled,
`RunnerGivesUp` is its own timeout, `Restart` brings the file's list back. A subscriber
that is not the built-in runner may end with any status that the two endpoints accept:
`StatusReports` for the status, `Statuses` for the result, "queued", "running" and the
probe statuses included. The result handler keeps such a status beside the state
"terminal", so a job that was reported as queued can be claimed again.

Three history variables name what this code cannot keep in order. `stale[h]` says that
handler `h` works on a copy another write has overtaken, or on a report whose sender has
polled again; `astray` collects the jobs such a write or report was applied to, and
`requeued` those that a report put back. The properties are about all other jobs, with
any number of handlers: they say that these are the only ways in which a job goes back.

### NodeRegistry

A handler is a process with the copy of the node it read (`seen`). `Read` takes
the copy, `Write` upserts what its operation makes of it; registration, credential
and marking of `subscriberEnroll` are three steps. `Save(saved)` is `saveLocked`:
memory changes in any case, the file only when `saved`. The credentials are in a map
(`secret`) and in a file (`kept`): a `secrets.Set` that fails has changed the map and
not the file, and the heartbeats of this process are accepted on it. A manually added
subscriber brings the observed map it was fetched with, and may bring the flag.

`decision` (the operator's last decision, rolled back with the file on a restart),
`granted` and `uses` are history variables for the properties. So are `late`, the
handlers whose copy is older than the last decision about its node, `slipped`, the nodes
such a handler has written, and `loose`, the nodes that were flagged without a
credential in the file: by a heartbeat that was accepted on a credential whose `Set`
failed, or by their own report. With them the properties hold for any number of
concurrent handlers and name the only ways out.

### Consensus

One request, since consensus requests share nothing. Its actors are the handler
(`at`), a goroutine per participant (`fetch`, `outcome`), the deadline and the
client. `fanout` is `fanoutCtx`; the cancellation of the request's context (`gone`)
reaches it in a step of its own, `CancelSpreads`, as in Go's context package. The
channel (`results`) has room for every participant, which is what lets late
goroutines end. `Collect` and `Stop` are the two branches of the select and may
both be enabled. A body is reduced to its identity and the `Signature` that
normalisation leaves of it; a body of the run stands for all that have its signature.
`Evaluate` is the engine's loop over the agreement groups, with no
validator and the evaluator that scores 0, as the handler constructs it.
The branch of forwardConsensus for fewer participants than required cannot be
reached, because Select refuses such a request first (`FanoutBounded`).

### SecretsStore and ClientKeys

`SecretsStore` has the key file, the encrypted file (with the number of the key
that sealed it), the plaintext file of older releases, the OS keychain, and the map
in memory. A write goes through a temporary file and a rename, so it happens or
fails. `Write` changes the map and then the file under the mutex, `WriteKeychain`
follows without it; `RekeyRenameKey` and `RekeyRenameFile` are the two renames, with
`RekeyRollback` and the process's end (`Close`) between them. The roll back writes both
files in place and ignores errors: either write may fail, and leave the encrypted file
empty (`Truncated`). `Open`,
`RemoveLegacy` and `MigrateFallbackToOSKeychain` are a start, any of whose steps
may be the last.

`ClientKeys` adds the entries of the keys in memory and in the state file, and the
handlers (`at`, `call`): token into the secrets, into the keychain, entry into the
state, and for a new key a last save of the whole state. Every step may fail and
handlers interleave between steps. `EnsureDefaultClientKey` is the end of a start.
The history variables say what clients were told: `issued` (tokens in a 200
answer), `retired` (those an answered rotation or revocation ended), `current` (the
token nobody began to replace since), `stale` (keys of which the keychain missed a
write) and `torn` (a rekey that was cut between its renames, or not rolled back).

### Routing

`fleet` holds the node records and `decision` the last decision. One action per
handler that writes a field `Select` reads (`Enroll`, `ManualAdd`, `PassiveAdd`,
`Heartbeat`, `BenchmarkResult`, `Probe`, `Approve`, `NodeAction`), `Tick` for the
clock - times are ages up to the first that is too old - and `Select`, which
walks the records in any order of `Orders`, adds the subscribers of the
configuration the store does not know, keeps the eligible ones that serve the
model and sorts them twice, as the code does. A list is filtered and sorted by the
positions of its elements (`Kept` and `Arranged` in `Lists`): place `k` has the
position that `k - 1` others come before. `DecisionFollowsPolicy` states the
result without sorts: exactly the candidates of the first model that has some,
each one preferred to those behind it. The history variable `beats` keeps when a
node last gave a sign of life, apart from the record. It begins anew when a node is
added again: `manualAddNode` and `passiveAddNode` write a record that does not demand
heartbeats (`server.go:820-893`), so a node that fell silent is routed to again once it
was added and approved again.

### ModelActions

`node` is the record in memory, `disk` the one in the file; a handler computes the
record it will write from its snapshot (`pending`) and upserts it in a second step,
which may fail to save. The operator queues an action, a subscriber claims the
newest queued one and reports a status; heartbeats, probes, benchmark results and
re-enrollment write the same record, some with and some without a refresh of the
action summary. The subscriber's side is external: no client of these calls is in
the repository, so any report in `Reports` may come at any time, and an answer may
be lost. `handed`, `requeued`, `acked` and `desire` record what the callers heard,
`slips` counts the writes of stale copies. What the model shows about the code:
claims are last in, first out; there is no lease, so an action whose claim was
answered into the void stays running; a late "running" or "queued" report reopens
a completed action; a claim does not look at approval or enablement again; and only
overlapping handlers can hand an action out twice, once per stale write. The counts
reported beside the inventory are not refreshed when a result adds a model: the warm and
keep-warm counts stay exact, `model_count` of a managed node lags behind and is never too
high.

### AuthGate

A limiter key is a scope and a host. `FirstSeen` is kept as an age and
`BlockedUntil` as the time left, both moved by `Tick`; `soft` is the history of the
refusals: how many are not older than each age. Valid credentials pass even while the host is blocked
(`docs/02_architecture.md:173`), and the cooldown is shorter than the window, so
one wrong token after a block blocks again.

The admin token lives in memory, in its file and, where it is active, in the OS
keychain, which `Get` believes first (`Accepted`). `Rotate` changes memory and file under
the lock, `RotateKeychain` follows without it, so that two rotations may reach the
keychain in the other order; an error there is swallowed and turns the keychain off
until the next start, which believes its old token again (`store.go:195-199`, `334`).
The rotation is answered in a step of its own, so that answers get lost or overtake
each other. `lost` has the tokens whose own rotation failed to save, whose answer was
lost or which a restart cut; `missed` those the keychain did not take or overwrote with
an older one. Both can leave the operator without the token that counts, because the
next start finds a token and makes no other. `OperatorHoldsToken` says of each place that
nothing else can.

### Settings

`stored` (always normalised), `file`, `running` (`s.cfg`), the capacities in
`scheduler` and `tracker`, the HEC token in `secret`, `secretFile` and `tele`. A
handler takes a snapshot and changes it (`Begin`), then does the steps of its list
(`Steps`) one at a time; a failed save ends the `Strict` ones with 500 and leaves
the others going on. Two assignments of `s.cfg` at once are a data race, `RunTorn`:
every field comes from one of them. `apart`, `slipped`, `opened` and `stale` record
which update may have left a copy behind, so that each property names the only ways
in which copies disagree: PUT config does not configure queue, tracker or
telemetry; an update without a token leaves telemetry without one until the next
start; a strict save that fails has changed the stored configuration and not the
running one; and a copy that was read before a setup and saved after it switches
authentication off again, until an update saves it on.

## 3. Runs

| Run | Instance | Checks |
|---|---|---|
| `queue` | 3 requests of every priority, 1 operator, 3 settings with 1 and 2 slots and both policies | types, slot count, no idle slot, tracker agreement, weighted fairness, refinement of `AdmissionControl` (no admission over capacity) |
| `queue_liveness` | 2 requests, 1 operator | every request is answered, if no client holds its slot for ever |
| `benchmark` | 1 job, 2 attempts, 2 handlers, 4 reported statuses, 1 fault | lists in order, acknowledged results durable, leases protect, the file moves forward, each but for what an overtaken write or report reached or a report put back |
| `benchmark_liveness` | 2 jobs in a list of 1, 1 handler, 1 fault | every job ends |
| `proxy` | 2 requests of one session, 3 nodes, 4 candidate lists, strict affinity | one answer, every candidate tried but one that the session displaced, no retry after output, every request ends whose client reads on or hangs up |
| `consensus` | up to 4 participants, 3 answers, failures with and without an answer, 5 alias settings | fan-out bounded and quorum reachable, errors tell what happened, the winner is the plurality whatever the order of arrival, no goroutine is left behind, and no request whose client reads on |
| `registry` | 1 node, 1 token, 2 handlers, 1 fault | no self-approval, a saved credential behind the flag, one-time tokens, approval follows the operator but where an older copy was written |
| `client_keys` | 2 keys, 2 handlers, 3 tokens, 2 encryption keys, 2 faults, with and without keychain | files open together, the fallback has every current token, current tokens work, retired ones do not |
| `routing` | 3 nodes, 2 models, 3 fleets that change 3 times, 3 map orders, both modes | the decision is the policy's in every map order, no revoked or silent node, consensus asks the managed, trusted part of what one request would ask, in the same order |
| `model_actions` | 3 actions in a list of 2, 1 model, 2 handlers, 5 calls, 2 faults | types; list, bound and summary coherent in every copy, warm and keep-warm counts those of the inventory; handed out once, acknowledged reports stand |
| `auth_gate` | 1 host in both scopes, 3 failures block, window 3, cooldown 1, 3 tokens, with and without keychain, 2 faults | only recent failures block, guesses per window bounded, the operator holds the token that counts |
| `settings` | 3 updates by 2 handlers, 1 configuration body, 2 HEC tokens, 2 faults | types; what is stored is normalised, and running, queue and telemetry agree with it; a set-up marshal stays locked, saved updates stand |

Why the bounds suffice for the cases of interest:

- *queue*: with three requests there can be a holder, a waiter being dispatched
  and a waiter passed over; going from 2 slots to 1 puts the counter above the
  capacity; the weights 1/2/1 make rounds of different length, so a stale cursor
  is outside the new round. The tracker keeps one finished entry, so its list
  is cut.
- *benchmark*: two handlers are one that overtakes and one that is overtaken, whose
  lists differ in one job as they would in several; two
  attempts tell retry from exhaustion; one unit of lease and retry delay tells
  due from not due; "queued" and "running" put a job back, "completed" and "failed"
  stand for the statuses that end it; one fault is a failed save, a lost call, a restart
  or a report that puts the job back. The cut of the oldest job happens in the liveness
  run; larger instances of the safety run exceed minutes, and the theorems cover them.
- *proxy*: lists of 0 to 3 nodes, one starting with a node other than n1, so the
  session of one request pins the other to a node that is not its first. Two
  chunks tell the first byte, later bytes and the end apart.
- *consensus*: four participants are the fewest for which the code's rule and the
  documents' differ (a, b, b, c), beside majorities, ties and three different answers;
  the maximum is 4 (8 in the code) and the ranking and the bounds go below and above it.
  Two kinds of failure stand for those that a call can end with by itself, because the
  code treats them alike; timeouts and cancellations come from the deadline and the
  client.
- *registry*: two handlers let one write a copy that the other has overtaken and let two
  registrations race for one token; one fault is a failed save or a restart, and a
  failed `Set` is not counted, so it can be followed by a restart. More nodes, tokens and
  faults exceed what TLC finishes in minutes, and the theorems cover any number.
- *client keys*: two handlers meet at one key or work on two; three tokens are the
  first, its replacement and one more; two faults allow a failed save or a lost
  keychain followed by a stop; a second encryption key is what a rekey needs.
- *routing*: three changes are enough to approve a node, let it fall silent and
  change it once more; the fleets have equal nodes (only the id decides), measured
  nodes (the rate decides) and a node known only from the configuration; two
  results are kept, so the third is cut.

- *model actions*: three actions on a list of two force the cut; five calls let an
  action be queued, claimed, reported and reported again beside another handler.
- *auth gate*: the cooldown ends inside the window that caused it, as in the code
  (30 s and 60 s), and the window outlives the block; three failures tell the
  first, one in the middle and the one that blocks apart; three tokens are the first and
  those of two rotations that overlap; two faults are a keychain error or a failed save,
  and a restart.
- *settings*: three updates are a setup, an update with a copy from before it, and
  one that repairs; a depth of -1 and nine attempts are outside the bounds of the
  normalisation; two faults are a failed save and a restart.

Requests are interchangeable in `queue`, handlers in `benchmark`, nodes, tokens
and handlers in the registry, handlers in `client_keys`, actions and handlers in `model_actions`,
handlers and HEC tokens in `settings`: no definition names one, so symmetry is sound there;
it is not used with liveness. Deadlock is checked except in the `proxy` and
`consensus` runs, where every request ends and nothing is left to do, and in
`routing`, `model_actions` and `settings`, where the number of calls is bounded.

Every module states its types in `TypeOK`. It is checked where it says more than
types (in `queue`: positive limits and a cursor inside the round; as a part of
`RecordsCoherent` and `CopiesFollowStored`), and it is a conjunct of the proved
invariants of the queue, the proxy, the jobs, the registry and the client keys;
`WaiterDiscipline` and `CapacityRespected` are proved and not repeated in a
run. In the other modules it documents the variables.

Every property of a passing run has a mutant in `PROJECT.json`: a definition of
the model changed as a plausible bug would change the code (a slot forgotten on a
timeout race, an off-by-one in the capacity test, a cursor not reset, a release
without dispatch, a token kept after use, ...), for which TLC reports that property
violated. The definitions named after the original with a suffix, placed just
before it, are those mutants; no specification uses them.

### Fairness

Nothing is assumed of clients by fairness. The `http.Server` of `Run` (`server.go:124`)
sets no read or write timeout; `io.ReadAll(r.Body)` (`server.go:1740`) and the writes of an
answer run at the client's pace with the queue slot held. A client that neither goes on
nor hangs up therefore keeps its handler, and its slot, for ever, and with all slots taken
that way nobody is served. The steps at the client's pace are not fair, and the three
properties about the end of a request state what they assume of clients as a hypothesis.

- *queue*: strong fairness for steps that take the scheduler's mutex, because
  Go's `sync.Mutex` hands the lock to a waiter that has starved for 1 ms; weak fairness for
  the other steps of a goroutine. `ReadBody` and `Proxied` are not fair: the hypothesis
  of `EveryRequestIsAnswered` is `ClientsGoOn`. Arrivals, operators and timeouts are not
  fair: a request may be answered by a slot or by its timeout, the property does not
  count on the latter.
- *proxy*: weak fairness for `Proceed`. A call to a node that never
  answers ends because `s.client` has a timeout. `Copy` and the client's leaving are not
  fair; the hypothesis of `EveryRequestEnds` is `ClientReads`.
- *consensus*: the handler runs up to the answer, the timer fires, and a call whose
  context is done returns. A node need not answer before. That the goroutines end needs
  nothing of the client; that the handler does needs that it is not `Writing` for ever.
- *benchmark*: the clock goes on; handlers go on; the runner's sends are strongly
  fair because another call may occupy the handler each time it wants to send. The background tick, operators
  and faults are not fair, and faults are bounded in number: with unbounded
  failures no job would have to end.

## 4. Differences met between code and documents

The properties state what the code does. Where a document says something else:

- affinity replaces the selected node but not the fallback list
  (`server.go:1754`), so the pinned node may be tried twice and the first
  candidate never; `docs/02_architecture.md:129` says otherwise.
  `EveryCandidateTried` excepts exactly that candidate (`Displaced`);
- a heartbeat, an override or a report that read the node before a revoke and
  writes after it restores the approval (`server.go:1292`, `server.go:795`);
  `docs/12_ui_api.md:265` says a revoked node stays out.
  `ApprovalFollowsOperator` says, for any number of handlers, that nothing else does;
- an error of the keychain during a rotation is swallowed; the next start requests
  the keychain again and believes its old value (`secrets/store.go:334`), so the
  replaced token is accepted, contrary to
  `docs/21_v1_acceptance_security_matrix.md:38`. `RetiredIsRejected` says that
  this is the only way for client keys, `OperatorHoldsToken` for the admin token;
- with answers a, b, b, c the engine serves b, which has no majority
  (`engine.go:152`); `docs/12_ui_api.md:293` says the earliest ranked successful
  participant is returned then. `WinnerIsPlurality` states what the code does. Its mutant
  `betterGroupAsDocumented` is the documents' rule, and TLC tells the two apart in the
  instance of the `consensus` run with exactly that counterexample;
- a result whose status is "queued" makes an ended job claimable again, beyond
  max_attempts (`benchmark_results.go:203-212`, `benchmark_jobs.go:257-266`);
  `docs/12_ui_api.md:371` lists "queued" for the status endpoint, 373 says a result completes
  its job and does not mention this. `JobsInOrder` excepts the jobs in `requeued`;
- a failure that the built-in runner reports as a result is terminal at once
  (`benchmark_jobs.go:266`); `docs/12_ui_api.md:404` describes retries;
- a benchmark handler that read the list before a result was stored writes the old
  list back (`benchmark_jobs.go:387`), and the ended job runs again.
  `DiskMovesForward` says that only such a write, a report that comes after its sender
  polled again, or one that puts the job back does that.

## 5. Proofs

The proof modules hold theorems for every value of the constants: any number of
requests, nodes, jobs, tokens, handlers and faults, any capacity, any list length.
The named `ASSUME`s say what the constants are (disjoint sets, natural numbers,
statuses from the code's lists).

**Queue.** `SchedulerInv = TypeOK /\ WaiterDiscipline /\ SlotAccounting /\
WorkConserving` is inductive. The slot count alone is not: that a dispatched waiter
is a holder and everyone in the list is blocked and not dispatched
(`WaiterDiscipline`) is needed to see that a timeout race neither loses nor
doubles a slot. Work conservation holds only while the mutex is free, and needs
the guard of `ReleaseDone`. `SchedulerCorrect` gives `TypeCorrect`,
`SlotsAreAccounted`, `NoIdleSlot` and `CapacityIsRespected`, and with the
positive limits `QueueImplementsAdmission`: under `limit <- capacity`,
`holders <- Holders`, `waiters <- Waiters` each step is a step of
`AdmissionControl` or a stutter. `TrackerFollows` has an invariant of its own,
`TrackerInv`: `Tracked` ties the status of a request's entry to the place of its
handler, and `RecentDone` says that the recent list only has requests that ended,
which is what keeps a request out of both lists. `RoundIsFair` is about one dispatch:
the tries of the new round are those of the old one, counted from after the try that
matched (`RoundGoesOn`, modulo the length of the round), every class occurs in the
round, and a class that still waits was not matched before.

**Proxy.** `ClientGetsOneAnswer` and `OutputIsNeverRetried` from `AnswerInv`, which
ties the head count to the place of the handler; `AllCandidatesAreTried` from
`Through` (every node before the index was tried or skipped), for every affinity:
the one candidate that may be left out is the one the session displaced.

**Benchmark jobs.** All four safety properties are proved for any number of handlers,
jobs and faults and every status that the endpoints accept. `JobListsInOrder` is from
`JobsInv = TypeOK /\ JobsInOrder /\ CallsOK`: `JobsInOrder` speaks of memory, file and the
lists handlers still hold, because each of them may become the list.

`AcknowledgedSurvives`, `LeaseHolds` and `FileMovesForward` rest on `SharedInv`. It
relates memory, the file and the lists of all handlers that are not overtaken, since each
of them may be the next file: none of them takes an ended job or an attempt of the file
back, and a listed acknowledged job is ended in it (`Sound`), except for jobs in
`astray` or `requeued`; the runner's job is not ended in any of them, and running until
its lease ends (`Held`, `Mine`). `WaitInv` says that the runner waits for exactly the
call it sent, and `StageInv` and `PendingInv` what the call under way will answer, so that
the runner gets a job only when it is running and an acknowledgement only for what is in
the file. A write of an overtaken list puts every job into `astray`, so
the invariant says nothing of those any more (`SharedWriteStale`); a write of a list that
was not overtaken makes all others stale (`SharedWrite`).

**Registry.** `RegistryCorrect` proves the invariant of memory, file, secrets and copies;
`OnlyOperatorsApprove`, `FlagAfterCredential`, `TokensAreOneTime` and, with `Agree`,
`ApprovalIsTheOperators` follow for any number of concurrent handlers. `Agree` says that
memory, the file and every copy that is not `late` show the last decision, but for
the nodes in `slipped`. For the flag, `CopiesOK` says that a handler about to write it for
an enrollment or a rotation has its credential in the file, and `SecretsOK` that the file
of the secrets has nothing the map does not have, so that a restart finds what was kept.

**Consensus.** `FanoutIsBounded` and `ErrorsAreTrue` from `Inv`, whose part `Truth`
says that every mark of a timeout or cancellation - in an outcome, in the channel
or in the handler - was left by a deadline that passed or a client that left. That
is stronger than `ErrorsTellWhy`, which speaks of the end only.

`PluralityWins` is about what Evaluate's loop finds. The loop is a recursive function,
and the prover has no induction over data; what replaces it is a least counterexample
(`LeastOf`: a set of natural numbers has a least element). `BestOf(c, e, i)` says
without recursion that group `e` is the best that the first `i` candidates opened;
there is exactly one for every prefix (`BestUnique`, `BestExists`), the function that
maps each prefix to it satisfies the equation of the loop (`LoopEnds`), and everything
that does is that function (`LoopFinds`). The candidates list each success once in the
order of the routing, so the members of a group are in one-to-one correspondence with
the nodes that gave the answer (`SupportOf`, `ListedAll`). `Elected` then says that a
winner, once served, stands: participants that come later, the timer and the client
change no outcome that was received (`VotesKept`). With it the winner is a node, and
`ConsensusTyped` follows.

**Routing.** `RoutingInv` says of every node that its record and its last sign of life
belong together (`Sound`: a node that gave one is managed, must be heard of, and was
heard at that age) and that the decision was taken of the records as they are
(`Fresh`); every other step voids it. `DecisionsFollowPolicy` and `RoutedNodesAlive`
are then facts about `Select`. That `Arranged` returns every element once and in the
order is `Arrangement`: the number of elements before one grows strictly along the
order (`RankGrows`), and by cardinality every rank is taken (`RankTaken`). The sort by
placement is stable, so its ties are in the order of score and id that the first sort
left. `ConsensusStricter` compares two lists of different sorts: both are sorted by the
same order of nodes, because the scores of the two modes differ by the same amount for
all nodes that consensus admits, and only one list has given elements in a given order
(`SameList`, again by the least place where two differ). Assumed of the constants:
node ids are compared as integers, an order of the map has every node once, and the
configuration names a node once. The last is up to the operator: nothing in
`internal/config` rejects a second entry, and `Select` would list such a node twice.

**Client keys.** `Inv = TypeOK /\ KeysOK /\ PhaseOK /\ SoloOK /\ CurrentOK /\
FreshOK /\ RetiredOK` gives `FilesOpen`, `FallbackIsComplete`, `IssuedTokensWork`,
`RetiredTokensFail` and `TypesHold` for any number of keys, handlers and faults.
None of the four properties is inductive: `KeysOK` relates the key in memory, the
two files and a rekey between its renames; `PhaseOK` says that a start puts the
default key in place alone; `SoloOK` that a handler which was alone at its key
finds its own token in every place it has written; `CurrentOK` that a current token
is in all of them and nobody is at its key; `FreshOK` that a token a handler still
carries was handed out by nobody; and `RetiredOK` that a retired token, and for a
handler past its write those it will retire, is in no place that will be read, the
keychain included unless it is stale. An encrypted file that a roll back emptied opens
with no key, so what it says of a current token is asked only once it is written again.

**Auth gate.** The second part of `CredentialProofs`. `BlocksAreEarned` and
`RefusalsAreBounded` come from `GateInv`, which says of each key that the limiter's
record and the history of refusals belong together (`Counted`): the count of an open
window is the number of its refusals and the first of them is as old as the window, so
that of a window which is over at most `Limit - 2` refusals are still in the span
(`OldWindow`); and a block that has lasted `d` ticks began with `Limit - 1` refusals no
older than the window (`BlockCounts`). The bound `2 * Limit - 3` is not inductive
without the age of the first refusal. `OperatorKeepsToken` needs with the property that
tokens are drawn once, and that the bounds also hold of tokens whose answer is still on its
way: none of them is newer than memory and file, and one newer than the keychain's is
`missed` (`TokenInv`).

**Settings.** `SetupLocks` from `LockInv`, for any number of handlers and updates. The
property alone is not inductive: `Handler` says of each handler in flight that
before its save its copy turns the lock off only if it is PUT config or the
configuration was saved since it was read, that the copy of a setup has it on, and
that a setup past its save left it on unless somebody opened it; `Ordered` keeps
the save in front of the mark while the steps are done.

`SavedStands` needs `SavedInv`: memory and file are normalised, and a copy in flight
that is not stale agrees with memory outside its handler's section, so that saving it
moves no other field. `CopiesFollow` needs `CopyInv`, which says for each handler in
flight which copies it has renewed and which it is still going to (`Follower`), that a
handler which began and ends alone finds them as it left them (`Alone`), and what holds
while nobody of a kind is in flight (`RunningIsStored`, `QueueKept`,
`TelemetryKept`).

**Model actions.** A copy of the node is *fresh* when nobody has overtaken it: memory,
the file, and the record of a handler that was not made stale. `RecordsInv` says of
every copy, stale or not, that it agrees with itself (`Sane`) and that the call of its
handler is about the first action of it (`About`); it gives `RecordsStayCoherent`.
`HandInv` says that an action which a fresh copy has queued, or a fresh handler is about
to hand out, may be handed out once more (`Room`): a write that is heard leaves no other
fresh copy, so room is used once, and a stale write brings its own (`slips`). That is
`ActionsHandedOutOnce`. `StandInv` says that all fresh copies say what was acknowledged,
as long as no stale one was written, and gives `ReportsStand`. The set of models is
assumed finite, because the summary counts them.

Only model-checked:

- all liveness (fairness and ENABLED are out of the prover's reach):
  `EveryRequestIsAnswered`, `EveryJobEnds`, `EveryRequestEnds` and
  `NothingIsLeftBehind`. Every other property of the runs is also a theorem.

No proved module has a recursive operator. The two facts about lists that several
proofs use (`RemoveAtFacts`, `PrependElements`) are proved in each of them.

## 6. Abstractions

- Names, models, messages, headers and bodies are model values; timestamps, depth
  figures, telemetry and audit records are left out.
- *Benchmark*: one node, one policy; reports that put a job back are bounded like
  faults; the handler's `now` and its snapshot are the
  same instant; the node is managed, eligible and authenticated; the list of
  results and the node's summary are not modelled.
- *Proxy*: the candidate list is an input; a node's URL may be missing or bad;
  consensus requests take another path (`Consensus`).
- *Client keys*: names of keys are left out, so a created key may be the one named
  `local-ide`; tokens and keys are random and therefore never drawn twice, and the
  token a start gives the default key is shown to nobody; the creation of the key
  file is one step; the marshal is set up; keys in the
  configuration file and the wording of the status are not modelled; the admin token
  is in `AuthGate`.
- *Routing*: a handler's read and write are one step (`NodeRegistry` has the
  overlaps); the tags for heavy work change by the operator's override, which stands for
  those that a subscriber sends itself (`server.go:567`, `766`); a manually added node
  does not demand heartbeats, although the JSON fetched from it could say so; no id occurs twice in the configuration; a result is not completed in
  the future; a result has one rate; the participant bounds are in `Consensus`.
- *Registry*: status and enabled are in `Routing`; `approved` is derived from the approval state as `normalizeNode`
  does; "update" stands for every
  handler that writes the node back without touching these fields (enable, disable, trust,
  overrides, probes, model actions, benchmark handlers); the marshal's own node is left
  out; calls that are refused and change nothing are left out except a refused
  heartbeat. `nodeAction` drops the error of its save; an acknowledged but
  unsaved decision is listed as a hazard and not tracked.
- *Queue*: the tracker's priority may come from the body, the scheduler's never does;
  one operator call at a time in the runs; two overlapping ones can leave
  scheduler and tracker with different settings, which `Settings` has, together
  with `s.cfg`, which is replaced without a lock.
- *Model actions*: one node, managed and authenticated; messages, sources and
  times of an action are left out, its model and what is desired of it are kept;
  approval, enabled and status are one flag; a node that is added by hand starts without
  actions, although the observed map fetched from it is kept (`server.go:886-890`) and
  could hold some; of the counts per state those of warm models, keep-warm models and all
  models are kept.
- *Auth gate*: the marshal is set up and authentication is on; the keychain holds the
  admin token only, and the errors of other secrets are its loss (`AdminKeychainLost`);
  a restart forgets the limiter's failures and with them the history that the properties
  count; a request without a
  token is refused and changes nothing; whether a client key is valid is an input.
- *Settings*: of the configuration those fields are kept that differ in how they
  are normalised or used (flags, a bounded number, a default for 0, one for the
  empty value); the default key that setup creates is in `ClientKeys`; a handler's
  own event and those of other requests save the whole state. The heartbeat
  credential in `s.cfg`, which is not part of the JSON and so is dropped by every
  update, has no field here.

## 7. Not modelled, and the plan

Pure I/O, formatting and generated files (telemetry, HEC, status reports, UI,
presets, support bundle, detection, discovery, command line, service wrapper) have
no state that another component reads. Planned, in this order:

1. a composition of queue and proxy, in which the slot is given back on every exit;
2. for each of the four liveness properties the safety facts its argument rests on
   (a measure that no step raises and every fair step lowers), as theorems; the step
   from there to the property needs fairness and stays with TLC.
