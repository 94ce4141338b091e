---------------------------- MODULE NodeRegistry ----------------------------
(***************************************************************************)
(* How remote nodes enter, change and leave the marshal's node store:      *)
(* enrollment tokens, registration, heartbeat credentials, the operator's  *)
(* approve, revoke, enable and disable, manually added subscribers and     *)
(* passive endpoints.                                                      *)
(*                                                                         *)
(* appstate.Store guards every single operation with a mutex and saves the *)
(* whole state at its end, but the handlers of internal/httpapi take a     *)
(* snapshot, work on a copy of the node and upsert the copy.  A handler is *)
(* therefore a process with a local copy "seen", and its store and secret  *)
(* operations are separate steps.  Memory is changed before the file: a    *)
(* save may fail and a restart goes back to the file.  The credentials are *)
(* in a store of their own, which is also a map in memory, changed first,  *)
(* and a file.                                                             *)
(***************************************************************************)
EXTENDS Integers, Sequences

CONSTANTS
  Nodes,      \* identifiers of remote nodes
  Tokens,     \* enrollment tokens the marshal can draw
  Handlers,   \* requests the marshal serves at the same time
  NoRec,      \* a node that is not in the store
  NoToken,    \* a queue entry whose token hash was cleared
  MaxFaults   \* bound on failed saves and restarts

ASSUME NoTokenAssumption == NoToken \notin Tokens
ASSUME FaultsAssumption == MaxFaults \in Nat

Approvals == {"pending", "approved", "revoked"}

\* The fields of appstate.Node that decide about trust and heartbeats.  auth is
\* observed["heartbeat_auth_method"] = "shared_secret"; approved is a function
\* of approval (normalizeNode).  Routing has the status and the switch.
Rec == [control: {"managed", "passive"}, approval: Approvals, auth: BOOLEAN]
Entry == [token: Tokens \cup {NoToken}, node: Nodes, approval: Approvals]

ASSUME NoRecAssumption == NoRec \notin Rec

\* What a handler does to its copy of the node.  "update" is every operation
\* that writes these fields back as it read them: enable, disable, trust,
\* overrides, probes of passive endpoints, jobs, results, model actions.
Operations == {"approve", "revoke", "update", "rotate", "heartbeat", "enroll"}
Points == {"idle", "readback", "credential", "verify", "write", "notify", "mark"}

VARIABLES
  nodes,      \* state.Nodes
  queue,      \* state.EnrollmentQueue, newest first
  disk,       \* the state file: nodes, queue, and the histories they reflect
  secret,     \* nodes with a heartbeat credential in the secret store's map
  kept,       \* nodes with a heartbeat credential in the secrets file
  token,      \* a token: not drawn yet, given to the operator, or of no use
  at,         \* where a handler is
  op,         \* its operation
  target,     \* the node it is about
  seen,       \* its copy of the node
  decision,   \* history: what the operator last decided about a node
  slipped,    \* history: nodes written from a copy older than that decision
  late,       \* history: handlers whose copy is older than the last decision
  granted,    \* history: nodes an operator ever approved
  loose,      \* history: nodes flagged without a credential in the file
  uses,       \* history: registrations a token was accepted for
  faults      \* failed saves and restarts so far

store == <<nodes, queue, disk, decision, slipped, faults>>
credentials == <<secret, kept, loose>>
control == <<at, op, target, seen>>
vars == <<nodes, queue, disk, secret, kept, token, at, op, target, seen,
          decision, slipped, late, granted, loose, uses, faults>>

Init ==
  /\ nodes = [n \in Nodes |-> NoRec]
  /\ queue = <<>>
  /\ decision = [n \in Nodes |-> "pending"]
  /\ slipped = {}
  /\ disk = [nodes |-> nodes, queue |-> queue, decision |-> decision, slipped |-> slipped]
  /\ secret = {}
  /\ kept = {}
  /\ loose = {}
  /\ late = {}
  /\ token = [t \in Tokens |-> "new"]
  /\ at = [h \in Handlers |-> "idle"]
  /\ op = [h \in Handlers |-> "update"]
  /\ target \in [Handlers -> Nodes]
  /\ seen = [h \in Handlers |-> NoRec]
  /\ granted = {}
  /\ uses = [t \in Tokens |-> 0]
  /\ faults = 0

-----------------------------------------------------------------------------
(* The store.                                                              *)

\* saveLocked after a change of memory: the file follows, or the save fails
\* and only memory has changed.
Save(saved) ==
  \/ /\ saved
     /\ disk' = [nodes |-> nodes', queue |-> queue', decision |-> decision',
                 slipped |-> slipped']
     /\ UNCHANGED faults
  \/ /\ ~saved /\ faults < MaxFaults
     /\ faults' = faults + 1
     /\ UNCHANGED disk

\* A handler needs its copy no more.
Forget(h, p) == /\ at' = [at EXCEPT ![h] = p]
                /\ op' = [op EXCEPT ![h] = "update"]
                /\ seen' = [seen EXCEPT ![h] = NoRec]
                /\ UNCHANGED target

\* It has answered.
Done(h) == Forget(h, "idle") /\ late' = late \ {h}

\* A handler goes on with its operation.
Proceed(h, p) == /\ at' = [at EXCEPT ![h] = p]
                 /\ UNCHANGED <<op, target>>

\* sameEnrollmentRequest finds the first entry of the same node (a token is
\* drawn once, so no other entry has its hash).
SameNode(n) == {i \in DOMAIN queue : queue[i].node = n}
SameToken(t) == {i \in DOMAIN queue : queue[i].token = t}
First(S) == {i \in S : \A j \in S : i <= j}

AddEnrollmentRequest(e) ==
  \/ \E i \in First(SameNode(e.node)) : queue' = [queue EXCEPT ![i] = e]
  \/ SameNode(e.node) = {} /\ queue' = <<e>> \o queue

\* createEnrollmentToken.  The operator is given the token when it was saved.
CreateToken(h, t, n, saved) ==
  /\ at[h] = "idle"
  /\ token[t] = "new"
  /\ AddEnrollmentRequest([token |-> t, node |-> n, approval |-> "pending"])
  /\ token' = [token EXCEPT ![t] = IF saved THEN "given" ELSE "void"]
  /\ UNCHANGED <<nodes, decision, slipped, credentials, control, late, granted, uses>>
  /\ Save(saved)

\* The token's expiry time passes.
TokenExpires(t) ==
  /\ token[t] = "given"
  /\ token' = [token EXCEPT ![t] = "void"]
  /\ UNCHANGED <<store, credentials, control, late, granted, uses>>

\* The handlers that will still write a copy of node n they read before.
Copying == {"credential", "verify", "write"}
Overtaken(n) == {g \in Handlers : at[g] \in Copying /\ target[g] = n}

\* Mutant: a node that comes back keeps the approval it had.
AddKeepingApproval(n, r) ==
  /\ nodes' = [nodes EXCEPT ![n] = IF @ = NoRec THEN r ELSE [r EXCEPT !.approval = nodes[n].approval]]
  /\ decision' = [decision EXCEPT ![n] = "pending"]
  /\ slipped' = slipped \ {n}
  /\ late' = late \cup Overtaken(n)

\* A node in the store and in the operator's view after it was (re)added.
Add(n, r) == /\ nodes' = [nodes EXCEPT ![n] = r]
             /\ decision' = [decision EXCEPT ![n] = "pending"]
             /\ slipped' = slipped \ {n}
             /\ late' = late \cup Overtaken(n)

\* A subscriber as it enters the store.
Enrolled == [control |-> "managed", approval |-> "pending", auth |-> FALSE]

\* Mutant: the entry keeps its token hash.
RegisterKeepingToken(h, t, n, saved) ==
  /\ at[h] = "idle" /\ token[t] = "given"
  /\ saved
  /\ Add(n, Enrolled)
  /\ \E i \in First(SameToken(t)) :
       queue' = [queue EXCEPT ![i] = [token |-> t, node |-> n, approval |-> "pending"]]
  /\ uses' = [uses EXCEPT ![t] = @ + 1]
  /\ UNCHANGED <<credentials, token, control, granted>>
  /\ Save(saved)

\* subscriberEnroll up to the end of RegisterEnrollmentNode: the token's entry
\* is bound to the name the subscriber gives, and the token is spent.  An
\* error, a failed save too, is answered with 401.
Register(h, t, n, saved) ==
  /\ at[h] = "idle" /\ token[t] = "given"
  /\ Add(n, Enrolled)
  /\ \E i \in First(SameToken(t)) :
       queue' = [queue EXCEPT ![i] = [token |-> NoToken, node |-> n, approval |-> "pending"]]
  /\ \/ /\ saved
        /\ at' = [at EXCEPT ![h] = "readback"]
        /\ op' = [op EXCEPT ![h] = "enroll"]
        /\ target' = [target EXCEPT ![h] = n]
        /\ uses' = [uses EXCEPT ![t] = @ + 1]
     \/ /\ ~saved
        /\ UNCHANGED <<at, op, target, uses>>
  /\ UNCHANGED <<credentials, token, seen, granted>>
  /\ Save(saved)

\* manualAddNode: a subscriber's capabilities could be fetched, or not.  The
\* node is written without a look at what the store has, and with the observed
\* map that was fetched, which may hold the flag.
ManualAdd(h, n, flag, saved) ==
  /\ at[h] = "idle"
  /\ Add(n, [Enrolled EXCEPT !.auth = flag])
  /\ loose' = IF flag THEN loose \cup {n} ELSE loose
  /\ UNCHANGED <<queue, secret, kept, token, control, granted, uses>>
  /\ Save(saved)

\* passiveAddNode.
PassiveAdd(h, n, saved) ==
  /\ at[h] = "idle"
  /\ Add(n, [control |-> "passive", approval |-> "pending", auth |-> FALSE])
  /\ UNCHANGED <<queue, credentials, token, control, granted, uses>>
  /\ Save(saved)

-----------------------------------------------------------------------------
(* The handlers that change a node.                                        *)

\* Mutant: enabling a node approves it.
ResultEnableApproves(o, r, n) ==
  CASE o \in {"approve", "update"} -> [r EXCEPT !.approval = "approved"]
    [] OTHER -> r

\* subscriberHeartbeat: the flag, when it finds a credential in the secret store.
HeartbeatResult(r, n) == [r EXCEPT !.auth = @ \/ n \in secret]

\* What an operation turns its copy into.
Result(o, r, n) ==
  CASE o = "approve" -> [r EXCEPT !.approval = "approved"]
    [] o = "revoke"  -> [r EXCEPT !.approval = "revoked"]
    [] o = "heartbeat" -> HeartbeatResult(r, n)
    [] o \in {"rotate", "enroll"} -> [r EXCEPT !.auth = TRUE]
    [] OTHER -> r

\* The operations a node's control level allows.
Allowed(o, r) == o \in {"rotate", "heartbeat"} => r.control = "managed"

\* Snapshot at the start of nodeAction, of subscriberHeartbeat, or of another
\* handler that upserts the node.
Read(h, o, n) ==
  /\ at[h] = "idle" /\ o # "enroll"
  /\ nodes[n] # NoRec /\ Allowed(o, nodes[n])
  /\ at' = [at EXCEPT ![h] = CASE o = "rotate" -> "credential"
                               [] o = "heartbeat" -> "verify"
                               [] OTHER -> "write"]
  /\ op' = [op EXCEPT ![h] = o]
  /\ target' = [target EXCEPT ![h] = n]
  /\ seen' = [seen EXCEPT ![h] = nodes[n]]
  /\ UNCHANGED <<store, credentials, token, late, granted, uses>>

\* subscriberEnroll reads back the node it registered.
ReadBack(h) ==
  /\ at[h] = "readback"
  /\ Proceed(h, "credential")
  /\ seen' = [seen EXCEPT ![h] = nodes[target[h]]]
  /\ UNCHANGED <<store, credentials, token, late, granted, uses>>

\* verifySubscriberHeartbeatCredential; valid: the caller gave the credential.
Accepted(h, valid) == IF target[h] \in secret THEN valid ELSE ~seen[h].auth
Verify(h, valid) ==
  /\ at[h] = "verify"
  /\ \/ Accepted(h, valid) /\ Proceed(h, "write") /\ UNCHANGED <<seen, late>>
     \/ ~Accepted(h, valid) /\ Done(h)
  /\ UNCHANGED <<store, credentials, token, granted, uses>>

\* secrets.Set of an enrolling node's or a rotated credential: the map is
\* changed, and the file is written from the whole map.
StoreCredential(h) ==
  /\ at[h] = "credential"
  /\ Proceed(h, "write")
  /\ secret' = secret \cup {target[h]}
  /\ kept' = secret'
  /\ UNCHANGED <<store, token, seen, late, granted, loose, uses>>

\* Mutant: the failure goes unnoticed.
CredentialFailsUnnoticed(h) ==
  /\ at[h] = "credential"
  /\ Proceed(h, "write")
  /\ secret' = secret \cup {target[h]}
  /\ UNCHANGED <<store, kept, token, seen, late, granted, loose, uses>>

\* secrets.Set could not save: the map keeps the credential, the handler answers
\* 500 and leaves the node alone.
CredentialFails(h) ==
  /\ at[h] = "credential"
  /\ Done(h)
  /\ secret' = secret \cup {target[h]}
  /\ UNCHANGED <<store, kept, token, granted, loose, uses>>

\* UpsertNode of the changed copy.  approve and revoke go on whether it was
\* saved or not; the others answer.
Write(h, saved) ==
  /\ at[h] = "write"
  /\ nodes' = [nodes EXCEPT ![target[h]] = Result(op[h], seen[h], target[h])]
  /\ \/ /\ op[h] \in {"approve", "revoke"}
        /\ decision' = [decision EXCEPT ![target[h]] =
                          IF op[h] = "approve" THEN "approved" ELSE "revoked"]
        /\ slipped' = slipped \ {target[h]}
        /\ late' = (late \cup Overtaken(target[h])) \ {h}
        /\ Forget(h, "notify")
     \/ /\ op[h] \notin {"approve", "revoke"}
        /\ slipped' = IF h \in late THEN slipped \cup {target[h]} ELSE slipped
        /\ Done(h) /\ UNCHANGED decision
  /\ granted' = IF op[h] = "approve" THEN granted \cup {target[h]} ELSE granted
  /\ loose' = IF op[h] = "heartbeat" THEN loose \cup ({target[h]} \cap (secret \ kept))
              ELSE loose
  /\ UNCHANGED <<queue, secret, kept, token, uses>>
  /\ Save(saved)

\* approve and revoke read the stored node back ...
Notify(h) ==
  /\ at[h] = "notify"
  /\ Proceed(h, "mark")
  /\ seen' = [seen EXCEPT ![h] = nodes[target[h]]]
  /\ UNCHANGED <<store, credentials, token, late, granted, uses>>

\* ... and SetEnrollmentApproval copies its approval to the node's first entry.
SetEnrollmentApproval(h, saved) ==
  /\ at[h] = "mark"
  /\ \E i \in First(SameNode(target[h])) :
       queue' = [queue EXCEPT ![i].approval = seen[h].approval]
  /\ Done(h)
  /\ UNCHANGED <<nodes, decision, slipped, credentials, token, granted, uses>>
  /\ Save(saved)

\* The node never enrolled: no entry, no save.
NoEntryToMark(h) ==
  /\ at[h] = "mark" /\ SameNode(target[h]) = {}
  /\ Done(h)
  /\ UNCHANGED <<store, credentials, token, granted, uses>>

\* The marshal ends and starts again from its files.
Restart ==
  /\ faults < MaxFaults
  /\ faults' = faults + 1
  /\ nodes' = disk.nodes
  /\ queue' = disk.queue
  /\ decision' = disk.decision
  /\ slipped' = disk.slipped
  /\ secret' = kept
  /\ late' = {}
  /\ at' = [h \in Handlers |-> "idle"]
  /\ op' = [h \in Handlers |-> "update"]
  /\ seen' = [h \in Handlers |-> NoRec]
  /\ UNCHANGED <<disk, kept, token, target, granted, loose, uses>>

Next ==
  \/ \E h \in Handlers, t \in Tokens, n \in Nodes, saved \in BOOLEAN :
       CreateToken(h, t, n, saved)
  \/ \E t \in Tokens : TokenExpires(t)
  \/ \E h \in Handlers, t \in Tokens, n \in Nodes, saved \in BOOLEAN :
       Register(h, t, n, saved)
  \/ \E h \in Handlers, n \in Nodes, flag, saved \in BOOLEAN :
       ManualAdd(h, n, flag, saved)
  \/ \E h \in Handlers, n \in Nodes, saved \in BOOLEAN : PassiveAdd(h, n, saved)
  \/ \E h \in Handlers, o \in Operations, n \in Nodes : Read(h, o, n)
  \/ \E h \in Handlers : ReadBack(h)
  \/ \E h \in Handlers, valid \in BOOLEAN : Verify(h, valid)
  \/ \E h \in Handlers : StoreCredential(h) \/ CredentialFails(h)
  \/ \E h \in Handlers, saved \in BOOLEAN : Write(h, saved)
  \/ \E h \in Handlers : Notify(h) \/ NoEntryToMark(h)
  \/ \E h \in Handlers, saved \in BOOLEAN : SetEnrollmentApproval(h, saved)
  \/ Restart

Spec == Init /\ [][Next]_vars

-----------------------------------------------------------------------------
(* Properties.                                                             *)

NodeMaps == [Nodes -> Rec \cup {NoRec}]

\* The store, its file and the handlers' copies keep their shape; a handler
\* past its read holds a node, because nothing ever removes one from memory
\* but a restart, which ends the handler too.
TypeOK ==
  /\ nodes \in NodeMaps
  /\ queue \in Seq(Entry)
  /\ disk \in [nodes: NodeMaps, queue: Seq(Entry), decision: [Nodes -> Approvals],
               slipped: SUBSET Nodes]
  /\ secret \in SUBSET Nodes /\ kept \in SUBSET Nodes /\ loose \in SUBSET Nodes
  /\ token \in [Tokens -> {"new", "given", "void"}]
  /\ at \in [Handlers -> Points]
  /\ op \in [Handlers -> Operations]
  /\ target \in [Handlers -> Nodes]
  /\ seen \in [Handlers -> Rec \cup {NoRec}]
  /\ decision \in [Nodes -> Approvals]
  /\ slipped \in SUBSET Nodes
  /\ late \in SUBSET Handlers
  /\ granted \in SUBSET Nodes
  /\ uses \in [Tokens -> Nat]
  /\ faults \in 0 .. MaxFaults
  /\ \A h \in Handlers :
       /\ at[h] \in {"credential", "verify", "write", "mark"} => seen[h] # NoRec
       /\ at[h] \in {"readback", "notify"} => nodes[target[h]] # NoRec

\* A node that no operator ever approved is approved nowhere: not in memory or
\* on disk, not in the copy of a handler that may still write it, not in the
\* enrollment queue.  Registration, heartbeats, probes, enable, failed saves
\* and restarts included.
NoSelfApproval ==
  /\ \A n \in Nodes : \A r \in {nodes[n], disk.nodes[n]} :
       r # NoRec /\ r.approval = "approved" => n \in granted
  /\ \A h \in Handlers :
       seen[h] # NoRec /\ seen[h].approval = "approved" => target[h] \in granted
  /\ \A i \in DOMAIN queue : queue[i].approval = "approved" => queue[i].node \in granted
  /\ \A i \in DOMAIN disk.queue :
       disk.queue[i].approval = "approved" => disk.queue[i].node \in granted

\* A node is marked as authenticated by a shared secret, in memory, in the state
\* file or in a copy that may still be written, only when the secret is in the
\* secrets file.  Otherwise verifySubscriberHeartbeatCredential would refuse all
\* of its heartbeats as subscriber_heartbeat_auth_unavailable after the next
\* start.  It holds through failed Sets and saves, restarts and handlers that
\* write old copies, but for the two ways in which the code lets a flag in
\* without a saved credential: a heartbeat that is accepted on a credential whose
\* Set failed, which stays in the map, and a manually added subscriber whose own
\* report says it.
CredentialBehindFlag ==
  /\ \A n \in Nodes : \A r \in {nodes[n], disk.nodes[n]} :
       r # NoRec /\ r.auth => n \in kept \cup loose
  /\ \A h \in Handlers :
       seen[h] # NoRec /\ seen[h].auth => target[h] \in kept \cup loose

\* An enrollment token is accepted for at most one registration, through
\* concurrent registrations, failed saves and restarts.
TokenUsedOnce == \A t \in Tokens : uses[t] <= 1

\* A node's approval, in memory and in the file, is what the operator last
\* decided, as far as it was saved: registering again or adding it again takes
\* the approval back, nothing else changes it, and the state file holds the
\* decisions together with the nodes.  The exception is the node that a handler
\* wrote from a copy it had read before the decision (UpsertNode writes whole
\* records): it may show an older approval, until the next decision about it.
ApprovalFollowsOperator ==
  \A n \in Nodes :
    /\ nodes[n] # NoRec /\ n \notin slipped => nodes[n].approval = decision[n]
    /\ disk.nodes[n] # NoRec /\ n \notin disk.slipped
         => disk.nodes[n].approval = disk.decision[n]

=============================================================================
