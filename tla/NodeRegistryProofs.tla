-------------------------- MODULE NodeRegistryProofs --------------------------
(* Proofs about NodeRegistry, for any number of nodes, tokens, handlers and    *)
(* faults.  A store is memory or the state file; what is shown of one is shown *)
(* of both, because a save copies the one and a restart the other.             *)
EXTENDS NodeRegistry, TLAPS

-------------------------------------------------------------------------------
(* What holds of a store.                                                      *)

\* Approved nodes were approved by an operator, flagged nodes are in S.
NodesOK(N, G, S) ==
  \A n \in Nodes : N[n] # NoRec =>
    /\ N[n].approval = "approved" => n \in G
    /\ N[n].auth => n \in S

\* Entries are approved for approved nodes only and no two hold the same token.
QueueOK(Q, G) ==
  /\ \A i \in DOMAIN Q : Q[i].approval = "approved" => Q[i].node \in G
  /\ \A i, j \in DOMAIN Q : Q[i].token \in Tokens /\ Q[i].token = Q[j].token => i = j

\* A token that was not drawn yet, or was used, is in no entry.
SpentOK(Q, T, U) ==
  \A t \in Tokens : T[t] = "new" \/ U[t] > 0 => \A i \in DOMAIN Q : Q[i].token # t

StoreOK(N, Q, G, S, T, U) == NodesOK(N, G, S) /\ QueueOK(Q, G) /\ SpentOK(Q, T, U)

\* The nodes whose flag has a credential in the secrets file, or need not.
Backed == kept \cup loose

\* What holds of the handlers' copies.
CopiesOK ==
  \A h \in Handlers :
    /\ seen[h] # NoRec => /\ seen[h].approval = "approved" => target[h] \in granted
                          /\ seen[h].auth => target[h] \in Backed
    /\ at[h] = "write" /\ op[h] \in {"rotate", "enroll"} => target[h] \in kept
    /\ at[h] = "idle" => seen[h] = NoRec
    /\ at[h] = "readback" => seen[h] = NoRec
    /\ at[h] = "verify" => op[h] = "heartbeat"

UsesOK == \A t \in Tokens : uses[t] <= 1 /\ (token[t] = "new" => uses[t] = 0)

Memory == StoreOK(nodes, queue, granted, Backed, token, uses)
File   == StoreOK(disk.nodes, disk.queue, granted, Backed, token, uses)

\* The secrets file has nothing that the map does not have.
SecretsOK == kept \subseteq secret

Inv == TypeOK /\ Memory /\ File /\ CopiesOK /\ UsesOK /\ SecretsOK

\* The state file.
Disk == [nodes: NodeMaps, queue: Seq(Entry), decision: [Nodes -> Approvals],
         slipped: SUBSET Nodes]

-------------------------------------------------------------------------------
(* The operators.                                                              *)

\* Replacing an entry of the queue keeps it a queue.
LEMMA EntryReplaced ==
    ASSUME NEW Q \in Seq(Entry), NEW i \in DOMAIN Q, NEW e \in Entry
    PROVE  /\ [Q EXCEPT ![i] = e] \in Seq(Entry)
           /\ DOMAIN [Q EXCEPT ![i] = e] = DOMAIN Q
           /\ \A j \in DOMAIN Q : [Q EXCEPT ![i] = e][j] = IF j = i THEN e ELSE Q[j]
OBVIOUS

\* So does putting a new one in front.
LEMMA EntryAdded ==
    ASSUME NEW Q \in Seq(Entry), NEW e \in Entry
    PROVE  /\ <<e>> \o Q \in Seq(Entry)
           /\ DOMAIN (<<e>> \o Q) = 1 .. Len(Q) + 1
           /\ \A j \in 1 .. Len(Q) + 1 :
                (<<e>> \o Q)[j] = IF j = 1 THEN e ELSE Q[j - 1]
OBVIOUS

\* The queue R is Q with the entry e in it, in another's place or in front.
Holds(Q, R, e) == \/ \E i \in DOMAIN Q : R = [Q EXCEPT ![i] = e]
                  \/ R = <<e>> \o Q

\* An entry that may enter Q: its token is cleared or in no other entry that
\* stays, and it is approved for an approved node only.
MayEnter(Q, e, G) == /\ e.approval = "approved" => e.node \in G
                     /\ \A i \in DOMAIN Q : e.token \in Tokens => Q[i].token # e.token

\* No token but that of e has come into the queue.
NoOtherToken(Q, R, e) ==
  \A t : (\A i \in DOMAIN Q : Q[i].token # t) /\ t # e.token
           => \A i \in DOMAIN R : R[i].token # t

\* What the other parts of the invariant need of a changed queue.
LEMMA QueueChanged ==
    ASSUME NEW Q \in Seq(Entry), NEW R, NEW e \in Entry, NEW G,
           QueueOK(Q, G), MayEnter(Q, e, G), Holds(Q, R, e)
    PROVE  R \in Seq(Entry) /\ QueueOK(R, G) /\ NoOtherToken(Q, R, e)
<1> USE DEF MayEnter
<1>1. CASE \E i \in DOMAIN Q : R = [Q EXCEPT ![i] = e]
  <2>1. PICK i \in DOMAIN Q : R = [Q EXCEPT ![i] = e]
    BY <1>1
  <2>2. /\ R \in Seq(Entry) /\ DOMAIN R = DOMAIN Q
        /\ \A j \in DOMAIN Q : R[j] = IF j = i THEN e ELSE Q[j]
    BY <2>1, EntryReplaced
  <2> QED
    BY <2>2 DEF QueueOK, NoOtherToken
<1>2. CASE R = <<e>> \o Q
  <2>0. PICK k \in Nat : k = Len(Q) /\ DOMAIN Q = 1 .. k
    OBVIOUS
  <2>1. DOMAIN R = 1 .. k + 1 /\ \A j \in 1 .. k + 1 : R[j] = IF j = 1 THEN e ELSE Q[j - 1]
    BY <1>2, <2>0, EntryAdded
  <2>3. ASSUME NEW j \in DOMAIN R, j # 1
        PROVE  j - 1 \in DOMAIN Q /\ R[j] = Q[j - 1]
    <3>1. j \in 1 .. k + 1
      BY <2>1
    <3>2. j - 1 \in 1 .. k
      BY <2>3, <3>1
    <3> QED
      BY <2>0, <2>1, <2>3, <3>1, <3>2
  <2>4. R[1] = e
    <3>1. 1 \in 1 .. k + 1
      OBVIOUS
    <3> QED
      BY <2>1, <3>1
  <2>5. \A i \in DOMAIN R : R[i].approval = "approved" => R[i].node \in G
    BY <2>3, <2>4 DEF QueueOK
  <2>6. ASSUME NEW i \in DOMAIN R, NEW j \in DOMAIN R, R[i].token \in Tokens,
               R[i].token = R[j].token
        PROVE  i = j
    <3>1. CASE i # 1 /\ j # 1
      <4>1. i - 1 \in DOMAIN Q /\ j - 1 \in DOMAIN Q /\ R[i] = Q[i - 1] /\ R[j] = Q[j - 1]
        BY <2>3, <3>1
      <4>2. i - 1 = j - 1
        BY <4>1, <2>6 DEF QueueOK
      <4> QED
        BY <4>2, <2>1
    <3>2. CASE i = 1 /\ j # 1
      BY <2>3, <2>4, <2>6, <3>2
    <3>3. CASE j = 1 /\ i # 1
      BY <2>3, <2>4, <2>6, <3>3
    <3> QED
      BY <3>1, <3>2, <3>3
  <2>7. \A t : (\A i \in DOMAIN Q : Q[i].token # t) /\ t # e.token
                 => \A i \in DOMAIN R : R[i].token # t
    BY <2>3, <2>4
  <2>8. R \in Seq(Entry)
    BY <1>2, EntryAdded
  <2> QED
    BY <2>5, <2>6, <2>7, <2>8 DEF QueueOK, NoOtherToken
<1> QED
  BY <1>1, <1>2 DEF Holds

\* What an operation does to its copy.
LEMMA ResultFacts ==
    ASSUME NEW o \in Operations, NEW r \in Rec, NEW n \in Nodes, NEW x, x = Result(o, r, n)
    PROVE  /\ x \in Rec
           /\ o = "approve" => x.approval = "approved"
           /\ o = "revoke" => x.approval = "revoked"
           /\ o \notin {"approve", "revoke"} => x.approval = r.approval
           /\ x.auth => \/ r.auth
                        \/ n \in secret /\ o = "heartbeat"
                        \/ o \in {"rotate", "enroll"}
<1> USE DEF Rec, Approvals
<1>1. CASE o \in {"approve", "revoke"}
  BY <1>1 DEF Result
<1>2. CASE o \in {"rotate", "enroll", "update"}
  BY <1>2 DEF Result
<1>3. CASE o = "heartbeat"
  BY <1>3 DEF Result, HeartbeatResult
<1> QED
  BY <1>1, <1>2, <1>3 DEF Operations

-------------------------------------------------------------------------------
(* The initial state.                                                          *)

\* The first start of a marshal.
LEMMA InvInit == Init => Inv
<1> SUFFICES ASSUME Init PROVE Inv
  OBVIOUS
<1>1. TypeOK
  <2> USE FaultsAssumption DEF Init
  <2>1. nodes \in NodeMaps
    BY DEF NodeMaps
  <2>2. queue \in Seq(Entry) /\ decision \in [Nodes -> Approvals] /\ slipped \in SUBSET Nodes
    BY DEF Approvals
  <2>3. disk \in Disk
    BY <2>1, <2>2 DEF Disk
  <2>4. /\ secret \in SUBSET Nodes /\ kept \in SUBSET Nodes /\ loose \in SUBSET Nodes
        /\ late \in SUBSET Handlers
        /\ token \in [Tokens -> {"new", "given", "void"}]
        /\ at \in [Handlers -> Points] /\ op \in [Handlers -> Operations]
        /\ target \in [Handlers -> Nodes] /\ seen \in [Handlers -> Rec \cup {NoRec}]
        /\ granted \in SUBSET Nodes /\ uses \in [Tokens -> Nat] /\ faults \in 0 .. MaxFaults
        /\ \A h \in Handlers : at[h] = "idle"
    BY DEF Points, Operations
  <2> QED
    BY <2>1, <2>2, <2>3, <2>4 DEF TypeOK, Disk
<1>2. disk.nodes = nodes /\ disk.queue = queue
  BY DEF Init
<1>3. NodesOK(nodes, granted, Backed) /\ QueueOK(queue, granted) /\ SpentOK(queue, token, uses)
  BY DEF Init, NodesOK, QueueOK, SpentOK
<1>4. CopiesOK /\ UsesOK /\ SecretsOK
  BY DEF Init, CopiesOK, UsesOK, SecretsOK
<1> QED
  BY <1>1, <1>2, <1>3, <1>4 DEF Inv, Memory, File, StoreOK

-------------------------------------------------------------------------------
(* A save.                                                                     *)

\* After a save that worked the file is memory, after one that failed it is
\* what it was.
LEMMA SaveFile ==
    ASSUME NEW saved \in BOOLEAN, Save(saved)
    PROVE  /\ saved => /\ disk'.nodes = nodes' /\ disk'.queue = queue'
                       /\ disk'.decision = decision' /\ disk'.slipped = slipped'
                       /\ faults' = faults
           /\ ~saved => disk' = disk /\ faults' = faults + 1 /\ faults < MaxFaults
BY DEF Save

\* A save writes the new memory to the file or leaves the file alone.
LEMMA SaveType ==
    ASSUME NEW saved \in BOOLEAN, Save(saved), TypeOK,
           nodes' \in NodeMaps, queue' \in Seq(Entry), decision' \in [Nodes -> Approvals],
           slipped' \in SUBSET Nodes
    PROVE  /\ disk' \in Disk
           /\ faults' \in 0 .. MaxFaults
<1>1. CASE saved
  BY <1>1 DEF Save, TypeOK, Disk
<1>2. CASE ~saved
  BY <1>2, FaultsAssumption DEF Save, TypeOK, Disk
<1> QED
  BY <1>1, <1>2

\* A store stays right while more nodes are approved, more credentials are
\* stored and more tokens drawn, as long as no token is used.
LEMMA StoreKept ==
    ASSUME NEW N, NEW Q, NEW G, NEW S, NEW T, NEW U, NEW G2, NEW S2, NEW T2,
           StoreOK(N, Q, G, S, T, U), G \subseteq G2, S \subseteq S2,
           \A t \in Tokens : T2[t] = "new" => T[t] = "new",
           \A i \in DOMAIN Q : Q[i].node \in Nodes
    PROVE  StoreOK(N, Q, G2, S2, T2, U)
BY DEF StoreOK, NodesOK, QueueOK, SpentOK

\* So the file is right after a save if memory is and no token was used.
LEMMA SaveKeeps ==
    ASSUME NEW saved \in BOOLEAN, Save(saved), TypeOK, File, Memory',
           granted \subseteq granted', Backed \subseteq Backed',
           \A t \in Tokens : token'[t] = "new" => token[t] = "new",
           saved \/ uses' = uses
    PROVE  File'
<1>1. CASE saved
  BY <1>1, SaveFile DEF File, Memory
<1>2. CASE ~saved
  <2>1. disk' = disk /\ uses' = uses
    BY <1>2, SaveFile
  <2>2. \A i \in DOMAIN disk.queue : disk.queue[i].node \in Nodes
    <3>1. PICK Q \in Seq(Entry) : Q = disk.queue
      BY DEF TypeOK
    <3>2. \A i \in DOMAIN Q : Q[i] \in Entry
      OBVIOUS
    <3> QED
      BY <3>1, <3>2 DEF Entry
  <2>3. StoreOK(disk.nodes, disk.queue, granted', Backed', token', uses)
    BY <2>2, StoreKept DEF File
  <2> QED
    BY <2>1, <2>3 DEF File
<1> QED
  BY <1>1, <1>2

\* Steps that leave the credentials alone.
LEMMA BackedKept ==
    ASSUME UNCHANGED credentials
    PROVE  Backed' = Backed /\ kept' = kept /\ secret' = secret /\ loose' = loose
BY DEF credentials, Backed

-------------------------------------------------------------------------------
(* The handlers that add entries and nodes.                                    *)

\* createEnrollmentToken keeps the invariant.
LEMMA CreateTokenStep ==
    ASSUME Inv, NEW h \in Handlers, NEW t \in Tokens, NEW n \in Nodes,
           NEW saved \in BOOLEAN, CreateToken(h, t, n, saved)
    PROVE  Inv'
<1> USE DEF Inv
<1>1. PICK e \in Entry : e = [token |-> t, node |-> n, approval |-> "pending"]
  BY DEF Entry, Approvals
<1>2. (\E i \in DOMAIN queue : queue' = [queue EXCEPT ![i] = e]) \/ queue' = <<e>> \o queue
  BY <1>1 DEF CreateToken, AddEnrollmentRequest, First, SameNode
<1>3. \A i \in DOMAIN queue : queue[i].token # t
  BY DEF CreateToken, Memory, StoreOK, SpentOK
<1>4. /\ queue' \in Seq(Entry)
      /\ QueueOK(queue', granted)
      /\ \A u : (\A i \in DOMAIN queue : queue[i].token # u) /\ u # t
                   => \A i \in DOMAIN queue' : queue'[i].token # u
  <2>1. e.token = t /\ MayEnter(queue, e, granted)
    BY <1>1, <1>3 DEF MayEnter
  <2>2. queue \in Seq(Entry) /\ QueueOK(queue, granted)
    BY DEF TypeOK, Memory, StoreOK
  <2>3. Holds(queue, queue', e)
    BY <1>2 DEF Holds
  <2>4. queue' \in Seq(Entry) /\ QueueOK(queue', granted) /\ NoOtherToken(queue, queue', e)
    BY <2>1, <2>2, <2>3, QueueChanged
  <2> QED
    BY <2>1, <2>4 DEF NoOtherToken
<1>5. /\ token' \in [Tokens -> {"new", "given", "void"}]
      /\ \A u \in Tokens : token'[u] = "new" => token[u] = "new" /\ u # t
      /\ uses' = uses /\ uses[t] = 0
  BY DEF CreateToken, TypeOK, UsesOK
<1>6. SpentOK(queue', token', uses')
  <2> SUFFICES ASSUME NEW u \in Tokens, token'[u] = "new" \/ uses'[u] > 0
               PROVE  \A i \in DOMAIN queue' : queue'[i].token # u
    BY DEF SpentOK
  <2>1. u # t /\ (token[u] = "new" \/ uses[u] > 0)
    BY <1>5
  <2> QED
    BY <2>1, <1>4 DEF Memory, StoreOK, SpentOK
<1>7. Memory'
  BY <1>4, <1>6, BackedKept DEF CreateToken, Memory, StoreOK, NodesOK
<1>8. File'
  BY <1>5, <1>7, SaveKeeps, BackedKept DEF CreateToken
<1>9. TypeOK'
  <2>1. /\ disk' \in Disk
        /\ faults' \in 0 .. MaxFaults
    BY <1>4, SaveType DEF CreateToken, TypeOK
  <2> QED
    BY <1>4, <1>5, <2>1, BackedKept DEF CreateToken, TypeOK, control, Disk
<1>10. CopiesOK' /\ UsesOK' /\ SecretsOK'
  BY <1>5, BackedKept DEF CreateToken, CopiesOK, UsesOK, SecretsOK, control
<1> QED
  BY <1>7, <1>8, <1>9, <1>10

\* So does a token's running out.
LEMMA TokenExpiresStep ==
    ASSUME Inv, NEW t \in Tokens, TokenExpires(t)
    PROVE  Inv'
<1> USE DEF Inv
<1>1. /\ token' \in [Tokens -> {"new", "given", "void"}]
      /\ \A u \in Tokens : token'[u] = "new" => token[u] = "new"
  BY DEF TokenExpires, TypeOK
<1>2. Memory' /\ File'
  BY <1>1, BackedKept DEF TokenExpires, store, Memory, File, StoreOK, SpentOK
<1>3. TypeOK'
  BY <1>1, BackedKept DEF TokenExpires, TypeOK, store, control
<1>4. CopiesOK' /\ UsesOK' /\ SecretsOK'
  BY <1>1, BackedKept DEF TokenExpires, CopiesOK, UsesOK, SecretsOK, store, control
<1> QED
  BY <1>2, <1>3, <1>4

\* A node written as pending, and without a flag unless it is excepted.
LEMMA AddKeeps ==
    ASSUME TypeOK, Memory, NEW n \in Nodes, NEW r \in Rec, r.approval = "pending", Add(n, r),
           NEW B, Backed \subseteq B, r.auth => n \in B
    PROVE  /\ nodes' \in NodeMaps /\ decision' \in [Nodes -> Approvals]
           /\ slipped' \in SUBSET Nodes /\ late' \in SUBSET Handlers
           /\ NodesOK(nodes', granted, B)
           /\ \A m \in Nodes : nodes[m] # NoRec => nodes'[m] # NoRec
           /\ nodes'[n] # NoRec
<1>1. nodes \in [Nodes -> Rec \cup {NoRec}] /\ r # NoRec
  BY NoRecAssumption DEF TypeOK, NodeMaps
<1>2. \A m \in Nodes : nodes'[m] = IF m = n THEN r ELSE nodes[m]
  BY <1>1 DEF Add
<1>3. nodes' \in NodeMaps
  BY <1>1 DEF Add, NodeMaps
<1>4. /\ decision' \in [Nodes -> Approvals]
      /\ slipped' \in SUBSET Nodes /\ late' \in SUBSET Handlers
  BY DEF Add, TypeOK, Approvals, Overtaken
<1>5. NodesOK(nodes', granted, B)
  BY <1>2 DEF NodesOK, Memory, StoreOK
<1> QED
  BY <1>1, <1>2, <1>3, <1>4, <1>5

\* manualAddNode and passiveAddNode.
LEMMA PlainAddStep ==
    ASSUME Inv, NEW n \in Nodes, NEW r \in Rec, r.approval = "pending", r.auth => n \in loose',
           Add(n, r), NEW saved \in BOOLEAN, Save(saved),
           loose \subseteq loose', loose' \in SUBSET Nodes,
           UNCHANGED <<queue, secret, kept, token, control, granted, uses>>
    PROVE  Inv'
<1> USE DEF Inv
<1>0. Backed \subseteq Backed' /\ (r.auth => n \in Backed')
  BY DEF Backed
<1>1. /\ nodes' \in NodeMaps /\ decision' \in [Nodes -> Approvals]
      /\ slipped' \in SUBSET Nodes /\ late' \in SUBSET Handlers
      /\ NodesOK(nodes', granted, Backed')
      /\ \A m \in Nodes : nodes[m] # NoRec => nodes'[m] # NoRec
  BY <1>0, AddKeeps
<1>2. Memory'
  BY <1>1 DEF Memory, StoreOK
<1>3. File'
  BY <1>0, <1>2, SaveKeeps
<1>4. TypeOK'
  <2>1. /\ disk' \in Disk
        /\ faults' \in 0 .. MaxFaults
    BY <1>1, SaveType DEF TypeOK
  <2> QED
    BY <1>1, <2>1 DEF TypeOK, control, Disk
<1>5. CopiesOK' /\ UsesOK' /\ SecretsOK'
  BY <1>0 DEF CopiesOK, UsesOK, SecretsOK, control
<1> QED
  BY <1>2, <1>3, <1>4, <1>5

\* A newly enrolled node is pending and has no credential flag.
LEMMA EnrolledFacts == Enrolled \in Rec /\ Enrolled.approval = "pending" /\ ~Enrolled.auth
BY DEF Enrolled, Rec, Approvals

\* subscriberEnroll's registration keeps the invariant.
LEMMA RegisterStep ==
    ASSUME Inv, NEW h \in Handlers, NEW t \in Tokens, NEW n \in Nodes,
           NEW saved \in BOOLEAN, Register(h, t, n, saved)
    PROVE  Inv'
<1> USE DEF Inv
<1>0. Backed' = Backed
  BY BackedKept DEF Register
<1>1. /\ nodes' \in NodeMaps /\ decision' \in [Nodes -> Approvals]
      /\ slipped' \in SUBSET Nodes /\ late' \in SUBSET Handlers
      /\ NodesOK(nodes', granted, Backed')
      /\ \A m \in Nodes : nodes[m] # NoRec => nodes'[m] # NoRec
      /\ nodes'[n] # NoRec
  BY <1>0, AddKeeps, EnrolledFacts DEF Register
<1>2. PICK e \in Entry : e = [token |-> NoToken, node |-> n, approval |-> "pending"]
  BY DEF Entry, Approvals
<1>3. PICK i \in DOMAIN queue : queue[i].token = t /\ queue' = [queue EXCEPT ![i] = e]
  BY <1>2 DEF Register, First, SameToken
<1>4. queue \in Seq(Entry) /\ QueueOK(queue, granted)
  BY DEF TypeOK, Memory, StoreOK
<1>5. queue' \in Seq(Entry) /\ QueueOK(queue', granted) /\ NoOtherToken(queue, queue', e)
  <2>1. MayEnter(queue, e, granted)
    BY <1>2, NoTokenAssumption DEF MayEnter
  <2>2. Holds(queue, queue', e)
    BY <1>3 DEF Holds
  <2> QED
    BY <1>4, <2>1, <2>2, QueueChanged
<1>6. \A j \in DOMAIN queue' : queue'[j].token # t
  <2>1. DOMAIN queue' = DOMAIN queue /\ \A j \in DOMAIN queue : queue'[j] = IF j = i THEN e ELSE queue[j]
    BY <1>3, <1>4, EntryReplaced
  <2>2. e.token # t
    BY <1>2, NoTokenAssumption
  <2>3. \A j \in DOMAIN queue : queue[j].token = t => j = i
    BY <1>3, <1>4 DEF QueueOK
  <2> QED
    BY <2>1, <2>2, <2>3
<1>7. uses[t] = 0 /\ token' = token
  <2>1. ~(uses[t] > 0)
    BY <1>3 DEF Memory, StoreOK, SpentOK
  <2> QED
    BY <2>1 DEF Register, TypeOK
<1>8. /\ uses' \in [Tokens -> Nat]
      /\ \A u \in Tokens : u # t => uses'[u] = uses[u]
      /\ uses'[t] <= 1 /\ (~saved => uses' = uses)
  BY <1>7 DEF Register, TypeOK
<1>9. SpentOK(queue', token', uses')
  <2> SUFFICES ASSUME NEW u \in Tokens, token'[u] = "new" \/ uses'[u] > 0
               PROVE  \A j \in DOMAIN queue' : queue'[j].token # u
    BY DEF SpentOK
  <2>1. CASE u = t
    BY <1>6, <2>1
  <2>2. CASE u # t
    <3>1. \A j \in DOMAIN queue : queue[j].token # u
      BY <1>7, <1>8, <2>2 DEF Memory, StoreOK, SpentOK
    <3>2. u # e.token
      BY <1>2, NoTokenAssumption
    <3> QED
      BY <1>5, <3>1, <3>2 DEF NoOtherToken
  <2> QED
    BY <2>1, <2>2
<1>10. Memory'
  BY <1>1, <1>5, <1>9 DEF Memory, StoreOK, Register
<1>11. File'
  BY <1>0, <1>8, <1>10, SaveKeeps DEF Register
<1>12. TypeOK'
  <2>1. /\ disk' \in Disk
        /\ faults' \in 0 .. MaxFaults
    BY <1>1, <1>5, SaveType DEF Register
  <2>2. /\ at' \in [Handlers -> Points] /\ op' \in [Handlers -> Operations]
        /\ target' \in [Handlers -> Nodes]
    <3>1. CASE saved
      <4>1. /\ at' = [at EXCEPT ![h] = "readback"] /\ op' = [op EXCEPT ![h] = "enroll"]
            /\ target' = [target EXCEPT ![h] = n]
        BY <3>1 DEF Register
      <4>2. "readback" \in Points /\ "enroll" \in Operations
        BY DEF Points, Operations
      <4> QED
        BY <4>1, <4>2 DEF TypeOK
    <3>2. CASE ~saved
      BY <3>2 DEF Register, TypeOK
    <3> QED
      BY <3>1, <3>2
  <2>3. \A g \in Handlers :
          /\ at'[g] \in {"credential", "verify", "write", "mark"} => seen'[g] # NoRec
          /\ at'[g] \in {"readback", "notify"} => nodes'[target'[g]] # NoRec
    BY <1>1 DEF Register, TypeOK
  <2> QED
    BY <1>1, <1>5, <1>8, <2>1, <2>2, <2>3, BackedKept DEF Register, TypeOK, Disk
<1>13. UsesOK' /\ SecretsOK'
  BY <1>7, <1>8, BackedKept DEF UsesOK, SecretsOK, Register
<1>14. CopiesOK'
  BY <1>0, BackedKept DEF CopiesOK, Register, TypeOK
<1> QED
  BY <1>10, <1>11, <1>12, <1>13, <1>14

-------------------------------------------------------------------------------
(* The steps of the handlers that change a node.                               *)

\* Steps that leave the store and the histories alone.
LEMMA StoreUnchanged ==
    ASSUME Inv, UNCHANGED <<store, credentials, token, granted, uses>>
    PROVE  Memory' /\ File' /\ UsesOK' /\ SecretsOK'
BY BackedKept DEF Inv, store, Memory, File, UsesOK, SecretsOK

\* A handler that ends holds no copy.
LEMMA DoneFacts ==
    ASSUME TypeOK, NEW h \in Handlers, Done(h)
    PROVE  /\ at' \in [Handlers -> Points] /\ op' \in [Handlers -> Operations]
           /\ target' \in [Handlers -> Nodes] /\ seen' \in [Handlers -> Rec \cup {NoRec}]
           /\ late' \in SUBSET Handlers
           /\ at'[h] = "idle" /\ seen'[h] = NoRec
           /\ \A g \in Handlers : target'[g] = target[g]
           /\ \A g \in Handlers \ {h} :
                at'[g] = at[g] /\ op'[g] = op[g] /\ seen'[g] = seen[g]
BY DEF Done, Forget, TypeOK, Points, Operations

\* A handler that goes on keeps its copy.
LEMMA ProceedFacts ==
    ASSUME TypeOK, NEW h \in Handlers, NEW p \in Points, Proceed(h, p)
    PROVE  /\ at' \in [Handlers -> Points] /\ at'[h] = p
           /\ op' = op /\ target' = target
           /\ \A g \in Handlers \ {h} : at'[g] = at[g]
BY DEF Proceed, TypeOK

\* Reading a node for a change keeps the invariant.
LEMMA ReadStep ==
    ASSUME Inv, NEW h \in Handlers, NEW o \in Operations, NEW n \in Nodes, Read(h, o, n)
    PROVE  Inv'
<1> USE DEF Inv
<1>1. Memory' /\ File' /\ UsesOK' /\ SecretsOK'
  BY StoreUnchanged DEF Read
<1>2. nodes[n] \in Rec \cup {NoRec} /\ nodes[n] # NoRec
  BY DEF TypeOK, NodeMaps, Read
<1>3. /\ at' \in [Handlers -> Points] /\ op' \in [Handlers -> Operations]
      /\ target' \in [Handlers -> Nodes] /\ seen' \in [Handlers -> Rec \cup {NoRec}]
  BY <1>2 DEF TypeOK, Read, Points
<1>4. /\ at'[h] \in {"credential", "verify", "write"} /\ (o = "rotate" => at'[h] # "write")
      /\ (at'[h] = "verify" => o = "heartbeat")
      /\ seen'[h] = nodes[n] /\ target'[h] = n /\ op'[h] = o /\ o # "enroll"
      /\ \A g \in Handlers \ {h} : /\ at'[g] = at[g] /\ op'[g] = op[g]
                                   /\ target'[g] = target[g] /\ seen'[g] = seen[g]
  BY DEF TypeOK, Read
<1>5. TypeOK'
  BY <1>2, <1>3, <1>4, BackedKept DEF TypeOK, Read, store
<1>6. CopiesOK'
  <2>1. NodesOK(nodes, granted, Backed)
    BY DEF Memory, StoreOK
  <2> QED
    BY <1>2, <1>4, <2>1, BackedKept DEF CopiesOK, NodesOK, Read
<1> QED
  BY <1>1, <1>5, <1>6

\* ReadBack and Notify: the copy is taken again from a node that is there.
LEMMA ReReadStep ==
    ASSUME Inv, NEW h \in Handlers, NEW p \in {"credential", "mark"},
           at[h] \in {"readback", "notify"}, Proceed(h, p),
           seen' = [seen EXCEPT ![h] = nodes[target[h]]],
           UNCHANGED <<store, credentials, token, late, granted, uses>>
    PROVE  Inv'
<1> USE DEF Inv
<1>1. Memory' /\ File' /\ UsesOK' /\ SecretsOK'
  BY StoreUnchanged
<1>2. PICK n \in Nodes : n = target[h]
  BY DEF TypeOK
<1>3. nodes[n] \in Rec \cup {NoRec} /\ nodes[n] # NoRec
  BY <1>2 DEF TypeOK, NodeMaps
<1>4. /\ at' \in [Handlers -> Points] /\ at'[h] = p
      /\ op' = op /\ target' = target
      /\ \A g \in Handlers \ {h} : at'[g] = at[g]
  BY ProceedFacts DEF Points
<1>5. /\ seen' \in [Handlers -> Rec \cup {NoRec}] /\ seen'[h] = nodes[n]
      /\ \A g \in Handlers \ {h} : seen'[g] = seen[g]
  BY <1>2, <1>3 DEF TypeOK
<1>6. TypeOK'
  BY <1>3, <1>4, <1>5, BackedKept DEF TypeOK, store
<1>7. CopiesOK'
  <2>1. NodesOK(nodes, granted, Backed)
    BY DEF Memory, StoreOK
  <2> QED
    BY <1>2, <1>3, <1>4, <1>5, <2>1, BackedKept DEF CopiesOK, NodesOK
<1> QED
  BY <1>1, <1>6, <1>7

\* Steps that end a call and change nothing else.
LEMMA EndStep ==
    ASSUME Inv, NEW h \in Handlers, Done(h),
           UNCHANGED <<store, credentials, token, granted, uses>>
    PROVE  Inv'
<1> USE DEF Inv
<1>1. Memory' /\ File' /\ UsesOK' /\ SecretsOK'
  BY StoreUnchanged
<1>2. TypeOK'
  BY DoneFacts, BackedKept DEF TypeOK, store
<1>3. CopiesOK'
  BY DoneFacts, BackedKept DEF CopiesOK
<1> QED
  BY <1>1, <1>2, <1>3

\* The heartbeat's credential check keeps the invariant.
LEMMA VerifyStep ==
    ASSUME Inv, NEW h \in Handlers, NEW valid \in BOOLEAN, Verify(h, valid)
    PROVE  Inv'
<1>1. CASE Done(h)
  BY <1>1, EndStep DEF Verify
<1>2. CASE Proceed(h, "write") /\ UNCHANGED <<seen, late>>
  <2> USE DEF Inv
  <2>1. Memory' /\ File' /\ UsesOK' /\ SecretsOK'
    BY StoreUnchanged DEF Verify
  <2>2. TypeOK'
    BY <1>2, ProceedFacts, BackedKept DEF Verify, TypeOK, store, Points
  <2>3. CopiesOK'
    BY <1>2, ProceedFacts, BackedKept DEF Verify, CopiesOK, Points
  <2> QED
    BY <2>1, <2>2, <2>3
<1> QED
  BY <1>1, <1>2 DEF Verify

\* Storing a credential keeps the invariant.
LEMMA StoreCredentialStep ==
    ASSUME Inv, NEW h \in Handlers, StoreCredential(h)
    PROVE  Inv'
<1> USE DEF Inv
<1>1. /\ secret' \in SUBSET Nodes /\ kept' = secret' /\ target[h] \in kept'
      /\ kept \subseteq kept' /\ Backed \subseteq Backed'
  BY DEF StoreCredential, TypeOK, SecretsOK, Backed
<1>2. Memory' /\ File' /\ UsesOK' /\ SecretsOK'
  BY <1>1 DEF StoreCredential, store, Memory, File, StoreOK, NodesOK, UsesOK, SecretsOK
<1>3. /\ at' \in [Handlers -> Points] /\ at'[h] = "write"
      /\ op' = op /\ target' = target
      /\ \A g \in Handlers \ {h} : at'[g] = at[g]
  BY ProceedFacts DEF StoreCredential, Points
<1>4. TypeOK'
  BY <1>1, <1>3 DEF StoreCredential, TypeOK, store
<1>5. CopiesOK'
  BY <1>1, <1>3 DEF StoreCredential, CopiesOK, TypeOK
<1> QED
  BY <1>2, <1>4, <1>5

\* So does a Set that changes the map and not the file.
LEMMA CredentialFailsStep ==
    ASSUME Inv, NEW h \in Handlers, CredentialFails(h)
    PROVE  Inv'
<1> USE DEF Inv
<1>1. /\ secret' \in SUBSET Nodes /\ kept' = kept /\ Backed' = Backed
      /\ kept \subseteq secret'
  BY DEF CredentialFails, TypeOK, SecretsOK, Backed
<1>2. Memory' /\ File' /\ UsesOK' /\ SecretsOK'
  BY <1>1 DEF CredentialFails, store, Memory, File, UsesOK, SecretsOK
<1>3. TypeOK'
  BY <1>1, DoneFacts DEF CredentialFails, TypeOK, store
<1>4. CopiesOK'
  BY <1>1, DoneFacts DEF CredentialFails, CopiesOK
<1> QED
  BY <1>2, <1>3, <1>4

\* Writing a copy back keeps the invariant, however old the copy is.
LEMMA WriteStep ==
    ASSUME Inv, NEW h \in Handlers, NEW saved \in BOOLEAN, Write(h, saved)
    PROVE  Inv'
<1> USE DEF Inv
<1>1. PICK n \in Nodes : n = target[h]
  BY DEF TypeOK
<1>2. PICK o \in Operations : o = op[h]
  BY DEF TypeOK
<1>3. PICK c \in Rec : c = seen[h]
  BY DEF TypeOK, Write
<1>4. PICK r : r = Result(o, c, n) /\ nodes' = [nodes EXCEPT ![n] = r]
  BY <1>1, <1>2, <1>3 DEF Write
<1>5. /\ r \in Rec /\ r # NoRec
      /\ o \notin {"approve", "revoke"} => r.approval = c.approval
      /\ o = "revoke" => r.approval = "revoked"
      /\ r.auth => \/ c.auth
                   \/ n \in secret /\ o = "heartbeat"
                   \/ o \in {"rotate", "enroll"}
  BY <1>4, ResultFacts, NoRecAssumption
<1>6. /\ nodes' \in NodeMaps
      /\ \A m \in Nodes : nodes'[m] = IF m = n THEN r ELSE nodes[m]
  BY <1>4, <1>5 DEF TypeOK, NodeMaps
<1>7. /\ decision' \in [Nodes -> Approvals] /\ granted' \in SUBSET Nodes
      /\ slipped' \in SUBSET Nodes /\ late' \in SUBSET Handlers
      /\ granted \subseteq granted' /\ (o = "approve" => n \in granted')
  <2>1. /\ granted' \in SUBSET Nodes /\ granted \subseteq granted'
        /\ (o = "approve" => n \in granted')
    BY <1>1, <1>2 DEF Write, TypeOK
  <2>2. slipped' \in SUBSET Nodes /\ late' \in SUBSET Handlers
    BY <1>1 DEF Write, TypeOK, Done, Overtaken
  <2>3. decision' \in [Nodes -> Approvals]
    BY <1>1 DEF Write, TypeOK, Approvals
  <2> QED
    BY <2>1, <2>2, <2>3
<1>71. /\ loose' \in SUBSET Nodes /\ Backed \subseteq Backed' /\ kept' = kept /\ secret' = secret
       /\ n \in secret /\ o = "heartbeat" => n \in Backed'
  BY <1>1, <1>2 DEF Write, TypeOK, Backed
<1>8. NodesOK(nodes', granted', Backed')
  <2>1. r.approval = "approved" => n \in granted'
    <3>1. c.approval = "approved" => n \in granted
      BY <1>1, <1>3, NoRecAssumption DEF CopiesOK
    <3> QED
      BY <1>5, <1>7, <3>1
  <2>2. r.auth => n \in Backed'
    <3>1. c.auth => n \in Backed
      BY <1>1, <1>3, NoRecAssumption DEF CopiesOK
    <3>2. o \in {"rotate", "enroll"} => n \in Backed
      BY <1>1, <1>2 DEF CopiesOK, Write, Backed
    <3> QED
      BY <1>5, <1>71, <3>1, <3>2
  <2>3. \A m \in Nodes : nodes[m] # NoRec =>
          (nodes[m].approval = "approved" => m \in granted) /\ (nodes[m].auth => m \in Backed)
    BY DEF NodesOK, Memory, StoreOK
  <2> QED
    BY <1>6, <1>7, <1>71, <2>1, <2>2, <2>3 DEF NodesOK
<1>9. Memory'
  BY <1>7, <1>8 DEF Memory, StoreOK, QueueOK, Write
<1>10. File'
  BY <1>7, <1>71, <1>9, SaveKeeps DEF Write
<1>11. /\ at' \in [Handlers -> Points] /\ op' \in [Handlers -> Operations]
       /\ target' \in [Handlers -> Nodes] /\ seen' \in [Handlers -> Rec \cup {NoRec}]
       /\ at'[h] \in {"notify", "idle"}
       /\ seen'[h] = NoRec
       /\ \A g \in Handlers : target'[g] = target[g]
       /\ \A g \in Handlers \ {h} : at'[g] = at[g] /\ op'[g] = op[g] /\ seen'[g] = seen[g]
  BY DEF Write, Done, Forget, TypeOK, Points, Operations
<1>12. TypeOK'
  <2>1. /\ disk' \in Disk
        /\ faults' \in 0 .. MaxFaults
    BY <1>6, <1>7, SaveType DEF Write, TypeOK
  <2>2. \A m \in Nodes : nodes[m] # NoRec \/ m = n => nodes'[m] # NoRec
    BY <1>5, <1>6
  <2>3. \A g \in Handlers :
          /\ at'[g] \in {"credential", "verify", "write", "mark"} => seen'[g] # NoRec
          /\ at'[g] \in {"readback", "notify"} => nodes'[target'[g]] # NoRec
    BY <1>1, <1>11, <2>2 DEF TypeOK
  <2> QED
    BY <1>6, <1>7, <1>71, <1>11, <2>1, <2>3 DEF Write, TypeOK, Disk
<1>13. CopiesOK'
  BY <1>7, <1>71, <1>11 DEF CopiesOK
<1>14. UsesOK' /\ SecretsOK'
  BY <1>71 DEF UsesOK, SecretsOK, Write
<1> QED
  BY <1>9, <1>10, <1>12, <1>13, <1>14

\* An entry whose approval is set keeps its token and its node.
LEMMA EntryMarked ==
    ASSUME NEW Q \in Seq(Entry), NEW i \in DOMAIN Q, NEW a \in Approvals
    PROVE  /\ [Q EXCEPT ![i].approval = a] \in Seq(Entry)
           /\ DOMAIN [Q EXCEPT ![i].approval = a] = DOMAIN Q
           /\ \A j \in DOMAIN Q :
                /\ [Q EXCEPT ![i].approval = a][j].token = Q[j].token
                /\ [Q EXCEPT ![i].approval = a][j].node = Q[j].node
                /\ [Q EXCEPT ![i].approval = a][j].approval =
                      IF j = i THEN a ELSE Q[j].approval
<1>1. PICK e \in Entry : e = [Q[i] EXCEPT !.approval = a]
  <2>1. Q[i] \in Entry
    OBVIOUS
  <2> QED
    BY <2>1 DEF Entry
<1>2. [Q EXCEPT ![i].approval = a] = [Q EXCEPT ![i] = e]
  BY <1>1
<1>3. e.token = Q[i].token /\ e.node = Q[i].node /\ e.approval = a
  <2>1. Q[i] \in Entry
    OBVIOUS
  <2> QED
    BY <1>1, <2>1 DEF Entry
<1> QED
  BY <1>2, <1>3, EntryReplaced

\* Marking the enrollment entry keeps the invariant.
LEMMA SetEnrollmentApprovalStep ==
    ASSUME Inv, NEW h \in Handlers, NEW saved \in BOOLEAN, SetEnrollmentApproval(h, saved)
    PROVE  Inv'
<1> USE DEF Inv
<1>1. PICK c \in Rec : c = seen[h]
  BY DEF TypeOK, SetEnrollmentApproval
<1>2. PICK a \in Approvals : a = c.approval
  BY DEF Rec
<1>3. PICK i \in DOMAIN queue : queue[i].node = target[h] /\ queue' = [queue EXCEPT ![i].approval = a]
  BY <1>1, <1>2 DEF SetEnrollmentApproval, First, SameNode
<1>4. a = "approved" => target[h] \in granted
  BY <1>1, <1>2, NoRecAssumption DEF CopiesOK
<1>5. /\ queue' \in Seq(Entry) /\ DOMAIN queue' = DOMAIN queue
      /\ \A j \in DOMAIN queue : /\ queue'[j].token = queue[j].token
                                  /\ queue'[j].node = queue[j].node
                                  /\ queue'[j].approval = IF j = i THEN a ELSE queue[j].approval
  <2>1. queue \in Seq(Entry)
    BY DEF TypeOK
  <2> QED
    BY <1>3, <2>1, EntryMarked
<1>6. QueueOK(queue', granted) /\ SpentOK(queue', token, uses)
  BY <1>3, <1>4, <1>5 DEF Memory, StoreOK, QueueOK, SpentOK
<1>7. Memory'
  BY <1>6, BackedKept DEF Memory, StoreOK, SetEnrollmentApproval
<1>8. File'
  BY <1>7, SaveKeeps, BackedKept DEF SetEnrollmentApproval
<1>9. TypeOK'
  <2>1. /\ disk' \in Disk
        /\ faults' \in 0 .. MaxFaults
    BY <1>5, SaveType DEF SetEnrollmentApproval, TypeOK
  <2>2. /\ at' \in [Handlers -> Points] /\ op' \in [Handlers -> Operations]
        /\ target' \in [Handlers -> Nodes] /\ seen' \in [Handlers -> Rec \cup {NoRec}]
        /\ late' \in SUBSET Handlers
    BY DoneFacts DEF SetEnrollmentApproval
  <2>3. \A g \in Handlers :
          /\ at'[g] \in {"credential", "verify", "write", "mark"} => seen'[g] # NoRec
          /\ at'[g] \in {"readback", "notify"} => nodes'[target'[g]] # NoRec
    BY DoneFacts DEF SetEnrollmentApproval, TypeOK
  <2>4. /\ nodes' \in NodeMaps /\ decision' \in [Nodes -> Approvals] /\ slipped' \in SUBSET Nodes
        /\ token' \in [Tokens -> {"new", "given", "void"}] /\ granted' \in SUBSET Nodes
        /\ uses' \in [Tokens -> Nat]
        /\ secret' \in SUBSET Nodes /\ kept' \in SUBSET Nodes /\ loose' \in SUBSET Nodes
    BY BackedKept DEF SetEnrollmentApproval, TypeOK
  <2> QED
    BY <1>5, <2>1, <2>2, <2>3, <2>4 DEF TypeOK, Disk
<1>10. CopiesOK' /\ UsesOK' /\ SecretsOK'
  BY DoneFacts, BackedKept DEF SetEnrollmentApproval, CopiesOK, UsesOK, SecretsOK
<1> QED
  BY <1>7, <1>8, <1>9, <1>10

\* Loading the file keeps the invariant.
LEMMA RestartStep ==
    ASSUME Inv, Restart
    PROVE  Inv'
<1> USE DEF Inv
<1>1. Memory' /\ File' /\ UsesOK' /\ SecretsOK'
  BY DEF Restart, Memory, File, UsesOK, SecretsOK, Backed
<1>2. TypeOK'
  <2>1. /\ nodes' \in NodeMaps /\ queue' \in Seq(Entry) /\ decision' \in [Nodes -> Approvals]
        /\ slipped' \in SUBSET Nodes /\ secret' \in SUBSET Nodes /\ late' \in SUBSET Handlers
    BY DEF Restart, TypeOK
  <2>2. /\ at' \in [Handlers -> Points] /\ op' \in [Handlers -> Operations]
        /\ seen' \in [Handlers -> Rec \cup {NoRec}] /\ \A h \in Handlers : at'[h] = "idle"
    BY DEF Restart, Points, Operations
  <2>3. faults' \in 0 .. MaxFaults
    BY FaultsAssumption DEF Restart, TypeOK
  <2> QED
    BY <2>1, <2>2, <2>3 DEF Restart, TypeOK
<1>3. CopiesOK'
  BY DEF Restart, CopiesOK
<1> QED
  BY <1>1, <1>2, <1>3

-------------------------------------------------------------------------------
(* Every step, and what follows.                                               *)

\* Every step keeps the invariant.
LEMMA InvStep == Inv /\ [Next]_vars => Inv'
<1> SUFFICES ASSUME Inv, [Next]_vars PROVE Inv'
  OBVIOUS
<1>1. ASSUME NEW h \in Handlers, NEW t \in Tokens, NEW n \in Nodes, NEW saved \in BOOLEAN,
             CreateToken(h, t, n, saved)
      PROVE  Inv'
  BY <1>1, CreateTokenStep
<1>2. ASSUME NEW t \in Tokens, TokenExpires(t)
      PROVE  Inv'
  BY <1>2, TokenExpiresStep
<1>3. ASSUME NEW h \in Handlers, NEW t \in Tokens, NEW n \in Nodes,
             NEW saved \in BOOLEAN, Register(h, t, n, saved)
      PROVE  Inv'
  BY <1>3, RegisterStep
<1>4. ASSUME NEW h \in Handlers, NEW n \in Nodes, NEW flag \in BOOLEAN, NEW saved \in BOOLEAN,
             ManualAdd(h, n, flag, saved)
      PROVE  Inv'
  <2>1. PICK r : r = [Enrolled EXCEPT !.auth = flag]
    OBVIOUS
  <2>2. r \in Rec /\ r.approval = "pending" /\ r.auth = flag
    BY <2>1, EnrolledFacts DEF Rec
  <2>3. Add(n, r) /\ loose \subseteq loose' /\ loose' \in SUBSET Nodes
    BY <1>4, <2>1 DEF ManualAdd, Inv, TypeOK
  <2>4. r.auth => n \in loose'
    BY <1>4, <2>2 DEF ManualAdd
  <2> QED
    BY <1>4, <2>2, <2>3, <2>4, PlainAddStep DEF ManualAdd
<1>5. ASSUME NEW h \in Handlers, NEW n \in Nodes, NEW saved \in BOOLEAN, PassiveAdd(h, n, saved)
      PROVE  Inv'
  <2>1. PICK r : r = [control |-> "passive", approval |-> "pending", auth |-> FALSE]
    OBVIOUS
  <2>2. r \in Rec /\ r.approval = "pending" /\ ~r.auth
    BY <2>1 DEF Rec, Approvals
  <2>3. /\ Add(n, r) /\ Save(saved) /\ loose' = loose /\ loose' \in SUBSET Nodes
        /\ UNCHANGED <<queue, secret, kept, token, control, granted, uses>>
    BY <1>5, <2>1, BackedKept DEF PassiveAdd, Inv, TypeOK
  <2> QED
    BY <2>2, <2>3, PlainAddStep
<1>6. ASSUME NEW h \in Handlers, NEW o \in Operations, NEW n \in Nodes, Read(h, o, n)
      PROVE  Inv'
  BY <1>6, ReadStep
<1>7. ASSUME NEW h \in Handlers, ReadBack(h)
      PROVE  Inv'
  BY <1>7, ReReadStep DEF ReadBack
<1>8. ASSUME NEW h \in Handlers, NEW valid \in BOOLEAN, Verify(h, valid)
      PROVE  Inv'
  BY <1>8, VerifyStep
<1>9. ASSUME NEW h \in Handlers, StoreCredential(h)
      PROVE  Inv'
  BY <1>9, StoreCredentialStep
<1>10. ASSUME NEW h \in Handlers, CredentialFails(h) \/ NoEntryToMark(h)
       PROVE  Inv'
  BY <1>10, EndStep, CredentialFailsStep DEF NoEntryToMark
<1>11. ASSUME NEW h \in Handlers, NEW saved \in BOOLEAN, Write(h, saved)
       PROVE  Inv'
  BY <1>11, WriteStep
<1>12. ASSUME NEW h \in Handlers, Notify(h)
       PROVE  Inv'
  BY <1>12, ReReadStep DEF Notify
<1>13. ASSUME NEW h \in Handlers, NEW saved \in BOOLEAN, SetEnrollmentApproval(h, saved)
       PROVE  Inv'
  BY <1>13, SetEnrollmentApprovalStep
<1>14. CASE Restart
  BY <1>14, RestartStep
<1>15. CASE UNCHANGED vars
  <2>1. TypeOK' /\ CopiesOK' /\ UsesOK'
    BY <1>15 DEF Inv, vars, TypeOK, CopiesOK, UsesOK, Backed
  <2>2. Memory' /\ File' /\ SecretsOK'
    BY <1>15 DEF Inv, vars, Memory, File, Backed, SecretsOK
  <2> QED
    BY <2>1, <2>2 DEF Inv
<1> QED
  BY <1>1, <1>2, <1>3, <1>4, <1>5, <1>6, <1>7, <1>8, <1>9, <1>10, <1>11, <1>12, <1>13,
     <1>14, <1>15 DEF Next

\* The inductive invariant behind the theorems below.
THEOREM RegistryCorrect == Spec => []Inv
BY InvInit, InvStep, PTL DEF Spec

\* No sequence of registrations, heartbeats, probes, failed saves and restarts,
\* by any number of concurrent handlers, approves a node that no operator
\* approved.
THEOREM OnlyOperatorsApprove == Spec => []NoSelfApproval
<1>1. Inv => NoSelfApproval
  BY DEF Inv, Memory, File, StoreOK, NodesOK, QueueOK, CopiesOK, NoSelfApproval
<1> QED
  BY <1>1, RegistryCorrect, PTL

\* A node that is marked as authenticated has its credential in the secrets
\* file, but for the two exceptions that CredentialBehindFlag names: however many
\* handlers work on old copies, whatever Sets and saves fail, and across
\* restarts, which bring back only what the file has.
THEOREM FlagAfterCredential == Spec => []CredentialBehindFlag
<1>1. Inv => CredentialBehindFlag
  BY DEF Inv, Memory, File, StoreOK, NodesOK, CopiesOK, CredentialBehindFlag, Backed
<1> QED
  BY <1>1, RegistryCorrect, PTL

\* RegisterEnrollmentNode accepts a token once, however many registrations race
\* and whatever saves fail.
THEOREM TokensAreOneTime == Spec => []TokenUsedOnce
<1>1. Inv => TokenUsedOnce
  BY DEF Inv, UsesOK, TokenUsedOnce
<1> QED
  BY <1>1, RegistryCorrect, PTL

-------------------------------------------------------------------------------
(* Decisions.                                                                  *)

AgreeOn(N, D, X) == \A n \in Nodes : N[n] # NoRec /\ n \notin X => N[n].approval = D[n]

\* A copy that will be written and is not older than the last decision.
Fresh(h) == at[h] \in Copying /\ h \notin late

\* Memory and file agree with the operator's decisions, and so do the fresh
\* copies, but for the nodes that were written from a copy that was not.
Agree == /\ AgreeOn(nodes, decision, slipped)
         /\ AgreeOn(disk.nodes, disk.decision, disk.slipped)
         /\ \A h \in Handlers : Fresh(h) /\ target[h] \notin slipped
                                 => seen[h].approval = decision[target[h]]

\* A save keeps memory, file and decisions in agreement.
LEMMA SaveAgrees ==
    ASSUME NEW saved \in BOOLEAN, Save(saved), AgreeOn(nodes', decision', slipped'),
           AgreeOn(disk.nodes, disk.decision, disk.slipped)
    PROVE  AgreeOn(disk'.nodes, disk'.decision, disk'.slipped)
BY SaveFile

\* Adding a node is a decision: what was read of it before is late.
LEMMA AddAgrees ==
    ASSUME TypeOK, Agree, NEW n \in Nodes, NEW r \in Rec, r.approval = "pending", Add(n, r),
           NEW saved \in BOOLEAN, Save(saved), seen' = seen,
           \A g \in Handlers : at'[g] \in Copying => at'[g] = at[g] /\ target'[g] = target[g]
    PROVE  Agree'
<1>1. AgreeOn(nodes', decision', slipped')
  BY DEF Add, Agree, AgreeOn, TypeOK, NodeMaps
<1>2. AgreeOn(disk'.nodes, disk'.decision, disk'.slipped)
  BY <1>1, SaveAgrees DEF Agree
<1>3. ASSUME NEW g \in Handlers, at'[g] \in Copying, g \notin late', target'[g] \notin slipped'
      PROVE  seen'[g].approval = decision'[target'[g]]
  <2>1. at[g] \in Copying /\ target[g] = target'[g] /\ seen'[g] = seen[g]
    BY <1>3
  <2>2. target[g] # n /\ g \notin late
    BY <1>3, <2>1 DEF Add, Overtaken
  <2>3. target[g] \notin slipped /\ decision'[target[g]] = decision[target[g]]
    BY <1>3, <2>1, <2>2 DEF Add, TypeOK
  <2> QED
    BY <2>1, <2>2, <2>3 DEF Agree, Fresh
<1> QED
  BY <1>1, <1>2, <1>3 DEF Agree, Fresh

\* Steps that leave the store alone and give no handler a new copy.
LEMMA CopiesAgree ==
    ASSUME Agree, UNCHANGED <<nodes, decision, slipped>>, AgreeOn(disk'.nodes, disk'.decision, disk'.slipped),
           \A g \in Handlers : at'[g] \in Copying /\ g \notin late' =>
              /\ at[g] \in Copying /\ g \notin late
              /\ target'[g] = target[g] /\ seen'[g] = seen[g]
    PROVE  Agree'
BY DEF Agree, Fresh

\* Steps that read the node again.
LEMMA ReadAgrees ==
    ASSUME Agree, NEW h \in Handlers, NEW n \in Nodes, UNCHANGED store, late' = late,
           nodes[n] # NoRec, seen'[h] = nodes[n], target'[h] = n,
           \A g \in Handlers \ {h} :
              at'[g] = at[g] /\ target'[g] = target[g] /\ seen'[g] = seen[g]
    PROVE  Agree'
<1>1. n \notin slipped => nodes[n].approval = decision[n]
  BY DEF Agree, AgreeOn
<1>2. nodes' = nodes /\ disk' = disk /\ decision' = decision /\ slipped' = slipped
  BY DEF store
<1>3. ASSUME NEW g \in Handlers, at'[g] \in Copying, g \notin late', target'[g] \notin slipped'
      PROVE  seen'[g].approval = decision'[target'[g]]
  <2>1. CASE g = h
    BY <1>1, <1>2, <1>3, <2>1
  <2>2. CASE g # h
    BY <1>2, <1>3, <2>2 DEF Agree, Fresh
  <2> QED
    BY <2>1, <2>2
<1> QED
  BY <1>2, <1>3 DEF Agree, Fresh

\* A write of a copy that is not late agrees with the decisions; one that is
\* makes its node an exception, and a decision ends the exception.
LEMMA WriteAgrees ==
    ASSUME Inv, Agree, NEW h \in Handlers, NEW saved \in BOOLEAN, Write(h, saved)
    PROVE  Agree'
<1> USE DEF Inv
<1>1. PICK n \in Nodes : n = target[h]
  BY DEF TypeOK
<1>2. PICK o \in Operations : o = op[h]
  BY DEF TypeOK
<1>3. PICK c \in Rec : c = seen[h]
  BY DEF TypeOK, Write
<1>4. PICK r : r = Result(o, c, n) /\ nodes' = [nodes EXCEPT ![n] = r]
  BY <1>1, <1>2, <1>3 DEF Write
<1>5. /\ o = "approve" => r.approval = "approved"
      /\ o = "revoke" => r.approval = "revoked"
      /\ o \notin {"approve", "revoke"} => r.approval = c.approval
  BY <1>4, ResultFacts
<1>6. \A m \in Nodes : nodes'[m] = IF m = n THEN r ELSE nodes[m]
  BY <1>4 DEF TypeOK, NodeMaps
<1>7. /\ at'[h] \notin Copying /\ target' = target
      /\ \A g \in Handlers \ {h} : at'[g] = at[g] /\ seen'[g] = seen[g]
  BY DEF Write, Done, Forget, TypeOK, Copying
<1>8. CASE o \in {"approve", "revoke"}
  <2>1. /\ slipped' = slipped \ {n} /\ late' = (late \cup Overtaken(n)) \ {h}
        /\ \A m \in Nodes : decision'[m] = IF m = n THEN r.approval ELSE decision[m]
    BY <1>1, <1>2, <1>5, <1>8 DEF Write, TypeOK
  <2>2. AgreeOn(nodes', decision', slipped')
    BY <1>6, <2>1 DEF Agree, AgreeOn
  <2>3. AgreeOn(disk'.nodes, disk'.decision, disk'.slipped)
    BY <2>2, SaveAgrees DEF Agree, Write
  <2>4. ASSUME NEW g \in Handlers, at'[g] \in Copying, g \notin late', target'[g] \notin slipped'
        PROVE  seen'[g].approval = decision'[target'[g]]
    <3>1. g # h /\ at[g] \in Copying /\ target'[g] = target[g] /\ seen'[g] = seen[g]
      BY <1>7, <2>4
    <3>2. target[g] # n /\ g \notin late /\ target[g] \in Nodes
      BY <2>1, <2>4, <3>1 DEF Overtaken, TypeOK
    <3> QED
      BY <2>1, <2>4, <3>1, <3>2 DEF Agree, Fresh
  <2> QED
    BY <2>2, <2>3, <2>4 DEF Agree, Fresh
<1>9. CASE o \notin {"approve", "revoke"}
  <2>1. /\ decision' = decision /\ late' = late \ {h}
        /\ slipped' = IF h \in late THEN slipped \cup {n} ELSE slipped
    BY <1>1, <1>2, <1>9 DEF Write, Done
  <2>2. n \notin slipped' => r.approval = decision[n]
    <3>1. n \notin slipped' => h \notin late /\ n \notin slipped
      BY <2>1
    <3>2. h \notin late /\ n \notin slipped => c.approval = decision[n]
      BY <1>1, <1>3 DEF Agree, Fresh, Copying, Write
    <3> QED
      BY <1>5, <1>9, <3>1, <3>2
  <2>3. AgreeOn(nodes', decision', slipped')
    BY <1>6, <2>1, <2>2 DEF Agree, AgreeOn
  <2>4. AgreeOn(disk'.nodes, disk'.decision, disk'.slipped)
    BY <2>3, SaveAgrees DEF Agree, Write
  <2>5. ASSUME NEW g \in Handlers, at'[g] \in Copying, g \notin late', target'[g] \notin slipped'
        PROVE  seen'[g].approval = decision'[target'[g]]
    <3>1. g # h /\ at[g] \in Copying /\ target'[g] = target[g] /\ seen'[g] = seen[g]
      BY <1>7, <2>5
    <3>2. g \notin late /\ target[g] \notin slipped
      BY <2>1, <2>5, <3>1
    <3> QED
      BY <2>1, <3>1, <3>2 DEF Agree, Fresh
  <2> QED
    BY <2>3, <2>4, <2>5 DEF Agree, Fresh
<1> QED
  BY <1>8, <1>9

\* Every step keeps the approvals in agreement with the decisions.
LEMMA AgreeStep == Inv /\ Agree /\ [Next]_vars => Agree'
<1> SUFFICES ASSUME Inv, Agree, [Next]_vars PROVE Agree'
  OBVIOUS
<1> USE DEF Inv
<1>1. ASSUME NEW h \in Handlers, NEW t \in Tokens, NEW n \in Nodes, NEW saved \in BOOLEAN,
             CreateToken(h, t, n, saved)
      PROVE  Agree'
  <2>1. AgreeOn(disk'.nodes, disk'.decision, disk'.slipped)
    BY <1>1, SaveAgrees DEF CreateToken, Agree
  <2> QED
    BY <1>1, <2>1, CopiesAgree DEF CreateToken, control
<1>2. ASSUME NEW t \in Tokens, TokenExpires(t)
      PROVE  Agree'
  BY <1>2 DEF TokenExpires, Agree, Fresh, store, control
<1>3. ASSUME NEW h \in Handlers, NEW t \in Tokens, NEW n \in Nodes,
             NEW saved \in BOOLEAN, Register(h, t, n, saved)
      PROVE  Agree'
  <2>1. \A g \in Handlers : at'[g] \in Copying => at'[g] = at[g] /\ target'[g] = target[g]
    BY <1>3 DEF Register, TypeOK, Copying
  <2> QED
    BY <1>3, <2>1, AddAgrees, EnrolledFacts DEF Register
<1>4. ASSUME NEW h \in Handlers, NEW n \in Nodes, NEW flag \in BOOLEAN, NEW saved \in BOOLEAN,
             ManualAdd(h, n, flag, saved)
      PROVE  Agree'
  <2>1. PICK r : r = [Enrolled EXCEPT !.auth = flag]
    OBVIOUS
  <2>2. r \in Rec /\ r.approval = "pending"
    BY <2>1, EnrolledFacts DEF Rec
  <2>3. Add(n, r) /\ Save(saved) /\ seen' = seen /\ at' = at /\ target' = target
    BY <1>4, <2>1 DEF ManualAdd, control
  <2> QED
    BY <2>2, <2>3, AddAgrees
<1>5. ASSUME NEW h \in Handlers, NEW n \in Nodes, NEW saved \in BOOLEAN, PassiveAdd(h, n, saved)
      PROVE  Agree'
  <2>1. PICK r : r = [control |-> "passive", approval |-> "pending", auth |-> FALSE]
    OBVIOUS
  <2>2. r \in Rec /\ r.approval = "pending"
    BY <2>1 DEF Rec, Approvals
  <2>3. Add(n, r) /\ Save(saved) /\ seen' = seen /\ at' = at /\ target' = target
    BY <1>5, <2>1 DEF PassiveAdd, control
  <2> QED
    BY <2>2, <2>3, AddAgrees
<1>6. ASSUME NEW h \in Handlers, NEW o \in Operations, NEW n \in Nodes, Read(h, o, n)
      PROVE  Agree'
  <2>1. /\ seen'[h] = nodes[n] /\ target'[h] = n /\ nodes[n] # NoRec
        /\ UNCHANGED store /\ late' = late
        /\ \A g \in Handlers \ {h} :
             at'[g] = at[g] /\ target'[g] = target[g] /\ seen'[g] = seen[g]
    BY <1>6 DEF Read, TypeOK
  <2> QED
    BY <2>1, ReadAgrees
<1>7. ASSUME NEW h \in Handlers, ReadBack(h) \/ Notify(h)
      PROVE  Agree'
  <2>1. PICK n \in Nodes : n = target[h]
    BY DEF TypeOK
  <2>2. /\ seen'[h] = nodes[n] /\ target'[h] = n /\ nodes[n] # NoRec
        /\ UNCHANGED store /\ late' = late
        /\ \A g \in Handlers \ {h} :
             at'[g] = at[g] /\ target'[g] = target[g] /\ seen'[g] = seen[g]
    BY <1>7, <2>1 DEF ReadBack, Notify, Proceed, TypeOK
  <2> QED
    BY <2>2, ReadAgrees
<1>8. ASSUME NEW h \in Handlers, UNCHANGED store, Done(h)
      PROVE  Agree'
  <2>1. /\ at'[h] = "idle" /\ late' = late \ {h}
        /\ \A g \in Handlers : target'[g] = target[g]
        /\ \A g \in Handlers \ {h} : at'[g] = at[g] /\ seen'[g] = seen[g]
    BY <1>8, DoneFacts DEF Done
  <2> QED
    BY <1>8, <2>1 DEF Agree, Fresh, store, Copying
<1>9. ASSUME NEW h \in Handlers, UNCHANGED <<store, seen, target, late>>,
             at[h] \in Copying, Proceed(h, "write")
      PROVE  Agree'
  <2>1. \A g \in Handlers : at'[g] \in Copying => at[g] \in Copying
    BY <1>9 DEF Proceed, TypeOK
  <2> QED
    BY <1>9, <2>1 DEF Agree, Fresh, store
<1>10. ASSUME NEW h \in Handlers, NEW valid \in BOOLEAN, Verify(h, valid)
       PROVE  Agree'
  BY <1>8, <1>9, <1>10 DEF Verify, Proceed, Copying
<1>11. ASSUME NEW h \in Handlers, StoreCredential(h)
       PROVE  Agree'
  BY <1>9, <1>11 DEF StoreCredential, Proceed, Copying
<1>12. ASSUME NEW h \in Handlers, CredentialFails(h) \/ NoEntryToMark(h)
       PROVE  Agree'
  BY <1>8, <1>12 DEF CredentialFails, NoEntryToMark
<1>13. ASSUME NEW h \in Handlers, NEW saved \in BOOLEAN, Write(h, saved)
       PROVE  Agree'
  BY <1>13, WriteAgrees
<1>14. ASSUME NEW h \in Handlers, NEW saved \in BOOLEAN, SetEnrollmentApproval(h, saved)
       PROVE  Agree'
  <2>1. AgreeOn(disk'.nodes, disk'.decision, disk'.slipped)
    BY <1>14, SaveAgrees DEF SetEnrollmentApproval, Agree
  <2>2. /\ at'[h] = "idle" /\ late' = late \ {h}
        /\ \A g \in Handlers : target'[g] = target[g]
        /\ \A g \in Handlers \ {h} : at'[g] = at[g] /\ seen'[g] = seen[g]
    BY <1>14, DoneFacts DEF Done, SetEnrollmentApproval
  <2>3. "idle" \notin Copying
    BY DEF Copying
  <2> QED
    BY <1>14, <2>1, <2>2, <2>3, CopiesAgree DEF SetEnrollmentApproval
<1>15. CASE Restart
  BY <1>15 DEF Restart, Agree, AgreeOn, Fresh, Copying
<1>16. CASE UNCHANGED vars
  BY <1>16 DEF vars, Agree, Fresh
<1> QED
  BY <1>1, <1>2, <1>3, <1>4, <1>5, <1>6, <1>7, <1>10, <1>11, <1>12, <1>13, <1>14, <1>15,
     <1>16 DEF Next

\* For any number of handlers: a node's approval, in memory and in the file, is
\* the operator's last decision since the node was added, unless a handler wrote
\* a copy that it had read before that decision.
THEOREM ApprovalIsTheOperators == Spec => []ApprovalFollowsOperator
<1>1. Init => Agree
  BY DEF Init, Agree, AgreeOn, Fresh, Copying
<1>2. Agree => ApprovalFollowsOperator
  BY DEF Agree, AgreeOn, ApprovalFollowsOperator
<1> QED
  BY <1>1, <1>2, AgreeStep, RegistryCorrect, PTL DEF Spec
===============================================================================
