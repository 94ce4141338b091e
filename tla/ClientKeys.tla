----------------------------- MODULE ClientKeys -----------------------------
(***************************************************************************)
(* The life of the client API keys: created, rotated and revoked by the    *)
(* operator, the default key put in place at every start, and tokens       *)
(* checked on every request.  A key lives in two stores: its entry in the  *)
(* state file (appstate) and its token in the secrets store, the OS        *)
(* keychain included.  A handler changes one after the other, each call    *)
(* under the lock of that store only, so handlers interleave between the   *)
(* calls, every call can fail, and the process can stop anywhere.          *)
(*                                                                         *)
(* The marshal is set up (SetupComplete), which turns client               *)
(* authentication on at every start; tokens are random, so every draw is   *)
(* new.                                                                    *)
(***************************************************************************)
EXTENDS SecretsStore

CONSTANTS
  Handlers,   \* requests the marshal serves at the same time
  Default     \* the id of the key "local-ide"

ASSUME DefaultAssumption == Default \in Names

Entries == {"none", "enabled", "disabled"}
Operations == {"create", "rotate", "revoke", "ensure", "rekey"}
Points == {"idle", "secret", "keychain", "entry", "config", "rename"}

\* What a handler knows: its operation, the key it is about, the token it
\* drew (0 to delete), and two facts of history: whether no other handler was
\* at that key since it began, and the tokens handed out before.
Calls == [op: Operations, id: Names, tok: Secrets, solo: BOOLEAN,
          before: SUBSET Secrets]
NoCall == [op |-> "rekey", id |-> Default, tok |-> 0, solo |-> FALSE,
           before |-> {}]

\* The token that a start gives the default key and shows to nobody.
Undisclosed == MaxToken + 1

VARIABLES
  keys,       \* state.ClientAPIKeys
  stateFile,  \* the same in state.json
  serving,    \* New has returned
  at,         \* where a handler is
  call,       \* what it knows
  issued,     \* history: the tokens handed out for a key, in a 200 answer
  retired,    \* history: those that an answered rotation or revocation ended
  current,    \* history: the token that a client may count on, 0 if none
  stale,      \* history: keys of which the keychain missed a write
  nextToken   \* the next token to be drawn

local   == <<at, call>>
history == <<issued, retired, current, stale>>
vars == <<secretVars, keys, stateFile, serving, local, history, nextToken>>

Init ==
  /\ SecretsInit([n \in Names |-> IF n = Default THEN 1 ELSE 0])
  /\ keys = [n \in Names |-> IF n = Default THEN "enabled" ELSE "none"]
  /\ stateFile = keys
  /\ serving = FALSE
  /\ at = [h \in Handlers |-> "idle"]
  /\ call = [h \in Handlers |-> NoCall]
  /\ issued = [n \in Names |-> IF n = Default THEN {1} ELSE {}]
  /\ retired = [n \in Names |-> {}]
  /\ current = [n \in Names |-> IF n = Default THEN 1 ELSE 0]
  /\ stale = {}
  /\ nextToken = 2

\* validClientAPIKey: the entry is enabled and the token is the stored one.
ValidClientAPIKey(k, t) ==
  serving /\ keys[k] = "enabled" /\ t # 0 /\ Get(k) = t

Busy(h, k) == at[h] \notin {"idle", "rename"} /\ call[h].id = k

\* A handler starts to change key k: token t is drawn, 0 for a revocation.
Begin(h, o, k, t) ==
  /\ at[h] = "idle"
  /\ at' = [at EXCEPT ![h] = "secret"]
  /\ call' = [g \in Handlers |->
       IF g = h THEN [op |-> o, id |-> k, tok |-> t, before |-> issued[k],
                      solo |-> \A f \in Handlers : ~Busy(f, k)]
       ELSE IF Busy(g, k) THEN [call[g] EXCEPT !.solo = FALSE]
       ELSE call[g]]
  /\ current' = [current EXCEPT ![k] = 0]
  /\ UNCHANGED <<secretVars, keys, stateFile, serving, issued, retired, stale>>

Goto(h, point) == at' = [at EXCEPT ![h] = point] /\ UNCHANGED call
Return(h) ==
  /\ at' = [at EXCEPT ![h] = "idle"]
  /\ call' = [call EXCEPT ![h] = NoCall]

DrawToken == nextToken <= MaxToken /\ nextToken' = nextToken + 1

\* An id that createClientAPIKey could draw: it occurs nowhere.
Unused(k) ==
  /\ keys[k] = "none" /\ stateFile[k] = "none"
  /\ data[k] = 0 /\ encFile.data[k] = 0 /\ chain[k] = 0
  /\ \A h \in Handlers : ~Busy(h, k)

CreateClientAPIKey(h, k) ==
  /\ serving
  /\ Unused(k)
  /\ DrawToken
  /\ Begin(h, "create", k, nextToken)

RotateClientAPIKey(h, k) ==
  /\ serving
  /\ keys[k] # "none"
  /\ DrawToken
  /\ Begin(h, "rotate", k, nextToken)

RevokeClientAPIKey(h, k) ==
  /\ serving
  /\ keys[k] # "none"
  /\ Begin(h, "revoke", k, 0)
  /\ UNCHANGED nextToken

\* Mutant: the error of the save is dropped.
SaveSecretUnchecked(h) ==
  /\ at[h] = "secret"
  /\ \E ok \in BOOLEAN : Write(call[h].id, call[h].tok, ok)
  /\ Goto(h, IF active = "keychain" THEN "keychain" ELSE "entry")
  /\ UNCHANGED <<stage, keys, stateFile, serving, history, nextToken>>

\* Secrets.Set or Secrets.Delete, the part under the lock.  A keychain that
\* holds the key and is not written is stale from here.
SaveSecret(h) ==
  /\ at[h] = "secret"
  /\ Write(call[h].id, call[h].tok, TRUE)
  /\ Goto(h, IF active = "keychain" THEN "keychain" ELSE "entry")
  /\ stale' = IF active = "file" /\ chain[call[h].id] # 0
                THEN stale \cup {call[h].id} ELSE stale
  /\ UNCHANGED <<stage, keys, stateFile, serving, issued, retired, current, nextToken>>

\* A start that cannot put the default key in place ends the process.
GiveUp(h) ==
  /\ stage' = IF call[h].op = "ensure" THEN "closed" ELSE stage
  /\ Return(h)

SaveSecretFails(h) ==
  /\ at[h] = "secret"
  /\ Write(call[h].id, call[h].tok, FALSE)
  /\ GiveUp(h)
  /\ UNCHANGED <<keys, stateFile, serving, history, nextToken>>

\* The part outside the lock; an error of the keychain is not returned.
SaveKeychain(h) ==
  /\ at[h] = "keychain"
  /\ \E ok \in BOOLEAN :
       /\ WriteKeychain(call[h].id, call[h].tok, ok)
       /\ stale' = IF ok THEN stale \ {call[h].id}
                   ELSE IF chain[call[h].id] # 0 THEN stale \cup {call[h].id}
                   ELSE stale
  /\ Goto(h, "entry")
  /\ UNCHANGED <<keys, stateFile, serving, issued, retired, current, nextToken>>

\* The handler answers 200: a token is handed out, those handed out before
\* the handler began are over.
Answer(h) ==
  LET c == call[h] IN
  /\ issued' = IF c.tok # 0 THEN [issued EXCEPT ![c.id] = @ \cup {c.tok}] ELSE issued
  /\ retired' = [retired EXCEPT ![c.id] = @ \cup c.before]
  /\ current' = IF c.solo THEN [current EXCEPT ![c.id] = c.tok] ELSE current

NoAnswer == UNCHANGED <<issued, retired, current>>

\* Mutant: a rotation leaves a revoked key disabled.
PutEntryAsItWas(h) ==
  keys' = [keys EXCEPT ![call[h].id] = CASE call[h].op = "revoke" -> "disabled"
                                         [] call[h].op = "rotate" -> @
                                         [] OTHER -> "enabled"]

\* UpsertClientAPIKey: memory first, then the file.  The entry of a revoked
\* key is there, so its Enabled stays FALSE.
PutEntry(h) ==
  keys' = [keys EXCEPT ![call[h].id] = IF call[h].op = "revoke" THEN "disabled"
                                                               ELSE "enabled"]

UpsertClientAPIKey(h) ==
  /\ at[h] = "entry"
  /\ PutEntry(h)
  /\ stateFile' = keys'
  /\ IF call[h].op = "create" THEN Goto(h, "config") ELSE Return(h)
  /\ IF call[h].op \in {"rotate", "revoke"} THEN Answer(h) ELSE NoAnswer
  /\ serving' = TRUE
  /\ UNCHANGED <<secretVars, stale, nextToken>>

UpsertFails(h) ==
  /\ at[h] = "entry"
  /\ Outcome(FALSE)
  /\ PutEntry(h)
  /\ GiveUp(h)
  /\ UNCHANGED <<disks, data, key, oldKey, chain, active, torn, stateFile, serving,
                 history, nextToken>>

\* The end of createClientAPIKey: SaveConfig writes the whole state.
SaveConfig(h) ==
  /\ at[h] = "config"
  /\ \E ok \in BOOLEAN :
       /\ Outcome(ok)
       /\ stateFile' = IF ok THEN keys ELSE stateFile
       /\ IF ok THEN Answer(h) ELSE NoAnswer
  /\ Return(h)
  /\ UNCHANGED <<disks, memory, chain, active, torn, keys, serving, stale, nextToken>>

\* TouchClientAPIKey after a valid token: the whole state is written, too.
TouchClientAPIKey ==
  /\ \E k \in Names : ValidClientAPIKey(k, Get(k))
  /\ stateFile' = keys
  /\ UNCHANGED <<secretVars, keys, serving, local, history, nextToken>>

\* New, once the secrets are open: the default key gets a new token unless
\* an enabled key with a token has its name, which a created one may have.
EnsureDefaultClientKey(h) ==
  /\ stage = "open"
  /\ ~serving
  /\ \A g \in Handlers : at[g] = "idle"
  /\ \/ /\ \E k \in Names : keys[k] = "enabled" /\ Get(k) # 0
        /\ serving' = TRUE
        /\ UNCHANGED <<secretVars, keys, stateFile, local, history, nextToken>>
     \/ /\ keys[Default] # "enabled" \/ Get(Default) = 0
        /\ Begin(h, "ensure", Default, Undisclosed)
        /\ UNCHANGED nextToken

\* rekeySecretsHandler: Rekey holds the lock from its first rename on.
BeginRekey(h) ==
  /\ serving
  /\ at[h] = "idle"
  /\ RekeyRenameKey
  /\ at' = [at EXCEPT ![h] = "rename"]
  /\ UNCHANGED <<keys, stateFile, serving, call, history, nextToken>>

EndRekey(h) ==
  /\ at[h] = "rename"
  /\ RekeyRenameFile \/ RekeyRollback
  /\ Return(h)
  /\ UNCHANGED <<keys, stateFile, serving, history, nextToken>>

\* The process stops and is started again later; the state store reads its
\* file back.
Stop ==
  /\ Close
  /\ Outcome(FALSE)
  /\ keys' = stateFile
  /\ serving' = FALSE
  /\ at' = [h \in Handlers |-> "idle"]
  /\ call' = [h \in Handlers |-> NoCall]
  /\ UNCHANGED <<stateFile, history, nextToken>>

Opening ==
  /\ Open \/ OpenFails \/ RemoveLegacy \/ MigrateFallbackToOSKeychain
  /\ keys' = stateFile
  /\ UNCHANGED <<stateFile, serving, local, history, nextToken>>

LoseKeychain ==
  /\ KeychainUnavailable
  /\ UNCHANGED <<keys, stateFile, serving, local, history, nextToken>>

Next ==
  \/ Opening
  \/ LoseKeychain
  \/ TouchClientAPIKey
  \/ Stop
  \/ \E h \in Handlers :
       \/ EnsureDefaultClientKey(h)
       \/ BeginRekey(h)
       \/ EndRekey(h)
       \/ SaveSecret(h)
       \/ SaveSecretFails(h)
       \/ SaveKeychain(h)
       \/ UpsertClientAPIKey(h)
       \/ UpsertFails(h)
       \/ SaveConfig(h)
       \/ \E k \in Names : \/ CreateClientAPIKey(h, k)
                           \/ RotateClientAPIKey(h, k)
                           \/ RevokeClientAPIKey(h, k)

Spec == Init /\ [][Next]_vars

-----------------------------------------------------------------------------
\* Every variable has its type.
TypeOK ==
  /\ SecretsTypeOK
  /\ keys \in [Names -> Entries]
  /\ stateFile \in [Names -> Entries]
  /\ serving \in BOOLEAN
  /\ at \in [Handlers -> Points]
  /\ call \in [Handlers -> Calls]
  /\ issued \in [Names -> SUBSET Secrets]
  /\ retired \in [Names -> SUBSET Secrets]
  /\ current \in [Names -> Secrets]
  /\ stale \subseteq Names
  /\ nextToken \in 2 .. MaxToken + 1

\* The encrypted file opens with the key beside it whenever Rekey is not
\* between its two renames (secrets.Store.Rekey, saveLocked and Open agree on the
\* key).  A process that stops there, or a roll back that fails, does leave files
\* that do not open; torn excepts those two, until a Rekey is done, and the
\* property says that nothing else takes them apart.
FilesOpenTogether ==
  torn \/ oldKey # 0 \/ encFile.key \in {0, KeyAtHand}

\* A token that was handed out and that nobody began to replace is in the
\* files of the encrypted fallback, whatever failed since, whenever the
\* process stopped and whatever became of the keychain, unless the roll back of
\* a Rekey emptied the file and no secret was saved after it.
FallbackHoldsCurrent ==
  \A k \in Names : current[k] # 0 /\ encFile.key # Truncated =>
    IF encFile.key # 0 THEN encFile.data[k] = current[k] ELSE legacy[k] = current[k]

\* Such a token is accepted by every marshal that serves, unless the keychain
\* missed a write of its key and is believed nevertheless.
CurrentIsAccepted ==
  \A k \in Names : serving /\ current[k] # 0 /\ k \notin stale
                     => ValidClientAPIKey(k, current[k])

\* No token that an answered rotation or revocation ended is accepted again,
\* by this process or a later one, with the same exception.
RetiredIsRejected ==
  \A k \in Names, t \in Secrets :
    t \in retired[k] /\ k \notin stale => ~ValidClientAPIKey(k, t)

=============================================================================
