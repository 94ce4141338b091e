-------------------------- MODULE CredentialProofs --------------------------
(***************************************************************************)
(* Proofs about ClientKeys, for any number of keys, handlers, tokens,      *)
(* failures and restarts: the two files of the secrets store open          *)
(* together, the fallback holds every token a client may count on, such a  *)
(* token is accepted, and a retired token is not.                          *)
(*                                                                         *)
(* Three facts carry the argument.  A handler that was alone at its key    *)
(* since it began finds its own token wherever it has written it (SoloOK); *)
(* while a handler is at a key no client may count on its token; and a     *)
(* token in flight was handed out by nobody yet, so that no write can      *)
(* bring back a token that was (FreshOK).                                  *)
(*                                                                         *)
(* The second part is about AuthGate, the gate in front of the keys and of *)
(* the administration: what its failure limiter counts is what happened,   *)
(* and the operator holds the admin token.                                 *)
(***************************************************************************)
EXTENDS ClientKeys, AuthGate, TLAPS

Live == stage # "closed"

\* Which key the files and the memory of the store hold.
KeysOK ==
  /\ torn \/ oldKey # 0 \/ encFile.key \in {0, KeyAtHand}
  /\ Live /\ ~torn /\ oldKey = 0 => key = KeyAtHand
  /\ Live => key # 0
  /\ Live /\ source = "file" => keyFile # 0
  /\ stage = "legacy" => encFile.key # 0
  /\ oldKey # 0 => /\ stage = "open"
                   /\ source = "file"
                   /\ ~torn => oldKey = key /\ encFile.key \in {0, key}

\* When handlers run, and what a start does alone.
PhaseOK ==
  /\ serving => stage = "open"
  /\ oldKey # 0 => serving
  /\ \A h \in Handlers : at[h] # "idle" =>
       /\ stage = "open"
       /\ call[h].op = "ensure" =>
            ~serving /\ \A g \in Handlers : g # h => at[g] = "idle"
  /\ \A h \in Handlers : at[h] \in {"idle", "rename"} => call[h] = NoCall

\* A handler at key k and what it has written so far.
Wrote(h) == at[h] \in {"keychain", "entry", "config"}
Done(h)  == at[h] \in {"entry", "config"}

ChainSays(k, t) == k \in stale \/ chain[k] \in {0, t}
FilesSay(k, t)  == encFile.key # 0 /\ (encFile.key # Truncated => encFile.data[k] = t)

\* A handler that was alone at its key finds there what it wrote.
SoloAt(h) ==
  /\ \A g \in Handlers :
       g # h /\ Busy(h, call[h].id) /\ Busy(g, call[h].id) => ~call[h].solo
  /\ Wrote(h) /\ call[h].solo =>
       data[call[h].id] = call[h].tok /\ FilesSay(call[h].id, call[h].tok)
  /\ Done(h) /\ call[h].solo => ChainSays(call[h].id, call[h].tok)
  /\ at[h] = "config" /\ call[h].solo => keys[call[h].id] = "enabled"
  /\ at[h] = "config" => call[h].op = "create"
  /\ Busy(h, call[h].id) /\ call[h].op = "revoke" => call[h].tok = 0

SoloOK == \A h \in Handlers : SoloAt(h)

\* What is true of a key whose token a client may count on.
CurrentAt(k) ==
  current[k] # 0 =>
    /\ \A h \in Handlers : ~Busy(h, k)
    /\ encFile.key \notin {0, Truncated} => encFile.data[k] = current[k]
    /\ encFile.key = 0 => legacy[k] = current[k]
    /\ Live => data[k] = current[k]
    /\ keys[k] = "enabled"
    /\ stateFile[k] = "enabled"
    /\ ChainSays(k, current[k])

CurrentOK == \A k \in Names : CurrentAt(k)

\* A token in flight was handed out by nobody, and no other handler has it.
Flying(h) == at[h] \notin {"idle", "rename"}

FreshAt(h) ==
  Flying(h) =>
    /\ call[h].op = "ensure" => call[h].tok = Undisclosed
    /\ call[h].op # "ensure" => call[h].tok < nextToken
    /\ call[h].tok # 0 =>
         /\ \A k \in Names : call[h].tok \notin issued[k]
         /\ \A g \in Handlers : g # h /\ Flying(g) => call[g].tok # call[h].tok

FreshOK ==
  /\ \A k \in Names, t \in Secrets : t \in issued[k] => t # 0 /\ t < nextToken
  /\ \A h \in Handlers : FreshAt(h)

\* A token is in neither file nor in memory; it is not believed from the
\* keychain.
Gone(k, t) ==
  /\ t # 0
  /\ encFile.key # 0
  /\ encFile.data[k] # t
  /\ Live => data[k] # t

ChainGone(k, t) == k \in stale \/ chain[k] # t

RetiredAt(k) ==
  \A t \in Secrets : t \in retired[k] =>
    t \in issued[k] /\ Gone(k, t) /\ ChainGone(k, t)

BeforeAt(h) ==
  \A t \in Secrets : t \in call[h].before =>
    /\ t \in issued[call[h].id]
    /\ Wrote(h) => Gone(call[h].id, t)
    /\ Done(h) => ChainGone(call[h].id, t)

RetiredOK ==
  /\ \A k \in Names : RetiredAt(k)
  /\ \A h \in Handlers : BeforeAt(h)

Inv == TypeOK /\ KeysOK /\ PhaseOK /\ SoloOK /\ CurrentOK /\ FreshOK /\ RetiredOK

-----------------------------------------------------------------------------
\* The values a store can hold: the constants of the types.
LEMMA Constants ==
  /\ 0 \in Secrets /\ 1 \in Secrets /\ Undisclosed \in Secrets
  /\ 0 \in Keys /\ EnvKey \in Keys
  /\ NoSecrets \in Contents
  /\ NoCall \in Calls
  <1>1. /\ 0 \in Secrets /\ 1 \in Secrets /\ Undisclosed \in Secrets
        /\ 0 \in Keys /\ EnvKey \in Keys
    BY SecretBounds DEF Secrets, Keys, Undisclosed, EnvKey
  <1>2. NoSecrets \in Contents
    BY <1>1 DEF NoSecrets, Contents
  <1>3. NoCall \in Calls
    BY <1>1, DefaultAssumption DEF NoCall, Calls, Operations
  <1>4. QED
    BY <1>1, <1>2, <1>3

\* Every initial state has its types (SecretsInit and Init).
LEMMA InitTyped == Init => TypeOK
  <1> SUFFICES ASSUME Init PROVE TypeOK
    OBVIOUS
  <1>c. [n \in Names |-> IF n = Default THEN 1 ELSE 0] \in Contents
    BY Constants DEF Contents
  <1>1. /\ encFile \in [key: Keys \cup {Truncated}, data: Contents]
        /\ keyFile \in Keys /\ nextKey \in 1 .. MaxKey + 1
        /\ legacy \in Contents
    BY <1>c, Constants, SecretBounds DEF Init, SecretsInit, Keys
  <1>2. /\ source \in {"file", "env"} /\ chain \in Contents /\ data \in Contents
        /\ stage \in {"closed", "legacy", "keychain", "open"}
        /\ key \in Keys /\ oldKey \in Keys /\ active \in {"file", "keychain"}
        /\ faults \in 0 .. MaxFaults
    BY Constants, SecretBounds DEF Init, SecretsInit
  <1>3. torn \in BOOLEAN
    BY DEF Init, SecretsInit
  <1>4. SecretsTypeOK
    BY <1>1, <1>2, <1>3 DEF SecretsTypeOK
  <1>5. keys \in [Names -> Entries] /\ stateFile \in [Names -> Entries]
    BY DEF Init, Entries
  <1>6. serving \in BOOLEAN
    BY DEF Init
  <1>7. at \in [Handlers -> Points]
    BY DEF Init, Points
  <1>8. call \in [Handlers -> Calls]
    BY Constants DEF Init
  <1>9. /\ issued \in [Names -> SUBSET Secrets]
        /\ retired \in [Names -> SUBSET Secrets]
        /\ current \in [Names -> Secrets]
        /\ stale \subseteq Names
    BY Constants DEF Init
  <1>10. nextToken \in 2 .. MaxToken + 1
    BY SecretBounds DEF Init
  <1>11. QED
    BY <1>4, <1>5, <1>6, <1>7, <1>8, <1>9, <1>10 DEF TypeOK

\* A step counts its fault within the bound.
LEMMA OutcomeTyped ==
  ASSUME NEW ok \in BOOLEAN, faults \in 0 .. MaxFaults, Outcome(ok)
  PROVE  faults' \in 0 .. MaxFaults
  BY SecretBounds DEF Outcome

\* Opening the store keeps the types (Open, load, the migrations).
LEMMA OpeningTyped ==
  ASSUME SecretsTypeOK, Open \/ OpenFails \/ RemoveLegacy \/ MigrateFallbackToOSKeychain
  PROVE  SecretsTypeOK'
  <1>k. ASSUME NEW k \in Keys, LoadOrCreateKey(k)
        PROVE  keyFile' \in Keys /\ nextKey' \in 1 .. MaxKey + 1
    BY <1>k, SecretBounds DEF LoadOrCreateKey, SecretsTypeOK, Keys
  <1>1. CASE Open
    <2>1. PICK k \in Keys : LoadOrCreateKey(k) /\ Load(k) /\ key' = k
      BY <1>1 DEF Open
    <2>2. keyFile' \in Keys /\ nextKey' \in 1 .. MaxKey + 1
      BY <2>1, <1>k
    <2>3. /\ encFile' \in [key: Keys \cup {Truncated}, data: Contents] /\ data' \in Contents
          /\ stage' \in {"closed", "legacy", "keychain", "open"}
      BY <2>1 DEF Load, SecretsTypeOK
    <2>4. active' \in {"file", "keychain"}
      BY <1>1 DEF Open
    <2>5. QED
      BY <1>1, <2>1, <2>2, <2>3, <2>4 DEF Open, SecretsTypeOK
  <1>2. CASE OpenFails
    <2>1. keyFile' \in Keys /\ nextKey' \in 1 .. MaxKey + 1 /\ faults' \in 0 .. MaxFaults
      <3>1. CASE UNCHANGED <<keyFile, nextKey, faults>>
        BY <3>1 DEF SecretsTypeOK
      <3>2. CASE (\E k \in Keys : LoadOrCreateKey(k)) /\ Outcome(FALSE)
        BY <3>2, <1>k, OutcomeTyped DEF SecretsTypeOK
      <3>3. QED
        BY <1>2, <3>1, <3>2 DEF OpenFails
    <2>2. QED
      BY <1>2, <2>1 DEF OpenFails, SecretsTypeOK, memory
  <1>3. CASE RemoveLegacy
    <2>1. PICK ok \in BOOLEAN :
            /\ Outcome(ok)
            /\ legacy' = IF ok THEN NoSecrets ELSE legacy
            /\ stage' = IF ok THEN "keychain" ELSE "closed"
      BY <1>3 DEF RemoveLegacy
    <2>2. faults' \in 0 .. MaxFaults
      BY <2>1, OutcomeTyped DEF SecretsTypeOK
    <2>3. legacy' \in Contents /\ stage' \in {"closed", "legacy", "keychain", "open"}
      BY <2>1, Constants DEF SecretsTypeOK
    <2>4. QED
      BY <1>3, <2>2, <2>3 DEF RemoveLegacy, SecretsTypeOK
  <1>4. CASE MigrateFallbackToOSKeychain
    <2>1. /\ chain' \in Contents /\ active' \in {"file", "keychain"}
          /\ faults' \in 0 .. MaxFaults
      <3>1. CASE active = "file"
        BY <1>4, <3>1 DEF MigrateFallbackToOSKeychain, SecretsTypeOK
      <3>2. CASE active = "keychain"
        <4>1. PICK copied \in SUBSET Present, ok \in BOOLEAN :
                /\ Outcome(ok)
                /\ chain' = [n \in Names |-> IF n \in copied /\ chain[n] = 0
                                               THEN data[n] ELSE chain[n]]
                /\ active' = IF ok THEN active ELSE "file"
          BY <1>4, <3>2 DEF MigrateFallbackToOSKeychain
        <4>2. chain' \in Contents
          BY <4>1 DEF SecretsTypeOK, Contents
        <4>3. QED
          BY <4>1, <4>2, OutcomeTyped DEF SecretsTypeOK
      <3>3. QED
        BY <3>1, <3>2 DEF SecretsTypeOK
    <2>2. QED
      BY <1>4, <2>1 DEF MigrateFallbackToOSKeychain, SecretsTypeOK, disks
  <1>5. QED
    BY <1>1, <1>2, <1>3, <1>4

\* The other calls of the store keep the types (Set, Delete, Rekey, Get).
LEMMA StoreTyped ==
  ASSUME SecretsTypeOK,
         NEW n \in Names, NEW v \in Secrets, NEW ok \in BOOLEAN,
         \/ Write(n, v, ok) /\ stage' \in {"closed", "open"}
         \/ WriteKeychain(n, v, ok)
         \/ KeychainUnavailable
         \/ RekeyRenameKey \/ RekeyRenameFile \/ RekeyRollback
         \/ Close /\ Outcome(FALSE)
  PROVE  SecretsTypeOK'
  <1>1. CASE Write(n, v, ok) /\ stage' \in {"closed", "open"}
    <2>1. data' \in Contents
      BY <1>1 DEF Write, SecretsTypeOK, Contents
    <2>2. encFile' \in [key: Keys \cup {Truncated}, data: Contents]
      BY <1>1, <2>1 DEF Write, SecretsTypeOK
    <2>3. faults' \in 0 .. MaxFaults
      BY <1>1, OutcomeTyped DEF Write, SecretsTypeOK
    <2>4. QED
      BY <1>1, <2>1, <2>2, <2>3 DEF Write, SecretsTypeOK
  <1>2. CASE WriteKeychain(n, v, ok)
    <2>1. chain' \in Contents
      BY <1>2 DEF WriteKeychain, SecretsTypeOK, Contents
    <2>2. faults' \in 0 .. MaxFaults
      BY <1>2, OutcomeTyped DEF WriteKeychain, SecretsTypeOK
    <2>3. QED
      BY <1>2, <2>1, <2>2 DEF WriteKeychain, SecretsTypeOK, disks, memory
  <1>3. CASE KeychainUnavailable
    <2>1. faults' \in 0 .. MaxFaults
      BY <1>3, OutcomeTyped DEF KeychainUnavailable, SecretsTypeOK
    <2>2. QED
      BY <1>3, <2>1 DEF KeychainUnavailable, SecretsTypeOK, disks, memory
  <1>4. CASE RekeyRenameKey
    <2>1. keyFile' \in Keys /\ nextKey' \in 1 .. MaxKey + 1 /\ oldKey' \in Keys
      BY <1>4, SecretBounds DEF RekeyRenameKey, SecretsTypeOK, Keys
    <2>2. QED
      BY <1>4, <2>1 DEF RekeyRenameKey, SecretsTypeOK
  <1>5. CASE RekeyRenameFile
    <2>1. torn' \in BOOLEAN
      BY <1>5 DEF RekeyRenameFile
    <2>2. encFile' \in [key: Keys \cup {Truncated}, data: Contents] /\ key' \in Keys /\ oldKey' \in Keys
      BY <1>5, Constants DEF RekeyRenameFile, SecretsTypeOK
    <2>3. QED
      BY <1>5, <2>1, <2>2 DEF RekeyRenameFile, SecretsTypeOK
  <1>6. CASE RekeyRollback
    <2>1. torn' \in BOOLEAN
      BY <1>6 DEF RekeyRollback
    <2>2. keyFile' \in Keys /\ oldKey' \in Keys
      BY <1>6, Constants DEF RekeyRollback, SecretsTypeOK
    <2>3. faults' \in 0 .. MaxFaults
      BY <1>6, OutcomeTyped DEF RekeyRollback, SecretsTypeOK
    <2>4. encFile' \in [key: Keys \cup {Truncated}, data: Contents]
      BY <1>6, Constants DEF RekeyRollback, SecretsTypeOK
    <2>5. QED
      BY <1>6, <2>1, <2>2, <2>3, <2>4 DEF RekeyRollback, SecretsTypeOK
  <1>7. CASE Close /\ Outcome(FALSE)
    <2>1. torn' \in BOOLEAN
      BY <1>7 DEF Close
    <2>2. faults' \in 0 .. MaxFaults
      BY <1>7, OutcomeTyped DEF SecretsTypeOK
    <2>3. QED
      BY <1>7, <2>1, <2>2, Constants DEF Close, SecretsTypeOK, disks
  <1>8. QED
    BY <1>1, <1>2, <1>3, <1>4, <1>5, <1>6, <1>7

\* A handler that begins has its types, and draws a secret (Begin).
LEMMA BeginTyped ==
  ASSUME TypeOK, NEW h \in Handlers, NEW o \in Operations, NEW k \in Names,
         NEW t \in Secrets, Begin(h, o, k, t), nextToken' \in 2 .. MaxToken + 1
  PROVE  TypeOK'
  <1>1. at' \in [Handlers -> Points]
    BY DEF Begin, TypeOK, Points
  <1>2. call' \in [Handlers -> Calls]
    <2>1. ASSUME NEW g \in Handlers
          PROVE  call'[g] \in Calls
      <3>d. DEFINE S == \A f \in Handlers : ~Busy(f, k)
      <3>1. S \in BOOLEAN
        OBVIOUS
      <3>2. call[g] \in Calls /\ issued[k] \in SUBSET Secrets
        BY <2>1 DEF TypeOK
      <3>3. CASE g = h
        <4>1. call'[g] = [op |-> o, id |-> k, tok |-> t, before |-> issued[k], solo |-> S]
          BY <3>3 DEF Begin
        <4>2. QED
          BY <4>1, <3>1, <3>2 DEF Calls
      <3>4. CASE g # h
        <4>1. [call[g] EXCEPT !.solo = FALSE] \in Calls
          BY <3>2 DEF Calls
        <4>2. QED
          BY <2>1, <3>4, <4>1, <3>2 DEF Begin
      <3>5. QED
        BY <3>3, <3>4
    <2>2. QED
      BY <2>1 DEF Begin
  <1>3. current' \in [Names -> Secrets]
    BY Constants DEF Begin, TypeOK
  <1>4. SecretsTypeOK'
    BY DEF Begin, TypeOK, SecretsTypeOK, secretVars, disks, memory
  <1>5. QED
    BY <1>1, <1>2, <1>3, <1>4 DEF Begin, TypeOK

\* A handler that goes on or returns keeps its types.
LEMMA MoveTyped ==
  ASSUME TypeOK, NEW h \in Handlers, NEW q \in Points, Goto(h, q) \/ Return(h)
  PROVE  at' \in [Handlers -> Points] /\ call' \in [Handlers -> Calls]
  <1>1. CASE Goto(h, q)
    BY <1>1 DEF Goto, TypeOK
  <1>2. CASE Return(h)
    <2>1. at' \in [Handlers -> Points]
      BY <1>2 DEF Return, TypeOK, Points
    <2>2. call' \in [Handlers -> Calls]
      BY <1>2, Constants DEF Return, TypeOK
    <2>3. QED
      BY <2>1, <2>2
  <1>3. QED
    BY <1>1, <1>2

\* An answer keeps the types of what it records.
LEMMA AnswerTyped ==
  ASSUME TypeOK, NEW h \in Handlers, Answer(h) \/ NoAnswer
  PROVE  /\ issued' \in [Names -> SUBSET Secrets]
         /\ retired' \in [Names -> SUBSET Secrets]
         /\ current' \in [Names -> Secrets]
  <1>1. CASE NoAnswer
    BY <1>1 DEF NoAnswer, TypeOK
  <1>2. CASE Answer(h)
    <2>1. call[h] \in Calls
      BY DEF TypeOK
    <2>2. /\ call[h].id \in Names /\ call[h].tok \in Secrets
          /\ call[h].before \in SUBSET Secrets
      BY <2>1 DEF Calls
    <2>3. issued' \in [Names -> SUBSET Secrets]
      BY <1>2, <2>2 DEF Answer, TypeOK
    <2>4. retired' \in [Names -> SUBSET Secrets]
      BY <1>2, <2>2 DEF Answer, TypeOK
    <2>5. current' \in [Names -> Secrets]
      BY <1>2, <2>2 DEF Answer, TypeOK
    <2>6. QED
      BY <2>3, <2>4, <2>5
  <1>3. QED
    BY <1>1, <1>2

\* Every action keeps the types.
LEMMA NextTyped == TypeOK /\ PhaseOK /\ [Next]_vars => TypeOK'
  <1> SUFFICES ASSUME TypeOK, PhaseOK, [Next]_vars PROVE TypeOK'
    OBVIOUS
  <1>t. SecretsTypeOK /\ nextToken \in 2 .. MaxToken + 1
    BY DEF TypeOK
  <1>c. ASSUME NEW h \in Handlers
        PROVE  call[h].id \in Names /\ call[h].tok \in Secrets
    BY <1>c DEF TypeOK, Calls
  <1>n. DrawToken => nextToken \in Secrets /\ nextToken' \in 2 .. MaxToken + 1
    BY <1>t, SecretBounds DEF DrawToken, Secrets
  <1>g. ASSUME NEW h \in Handlers, GiveUp(h), stage \in {"closed", "open"}
        PROVE  /\ stage' \in {"closed", "open"}
               /\ at' \in [Handlers -> Points] /\ call' \in [Handlers -> Calls]
    <2>1. Return(h) /\ stage' \in {"closed", "open"}
      BY <1>g DEF GiveUp
    <2>2. QED
      BY <2>1, MoveTyped DEF Points
  <1>p. "idle" \in Points /\ "entry" \in Points /\ "config" \in Points /\ "keychain" \in Points
    BY DEF Points
  <1>1. CASE Opening
    <2>1. SecretsTypeOK'
      BY <1>1, <1>t, OpeningTyped DEF Opening
    <2>2. QED
      BY <1>1, <2>1 DEF Opening, TypeOK, local, history
  <1>2. CASE LoseKeychain
    <2>1. SecretsTypeOK'
      BY <1>2, <1>t, StoreTyped, Constants, DefaultAssumption DEF LoseKeychain
    <2>2. QED
      BY <1>2, <2>1 DEF LoseKeychain, TypeOK, local, history
  <1>3. CASE TouchClientAPIKey
    <2>1. SecretsTypeOK'
      BY <1>3, <1>t DEF TouchClientAPIKey, SecretsTypeOK, secretVars, disks, memory
    <2>2. QED
      BY <1>3, <2>1 DEF TouchClientAPIKey, TypeOK, local, history
  <1>4. CASE Stop
    <2>1. SecretsTypeOK'
      BY <1>4, <1>t, StoreTyped, Constants, DefaultAssumption DEF Stop
    <2>2. at' \in [Handlers -> Points] /\ call' \in [Handlers -> Calls]
      BY <1>4, <1>p, Constants DEF Stop
    <2>3. serving' \in BOOLEAN
      BY <1>4 DEF Stop
    <2>4. QED
      BY <1>4, <2>1, <2>2, <2>3 DEF Stop, TypeOK, history
  <1>5. ASSUME NEW h \in Handlers, EnsureDefaultClientKey(h)
        PROVE  TypeOK'
    <2>1. CASE Begin(h, "ensure", Default, Undisclosed) /\ UNCHANGED nextToken
      BY <2>1, <1>t, BeginTyped, Constants, DefaultAssumption DEF Operations
    <2>2. CASE serving' = TRUE /\ UNCHANGED <<secretVars, keys, stateFile, local, history, nextToken>>
      <3>1. SecretsTypeOK'
        BY <2>2, <1>t DEF SecretsTypeOK, secretVars, disks, memory
      <3>2. serving' \in BOOLEAN
        BY <2>2
      <3>3. QED
        BY <2>2, <3>1, <3>2 DEF TypeOK, local, history
    <2>3. QED
      BY <1>5, <2>1, <2>2 DEF EnsureDefaultClientKey
  <1>6. ASSUME NEW h \in Handlers, BeginRekey(h)
        PROVE  TypeOK'
    <2>1. SecretsTypeOK'
      BY <1>6, <1>t, StoreTyped, Constants, DefaultAssumption DEF BeginRekey
    <2>2. at' \in [Handlers -> Points]
      BY <1>6 DEF BeginRekey, TypeOK, Points
    <2>3. QED
      BY <1>6, <2>1, <2>2 DEF BeginRekey, TypeOK, history
  <1>7. ASSUME NEW h \in Handlers, EndRekey(h)
        PROVE  TypeOK'
    <2>1. SecretsTypeOK'
      BY <1>7, <1>t, StoreTyped, Constants, DefaultAssumption DEF EndRekey
    <2>2. at' \in [Handlers -> Points] /\ call' \in [Handlers -> Calls]
      BY <1>7, <1>p, MoveTyped DEF EndRekey
    <2>3. QED
      BY <1>7, <2>1, <2>2 DEF EndRekey, TypeOK, history
  <1>8. ASSUME NEW h \in Handlers, SaveSecret(h)
        PROVE  TypeOK'
    <2>1. SecretsTypeOK'
      <3>1. Write(call[h].id, call[h].tok, TRUE) /\ stage' \in {"closed", "open"}
        BY <1>8 DEF SaveSecret, Write
      <3>2. QED
        BY <3>1, <1>c, <1>t, StoreTyped
    <2>2. at' \in [Handlers -> Points] /\ call' \in [Handlers -> Calls]
      BY <1>8, <1>p, MoveTyped DEF SaveSecret
    <2>3. stale' \subseteq Names
      BY <1>8, <1>c DEF SaveSecret, TypeOK
    <2>4. QED
      BY <1>8, <2>1, <2>2, <2>3 DEF SaveSecret, TypeOK
  <1>9. ASSUME NEW h \in Handlers, SaveSecretFails(h)
        PROVE  TypeOK'
    <2>1. stage = "open"
      BY <1>9 DEF SaveSecretFails, Write
    <2>2. /\ stage' \in {"closed", "open"}
          /\ at' \in [Handlers -> Points] /\ call' \in [Handlers -> Calls]
      BY <1>9, <1>g, <2>1 DEF SaveSecretFails
    <2>3. SecretsTypeOK'
      BY <1>9, <2>2, <1>c, <1>t, StoreTyped DEF SaveSecretFails
    <2>4. QED
      BY <1>9, <2>2, <2>3 DEF SaveSecretFails, TypeOK, history
  <1>10. ASSUME NEW h \in Handlers, SaveKeychain(h)
         PROVE  TypeOK'
    <2>1. PICK ok \in BOOLEAN :
            /\ WriteKeychain(call[h].id, call[h].tok, ok)
            /\ stale' = IF ok THEN stale \ {call[h].id}
                        ELSE IF chain[call[h].id] # 0 THEN stale \cup {call[h].id}
                        ELSE stale
      BY <1>10 DEF SaveKeychain
    <2>2. SecretsTypeOK'
      BY <2>1, <1>c, <1>t, StoreTyped
    <2>3. at' \in [Handlers -> Points] /\ call' \in [Handlers -> Calls]
      BY <1>10, <1>p, MoveTyped DEF SaveKeychain
    <2>4. stale' \subseteq Names
      BY <2>1, <1>c DEF TypeOK
    <2>5. QED
      BY <1>10, <2>2, <2>3, <2>4 DEF SaveKeychain, TypeOK
  <1>11. ASSUME NEW h \in Handlers, PutEntry(h)
         PROVE  keys' \in [Names -> Entries]
    BY <1>11 DEF PutEntry, TypeOK, Entries
  <1>12. ASSUME NEW h \in Handlers, UpsertClientAPIKey(h)
         PROVE  TypeOK'
    <2>1. SecretsTypeOK'
      BY <1>12, <1>t DEF UpsertClientAPIKey, SecretsTypeOK, secretVars, disks, memory
    <2>2. at' \in [Handlers -> Points] /\ call' \in [Handlers -> Calls]
      BY <1>12, <1>p, MoveTyped DEF UpsertClientAPIKey
    <2>3. /\ issued' \in [Names -> SUBSET Secrets]
          /\ retired' \in [Names -> SUBSET Secrets]
          /\ current' \in [Names -> Secrets]
      BY <1>12, AnswerTyped DEF UpsertClientAPIKey
    <2>4. serving' \in BOOLEAN
      BY <1>12 DEF UpsertClientAPIKey
    <2>5. QED
      BY <1>11, <1>12, <2>1, <2>2, <2>3, <2>4 DEF UpsertClientAPIKey, TypeOK
  <1>13. ASSUME NEW h \in Handlers, UpsertFails(h)
         PROVE  TypeOK'
    <2>1. stage = "open"
      BY <1>13 DEF UpsertFails, PhaseOK
    <2>2. /\ stage' \in {"closed", "open"}
          /\ at' \in [Handlers -> Points] /\ call' \in [Handlers -> Calls]
      BY <1>13, <1>g, <2>1 DEF UpsertFails
    <2>3. faults' \in 0 .. MaxFaults
      BY <1>13, <1>t, OutcomeTyped DEF UpsertFails, SecretsTypeOK
    <2>4. SecretsTypeOK'
      BY <1>13, <1>t, <2>2, <2>3 DEF UpsertFails, SecretsTypeOK, disks
    <2>5. QED
      BY <1>11, <1>13, <2>2, <2>4 DEF UpsertFails, TypeOK, history
  <1>14. ASSUME NEW h \in Handlers, SaveConfig(h)
         PROVE  TypeOK'
    <2>1. faults' \in 0 .. MaxFaults
      BY <1>14, <1>t, OutcomeTyped DEF SaveConfig, SecretsTypeOK
    <2>2. SecretsTypeOK'
      BY <1>14, <1>t, <2>1 DEF SaveConfig, SecretsTypeOK, disks, memory
    <2>3. at' \in [Handlers -> Points] /\ call' \in [Handlers -> Calls]
      BY <1>14, <1>p, MoveTyped DEF SaveConfig
    <2>4. /\ issued' \in [Names -> SUBSET Secrets]
          /\ retired' \in [Names -> SUBSET Secrets]
          /\ current' \in [Names -> Secrets]
      BY <1>14, AnswerTyped DEF SaveConfig
    <2>5. stateFile' \in [Names -> Entries]
      BY <1>14 DEF SaveConfig, TypeOK
    <2>6. QED
      BY <1>14, <2>2, <2>3, <2>4, <2>5 DEF SaveConfig, TypeOK
  <1>15. ASSUME NEW h \in Handlers, NEW k \in Names,
                \/ CreateClientAPIKey(h, k)
                \/ RotateClientAPIKey(h, k)
                \/ RevokeClientAPIKey(h, k)
         PROVE  TypeOK'
    <2>1. CASE CreateClientAPIKey(h, k)
      BY <2>1, <1>n, BeginTyped DEF CreateClientAPIKey, Operations
    <2>2. CASE RotateClientAPIKey(h, k)
      BY <2>2, <1>n, BeginTyped DEF RotateClientAPIKey, Operations
    <2>3. CASE RevokeClientAPIKey(h, k)
      BY <2>3, <1>t, Constants, BeginTyped DEF RevokeClientAPIKey, Operations
    <2>4. QED
      BY <1>15, <2>1, <2>2, <2>3
  <1>16. CASE UNCHANGED vars
    <2>1. SecretsTypeOK'
      BY <1>16, <1>t DEF vars, SecretsTypeOK, secretVars, disks, memory
    <2>2. QED
      BY <1>16, <2>1 DEF vars, TypeOK, local, history
  <1>17. QED
    BY <1>1, <1>2, <1>3, <1>4, <1>5, <1>6, <1>7, <1>8, <1>9, <1>10, <1>12, <1>13,
       <1>14, <1>15, <1>16 DEF Next

\* The steps that leave the encryption keys and their use alone.
KeysUnchanged == UNCHANGED <<torn, oldKey, encFile, source, keyFile, key, stage>>

\* What leaves the two files, their keys and the stage alone keeps the key bookkeeping.
LEMMA KeysFrame == KeysOK /\ KeysUnchanged => KeysOK'
  BY DEF KeysOK, KeysUnchanged, KeyAtHand, Live

\* Every action keeps the files, the memory and Rekey in agreement about the
\* key, and lets handlers run only on an open store.
LEMMA NextKeys == TypeOK /\ KeysOK /\ PhaseOK /\ [Next]_vars => KeysOK'
  <1> SUFFICES ASSUME TypeOK, KeysOK, PhaseOK, [Next]_vars PROVE KeysOK'
    OBVIOUS
  <1>t. /\ SecretsTypeOK
        /\ torn \in BOOLEAN /\ nextKey >= 1 /\ EnvKey # 0
        /\ encFile.key \in Keys \cup {Truncated}
    BY DEF TypeOK, SecretsTypeOK, EnvKey
  <1>1. CASE Open
    <2>1. PICK k \in Keys : LoadOrCreateKey(k) /\ Load(k) /\ key' = k
      BY <1>1 DEF Open
    <2>2. k # 0 /\ (source = "file" => keyFile' = k)
      BY <2>1, <1>t DEF LoadOrCreateKey, KeyAtHand
    <2>3. KeyAtHand' = k /\ source' = source /\ torn' = torn /\ oldKey' = oldKey
      BY <1>1, <2>1, <1>t DEF Open, LoadOrCreateKey, KeyAtHand
    <2>4. oldKey = 0 /\ oldKey' = 0
      BY <1>1, <2>3 DEF Open, KeysOK
    <2>5. /\ stage' = "legacy" => encFile'.key # 0
          /\ encFile'.key \in {0, k}
          /\ stage' # "closed"
      BY <2>1, <2>2 DEF Load
    <2>6. QED
      BY <2>1, <2>2, <2>3, <2>4, <2>5 DEF KeysOK, Live
  <1>2. CASE OpenFails
    <2>1. stage' = "closed" /\ oldKey = 0 /\ oldKey' = 0 /\ torn' = torn
          /\ encFile' = encFile /\ source' = source
      BY <1>2 DEF OpenFails, KeysOK, memory
    <2>2. torn \/ encFile.key \in {0, KeyAtHand'}
      <3>1. CASE KeyAtHand' = KeyAtHand
        BY <2>1, <3>1 DEF KeysOK
      <3>2. CASE KeyAtHand = 0
        BY <2>1, <3>2 DEF KeysOK
      <3>3. KeyAtHand' = KeyAtHand \/ KeyAtHand = 0
        BY <1>2, <2>1 DEF OpenFails, LoadOrCreateKey, KeyAtHand
      <3>4. QED
        BY <3>1, <3>2, <3>3
    <2>3. QED
      BY <2>1, <2>2 DEF KeysOK, Live
  <1>3. CASE RemoveLegacy
    BY <1>3 DEF RemoveLegacy, KeysOK, Live, KeyAtHand
  <1>4. CASE MigrateFallbackToOSKeychain
    BY <1>4 DEF MigrateFallbackToOSKeychain, KeysOK, Live, KeyAtHand, disks
  <1>5. CASE Stop
    <2>1. /\ stage' = "closed" /\ oldKey' = 0 /\ torn' = (torn \/ oldKey # 0)
          /\ UNCHANGED <<source, keyFile, encFile>>
      BY <1>5 DEF Stop, Close, disks
    <2>2. KeyAtHand' = KeyAtHand
      BY <2>1 DEF KeyAtHand
    <2>3. QED
      BY <1>t, <2>1, <2>2 DEF KeysOK, Live
  <1>6. ASSUME NEW h \in Handlers, BeginRekey(h)
        PROVE  KeysOK'
    <2>1. RekeyRenameKey
      BY <1>6 DEF BeginRekey
    <2>2. /\ stage = "open" /\ source = "file" /\ oldKey = 0
          /\ stage' = "open" /\ source' = "file" /\ key' = key /\ torn' = torn
          /\ encFile' = encFile /\ oldKey' = keyFile /\ keyFile' = nextKey
      BY <2>1 DEF RekeyRenameKey
    <2>3. keyFile # 0 /\ key # 0 /\ KeyAtHand = keyFile
      BY <2>2 DEF KeysOK, Live, KeyAtHand
    <2>4. ~torn => key = keyFile /\ encFile.key \in {0, keyFile}
      BY <2>2, <2>3 DEF KeysOK, Live
    <2>5. QED
      BY <1>t, <2>2, <2>3, <2>4 DEF KeysOK, Live
  <1>7. ASSUME NEW h \in Handlers, EndRekey(h)
        PROVE  KeysOK'
    <2>1. oldKey # 0 /\ stage = "open" /\ source = "file" /\ keyFile # 0 /\ key # 0
      BY <1>7 DEF EndRekey, RekeyRenameFile, RekeyRollback, KeysOK, Live
    <2>2. CASE RekeyRenameFile
      <3>1. /\ encFile'.key = keyFile /\ key' = keyFile /\ oldKey' = 0 /\ torn' = FALSE
            /\ source' = source /\ keyFile' = keyFile /\ stage' = stage
        BY <2>2 DEF RekeyRenameFile
      <3>2. KeyAtHand' = keyFile
        BY <2>1, <3>1 DEF KeyAtHand
      <3>3. QED
        BY <2>1, <3>1, <3>2 DEF KeysOK, Live
    <2>3. CASE RekeyRollback
      <3>1. PICK restored \in BOOLEAN, emptied \in BOOLEAN :
              /\ keyFile' = IF restored THEN oldKey ELSE keyFile
              /\ encFile' = IF emptied THEN [key |-> Truncated, data |-> NoSecrets]
                            ELSE encFile
              /\ torn' = (torn \/ ~restored \/ emptied)
        BY <2>3 DEF RekeyRollback
      <3>2. /\ oldKey' = 0
            /\ UNCHANGED <<source, stage, key>>
        BY <2>3 DEF RekeyRollback
      <3>3. KeyAtHand' = keyFile' /\ keyFile' # 0
        BY <2>1, <3>1, <3>2 DEF KeyAtHand
      <3>4. ~torn' => keyFile' = key /\ encFile' = encFile /\ encFile.key \in {0, key}
        BY <2>1, <3>1 DEF KeysOK
      <3>5. QED
        BY <2>1, <3>2, <3>3, <3>4 DEF KeysOK, Live
    <2>4. QED
      BY <1>7, <2>2, <2>3 DEF EndRekey
  <1>8. ASSUME NEW h \in Handlers, SaveSecret(h) \/ SaveSecretFails(h)
        PROVE  KeysOK'
    <2>1. /\ stage = "open" /\ oldKey = 0 /\ oldKey' = 0
          /\ UNCHANGED <<source, keyFile, key, torn>>
          /\ encFile'.key \in {key, encFile.key}
      <3>1. CASE SaveSecret(h)
        BY <3>1 DEF SaveSecret, Write
      <3>2. CASE SaveSecretFails(h)
        BY <3>2 DEF SaveSecretFails, Write
      <3>3. QED
        BY <1>8, <3>1, <3>2
    <2>2. KeyAtHand' = KeyAtHand
      BY <2>1 DEF KeyAtHand
    <2>3. stage' \in {"open", "closed"}
      BY <1>8, <2>1 DEF SaveSecret, SaveSecretFails, GiveUp
    <2>4. QED
      BY <1>t, <2>1, <2>2, <2>3 DEF KeysOK, Live
  <1>9. ASSUME NEW h \in Handlers, UpsertFails(h)
        PROVE  KeysOK'
    <2>1. UNCHANGED <<source, keyFile, key, torn, encFile, oldKey>>
      BY <1>9 DEF UpsertFails, disks
    <2>2. stage' = stage \/ (stage' = "closed" /\ oldKey = 0)
      BY <1>9 DEF UpsertFails, GiveUp, PhaseOK
    <2>3. KeyAtHand' = KeyAtHand
      BY <2>1 DEF KeyAtHand
    <2>4. QED
      BY <1>t, <2>1, <2>2, <2>3 DEF KeysOK, Live
  <1>10. CASE LoseKeychain \/ TouchClientAPIKey \/ UNCHANGED vars
    BY <1>10, KeysFrame DEF LoseKeychain, TouchClientAPIKey, KeychainUnavailable, vars,
       KeysUnchanged, secretVars, disks, memory
  <1>11. ASSUME NEW h \in Handlers,
                SaveKeychain(h) \/ UpsertClientAPIKey(h) \/ SaveConfig(h)
         PROVE  KeysOK'
    BY <1>11, KeysFrame DEF SaveKeychain, WriteKeychain, UpsertClientAPIKey, SaveConfig,
       KeysUnchanged, secretVars, disks, memory
  <1>12. ASSUME NEW h \in Handlers, NEW o, NEW k, NEW t, Begin(h, o, k, t)
         PROVE  KeysOK'
    BY <1>12, KeysFrame DEF Begin, KeysUnchanged, secretVars, disks, memory
  <1>13. ASSUME NEW h \in Handlers, EnsureDefaultClientKey(h)
         PROVE  KeysOK'
    <2>1. CASE Begin(h, "ensure", Default, Undisclosed)
      BY <2>1, <1>12
    <2>2. CASE UNCHANGED secretVars
      BY <2>2, KeysFrame DEF KeysUnchanged, secretVars, disks, memory
    <2>3. QED
      BY <1>13, <2>1, <2>2 DEF EnsureDefaultClientKey
  <1>14. QED
    BY <1>1, <1>2, <1>3, <1>4, <1>5, <1>6, <1>7, <1>8, <1>9, <1>10, <1>11, <1>12, <1>13
       DEF Next, Opening, CreateClientAPIKey, RotateClientAPIKey, RevokeClientAPIKey

\* Every step keeps the relation between the stage of Open and the handlers.
LEMMA NextPhase == TypeOK /\ KeysOK /\ PhaseOK /\ [Next]_vars => PhaseOK'
  <1> SUFFICES ASSUME TypeOK, KeysOK, PhaseOK, [Next]_vars PROVE PhaseOK'
    OBVIOUS
  <1>t. at \in [Handlers -> Points] /\ call \in [Handlers -> Calls]
    BY DEF TypeOK
  <1>1. CASE Opening
    <2>1. stage # "open" /\ ~serving /\ \A h \in Handlers : at[h] = "idle"
      BY <1>1 DEF Opening, Open, OpenFails, RemoveLegacy, MigrateFallbackToOSKeychain,
         PhaseOK
    <2>2. UNCHANGED <<oldKey, serving, at>>
      BY <1>1 DEF Opening, Open, OpenFails, RemoveLegacy, MigrateFallbackToOSKeychain,
         local, memory
    <2>3. call' = call
      BY <1>1 DEF Opening, local
    <2>4. QED
      BY <2>1, <2>2, <2>3 DEF PhaseOK
  <1>2. CASE Stop
    <2>1. /\ oldKey' = 0 /\ serving' = FALSE
          /\ \A h \in Handlers : at'[h] = "idle" /\ call'[h] = NoCall
      BY <1>2 DEF Stop, Close
    <2>2. QED
      BY <2>1 DEF PhaseOK
  <1>3. ASSUME NEW h \in Handlers, NEW o \in Operations, NEW k, NEW t, Begin(h, o, k, t),
               stage = "open",
               o = "ensure" => ~serving /\ \A g \in Handlers : at[g] = "idle",
               o # "ensure" => serving
        PROVE  PhaseOK'
    <2>1. UNCHANGED <<stage, oldKey, serving>>
      BY <1>3 DEF Begin, secretVars, memory
    <2>2. at'[h] = "secret" /\ call'[h].op = o
      BY <1>3, <1>t DEF Begin
    <2>3. \A g \in Handlers : g # h =>
            /\ at'[g] = at[g] /\ call'[g].op = call[g].op
            /\ at[g] \in {"idle", "rename"} => call'[g] = call[g]
      BY <1>3, <1>t DEF Begin, Calls, Busy
    <2>4. QED
      BY <1>3, <2>1, <2>2, <2>3 DEF PhaseOK
  <1>4. ASSUME NEW h \in Handlers, EnsureDefaultClientKey(h)
        PROVE  PhaseOK'
    <2>1. CASE Begin(h, "ensure", Default, Undisclosed)
      BY <1>3, <1>4, <2>1 DEF EnsureDefaultClientKey, Operations
    <2>2. CASE serving' = TRUE /\ UNCHANGED <<secretVars, keys, stateFile, local, history, nextToken>>
      BY <1>4, <2>2 DEF EnsureDefaultClientKey, PhaseOK, secretVars, memory, local
    <2>3. QED
      BY <1>4, <2>1, <2>2 DEF EnsureDefaultClientKey
  <1>5. ASSUME NEW h \in Handlers, NEW k \in Names,
               \/ CreateClientAPIKey(h, k)
               \/ RotateClientAPIKey(h, k)
               \/ RevokeClientAPIKey(h, k)
        PROVE  PhaseOK'
    <2>1. serving /\ stage = "open"
      BY <1>5 DEF CreateClientAPIKey, RotateClientAPIKey, RevokeClientAPIKey, PhaseOK
    <2>2. QED
      BY <1>3, <1>5, <2>1 DEF CreateClientAPIKey, RotateClientAPIKey, RevokeClientAPIKey,
         Operations
  <1>6. ASSUME NEW h \in Handlers, BeginRekey(h)
        PROVE  PhaseOK'
    <2>1. serving /\ stage = "open" /\ UNCHANGED <<serving, stage, call>>
      BY <1>6 DEF BeginRekey, RekeyRenameKey
    <2>2. at[h] = "idle" /\ at' = [at EXCEPT ![h] = "rename"]
      BY <1>6 DEF BeginRekey
    <2>3. call[h] = NoCall
      BY <2>2 DEF PhaseOK
    <2>4. \A g \in Handlers : at'[g] # "idle" => call'[g].op # "ensure"
      BY <2>1, <2>2, <2>3, <1>t DEF PhaseOK, NoCall
    <2>5. \A g \in Handlers : at'[g] \in {"idle", "rename"} => call'[g] = NoCall
      BY <2>1, <2>2, <2>3, <1>t DEF PhaseOK
    <2>6. QED
      BY <2>1, <2>4, <2>5 DEF PhaseOK
  <1>7. ASSUME NEW h \in Handlers, Return(h), stage' = stage, serving' = serving,
               oldKey' \in {0, oldKey}
        PROVE  PhaseOK'
    BY <1>7, <1>t DEF PhaseOK, Return
  <1>8. ASSUME NEW h \in Handlers, NEW q, Goto(h, q), at[h] # "idle",
               q \notin {"idle", "rename"},
               stage' = stage, serving' = serving, oldKey' = oldKey
        PROVE  PhaseOK'
    BY <1>8, <1>t DEF PhaseOK, Goto
  <1>9. ASSUME NEW h \in Handlers, GiveUp(h), at[h] # "idle",
               serving' = serving, oldKey' = oldKey
        PROVE  PhaseOK'
    <2>1. CASE call[h].op # "ensure"
      BY <1>7, <1>9, <2>1 DEF GiveUp
    <2>2. CASE call[h].op = "ensure"
      <3>1. ~serving /\ oldKey = 0 /\ \A g \in Handlers : g # h => at[g] = "idle"
        BY <1>9, <2>2 DEF PhaseOK
      <3>2. \A g \in Handlers : at'[g] = "idle" /\ call'[g] = NoCall
        BY <1>9, <3>1, <1>t DEF GiveUp, Return, PhaseOK
      <3>3. QED
        BY <1>9, <3>1, <3>2 DEF PhaseOK
    <2>3. QED
      BY <2>1, <2>2
  <1>10. ASSUME NEW h \in Handlers, EndRekey(h)
         PROVE  PhaseOK'
    BY <1>7, <1>10 DEF EndRekey, RekeyRenameFile, RekeyRollback
  <1>11. ASSUME NEW h \in Handlers, SaveSecret(h) \/ SaveKeychain(h)
         PROVE  PhaseOK'
    BY <1>8, <1>11 DEF SaveSecret, SaveKeychain, Write, WriteKeychain, memory
  <1>12. ASSUME NEW h \in Handlers, SaveSecretFails(h) \/ UpsertFails(h)
         PROVE  PhaseOK'
    BY <1>9, <1>12 DEF SaveSecretFails, UpsertFails, Write
  <1>13. ASSUME NEW h \in Handlers, SaveConfig(h)
         PROVE  PhaseOK'
    BY <1>7, <1>13 DEF SaveConfig, memory
  <1>14. ASSUME NEW h \in Handlers, UpsertClientAPIKey(h)
         PROVE  PhaseOK'
    <2>1. /\ at[h] = "entry" /\ stage = "open" /\ serving' = TRUE
          /\ UNCHANGED <<stage, oldKey>>
      BY <1>14 DEF UpsertClientAPIKey, PhaseOK, secretVars, memory
    <2>2. \A g \in Handlers : g # h => at'[g] = at[g] /\ call'[g] = call[g]
      BY <1>14, <1>t DEF UpsertClientAPIKey, Goto, Return
    <2>3. \/ at'[h] = "idle" /\ call'[h] = NoCall
          \/ at'[h] = "config" /\ call'[h] = call[h] /\ call[h].op = "create"
      BY <1>14, <1>t DEF UpsertClientAPIKey, Goto, Return
    <2>4. \A g \in Handlers : g # h /\ at[g] # "idle" => call[g].op # "ensure"
      BY <2>1 DEF PhaseOK
    <2>5. \A g \in Handlers : at'[g] # "idle" => call'[g].op # "ensure"
      BY <2>2, <2>3, <2>4
    <2>6. \A g \in Handlers : at'[g] \in {"idle", "rename"} => call'[g] = NoCall
      BY <2>2, <2>3 DEF PhaseOK
    <2>7. QED
      BY <2>1, <2>5, <2>6 DEF PhaseOK
  <1>15. CASE LoseKeychain \/ TouchClientAPIKey \/ UNCHANGED vars
    <2>1. UNCHANGED <<stage, serving, oldKey, at, call>>
      BY <1>15 DEF LoseKeychain, TouchClientAPIKey, KeychainUnavailable, vars,
         secretVars, memory, local
    <2>2. QED
      BY <2>1 DEF PhaseOK
  <1>16. QED
    BY <1>1, <1>2, <1>4, <1>5, <1>6, <1>10, <1>11, <1>12, <1>13, <1>14, <1>15 DEF Next

\* A handler that is idle or in Rekey claims nothing about its key.
LEMMA IdleSolo ==
  ASSUME NEW h \in Handlers, at[h] \in {"idle", "rename"}
  PROVE  SoloAt(h)
  BY DEF SoloAt, Busy, Wrote, Done

\* Opening a store keeps what clients count on: load reads back what was
\* saved, and the plaintext file goes only after it was saved encrypted.
LEMMA OpeningCurrent ==
  ASSUME Inv, Opening, KeysOK' PROVE SoloOK' /\ CurrentOK'
  <1>t. TypeOK /\ KeysOK /\ PhaseOK /\ CurrentOK
    BY DEF Inv
  <1>1. stage # "open"
    BY DEF Opening, Open, OpenFails, RemoveLegacy, MigrateFallbackToOSKeychain
  <1>2. \A h \in Handlers : at[h] = "idle" /\ at'[h] = "idle"
    BY <1>1, <1>t DEF PhaseOK, Opening, local
  <1>3. \A h \in Handlers : SoloAt(h)'
    BY <1>2 DEF SoloAt, Busy, Wrote, Done
  <1>4. ASSUME NEW k \in Names, current'[k] # 0
        PROVE  CurrentAt(k)'
    <2>1. /\ keys' = stateFile /\ stateFile' = stateFile
          /\ current' = current /\ stale' = stale
      BY DEF Opening, history
    <2>2. CurrentAt(k) /\ current[k] # 0
      BY <1>4, <1>t, <2>1 DEF CurrentOK
    <2>3. \A h \in Handlers : ~Busy(h, k)'
      BY <1>2 DEF Busy
    <2>4. /\ encFile'.key \notin {0, Truncated} => encFile'.data[k] = current[k]
          /\ encFile'.key = 0 => legacy'[k] = current[k]
          /\ Live' => data'[k] = current[k]
          /\ k \in stale \/ chain'[k] \in {0, current[k]}
      <3>1. CASE Open
        <4>1. PICK q \in Keys : LoadOrCreateKey(q) /\ Load(q) /\ key' = q
          BY <3>1 DEF Open
        <4>2. legacy' = legacy /\ chain' = chain
          BY <3>1 DEF Open
        <4>3. q # Truncated
          BY SecretBounds DEF Keys, Truncated
        <4>4. QED
          BY <4>1, <4>2, <4>3, <2>2 DEF Load, CurrentAt, ChainSays
      <3>2. CASE OpenFails
        BY <3>2, <2>2 DEF OpenFails, memory, CurrentAt, ChainSays, Live
      <3>3. CASE RemoveLegacy
        BY <3>3, <2>2, <1>t DEF RemoveLegacy, CurrentAt, ChainSays, Live, KeysOK
      <3>4. CASE MigrateFallbackToOSKeychain
        <4>1. /\ stage = "keychain" /\ UNCHANGED <<encFile, legacy, data>>
          BY <3>4 DEF MigrateFallbackToOSKeychain, disks
        <4>2. data[k] = current[k]
          BY <2>2, <4>1 DEF CurrentAt, Live
        <4>3. chain'[k] \in {chain[k], data[k]} /\ (chain[k] # 0 => chain'[k] = chain[k])
          BY <3>4, <1>t DEF MigrateFallbackToOSKeychain, TypeOK, SecretsTypeOK, Contents
        <4>4. QED
          BY <2>2, <4>1, <4>2, <4>3 DEF CurrentAt, ChainSays
      <3>5. QED
        BY <3>1, <3>2, <3>3, <3>4 DEF Opening
    <2>5. QED
      BY <2>1, <2>2, <2>3, <2>4 DEF CurrentAt, ChainSays
  <1>5. QED
    BY <1>3, <1>4 DEF SoloOK, CurrentOK, CurrentAt

\* A handler that begins ends every claim about its key (Begin).
LEMMA BeginCurrent ==
  ASSUME Inv, NEW h \in Handlers, NEW o, NEW k \in Names, NEW t,
         Begin(h, o, k, t), o = "revoke" => t = 0
  PROVE  SoloOK' /\ CurrentOK'
  <1>t. /\ at \in [Handlers -> Points] /\ call \in [Handlers -> Calls]
        /\ current \in [Names -> Secrets]
    BY DEF Inv, TypeOK
  <1>i. SoloOK /\ CurrentOK
    BY DEF Inv
  <1>1. /\ at[h] = "idle" /\ at'[h] = "secret"
        /\ call'[h].op = o /\ call'[h].id = k /\ call'[h].tok = t
        /\ call'[h].solo = (\A f \in Handlers : ~Busy(f, k))
    BY <1>t DEF Begin
  <1>2. ASSUME NEW g \in Handlers, g # h
        PROVE  /\ at'[g] = at[g]
               /\ call'[g].op = call[g].op /\ call'[g].id = call[g].id
               /\ call'[g].tok = call[g].tok
               /\ call'[g].solo => call[g].solo /\ ~Busy(g, k)
    <2>1. call[g] \in Calls
      BY <1>t, <1>2
    <2>2. at'[g] = at[g]
      BY <1>t, <1>2 DEF Begin
    <2>3. call'[g] = IF Busy(g, k) THEN [call[g] EXCEPT !.solo = FALSE] ELSE call[g]
      BY <1>2 DEF Begin
    <2>4. QED
      BY <2>1, <2>2, <2>3 DEF Calls
  <1>3. UNCHANGED <<encFile, data, legacy, chain, stage, keys, stateFile, stale>>
    BY DEF Begin, secretVars, disks, memory
  <1>4. \A g \in Handlers, n \in Names :
          Busy(g, n)' <=> (g = h /\ n = k) \/ (g # h /\ Busy(g, n))
    BY <1>1, <1>2 DEF Busy
  <1>5. ASSUME NEW g \in Handlers
        PROVE  SoloAt(g)'
    <2>1. CASE g = h
      BY <1>1, <1>4, <2>1 DEF SoloAt, Wrote, Done
    <2>2. CASE g # h
      <3>1. SoloAt(g) /\ call[g].id \in Names
        BY <1>i, <1>t DEF SoloOK, Calls
      <3>2. QED
        BY <1>1, <1>2, <1>3, <1>4, <2>2, <3>1
           DEF SoloAt, Wrote, Done, FilesSay, ChainSays
    <2>3. QED
      BY <2>1, <2>2
  <1>6. ASSUME NEW n \in Names
        PROVE  CurrentAt(n)'
    <2>1. current'[n] = IF n = k THEN 0 ELSE current[n]
      BY <1>t DEF Begin
    <2>2. CurrentAt(n)
      BY <1>i DEF CurrentOK
    <2>3. QED
      BY <1>3, <1>4, <2>1, <2>2 DEF CurrentAt, ChainSays, Live
  <1>7. QED
    BY <1>5, <1>6 DEF SoloOK, CurrentOK

\* A handler at a key: nobody counts on the key's token, and a handler that is
\* alone at the key is this one.
LEMMA AtKey ==
  ASSUME Inv, NEW h \in Handlers, at[h] \notin {"idle", "rename"}
  PROVE  /\ call[h].id \in Names
         /\ Busy(h, call[h].id)
         /\ current[call[h].id] = 0
         /\ \A g \in Handlers : g # h /\ Busy(g, call[h].id) =>
               ~call[g].solo /\ ~call[h].solo
         /\ stage = "open" /\ key # 0
  <1>1. call[h].id \in Names
    BY DEF Inv, TypeOK, Calls
  <1>2. Busy(h, call[h].id)
    BY DEF Busy
  <1>3. current[call[h].id] = 0
    BY <1>1, <1>2 DEF Inv, CurrentOK, CurrentAt
  <1>4. ASSUME NEW g \in Handlers, g # h, Busy(g, call[h].id)
        PROVE  ~call[g].solo /\ ~call[h].solo
    <2>1. SoloAt(g) /\ SoloAt(h)
      BY DEF Inv, SoloOK
    <2>2. call[g].id = call[h].id
      BY <1>4 DEF Busy
    <2>3. QED
      BY <1>2, <1>4, <2>1, <2>2 DEF SoloAt
  <1>5. stage = "open" /\ key # 0
    BY DEF Inv, PhaseOK, KeysOK, Live
  <1>6. QED
    BY <1>1, <1>2, <1>3, <1>4, <1>5

\* A handler writes its secret, in the files or (only) in memory, or in the
\* keychain; those at other keys are not disturbed.
LEMMA WriteCurrent ==
  ASSUME Inv, NEW h \in Handlers,
         SaveSecret(h) \/ SaveSecretFails(h) \/ SaveKeychain(h)
  PROVE  SoloOK' /\ CurrentOK'
  <1> DEFINE k == call[h].id
             v == call[h].tok
  <1>t. /\ at \in [Handlers -> Points] /\ call \in [Handlers -> Calls]
        /\ data \in [Names -> Secrets] /\ chain \in [Names -> Secrets]
        /\ active \in {"file", "keychain"}
    BY DEF Inv, TypeOK, SecretsTypeOK, Contents
  <1>i. SoloOK /\ CurrentOK
    BY DEF Inv
  <1>a. at[h] \in {"secret", "keychain"}
    BY DEF SaveSecret, SaveSecretFails, SaveKeychain
  <1>k. /\ k \in Names /\ Busy(h, k) /\ current[k] = 0 /\ key # 0 /\ stage = "open"
        /\ \A g \in Handlers : g # h /\ Busy(g, k) => ~call[g].solo /\ ~call[h].solo
    BY <1>a, AtKey
  <1>1. \A g \in Handlers : g # h => at'[g] = at[g] /\ call'[g] = call[g]
    BY <1>t DEF SaveSecret, SaveSecretFails, SaveKeychain, Goto, GiveUp, Return
  <1>2. UNCHANGED <<legacy, keys, stateFile, current>>
    BY DEF SaveSecret, SaveSecretFails, SaveKeychain, Write, WriteKeychain, history, disks
  <1>3. \A n \in Names : n # k =>
          /\ data'[n] = data[n]
          /\ n \in stale => n \in stale'
          /\ chain'[n] = chain[n]
          /\ encFile' = encFile \/ (encFile'.key # 0 /\ encFile'.data[n] = data[n])
    <2>1. CASE SaveSecret(h)
      BY <2>1, <1>t, <1>k DEF SaveSecret, Write
    <2>2. CASE SaveSecretFails(h)
      BY <2>2, <1>t, <1>k DEF SaveSecretFails, Write, history
    <2>3. CASE SaveKeychain(h)
      BY <2>3, <1>t, <1>k DEF SaveKeychain, WriteKeychain, disks, memory
    <2>4. QED
      BY <2>1, <2>2, <2>3
  <1>4. at'[h] # "idle" => call'[h] = call[h]
    BY <1>t DEF SaveSecret, SaveSecretFails, SaveKeychain, Goto, GiveUp, Return
  <1>5. at'[h] \in {"idle", "keychain", "entry"}
    BY <1>t DEF SaveSecret, SaveSecretFails, SaveKeychain, Goto, GiveUp, Return
  <1>6. \A g \in Handlers, n \in Names : Busy(g, n)' => Busy(g, n)
    BY <1>1, <1>4, <1>a DEF Busy
  <1>7. SoloAt(h)'
    <2>1. CASE at'[h] = "idle"
      BY <2>1 DEF SoloAt, Busy, Wrote, Done
    <2>2. CASE at'[h] # "idle"
      <3>1. call'[h] = call[h] /\ SoloAt(h)
        BY <2>2, <1>4, <1>i DEF SoloOK
      <3>2. call[h].solo => /\ data'[k] = v /\ encFile'.key # 0
                            /\ encFile'.key # Truncated => encFile'.data[k] = v
                            /\ at'[h] = "entry" => k \in stale' \/ chain'[k] \in {0, v}
        <4>1. CASE SaveSecret(h)
          BY <4>1, <1>t, <1>k DEF SaveSecret, Write, Goto, FilesSay
        <4>2. CASE SaveSecretFails(h)
          BY <4>2, <2>2, <1>t DEF SaveSecretFails, GiveUp, Return
        <4>3. CASE SaveKeychain(h)
          <5>1. call[h].solo => data[k] = v /\ FilesSay(k, v)
            BY <4>3, <3>1 DEF SaveKeychain, SoloAt, Wrote
          <5>2. UNCHANGED <<data, encFile>>
            BY <4>3 DEF SaveKeychain, WriteKeychain, disks, memory
          <5>3. k \in stale' \/ chain'[k] \in {0, v}
            BY <4>3, <1>t, <1>k DEF SaveKeychain, WriteKeychain
          <5>4. QED
            BY <5>1, <5>2, <5>3 DEF FilesSay
        <4>4. QED
          BY <4>1, <4>2, <4>3
      <3>3. QED
        BY <1>5, <1>6, <1>k, <2>2, <3>1, <3>2
           DEF SoloAt, Wrote, Done, FilesSay, ChainSays
    <2>3. QED
      BY <2>1, <2>2
  <1>8. ASSUME NEW g \in Handlers, g # h
        PROVE  SoloAt(g)'
    <2>1. SoloAt(g) /\ call[g].id \in Names /\ at'[g] = at[g] /\ call'[g] = call[g]
      BY <1>i, <1>t, <1>1, <1>8 DEF SoloOK, Calls
    <2>2. CASE call[g].id = k /\ Busy(g, k)
      <3>1. ~call[g].solo
        BY <1>k, <1>8, <2>2
      <3>2. QED
        BY <1>6, <2>1, <2>2, <3>1 DEF SoloAt, Wrote, Done, Busy
    <2>3. CASE ~Busy(g, call[g].id)
      BY <2>1, <2>3 DEF SoloAt, Wrote, Done, Busy
    <2>4. CASE call[g].id # k
      BY <1>2, <1>3, <1>6, <2>1, <2>4 DEF SoloAt, Wrote, Done, FilesSay, ChainSays, Busy
    <2>5. QED
      BY <2>2, <2>3, <2>4
  <1>9. ASSUME NEW n \in Names, current'[n] # 0
        PROVE  CurrentAt(n)'
    <2>1. CurrentAt(n) /\ n # k /\ current[n] # 0 /\ data[n] = current[n]
      BY <1>i, <1>9, <1>k, <1>2 DEF CurrentOK, CurrentAt, Live
    <2>2. QED
      BY <1>2, <1>3, <1>6, <2>1 DEF CurrentAt, ChainSays
  <1>10. QED
    BY <1>7, <1>8, <1>9 DEF SoloOK, CurrentOK, CurrentAt

\* A handler puts its entry in place, fails to, or saves the configuration; if
\* it answers and was alone, its token is what the client may count on.
LEMMA EntryCurrent ==
  ASSUME Inv, NEW h \in Handlers,
         UpsertClientAPIKey(h) \/ UpsertFails(h) \/ SaveConfig(h)
  PROVE  SoloOK' /\ CurrentOK'
  <1> DEFINE k == call[h].id
             v == call[h].tok
  <1>t. /\ at \in [Handlers -> Points] /\ call \in [Handlers -> Calls]
        /\ keys \in [Names -> Entries] /\ current \in [Names -> Secrets]
    BY DEF Inv, TypeOK
  <1>i. SoloOK /\ CurrentOK
    BY DEF Inv
  <1>a. at[h] \in {"entry", "config"}
    BY DEF UpsertClientAPIKey, UpsertFails, SaveConfig
  <1>k. /\ k \in Names /\ Busy(h, k) /\ current[k] = 0 /\ stage = "open"
        /\ \A g \in Handlers : g # h /\ Busy(g, k) => ~call[g].solo /\ ~call[h].solo
    BY <1>a, AtKey
  <1>1. \A g \in Handlers : g # h => at'[g] = at[g] /\ call'[g] = call[g]
    BY <1>t DEF UpsertClientAPIKey, UpsertFails, SaveConfig, Goto, GiveUp, Return
  <1>2. UNCHANGED <<data, encFile, legacy, chain, stale>>
    BY DEF UpsertClientAPIKey, UpsertFails, SaveConfig, secretVars, disks, memory, history
  <1>3. \/ at'[h] = "idle"
        \/ /\ at'[h] = "config" /\ call'[h] = call[h] /\ call[h].op = "create"
           /\ UpsertClientAPIKey(h)
    BY <1>t DEF UpsertClientAPIKey, UpsertFails, SaveConfig, Goto, GiveUp, Return
  <1>4. \A g \in Handlers, n \in Names : Busy(g, n)' => Busy(g, n)
    BY <1>1, <1>3, <1>a DEF Busy
  <1>5. /\ \A n \in Names : n # k => keys'[n] = keys[n]
        /\ stateFile' = stateFile \/ stateFile' = keys'
        /\ UpsertClientAPIKey(h) /\ call[h].op # "revoke" =>
             keys'[k] = "enabled" /\ stateFile' = keys'
    BY <1>t, <1>k DEF UpsertClientAPIKey, UpsertFails, SaveConfig, PutEntry
  <1>6. SoloAt(h)'
    <2>1. CASE at'[h] = "idle"
      BY <2>1 DEF SoloAt, Busy, Wrote, Done
    <2>2. CASE at'[h] # "idle"
      <3>1. SoloAt(h) /\ keys'[k] = "enabled"
        BY <1>i, <1>3, <1>5, <2>2 DEF SoloOK
      <3>2. QED
        BY <1>2, <1>3, <1>4, <1>a, <1>k, <2>2, <3>1
           DEF SoloAt, Wrote, Done, FilesSay, ChainSays
    <2>3. QED
      BY <2>1, <2>2
  <1>7. ASSUME NEW g \in Handlers, g # h
        PROVE  SoloAt(g)'
    <2>1. SoloAt(g) /\ call[g].id \in Names /\ at'[g] = at[g] /\ call'[g] = call[g]
      BY <1>i, <1>t, <1>1, <1>7 DEF SoloOK, Calls
    <2>2. CASE call[g].id = k /\ Busy(g, k)
      <3>1. ~call[g].solo
        BY <1>k, <1>7, <2>2
      <3>2. QED
        BY <1>4, <2>1, <2>2, <3>1 DEF SoloAt, Wrote, Done, Busy
    <2>3. CASE ~Busy(g, call[g].id)
      BY <2>1, <2>3 DEF SoloAt, Wrote, Done, Busy
    <2>4. CASE call[g].id # k
      BY <1>2, <1>4, <1>5, <2>1, <2>4 DEF SoloAt, Wrote, Done, FilesSay, ChainSays, Busy
    <2>5. QED
      BY <2>2, <2>3, <2>4
  <1>8. \/ current' = current
        \/ /\ call[h].solo /\ current' = [current EXCEPT ![k] = v] /\ at'[h] = "idle"
           /\ \/ UpsertClientAPIKey(h)
              \/ SaveConfig(h) /\ at[h] = "config" /\ stateFile' = keys' /\ keys' = keys
    <2>1. CASE UpsertClientAPIKey(h)
      BY <2>1, <1>t DEF UpsertClientAPIKey, Answer, NoAnswer, Return
    <2>2. CASE UpsertFails(h)
      BY <2>2 DEF UpsertFails, history
    <2>3. CASE SaveConfig(h)
      BY <2>3, <1>t DEF SaveConfig, Answer, NoAnswer, Return
    <2>4. QED
      BY <2>1, <2>2, <2>3
  <1>9. ASSUME NEW n \in Names, current'[n] # 0
        PROVE  CurrentAt(n)'
    <2>1. CASE n # k
      <3>1. CurrentAt(n) /\ current'[n] = current[n]
        BY <1>i, <1>8, <1>t, <2>1, <1>k DEF CurrentOK
      <3>2. QED
        BY <1>2, <1>4, <1>5, <1>9, <1>k, <2>1, <3>1 DEF CurrentAt, ChainSays, Live
    <2>2. CASE n = k
      <3>1. /\ call[h].solo /\ current'[k] = v /\ v # 0 /\ at'[h] = "idle"
            /\ \/ UpsertClientAPIKey(h)
               \/ SaveConfig(h) /\ at[h] = "config" /\ stateFile' = keys' /\ keys' = keys
        BY <1>8, <1>9, <1>k, <1>t, <2>2
      <3>2. SoloAt(h)
        BY <1>i DEF SoloOK
      <3>3. data[k] = v /\ FilesSay(k, v) /\ ChainSays(k, v)
        BY <3>1, <3>2, <1>a DEF SoloAt, Wrote, Done
      <3>4. keys'[k] = "enabled" /\ stateFile' = keys'
        BY <1>5, <1>k, <3>1, <3>2 DEF SoloAt
      <3>5. \A g \in Handlers : ~Busy(g, n)'
        <4>1. ~Busy(h, n)'
          BY <3>1 DEF Busy
        <4>2. \A g \in Handlers : g # h => ~Busy(g, n)
          BY <1>k, <2>2, <3>1
        <4>3. QED
          BY <1>4, <4>1, <4>2
      <3>6. ChainSays(n, current[n])'
        BY <1>2, <2>2, <3>1, <3>3 DEF ChainSays
      <3>7. QED
        BY <1>2, <2>2, <3>1, <3>3, <3>4, <3>5, <3>6 DEF CurrentAt, FilesSay
    <2>3. QED
      BY <2>1, <2>2
  <1>10. QED
    BY <1>6, <1>7, <1>9 DEF SoloOK, CurrentOK, CurrentAt

\* Rekey, lost keychains, requests and stops leave every claim as it is.
LEMMA OthersCurrent ==
  ASSUME Inv,
         \/ LoseKeychain \/ TouchClientAPIKey \/ Stop \/ UNCHANGED vars
         \/ \E h \in Handlers : BeginRekey(h) \/ EndRekey(h)
  PROVE  SoloOK' /\ CurrentOK'
  <1>t. at \in [Handlers -> Points] /\ call \in [Handlers -> Calls] /\ KeysOK
    BY DEF Inv, TypeOK
  <1>i. SoloOK /\ CurrentOK
    BY DEF Inv
  <1>1. UNCHANGED <<legacy, chain, stale, current>>
    BY DEF LoseKeychain, TouchClientAPIKey, Stop, vars, BeginRekey, EndRekey, Close,
       KeychainUnavailable, RekeyRenameKey, RekeyRenameFile, RekeyRollback,
       secretVars, disks, memory, history
  <1>2. \A g \in Handlers :
          \/ at'[g] \in {"idle", "rename"}
          \/ at'[g] = at[g] /\ call'[g] = call[g] /\ data' = data /\ keys' = keys
    <2>1. CASE LoseKeychain \/ TouchClientAPIKey \/ UNCHANGED vars
      BY <2>1 DEF LoseKeychain, TouchClientAPIKey, vars, KeychainUnavailable,
         secretVars, memory, local
    <2>2. CASE Stop
      BY <2>2 DEF Stop
    <2>3. CASE \E h \in Handlers : BeginRekey(h) \/ EndRekey(h)
      BY <2>3, <1>t DEF BeginRekey, EndRekey, Return, RekeyRenameKey, RekeyRenameFile,
         RekeyRollback
    <2>4. QED
      BY <2>1, <2>2, <2>3
  <1>3. \/ encFile' = encFile
        \/ /\ encFile'.key # 0 /\ encFile'.data = data /\ data' = data /\ Live
        \/ encFile.key # 0 /\ encFile'.key = Truncated /\ Truncated # 0
    <2>1. CASE \E h \in Handlers : EndRekey(h) /\ RekeyRenameFile
      BY <2>1, <1>t DEF RekeyRenameFile, KeysOK, Live
    <2>2. CASE LoseKeychain \/ TouchClientAPIKey \/ Stop \/ UNCHANGED vars
      BY <2>2 DEF LoseKeychain, TouchClientAPIKey, Stop, vars, Close,
         KeychainUnavailable, secretVars, disks
    <2>3. CASE \E h \in Handlers : BeginRekey(h) \/ (EndRekey(h) /\ RekeyRollback)
      <3>1. Truncated # 0
        BY DEF Truncated
      <3>2. CASE \E h \in Handlers : BeginRekey(h)
        BY <3>2 DEF BeginRekey, RekeyRenameKey
      <3>3. CASE RekeyRollback
        BY <3>1, <3>3 DEF RekeyRollback
      <3>4. QED
        BY <2>3, <3>2, <3>3
    <2>4. QED
      BY <2>1, <2>2, <2>3 DEF EndRekey
  <1>4. /\ keys' \in {keys, stateFile}
        /\ stateFile' \in {keys, stateFile}
        /\ stage' = "closed" \/ (stage' = stage /\ data' = data)
    BY DEF LoseKeychain, TouchClientAPIKey, Stop, vars, BeginRekey, EndRekey, Close,
       KeychainUnavailable, RekeyRenameKey, RekeyRenameFile, RekeyRollback,
       secretVars, memory
  <1>5. \A g \in Handlers, n \in Names : Busy(g, n)' => Busy(g, n)
    BY <1>2 DEF Busy
  <1>6. ASSUME NEW g \in Handlers
        PROVE  SoloAt(g)'
    <2>1. CASE at'[g] \in {"idle", "rename"}
      BY <2>1 DEF SoloAt, Busy, Wrote, Done
    <2>2. CASE at'[g] \notin {"idle", "rename"}
      <3>1. SoloAt(g) /\ call[g].id \in Names
        BY <1>i, <1>t DEF SoloOK, Calls
      <3>2. QED
        BY <1>1, <1>2, <1>3, <1>5, <2>2, <3>1
           DEF SoloAt, Wrote, Done, FilesSay, ChainSays
    <2>3. QED
      BY <2>1, <2>2
  <1>7. ASSUME NEW n \in Names
        PROVE  CurrentAt(n)'
    <2>1. CurrentAt(n)
      BY <1>i DEF CurrentOK
    <2>2. QED
      BY <1>1, <1>3, <1>4, <1>5, <2>1 DEF CurrentAt, ChainSays, Live
  <1>8. QED
    BY <1>6, <1>7 DEF SoloOK, CurrentOK

\* Every action keeps what clients may count on.
LEMMA NextCurrent == Inv /\ [Next]_vars => SoloOK' /\ CurrentOK'
  <1> SUFFICES ASSUME Inv, [Next]_vars PROVE SoloOK' /\ CurrentOK'
    OBVIOUS
  <1>1. CASE Opening
    BY <1>1, NextKeys, OpeningCurrent DEF Inv
  <1>2. ASSUME NEW h \in Handlers, EnsureDefaultClientKey(h)
        PROVE  SoloOK' /\ CurrentOK'
    <2>1. CASE Begin(h, "ensure", Default, Undisclosed)
      BY <2>1, BeginCurrent, DefaultAssumption
    <2>2. CASE UNCHANGED <<secretVars, keys, stateFile, local, history, nextToken>>
      <3>1. UNCHANGED <<encFile, legacy, chain, stage, data, keys, stateFile, at, call,
                        current, stale>>
        BY <2>2 DEF secretVars, disks, memory, local, history
      <3>2. \A g \in Handlers : SoloAt(g)'
        BY <3>1 DEF Inv, SoloOK, SoloAt, Busy, Wrote, Done, FilesSay, ChainSays
      <3>3. \A n \in Names : CurrentAt(n)'
        BY <3>1 DEF Inv, CurrentOK, CurrentAt, Busy, ChainSays, Live
      <3>4. QED
        BY <3>2, <3>3 DEF SoloOK, CurrentOK
    <2>3. QED
      BY <1>2, <2>1, <2>2 DEF EnsureDefaultClientKey
  <1>3. ASSUME NEW h \in Handlers, NEW k \in Names,
               \/ CreateClientAPIKey(h, k)
               \/ RotateClientAPIKey(h, k)
               \/ RevokeClientAPIKey(h, k)
        PROVE  SoloOK' /\ CurrentOK'
    BY <1>3, BeginCurrent DEF CreateClientAPIKey, RotateClientAPIKey, RevokeClientAPIKey
  <1>4. QED
    BY <1>1, <1>2, <1>3, WriteCurrent, EntryCurrent, OthersCurrent DEF Next

\* A handler begins with a token that nobody has: the next one drawn, none
\* at all, or, when no other handler runs, the one shown to nobody.
LEMMA BeginFresh ==
  ASSUME Inv, NEW h \in Handlers, NEW o, NEW k \in Names, NEW t, Begin(h, o, k, t),
         \/ o = "ensure" /\ t = Undisclosed /\ nextToken' = nextToken
            /\ \A g \in Handlers : at[g] = "idle"
         \/ o # "ensure" /\ serving /\ t = 0 /\ nextToken' = nextToken
         \/ o # "ensure" /\ serving /\ t = nextToken /\ nextToken' = nextToken + 1
  PROVE  FreshOK'
  <1>t. /\ at \in [Handlers -> Points] /\ call \in [Handlers -> Calls]
        /\ nextToken \in Nat /\ nextToken >= 2 /\ nextToken <= MaxToken + 1
        /\ \A g \in Handlers : call[g].tok \in Nat
        /\ \A n \in Names : issued[n] \in SUBSET Secrets
    BY SecretBounds DEF Inv, TypeOK, Calls, Secrets
  <1>i. FreshOK /\ PhaseOK
    BY DEF Inv
  <1>1. issued' = issued /\ nextToken <= nextToken' /\ nextToken' \in Nat
    BY <1>t DEF Begin
  <1>2. at'[h] = "secret" /\ call'[h].op = o /\ call'[h].tok = t
    BY <1>t DEF Begin
  <1>3. ASSUME NEW g \in Handlers, g # h
        PROVE  at'[g] = at[g] /\ call'[g].op = call[g].op /\ call'[g].tok = call[g].tok
    <2>1. call[g] \in Calls
      BY <1>t, <1>3
    <2>2. call'[g] = IF Busy(g, k) THEN [call[g] EXCEPT !.solo = FALSE] ELSE call[g]
      BY <1>3 DEF Begin
    <2>3. at'[g] = at[g]
      BY <1>t, <1>3 DEF Begin
    <2>4. QED
      BY <2>1, <2>2, <2>3 DEF Calls
  <1>4. \A n \in Names, u \in Secrets : u \in issued'[n] => u # 0 /\ u < nextToken'
    BY <1>1, <1>i, <1>t DEF FreshOK, Secrets
  <1>5. ASSUME t # 0, NEW n \in Names
        PROVE  t \notin issued[n]
    <2>1. SUFFICES ASSUME t \in issued[n] PROVE FALSE
      OBVIOUS
    <2>2. t \in Secrets /\ t < nextToken
      BY <2>1, <1>i, <1>t, <1>5 DEF FreshOK
    <2>3. t >= nextToken
      BY <1>5, <1>t, SecretBounds DEF Undisclosed
    <2>4. QED
      BY <2>2, <2>3, <1>t DEF Secrets
  <1>6. ASSUME NEW g \in Handlers, g # h, Flying(g)
        PROVE  call[g].op # "ensure" /\ call[g].tok < nextToken /\ o # "ensure"
    <2>1. at[g] # "idle" /\ at[g] # "rename"
      BY <1>6 DEF Flying
    <2>2. serving /\ o # "ensure"
      BY <2>1
    <2>3. QED
      BY <2>1, <2>2, <1>6, <1>i DEF PhaseOK, FreshOK, FreshAt
  <1>7. FreshAt(h)'
    <2>1. t = Undisclosed \/ t < nextToken'
      BY <1>t, <1>2
    <2>2. o # "ensure" => t < nextToken'
      BY <1>t
    <2>3. o = "ensure" => t = Undisclosed
      OBVIOUS
    <2>4. ASSUME t # 0, NEW g \in Handlers, g # h, Flying(g)'
          PROVE  call'[g].tok # t
      <3>1. Flying(g)
        BY <1>3, <2>4 DEF Flying
      <3>2. t = nextToken /\ call[g].tok < nextToken
        BY <1>6, <2>4, <3>1
      <3>3. QED
        BY <1>3, <1>t, <2>4, <3>2
    <2>5. QED
      BY <1>1, <1>2, <1>5, <2>2, <2>3, <2>4 DEF FreshAt
  <1>8. ASSUME NEW g \in Handlers, g # h, Flying(g)'
        PROVE  FreshAt(g)'
    <2>1. Flying(g) /\ FreshAt(g)
      BY <1>3, <1>8, <1>i DEF Flying, FreshOK
    <2>2. call[g].op # "ensure" /\ call[g].tok < nextToken /\ o # "ensure"
      BY <1>6, <1>8, <2>1
    <2>3. call[g].tok < nextToken'
      BY <1>1, <1>t, <2>2
    <2>4. call[g].tok # 0 => t # call[g].tok
      BY <1>t, <2>2
    <2>5. \A f \in Handlers : f # h /\ f # g /\ Flying(f)' /\ call[g].tok # 0
                              => call'[f].tok # call[g].tok
      <3>1. \A f \in Handlers : f # h => (Flying(f)' <=> Flying(f)) /\ call'[f].tok = call[f].tok
        BY <1>3 DEF Flying
      <3>2. QED
        BY <2>1, <3>1 DEF FreshAt
    <2>6. QED
      BY <1>1, <1>2, <1>3, <1>8, <2>1, <2>2, <2>3, <2>4, <2>5 DEF FreshAt
  <1>9. QED
    BY <1>4, <1>7, <1>8 DEF FreshOK, FreshAt

\* A token leaves the flight when it is handed out: no other handler has it.
LEMMA AnswerFresh ==
  ASSUME Inv, NEW h \in Handlers, Flying(h), call[h].op # "ensure",
         Answer(h), Return(h), nextToken' = nextToken
  PROVE  FreshOK'
  <1>t. /\ at \in [Handlers -> Points] /\ call \in [Handlers -> Calls]
        /\ issued \in [Names -> SUBSET Secrets]
        /\ call[h].id \in Names
    BY DEF Inv, TypeOK, Calls
  <1>i. FreshOK
    BY DEF Inv
  <1>1. /\ at'[h] = "idle"
        /\ \A g \in Handlers : g # h => at'[g] = at[g] /\ call'[g] = call[g]
    BY <1>t DEF Return
  <1>2. \A n \in Names, u \in Secrets :
          u \in issued'[n] => u \in issued[n] \/ (u = call[h].tok /\ u # 0)
    BY <1>t DEF Answer
  <1>3. call[h].tok < nextToken
    BY <1>i DEF FreshOK, FreshAt
  <1>4. \A n \in Names, u \in Secrets : u \in issued'[n] => u # 0 /\ u < nextToken'
    BY <1>2, <1>3, <1>i DEF FreshOK
  <1>5. ASSUME NEW g \in Handlers, Flying(g)'
        PROVE  FreshAt(g)'
    <2>1. g # h /\ Flying(g) /\ FreshAt(g) /\ call'[g] = call[g]
      BY <1>1, <1>5, <1>i DEF Flying, FreshOK
    <2>2. call[g].tok \in Secrets
      BY <1>t DEF Calls
    <2>3. ASSUME call[g].tok # 0, NEW n \in Names
          PROVE  call[g].tok \notin issued'[n]
      <3>1. call[g].tok \notin issued[n] /\ call[h].tok # call[g].tok
        BY <2>1, <2>3 DEF FreshAt
      <3>2. QED
        BY <1>2, <2>2, <3>1
    <2>4. \A f \in Handlers : Flying(f)' => Flying(f) /\ call'[f] = call[f]
      BY <1>1 DEF Flying
    <2>5. QED
      BY <2>1, <2>3, <2>4 DEF FreshAt
  <1>6. QED
    BY <1>4, <1>5 DEF FreshOK, FreshAt

\* Every action keeps tokens in flight and tokens handed out apart.
LEMMA NextFresh == Inv /\ [Next]_vars => FreshOK'
  <1> SUFFICES ASSUME Inv, [Next]_vars PROVE FreshOK'
    OBVIOUS
  <1>t. at \in [Handlers -> Points] /\ call \in [Handlers -> Calls] /\ FreshOK
    BY DEF Inv, TypeOK
  <1>1. ASSUME UNCHANGED <<issued, nextToken>>,
               \A g \in Handlers : \/ at'[g] \in {"idle", "rename"}
                                   \/ Flying(g) /\ call'[g] = call[g]
        PROVE  FreshOK'
    <2>1. ASSUME NEW g \in Handlers, Flying(g)'
          PROVE  FreshAt(g)'
      <3>1. \A f \in Handlers : Flying(f)' => Flying(f) /\ call'[f] = call[f]
        BY <1>1 DEF Flying
      <3>2. FreshAt(g)
        BY <1>t DEF FreshOK
      <3>3. QED
        BY <1>1, <2>1, <3>1, <3>2 DEF FreshAt
    <2>2. QED
      BY <1>1, <1>t, <2>1 DEF FreshOK, FreshAt
  <1>2. ASSUME NEW h \in Handlers, EnsureDefaultClientKey(h)
        PROVE  FreshOK'
    <2>1. CASE Begin(h, "ensure", Default, Undisclosed) /\ UNCHANGED nextToken
      BY <1>2, <2>1, BeginFresh, DefaultAssumption DEF EnsureDefaultClientKey
    <2>2. CASE UNCHANGED <<secretVars, keys, stateFile, local, history, nextToken>>
      BY <1>1, <2>2 DEF local, history, Flying
    <2>3. QED
      BY <1>2, <2>1, <2>2 DEF EnsureDefaultClientKey
  <1>3. ASSUME NEW h \in Handlers, NEW k \in Names,
               \/ CreateClientAPIKey(h, k)
               \/ RotateClientAPIKey(h, k)
               \/ RevokeClientAPIKey(h, k)
        PROVE  FreshOK'
    BY <1>3, BeginFresh DEF CreateClientAPIKey, RotateClientAPIKey, RevokeClientAPIKey,
       DrawToken
  <1>4. ASSUME NEW h \in Handlers, UpsertClientAPIKey(h)
        PROVE  FreshOK'
    <2>1. CASE call[h].op \in {"rotate", "revoke"}
      BY <1>4, <2>1, AnswerFresh DEF UpsertClientAPIKey, Flying
    <2>2. CASE call[h].op \notin {"rotate", "revoke"}
      <3>1. UNCHANGED <<issued, nextToken>>
        BY <1>4, <2>2 DEF UpsertClientAPIKey, NoAnswer
      <3>2. \A g \in Handlers : at'[g] = "idle" \/ (Flying(g) /\ call'[g] = call[g])
                                \/ at'[g] = "rename"
        BY <1>4, <1>t DEF UpsertClientAPIKey, Goto, Return, Flying
      <3>3. QED
        BY <1>1, <3>1, <3>2
    <2>3. QED
      BY <2>1, <2>2
  <1>5. ASSUME NEW h \in Handlers, SaveConfig(h)
        PROVE  FreshOK'
    <2>1. CASE Answer(h)
      <3>1. call[h].op = "create" /\ Flying(h)
        BY <1>5 DEF SaveConfig, Inv, SoloOK, SoloAt, Flying
      <3>2. QED
        BY <1>5, <2>1, <3>1, AnswerFresh DEF SaveConfig
    <2>2. CASE NoAnswer
      <3>1. \A g \in Handlers : at'[g] = "idle" \/ (Flying(g) /\ call'[g] = call[g])
                                \/ at'[g] = "rename"
        BY <1>5, <1>t DEF SaveConfig, Return, Flying
      <3>2. QED
        BY <1>1, <1>5, <2>2, <3>1 DEF SaveConfig, NoAnswer
    <2>3. QED
      BY <1>5, <2>1, <2>2 DEF SaveConfig
  <1>6. ASSUME NEW h \in Handlers,
               \/ SaveSecret(h) \/ SaveSecretFails(h) \/ SaveKeychain(h)
               \/ UpsertFails(h) \/ BeginRekey(h) \/ EndRekey(h)
        PROVE  FreshOK'
    <2>1. UNCHANGED <<issued, nextToken>>
      BY <1>6 DEF SaveSecret, SaveSecretFails, SaveKeychain, UpsertFails, BeginRekey,
         EndRekey, history
    <2>2. \A g \in Handlers : at'[g] \in {"idle", "rename"} \/ (Flying(g) /\ call'[g] = call[g])
      BY <1>6, <1>t DEF SaveSecret, SaveSecretFails, SaveKeychain, UpsertFails, BeginRekey,
         EndRekey, Goto, GiveUp, Return, Flying
    <2>3. QED
      BY <1>1, <2>1, <2>2
  <1>7. CASE Opening \/ LoseKeychain \/ TouchClientAPIKey \/ UNCHANGED vars
    BY <1>1, <1>7 DEF Opening, LoseKeychain, TouchClientAPIKey, vars, local, history, Flying
  <1>8. CASE Stop
    BY <1>1, <1>8 DEF Stop, history
  <1>9. QED
    BY <1>2, <1>3, <1>4, <1>5, <1>6, <1>7, <1>8 DEF Next

\* What a handler is about to write is no token that was handed out.
LEMMA InFlight ==
  ASSUME Inv, NEW h \in Handlers, Flying(h), NEW k \in Names, NEW t \in Secrets,
         t \in issued[k]
  PROVE  t # call[h].tok /\ t # 0
  BY DEF Inv, FreshOK, FreshAt

\* A token that was handed out and is gone from the fallback stays away:
\* writes bring new tokens, Rekey and restarts bring back what was saved.
LEMMA GoneKept ==
  ASSUME Inv, [Next]_vars, NEW k \in Names, NEW t \in Secrets, t \in issued[k], Gone(k, t)
  PROVE  Gone(k, t)'
  <1>t. data \in [Names -> Secrets] /\ KeysOK /\ PhaseOK
    BY DEF Inv, TypeOK, SecretsTypeOK, Contents
  <1>1. CASE Opening
    <2>1. CASE Open
      <3>1. PICK q \in Keys : Load(q)
        BY <2>1 DEF Open
      <3>2. QED
        BY <3>1 DEF Load, Gone
    <2>2. CASE OpenFails \/ RemoveLegacy \/ MigrateFallbackToOSKeychain
      BY <2>2 DEF OpenFails, RemoveLegacy, MigrateFallbackToOSKeychain, memory, disks,
         Gone, Live
    <2>3. QED
      BY <1>1, <2>1, <2>2 DEF Opening
  <1>2. ASSUME NEW h \in Handlers, SaveSecret(h) \/ SaveSecretFails(h)
        PROVE  Gone(k, t)'
    <2>1. Flying(h) /\ stage = "open"
      BY <1>2, <1>t DEF SaveSecret, SaveSecretFails, Flying, PhaseOK
    <2>2. t # call[h].tok /\ t # 0 /\ key # 0
      BY <2>1, <1>t, InFlight DEF KeysOK, Live
    <2>3. PICK ok \in BOOLEAN : Write(call[h].id, call[h].tok, ok)
      BY <1>2 DEF SaveSecret, SaveSecretFails
    <2>4. data'[k] # t
      BY <1>t, <2>1, <2>2, <2>3 DEF Write, Gone, Live
    <2>5. encFile' = encFile \/ (encFile'.key # 0 /\ encFile'.data = data')
      BY <2>2, <2>3 DEF Write
    <2>6. QED
      BY <2>2, <2>4, <2>5 DEF Gone
  <1>3. ASSUME NEW h \in Handlers, EndRekey(h)
        PROVE  Gone(k, t)'
    <2>1. CASE RekeyRenameFile
      BY <2>1, <1>t DEF RekeyRenameFile, Gone, KeysOK, Live
    <2>2. CASE RekeyRollback
      BY <2>2 DEF RekeyRollback, Gone, Live, Truncated, NoSecrets
    <2>3. QED
      BY <1>3, <2>1, <2>2 DEF EndRekey
  <1>4. ASSUME UNCHANGED encFile, stage' = "closed" \/ UNCHANGED <<stage, data>>
        PROVE  Gone(k, t)'
    BY <1>4 DEF Gone, Live
  <1>5. CASE LoseKeychain \/ TouchClientAPIKey \/ Stop \/ UNCHANGED vars
    BY <1>4, <1>5 DEF LoseKeychain, TouchClientAPIKey, Stop, Close, vars,
       KeychainUnavailable, secretVars, disks, memory
  <1>6. ASSUME NEW h \in Handlers,
               \/ BeginRekey(h) \/ SaveKeychain(h) \/ UpsertClientAPIKey(h)
               \/ UpsertFails(h) \/ SaveConfig(h)
        PROVE  Gone(k, t)'
    BY <1>4, <1>6 DEF BeginRekey, RekeyRenameKey, SaveKeychain, WriteKeychain,
       UpsertClientAPIKey, UpsertFails, GiveUp, SaveConfig, secretVars, disks, memory
  <1>7. ASSUME NEW h \in Handlers, NEW o, NEW n, NEW v, Begin(h, o, n, v)
        PROVE  Gone(k, t)'
    BY <1>4, <1>7 DEF Begin, secretVars, disks, memory
  <1>8. ASSUME NEW h \in Handlers, EnsureDefaultClientKey(h)
        PROVE  Gone(k, t)'
    <2>1. CASE Begin(h, "ensure", Default, Undisclosed)
      BY <1>7, <2>1
    <2>2. CASE UNCHANGED secretVars
      BY <1>4, <2>2 DEF secretVars, disks, memory
    <2>3. QED
      BY <1>8, <2>1, <2>2 DEF EnsureDefaultClientKey
  <1>9. QED
    BY <1>1, <1>2, <1>3, <1>5, <1>6, <1>7, <1>8
       DEF Next, CreateClientAPIKey, RotateClientAPIKey, RevokeClientAPIKey

\* It stays away from the keychain as well, unless the keychain misses a write.
LEMMA ChainKept ==
  ASSUME Inv, [Next]_vars, NEW k \in Names, NEW t \in Secrets, t \in issued[k],
         Gone(k, t), ChainGone(k, t)
  PROVE  ChainGone(k, t)'
  <1>t. chain \in [Names -> Secrets] /\ data \in [Names -> Secrets] /\ t # 0
    BY DEF Inv, TypeOK, SecretsTypeOK, Contents, Gone
  <1>1. ASSUME UNCHANGED chain, stale \subseteq stale' PROVE ChainGone(k, t)'
    BY <1>1 DEF ChainGone
  <1>2. CASE Opening
    <2>1. CASE Open \/ OpenFails \/ RemoveLegacy
      BY <1>1, <1>2, <2>1 DEF Opening, history, Open, OpenFails, RemoveLegacy
    <2>2. CASE MigrateFallbackToOSKeychain
      <3>1. data[k] # t
        BY <2>2 DEF MigrateFallbackToOSKeychain, Gone, Live
      <3>2. chain'[k] \in {chain[k], data[k]}
        BY <2>2, <1>t DEF MigrateFallbackToOSKeychain
      <3>3. stale' = stale
        BY <1>2 DEF Opening, history
      <3>4. QED
        BY <3>1, <3>2, <3>3 DEF ChainGone
    <2>3. QED
      BY <1>2, <2>1, <2>2 DEF Opening
  <1>3. ASSUME NEW h \in Handlers, SaveKeychain(h)
        PROVE  ChainGone(k, t)'
    <2>1. t # call[h].tok
      BY <1>3, InFlight DEF SaveKeychain, Flying
    <2>2. QED
      BY <1>3, <1>t, <2>1 DEF SaveKeychain, WriteKeychain, ChainGone
  <1>4. ASSUME NEW h \in Handlers, SaveSecret(h) \/ SaveSecretFails(h)
        PROVE  ChainGone(k, t)'
    BY <1>1, <1>4 DEF SaveSecret, SaveSecretFails, Write, history
  <1>5. CASE LoseKeychain \/ TouchClientAPIKey \/ Stop \/ UNCHANGED vars
    BY <1>1, <1>5 DEF LoseKeychain, TouchClientAPIKey, Stop, Close, vars,
       KeychainUnavailable, secretVars, history
  <1>6. ASSUME NEW h \in Handlers,
               \/ BeginRekey(h) \/ EndRekey(h) \/ UpsertClientAPIKey(h)
               \/ UpsertFails(h) \/ SaveConfig(h)
        PROVE  ChainGone(k, t)'
    BY <1>1, <1>6 DEF BeginRekey, RekeyRenameKey, EndRekey, RekeyRenameFile, RekeyRollback,
       UpsertClientAPIKey, UpsertFails, SaveConfig, secretVars, history
  <1>7. ASSUME NEW h \in Handlers, NEW o, NEW n, NEW v, Begin(h, o, n, v)
        PROVE  ChainGone(k, t)'
    BY <1>1, <1>7 DEF Begin, secretVars
  <1>8. ASSUME NEW h \in Handlers, EnsureDefaultClientKey(h)
        PROVE  ChainGone(k, t)'
    <2>1. CASE Begin(h, "ensure", Default, Undisclosed)
      BY <1>7, <2>1
    <2>2. CASE UNCHANGED <<secretVars, keys, stateFile, local, history, nextToken>>
      BY <1>1, <2>2 DEF secretVars, history
    <2>3. QED
      BY <1>8, <2>1, <2>2 DEF EnsureDefaultClientKey
  <1>9. QED
    BY <1>2, <1>3, <1>4, <1>5, <1>6, <1>7, <1>8
       DEF Next, CreateClientAPIKey, RotateClientAPIKey, RevokeClientAPIKey

\* What the handlers and the answers do to the tokens handed out and retired.
LEMMA Recorded ==
  ASSUME Inv, [Next]_vars
  PROVE  /\ \A k \in Names : issued[k] \subseteq issued'[k]
         /\ \A k \in Names, t \in Secrets : t \in retired'[k] =>
              \/ t \in retired[k]
              \/ \E h \in Handlers : Done(h) /\ call[h].id = k /\ t \in call[h].before
         /\ \A h \in Handlers :
              \/ call'[h] = NoCall
              \/ at'[h] = "secret" /\ call'[h].before = issued[call'[h].id]
                 /\ call'[h].id \in Names
              \/ /\ call'[h].id = call[h].id /\ call'[h].before = call[h].before
                 /\ at'[h] = at[h] \/ SaveSecret(h) \/ SaveKeychain(h)
                    \/ (UpsertClientAPIKey(h) /\ at'[h] = "config")
                    \/ (BeginRekey(h) /\ at'[h] = "rename")
  <1>t. /\ issued \in [Names -> SUBSET Secrets] /\ retired \in [Names -> SUBSET Secrets]
        /\ at \in [Handlers -> Points] /\ call \in [Handlers -> Calls]
        /\ \A h \in Handlers : call[h].id \in Names
    BY DEF Inv, TypeOK, Calls
  <1> DEFINE Kept == UNCHANGED <<issued, retired>>
             Same(g) == at'[g] = at[g] /\ call'[g] = call[g]
  <1>1. ASSUME NEW h \in Handlers, Answer(h), Done(h)
        PROVE  /\ \A k \in Names : issued[k] \subseteq issued'[k]
               /\ \A k \in Names, t \in Secrets : t \in retired'[k] =>
                    t \in retired[k] \/ (call[h].id = k /\ t \in call[h].before)
    BY <1>1, <1>t DEF Answer
  <1>2. ASSUME NEW h \in Handlers, Return(h)
        PROVE  call'[h] = NoCall /\ \A g \in Handlers : g # h => Same(g)
    BY <1>2, <1>t DEF Return
  <1>3. ASSUME NEW h \in Handlers, NEW q, Goto(h, q)
        PROVE  /\ at'[h] = q /\ call'[h] = call[h]
               /\ \A g \in Handlers : g # h => Same(g)
    BY <1>3, <1>t DEF Goto
  <1>4. ASSUME NEW h \in Handlers, NEW o, NEW n \in Names, NEW v, Begin(h, o, n, v)
        PROVE  /\ Kept /\ at'[h] = "secret" /\ call'[h].id = n
               /\ call'[h].before = issued[n]
               /\ \A g \in Handlers : g # h =>
                    /\ at'[g] = at[g] /\ call'[g].id = call[g].id
                    /\ call'[g].before = call[g].before
    <2>1. Kept /\ at'[h] = "secret" /\ call'[h].id = n /\ call'[h].before = issued[n]
      BY <1>4, <1>t DEF Begin
    <2>2. ASSUME NEW g \in Handlers, g # h
          PROVE  /\ at'[g] = at[g] /\ call'[g].id = call[g].id
                 /\ call'[g].before = call[g].before
      <3>1. call[g] \in Calls /\ at'[g] = at[g]
        BY <1>4, <1>t, <2>2 DEF Begin
      <3>2. call'[g] = IF Busy(g, n) THEN [call[g] EXCEPT !.solo = FALSE] ELSE call[g]
        BY <1>4, <2>2 DEF Begin
      <3>3. QED
        BY <3>1, <3>2 DEF Calls
    <2>3. QED
      BY <2>1, <2>2
  <1>5. ASSUME NEW h \in Handlers, EnsureDefaultClientKey(h)
        PROVE  \/ Begin(h, "ensure", Default, Undisclosed)
               \/ Kept /\ \A g \in Handlers : Same(g)
    BY <1>5 DEF EnsureDefaultClientKey, local, history
  <1>6. CASE Opening \/ LoseKeychain \/ TouchClientAPIKey \/ UNCHANGED vars
    <2>1. Kept /\ \A g \in Handlers : Same(g)
      BY <1>6 DEF Opening, LoseKeychain, TouchClientAPIKey, vars, local, history
    <2>2. QED
      BY <2>1
  <1>7. CASE Stop
    <2>1. Kept /\ \A g \in Handlers : call'[g] = NoCall
      BY <1>7 DEF Stop, history
    <2>2. QED
      BY <2>1
  <1>8. CASE \E h \in Handlers : EnsureDefaultClientKey(h)
    BY <1>4, <1>5, <1>8, DefaultAssumption
  <1>9. CASE \E h \in Handlers, k \in Names :
               \/ CreateClientAPIKey(h, k)
               \/ RotateClientAPIKey(h, k)
               \/ RevokeClientAPIKey(h, k)
    BY <1>4, <1>9 DEF CreateClientAPIKey, RotateClientAPIKey, RevokeClientAPIKey
  <1>10. CASE \E h \in Handlers : SaveSecret(h) \/ SaveKeychain(h)
    <2>1. PICK h \in Handlers : SaveSecret(h) \/ SaveKeychain(h)
      BY <1>10
    <2>2. Kept /\ call'[h] = call[h] /\ \A g \in Handlers : g # h => Same(g)
      BY <1>3, <2>1 DEF SaveSecret, SaveKeychain
    <2>3. QED
      BY <2>1, <2>2
  <1>11. CASE \E h \in Handlers : SaveSecretFails(h) \/ UpsertFails(h) \/ EndRekey(h)
    <2>1. PICK h \in Handlers : SaveSecretFails(h) \/ UpsertFails(h) \/ EndRekey(h)
      BY <1>11
    <2>2. Kept /\ Return(h)
      BY <2>1 DEF SaveSecretFails, UpsertFails, EndRekey, GiveUp, history
    <2>3. QED
      BY <1>2, <2>2
  <1>12. CASE \E h \in Handlers : BeginRekey(h)
    <2>1. PICK h \in Handlers : BeginRekey(h)
      BY <1>12
    <2>2. Kept /\ call' = call /\ at'[h] = "rename" /\ \A g \in Handlers : g # h => Same(g)
      BY <2>1, <1>t DEF BeginRekey, history
    <2>3. QED
      BY <2>1, <2>2
  <1>13. CASE \E h \in Handlers : UpsertClientAPIKey(h)
    <2>1. PICK h \in Handlers : UpsertClientAPIKey(h)
      BY <1>13
    <2>2. Kept \/ (Answer(h) /\ Done(h))
      BY <2>1 DEF UpsertClientAPIKey, NoAnswer, Done
    <2>3. Return(h) \/ Goto(h, "config")
      BY <2>1 DEF UpsertClientAPIKey
    <2>4. /\ \A k \in Names : issued[k] \subseteq issued'[k]
          /\ \A k \in Names, t \in Secrets : t \in retired'[k] =>
               \/ t \in retired[k]
               \/ Done(h) /\ call[h].id = k /\ t \in call[h].before
      BY <1>1, <2>2
    <2>5. QED
      BY <1>2, <1>3, <2>1, <2>3, <2>4
  <1>14. CASE \E h \in Handlers : SaveConfig(h)
    <2>1. PICK h \in Handlers : SaveConfig(h)
      BY <1>14
    <2>2. Kept \/ (Answer(h) /\ Done(h))
      BY <2>1 DEF SaveConfig, NoAnswer, Done
    <2>3. Return(h)
      BY <2>1 DEF SaveConfig
    <2>4. /\ \A k \in Names : issued[k] \subseteq issued'[k]
          /\ \A k \in Names, t \in Secrets : t \in retired'[k] =>
               \/ t \in retired[k]
               \/ Done(h) /\ call[h].id = k /\ t \in call[h].before
      BY <1>1, <2>2
    <2>5. QED
      BY <1>2, <2>3, <2>4
  <1>15. QED
    BY <1>6, <1>7, <1>8, <1>9, <1>10, <1>11, <1>12, <1>13, <1>14 DEF Next

\* Every action keeps retired tokens away.
LEMMA NextRetired == Inv /\ [Next]_vars => RetiredOK'
  <1> SUFFICES ASSUME Inv, [Next]_vars PROVE RetiredOK'
    OBVIOUS
  <1>t. /\ at \in [Handlers -> Points] /\ chain \in [Names -> Secrets]
        /\ data \in [Names -> Secrets] /\ active \in {"file", "keychain"}
        /\ \A h \in Handlers : call[h].id \in Names
    BY DEF Inv, TypeOK, SecretsTypeOK, Contents, Calls
  <1>i. RetiredOK
    BY DEF Inv
  <1>1. ASSUME NEW k \in Names
        PROVE  RetiredAt(k)'
    <2>1. SUFFICES ASSUME NEW t \in Secrets, t \in retired'[k]
                   PROVE  t \in issued'[k] /\ Gone(k, t)' /\ ChainGone(k, t)'
      BY DEF RetiredAt
    <2>2. t \in issued[k] /\ Gone(k, t) /\ ChainGone(k, t)
      <3>1. CASE t \in retired[k]
        BY <3>1, <1>i DEF RetiredOK, RetiredAt
      <3>2. CASE \E h \in Handlers : Done(h) /\ call[h].id = k /\ t \in call[h].before
        BY <3>2, <1>i DEF RetiredOK, BeforeAt, Done, Wrote
      <3>3. QED
        BY <2>1, <3>1, <3>2, Recorded
    <2>3. QED
      BY <2>2, GoneKept, ChainKept, Recorded
  <1>2. ASSUME NEW h \in Handlers
        PROVE  BeforeAt(h)'
    <2>1. CASE call'[h] = NoCall
      BY <2>1 DEF BeforeAt, NoCall
    <2>2. CASE /\ at'[h] = "secret" /\ call'[h].before = issued[call'[h].id]
               /\ call'[h].id \in Names
      BY <2>2, Recorded DEF BeforeAt, Wrote, Done
    <2>3. CASE /\ call'[h].id = call[h].id /\ call'[h].before = call[h].before
               /\ at'[h] = at[h] \/ SaveSecret(h) \/ SaveKeychain(h)
                  \/ (UpsertClientAPIKey(h) /\ at'[h] = "config")
                  \/ (BeginRekey(h) /\ at'[h] = "rename")
      <3>1. PICK k \in Names : k = call[h].id /\ k = call'[h].id
        BY <1>t, <2>3
      <3>2. SUFFICES ASSUME NEW t \in Secrets, t \in call[h].before
                     PROVE  /\ t \in issued'[k]
                            /\ Wrote(h)' => Gone(k, t)'
                            /\ Done(h)' => ChainGone(k, t)'
        BY <2>3, <3>1 DEF BeforeAt
      <3>3. /\ t \in issued[k]
            /\ Wrote(h) => Gone(k, t)
            /\ Done(h) => ChainGone(k, t)
        BY <1>i, <3>1, <3>2 DEF RetiredOK, BeforeAt
      <3>4. t \in issued'[k]
        BY <3>3, Recorded
      <3>5. CASE at'[h] = at[h] \/ (BeginRekey(h) /\ at'[h] = "rename")
                 \/ (UpsertClientAPIKey(h) /\ at'[h] = "config")
        <4>1. (Wrote(h)' => Wrote(h)) /\ (Done(h)' => Done(h) /\ Wrote(h))
          BY <3>5 DEF Wrote, Done, UpsertClientAPIKey
        <4>2. QED
          BY <3>3, <3>4, <4>1, GoneKept, ChainKept
      <3>6. CASE SaveSecret(h)
        <4>1. t # call[h].tok /\ t # 0 /\ key # 0
          <5>1. Flying(h)
            BY <3>6 DEF SaveSecret, Flying
          <5>2. QED
            BY <5>1, <3>3, InFlight, AtKey DEF Flying
        <4>2. data'[k] = call[h].tok /\ encFile'.data[k] = call[h].tok /\ encFile'.key # 0
          BY <3>1, <3>6, <4>1, <1>t DEF SaveSecret, Write
        <4>3. Gone(k, t)'
          BY <4>1, <4>2 DEF Gone
        <4>4. Done(h)' => ChainGone(k, t)'
          BY <3>1, <3>6, <4>1, <1>t DEF SaveSecret, Write, Goto, Done, ChainGone
        <4>5. QED
          BY <3>4, <4>3, <4>4
      <3>7. CASE SaveKeychain(h)
        <4>1. t # call[h].tok /\ t # 0
          BY <3>3, <3>7, InFlight DEF SaveKeychain, Flying
        <4>2. Gone(k, t)'
          BY <3>3, <3>7, GoneKept DEF SaveKeychain, Wrote
        <4>3. ChainGone(k, t)'
          BY <3>1, <3>7, <4>1, <1>t DEF SaveKeychain, WriteKeychain, ChainGone
        <4>4. QED
          BY <3>4, <4>2, <4>3
      <3>8. QED
        BY <2>3, <3>5, <3>6, <3>7
    <2>4. QED
      BY <2>1, <2>2, <2>3, Recorded
  <1>3. QED
    BY <1>1, <1>2 DEF RetiredOK

-----------------------------------------------------------------------------
\* A marshal that starts with its default key, encrypted or not, satisfies the
\* invariant (Init).
LEMMA InitInv == Init => Inv
  <1> SUFFICES ASSUME Init PROVE Inv
    OBVIOUS
  <1>1. TypeOK
    BY InitTyped
  <1>2. KeysOK
    BY DEF Init, SecretsInit, KeysOK, Live, KeyAtHand, EnvKey
  <1>3. \A h \in Handlers : at[h] = "idle" /\ call[h] = NoCall
    BY DEF Init
  <1>4. PhaseOK
    BY <1>3 DEF Init, SecretsInit, PhaseOK
  <1>5. SoloOK
    BY <1>3, IdleSolo DEF SoloOK
  <1>6. ASSUME NEW k \in Names, current[k] # 0
        PROVE  CurrentAt(k)
    <2>1. k = Default /\ current[k] = 1 /\ keys[k] = "enabled" /\ stateFile[k] = "enabled"
      BY <1>6 DEF Init
    <2>2. \/ encFile.key = 1 /\ encFile.data[k] = 1
          \/ encFile.key = 0 /\ legacy[k] = 1
      BY <2>1 DEF Init, SecretsInit
    <2>3. ~Live /\ chain[k] = 0
      BY DEF Init, SecretsInit, Live, NoSecrets
    <2>4. QED
      BY <1>3, <2>1, <2>2, <2>3 DEF CurrentAt, Busy, ChainSays
  <1>7. FreshOK
    BY <1>3 DEF Init, FreshOK, FreshAt, Flying
  <1>8. RetiredOK
    BY <1>3 DEF Init, RetiredOK, RetiredAt, BeforeAt, NoCall
  <1>9. QED
    BY <1>1, <1>2, <1>4, <1>5, <1>6, <1>7, <1>8 DEF Inv, CurrentOK, CurrentAt

\* Every step keeps the invariant.
LEMMA NextInv == Inv /\ [Next]_vars => Inv'
  BY NextTyped, NextKeys, NextPhase, NextCurrent, NextFresh, NextRetired DEF Inv

\* The invariant holds in every reachable state.
LEMMA InvHolds == Spec => []Inv
  BY InitInv, NextInv, PTL DEF Spec

\* Every variable keeps its type.
THEOREM TypesHold == Spec => []TypeOK
  <1>1. Inv => TypeOK
    BY DEF Inv
  <1>2. QED
    BY <1>1, InvHolds, PTL

\* The encrypted file opens with the key beside it unless a Rekey was torn:
\* Open, saveLocked and Rekey always agree about the key.
THEOREM FilesOpen == Spec => []FilesOpenTogether
  <1>1. Inv => FilesOpenTogether
    BY DEF Inv, KeysOK, FilesOpenTogether
  <1>2. QED
    BY <1>1, InvHolds, PTL

\* A token that a client may count on is in the files of the fallback,
\* whatever failed since it was handed out.
THEOREM FallbackIsComplete == Spec => []FallbackHoldsCurrent
  <1>1. Inv => FallbackHoldsCurrent
    BY DEF Inv, CurrentOK, CurrentAt, FallbackHoldsCurrent
  <1>2. QED
    BY <1>1, InvHolds, PTL

\* Every marshal that serves accepts such a token, unless its keychain missed
\* a write.
THEOREM IssuedTokensWork == Spec => []CurrentIsAccepted
  <1>1. ASSUME Inv PROVE CurrentIsAccepted
    <2>1. SUFFICES ASSUME NEW k \in Names, serving, current[k] # 0, k \notin stale
                   PROVE  ValidClientAPIKey(k, current[k])
      BY DEF CurrentIsAccepted
    <2>2. CurrentAt(k) /\ stage = "open"
      BY <1>1, <2>1 DEF Inv, CurrentOK, PhaseOK
    <2>3. data[k] = current[k] /\ keys[k] = "enabled" /\ chain[k] \in {0, current[k]}
      BY <2>1, <2>2 DEF CurrentAt, Live, ChainSays
    <2>4. QED
      BY <2>1, <2>3 DEF ValidClientAPIKey, Get
  <1>2. QED
    BY <1>1, InvHolds, PTL

\* No marshal accepts a token that an answered rotation or revocation ended,
\* unless its keychain missed a write.
THEOREM RetiredTokensFail == Spec => []RetiredIsRejected
  <1>1. ASSUME Inv PROVE RetiredIsRejected
    <2>1. SUFFICES ASSUME NEW k \in Names, NEW t \in Secrets, t \in retired[k],
                          k \notin stale, ValidClientAPIKey(k, t)
                   PROVE  FALSE
      BY DEF RetiredIsRejected
    <2>2. Gone(k, t) /\ ChainGone(k, t)
      BY <1>1, <2>1 DEF Inv, RetiredOK, RetiredAt
    <2>3. stage = "open"
      BY <1>1, <2>1 DEF Inv, PhaseOK, ValidClientAPIKey
    <2>4. data[k] # t /\ chain[k] # t
      BY <2>1, <2>2, <2>3 DEF Gone, ChainGone, Live
    <2>5. QED
      BY <2>1, <2>4 DEF ValidClientAPIKey, Get
  <1>2. QED
    BY <1>1, InvHolds, PTL
-------------------------------------------------------------------------------
(* The gate in front of these keys: AuthGate *)

\* A record of the limiter (t) and the refusals it stands for (s).
Tracks(t, s) ==
    /\ t \in Attempt
    /\ s \in [0..Horizon -> Nat]
    /\ \A a, b \in 0..Horizon : a <= b => s[a] <= s[b]

\* The count of the open window is the number of its refusals, as far as they
\* were refusals and not blocks; the first of them has the age of the window.
WindowCounts(t, s) ==
    t.count > 0 /\ t.age <= Window =>
        /\ s[t.age] = IF t.count < Limit THEN t.count ELSE Limit - 1
        /\ Limit > 1 /\ t.age > 0 => s[t.age - 1] < s[t.age]
        /\ Limit > 1 => s[Window] <= s[t.age] + Limit - 2

\* Of a window that is over, the first refusal is too old to be in the span.
OldWindow(t, s) == Limit > 1 /\ t.age > Window => s[0] = 0 /\ s[Window] <= Limit - 2

\* A block that has lasted d ticks began with Limit - 1 refusals that were no
\* older than the window.
BlockCounts(t, s) == t.left > 0 => s[Window + Cooldown - t.left] >= Limit - 1

\* What the limiter knows of a key is what happened.
Counted(t, s) ==
    /\ Tracks(t, s)
    /\ t.count = 0 => t.left = 0
    /\ t.count = 0 \/ Limit = 1 => s[Horizon] = 0
    /\ WindowCounts(t, s)
    /\ OldWindow(t, s)
    /\ BlockCounts(t, s)

\* The inductive invariant of the limiter.
GateInv ==
    /\ DOMAIN attempts = LimiterKeys /\ DOMAIN soft = LimiterKeys
    /\ \A k \in LimiterKeys : Counted(attempts[k], soft[k])

\* The horizon reaches past the window.
LEMMA HorizonFacts ==
    /\ Horizon \in Nat /\ Horizon >= Window /\ Horizon = Window + Cooldown - 1
    /\ Window \in 0..Horizon /\ 0 \in 0..Horizon /\ Horizon \in 0..Horizon
  BY GateAssumption DEF Horizon

\* A key without failures.
LEMMA NoneCounted == Counted(NoAttempt, NoFailures)
<1>1. PICK t, s : t = NoAttempt /\ s = NoFailures
  OBVIOUS
<1>2. t.count = 0 /\ t.age = 0 /\ t.left = 0 /\ t \in Attempt
  BY <1>1, GateAssumption DEF NoAttempt, Attempt
<1>3. s \in [0..Horizon -> Nat] /\ \A a \in 0..Horizon : s[a] = 0
  BY <1>1 DEF NoFailures
<1>4. Tracks(t, s)
  BY <1>2, <1>3 DEF Tracks
<1> QED
  BY <1>1, <1>2, <1>3, <1>4, HorizonFacts, GateAssumption
  DEF Counted, WindowCounts, OldWindow, BlockCounts

\* A wrong token from a host that is not blocked.
LEMMA FailureCounted ==
    ASSUME NEW t, NEW s, Counted(t, s), t.left = 0,
           NEW u, u = Failed(t), NEW v, v = IF u.left > 0 THEN s ELSE One(s)
    PROVE  Counted(u, v)
<1> DEFINE H == Horizon
<1>1. /\ t.count \in Nat /\ t.age \in 0..Window + 1 /\ t = [count |-> t.count, age |-> t.age, left |-> t.left]
      /\ s \in [0..H -> Nat] /\ \A a, b \in 0..H : a <= b => s[a] <= s[b]
  BY DEF Counted, Tracks, Attempt
<1>2. PICK n, g : /\ n = IF t.count = 0 \/ t.age > Window THEN 1 ELSE t.count + 1
                  /\ g = IF t.count = 0 \/ t.age > Window THEN 0 ELSE t.age
  OBVIOUS
<1>3. n \in Nat \ {0} /\ g \in 0..Window
  BY <1>1, <1>2, GateAssumption
<1>4. /\ u.count = n /\ u.age = g /\ u.left = (IF n >= Limit THEN Cooldown ELSE 0)
      /\ u \in Attempt
  <2>1. u = [count |-> n, age |-> g, left |-> IF n >= Limit THEN Cooldown ELSE 0]
    <3>1. CASE t.count = 0 \/ t.age > Window
      <4>1. PICK z : z = NoAttempt
        OBVIOUS
      <4>2. u = [z EXCEPT !.count = z.count + 1, !.left = IF z.count + 1 >= Limit THEN Cooldown ELSE 0]
        BY <3>1, <4>1 DEF Failed
      <4>3. z = [count |-> 0, age |-> 0, left |-> 0] /\ z.count + 1 = 1
        BY <4>1 DEF NoAttempt
      <4> QED
        BY <1>2, <3>1, <4>2, <4>3
    <3>2. CASE ~ (t.count = 0 \/ t.age > Window)
      BY <1>1, <1>2, <3>2 DEF Failed
    <3> QED
      BY <3>1, <3>2
  <2> QED
    BY <1>3, <2>1, GateAssumption DEF Attempt
<1>5. H \in Nat /\ H >= Window /\ Window \in 0..H /\ 0 \in 0..H /\ H \in 0..H /\ g \in 0..H
  BY <1>3, HorizonFacts, GateAssumption
<1>6. (\A a \in 0..H : s[a] \in Nat) /\ s[g] <= s[Window] /\ s[0] <= s[Window] /\ s[Window] <= s[H]
  BY <1>1, <1>3, <1>5
<1> HIDE DEF H
<1>7. CASE n >= Limit
  <2>1. v = s /\ u.left = Cooldown /\ Tracks(u, v)
    BY <1>4, <1>7, GateAssumption DEF Counted, Tracks
  <2>2. s[g] = Limit - 1
    <3>1. CASE t.count = 0 \/ t.age > Window
      BY <1>2, <1>5, <1>6, <1>7, <3>1, GateAssumption DEF Counted, H
    <3>2. CASE ~ (t.count = 0 \/ t.age > Window)
      BY <1>1, <1>2, <1>7, <3>2, GateAssumption DEF Counted, WindowCounts
    <3> QED
      BY <3>1, <3>2
  <2>3. Limit > 1 => t.count # 0 /\ t.age <= Window /\ g = t.age
    BY <1>1, <1>2, <1>7, GateAssumption
  <2>4. WindowCounts(u, v)
    <3>1. Limit > 1 => /\ g > 0 => s[g - 1] < s[g]
                       /\ s[Window] <= s[g] + Limit - 2
      <4>1. SUFFICES ASSUME Limit > 1
                     PROVE  /\ g > 0 => s[g - 1] < s[g]
                            /\ s[Window] <= s[g] + Limit - 2
        OBVIOUS
      <4>2. t.count > 0 /\ t.age <= Window /\ g = t.age
        BY <1>1, <2>3, <4>1
      <4>3. WindowCounts(t, s)
        BY DEF Counted
      <4> QED
        BY <4>1, <4>2, <4>3 DEF WindowCounts
    <3>2. ~ n < Limit
      BY <1>3, <1>7, GateAssumption
    <3> QED
      BY <1>4, <2>1, <2>2, <3>1, <3>2 DEF WindowCounts
  <2>5. OldWindow(u, v)
    BY <1>3, <1>4, GateAssumption DEF OldWindow
  <2>6. BlockCounts(u, v)
    <3>1. Window + Cooldown - u.left = Window
      BY <2>1, GateAssumption
    <3> QED
      BY <1>5, <1>6, <2>1, <2>2, <3>1, GateAssumption DEF BlockCounts
  <2> QED
    BY <1>3, <1>4, <2>1, <2>4, <2>5, <2>6 DEF Counted
<1>8. CASE n < Limit
  <2>1. u.left = 0 /\ Limit > 1
    BY <1>3, <1>4, <1>8, GateAssumption
  <2>2. v = [a \in 0..H |-> s[a] + 1]
    BY <2>1 DEF One, H
  <2>3. v \in [0..H -> Nat] /\ \A a \in 0..H : v[a] = s[a] + 1
    <3>1. \A a \in 0..H : s[a] + 1 \in Nat
      BY <1>6
    <3> QED
      BY <2>2, <3>1
  <2>4. \A a, b \in 0..H : a <= b => v[a] <= v[b]
    BY <1>1, <1>6, <2>3
  <2>5. Tracks(u, v)
    BY <1>4, <2>3, <2>4 DEF Tracks, H
  <2>6. WindowCounts(u, v)
    <3>1. CASE t.count = 0 \/ t.age > Window
      <4>1. s[0] = 0 /\ s[Window] <= Limit - 2
        <5>1. CASE t.count = 0
          BY <1>5, <1>6, <2>1, <5>1, GateAssumption DEF Counted, H
        <5>2. CASE t.age > Window
          BY <2>1, <5>2 DEF Counted, OldWindow
        <5> QED
          BY <3>1, <5>1, <5>2
      <4>2. n = 1 /\ g = 0 /\ v[0] = 1 /\ v[Window] = s[Window] + 1
        BY <1>2, <1>5, <2>3, <3>1, <4>1
      <4> QED
        BY <1>4, <1>5, <1>6, <1>8, <4>1, <4>2, GateAssumption DEF WindowCounts
    <3>2. CASE ~ (t.count = 0 \/ t.age > Window)
      <4>1. n = t.count + 1 /\ g = t.age
        BY <1>2, <3>2
      <4>2. /\ s[g] = t.count /\ (g > 0 => s[g - 1] < s[g]) /\ s[Window] <= s[g] + Limit - 2
        BY <1>1, <1>8, <2>1, <3>2, <4>1, GateAssumption DEF Counted, WindowCounts
      <4>3. v[g] = s[g] + 1 /\ v[Window] = s[Window] + 1
        BY <1>5, <2>3
      <4>4. g > 0 => g - 1 \in 0..H /\ v[g - 1] = s[g - 1] + 1
        BY <1>5, <2>3
      <4> QED
        BY <1>4, <1>5, <1>6, <1>8, <4>1, <4>2, <4>3, <4>4, GateAssumption DEF WindowCounts
    <3> QED
      BY <3>1, <3>2
  <2>7. OldWindow(u, v)
    BY <1>3, <1>4, GateAssumption DEF OldWindow
  <2>8. BlockCounts(u, v)
    BY <2>1 DEF BlockCounts
  <2> QED
    BY <1>3, <1>4, <2>1, <2>5, <2>6, <2>7, <2>8 DEF Counted
<1> QED
  BY <1>3, <1>7, <1>8, GateAssumption

\* A tick: every refusal and the window are one tick older.
LEMMA TickCounted ==
    ASSUME NEW t, NEW s, Counted(t, s), NEW u, NEW v, v = Older(s),
           u = [t EXCEPT !.age = IF @ <= Window /\ t.count > 0 THEN @ + 1 ELSE @,
                         !.left = IF @ > 0 THEN @ - 1 ELSE 0]
    PROVE  Counted(u, v)
<1> DEFINE H == Horizon
<1>1. /\ t.count \in Nat /\ t.age \in 0..Window + 1 /\ t.left \in 0..Cooldown
      /\ t = [count |-> t.count, age |-> t.age, left |-> t.left]
      /\ s \in [0..H -> Nat] /\ \A a, b \in 0..H : a <= b => s[a] <= s[b]
  BY DEF Counted, Tracks, Attempt
<1>2. /\ u.count = t.count
      /\ u.age = IF t.age <= Window /\ t.count > 0 THEN t.age + 1 ELSE t.age
      /\ u.left = IF t.left > 0 THEN t.left - 1 ELSE 0
      /\ u \in Attempt
  <2>1. PICK g, l : /\ g = IF t.age <= Window /\ t.count > 0 THEN t.age + 1 ELSE t.age
                    /\ l = IF t.left > 0 THEN t.left - 1 ELSE 0
    OBVIOUS
  <2>2. u = [count |-> t.count, age |-> g, left |-> l]
    BY <1>1, <2>1
  <2>3. g \in 0..Window + 1 /\ l \in 0..Cooldown
    BY <1>1, <2>1, GateAssumption
  <2> QED
    BY <1>1, <2>1, <2>2, <2>3 DEF Attempt
<1>3. /\ H \in Nat /\ H >= Window /\ H = Window + Cooldown - 1
      /\ Window \in 0..H /\ 0 \in 0..H /\ H \in 0..H
  BY HorizonFacts
<1>4. v = [a \in 0..H |-> IF a = 0 THEN 0 ELSE s[a - 1]]
  BY DEF Older
<1>5. \A a \in 0..H : s[a] \in Nat
  BY <1>1
<1> HIDE DEF H
<1>6. v[0] = 0 /\ \A a \in 1..H : v[a] = s[a - 1] /\ a - 1 \in 0..H /\ s[a - 1] <= s[a]
  BY <1>1, <1>3, <1>4
<1>7. v \in [0..H -> Nat] /\ \A a, b \in 0..H : a <= b => v[a] <= v[b]
  <2>1. v \in [0..H -> Nat]
    <3>1. ASSUME NEW a \in 0..H PROVE (IF a = 0 THEN 0 ELSE s[a - 1]) \in Nat
      BY <1>3, <1>5
    <3> QED
      BY <1>4, <3>1
  <2>2. ASSUME NEW a \in 0..H, NEW b \in 0..H, a <= b PROVE v[a] <= v[b]
    <3>1. CASE a = 0
      BY <1>6, <2>1, <3>1
    <3>2. CASE a # 0
      <4>1. a \in 1..H /\ b \in 1..H /\ a - 1 <= b - 1
        BY <1>3, <2>2, <3>2
      <4> QED
        BY <1>1, <1>6, <4>1
    <3> QED
      BY <3>1, <3>2
  <2> QED
    BY <2>1, <2>2
<1>8. Tracks(u, v)
  BY <1>2, <1>7 DEF Tracks, H
<1>9. t.count = 0 \/ Limit = 1 => v[H] = 0
  <2>1. t.count = 0 \/ Limit = 1 => s[H] = 0
    BY DEF Counted, H
  <2>2. v[H] \in Nat /\ s[H] \in Nat /\ v[H] <= s[H]
    BY <1>3, <1>5, <1>6, <1>7
  <2> QED
    BY <2>1, <2>2
<1>10. v[Window] <= s[Window] /\ v[Window] = s[Window - 1] /\ v[Window] \in Nat /\ s[Window] \in Nat
  <2>1. Window \in 1..H
    BY <1>3, GateAssumption
  <2> QED
    BY <1>3, <1>5, <1>6, <1>7, <2>1
<1>11. WindowCounts(u, v)
  <2> SUFFICES ASSUME u.count > 0, u.age <= Window PROVE WindowCounts(u, v)
    BY DEF WindowCounts
  <2>1. u.age = t.age + 1 /\ t.age \in 0..Window - 1 /\ t.count > 0
    BY <1>1, <1>2, GateAssumption
  <2>2. /\ s[t.age] = IF t.count < Limit THEN t.count ELSE Limit - 1
        /\ Limit > 1 /\ t.age > 0 => s[t.age - 1] < s[t.age]
        /\ Limit > 1 => s[Window] <= s[t.age] + Limit - 2
    BY <2>1, GateAssumption DEF Counted, WindowCounts
  <2>3. PICK g : g = t.age
    OBVIOUS
  <2>4. v[g + 1] = s[g] /\ g + 1 \in 0..H /\ s[g] \in Nat
    BY <1>3, <1>5, <1>6, <2>1, <2>3
  <2>5. Limit > 1 => v[g] < v[g + 1]
    <3>1. CASE g = 0
      BY <1>1, <1>6, <2>1, <2>2, <2>3, <2>4, <3>1, GateAssumption
    <3>2. CASE g # 0
      <4>1. g \in 1..H
        BY <1>3, <2>1, <2>3, <3>2
      <4> QED
        BY <1>6, <2>1, <2>2, <2>3, <2>4, <4>1
    <3> QED
      BY <3>1, <3>2
  <2>6. Limit > 1 => v[Window] <= v[g + 1] + Limit - 2
    BY <1>10, <2>2, <2>3, <2>4, GateAssumption
  <2>7. u.age = g + 1 /\ u.age - 1 = g
    BY <2>1, <2>3
  <2>8. v[u.age] = IF u.count < Limit THEN u.count ELSE Limit - 1
    BY <1>2, <2>2, <2>3, <2>4, <2>7
  <2>9. Limit > 1 => v[u.age - 1] < v[u.age] /\ v[Window] <= v[u.age] + Limit - 2
    BY <2>5, <2>6, <2>7
  <2> QED
    BY <2>8, <2>9 DEF WindowCounts
<1>12. OldWindow(u, v)
  <2> SUFFICES ASSUME Limit > 1, u.age > Window PROVE v[Window] <= Limit - 2
    BY <1>6 DEF OldWindow
  <2>1. CASE t.age > Window
    <3>1. s[Window] <= Limit - 2
      BY <2>1 DEF Counted, OldWindow
    <3> QED
      BY <1>10, <3>1, GateAssumption
  <2>2. CASE ~ (t.age > Window)
    <3>1. t.age = Window /\ t.count > 0
      BY <1>1, <1>2, <2>2, GateAssumption
    <3>2. s[Window - 1] < s[Window] /\ s[Window] <= Limit - 1
      BY <1>1, <3>1, GateAssumption DEF Counted, WindowCounts
    <3> QED
      BY <1>10, <3>2, GateAssumption
  <2> QED
    BY <2>1, <2>2
<1>13. BlockCounts(u, v)
  <2> SUFFICES ASSUME u.left > 0 PROVE v[Window + Cooldown - u.left] >= Limit - 1
    BY DEF BlockCounts
  <2>1. t.left \in 2..Cooldown /\ u.left = t.left - 1
    BY <1>1, <1>2, GateAssumption
  <2>2. s[Window + Cooldown - t.left] >= Limit - 1
    BY <2>1 DEF Counted, BlockCounts
  <2>3. PICK a : a = Window + Cooldown - u.left
    OBVIOUS
  <2>4. a \in 1..H /\ a - 1 = Window + Cooldown - t.left
    BY <1>3, <2>1, <2>3, GateAssumption
  <2>5. v[a] = s[a - 1]
    BY <1>6, <2>4
  <2> QED
    BY <2>2, <2>3, <2>4, <2>5
<1>14. u.count = 0 => u.left = 0
  BY <1>2 DEF Counted
<1> QED
  BY <1>2, <1>8, <1>9, <1>11, <1>12, <1>13, <1>14 DEF Counted, H

\* registerFailure, for one key.
LEMMA RegisterKeeps ==
    ASSUME GateInv, NEW k \in LimiterKeys, registerFailure(k)
    PROVE  GateInv'
<1>1. CASE UNCHANGED <<attempts, soft>>
  BY <1>1 DEF GateInv
<1>2. CASE /\ ~ Blocked(k)
           /\ attempts' = [attempts EXCEPT ![k] = Failed(attempts[k])]
           /\ soft' = IF Failed(attempts[k]).left > 0 THEN soft
                      ELSE [soft EXCEPT ![k] = One(soft[k])]
  <2>1. PICK t, s : t = attempts[k] /\ s = soft[k]
    OBVIOUS
  <2>2. PICK u : u = Failed(t)
    OBVIOUS
  <2>3. PICK v : v = IF u.left > 0 THEN s ELSE One(s)
    OBVIOUS
  <2>4. Counted(t, s) /\ t.left = 0
    <3>1. t \in Attempt /\ Counted(t, s)
      BY <2>1 DEF GateInv, Counted, Tracks
    <3>2. t.left \in Nat
      BY <3>1, GateAssumption DEF Attempt
    <3> QED
      BY <1>2, <2>1, <3>1, <3>2 DEF Blocked
  <2>5. Counted(u, v)
    BY <2>2, <2>3, <2>4, FailureCounted
  <2>6. DOMAIN attempts = LimiterKeys /\ DOMAIN soft = LimiterKeys
    BY DEF GateInv
  <2>7. /\ DOMAIN attempts' = LimiterKeys /\ attempts'[k] = u
        /\ \A j \in LimiterKeys \ {k} : attempts'[j] = attempts[j]
    BY <1>2, <2>1, <2>2, <2>6
  <2>8. /\ DOMAIN soft' = LimiterKeys /\ soft'[k] = v
        /\ \A j \in LimiterKeys \ {k} : soft'[j] = soft[j]
    <3>1. CASE u.left > 0
      BY <1>2, <2>1, <2>2, <2>3, <2>6, <3>1
    <3>2. CASE ~ (u.left > 0)
      BY <1>2, <2>1, <2>2, <2>3, <2>6, <3>2
    <3> QED
      BY <3>1, <3>2
  <2>9. ASSUME NEW j \in LimiterKeys PROVE Counted(attempts'[j], soft'[j])
    <3>1. CASE j = k
      BY <2>5, <2>7, <2>8, <3>1
    <3>2. CASE j # k
      BY <2>7, <2>8, <3>2 DEF GateInv
    <3> QED
      BY <3>1, <3>2
  <2> QED
    BY <2>7, <2>8, <2>9 DEF GateInv
<1> QED
  BY <1>1, <1>2 DEF registerFailure, limiter

\* reset, for one key.
LEMMA ResetKeeps ==
    ASSUME GateInv, NEW k \in LimiterKeys, reset(k)
    PROVE  GateInv'
<1>1. DOMAIN attempts = LimiterKeys /\ DOMAIN soft = LimiterKeys
  BY DEF GateInv
<1>2. /\ DOMAIN attempts' = LimiterKeys /\ attempts'[k] = NoAttempt
      /\ DOMAIN soft' = LimiterKeys /\ soft'[k] = NoFailures
      /\ \A j \in LimiterKeys \ {k} : attempts'[j] = attempts[j] /\ soft'[j] = soft[j]
  BY <1>1 DEF reset
<1>3. ASSUME NEW j \in LimiterKeys PROVE Counted(attempts'[j], soft'[j])
  <2>1. CASE j = k
    BY <1>2, <2>1, NoneCounted
  <2>2. CASE j # k
    BY <1>2, <2>2 DEF GateInv
  <2> QED
    BY <2>1, <2>2
<1> QED
  BY <1>2, <1>3 DEF GateInv

\* Time passes for every key.
LEMMA TickKeeps ==
    ASSUME GateInv, Tick
    PROVE  GateInv'
<1>1. DOMAIN attempts' = LimiterKeys /\ DOMAIN soft' = LimiterKeys
  BY DEF Tick
<1>2. ASSUME NEW k \in LimiterKeys PROVE Counted(attempts'[k], soft'[k])
  <2>1. PICK t, s, u, v : t = attempts[k] /\ s = soft[k] /\ u = attempts'[k] /\ v = soft'[k]
    OBVIOUS
  <2>2. v = Older(s)
    BY <2>1 DEF Tick
  <2>3. u = [t EXCEPT !.age = IF @ <= Window /\ t.count > 0 THEN @ + 1 ELSE @,
                      !.left = IF @ > 0 THEN @ - 1 ELSE 0]
    BY <2>1 DEF Tick
  <2>4. Counted(t, s)
    BY <2>1 DEF GateInv
  <2>5. Counted(u, v)
    BY <2>2, <2>3, <2>4, TickCounted
  <2> QED
    BY <2>1, <2>5
<1> QED
  BY <1>1, <1>2 DEF GateInv

\* A new limiter.
LEMMA NewLimiter ==
    ASSUME NEW t, NEW s, t = [k \in LimiterKeys |-> NoAttempt],
           s = [k \in LimiterKeys |-> NoFailures]
    PROVE  /\ DOMAIN t = LimiterKeys /\ DOMAIN s = LimiterKeys
           /\ \A k \in LimiterKeys : Counted(t[k], s[k])
<1>1. ASSUME NEW k \in LimiterKeys PROVE t[k] = NoAttempt /\ s[k] = NoFailures
  OBVIOUS
<1>2. ASSUME NEW k \in LimiterKeys PROVE Counted(t[k], s[k])
  BY <1>1, NoneCounted
<1> QED
  BY <1>2

\* Requests, rotations, ticks and restarts keep the count.
LEMMA GateInvStep ==
    ASSUME GateInv, [GateNext]_gateVars
    PROVE  GateInv'
<1>1. ASSUME NEW host \in Hosts, NEW t, AdminRequest(host, t) PROVE GateInv'
  <2>1. PICK k \in LimiterKeys : k = <<"admin", host>>
    BY DEF LimiterKeys
  <2>2. reset(k) \/ registerFailure(k)
    BY <1>1, <2>1 DEF AdminRequest
  <2> QED
    BY <2>2, RegisterKeeps, ResetKeeps
<1>2. ASSUME NEW host \in Hosts, NEW valid, ClientRequest(host, valid) PROVE GateInv'
  <2>1. PICK k \in LimiterKeys : k = <<"client", host>>
    BY DEF LimiterKeys
  <2>2. reset(k) \/ registerFailure(k)
    BY <1>2, <2>1 DEF ClientRequest
  <2> QED
    BY <2>2, RegisterKeeps, ResetKeeps
<1>3. CASE Tick
  BY <1>3, TickKeeps
<1>4. CASE UNCHANGED <<attempts, soft>>
  BY <1>4 DEF GateInv
<1>5. CASE Restart
  BY <1>5, NewLimiter DEF Restart, GateInv
<1> QED
  BY <1>1, <1>2, <1>3, <1>4, <1>5
  DEF GateNext, gateVars, limiter, Rotate, RotateKeychain, RotateAnswered, OtherSecretSaved,
      AdminKeychainLost

\* The limiter of a new marshal.
LEMMA GateInvInit ==
    ASSUME GateInit PROVE GateInv
  BY NewLimiter DEF GateInit, GateInv

\* registerFailure blocks a host in a scope only for failures of that host in
\* that scope, for any limit, window, cooldown and number of hosts: at least
\* Limit - 1 of its tokens were refused, none of them longer ago than window
\* and cooldown together, and none before it was let in last.
THEOREM BlocksAreEarned == GateSpec => []BlockIsEarned
<1>1. GateInv => BlockIsEarned
  <2> SUFFICES ASSUME GateInv, NEW k \in LimiterKeys, Blocked(k)
               PROVE  soft[k][Horizon] >= Limit - 1
    BY DEF BlockIsEarned
  <2>1. PICK t, s : t = attempts[k] /\ s = soft[k]
    OBVIOUS
  <2>2. /\ t \in Attempt /\ s \in [0..Horizon -> Nat] /\ BlockCounts(t, s)
        /\ \A a, b \in 0..Horizon : a <= b => s[a] <= s[b]
    BY <2>1 DEF GateInv, Counted, Tracks
  <2>3. t.left \in 1..Cooldown
    BY <2>1, <2>2, GateAssumption DEF Blocked, Attempt
  <2>4. PICK a : a = Window + Cooldown - t.left
    OBVIOUS
  <2>5. /\ a \in 0..Horizon /\ Horizon \in 0..Horizon /\ a <= Horizon
    BY <2>3, <2>4, HorizonFacts, GateAssumption
  <2>6. s[a] >= Limit - 1
    BY <2>2, <2>3, <2>4 DEF BlockCounts
  <2>7. s[a] \in Nat /\ s[Horizon] \in Nat /\ s[a] <= s[Horizon]
    BY <2>2, <2>5
  <2> QED
    BY <2>1, <2>6, <2>7, GateAssumption
<1>2. GateInit => GateInv
  BY GateInvInit
<1>3. GateInv /\ [GateNext]_gateVars => GateInv'
  BY GateInvStep
<1> QED
  BY <1>1, <1>2, <1>3, PTL DEF GateSpec

\* However failures are placed, at most 2 * Limit - 3 of them are answered 401
\* in one window's span between two successes (registerFailure).
THEOREM RefusalsAreBounded == GateSpec => []RefusalsBounded
<1>1. GateInv => RefusalsBounded
  <2> SUFFICES ASSUME GateInv, NEW k \in LimiterKeys
               PROVE  soft[k][Window] <= IF Limit = 1 THEN 0 ELSE 2 * Limit - 3
    BY DEF RefusalsBounded
  <2>1. PICK t, s : t = attempts[k] /\ s = soft[k]
    OBVIOUS
  <2>2. Counted(t, s)
    BY <2>1 DEF GateInv
  <2>3. /\ t.count \in Nat /\ t.age \in Nat /\ s \in [0..Horizon -> Nat]
        /\ \A a, b \in 0..Horizon : a <= b => s[a] <= s[b]
    BY <2>2, GateAssumption DEF Counted, Tracks, Attempt
  <2>4. s[Window] \in Nat /\ s[Horizon] \in Nat /\ s[Window] <= s[Horizon]
    BY <2>3, HorizonFacts
  <2>5. CASE t.count = 0 \/ Limit = 1
    BY <2>1, <2>2, <2>4, <2>5, GateAssumption DEF Counted
  <2>6. CASE t.count > 0 /\ Limit > 1 /\ t.age <= Window
    BY <2>1, <2>2, <2>3, <2>4, <2>6, GateAssumption DEF Counted, WindowCounts
  <2>7. CASE t.count > 0 /\ Limit > 1 /\ t.age > Window
    BY <2>1, <2>2, <2>4, <2>7, GateAssumption DEF Counted, OldWindow
  <2> QED
    BY <2>3, <2>5, <2>6, <2>7, GateAssumption
<1>2. GateInit => GateInv
  BY GateInvInit
<1>3. GateInv /\ [GateNext]_gateVars => GateInv'
  BY GateInvStep
<1> QED
  BY <1>1, <1>2, <1>3, PTL DEF GateSpec

\* The tokens that rotations have drawn so far.
Drawn == told \union storing \union rotating \union lost

\* What is in one of the places of the admin token was drawn; memory and file
\* have nothing older than what was or may still be told; and the keychain has
\* nothing older than what it took and kept.
TokenInv ==
    /\ nextAdminToken \in Nat
    /\ Drawn \subseteq AdminTokens /\ missed \subseteq AdminTokens
    /\ \A u \in Drawn : u < nextAdminToken
    /\ admin \in Drawn /\ adminFile \in Drawn /\ adminChain \in Drawn \union {0}
    /\ \A u \in told \union storing \union rotating : u <= admin /\ u <= adminFile
    /\ \A u \in told \union rotating : u <= adminChain \/ u \in missed

\* Rotations, saved or not, keep it.
LEMMA RotateKeeps ==
    ASSUME TokenInv, Rotate PROVE TokenInv'
<1>0. MaxAdminToken \in Nat /\ nextAdminToken \in AdminTokens /\ nextAdminToken \in Nat
  BY GateAssumption DEF Rotate, TokenInv, AdminTokens
<1>1. \A u \in AdminTokens : u \in Nat
  BY DEF AdminTokens
<1>2. nextAdminToken' = nextAdminToken + 1 /\ admin' = nextAdminToken /\ adminChain' = adminChain
  BY DEF Rotate
<1>3. CASE adminFile' = nextAdminToken /\ SavedToken(nextAdminToken) /\ UNCHANGED lost
  <2>1. told' = told
    BY DEF Rotate
  <2>2. /\ Drawn' = Drawn \union {nextAdminToken}
        /\ missed' \subseteq missed \union {nextAdminToken} /\ missed \subseteq missed'
        /\ (told \union rotating)' \subseteq told \union rotating \union {nextAdminToken}
        /\ nextAdminToken \in (told \union rotating)' => nextAdminToken \in missed' \/ nextAdminToken \in Drawn
        /\ (told \union storing \union rotating)' \subseteq told \union storing \union rotating \union {nextAdminToken}
    BY <1>3, <2>1 DEF SavedToken, Drawn
  <2>3. nextAdminToken \notin Drawn
    BY <1>0 DEF TokenInv
  <2>4. /\ Drawn' \subseteq AdminTokens /\ missed' \subseteq AdminTokens
        /\ nextAdminToken' \in Nat /\ \A u \in Drawn' : u \in Nat /\ u < nextAdminToken'
    BY <1>0, <1>1, <1>2, <2>2 DEF TokenInv
  <2>5. admin' \in Drawn' /\ adminFile' \in Drawn' /\ adminChain' \in Drawn' \union {0}
    BY <1>2, <1>3, <2>2 DEF TokenInv
  <2>6. \A u \in (told \union storing \union rotating)' : u <= admin' /\ u <= adminFile'
    <3>1. \A u \in (told \union storing \union rotating)' : u \in Drawn'
      BY DEF Drawn
    <3>2. \A u \in Drawn' : u <= nextAdminToken
      BY <1>0, <1>2, <2>4
    <3> QED
      BY <1>2, <1>3, <3>1, <3>2
  <2>7. \A u \in (told \union rotating)' : u <= adminChain' \/ u \in missed'
    BY <1>2, <2>2, <2>3 DEF TokenInv
  <2> QED
    BY <2>4, <2>5, <2>6, <2>7 DEF TokenInv
<1>4. CASE UNCHANGED <<adminFile, storing, rotating, missed>> /\ lost' = lost \union {nextAdminToken}
  <2>1. told' = told
    BY DEF Rotate
  <2>2. Drawn' = Drawn \union {nextAdminToken}
    BY <1>4, <2>1 DEF Drawn
  <2>3. /\ Drawn' \subseteq AdminTokens /\ missed' \subseteq AdminTokens
        /\ nextAdminToken' \in Nat /\ \A u \in Drawn' : u \in Nat /\ u < nextAdminToken'
    BY <1>0, <1>1, <1>2, <1>4, <2>2 DEF TokenInv
  <2>4. admin' \in Drawn' /\ adminFile' \in Drawn' /\ adminChain' \in Drawn' \union {0}
    BY <1>2, <1>4, <2>2 DEF TokenInv
  <2>5. \A u \in Drawn : u <= nextAdminToken
    BY <1>0, <1>1 DEF TokenInv
  <2>6. \A u \in told \union storing \union rotating : u <= nextAdminToken
    BY <2>5 DEF Drawn
  <2> QED
    BY <1>2, <1>4, <2>1, <2>3, <2>4, <2>6 DEF TokenInv
<1> QED
  BY <1>3, <1>4 DEF Rotate

\* The keychain's part of a rotation keeps it, in either order of two writes.
LEMMA KeychainKeeps ==
    ASSUME TokenInv, NEW t \in AdminTokens, RotateKeychain(t) PROVE TokenInv'
<1>1. \A u \in AdminTokens : u \in Nat
  BY DEF AdminTokens
<1>2. /\ t \in storing /\ told' = told /\ lost' = lost /\ nextAdminToken' = nextAdminToken
      /\ storing' = storing \ {t} /\ rotating' = rotating \union {t}
      /\ admin' = admin /\ adminFile' = adminFile
  BY DEF RotateKeychain
<1>3. Drawn' = Drawn /\ t \in Drawn /\ Drawn \subseteq AdminTokens
  BY <1>2 DEF Drawn, TokenInv
<1>4. adminChain \in Nat /\ adminChain' \in Drawn \union {0} /\ missed' \subseteq AdminTokens
  BY <1>1, <1>3 DEF TokenInv, RotateKeychain
<1>5. \A u \in told \union rotating \union {t} : u <= adminChain' \/ u \in missed'
  <2>1. CASE adminChain' = t /\ missed' = missed \union {u \in AdminTokens : t < u /\ u <= adminChain}
    <3>1. ASSUME NEW u \in told \union rotating, ~(u <= t)
          PROVE  u \in missed'
      <4>1. u \in AdminTokens /\ u \in Nat /\ t \in Nat /\ t < u
        BY <1>1, <1>3, <3>1 DEF Drawn
      <4> QED
        BY <2>1, <4>1 DEF TokenInv
    <3>2. t <= t
      BY <1>1
    <3> QED
      BY <2>1, <3>1, <3>2
  <2>2. CASE adminChain' = adminChain /\ missed' = missed \union {t}
    BY <2>2 DEF TokenInv
  <2> QED
    BY <2>1, <2>2 DEF RotateKeychain
<1> QED
  BY <1>2, <1>3, <1>4, <1>5 DEF TokenInv

\* So does a start.
LEMMA StartKeeps ==
    ASSUME TokenInv, Restart PROVE TokenInv'
<1>1. /\ admin' = adminFile /\ adminFile' = adminFile /\ told' = told /\ missed' = missed
      /\ storing' = {} /\ rotating' = {} /\ lost' = lost \union storing \union rotating
      /\ nextAdminToken' = nextAdminToken
      /\ adminChain' = adminChain \/ adminChain' = adminFile
  BY DEF Restart
<1>2. Drawn' = Drawn
  BY <1>1 DEF Drawn
<1> QED
  BY <1>1, <1>2 DEF TokenInv

\* rotateAdminToken and ensureAdminToken, for any number of rotations that
\* overlap and any failures: nothing but a rotation that the operator did not
\* hear of, or a keychain that did not take or keep a token, stands between him
\* and the token that counts.
THEOREM OperatorKeepsToken == GateSpec => []OperatorHoldsToken
<1>1. GateInit => TokenInv
  BY GateAssumption DEF GateInit, TokenInv, Drawn, AdminTokens
<1>2. TokenInv /\ [GateNext]_gateVars => TokenInv'
  <2> SUFFICES ASSUME TokenInv, [GateNext]_gateVars PROVE TokenInv'
    OBVIOUS
  <2>1. CASE UNCHANGED token
    BY <2>1 DEF TokenInv, Drawn, token, stored
  <2>2. ASSUME NEW t \in AdminTokens, RotateAnswered(t) PROVE TokenInv'
    <3>1. /\ t \in rotating /\ rotating' = rotating \ {t}
          /\ told' \union lost' = told \union lost \union {t}
          /\ told' \subseteq told \union {t} /\ told \subseteq told' /\ lost \subseteq lost'
          /\ UNCHANGED <<stored, storing, missed, nextAdminToken>>
      BY <2>2 DEF RotateAnswered
    <3>2. Drawn' = Drawn
      BY <3>1 DEF Drawn
    <3> QED
      BY <3>1, <3>2 DEF TokenInv, stored
  <2>3. CASE OtherSecretSaved \/ AdminKeychainLost
    BY <2>3 DEF TokenInv, Drawn, OtherSecretSaved, AdminKeychainLost
  <2>4. CASE Rotate
    BY <2>4, RotateKeeps
  <2>5. ASSUME NEW t \in AdminTokens, RotateKeychain(t) PROVE TokenInv'
    BY <2>5, KeychainKeeps
  <2>6. CASE Restart
    BY <2>6, StartKeeps
  <2>7. ASSUME NEW host \in Hosts, NEW t, AdminRequest(host, t) PROVE UNCHANGED token
    BY <2>7 DEF AdminRequest
  <2>8. ASSUME NEW host \in Hosts, NEW valid, ClientRequest(host, valid) PROVE UNCHANGED token
    BY <2>8 DEF ClientRequest
  <2>9. Tick => UNCHANGED token
    BY DEF Tick
  <2> QED
    BY <2>1, <2>2, <2>3, <2>4, <2>5, <2>6, <2>7, <2>8, <2>9 DEF GateNext, gateVars
<1>3. TokenInv => OperatorHoldsToken
  BY DEF TokenInv, OperatorHoldsToken, Drawn
<1> QED
  BY <1>1, <1>2, <1>3, PTL DEF GateSpec
=============================================================================
