---------------------------- MODULE SecretsStore ----------------------------
(***************************************************************************)
(* internal/secrets: a map of secrets in memory, encrypted with one key    *)
(* into secrets.enc.json, the key beside it in secrets.key (or given by    *)
(* the environment), and optionally a copy of every secret in the OS       *)
(* keychain, which is then read first.                                     *)
(*                                                                         *)
(* A secret is a number, 0 is the empty string; a key is the number of the *)
(* random draw it came from, 0 is no key file.  The encrypted file holds   *)
(* the number of the key it was sealed with, 0 when there is no file, and  *)
(* opens only with that key.  A write goes to a temporary file and a       *)
(* rename, so it happens or fails; the mutex is held over a save and over  *)
(* the whole of Rekey, but not over the calls to the keychain.             *)
(***************************************************************************)
EXTENDS Integers

CONSTANTS
  Names,      \* names of secrets
  MaxToken,   \* bound on the secrets that are drawn
  MaxKey,     \* bound on the encryption keys that are drawn
  Modes,      \* may a start request the OS keychain: a subset of BOOLEAN
  MaxFaults   \* bound on failed writes, keychain errors and stops

ASSUME SecretBounds ==
  MaxToken \in Nat \ {0} /\ MaxKey \in Nat \ {0} /\ MaxFaults \in Nat
ASSUME ModesAssumption == Modes \subseteq BOOLEAN

Secrets   == 0 .. MaxToken + 1
Keys      == 0 .. MaxKey
Contents  == [Names -> Secrets]
NoSecrets == [n \in Names |-> 0]
EnvKey    == 1
Truncated == -1   \* in place of the key: a file that opens with none

VARIABLES
  source,     \* keySource: "file" or "env"
  keyFile,    \* secrets.key
  encFile,    \* secrets.enc.json: the key it was sealed with and its secrets
  legacy,     \* secrets.json, the plaintext file of older releases
  chain,      \* the OS keychain
  stage,      \* how far Open has come
  data,       \* Store.data
  key,        \* Store.key
  active,     \* Store.activeBackend
  oldKey,     \* what Rekey read from secrets.key, 0 when it does not run
  nextKey,    \* the next key to be drawn
  torn,       \* history: a Rekey left the two files apart
  faults      \* failed writes, keychain errors and stops so far

disks  == <<source, keyFile, encFile, legacy, nextKey>>
memory == <<stage, data, key, oldKey>>
secretVars == <<disks, memory, chain, active, torn, faults>>

Outcome(ok) ==
  \/ ok /\ UNCHANGED faults
  \/ ~ok /\ faults < MaxFaults /\ faults' = faults + 1

\* The key that a start would find.
KeyAtHand == IF source = "env" THEN EnvKey ELSE keyFile

\* Two machines: one whose secrets are encrypted already, with the key in a
\* file or in the environment, and one that is upgraded from plaintext.
SecretsInit(contents) ==
  /\ source \in {"file", "env"}
  /\ \/ /\ legacy = NoSecrets
        /\ keyFile = IF source = "file" THEN 1 ELSE 0
        /\ encFile = [key |-> 1, data |-> contents]
        /\ nextKey = 2
     \/ /\ legacy = contents
        /\ keyFile = 0
        /\ encFile = [key |-> 0, data |-> NoSecrets]
        /\ nextKey = 1
  /\ chain = NoSecrets
  /\ stage = "closed"
  /\ data = NoSecrets
  /\ key = 0
  /\ active = "file"
  /\ oldKey = 0
  /\ torn = FALSE
  /\ faults = 0

\* loadOrCreateKey: the key of the environment, of the file, or a new one.
LoadOrCreateKey(k) ==
  IF KeyAtHand # 0
    THEN k = KeyAtHand /\ UNCHANGED <<keyFile, nextKey>>
    ELSE /\ k = nextKey
         /\ keyFile' = k
         /\ nextKey' = k + 1

\* Mutant: the plaintext secrets are read but not saved encrypted.
LoadWithoutSave(k) ==
  /\ data' = IF encFile.key = k THEN encFile.data ELSE legacy
  /\ stage' = IF encFile.key = k THEN "keychain" ELSE "legacy"
  /\ encFile.key \in {0, k}
  /\ UNCHANGED encFile

\* load: the encrypted file, which must open with the key; without one the
\* plaintext file, saved encrypted at once; without either, no secrets.
Load(k) ==
  \/ /\ encFile.key # 0
     /\ encFile.key = k
     /\ data' = encFile.data
     /\ stage' = "keychain"
     /\ UNCHANGED encFile
  \/ /\ encFile.key = 0
     /\ data' = legacy
     /\ stage' = IF legacy = NoSecrets THEN "keychain" ELSE "legacy"
     /\ encFile' = IF legacy = NoSecrets THEN encFile
                                         ELSE [key |-> k, data |-> legacy]

\* Open, to the point where load has read or written the encrypted file.
Open ==
  /\ stage = "closed"
  /\ \E k \in Keys : LoadOrCreateKey(k) /\ Load(k) /\ key' = k
  /\ \E requested \in Modes : active' = IF requested THEN "keychain" ELSE "file"
  /\ UNCHANGED <<source, legacy, chain, oldKey, torn, faults>>

\* Open returns an error: the file does not open with the key at hand, or
\* something could not be read or written; a key may have been created.
OpenFails ==
  /\ stage = "closed"
  /\ \/ /\ encFile.key # 0
        /\ encFile.key # KeyAtHand
        /\ UNCHANGED <<keyFile, nextKey, faults>>
     \/ (\E k \in Keys : LoadOrCreateKey(k)) /\ Outcome(FALSE)
  /\ UNCHANGED <<source, encFile, legacy, memory, chain, active, torn>>

\* The end of load: the plaintext file is removed, or Open fails.
RemoveLegacy ==
  /\ stage = "legacy"
  /\ \E ok \in BOOLEAN :
       /\ Outcome(ok)
       /\ legacy' = IF ok THEN NoSecrets ELSE legacy
       /\ stage' = IF ok THEN "keychain" ELSE "closed"
  /\ UNCHANGED <<source, keyFile, encFile, nextKey, data, key, oldKey, chain,
                 active, torn>>

Present == {n \in Names : data[n] # 0}

\* migrateFallbackToOSKeychain: secrets are copied to the keychain, in any
\* order, where it has none; the first error turns the keychain off.
MigrateFallbackToOSKeychain ==
  /\ stage = "keychain"
  /\ stage' = "open"
  /\ \/ active = "file" /\ UNCHANGED <<chain, active, faults>>
     \/ /\ active = "keychain"
        /\ \E copied \in SUBSET Present, ok \in BOOLEAN :
             /\ ok <=> copied = Present
             /\ Outcome(ok)
             /\ chain' = [n \in Names |-> IF n \in copied /\ chain[n] = 0
                                            THEN data[n] ELSE chain[n]]
             /\ active' = IF ok THEN active ELSE "file"
  /\ UNCHANGED <<disks, data, key, oldKey, torn>>

\* Get: the keychain first, the map when it has no such secret.
Get(n) == IF active = "keychain" /\ chain[n] # 0 THEN chain[n] ELSE data[n]

\* Get meets an error of the keychain: markOSKeychainUnavailable.
KeychainUnavailable ==
  /\ stage = "open"
  /\ active = "keychain"
  /\ Outcome(FALSE)
  /\ active' = "file"
  /\ UNCHANGED <<disks, memory, chain, torn>>

\* The locked part of Set and of Delete (value 0): the map is changed, then
\* saved, and stays changed when the save fails.
Write(n, value, ok) ==
  /\ stage = "open"
  /\ oldKey = 0
  /\ Outcome(ok)
  /\ data' = [data EXCEPT ![n] = value]
  /\ encFile' = IF ok THEN [key |-> key, data |-> data'] ELSE encFile
  /\ UNCHANGED <<source, keyFile, legacy, nextKey, key, oldKey, chain, active, torn>>

\* What follows outside the lock if the keychain was active under it.
WriteKeychain(n, value, ok) ==
  /\ Outcome(ok)
  /\ chain' = IF ok THEN [chain EXCEPT ![n] = value] ELSE chain
  /\ active' = IF ok THEN active ELSE "file"
  /\ UNCHANGED <<disks, memory, torn>>

\* Rekey up to its first rename; what fails before or in it changes nothing.
RekeyRenameKey ==
  /\ stage = "open"
  /\ source = "file"
  /\ oldKey = 0
  /\ nextKey <= MaxKey
  /\ oldKey' = keyFile
  /\ keyFile' = nextKey
  /\ nextKey' = nextKey + 1
  /\ UNCHANGED <<source, encFile, legacy, stage, data, key, chain, active, torn,
                 faults>>

\* The second rename: the file sealed with the new key is in place.
RekeyRenameFile ==
  /\ oldKey # 0
  /\ encFile' = [key |-> keyFile, data |-> data]
  /\ key' = keyFile
  /\ oldKey' = 0
  /\ torn' = FALSE
  /\ UNCHANGED <<source, keyFile, legacy, nextKey, stage, data, chain, active,
                 faults>>

\* Mutant: the deferred function removes the temporary files only.
RekeyRollbackIncomplete ==
  /\ oldKey # 0
  /\ Outcome(FALSE)
  /\ oldKey' = 0
  /\ UNCHANGED <<source, keyFile, encFile, legacy, nextKey, stage, data, key, chain,
                 active, torn>>

\* The second rename fails: the deferred function writes back what Rekey had
\* read, first the key and then the file if there was one, and ignores that
\* either may fail, too.  A write that fails may leave the file empty; a key file
\* that is empty opens as little as the new key does.
RekeyRollback ==
  /\ oldKey # 0
  /\ Outcome(FALSE)
  /\ \E restored, emptied \in BOOLEAN :
       /\ emptied => encFile.key # 0
       /\ keyFile' = IF restored THEN oldKey ELSE keyFile
       /\ encFile' = IF emptied THEN [key |-> Truncated, data |-> NoSecrets] ELSE encFile
       /\ torn' = (torn \/ ~restored \/ emptied)
  /\ oldKey' = 0
  /\ UNCHANGED <<source, legacy, nextKey, stage, data, key, chain, active>>

\* The process ends and its memory with it.
Close ==
  /\ stage # "closed"
  /\ stage' = "closed"
  /\ data' = NoSecrets
  /\ key' = 0
  /\ active' = "file"
  /\ oldKey' = 0
  /\ torn' = (torn \/ oldKey # 0)
  /\ UNCHANGED <<disks, chain>>

SecretsTypeOK ==
  /\ source \in {"file", "env"}
  /\ keyFile \in Keys
  /\ encFile \in [key: Keys \cup {Truncated}, data: Contents]
  /\ legacy \in Contents
  /\ chain \in Contents
  /\ stage \in {"closed", "legacy", "keychain", "open"}
  /\ data \in Contents
  /\ key \in Keys
  /\ active \in {"file", "keychain"}
  /\ oldKey \in Keys
  /\ nextKey \in 1 .. MaxKey + 1
  /\ torn \in BOOLEAN
  /\ faults \in 0 .. MaxFaults

=============================================================================
