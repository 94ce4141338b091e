------------------------------- MODULE Settings -------------------------------
(***************************************************************************)
(* The marshal's configuration and the handlers that change it: setup,     *)
(* PUT config, aliases, routing policies, Splunk HEC and benchmark         *)
(* scheduler policy, and the start of the server (internal/httpapi/        *)
(* server.go, internal/config/config.go, internal/appstate/state.go).      *)
(*                                                                         *)
(* One configuration has many copies: the stored one (store.state.Config), *)
(* which is always normalised, the state file, the running one (s.cfg),    *)
(* and the parts of it that the queue scheduler, the queue tracker and the *)
(* telemetry sink were built with.  A handler takes a snapshot, changes    *)
(* its section and then renews the copies one by one; nothing is locked    *)
(* between the steps, and s.cfg is not locked at all.                      *)
(***************************************************************************)
EXTENDS Integers, Sequences

CONSTANTS
    Handlers,      \* requests the marshal serves at the same time
    Depths,        \* queue depths that a policy update may ask for
    AliasTables,   \* alias tables that an update may carry
    Attempts,      \* max_attempts that a scheduler policy may ask for
    Bodies,        \* configurations that PUT /wrangler/config may carry
    HecTokens,     \* Splunk tokens
    DefaultDepth, DefaultAttempts, LowAttempts, HighAttempts,
    MaxCalls,      \* bound on the updates
    MaxFaults,     \* bound on failed saves and restarts
    None           \* no token, no value, no configuration

Aliases == {"unset", "default", "custom"}
Affinities == {"unset", "soft", "strict"}
Config == [auth : BOOLEAN, ui : BOOLEAN, depth : Int, aliases : Aliases,
           session : Affinities, bench : Int]
Fields == {"auth", "ui", "depth", "aliases", "session", "bench"}

ASSUME SettingsAssumption ==
    /\ Depths \subseteq Int /\ Attempts \subseteq Int
    /\ AliasTables \subseteq Aliases /\ Bodies \subseteq Config
    /\ {DefaultDepth, DefaultAttempts, LowAttempts, HighAttempts} \subseteq Nat \ {0}
    /\ LowAttempts <= DefaultAttempts /\ DefaultAttempts <= HighAttempts
    /\ MaxCalls \in Nat /\ MaxFaults \in Nat
    /\ None \notin HecTokens /\ None \notin Config

Operations == {"recommended", "setup", "config", "aliases", "policies", "hec", "bench", "key"}

VARIABLES
    stored,    \* store.state.Config
    setup,     \* store.state.SetupComplete
    file,      \* state.json: both
    running,   \* s.cfg
    scheduler, \* the capacity of s.queueScheduler
    tracker,   \* the capacity of s.queueMeta
    secret,    \* splunk_hec_token of the secrets store in memory
    secretFile,\* and in its file
    tele,      \* the token of s.tele
    op, todo, copy, tok, \* a handler: its operation, the steps it has still to
               \* do, its copy of the configuration, and the HEC token it got
    solo,      \* history: no other update ran beside h
    stale,     \* history: the configuration was saved since h read it
    slipped,   \* history: a stale copy was saved
    apart,     \* history: the copies that some update may have left behind
    opened,    \* history: PUT config or a stale copy turned authentication off
    last,      \* history: a field in the last update of it that was saved
    calls, faults

config == <<stored, setup, file>>
copies == <<running, scheduler, tracker, secret, secretFile, tele>>
handler == <<op, todo, copy, tok>>
marks == <<solo, stale>>
history == <<slipped, apart, opened, last>>
vars == <<config, copies, handler, marks, history, calls, faults>>
-------------------------------------------------------------------------------
(* Normalisation *)

boundedInt(v, fallback, low, high) ==
    LET w == IF v <= 0 THEN fallback ELSE v
    IN  IF w < low THEN low ELSE IF w > high THEN high ELSE w

NormalizeBenchmarkSchedulerConfig(v) == boundedInt(v, DefaultAttempts, LowAttempts, HighAttempts)

Normalize(c) ==
    [c EXCEPT !.depth = IF @ = 0 THEN DefaultDepth ELSE @,
              !.aliases = IF @ = "unset" THEN "default" ELSE @,
              !.session = IF @ = "unset" THEN "soft" ELSE @,
              !.bench = NormalizeBenchmarkSchedulerConfig(@)]

\* max(1, cfg.Routing.QueueMaxDepth).
Capacity(c) == IF c.depth > 1 THEN c.depth ELSE 1
-------------------------------------------------------------------------------
Idle(h) == todo[h] = <<>>
At(h, step) == ~ Idle(h) /\ Head(todo[h]) = step

Fresh == Normalize([auth |-> FALSE, ui |-> FALSE, depth |-> 0, aliases |-> "unset",
                    session |-> "unset", bench |-> 0])

\* A marshal that was just started, before its setup or after it.
Init ==
    /\ setup \in BOOLEAN
    /\ stored = [Fresh EXCEPT !.auth = setup, !.ui = setup]
    /\ file = [cfg |-> stored, setup |-> setup]
    /\ running = stored
    /\ scheduler = Capacity(stored) /\ tracker = Capacity(stored)
    /\ secret = None
    /\ secretFile = secret /\ tele = secret
    /\ op = [h \in Handlers |-> "config"]
    /\ todo = [h \in Handlers |-> <<>>]
    /\ copy = [h \in Handlers |-> None]
    /\ tok = [h \in Handlers |-> None]
    /\ solo = [h \in Handlers |-> FALSE]
    /\ stale = [h \in Handlers |-> FALSE]
    /\ slipped = FALSE
    /\ apart = {}
    /\ opened = FALSE
    /\ last = [f \in Fields |-> None]
    /\ calls = 0 /\ faults = 0

Fault == faults < MaxFaults /\ faults' = faults + 1
-------------------------------------------------------------------------------
(* The handlers *)

\* The fields that an operation is about.
Section(o) == CASE o = "recommended" -> {"session"}
                [] o = "setup"       -> {"auth", "ui"}
                [] o = "config"      -> Fields
                [] o = "aliases"     -> {"aliases"}
                [] o = "policies"    -> {"depth"}
                [] o = "bench"       -> {"bench"}
                [] o = "key"         -> {"auth"}
                [] o = "hec"         -> {}

\* What each handler makes of its snapshot c; the sets are the requests it may
\* get.  putSplunkHEC changes no field that is kept here.
applyRecommended(c) == {[c EXCEPT !.session = "soft"]}
setupComplete(c) == {[c EXCEPT !.auth = TRUE, !.ui = TRUE]}
putConfig(c) == Bodies
putAliases(c) == {[c EXCEPT !.aliases = a] : a \in AliasTables}
putRoutingPolicies(c) == {Normalize([c EXCEPT !.depth = d]) : d \in Depths}
putSplunkHEC(c) == {c}
putBenchmarkSchedulerPolicy(c) ==
    {[c EXCEPT !.bench = NormalizeBenchmarkSchedulerConfig(a)] : a \in Attempts}
createClientAPIKey(c) == {[c EXCEPT !.auth = TRUE]}

Changes(o, c) ==
    CASE o = "recommended" -> applyRecommended(c)
      [] o = "setup"       -> setupComplete(c)
      [] o = "config"      -> putConfig(c)
      [] o = "aliases"     -> putAliases(c)
      [] o = "policies"    -> putRoutingPolicies(c)
      [] o = "hec"         -> putSplunkHEC(c)
      [] o = "bench"       -> putBenchmarkSchedulerPolicy(c)
      [] o = "key"         -> createClientAPIKey(c)

\* Fault: the tracker is not told of a new depth.
StepsWithoutTracker(o, t) ==
    CASE o = "setup"    -> <<"save", "run", "defaultkey", "mark", "event">>
      [] o = "policies" -> <<"save", "run", "queue">>
      [] o = "hec"      -> IF t = None THEN <<"save", "run", "telemetry">>
                           ELSE <<"secret", "save", "run", "telemetry">>
      [] o = "bench"    -> <<"save", "refresh", "event">>
      [] o = "key"      -> <<"save", "run", "event">>
      [] OTHER          -> <<"save", "run">>

\* Its steps after the snapshot, in order.
Steps(o, t) ==
    CASE o = "setup"    -> <<"save", "run", "defaultkey", "mark", "event">>
      [] o = "policies" -> <<"save", "run", "queue", "tracker">>
      [] o = "hec"      -> IF t = None THEN <<"save", "run", "telemetry">>
                           ELSE <<"secret", "save", "run", "telemetry">>
      [] o = "bench"    -> <<"save", "refresh", "event">>
      [] o = "key"      -> <<"save", "run", "event">>
      [] OTHER          -> <<"save", "run">>

\* These answer 500 when the configuration could not be saved; the others go on.
Strict == {"config", "hec", "bench", "key"}

\* The request is read, and the snapshot taken and changed.  Only a Splunk
\* update carries a token; empty or masked it counts as none.
Begin(h, o, t) ==
    /\ Idle(h)
    /\ calls < MaxCalls /\ calls' = calls + 1
    /\ o # "hec" => t = None
    /\ \E c \in Changes(o, stored) : copy' = [copy EXCEPT ![h] = c]
    /\ op' = [op EXCEPT ![h] = o]
    /\ tok' = [tok EXCEPT ![h] = t]
    /\ todo' = [todo EXCEPT ![h] = Steps(o, t)]
    /\ solo' = [g \in Handlers |-> g = h /\ \A k \in Handlers \ {h} : Idle(k)]
    /\ stale' = [stale EXCEPT ![h] = FALSE]
    /\ apart' = IF o = "config" THEN apart \union {"queue"} ELSE apart
    /\ UNCHANGED <<config, copies, slipped, opened, last, faults>>

\* What an update that ended renews when it ran alone, or may have left behind.
Touched(h) == {"running"} \union (IF op[h] = "policies" THEN {"queue"} ELSE {})
                          \union (IF op[h] = "hec" THEN {"telemetry"} ELSE {})

\* The handlers in H do a step; after the last one a handler answers.
Advance(H) ==
    LET done == {h \in H : Len(todo[h]) = 1}
        renewed == UNION {Touched(h) : h \in done}
    IN  /\ todo' = [h \in Handlers |-> IF h \in H THEN Tail(todo[h]) ELSE todo[h]]
        /\ copy' = [h \in Handlers |-> IF h \in done THEN None ELSE copy[h]]
        /\ tok' = [h \in Handlers |-> IF h \in done THEN None ELSE tok[h]]
        /\ op' = [h \in Handlers |-> IF h \in done THEN "config" ELSE op[h]]
        /\ apart' = IF \A h \in done : solo[h] THEN apart \ renewed ELSE apart \union renewed
        /\ solo' = [h \in Handlers |-> solo[h] /\ h \notin done]

\* h answers 500 and leaves the rest undone.
Abort(h) ==
    /\ todo' = [todo EXCEPT ![h] = <<>>]
    /\ copy' = [copy EXCEPT ![h] = None]
    /\ tok' = [tok EXCEPT ![h] = None]
    /\ op' = [op EXCEPT ![h] = "config"]
    /\ apart' = apart \union Touched(h)
    /\ solo' = [solo EXCEPT ![h] = FALSE]

\* Fault: the configuration is changed in memory only.
SaveConfigUnsaved(h) ==
    /\ At(h, "save")
    /\ stored' = Normalize(copy[h])
    /\ last' = [f \in Fields |-> IF f \in Section(op[h]) THEN stored'[f] ELSE last[f]]
    /\ Advance({h})
    /\ UNCHANGED <<setup, file, copies, stale, slipped, opened, calls, faults>>

\* A handler that has a snapshot and has not saved it yet.
Unsaved(g) == At(g, "save") \/ At(g, "secret")

\* Store.SaveConfig: memory, then the file.
SaveConfig(h) ==
    /\ At(h, "save")
    /\ stored' = Normalize(copy[h])
    /\ slipped' = (slipped \/ stale[h])
    /\ opened' = (~ (copy[h].auth /\ copy[h].ui) /\ (opened \/ stale[h] \/ op[h] = "config"))
    /\ stale' = [g \in Handlers |-> g # h /\ (stale[g] \/ (op[g] # "config" /\ Unsaved(g)))]
    /\ \E saved \in BOOLEAN :
          /\ last' = [f \in Fields |-> IF f \notin Section(op[h]) THEN last[f]
                                       ELSE IF saved THEN stored'[f] ELSE None]
          /\ \/ saved /\ file' = [cfg |-> stored', setup |-> setup] /\ UNCHANGED faults
             \/ ~ saved /\ Fault /\ UNCHANGED file
          /\ IF saved \/ op[h] \notin Strict THEN Advance({h}) ELSE Abort(h)
    /\ UNCHANGED <<setup, copies, calls>>

\* s.cfg = cfg, not normalised for PUT config and PUT aliases.
Run(h) ==
    /\ At(h, "run")
    /\ running' = copy[h]
    /\ Advance({h})
    /\ UNCHANGED <<config, scheduler, tracker, secret, secretFile, tele, stale, slipped, opened, last, calls, faults>>

\* Two handlers assign s.cfg at once: each field is that of one of them.
RunTorn(h, g) ==
    /\ h # g /\ At(h, "run") /\ At(g, "run")
    /\ \E F \in SUBSET Fields :
          running' = [f \in Fields |-> IF f \in F THEN copy[h][f] ELSE copy[g][f]]
    /\ Advance({h, g})
    /\ UNCHANGED <<config, scheduler, tracker, secret, secretFile, tele, stale, slipped, opened, last, calls, faults>>

\* putBenchmarkSchedulerPolicy: s.cfg is a new snapshot.
Refresh(h) ==
    /\ At(h, "refresh")
    /\ running' = stored
    /\ Advance({h})
    /\ UNCHANGED <<config, scheduler, tracker, secret, secretFile, tele, stale, slipped, opened, last, calls, faults>>

ConfigureQueue(h) ==
    /\ At(h, "queue")
    /\ scheduler' = Capacity(copy[h])
    /\ Advance({h})
    /\ UNCHANGED <<config, running, tracker, secret, secretFile, tele, stale, slipped, opened, last, calls, faults>>

ConfigureTracker(h) ==
    /\ At(h, "tracker")
    /\ tracker' = Capacity(copy[h])
    /\ Advance({h})
    /\ UNCHANGED <<config, running, scheduler, secret, secretFile, tele, stale, slipped, opened, last, calls, faults>>

\* secrets.Set; when the save fails memory keeps the token and h answers 500.
SetSecret(h) ==
    /\ At(h, "secret")
    /\ secret' = tok[h]
    /\ \/ secretFile' = tok[h] /\ Advance({h}) /\ UNCHANGED faults
       \/ Fault /\ Abort(h) /\ UNCHANGED secretFile
    /\ UNCHANGED <<config, running, scheduler, tracker, tele, stale, slipped, opened, last, calls>>

\* telemetry.New: with the token of the request; a snapshot carries none.
NewTelemetry(h) ==
    /\ At(h, "telemetry")
    /\ tele' = tok[h]
    /\ Advance({h})
    /\ UNCHANGED <<config, running, scheduler, tracker, secret, secretFile, stale, slipped, opened, last, calls, faults>>

\* ensureDefaultClientKey (see ClientKeys), which may fail with 500.
EnsureDefaultKey(h) ==
    /\ At(h, "defaultkey")
    /\ \/ Advance({h}) /\ UNCHANGED faults
       \/ Fault /\ Abort(h)
    /\ UNCHANGED <<config, copies, stale, slipped, opened, last, calls>>

\* SetSetupComplete, whose error is dropped.
MarkComplete(h) ==
    /\ At(h, "mark")
    /\ setup' = TRUE
    /\ \/ file' = [cfg |-> stored, setup |-> TRUE] /\ UNCHANGED faults
       \/ Fault /\ UNCHANGED file
    /\ Advance({h})
    /\ UNCHANGED <<stored, copies, stale, slipped, opened, last, calls>>

\* The handler's own event (telemetry.Emit, AddAudit) saves the state once
\* more; its error is dropped too.
EmitEvent(h) ==
    /\ At(h, "event")
    /\ \/ file' = [cfg |-> stored, setup |-> setup] /\ UNCHANGED faults
       \/ Fault /\ UNCHANGED file
    /\ Advance({h})
    /\ UNCHANGED <<stored, setup, copies, stale, slipped, opened, last, calls>>
-------------------------------------------------------------------------------
(* The rest of the marshal *)

\* An event of some other request saves the whole state (AddAudit).
AuditEvent ==
    /\ file # [cfg |-> stored, setup |-> setup]
    /\ file' = [cfg |-> stored, setup |-> setup]
    /\ UNCHANGED <<stored, setup, copies, handler, marks, history, calls, faults>>

\* Fault: a start takes the flags as the file has them.
StartedAsStored(f) == f.cfg

\* NewServer: of a marshal that is set up, authentication is on whatever the
\* file says.
Started(f) == IF f.setup THEN [f.cfg EXCEPT !.auth = TRUE, !.ui = TRUE] ELSE f.cfg

\* The marshal ends and starts again: load, NewServer, and a save that must
\* succeed.  A start that fails is followed by another one.
Restart ==
    /\ Fault
    /\ setup' = file.setup
    /\ stored' = Normalize(Started(file))
    /\ file' = [file EXCEPT !.cfg = stored']
    /\ running' = stored'
    /\ scheduler' = Capacity(file.cfg) /\ tracker' = Capacity(file.cfg)
    /\ secret' = secretFile /\ tele' = secretFile /\ UNCHANGED secretFile
    /\ op' = [h \in Handlers |-> "config"]
    /\ todo' = [h \in Handlers |-> <<>>]
    /\ copy' = [h \in Handlers |-> None]
    /\ tok' = [h \in Handlers |-> None]
    /\ solo' = [h \in Handlers |-> FALSE]
    /\ stale' = [h \in Handlers |-> FALSE]
    /\ apart' = {}
    /\ opened' = FALSE
    /\ last' = [last EXCEPT !["auth"] = None, !["ui"] = None]
    /\ UNCHANGED <<slipped, calls>>

Next ==
    \/ \E h \in Handlers :
         \/ \E o \in Operations, t \in HecTokens \union {None} : Begin(h, o, t)
         \/ SaveConfig(h) \/ Run(h) \/ Refresh(h)
         \/ \E g \in Handlers : RunTorn(h, g)
         \/ ConfigureQueue(h) \/ ConfigureTracker(h)
         \/ SetSecret(h) \/ NewTelemetry(h)
         \/ EnsureDefaultKey(h) \/ MarkComplete(h) \/ EmitEvent(h)
    \/ AuditEvent
    \/ Restart

Spec == Init /\ [][Next]_vars
-------------------------------------------------------------------------------
(* Properties *)

\* Every variable keeps its type.
TypeOK ==
    /\ stored \in Config
    /\ setup \in BOOLEAN
    /\ file.cfg \in Config /\ file.setup \in BOOLEAN
    /\ running \in Config
    /\ scheduler \in Nat \ {0} /\ tracker \in Nat \ {0}
    /\ {secret, secretFile, tele} \subseteq HecTokens \union {None}
    /\ \A h \in Handlers : op[h] \in Operations /\ (copy[h] = None \/ copy[h] \in Config)
    /\ apart \subseteq {"running", "queue", "telemetry"}
    /\ calls \in 0..MaxCalls /\ faults \in 0..MaxFaults

\* What is stored is normalised, so the bounds of config.go hold for it.
StoredIsNormal == Normalize(stored) = stored /\ stored.bench \in LowAttempts..HighAttempts

Settled(part) == part \notin apart /\ \A h \in Handlers : Idle(h)

\* Between updates the marshal runs with the configuration it has stored,
\* unless the last update overlapped another one or failed; the next update
\* that runs alone, or a restart, brings the two together again, whatever the
\* ones before it did (every handler that assigns s.cfg).
RunningIsStored == Settled("running") => Normalize(running) = stored

\* The scheduler and the tracker have the capacity of the stored policy unless
\* it was replaced by PUT config, which does not configure them, by a stale
\* copy, or by overlapping policy updates; a policy update that runs alone and
\* a restart repair that (putRoutingPolicies, NewServer).
QueueFollowsPolicy ==
    Settled("queue") /\ ~ slipped => scheduler = Capacity(stored) /\ tracker = Capacity(stored)

\* Telemetry never sends a token other than the stored one: after a Splunk
\* update that ran alone and was answered, and after a restart, it has that
\* token or none (putSplunkHEC, NewServer).
TelemetryHasCurrentToken == Settled("telemetry") => tele \in {None, secret}

\* The copies of the configuration follow the stored one: the four parts above,
\* each excepting only the updates that really leave its copy behind.
CopiesFollowStored ==
    TypeOK /\ StoredIsNormal /\ RunningIsStored /\ QueueFollowsPolicy /\ TelemetryHasCurrentToken

\* A marshal that is set up asks for credentials at every moment, from the
\* completion of the setup on and after every restart, whichever saves failed,
\* but after PUT config turned authentication off, or after an update saved a
\* copy it had read before authentication was on, until an update saves it on
\* again.  The second exception is what this code does (server.go:380): the
\* property says that no other order of steps opens the marshal
\* (setupComplete, NewServer, requireAdmin).
SetupStaysLocked == setup /\ ~ opened => stored.auth /\ stored.ui

\* What the last update of a field saved is what memory and file say, whatever
\* other updates, failed saves and restarts came after it, as long as no stale
\* copy was saved (SaveConfig, load).
SavedUpdateStands ==
    ~ slipped => \A f \in Fields : last[f] # None => stored[f] = last[f] /\ file.cfg[f] = last[f]
===============================================================================
