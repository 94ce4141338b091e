---------------------------- MODULE SettingsProofs ----------------------------
(***************************************************************************)
(* The settings of the marshal, for any number of handlers, updates,       *)
(* failed saves and restarts: a marshal that is set up stays locked, what  *)
(* an update saved stands, and the copies of the configuration follow the  *)
(* stored one.                                                             *)
(***************************************************************************)
EXTENDS Settings, SequenceTheorems, TLAPS

StepNames == {"secret", "save", "run", "refresh", "queue", "tracker", "telemetry",
              "defaultkey", "mark", "event"}

\* The shape of the variables that the lock depends on.
Shape ==
    /\ stored \in Config
    /\ setup \in BOOLEAN
    /\ file \in [cfg : Config, setup : BOOLEAN]
    /\ op \in [Handlers -> Operations]
    /\ todo \in [Handlers -> Seq(StepNames)]
    /\ copy \in [Handlers -> Config \union {None}]
    /\ stale \in [Handlers -> BOOLEAN]
    /\ opened \in BOOLEAN

On(c) == c.auth = TRUE /\ c.ui = TRUE

Pending(t) == t # <<>> /\ Head(t) \in {"save", "secret"}

\* A save comes first, or second after the secret, and only setup marks.
Ordered(t, o) ==
    /\ \A i \in 2..Len(t) : t[i] # "secret" /\ (t[i] = "save" => i = 2 /\ t[1] = "secret")
    /\ t # <<>> /\ t[1] = "secret" => Len(t) > 1 /\ t[2] = "save"
    /\ \A i \in 1..Len(t) : t[i] = "mark" => o = "setup"

\* What follows what: s.cfg is set right after the save, the tracker is told
\* right after the scheduler and at the end of a policy update, telemetry is
\* renewed at the end of a Splunk update; only these updates have these steps.
Linked(t, o) ==
    \A i \in 1..Len(t) :
       /\ t[i] = "save" => i < Len(t) /\ t[i + 1] \in {"run", "refresh"}
       /\ t[i] \in {"queue", "tracker"} => o = "policies"
       /\ t[i] \in {"secret", "telemetry"} => o = "hec"
       /\ i < Len(t) /\ t[i + 1] = "tracker" => t[i] = "queue"
       /\ i = Len(t) /\ o = "policies" => t[i] = "tracker"
       /\ i = Len(t) /\ o = "hec" => t[i] = "telemetry"

\* What a handler with steps t, operation o, copy c and mark s knows of the
\* configuration cfg: before its save, that it does not turn the lock off,
\* unless the configuration was saved meanwhile; setup, after its save, that
\* the lock is on.
Knows(t, o, c, s, cfg, open) ==
    /\ Ordered(t, o)
    /\ t # <<>> => c \in Config
    /\ Pending(t) /\ o # "config" /\ s = FALSE => (On(cfg) => On(c))
    /\ Pending(t) /\ o = "setup" => On(c)
    /\ t # <<>> /\ ~ Pending(t) /\ o = "setup" /\ open = FALSE => On(cfg)

Handler(h) == Knows(todo[h], op[h], copy[h], stale[h], stored, opened)

\* The inductive invariant.
LockInv ==
    /\ Shape
    /\ \A h \in Handlers : Handler(h)
    /\ SetupStaysLocked
-------------------------------------------------------------------------------
(* Normalisation *)

\* The bounds hold for whatever number comes in, and a second time changes nothing.
LEMMA BoundedIntInRange ==
    ASSUME NEW v \in Int
    PROVE  LET w == NormalizeBenchmarkSchedulerConfig(v)
           IN  /\ w \in LowAttempts..HighAttempts
               /\ NormalizeBenchmarkSchedulerConfig(w) = w
  BY SettingsAssumption DEF NormalizeBenchmarkSchedulerConfig, boundedInt

\* Normalisation gives a configuration and keeps the lock.
LEMMA NormalizeFacts ==
    ASSUME NEW c \in Config
    PROVE  /\ Normalize(c) \in Config
           /\ Normalize(c).auth = c.auth /\ Normalize(c).ui = c.ui
<1> DEFINE w == NormalizeBenchmarkSchedulerConfig(c.bench)
           x == IF c.depth = 0 THEN DefaultDepth ELSE c.depth
           y == IF c.aliases = "unset" THEN "default" ELSE c.aliases
           z == IF c.session = "unset" THEN "soft" ELSE c.session
           d == [auth |-> c.auth, ui |-> c.ui, depth |-> x, aliases |-> y,
                 session |-> z, bench |-> w]
<1>1. w \in Int
  BY BoundedIntInRange, SettingsAssumption DEF Config
<1>2. x \in Int
  BY SettingsAssumption DEF Config
<1>3. y \in Aliases /\ z \in Affinities
  BY DEF Config, Aliases, Affinities
<1>4. c = [auth |-> c.auth, ui |-> c.ui, depth |-> c.depth, aliases |-> c.aliases,
           session |-> c.session, bench |-> c.bench]
  BY DEF Config
<1>5. Normalize(c) = [c EXCEPT !.depth = x, !.aliases = y, !.session = z, !.bench = w]
  BY <1>4 DEF Normalize
<1> HIDE DEF w, x, y, z
<1>6. Normalize(c) = d
  BY <1>4, <1>5
<1> QED
  BY <1>1, <1>2, <1>3, <1>6 DEF Config

\* A configuration before any setup.
LEMMA FreshFacts == Fresh \in Config
<1> DEFINE c == [auth |-> FALSE, ui |-> FALSE, depth |-> 0, aliases |-> "unset",
                 session |-> "unset", bench |-> 0]
<1>1. c \in Config
  BY DEF Config, Aliases, Affinities
<1> QED
  BY <1>1, NormalizeFacts DEF Fresh

\* No update but PUT config turns the lock off, and setup turns it on.
LEMMA ChangeFacts ==
    ASSUME NEW o \in Operations, NEW c \in Config, NEW d \in Changes(o, c)
    PROVE  /\ d \in Config
           /\ o # "config" => (On(c) => On(d))
           /\ o = "setup" => On(d)
<1>1. CASE o = "recommended"
  <2>1. d = [c EXCEPT !.session = "soft"]
    BY <1>1 DEF Changes, applyRecommended
  <2> QED
    BY <1>1, <2>1 DEF Config, Affinities, On
<1>2. CASE o = "setup"
  <2>1. d = [c EXCEPT !.auth = TRUE, !.ui = TRUE]
    BY <1>2 DEF Changes, setupComplete
  <2> QED
    BY <1>2, <2>1 DEF Config, On
<1>3. CASE o = "config"
  BY <1>3, SettingsAssumption DEF Changes, putConfig
<1>4. CASE o = "aliases"
  <2>1. PICK a \in AliasTables : d = [c EXCEPT !.aliases = a]
    BY <1>4 DEF Changes, putAliases
  <2> QED
    BY <1>4, <2>1, SettingsAssumption DEF Config, On
<1>5. CASE o = "policies"
  <2>1. PICK n \in Depths : d = Normalize([c EXCEPT !.depth = n])
    BY <1>5 DEF Changes, putRoutingPolicies
  <2>2. PICK e : e = [c EXCEPT !.depth = n]
    OBVIOUS
  <2>3. e \in Config /\ e.auth = c.auth /\ e.ui = c.ui
    BY <2>2, SettingsAssumption DEF Config
  <2>4. d \in Config /\ d.auth = e.auth /\ d.ui = e.ui
    BY <2>1, <2>2, <2>3, NormalizeFacts
  <2> QED
    BY <1>5, <2>3, <2>4 DEF On
<1>6. CASE o = "hec"
  BY <1>6 DEF Changes, putSplunkHEC
<1>7. CASE o = "bench"
  <2>1. PICK a \in Attempts : d = [c EXCEPT !.bench = NormalizeBenchmarkSchedulerConfig(a)]
    BY <1>7 DEF Changes, putBenchmarkSchedulerPolicy
  <2>2. NormalizeBenchmarkSchedulerConfig(a) \in Int
    BY BoundedIntInRange, SettingsAssumption
  <2> QED
    BY <1>7, <2>1, <2>2 DEF Config, On
<1>8. CASE o = "key"
  <2>1. d = [c EXCEPT !.auth = TRUE]
    BY <1>8 DEF Changes, createClientAPIKey
  <2> QED
    BY <1>8, <2>1 DEF Config, On
<1> QED
  BY <1>1, <1>2, <1>3, <1>4, <1>5, <1>6, <1>7, <1>8 DEF Operations
-------------------------------------------------------------------------------
(* A handler's steps *)

\* A list with a step has a first one.
LEMMA NonEmptyFacts ==
    ASSUME NEW s \in Seq(StepNames), Len(s) > 0
    PROVE  s # <<>> /\ Head(s) = s[1]
<1>1. s # <<>>
  BY EmptySeq
<1> QED
  BY <1>1

\* The steps of every handler are ordered, and its save is still to come.
LEMMA StepsFacts ==
    ASSUME NEW o \in Operations, NEW t
    PROVE  /\ Steps(o, t) \in Seq(StepNames)
           /\ Ordered(Steps(o, t), o) /\ Linked(Steps(o, t), o)
           /\ Pending(Steps(o, t))
           /\ o = "hec" /\ t # None => Head(Steps(o, t)) = "secret"
<1>1. CASE o = "setup"
  <2>1. PICK s : s = <<"save", "run", "defaultkey", "mark", "event">>
    OBVIOUS
  <2>2. Steps(o, t) = s
    BY <1>1, <2>1 DEF Steps
  <2>3. s \in Seq(StepNames) /\ Len(s) = 5
    <3>1. <<"save", "run", "defaultkey", "mark", "event">> \in Seq(StepNames)
      BY DEF StepNames
    <3>2. Len(<<"save", "run", "defaultkey", "mark", "event">>) = 5
      OBVIOUS
    <3> QED
      BY <2>1, <3>1, <3>2
  <2>4. s[1] = "save" /\ s[2] = "run" /\ s[3] = "defaultkey" /\ s[4] = "mark" /\ s[5] = "event"
    BY <2>1
  <2>5. \A i \in 1..Len(s) : i = 1 \/ i = 2 \/ i = 3 \/ i = 4 \/ i = 5
    BY <2>3
  <2>6. s # <<>> /\ Head(s) = s[1]
    BY <2>3, NonEmptyFacts
  <2>7. Ordered(s, o) /\ Pending(s)
    BY <1>1, <2>3, <2>4, <2>5, <2>6 DEF Ordered, Pending
  <2>8. Linked(s, o)
    BY <1>1, <2>3, <2>4, <2>5 DEF Linked
  <2> QED
    BY <1>1, <2>2, <2>3, <2>4, <2>6, <2>7, <2>8
<1>2. CASE o = "policies"
  <2>1. PICK s : s = <<"save", "run", "queue", "tracker">>
    OBVIOUS
  <2>2. Steps(o, t) = s
    BY <1>2, <2>1 DEF Steps
  <2>3. s \in Seq(StepNames) /\ Len(s) = 4
    <3>1. <<"save", "run", "queue", "tracker">> \in Seq(StepNames)
      BY DEF StepNames
    <3>2. Len(<<"save", "run", "queue", "tracker">>) = 4
      OBVIOUS
    <3> QED
      BY <2>1, <3>1, <3>2
  <2>4. s[1] = "save" /\ s[2] = "run" /\ s[3] = "queue" /\ s[4] = "tracker"
    BY <2>1
  <2>5. \A i \in 1..Len(s) : i = 1 \/ i = 2 \/ i = 3 \/ i = 4
    BY <2>3
  <2>6. s # <<>> /\ Head(s) = s[1]
    BY <2>3, NonEmptyFacts
  <2>7. Ordered(s, o) /\ Pending(s)
    BY <1>2, <2>3, <2>4, <2>5, <2>6 DEF Ordered, Pending
  <2>8. Linked(s, o)
    BY <1>2, <2>3, <2>4, <2>5 DEF Linked
  <2> QED
    BY <1>2, <2>2, <2>3, <2>4, <2>6, <2>7, <2>8
<1>3. CASE o = "hec" /\ t = None
  <2>1. PICK s : s = <<"save", "run", "telemetry">>
    OBVIOUS
  <2>2. Steps(o, t) = s
    BY <1>3, <2>1 DEF Steps
  <2>3. s \in Seq(StepNames) /\ Len(s) = 3
    <3>1. <<"save", "run", "telemetry">> \in Seq(StepNames)
      BY DEF StepNames
    <3>2. Len(<<"save", "run", "telemetry">>) = 3
      OBVIOUS
    <3> QED
      BY <2>1, <3>1, <3>2
  <2>4. s[1] = "save" /\ s[2] = "run" /\ s[3] = "telemetry"
    BY <2>1
  <2>5. \A i \in 1..Len(s) : i = 1 \/ i = 2 \/ i = 3
    BY <2>3
  <2>6. s # <<>> /\ Head(s) = s[1]
    BY <2>3, NonEmptyFacts
  <2>7. Ordered(s, o) /\ Pending(s)
    BY <1>3, <2>3, <2>4, <2>5, <2>6 DEF Ordered, Pending
  <2>8. Linked(s, o)
    BY <1>3, <2>3, <2>4, <2>5 DEF Linked
  <2> QED
    BY <1>3, <2>2, <2>3, <2>4, <2>6, <2>7, <2>8
<1>4. CASE o = "hec" /\ t # None
  <2>1. PICK s : s = <<"secret", "save", "run", "telemetry">>
    OBVIOUS
  <2>2. Steps(o, t) = s
    BY <1>4, <2>1 DEF Steps
  <2>3. s \in Seq(StepNames) /\ Len(s) = 4
    <3>1. <<"secret", "save", "run", "telemetry">> \in Seq(StepNames)
      BY DEF StepNames
    <3>2. Len(<<"secret", "save", "run", "telemetry">>) = 4
      OBVIOUS
    <3> QED
      BY <2>1, <3>1, <3>2
  <2>4. s[1] = "secret" /\ s[2] = "save" /\ s[3] = "run" /\ s[4] = "telemetry"
    BY <2>1
  <2>5. \A i \in 1..Len(s) : i = 1 \/ i = 2 \/ i = 3 \/ i = 4
    BY <2>3
  <2>6. s # <<>> /\ Head(s) = s[1]
    BY <2>3, NonEmptyFacts
  <2>7. Ordered(s, o) /\ Pending(s)
    BY <1>4, <2>3, <2>4, <2>5, <2>6 DEF Ordered, Pending
  <2>8. Linked(s, o)
    BY <1>4, <2>3, <2>4, <2>5 DEF Linked
  <2> QED
    BY <1>4, <2>2, <2>3, <2>4, <2>6, <2>7, <2>8
<1>5. CASE o = "bench"
  <2>1. PICK s : s = <<"save", "refresh", "event">>
    OBVIOUS
  <2>2. Steps(o, t) = s
    BY <1>5, <2>1 DEF Steps
  <2>3. s \in Seq(StepNames) /\ Len(s) = 3
    <3>1. <<"save", "refresh", "event">> \in Seq(StepNames)
      BY DEF StepNames
    <3>2. Len(<<"save", "refresh", "event">>) = 3
      OBVIOUS
    <3> QED
      BY <2>1, <3>1, <3>2
  <2>4. s[1] = "save" /\ s[2] = "refresh" /\ s[3] = "event"
    BY <2>1
  <2>5. \A i \in 1..Len(s) : i = 1 \/ i = 2 \/ i = 3
    BY <2>3
  <2>6. s # <<>> /\ Head(s) = s[1]
    BY <2>3, NonEmptyFacts
  <2>7. Ordered(s, o) /\ Pending(s)
    BY <1>5, <2>3, <2>4, <2>5, <2>6 DEF Ordered, Pending
  <2>8. Linked(s, o)
    BY <1>5, <2>3, <2>4, <2>5 DEF Linked
  <2> QED
    BY <1>5, <2>2, <2>3, <2>4, <2>6, <2>7, <2>8
<1>6. CASE o = "key"
  <2>1. PICK s : s = <<"save", "run", "event">>
    OBVIOUS
  <2>2. Steps(o, t) = s
    BY <1>6, <2>1 DEF Steps
  <2>3. s \in Seq(StepNames) /\ Len(s) = 3
    <3>1. <<"save", "run", "event">> \in Seq(StepNames)
      BY DEF StepNames
    <3>2. Len(<<"save", "run", "event">>) = 3
      OBVIOUS
    <3> QED
      BY <2>1, <3>1, <3>2
  <2>4. s[1] = "save" /\ s[2] = "run" /\ s[3] = "event"
    BY <2>1
  <2>5. \A i \in 1..Len(s) : i = 1 \/ i = 2 \/ i = 3
    BY <2>3
  <2>6. s # <<>> /\ Head(s) = s[1]
    BY <2>3, NonEmptyFacts
  <2>7. Ordered(s, o) /\ Pending(s)
    BY <1>6, <2>3, <2>4, <2>5, <2>6 DEF Ordered, Pending
  <2>8. Linked(s, o)
    BY <1>6, <2>3, <2>4, <2>5 DEF Linked
  <2> QED
    BY <1>6, <2>2, <2>3, <2>4, <2>6, <2>7, <2>8
<1>7. CASE o \in {"recommended", "config", "aliases"}
  <2>1. PICK s : s = <<"save", "run">>
    OBVIOUS
  <2>2. Steps(o, t) = s
    BY <1>7, <2>1 DEF Steps
  <2>3. s \in Seq(StepNames) /\ Len(s) = 2
    <3>1. <<"save", "run">> \in Seq(StepNames)
      BY DEF StepNames
    <3>2. Len(<<"save", "run">>) = 2
      OBVIOUS
    <3> QED
      BY <2>1, <3>1, <3>2
  <2>4. s[1] = "save" /\ s[2] = "run"
    BY <2>1
  <2>5. \A i \in 1..Len(s) : i = 1 \/ i = 2
    BY <2>3
  <2>6. s # <<>> /\ Head(s) = s[1]
    BY <2>3, NonEmptyFacts
  <2>7. Ordered(s, o) /\ Pending(s)
    BY <1>7, <2>3, <2>4, <2>5, <2>6 DEF Ordered, Pending
  <2>8. Linked(s, o)
    BY <1>7, <2>3, <2>4, <2>5 DEF Linked
  <2> QED
    BY <1>7, <2>2, <2>3, <2>4, <2>6, <2>7, <2>8
<1> QED
  BY <1>1, <1>2, <1>3, <1>4, <1>5, <1>6, <1>7 DEF Operations

\* What is left after a step is ordered; a save is pending if it was, and the
\* step was not the save.
LEMMA TailFacts ==
    ASSUME NEW t \in Seq(StepNames), t # <<>>, NEW o, Ordered(t, o)
    PROVE  /\ Tail(t) \in Seq(StepNames)
           /\ Len(t) = 1 <=> Tail(t) = <<>>
           /\ Ordered(Tail(t), o)
           /\ Head(t) # "save" => (Pending(Tail(t)) <=> Pending(t))
           /\ Head(t) = "save" => ~ Pending(Tail(t))
<1>1. /\ Tail(t) \in Seq(StepNames)
      /\ Len(t) \in Nat \ {0} /\ Len(Tail(t)) = Len(t) - 1
      /\ \A i \in 1..Len(Tail(t)) : Tail(t)[i] = t[i + 1]
      /\ Head(t) = t[1]
  OBVIOUS
<1>2. Len(t) = 1 <=> Tail(t) = <<>>
  <2>1. \A q \in Seq(StepNames) : q = <<>> <=> Len(q) = 0
    BY EmptySeq
  <2>2. Len(t) = 1 <=> Len(Tail(t)) = 0
    BY <1>1
  <2> QED
    BY <1>1, <2>1, <2>2
<1>3. Tail(t) # <<>> => Head(Tail(t)) = t[2] /\ 2 \in 2..Len(t)
  BY <1>1, <1>2
<1>4. ASSUME NEW i \in 2..Len(Tail(t))
      PROVE  Tail(t)[i] # "secret" /\ Tail(t)[i] # "save"
  <2>1. Tail(t)[i] = t[i + 1] /\ i + 1 \in 2..Len(t) /\ i + 1 # 2
    BY <1>1, <1>4
  <2> QED
    BY <2>1 DEF Ordered
<1>5. Tail(t) # <<>> => Tail(t)[1] # "secret"
  <2> SUFFICES ASSUME Tail(t) # <<>> PROVE Tail(t)[1] # "secret"
    OBVIOUS
  <2>1. Tail(t)[1] = t[2] /\ 2 \in 2..Len(t)
    BY <1>1, <1>2
  <2> QED
    BY <2>1 DEF Ordered
<1>6. ASSUME NEW i \in 1..Len(Tail(t)), Tail(t)[i] = "mark"
      PROVE  o = "setup"
  <2>1. Tail(t)[i] = t[i + 1] /\ i + 1 \in 1..Len(t)
    BY <1>1, <1>6
  <2> QED
    BY <1>6, <2>1 DEF Ordered
<1>7. Ordered(Tail(t), o)
  BY <1>4, <1>5, <1>6 DEF Ordered
<1>8. Tail(t) # <<>> => (Head(Tail(t)) # "secret" /\ (Head(Tail(t)) = "save" => Head(t) = "secret"))
  BY <1>1, <1>3 DEF Ordered
<1>9. Head(t) = "secret" => Tail(t) # <<>> /\ Head(Tail(t)) = "save"
  BY <1>1, <1>2, <1>3 DEF Ordered
<1> QED
  BY <1>1, <1>2, <1>7, <1>8, <1>9 DEF Pending

\* A handler without a step left knows nothing.
LEMMA KnowsIdle ==
    ASSUME NEW c, NEW s, NEW cfg, NEW open
    PROVE  Knows(<<>>, "config", c, s, cfg, open)
  BY DEF Knows, Ordered, Pending

\* A step other than the save leaves a handler what it knows.
LEMMA KnowsTail ==
    ASSUME NEW t \in Seq(StepNames), t # <<>>, Head(t) # "save",
           NEW o, NEW c, NEW s, NEW cfg, NEW open,
           Knows(t, o, c, s, cfg, open)
    PROVE  Knows(Tail(t), o, c, s, cfg, open)
  BY TailFacts DEF Knows

\* The steps that Advance leaves undone are the tails.
LEMMA AdvanceShape ==
    ASSUME Shape, NEW H \in SUBSET Handlers, \A h \in H : todo[h] # <<>>,
           \A h \in Handlers : Ordered(todo[h], op[h]), Advance(H)
    PROVE  /\ todo' \in [Handlers -> Seq(StepNames)]
           /\ op' \in [Handlers -> Operations]
           /\ copy' \in [Handlers -> Config \union {None}]
           /\ \A h \in Handlers \ H : todo'[h] = todo[h] /\ op'[h] = op[h] /\ copy'[h] = copy[h]
           /\ \A h \in H : \/ todo'[h] = <<>> /\ op'[h] = "config"
                           \/ todo'[h] = Tail(todo[h]) /\ op'[h] = op[h] /\ copy'[h] = copy[h]
<1>1. \A h \in H : Tail(todo[h]) \in Seq(StepNames) /\ (Len(todo[h]) = 1 => Tail(todo[h]) = <<>>)
  BY TailFacts DEF Shape
<1>2. todo' = [h \in Handlers |-> IF h \in H THEN Tail(todo[h]) ELSE todo[h]]
  BY DEF Advance
<1>3. todo' \in [Handlers -> Seq(StepNames)]
  BY <1>1, <1>2 DEF Shape
<1>4. op' = [h \in Handlers |-> IF h \in H /\ Len(todo[h]) = 1 THEN "config" ELSE op[h]]
  BY Zenon DEF Advance
<1>5. copy' = [h \in Handlers |-> IF h \in H /\ Len(todo[h]) = 1 THEN None ELSE copy[h]]
  BY Zenon DEF Advance
<1>6. op' \in [Handlers -> Operations]
  BY <1>4 DEF Shape, Operations
<1>7. copy' \in [Handlers -> Config \union {None}]
  BY <1>5 DEF Shape
<1>8. ASSUME NEW h \in Handlers \ H
      PROVE  todo'[h] = todo[h] /\ op'[h] = op[h] /\ copy'[h] = copy[h]
  BY <1>2, <1>4, <1>5
<1>9. ASSUME NEW h \in H
      PROVE  \/ todo'[h] = <<>> /\ op'[h] = "config"
             \/ todo'[h] = Tail(todo[h]) /\ op'[h] = op[h] /\ copy'[h] = copy[h]
  BY <1>1, <1>2, <1>4, <1>5
<1> QED
  BY <1>3, <1>6, <1>7, <1>8, <1>9

\* A handler that answers early is idle.
LEMMA AbortShape ==
    ASSUME Shape, NEW h \in Handlers, Abort(h)
    PROVE  /\ todo' \in [Handlers -> Seq(StepNames)]
           /\ op' \in [Handlers -> Operations]
           /\ copy' \in [Handlers -> Config \union {None}]
           /\ \A g \in Handlers \ {h} : todo'[g] = todo[g] /\ op'[g] = op[g] /\ copy'[g] = copy[g]
           /\ todo'[h] = <<>> /\ op'[h] = "config"
<1>1. todo' = [todo EXCEPT ![h] = <<>>] /\ op' = [op EXCEPT ![h] = "config"] /\ copy' = [copy EXCEPT ![h] = None]
  BY DEF Abort
<1>2. <<>> \in Seq(StepNames) /\ "config" \in Operations
  BY DEF Operations
<1> QED
  BY <1>1, <1>2 DEF Shape

HandlerShape ==
    /\ todo \in [Handlers -> Seq(StepNames)]
    /\ op \in [Handlers -> Operations]
    /\ copy \in [Handlers -> Config \union {None}]

\* Steps other than a save, of handlers that go on or answer.
LEMMA QuietAdvance ==
    ASSUME LockInv, NEW H \in SUBSET Handlers,
           \A h \in H : todo[h] # <<>> /\ Head(todo[h]) # "save",
           Advance(H), stored' = stored, opened' = opened, stale' = stale
    PROVE  HandlerShape' /\ \A h \in Handlers : Handler(h)'
<1>1. Shape /\ \A h \in Handlers : Handler(h)
  BY DEF LockInv
<1>2. \A h \in Handlers : Ordered(todo[h], op[h])
  BY <1>1 DEF Handler, Knows
<1>3. /\ todo' \in [Handlers -> Seq(StepNames)]
      /\ op' \in [Handlers -> Operations]
      /\ copy' \in [Handlers -> Config \union {None}]
      /\ \A h \in Handlers \ H : todo'[h] = todo[h] /\ op'[h] = op[h] /\ copy'[h] = copy[h]
      /\ \A h \in H : \/ todo'[h] = <<>> /\ op'[h] = "config"
                      \/ todo'[h] = Tail(todo[h]) /\ op'[h] = op[h] /\ copy'[h] = copy[h]
  BY <1>1, <1>2, AdvanceShape
<1>4. ASSUME NEW h \in Handlers
      PROVE  Knows(todo'[h], op'[h], copy'[h], stale[h], stored, opened)
  <2>1. Knows(todo[h], op[h], copy[h], stale[h], stored, opened)
    BY <1>1 DEF Handler
  <2>2. CASE h \notin H
    BY <1>3, <2>1, <2>2
  <2>3. CASE h \in H /\ todo'[h] = <<>> /\ op'[h] = "config"
    BY <2>3, KnowsIdle
  <2>4. CASE h \in H /\ todo'[h] = Tail(todo[h]) /\ op'[h] = op[h] /\ copy'[h] = copy[h]
    <3>1. todo[h] \in Seq(StepNames) /\ todo[h] # <<>> /\ Head(todo[h]) # "save"
      BY <1>1, <2>4 DEF Shape
    <3>2. Knows(Tail(todo[h]), op[h], copy[h], stale[h], stored, opened)
      BY <2>1, <3>1, KnowsTail
    <3> QED
      BY <2>4, <3>2
  <2> QED
    BY <1>3, <2>2, <2>3, <2>4
<1>5. \A h \in Handlers : Handler(h)'
  BY <1>4 DEF Handler
<1> QED
  BY <1>3, <1>5 DEF HandlerShape

LEMMA QuietAbort ==
    ASSUME LockInv, NEW h \in Handlers,
           Abort(h), stored' = stored, opened' = opened, stale' = stale
    PROVE  HandlerShape' /\ \A g \in Handlers : Handler(g)'
<1>1. Shape /\ \A g \in Handlers : Handler(g)
  BY DEF LockInv
<1>2. /\ todo' \in [Handlers -> Seq(StepNames)]
      /\ op' \in [Handlers -> Operations]
      /\ copy' \in [Handlers -> Config \union {None}]
      /\ \A g \in Handlers \ {h} : todo'[g] = todo[g] /\ op'[g] = op[g] /\ copy'[g] = copy[g]
      /\ todo'[h] = <<>> /\ op'[h] = "config"
  BY <1>1, AbortShape
<1>3. ASSUME NEW g \in Handlers
      PROVE  Knows(todo'[g], op'[g], copy'[g], stale[g], stored, opened)
  <2>1. Knows(todo[g], op[g], copy[g], stale[g], stored, opened)
    BY <1>1 DEF Handler
  <2>2. CASE g # h
    BY <1>2, <2>1, <2>2
  <2>3. CASE g = h
    BY <1>2, <2>3, KnowsIdle
  <2> QED
    BY <2>2, <2>3
<1>4. \A g \in Handlers : Handler(g)'
  BY <1>3 DEF Handler
<1> QED
  BY <1>2, <1>4 DEF HandlerShape

\* A step that leaves the configuration and the marks as they were.
LEMMA QuietStep ==
    ASSUME LockInv, HandlerShape', \A h \in Handlers : Handler(h)',
           stored' = stored, opened' = opened, stale' = stale,
           file' \in [cfg : Config, setup : BOOLEAN],
           setup' = setup
    PROVE  LockInv'
<1>1. Shape'
  BY DEF LockInv, Shape, HandlerShape
<1>2. SetupStaysLocked'
  BY DEF LockInv, SetupStaysLocked
<1> QED
  BY <1>1, <1>2 DEF LockInv

\* The state as AddAudit and SaveConfig write it.
LEMMA FileShape ==
    ASSUME NEW c \in Config, NEW b \in BOOLEAN
    PROVE  [cfg |-> c, setup |-> b] \in [cfg : Config, setup : BOOLEAN]
  OBVIOUS
-------------------------------------------------------------------------------
(* The actions *)

LEMMA InitLocked == Init => LockInv
<1> SUFFICES ASSUME Init PROVE LockInv
  OBVIOUS
<1>1. PICK b \in BOOLEAN : setup = b
  BY DEF Init
<1>2. stored \in Config /\ stored.auth = b /\ stored.ui = b
  BY <1>1, FreshFacts DEF Init, Config
<1>3. file \in [cfg : Config, setup : BOOLEAN]
  <2>1. file = [cfg |-> stored, setup |-> b]
    BY <1>1 DEF Init
  <2> QED
    BY <1>2, <2>1, FileShape
<1>4. todo \in [Handlers -> Seq(StepNames)] /\ \A h \in Handlers : todo[h] = <<>>
  <2>1. todo = [h \in Handlers |-> <<>>] /\ <<>> \in Seq(StepNames)
    BY EmptySeq DEF Init
  <2> QED
    BY <2>1
<1>5. op \in [Handlers -> Operations] /\ \A h \in Handlers : op[h] = "config"
  BY DEF Init, Operations
<1>6. copy \in [Handlers -> Config \union {None}] /\ stale \in [Handlers -> BOOLEAN]
  BY DEF Init
<1>7. Shape
  BY <1>1, <1>2, <1>3, <1>4, <1>5, <1>6 DEF Shape, Init
<1>8. \A h \in Handlers : Handler(h)
  BY <1>4, <1>5, KnowsIdle DEF Handler
<1>9. SetupStaysLocked
  BY <1>1, <1>2 DEF SetupStaysLocked
<1> QED
  BY <1>7, <1>8, <1>9 DEF LockInv

LEMMA BeginLocked ==
    ASSUME LockInv, NEW h \in Handlers, NEW o \in Operations, NEW t, Begin(h, o, t)
    PROVE  LockInv'
<1>1. Shape /\ \A g \in Handlers : Handler(g)
  BY DEF LockInv
<1>2. PICK c \in Changes(o, stored) : copy' = [copy EXCEPT ![h] = c]
  BY DEF Begin
<1>3. c \in Config /\ (o # "config" => (On(stored) => On(c))) /\ (o = "setup" => On(c))
  BY <1>1, <1>2, ChangeFacts DEF Shape
<1>4. PICK s : s = Steps(o, t)
  OBVIOUS
<1>5. s \in Seq(StepNames) /\ Ordered(s, o) /\ Pending(s)
  BY <1>4, StepsFacts
<1>6. todo' = [todo EXCEPT ![h] = s] /\ op' = [op EXCEPT ![h] = o] /\ stale' = [stale EXCEPT ![h] = FALSE]
  BY <1>4 DEF Begin
<1>7. stored' = stored /\ setup' = setup /\ file' = file /\ opened' = opened
  BY DEF Begin, config
<1>8. todo' \in [Handlers -> Seq(StepNames)]
  BY <1>1, <1>5, <1>6 DEF Shape
<1>9. op' \in [Handlers -> Operations] /\ copy' \in [Handlers -> Config \union {None}]
  BY <1>1, <1>2, <1>3, <1>6 DEF Shape
<1>10. stale' \in [Handlers -> BOOLEAN]
  BY <1>1, <1>6 DEF Shape
<1>11. Shape'
  BY <1>1, <1>7, <1>8, <1>9, <1>10 DEF Shape
<1>12. ASSUME NEW g \in Handlers
       PROVE  Knows(todo'[g], op'[g], copy'[g], stale'[g], stored, opened)
  <2>1. CASE g = h
    <3>1. todo'[g] = s /\ op'[g] = o /\ copy'[g] = c /\ stale'[g] = FALSE
      BY <1>1, <1>2, <1>6, <2>1 DEF Shape
    <3>2. Knows(s, o, c, FALSE, stored, opened)
      BY <1>3, <1>5 DEF Knows
    <3> QED
      BY <3>1, <3>2
  <2>2. CASE g # h
    <3>1. todo'[g] = todo[g] /\ op'[g] = op[g] /\ copy'[g] = copy[g] /\ stale'[g] = stale[g]
      BY <1>1, <1>2, <1>6, <2>2 DEF Shape
    <3> QED
      BY <1>1, <3>1 DEF Handler
  <2> QED
    BY <2>1, <2>2
<1>13. \A g \in Handlers : Handler(g)'
  BY <1>7, <1>12 DEF Handler
<1>14. SetupStaysLocked'
  BY <1>7 DEF LockInv, SetupStaysLocked
<1> QED
  BY <1>11, <1>13, <1>14 DEF LockInv

\* A save: its own copy keeps the lock on unless the update is marked as one
\* that may open it, and every other copy in flight is stale from then on.
LEMMA SaveLocked ==
    ASSUME LockInv, NEW h \in Handlers, SaveConfig(h)
    PROVE  LockInv'
<1>1. Shape /\ \A g \in Handlers : Handler(g)
  BY DEF LockInv
<1>2. PICK t, o, c, s : t = todo[h] /\ o = op[h] /\ c = copy[h] /\ s = stale[h]
  OBVIOUS
<1>3. t \in Seq(StepNames) /\ t # <<>> /\ Head(t) = "save" /\ Pending(t) /\ s \in BOOLEAN
  BY <1>1, <1>2 DEF SaveConfig, At, Idle, Pending, Shape
<1>4. Knows(t, o, c, s, stored, opened) /\ c \in Config
  BY <1>1, <1>2, <1>3 DEF Handler, Knows
<1>5. stored' = Normalize(c) /\ setup' = setup
  BY <1>2 DEF SaveConfig
<1>6. stored' \in Config /\ stored'.auth = c.auth /\ stored'.ui = c.ui
  BY <1>4, <1>5, NormalizeFacts
<1>7. opened' = (~ (c.auth /\ c.ui) /\ (opened \/ s \/ o = "config"))
  BY <1>2 DEF SaveConfig
<1>8. opened' \in BOOLEAN
  BY <1>7
<1>9. opened' = FALSE => On(c) \/ (opened = FALSE /\ s = FALSE /\ o # "config")
  BY <1>1, <1>3, <1>4, <1>7 DEF On, Config, Shape
<1>10. opened' = FALSE => On(stored') \/ (opened = FALSE /\ (On(stored) => On(stored')))
  <2>1. s = FALSE /\ o # "config" => (On(stored) => On(c))
    BY <1>3, <1>4 DEF Knows
  <2> QED
    BY <1>6, <1>9, <2>1 DEF On
<1>11. stale' = [g \in Handlers |-> g # h /\ (stale[g] \/ (op[g] # "config" /\ Unsaved(g)))]
  BY DEF SaveConfig
<1>12. stale' \in [Handlers -> BOOLEAN]
  BY <1>11
<1>13. file' \in [cfg : Config, setup : BOOLEAN]
  <2>1. file' = file \/ file' = [cfg |-> stored', setup |-> setup]
    BY DEF SaveConfig
  <2>2. [cfg |-> stored', setup |-> setup] \in [cfg : Config, setup : BOOLEAN]
    BY <1>1, <1>6, FileShape DEF Shape
  <2> QED
    BY <1>1, <2>1, <2>2 DEF Shape
<1>14. /\ HandlerShape'
       /\ \A g \in Handlers \ {h} : todo'[g] = todo[g] /\ op'[g] = op[g] /\ copy'[g] = copy[g]
       /\ \/ todo'[h] = <<>> /\ op'[h] = "config"
          \/ todo'[h] = Tail(t) /\ op'[h] = o /\ copy'[h] = c
  <2>1. CASE Advance({h})
    <3>1. \A g \in Handlers : Ordered(todo[g], op[g])
      BY <1>1 DEF Handler, Knows
    <3> QED
      BY <1>1, <1>2, <1>3, <2>1, <3>1, AdvanceShape DEF HandlerShape
  <2>2. CASE Abort(h)
    BY <1>1, <2>2, AbortShape DEF HandlerShape
  <2> QED
    BY <2>1, <2>2 DEF SaveConfig
<1>15. Shape'
  BY <1>1, <1>5, <1>6, <1>8, <1>12, <1>13, <1>14 DEF Shape, HandlerShape
<1>16. ASSUME NEW g \in Handlers
       PROVE  Knows(todo'[g], op'[g], copy'[g], stale'[g], stored', opened')
  <2>1. CASE g = h /\ todo'[h] = <<>> /\ op'[h] = "config"
    BY <2>1, KnowsIdle
  <2>2. CASE g = h /\ todo'[h] = Tail(t) /\ op'[h] = o /\ copy'[h] = c
    <3>1. Ordered(t, o)
      BY <1>4 DEF Knows
    <3>2. Ordered(Tail(t), o) /\ ~ Pending(Tail(t))
      BY <1>3, <3>1, TailFacts
    <3>3. o = "setup" => On(stored')
      BY <1>3, <1>4, <1>6 DEF Knows, On
    <3>4. Knows(Tail(t), o, c, stale'[g], stored', opened')
      BY <1>4, <3>2, <3>3 DEF Knows
    <3> QED
      BY <2>2, <3>4
  <2>3. CASE g # h
    <3>1. todo'[g] = todo[g] /\ op'[g] = op[g] /\ copy'[g] = copy[g]
      BY <1>14, <2>3
    <3>2. PICK u, p, d : u = todo[g] /\ p = op[g] /\ d = copy[g]
      OBVIOUS
    <3>3. Knows(u, p, d, stale[g], stored, opened)
      BY <1>1, <3>2 DEF Handler
    <3>4. Pending(u) /\ p # "config" => stale'[g] = TRUE
      BY <1>11, <2>3, <3>2 DEF Pending, Unsaved, At, Idle
    <3>5. u # <<>> /\ ~ Pending(u) /\ p = "setup" /\ opened' = FALSE => On(stored')
      BY <1>9, <1>10, <3>3 DEF Knows
    <3>6. Knows(u, p, d, stale'[g], stored', opened')
      BY <3>3, <3>4, <3>5 DEF Knows
    <3> QED
      BY <3>1, <3>2, <3>6
  <2> QED
    BY <1>14, <2>1, <2>2, <2>3
<1>17. \A g \in Handlers : Handler(g)'
  BY <1>16 DEF Handler
<1>18. SetupStaysLocked'
  <2>1. setup /\ opened = FALSE => On(stored)
    BY <1>1 DEF LockInv, SetupStaysLocked, On, Shape, Config
  <2>2. setup' /\ opened' = FALSE => On(stored')
    BY <1>5, <1>9, <1>10, <2>1
  <2> QED
    BY <1>8, <2>2 DEF SetupStaysLocked, On
<1> QED
  BY <1>15, <1>17, <1>18 DEF LockInv

\* The end of a setup: its save turned the lock on.
LEMMA MarkLocked ==
    ASSUME LockInv, NEW h \in Handlers, MarkComplete(h)
    PROVE  LockInv'
<1>1. Shape /\ \A g \in Handlers : Handler(g)
  BY DEF LockInv
<1>2. todo[h] # <<>> /\ Head(todo[h]) = "mark" /\ todo[h] \in Seq(StepNames)
  BY <1>1 DEF MarkComplete, At, Idle, Shape
<1>3. stored' = stored /\ opened' = opened /\ stale' = stale /\ setup' = TRUE
  BY DEF MarkComplete
<1>4. HandlerShape' /\ \A g \in Handlers : Handler(g)'
  BY <1>2, <1>3, QuietAdvance DEF MarkComplete
<1>5. file' \in [cfg : Config, setup : BOOLEAN]
  BY <1>1, FileShape DEF MarkComplete, Shape
<1>6. op[h] = "setup" /\ ~ Pending(todo[h])
  <2>1. Ordered(todo[h], op[h])
    BY <1>1 DEF Handler, Knows
  <2>2. Len(todo[h]) > 0 /\ todo[h][1] = "mark"
    BY <1>2, EmptySeq
  <2>3. 1 \in 1..Len(todo[h])
    BY <1>2, <2>2
  <2> QED
    BY <1>2, <2>1, <2>2, <2>3 DEF Ordered, Pending
<1>7. opened = FALSE => On(stored)
  BY <1>1, <1>2, <1>6 DEF Handler, Knows
<1>8. SetupStaysLocked'
  BY <1>1, <1>3, <1>7 DEF SetupStaysLocked, On, Shape
<1>9. Shape'
  BY <1>1, <1>3, <1>4, <1>5 DEF Shape, HandlerShape
<1> QED
  BY <1>4, <1>8, <1>9 DEF LockInv

\* A start: no handler is left, and the lock is on if the setup was saved.
LEMMA RestartLocked ==
    ASSUME LockInv, Restart
    PROVE  LockInv'
<1>1. PICK c \in Config, b \in BOOLEAN : file = [cfg |-> c, setup |-> b]
  BY DEF LockInv, Shape
<1>2. PICK d : d = Started(file)
  OBVIOUS
<1>3. d \in Config /\ (b = TRUE => On(d))
  BY <1>1, <1>2 DEF Started, Config, On
<1>4. stored' = Normalize(d) /\ setup' = b /\ opened' = FALSE
  BY <1>1, <1>2 DEF Restart
<1>5. stored' \in Config /\ (b = TRUE => On(stored'))
  BY <1>3, <1>4, NormalizeFacts DEF On
<1>6. file' \in [cfg : Config, setup : BOOLEAN]
  BY <1>1, <1>5 DEF Restart
<1>7. todo' \in [Handlers -> Seq(StepNames)] /\ \A h \in Handlers : todo'[h] = <<>>
  <2>1. todo' = [h \in Handlers |-> <<>>] /\ <<>> \in Seq(StepNames)
    BY EmptySeq DEF Restart
  <2> QED
    BY <2>1
<1>8. op' \in [Handlers -> Operations] /\ \A h \in Handlers : op'[h] = "config"
  BY DEF Restart, Operations
<1>9. copy' \in [Handlers -> Config \union {None}] /\ stale' \in [Handlers -> BOOLEAN]
  BY DEF Restart
<1>10. Shape'
  BY <1>4, <1>5, <1>6, <1>7, <1>8, <1>9 DEF Shape
<1>11. \A h \in Handlers : Handler(h)'
  BY <1>7, <1>8, KnowsIdle DEF Handler
<1>12. SetupStaysLocked'
  BY <1>4, <1>5 DEF SetupStaysLocked, On
<1> QED
  BY <1>10, <1>11, <1>12 DEF LockInv

\* Every step keeps the invariant.
LEMMA NextLocked == LockInv /\ [Next]_vars => LockInv'
<1> SUFFICES ASSUME LockInv, [Next]_vars PROVE LockInv'
  OBVIOUS
<1>1. LockInv
  OBVIOUS
<1>2. Shape
  BY DEF LockInv
<1>3. ASSUME NEW h \in Handlers,
             \/ Run(h) \/ Refresh(h) \/ ConfigureQueue(h) \/ ConfigureTracker(h) \/ NewTelemetry(h)
             \/ SetSecret(h) \/ EnsureDefaultKey(h) \/ EmitEvent(h)
             \/ \E g \in Handlers : RunTorn(h, g)
      PROVE  LockInv'
  <2>1. CASE Run(h)
    <3>1. todo[h] # <<>> /\ Head(todo[h]) = "run" /\ Advance({h})
      BY <2>1 DEF Run, At, Idle
    <3>2. stored' = stored /\ opened' = opened /\ stale' = stale /\ setup' = setup /\ file' = file
      BY <2>1 DEF Run, config
    <3>3. HandlerShape' /\ \A g \in Handlers : Handler(g)'
      BY <1>1, <3>1, <3>2, QuietAdvance
    <3> QED
      BY <1>1, <1>2, <3>2, <3>3, QuietStep DEF Shape
  <2>2. CASE Refresh(h)
    <3>1. todo[h] # <<>> /\ Head(todo[h]) = "refresh" /\ Advance({h})
      BY <2>2 DEF Refresh, At, Idle
    <3>2. stored' = stored /\ opened' = opened /\ stale' = stale /\ setup' = setup /\ file' = file
      BY <2>2 DEF Refresh, config
    <3>3. HandlerShape' /\ \A g \in Handlers : Handler(g)'
      BY <1>1, <3>1, <3>2, QuietAdvance
    <3> QED
      BY <1>1, <1>2, <3>2, <3>3, QuietStep DEF Shape
  <2>3. CASE ConfigureQueue(h)
    <3>1. todo[h] # <<>> /\ Head(todo[h]) = "queue" /\ Advance({h})
      BY <2>3 DEF ConfigureQueue, At, Idle
    <3>2. stored' = stored /\ opened' = opened /\ stale' = stale /\ setup' = setup /\ file' = file
      BY <2>3 DEF ConfigureQueue, config
    <3>3. HandlerShape' /\ \A g \in Handlers : Handler(g)'
      BY <1>1, <3>1, <3>2, QuietAdvance
    <3> QED
      BY <1>1, <1>2, <3>2, <3>3, QuietStep DEF Shape
  <2>4. CASE ConfigureTracker(h)
    <3>1. todo[h] # <<>> /\ Head(todo[h]) = "tracker" /\ Advance({h})
      BY <2>4 DEF ConfigureTracker, At, Idle
    <3>2. stored' = stored /\ opened' = opened /\ stale' = stale /\ setup' = setup /\ file' = file
      BY <2>4 DEF ConfigureTracker, config
    <3>3. HandlerShape' /\ \A g \in Handlers : Handler(g)'
      BY <1>1, <3>1, <3>2, QuietAdvance
    <3> QED
      BY <1>1, <1>2, <3>2, <3>3, QuietStep DEF Shape
  <2>5. CASE NewTelemetry(h)
    <3>1. todo[h] # <<>> /\ Head(todo[h]) = "telemetry" /\ Advance({h})
      BY <2>5 DEF NewTelemetry, At, Idle
    <3>2. stored' = stored /\ opened' = opened /\ stale' = stale /\ setup' = setup /\ file' = file
      BY <2>5 DEF NewTelemetry, config
    <3>3. HandlerShape' /\ \A g \in Handlers : Handler(g)'
      BY <1>1, <3>1, <3>2, QuietAdvance
    <3> QED
      BY <1>1, <1>2, <3>2, <3>3, QuietStep DEF Shape
  <2>6. CASE SetSecret(h)
    <3>1. todo[h] # <<>> /\ Head(todo[h]) = "secret" /\ (Advance({h}) \/ Abort(h))
      BY <2>6 DEF SetSecret, At, Idle
    <3>2. stored' = stored /\ opened' = opened /\ stale' = stale /\ setup' = setup /\ file' = file
      BY <2>6 DEF SetSecret, config
    <3>3. HandlerShape' /\ \A g \in Handlers : Handler(g)'
      BY <1>1, <3>1, <3>2, QuietAdvance, QuietAbort
    <3> QED
      BY <1>1, <1>2, <3>2, <3>3, QuietStep DEF Shape
  <2>7. CASE EnsureDefaultKey(h)
    <3>1. todo[h] # <<>> /\ Head(todo[h]) = "defaultkey" /\ (Advance({h}) \/ Abort(h))
      BY <2>7 DEF EnsureDefaultKey, At, Idle
    <3>2. stored' = stored /\ opened' = opened /\ stale' = stale /\ setup' = setup /\ file' = file
      BY <2>7 DEF EnsureDefaultKey, config
    <3>3. HandlerShape' /\ \A g \in Handlers : Handler(g)'
      BY <1>1, <3>1, <3>2, QuietAdvance, QuietAbort
    <3> QED
      BY <1>1, <1>2, <3>2, <3>3, QuietStep DEF Shape
  <2>8. CASE EmitEvent(h)
    <3>1. todo[h] # <<>> /\ Head(todo[h]) = "event" /\ Advance({h})
      BY <2>8 DEF EmitEvent, At, Idle
    <3>2. stored' = stored /\ opened' = opened /\ stale' = stale /\ setup' = setup
      BY <2>8 DEF EmitEvent
    <3>3. file' = file \/ file' = [cfg |-> stored, setup |-> setup]
      BY <2>8 DEF EmitEvent
    <3>4. file' \in [cfg : Config, setup : BOOLEAN]
      BY <1>2, <3>3, FileShape DEF Shape
    <3>5. HandlerShape' /\ \A g \in Handlers : Handler(g)'
      BY <1>1, <3>1, <3>2, QuietAdvance
    <3> QED
      BY <1>1, <3>2, <3>4, <3>5, QuietStep
  <2>9. CASE \E g \in Handlers : RunTorn(h, g)
    <3>1. PICK g \in Handlers : RunTorn(h, g)
      BY <2>9
    <3>2. \A k \in {h, g} : todo[k] # <<>> /\ Head(todo[k]) = "run"
      BY <3>1 DEF RunTorn, At, Idle
    <3>3. stored' = stored /\ opened' = opened /\ stale' = stale /\ setup' = setup /\ file' = file
      BY <3>1 DEF RunTorn, config
    <3>4. Advance({h, g})
      BY <3>1 DEF RunTorn
    <3>5. HandlerShape' /\ \A k \in Handlers : Handler(k)'
      BY <1>1, <3>2, <3>3, <3>4, QuietAdvance
    <3> QED
      BY <1>1, <1>2, <3>3, <3>5, QuietStep DEF Shape
  <2> QED
    BY <1>3, <2>1, <2>2, <2>3, <2>4, <2>5, <2>6, <2>7, <2>8, <2>9
<1>4. CASE AuditEvent
  <2>1. /\ stored' = stored /\ opened' = opened /\ stale' = stale /\ setup' = setup
        /\ todo' = todo /\ op' = op /\ copy' = copy
    BY <1>4 DEF AuditEvent, handler, marks, history
  <2>2. file' \in [cfg : Config, setup : BOOLEAN]
    BY <1>2, <1>4, FileShape DEF AuditEvent, Shape
  <2>3. HandlerShape' /\ \A h \in Handlers : Handler(h)'
    BY <1>1, <2>1 DEF LockInv, Shape, HandlerShape, Handler
  <2> QED
    BY <1>1, <2>1, <2>2, <2>3, QuietStep
<1>5. CASE UNCHANGED vars
  <2>1. /\ stored' = stored /\ opened' = opened /\ stale' = stale /\ setup' = setup
        /\ todo' = todo /\ op' = op /\ copy' = copy /\ file' = file
    BY <1>5 DEF vars, config, handler, marks, history
  <2>2. HandlerShape' /\ \A h \in Handlers : Handler(h)'
    BY <1>1, <2>1 DEF LockInv, Shape, HandlerShape, Handler
  <2> QED
    BY <1>1, <1>2, <2>1, <2>2, QuietStep DEF Shape
<1>6. ASSUME NEW h \in Handlers, NEW o \in Operations, NEW t \in HecTokens \union {None}, Begin(h, o, t)
      PROVE  LockInv'
  BY <1>6, BeginLocked
<1>7. ASSUME NEW h \in Handlers, SaveConfig(h) \/ MarkComplete(h)
      PROVE  LockInv'
  BY <1>7, SaveLocked, MarkLocked
<1>8. CASE Restart
  BY <1>8, RestartLocked
<1> QED
  BY <1>3, <1>4, <1>5, <1>6, <1>7, <1>8 DEF Next

\* A marshal that is set up asks for credentials at every moment, whatever
\* handlers overlap, fail or are cut off by a restart, unless PUT config
\* turned authentication off or a copy that was read before another save was
\* saved after it (setupComplete, NewServer, requireAdmin).
THEOREM SetupLocks == Spec => []SetupStaysLocked
<1>1. LockInv => SetupStaysLocked
  BY DEF LockInv
<1> QED
  BY <1>1, InitLocked, NextLocked, PTL DEF Spec
-------------------------------------------------------------------------------
(* What was saved stands *)

Normal(c) == Normalize(c) = c

\* What a handler with steps t, operation o, copy c and mark s knows of the
\* configuration cfg before its save: outside its section the copy agrees.
Keeps(t, o, c, s, cfg) ==
    Pending(t) /\ o # "config" /\ s = FALSE =>
        \A f \in Fields \ Section(o) : Normalize(c)[f] = cfg[f]

Keeper(h) == Keeps(todo[h], op[h], copy[h], stale[h], stored)

\* Memory and file are normalised, and every copy in flight that is not stale
\* agrees with memory outside its handler's section.
SavedInv ==
    /\ Normal(stored) /\ Normal(file.cfg)
    /\ slipped \in BOOLEAN
    /\ DOMAIN last = Fields
    /\ \A h \in Handlers : Keeper(h)
    /\ SavedUpdateStands

\* The fields of a normalised configuration.
LEMMA NormalizeFields ==
    ASSUME NEW c \in Config
    PROVE  /\ Normalize(c) \in Config
           /\ Normalize(c).auth = c.auth /\ Normalize(c).ui = c.ui
           /\ Normalize(c).depth = IF c.depth = 0 THEN DefaultDepth ELSE c.depth
           /\ Normalize(c).aliases = IF c.aliases = "unset" THEN "default" ELSE c.aliases
           /\ Normalize(c).session = IF c.session = "unset" THEN "soft" ELSE c.session
           /\ Normalize(c).bench = NormalizeBenchmarkSchedulerConfig(c.bench)
<1>1. c = [auth |-> c.auth, ui |-> c.ui, depth |-> c.depth, aliases |-> c.aliases,
           session |-> c.session, bench |-> c.bench]
  BY DEF Config
<1>2. PICK x, y, z, w :
        /\ x = IF c.depth = 0 THEN DefaultDepth ELSE c.depth
        /\ y = IF c.aliases = "unset" THEN "default" ELSE c.aliases
        /\ z = IF c.session = "unset" THEN "soft" ELSE c.session
        /\ w = NormalizeBenchmarkSchedulerConfig(c.bench)
  OBVIOUS
<1>3. Normalize(c) = [c EXCEPT !.depth = x, !.aliases = y, !.session = z, !.bench = w]
  BY <1>1, <1>2 DEF Normalize
<1>4. Normalize(c) = [auth |-> c.auth, ui |-> c.ui, depth |-> x, aliases |-> y,
                      session |-> z, bench |-> w]
  BY <1>1, <1>3
<1> QED
  BY <1>2, <1>4, NormalizeFacts

\* When a configuration is normalised.
LEMMA NormalFields ==
    ASSUME NEW c \in Config
    PROVE  Normal(c) <=> /\ c.depth # 0 /\ c.aliases # "unset" /\ c.session # "unset"
                         /\ NormalizeBenchmarkSchedulerConfig(c.bench) = c.bench
<1>1. DefaultDepth # 0
  BY SettingsAssumption
<1>2. ASSUME c.depth # 0, c.aliases # "unset", c.session # "unset",
             NormalizeBenchmarkSchedulerConfig(c.bench) = c.bench
      PROVE  Normalize(c) = c
  BY <1>2, NormalizeFields DEF Config
<1> QED
  BY <1>1, <1>2, NormalizeFields DEF Normal

\* Normalising a second time changes nothing, and bounds the attempts.
LEMMA NormalizeNormal ==
    ASSUME NEW c \in Config
    PROVE  /\ Normal(Normalize(c))
           /\ Normalize(c).bench \in LowAttempts..HighAttempts
<1>1. PICK d \in Config : d = Normalize(c)
  BY NormalizeFields
<1>2. d.bench \in LowAttempts..HighAttempts /\ NormalizeBenchmarkSchedulerConfig(d.bench) = d.bench
  BY <1>1, NormalizeFields, BoundedIntInRange DEF Config
<1>3. d.depth # 0 /\ d.aliases # "unset" /\ d.session # "unset"
  BY <1>1, NormalizeFields, SettingsAssumption
<1> QED
  BY <1>1, <1>2, <1>3, NormalFields

\* Turning the flags on leaves a configuration normalised and the rest alone.
LEMMA StartedFacts ==
    ASSUME NEW f \in [cfg : Config, setup : BOOLEAN], Normal(f.cfg)
    PROVE  /\ Started(f) \in Config /\ Normal(Started(f))
           /\ \A x \in Fields \ {"auth", "ui"} : Started(f)[x] = f.cfg[x]
<1>1. PICK c \in Config : c = f.cfg
  OBVIOUS
<1>2. PICK d : d = Started(f)
  OBVIOUS
<1>3. d \in Config /\ d.depth = c.depth /\ d.aliases = c.aliases /\ d.session = c.session /\ d.bench = c.bench
  BY <1>1, <1>2 DEF Started, Config
<1>4. Normal(d)
  BY <1>1, <1>3, NormalFields
<1> QED
  BY <1>1, <1>2, <1>3, <1>4 DEF Fields

\* No update but PUT config changes a field outside its section.
LEMMA ChangeKeeps ==
    ASSUME NEW o \in Operations, NEW c \in Config, Normal(c), NEW d \in Changes(o, c),
           o # "config"
    PROVE  \A f \in Fields \ Section(o) : Normalize(d)[f] = c[f]
<1>1. d \in Config
  BY ChangeFacts
<1>2. /\ c.depth # 0 /\ c.aliases # "unset" /\ c.session # "unset"
      /\ NormalizeBenchmarkSchedulerConfig(c.bench) = c.bench
  BY NormalFields
<1>3. ASSUME NEW e \in Config,
             \A f \in Fields \ Section(o) : e[f] = c[f],
             "depth" \in Section(o) \/ e.depth = c.depth,
             "aliases" \in Section(o) \/ e.aliases = c.aliases,
             "session" \in Section(o) \/ e.session = c.session,
             "bench" \in Section(o) \/ e.bench = c.bench
      PROVE  \A f \in Fields \ Section(o) : Normalize(e)[f] = c[f]
  BY <1>2, <1>3, NormalizeFields DEF Fields
<1>4. CASE o = "recommended"
  <2>1. d = [c EXCEPT !.session = "soft"] /\ Section(o) = {"session"}
    BY <1>4 DEF Changes, applyRecommended, Section
  <2> QED
    BY <1>1, <1>3, <2>1 DEF Fields, Config
<1>5. CASE o = "setup"
  <2>1. d = [c EXCEPT !.auth = TRUE, !.ui = TRUE] /\ Section(o) = {"auth", "ui"}
    BY <1>5 DEF Changes, setupComplete, Section
  <2> QED
    BY <1>1, <1>3, <2>1 DEF Fields, Config
<1>6. CASE o = "aliases"
  <2>1. PICK a \in AliasTables : d = [c EXCEPT !.aliases = a]
    BY <1>6 DEF Changes, putAliases
  <2>2. Section(o) = {"aliases"}
    BY <1>6 DEF Section
  <2> QED
    BY <1>1, <1>3, <2>1, <2>2 DEF Fields, Config
<1>7. CASE o = "policies"
  <2>1. PICK n \in Depths : d = Normalize([c EXCEPT !.depth = n])
    BY <1>7 DEF Changes, putRoutingPolicies
  <2>2. Section(o) = {"depth"}
    BY <1>7 DEF Section
  <2>3. PICK e : e = [c EXCEPT !.depth = n]
    OBVIOUS
  <2>4. e \in Config /\ \A f \in Fields \ {"depth"} : e[f] = c[f]
    BY <2>3, SettingsAssumption DEF Config, Fields
  <2>5. e.aliases = c.aliases /\ e.session = c.session /\ e.bench = c.bench
    BY <2>3 DEF Config
  <2>6. \A f \in Fields \ Section(o) : Normalize(e)[f] = c[f]
    BY <1>3, <2>2, <2>4, <2>5
  <2>7. Normalize(d) = Normalize(e)
    BY <2>1, <2>3, <2>4, NormalizeNormal DEF Normal
  <2> QED
    BY <2>6, <2>7
<1>8. CASE o = "hec"
  <2>1. d = c
    BY <1>8 DEF Changes, putSplunkHEC
  <2> QED
    BY <1>3, <2>1
<1>9. CASE o = "bench"
  <2>1. PICK a \in Attempts : d = [c EXCEPT !.bench = NormalizeBenchmarkSchedulerConfig(a)]
    BY <1>9 DEF Changes, putBenchmarkSchedulerPolicy
  <2>2. Section(o) = {"bench"}
    BY <1>9 DEF Section
  <2> QED
    BY <1>1, <1>3, <2>1, <2>2 DEF Fields, Config
<1>10. CASE o = "key"
  <2>1. d = [c EXCEPT !.auth = TRUE] /\ Section(o) = {"auth"}
    BY <1>10 DEF Changes, createClientAPIKey, Section
  <2> QED
    BY <1>1, <1>3, <2>1 DEF Fields, Config
<1> QED
  BY <1>4, <1>5, <1>6, <1>7, <1>8, <1>9, <1>10 DEF Operations

\* A handler that moved on from a step other than the save, or answered, knows
\* no more of the configuration than before.
LEMMA QuietKeeper ==
    ASSUME LockInv, NEW H \in SUBSET Handlers,
           \A h \in H : todo[h] # <<>> /\ Head(todo[h]) # "save",
           Advance(H) \/ \E h \in H : Abort(h),
           stored' = stored, stale' = stale, \A h \in Handlers : Keeper(h)
    PROVE  \A h \in Handlers : Keeper(h)'
<1>1. Shape /\ \A h \in Handlers : Ordered(todo[h], op[h])
  BY DEF LockInv, Handler, Knows
<1>2. ASSUME NEW h \in Handlers
      PROVE  \/ todo'[h] = todo[h] /\ op'[h] = op[h] /\ copy'[h] = copy[h]
             \/ todo'[h] = <<>>
             \/ h \in H /\ todo'[h] = Tail(todo[h]) /\ op'[h] = op[h] /\ copy'[h] = copy[h]
  <2>1. CASE Advance(H)
    BY <1>1, <2>1, AdvanceShape
  <2>2. ASSUME NEW k \in H, Abort(k)
        PROVE  todo'[h] = <<>> \/ (todo'[h] = todo[h] /\ op'[h] = op[h] /\ copy'[h] = copy[h])
    BY <1>1, <2>2, AbortShape
  <2> QED
    BY <2>1, <2>2
<1>3. ASSUME NEW h \in Handlers
      PROVE  Keeps(todo'[h], op'[h], copy'[h], stale[h], stored)
  <2>0. Keeps(todo[h], op[h], copy[h], stale[h], stored)
    BY DEF Keeper
  <2>1. CASE todo'[h] = todo[h] /\ op'[h] = op[h] /\ copy'[h] = copy[h]
    BY <2>0, <2>1
  <2>2. CASE todo'[h] = <<>>
    BY <2>2 DEF Keeps, Pending
  <2>3. CASE h \in H /\ todo'[h] = Tail(todo[h]) /\ op'[h] = op[h] /\ copy'[h] = copy[h]
    <3>1. Pending(Tail(todo[h])) <=> Pending(todo[h])
      BY <1>1, <2>3, TailFacts DEF Shape
    <3> QED
      BY <2>0, <2>3, <3>1 DEF Keeps
  <2> QED
    BY <1>2, <2>1, <2>2, <2>3
<1> QED
  BY <1>3 DEF Keeper

\* Writing the state as it is in memory, or not writing it.
LEMMA QuietSaved ==
    ASSUME LockInv, SavedInv, \A h \in Handlers : Keeper(h)',
           stored' = stored, slipped' = slipped, last' = last,
           file' = file \/ \E b \in BOOLEAN : file' = [cfg |-> stored, setup |-> b]
    PROVE  SavedInv'
<1>1. file'.cfg = file.cfg \/ file'.cfg = stored
  OBVIOUS
<1>2. Normal(file'.cfg)
  BY <1>1 DEF SavedInv
<1>3. SavedUpdateStands'
  BY <1>1 DEF SavedInv, SavedUpdateStands
<1> QED
  BY <1>2, <1>3 DEF SavedInv

LEMMA InitSaved == Init => SavedInv
<1> SUFFICES ASSUME Init PROVE SavedInv
  OBVIOUS
<1>1. PICK b \in BOOLEAN : setup = b
  BY DEF Init
<1>2. PICK c \in Config : c = Fresh /\ Normal(c)
  <2>1. [auth |-> FALSE, ui |-> FALSE, depth |-> 0, aliases |-> "unset",
         session |-> "unset", bench |-> 0] \in Config
    BY DEF Config, Aliases, Affinities
  <2> QED
    BY <2>1, FreshFacts, NormalizeNormal DEF Fresh
<1>3. stored = [c EXCEPT !.auth = b, !.ui = b]
  BY <1>1, <1>2 DEF Init
<1>4. /\ stored \in Config /\ stored.depth = c.depth /\ stored.aliases = c.aliases
      /\ stored.session = c.session /\ stored.bench = c.bench
  BY <1>3 DEF Config
<1>5. Normal(stored)
  BY <1>2, <1>4, NormalFields
<1>6. file.cfg = stored
  BY DEF Init
<1>7. \A h \in Handlers : Keeper(h)
  BY DEF Init, Keeper, Keeps, Pending
<1>8. SavedUpdateStands /\ slipped \in BOOLEAN /\ DOMAIN last = Fields
  BY DEF Init, SavedUpdateStands
<1> QED
  BY <1>5, <1>6, <1>7, <1>8 DEF SavedInv

LEMMA BeginSaved ==
    ASSUME LockInv, SavedInv, NEW h \in Handlers, NEW o \in Operations, NEW t, Begin(h, o, t)
    PROVE  SavedInv'
<1>1. Shape /\ \A g \in Handlers : Keeper(g)
  BY DEF LockInv, SavedInv
<1>2. PICK c \in Changes(o, stored) : copy' = [copy EXCEPT ![h] = c]
  BY DEF Begin
<1>3. o # "config" => \A f \in Fields \ Section(o) : Normalize(c)[f] = stored[f]
  BY <1>1, <1>2, ChangeKeeps DEF Shape, SavedInv
<1>4. /\ todo' = [todo EXCEPT ![h] = Steps(o, t)] /\ op' = [op EXCEPT ![h] = o]
      /\ stale' = [stale EXCEPT ![h] = FALSE]
  BY DEF Begin
<1>5. stored' = stored /\ file' = file /\ slipped' = slipped /\ last' = last
  BY DEF Begin, config
<1>6. ASSUME NEW g \in Handlers
      PROVE  Keeps(todo'[g], op'[g], copy'[g], stale'[g], stored)
  <2>1. CASE g = h
    <3>1. op'[g] = o /\ copy'[g] = c
      BY <1>1, <1>2, <1>4, <2>1 DEF Shape
    <3> QED
      BY <1>3, <3>1 DEF Keeps
  <2>2. CASE g # h
    <3>1. todo'[g] = todo[g] /\ op'[g] = op[g] /\ copy'[g] = copy[g] /\ stale'[g] = stale[g]
      BY <1>1, <1>2, <1>4, <2>2 DEF Shape
    <3> QED
      BY <1>1, <3>1 DEF Keeper
  <2> QED
    BY <2>1, <2>2
<1>7. \A g \in Handlers : Keeper(g)'
  BY <1>5, <1>6 DEF Keeper
<1> QED
  BY <1>5, <1>7, QuietSaved

\* A save changes no field outside its section, unless its copy is stale, and
\* every other copy in flight is stale from then on.
LEMMA SaveSaved ==
    ASSUME LockInv, SavedInv, NEW h \in Handlers, SaveConfig(h)
    PROVE  SavedInv'
<1>1. Shape /\ \A g \in Handlers : Keeper(g) /\ Ordered(todo[g], op[g])
  BY DEF LockInv, SavedInv, Handler, Knows
<1>2. PICK t, o, c, s : t = todo[h] /\ o = op[h] /\ c = copy[h] /\ s = stale[h]
  OBVIOUS
<1>3. t \in Seq(StepNames) /\ t # <<>> /\ Head(t) = "save" /\ Pending(t) /\ s \in BOOLEAN /\ o \in Operations
  BY <1>1, <1>2 DEF SaveConfig, At, Idle, Pending, Shape
<1>4. c \in Config
  BY <1>2, <1>3 DEF LockInv, Handler, Knows
<1>5. stored' = Normalize(c) /\ Normal(stored')
  BY <1>2, <1>4, NormalizeNormal DEF SaveConfig
<1>6. slipped' = (slipped \/ s)
  BY <1>2 DEF SaveConfig
<1>7. slipped' \in BOOLEAN /\ (~ slipped' => ~ slipped /\ s = FALSE)
  BY <1>3, <1>6
<1>8. PICK saved \in BOOLEAN :
        /\ last' = [f \in Fields |-> IF f \notin Section(o) THEN last[f]
                                     ELSE IF saved THEN stored'[f] ELSE None]
        /\ saved => file'.cfg = stored'
        /\ ~ saved => file' = file
        /\ Advance({h}) \/ Abort(h)
  <2>1. PICK saved \in BOOLEAN :
          /\ last' = [f \in Fields |-> IF f \notin Section(op[h]) THEN last[f]
                                       ELSE IF saved THEN stored'[f] ELSE None]
          /\ \/ saved /\ file' = [cfg |-> stored', setup |-> setup] /\ UNCHANGED faults
             \/ ~ saved /\ Fault /\ UNCHANGED file
          /\ IF saved \/ op[h] \notin Strict THEN Advance({h}) ELSE Abort(h)
    BY DEF SaveConfig
  <2> QED
    BY <1>2, <2>1
<1>9. Normal(file'.cfg)
  BY <1>5, <1>8 DEF SavedInv
<1>10. SavedUpdateStands'
  <2> SUFFICES ASSUME ~ slipped', NEW f \in Fields, last'[f] # None
               PROVE  stored'[f] = last'[f] /\ file'.cfg[f] = last'[f]
    BY DEF SavedUpdateStands
  <2>1. CASE f \in Section(o)
    BY <1>8, <2>1
  <2>2. CASE f \notin Section(o)
    <3>1. last'[f] = last[f]
      BY <1>8, <2>2
    <3>2. stored[f] = last[f] /\ file.cfg[f] = last[f]
      BY <1>7, <3>1 DEF SavedInv, SavedUpdateStands
    <3>3. o # "config"
      BY <2>2 DEF Section
    <3>4. stored'[f] = stored[f]
      BY <1>1, <1>2, <1>3, <1>5, <1>7, <2>2, <3>3 DEF Keeper, Keeps
    <3> QED
      BY <1>8, <3>1, <3>2, <3>4
  <2> QED
    BY <2>1, <2>2
<1>11. ASSUME NEW g \in Handlers
       PROVE  Keeps(todo'[g], op'[g], copy'[g], stale'[g], stored')
  <2>1. CASE g = h
    <3>1. todo'[h] = <<>> \/ todo'[h] = Tail(t)
      BY <1>1, <1>2, <1>3, <1>8, AdvanceShape, AbortShape
    <3>2. ~ Pending(Tail(t))
      BY <1>1, <1>2, <1>3, TailFacts
    <3> QED
      BY <2>1, <3>1, <3>2 DEF Keeps, Pending
  <2>2. CASE g # h
    <3>1. todo'[g] = todo[g] /\ op'[g] = op[g] /\ copy'[g] = copy[g]
      BY <1>1, <1>2, <1>3, <1>8, <2>2, AdvanceShape, AbortShape
    <3>2. Pending(todo[g]) /\ op[g] # "config" => stale'[g] = TRUE
      BY <2>2 DEF SaveConfig, Pending, Unsaved, At, Idle
    <3> QED
      BY <3>1, <3>2 DEF Keeps
  <2> QED
    BY <2>1, <2>2
<1>12. \A g \in Handlers : Keeper(g)'
  BY <1>11 DEF Keeper
<1>13. DOMAIN last' = Fields
  BY <1>8
<1> QED
  BY <1>5, <1>7, <1>9, <1>10, <1>12, <1>13 DEF SavedInv

\* A start takes what the file says, but for the flags.
LEMMA RestartSaved ==
    ASSUME LockInv, SavedInv, Restart
    PROVE  SavedInv'
<1>1. file \in [cfg : Config, setup : BOOLEAN] /\ Normal(file.cfg)
  BY DEF LockInv, Shape, SavedInv
<1>2. PICK d : d = Started(file)
  OBVIOUS
<1>3. d \in Config /\ Normal(d) /\ \A f \in Fields \ {"auth", "ui"} : d[f] = file.cfg[f]
  BY <1>1, <1>2, StartedFacts
<1>4. stored' = d
  BY <1>2, <1>3 DEF Restart, Normal
<1>5. file'.cfg = d
  BY <1>1, <1>4 DEF Restart
<1>6. slipped' = slipped /\ last' = [last EXCEPT !["auth"] = None, !["ui"] = None]
  BY DEF Restart
<1>7. DOMAIN last' = Fields /\ last'["auth"] = None /\ last'["ui"] = None
  BY <1>6 DEF SavedInv, Fields
<1>8. \A f \in Fields \ {"auth", "ui"} : last'[f] = last[f]
  BY <1>6 DEF SavedInv
<1>9. SavedUpdateStands'
  <2> SUFFICES ASSUME ~ slipped', NEW f \in Fields, last'[f] # None
               PROVE  stored'[f] = last'[f] /\ file'.cfg[f] = last'[f]
    BY DEF SavedUpdateStands
  <2>1. f \in Fields \ {"auth", "ui"}
    BY <1>7
  <2>2. file.cfg[f] = last[f]
    BY <1>6, <1>8, <2>1 DEF SavedInv, SavedUpdateStands
  <2> QED
    BY <1>3, <1>4, <1>5, <1>8, <2>1, <2>2
<1>10. \A h \in Handlers : Keeper(h)'
  BY DEF Restart, Keeper, Keeps, Pending
<1> QED
  BY <1>3, <1>4, <1>5, <1>6, <1>7, <1>9, <1>10 DEF SavedInv

LEMMA NextSaved == LockInv /\ SavedInv /\ [Next]_vars => SavedInv'
<1> SUFFICES ASSUME LockInv, SavedInv, [Next]_vars PROVE SavedInv'
  OBVIOUS
<1>1. ASSUME NEW h \in Handlers,
             \/ Run(h) \/ Refresh(h) \/ ConfigureQueue(h) \/ ConfigureTracker(h) \/ NewTelemetry(h)
             \/ SetSecret(h) \/ EnsureDefaultKey(h) \/ MarkComplete(h) \/ EmitEvent(h)
      PROVE  SavedInv'
  <2>1. todo[h] # <<>> /\ Head(todo[h]) # "save"
    BY <1>1 DEF Run, Refresh, ConfigureQueue, ConfigureTracker, NewTelemetry, SetSecret,
                EnsureDefaultKey, MarkComplete, EmitEvent, At, Idle
  <2>2. Advance({h}) \/ Abort(h)
    BY <1>1 DEF Run, Refresh, ConfigureQueue, ConfigureTracker, NewTelemetry, SetSecret,
                EnsureDefaultKey, MarkComplete, EmitEvent
  <2>3. stored' = stored /\ stale' = stale /\ slipped' = slipped /\ last' = last
    BY <1>1 DEF Run, Refresh, ConfigureQueue, ConfigureTracker, NewTelemetry, SetSecret,
                EnsureDefaultKey, MarkComplete, EmitEvent, config
  <2>4. file' = file \/ \E b \in BOOLEAN : file' = [cfg |-> stored, setup |-> b]
    BY <1>1 DEF Run, Refresh, ConfigureQueue, ConfigureTracker, NewTelemetry, SetSecret,
                EnsureDefaultKey, MarkComplete, EmitEvent, config, LockInv, Shape
  <2>5. \A g \in Handlers : Keeper(g)'
    <3>1. {h} \in SUBSET Handlers /\ \A k \in {h} : todo[k] # <<>> /\ Head(todo[k]) # "save"
      BY <2>1
    <3>2. Advance({h}) \/ \E k \in {h} : Abort(k)
      BY <2>2
    <3>3. \A g \in Handlers : Keeper(g)
      BY DEF SavedInv
    <3> QED
      BY <2>3, <3>1, <3>2, <3>3, QuietKeeper
  <2> QED
    BY <2>3, <2>4, <2>5, QuietSaved
<1>2. ASSUME NEW h \in Handlers, NEW g \in Handlers, RunTorn(h, g) PROVE SavedInv'
  <2>1. /\ todo[h] # <<>> /\ Head(todo[h]) # "save"
        /\ todo[g] # <<>> /\ Head(todo[g]) # "save"
    BY <1>2 DEF RunTorn, At, Idle
  <2>2. Advance({h, g}) /\ stored' = stored /\ stale' = stale /\ slipped' = slipped /\ last' = last /\ file' = file
    BY <1>2 DEF RunTorn, config
  <2>3. \A k \in Handlers : Keeper(k)'
    BY <2>1, <2>2, QuietKeeper DEF SavedInv
  <2> QED
    BY <2>2, <2>3, QuietSaved
<1>3. CASE AuditEvent
  <2>1. /\ stored' = stored /\ stale' = stale /\ slipped' = slipped /\ last' = last
        /\ todo' = todo /\ op' = op /\ copy' = copy /\ file' = [cfg |-> stored, setup |-> setup]
    BY <1>3 DEF AuditEvent, handler, marks, history
  <2>2. \A h \in Handlers : Keeper(h)'
    BY <2>1 DEF SavedInv, Keeper
  <2> QED
    BY <2>1, <2>2, QuietSaved DEF LockInv, Shape
<1>4. CASE UNCHANGED vars
  <2>1. /\ stored' = stored /\ stale' = stale /\ slipped' = slipped /\ last' = last
        /\ todo' = todo /\ op' = op /\ copy' = copy /\ file' = file
    BY <1>4 DEF vars, config, handler, marks, history
  <2>2. \A h \in Handlers : Keeper(h)'
    BY <2>1 DEF SavedInv, Keeper
  <2> QED
    BY <2>1, <2>2, QuietSaved
<1>5. ASSUME NEW h \in Handlers, NEW o \in Operations, NEW t \in HecTokens \union {None}, Begin(h, o, t)
      PROVE  SavedInv'
  BY <1>5, BeginSaved
<1>6. ASSUME NEW h \in Handlers, SaveConfig(h) PROVE SavedInv'
  BY <1>6, SaveSaved
<1>7. CASE Restart
  BY <1>7, RestartSaved
<1> QED
  BY <1>1, <1>2, <1>3, <1>4, <1>5, <1>6, <1>7 DEF Next

\* What the last update of a field saved is what memory and file say, whatever
\* updates, failed saves and restarts came after it, as long as no stale copy
\* was saved (SaveConfig, load, NewServer).
THEOREM SavedStands == Spec => []SavedUpdateStands
<1>1. SavedInv => SavedUpdateStands
  BY DEF SavedInv
<1> QED
  BY <1>1, InitLocked, NextLocked, InitSaved, NextSaved, PTL DEF Spec
-------------------------------------------------------------------------------
(* The copies follow what is stored *)

Parts == {"running", "queue", "telemetry"}

CopyShape ==
    /\ running \in Config
    /\ scheduler \in Nat \ {0} /\ tracker \in Nat \ {0}
    /\ secret \in HecTokens \union {None}
    /\ secretFile \in HecTokens \union {None}
    /\ tele \in HecTokens \union {None}
    /\ tok \in [Handlers -> HecTokens \union {None}]
    /\ solo \in [Handlers -> BOOLEAN]
    /\ apart \in SUBSET Parts
    /\ calls \in 0..MaxCalls /\ faults \in 0..MaxFaults

\* A handler that runs alone is the only one that has steps left.
Alone ==
    \A h \in Handlers : solo[h] = TRUE =>
        todo[h] # <<>> /\ \A k \in Handlers \ {h} : todo[k] = <<>>

Unrun(t) == Pending(t) \/ (t # <<>> /\ Head(t) \in {"run", "refresh"})

\* How far a handler with steps t, operation o, copy c and token k, alone if s,
\* has brought the copies of the stored configuration cfg: each one it has
\* passed is the one of cfg, as long as nobody else runs.
Follows(t, o, c, k, s, parts, cfg, run, cap, key) ==
    /\ Linked(t, o)
    /\ t # <<>> /\ o = "policies" => Normal(c)
    /\ t # <<>> /\ o = "config" => "queue" \in parts
    /\ s = TRUE /\ t # <<>> =>
          /\ ~ Pending(t) => cfg = Normalize(c)
          /\ ~ Unrun(t) => Normalize(run) = cfg
          /\ Head(t) = "tracker" => cap = Capacity(cfg)
          /\ o = "hec" /\ k # None /\ Head(t) # "secret" => key = k

Follower(h) ==
    Follows(todo[h], op[h], copy[h], tok[h], solo[h], apart, stored, running, scheduler, secret)

\* Without a policy update past its save the queue has the stored capacity.
QueueKept ==
    /\ "queue" \notin apart /\ slipped = FALSE
    /\ \A h \in Handlers : todo[h] # <<>> /\ op[h] = "policies" => Pending(todo[h])
    => scheduler = Capacity(stored) /\ tracker = Capacity(stored)

\* Without a Splunk update in flight telemetry has the stored token or none.
TelemetryKept ==
    /\ "telemetry" \notin apart
    /\ \A h \in Handlers : todo[h] # <<>> => op[h] # "hec"
    => tele \in {None, secret}

CopyInv ==
    /\ CopyShape
    /\ Alone
    /\ \A h \in Handlers : Follower(h)
    /\ RunningIsStored /\ QueueKept /\ TelemetryKept

\* The handlers in H make a step: each goes on or answers, and what an answer
\* leaves behind is known.
Moves(H) ==
    /\ \A h \in Handlers \ H : /\ todo'[h] = todo[h] /\ op'[h] = op[h] /\ copy'[h] = copy[h]
                               /\ tok'[h] = tok[h] /\ solo'[h] = solo[h]
    /\ \A h \in H : \/ todo'[h] = <<>> /\ solo'[h] = FALSE
                    \/ /\ todo'[h] = Tail(todo[h]) /\ Tail(todo[h]) # <<>>
                       /\ op'[h] = op[h] /\ copy'[h] = copy[h]
                       /\ tok'[h] = tok[h] /\ solo'[h] = solo[h]
    /\ \A h \in H : todo'[h] = <<>> /\ solo[h] = FALSE => Touched(h) \subseteq apart'
    /\ \A x \in apart \ apart' : \E h \in H : solo[h] = TRUE /\ todo'[h] = <<>> /\ x \in Touched(h)
    /\ tok' \in [Handlers -> HecTokens \union {None}]
    /\ solo' \in [Handlers -> BOOLEAN]
    /\ apart' \in SUBSET Parts

\* The links hold for what is left after a step.
LEMMA LinkedTail ==
    ASSUME NEW t \in Seq(StepNames), t # <<>>, NEW o, Linked(t, o)
    PROVE  Linked(Tail(t), o)
<1>1. /\ Len(t) \in Nat \ {0} /\ Len(Tail(t)) = Len(t) - 1
      /\ \A i \in 1..Len(Tail(t)) : Tail(t)[i] = t[i + 1]
  OBVIOUS
<1> SUFFICES ASSUME NEW i \in 1..Len(Tail(t))
             PROVE  /\ Tail(t)[i] = "save" => i < Len(Tail(t)) /\ Tail(t)[i + 1] \in {"run", "refresh"}
                    /\ Tail(t)[i] \in {"queue", "tracker"} => o = "policies"
                    /\ Tail(t)[i] \in {"secret", "telemetry"} => o = "hec"
                    /\ i < Len(Tail(t)) /\ Tail(t)[i + 1] = "tracker" => Tail(t)[i] = "queue"
                    /\ i = Len(Tail(t)) /\ o = "policies" => Tail(t)[i] = "tracker"
                    /\ i = Len(Tail(t)) /\ o = "hec" => Tail(t)[i] = "telemetry"
  BY DEF Linked
<1>2. PICK j \in 1..Len(t) : j = i + 1
  BY <1>1
<1>3. Tail(t)[i] = t[j] /\ (i < Len(Tail(t)) <=> j < Len(t)) /\ (i = Len(Tail(t)) <=> j = Len(t))
  BY <1>1, <1>2
<1>4. i < Len(Tail(t)) => Tail(t)[i + 1] = t[j + 1]
  BY <1>1, <1>2
<1> QED
  BY <1>2, <1>3, <1>4 DEF Linked

\* The first link: what the step at the head says of the operation, of the
\* step that follows, and of the list when it is the last one.
LEMMA HeadFacts ==
    ASSUME NEW t \in Seq(StepNames), t # <<>>, NEW o, Linked(t, o), Ordered(t, o)
    PROVE  /\ Head(t) = "save" => Tail(t) # <<>> /\ Head(Tail(t)) \in {"run", "refresh"}
           /\ Head(t) = "secret" => Tail(t) # <<>>
           /\ Head(t) \in {"queue", "tracker"} => o = "policies"
           /\ Head(t) \in {"secret", "telemetry"} => o = "hec"
           /\ Tail(t) # <<>> /\ Head(Tail(t)) = "tracker" => Head(t) = "queue"
           /\ Tail(t) = <<>> /\ o = "policies" => Head(t) = "tracker"
           /\ Tail(t) = <<>> /\ o = "hec" => Head(t) = "telemetry"
<1>1. /\ Len(t) \in Nat \ {0} /\ Len(Tail(t)) = Len(t) - 1 /\ Tail(t) \in Seq(StepNames)
      /\ \A i \in 1..Len(Tail(t)) : Tail(t)[i] = t[i + 1]
      /\ Head(t) = t[1]
  OBVIOUS
<1>2. Tail(t) = <<>> <=> Len(t) = 1
  BY TailFacts
<1>3. Tail(t) # <<>> => Head(Tail(t)) = t[2] /\ 1 < Len(t)
  BY <1>1, <1>2
<1>4. 1 \in 1..Len(t) /\ (Tail(t) = <<>> <=> 1 = Len(t)) /\ (1 < Len(t) => Tail(t) # <<>>)
  BY <1>1, <1>2
<1>5. Head(t) = "secret" => 1 < Len(t)
  BY <1>1 DEF Ordered
<1>6. /\ t[1] = "save" => 1 < Len(t) /\ t[2] \in {"run", "refresh"}
      /\ t[1] \in {"queue", "tracker"} => o = "policies"
      /\ t[1] \in {"secret", "telemetry"} => o = "hec"
      /\ 1 < Len(t) /\ t[2] = "tracker" => t[1] = "queue"
      /\ 1 = Len(t) /\ o = "policies" => t[1] = "tracker"
      /\ 1 = Len(t) /\ o = "hec" => t[1] = "telemetry"
  <2>1. 1 + 1 = 2
    OBVIOUS
  <2> QED
    BY <1>4, <2>1 DEF Linked
<1>7. PICK x, y, z : x = t[1] /\ y = t[2] /\ z = Tail(t)
  OBVIOUS
<1> QED
  BY <1>1, <1>3, <1>4, <1>5, <1>6, <1>7

LEMMA TouchedParts == \A h \in Handlers : Touched(h) \subseteq Parts
  BY DEF Touched, Parts

LEMMA AdvanceMoves ==
    ASSUME LockInv, CopyShape, NEW H \in SUBSET Handlers, \A h \in H : todo[h] # <<>>, Advance(H)
    PROVE  Moves(H)
<1>1. Shape /\ \A h \in Handlers : Ordered(todo[h], op[h])
  BY DEF LockInv, Handler, Knows
<1>2. \A h \in H : Len(todo[h]) = 1 <=> Tail(todo[h]) = <<>>
  BY <1>1, TailFacts DEF Shape
<1>3. PICK D : D = {h \in H : Len(todo[h]) = 1}
  OBVIOUS
<1>4. PICK R : R = UNION {Touched(h) : h \in D}
  OBVIOUS
<1>5. /\ todo' = [h \in Handlers |-> IF h \in H THEN Tail(todo[h]) ELSE todo[h]]
      /\ copy' = [h \in Handlers |-> IF h \in D THEN None ELSE copy[h]]
      /\ tok' = [h \in Handlers |-> IF h \in D THEN None ELSE tok[h]]
      /\ op' = [h \in Handlers |-> IF h \in D THEN "config" ELSE op[h]]
      /\ apart' = IF \A h \in D : solo[h] THEN apart \ R ELSE apart \union R
      /\ solo' = [h \in Handlers |-> solo[h] /\ h \notin D]
  BY <1>3, <1>4, Zenon DEF Advance
<1>6. \A h \in H : h \in D <=> Tail(todo[h]) = <<>>
  BY <1>2, <1>3
<1>7. D \subseteq H
  BY <1>3
<1>8. tok' \in [Handlers -> HecTokens \union {None}]
  BY <1>5 DEF CopyShape
<1>9. solo' \in [Handlers -> BOOLEAN]
  BY <1>5
<1>10. \A h \in Handlers : solo'[h] = (solo[h] /\ h \notin D) /\ solo[h] \in BOOLEAN
  BY <1>5 DEF CopyShape
<1>11. \A h \in Handlers : (h \in D => solo'[h] = FALSE) /\ (h \notin D => solo'[h] = solo[h])
  BY <1>10
<1>12. R \subseteq Parts
  BY <1>4, <1>7, TouchedParts
<1>13. apart' \in SUBSET Parts
  BY <1>5, <1>12 DEF CopyShape
<1>14. ASSUME NEW h \in H, todo'[h] = <<>>, solo[h] = FALSE PROVE Touched(h) \subseteq apart'
  <2>1. h \in D
    BY <1>5, <1>6, <1>14
  <2>2. apart' = apart \union R
    BY <1>5, <1>14, <2>1
  <2> QED
    BY <1>4, <2>1, <2>2
<1>15. ASSUME NEW x \in apart \ apart'
       PROVE  \E h \in H : solo[h] = TRUE /\ todo'[h] = <<>> /\ x \in Touched(h)
  <2>1. (\A h \in D : solo[h]) /\ x \in R
    BY <1>5, <1>15
  <2>2. PICK h \in D : x \in Touched(h)
    BY <1>4, <2>1
  <2>3. h \in H /\ solo[h] = TRUE
    BY <1>7, <1>10, <2>1, <2>2
  <2>4. todo'[h] = <<>>
    BY <1>5, <1>6, <2>2, <2>3
  <2> QED
    BY <2>2, <2>3, <2>4
<1>16. ASSUME NEW h \in Handlers \ H
       PROVE  /\ todo'[h] = todo[h] /\ op'[h] = op[h] /\ copy'[h] = copy[h]
              /\ tok'[h] = tok[h] /\ solo'[h] = solo[h]
  BY <1>5, <1>7, <1>11
<1>17. ASSUME NEW h \in H
       PROVE  \/ todo'[h] = <<>> /\ solo'[h] = FALSE
              \/ /\ todo'[h] = Tail(todo[h]) /\ Tail(todo[h]) # <<>>
                 /\ op'[h] = op[h] /\ copy'[h] = copy[h]
                 /\ tok'[h] = tok[h] /\ solo'[h] = solo[h]
  BY <1>5, <1>6, <1>11
<1> QED
  BY <1>8, <1>9, <1>13, <1>14, <1>15, <1>16, <1>17 DEF Moves

LEMMA AbortMoves ==
    ASSUME LockInv, CopyShape, NEW h \in Handlers, Abort(h)
    PROVE  Moves({h}) /\ todo'[h] = <<>> /\ Touched(h) \subseteq apart'
<1>1. /\ todo' = [todo EXCEPT ![h] = <<>>] /\ copy' = [copy EXCEPT ![h] = None]
      /\ tok' = [tok EXCEPT ![h] = None] /\ op' = [op EXCEPT ![h] = "config"]
      /\ apart' = apart \union Touched(h) /\ solo' = [solo EXCEPT ![h] = FALSE]
  BY DEF Abort
<1>2. tok' \in [Handlers -> HecTokens \union {None}]
  BY <1>1 DEF CopyShape
<1>3. solo' \in [Handlers -> BOOLEAN]
  BY <1>1 DEF CopyShape
<1>4. apart' \in SUBSET Parts
  BY <1>1, TouchedParts DEF CopyShape
<1>5. todo'[h] = <<>> /\ solo'[h] = FALSE
  BY <1>1 DEF LockInv, Shape, CopyShape
<1>6. \A g \in Handlers \ {h} : /\ todo'[g] = todo[g] /\ op'[g] = op[g] /\ copy'[g] = copy[g]
                                /\ tok'[g] = tok[g] /\ solo'[g] = solo[g]
  BY <1>1 DEF LockInv, Shape, CopyShape
<1> QED
  BY <1>1, <1>2, <1>3, <1>4, <1>5, <1>6 DEF Moves

\* The handlers that do not move: none of them runs alone.
LEMMA OthersFollow ==
    ASSUME CopyInv, NEW H \in SUBSET Handlers, H # {}, \A h \in H : todo[h] # <<>>, Moves(H),
           NEW g \in Handlers \ H
    PROVE  Follower(g)' /\ solo'[g] = FALSE
<1>1. PICK h \in H : TRUE
  OBVIOUS
<1>2. solo[g] = FALSE
  BY <1>1 DEF CopyInv, Alone, CopyShape
<1>3. /\ todo'[g] = todo[g] /\ op'[g] = op[g] /\ copy'[g] = copy[g]
      /\ tok'[g] = tok[g] /\ solo'[g] = FALSE
  BY <1>2 DEF Moves
<1>4. todo[g] # <<>> /\ "queue" \in apart => "queue" \in apart'
  <2> SUFFICES ASSUME todo[g] # <<>>, "queue" \in apart, "queue" \notin apart' PROVE FALSE
    OBVIOUS
  <2>1. PICK k \in H : solo[k] = TRUE
    BY DEF Moves
  <2> QED
    BY <2>1 DEF CopyInv, Alone
<1>5. Follows(todo[g], op[g], copy[g], tok[g], solo[g], apart, stored, running, scheduler, secret)
  BY DEF CopyInv, Follower
<1>6. Follows(todo'[g], op'[g], copy'[g], tok'[g], solo'[g], apart', stored', running', scheduler', secret')
  BY <1>3, <1>4, <1>5 DEF Follows
<1> QED
  BY <1>3, <1>6 DEF Follower

\* The step of the handlers in H keeps the invariant, provided that whoever of
\* them goes on still knows what it has brought about, and that an answer
\* of one that ran alone leaves the copies as they should be.
LEMMA MovesFollow ==
    ASSUME LockInv, CopyInv, NEW H \in SUBSET Handlers, H # {}, \A h \in H : todo[h] # <<>>,
           Moves(H), CopyShape',
           \A h \in H : todo'[h] = Tail(todo[h]) /\ Tail(todo[h]) # <<>> => Follower(h)',
           \A h \in H : solo[h] = TRUE /\ todo'[h] = <<>> /\ "running" \notin apart' =>
              Normalize(running') = stored',
           \A h \in H : solo[h] = TRUE /\ todo'[h] = <<>> /\ "queue" \notin apart' /\ op[h] = "policies" =>
              scheduler' = Capacity(stored') /\ tracker' = Capacity(stored'),
           \A h \in H : solo[h] = TRUE /\ todo'[h] = <<>> /\ "telemetry" \notin apart' /\ op[h] = "hec" =>
              tele' \in {None, secret'},
           (\A h \in H : op[h] # "policies") /\ "queue" \notin apart /\ slipped' = FALSE =>
              /\ slipped = FALSE /\ scheduler' = scheduler /\ tracker' = tracker
              /\ Capacity(stored') = Capacity(stored),
           (\A h \in H : op[h] # "hec") => tele' = tele /\ secret' = secret
    PROVE  CopyInv'
<1>1. PICK h0 \in H : TRUE
  OBVIOUS
<1>2. ASSUME NEW h \in H, solo[h] = TRUE PROVE H = {h}
  BY <1>2 DEF CopyInv, Alone
<1>3. Alone'
  <2> SUFFICES ASSUME NEW h \in Handlers, solo'[h] = TRUE
               PROVE  todo'[h] # <<>> /\ \A k \in Handlers \ {h} : todo'[k] = <<>>
    BY DEF Alone
  <2>1. h \in H
    BY OthersFollow
  <2>2. solo[h] = TRUE /\ todo'[h] # <<>>
    BY <2>1 DEF Moves
  <2>3. H = {h} /\ \A k \in Handlers \ {h} : todo[k] = <<>>
    BY <1>2, <2>1, <2>2 DEF CopyInv, Alone
  <2> QED
    BY <2>2, <2>3 DEF Moves
<1>4. ASSUME NEW h \in Handlers PROVE Follower(h)'
  <2>1. CASE h \notin H
    BY <2>1, OthersFollow
  <2>2. CASE h \in H /\ todo'[h] = <<>>
    <3>1. Linked(<<>>, op'[h])
      BY DEF Linked
    <3>2. Follows(todo'[h], op'[h], copy'[h], tok'[h], solo'[h], apart', stored', running', scheduler', secret')
      BY <2>2, <3>1 DEF Follows
    <3> QED
      BY <3>2 DEF Follower
  <2>3. CASE h \in H /\ todo'[h] # <<>>
    BY <2>3 DEF Moves
  <2> QED
    BY <2>1, <2>2, <2>3
<1>5. RunningIsStored'
  <2> SUFFICES ASSUME "running" \notin apart', \A h \in Handlers : todo'[h] = <<>>
               PROVE  Normalize(running') = stored'
    BY DEF RunningIsStored, Settled, Idle
  <2>1. solo[h0] = TRUE
    <3>1. solo[h0] = FALSE => Touched(h0) \subseteq apart'
      BY DEF Moves
    <3>2. "running" \in Touched(h0)
      BY DEF Touched
    <3> QED
      BY <3>1, <3>2 DEF CopyInv, CopyShape
  <2> QED
    BY <2>1
<1>6. ASSUME NEW h \in H, op[h] = "policies" PROVE ~ Pending(todo'[h])
  <2>1. CASE todo'[h] = <<>>
    BY <2>1 DEF Pending
  <2>2. CASE todo'[h] = Tail(todo[h])
    <3>1. todo[h] \in Seq(StepNames) /\ todo[h] # <<>> /\ Ordered(todo[h], op[h]) /\ Linked(todo[h], op[h])
      BY DEF LockInv, Shape, Handler, Knows, CopyInv, Follower, Follows
    <3>2. Head(todo[h]) # "secret"
      BY <1>6, <3>1, HeadFacts
    <3> QED
      BY <2>2, <3>1, <3>2, TailFacts DEF Pending
  <2> QED
    BY <2>1, <2>2 DEF Moves
<1>7. QueueKept'
  <2> SUFFICES ASSUME "queue" \notin apart', slipped' = FALSE,
                      \A h \in Handlers : todo'[h] # <<>> /\ op'[h] = "policies" => Pending(todo'[h])
               PROVE  scheduler' = Capacity(stored') /\ tracker' = Capacity(stored')
    BY DEF QueueKept
  <2>1. CASE \E h \in H : op[h] = "policies"
    <3>1. PICK h \in H : op[h] = "policies"
      BY <2>1
    <3>2. ~ Pending(todo'[h])
      BY <1>6, <3>1
    <3>3. todo'[h] = <<>>
      BY <3>1, <3>2 DEF Moves
    <3>4. solo[h] = TRUE
      <4>1. solo[h] = FALSE => Touched(h) \subseteq apart'
        BY <3>3 DEF Moves
      <4>2. "queue" \in Touched(h)
        BY <3>1 DEF Touched
      <4> QED
        BY <4>1, <4>2 DEF CopyInv, CopyShape
    <3> QED
      BY <3>1, <3>3, <3>4
  <2>2. CASE \A h \in H : op[h] # "policies"
    <3>1. "queue" \notin apart
      <4> SUFFICES ASSUME "queue" \in apart PROVE FALSE
        OBVIOUS
      <4>1. PICK k \in H : "queue" \in Touched(k)
        BY DEF Moves
      <4> QED
        BY <2>2, <4>1 DEF Touched
    <3>2. \A h \in Handlers : todo[h] # <<>> /\ op[h] = "policies" => Pending(todo[h])
      BY <2>2 DEF Moves
    <3>3. scheduler = Capacity(stored) /\ tracker = Capacity(stored)
      BY <2>2, <3>1, <3>2 DEF CopyInv, QueueKept
    <3> QED
      BY <2>2, <3>1, <3>3
  <2> QED
    BY <2>1, <2>2
<1>8. TelemetryKept'
  <2> SUFFICES ASSUME "telemetry" \notin apart', \A h \in Handlers : todo'[h] # <<>> => op'[h] # "hec"
               PROVE  tele' \in {None, secret'}
    BY DEF TelemetryKept
  <2>1. CASE \E h \in H : op[h] = "hec"
    <3>1. PICK h \in H : op[h] = "hec"
      BY <2>1
    <3>2. todo'[h] = <<>>
      BY <3>1 DEF Moves
    <3>3. solo[h] = TRUE
      <4>1. solo[h] = FALSE => Touched(h) \subseteq apart'
        BY <3>2 DEF Moves
      <4>2. "telemetry" \in Touched(h)
        BY <3>1 DEF Touched
      <4> QED
        BY <4>1, <4>2 DEF CopyInv, CopyShape
    <3> QED
      BY <3>1, <3>2, <3>3
  <2>2. CASE \A h \in H : op[h] # "hec"
    <3>1. "telemetry" \notin apart
      <4> SUFFICES ASSUME "telemetry" \in apart PROVE FALSE
        OBVIOUS
      <4>1. PICK k \in H : "telemetry" \in Touched(k)
        BY DEF Moves
      <4> QED
        BY <2>2, <4>1 DEF Touched
    <3>2. \A h \in Handlers : todo[h] # <<>> => op[h] # "hec"
      BY <2>2 DEF Moves
    <3>3. tele \in {None, secret}
      BY <3>1, <3>2 DEF CopyInv, TelemetryKept
    <3> QED
      BY <2>2, <3>3
  <2> QED
    BY <2>1, <2>2
<1> QED
  BY <1>3, <1>4, <1>5, <1>7, <1>8 DEF CopyInv

\* What the step at the head of a handler's list does to the copies.
Effect(h) ==
    LET e == Head(todo[h]) IN
    /\ stored' = IF e = "save" THEN Normalize(copy[h]) ELSE stored
    /\ slipped' = IF e = "save" THEN (slipped \/ stale[h]) ELSE slipped
    /\ running' = IF e = "run" THEN copy[h] ELSE IF e = "refresh" THEN stored ELSE running
    /\ scheduler' = IF e = "queue" THEN Capacity(copy[h]) ELSE scheduler
    /\ tracker' = IF e = "tracker" THEN Capacity(copy[h]) ELSE tracker
    /\ secret' = IF e = "secret" THEN tok[h] ELSE secret
    /\ secretFile' \in {secretFile, tok[h]}
    /\ tele' = IF e = "telemetry" THEN tok[h] ELSE tele
    /\ calls' = calls
    /\ faults' \in 0..MaxFaults

LEMMA CapacityFacts ==
    ASSUME NEW c \in Config
    PROVE  /\ Capacity(c) \in Nat \ {0}
           /\ \A d \in Config : d.depth = c.depth => Capacity(d) = Capacity(c)
  BY DEF Capacity, Config

\* A handler that goes on has brought one copy more up to date.
LEMMA TailFollows ==
    ASSUME NEW t \in Seq(StepNames), t # <<>>, Tail(t) # <<>>, NEW o, NEW c \in Config, NEW k,
           NEW s, NEW parts, NEW cfg, NEW run, NEW cap, NEW key,
           Ordered(t, o), Follows(t, o, c, k, s, parts, cfg, run, cap, key),
           NEW parts2, NEW cfg2, NEW run2, NEW cap2, NEW key2,
           "queue" \in parts => "queue" \in parts2,
           s = TRUE =>
              /\ cfg2 = IF Head(t) = "save" THEN Normalize(c) ELSE cfg
              /\ Head(t) = "run" => run2 = c
              /\ Head(t) = "refresh" => Normalize(run2) = cfg2
              /\ Head(t) \notin {"run", "refresh"} => run2 = run
              /\ Head(t) = "queue" => cap2 = Capacity(c)
              /\ key2 = IF Head(t) = "secret" THEN k ELSE key
    PROVE  Follows(Tail(t), o, c, k, s, parts2, cfg2, run2, cap2, key2)
<1>1. Linked(t, o) /\ Linked(Tail(t), o)
  BY LinkedTail DEF Follows
<1>2. /\ Head(t) = "save" => Head(Tail(t)) \in {"run", "refresh"}
      /\ Head(t) = "queue" => o = "policies"
      /\ Head(Tail(t)) = "tracker" => Head(t) = "queue"
  BY <1>1, HeadFacts
<1>3. /\ Head(t) # "save" => (Pending(Tail(t)) <=> Pending(t))
      /\ Head(t) = "save" => ~ Pending(Tail(t))
  BY TailFacts
<1>4. ASSUME s = TRUE
      PROVE  /\ ~ Pending(Tail(t)) => cfg2 = Normalize(c)
             /\ ~ Unrun(Tail(t)) => Normalize(run2) = cfg2
             /\ Head(Tail(t)) = "tracker" => cap2 = Capacity(cfg2)
             /\ o = "hec" /\ k # None => key2 = k
  <2>1. /\ ~ Pending(t) => cfg = Normalize(c)
        /\ ~ Unrun(t) => Normalize(run) = cfg
        /\ o = "policies" => Normal(c)
        /\ o = "hec" /\ k # None /\ Head(t) # "secret" => key = k
    BY <1>4 DEF Follows
  <2>2. ~ Pending(Tail(t)) => cfg2 = Normalize(c)
    BY <1>3, <1>4, <2>1
  <2>3. ~ Unrun(Tail(t)) => Normalize(run2) = cfg2
    <3> SUFFICES ASSUME ~ Unrun(Tail(t)) PROVE Normalize(run2) = cfg2
      OBVIOUS
    <3>1. ~ Pending(Tail(t)) /\ Head(t) # "save"
      BY <1>2 DEF Unrun
    <3>2. ~ Pending(t)
      BY <1>3, <3>1
    <3>3. CASE Head(t) = "run"
      BY <1>4, <2>2, <3>1, <3>3
    <3>4. CASE Head(t) = "refresh"
      BY <1>4, <3>4
    <3>5. CASE Head(t) \notin {"run", "refresh"}
      <4>1. ~ Unrun(t)
        BY <3>2, <3>5 DEF Unrun
      <4> QED
        BY <1>4, <2>1, <3>1, <3>5, <4>1
    <3> QED
      BY <3>3, <3>4, <3>5
  <2>4. Head(Tail(t)) = "tracker" => cap2 = Capacity(cfg2)
    <3> SUFFICES ASSUME Head(Tail(t)) = "tracker" PROVE cap2 = Capacity(cfg2)
      OBVIOUS
    <3>1. Head(t) = "queue" /\ o = "policies" /\ ~ Pending(t)
      BY <1>2 DEF Pending
    <3>2. cfg2 = cfg /\ cfg = Normalize(c) /\ Normalize(c) = c /\ cap2 = Capacity(c)
      BY <1>4, <2>1, <3>1 DEF Normal
    <3> QED
      BY <3>2
  <2>5. o = "hec" /\ k # None => key2 = k
    BY <1>4, <2>1
  <2> QED
    BY <2>2, <2>3, <2>4, <2>5
<1>5. (o = "policies" => Normal(c)) /\ (o = "config" => "queue" \in parts2)
  BY DEF Follows
<1> QED
  BY <1>1, <1>4, <1>5 DEF Follows

\* One handler makes the step at the head of its list.
LEMMA EffectFollows ==
    ASSUME LockInv, SavedInv, CopyInv, NEW h \in Handlers, todo[h] # <<>>, Moves({h}), Effect(h),
           todo'[h] = <<>> /\ Tail(todo[h]) # <<>> => Touched(h) \subseteq apart'
    PROVE  CopyInv'
<1>1. PICK t, o, c, k, e : t = todo[h] /\ o = op[h] /\ c = copy[h] /\ k = tok[h] /\ e = Head(todo[h])
  OBVIOUS
<1>2. /\ t \in Seq(StepNames) /\ t # <<>> /\ o \in Operations /\ c \in Config
      /\ k \in HecTokens \union {None} /\ Ordered(t, o) /\ stored \in Config /\ stale[h] \in BOOLEAN
  BY <1>1 DEF LockInv, Shape, Handler, Knows, CopyInv, CopyShape
<1>3. Follows(t, o, c, k, solo[h], apart, stored, running, scheduler, secret) /\ CopyShape
  BY <1>1 DEF CopyInv, Follower
<1>4. /\ stored' = (IF e = "save" THEN Normalize(c) ELSE stored)
      /\ slipped' = (IF e = "save" THEN (slipped \/ stale[h]) ELSE slipped)
      /\ running' = (IF e = "run" THEN c ELSE IF e = "refresh" THEN stored ELSE running)
      /\ scheduler' = (IF e = "queue" THEN Capacity(c) ELSE scheduler)
      /\ tracker' = (IF e = "tracker" THEN Capacity(c) ELSE tracker)
      /\ secret' = (IF e = "secret" THEN k ELSE secret)
      /\ secretFile' \in {secretFile, k}
      /\ tele' = (IF e = "telemetry" THEN k ELSE tele)
      /\ calls' = calls /\ faults' \in 0..MaxFaults
  BY <1>1 DEF Effect
<1>5. CopyShape'
  <2>1. running' \in Config
    BY <1>2, <1>3, <1>4 DEF CopyShape
  <2>2. scheduler' \in Nat \ {0} /\ tracker' \in Nat \ {0}
    BY <1>2, <1>3, <1>4, CapacityFacts DEF CopyShape
  <2>3. /\ secret' \in HecTokens \union {None} /\ secretFile' \in HecTokens \union {None}
        /\ tele' \in HecTokens \union {None}
    BY <1>2, <1>3, <1>4 DEF CopyShape
  <2>4. calls' \in 0..MaxCalls /\ faults' \in 0..MaxFaults
    BY <1>3, <1>4 DEF CopyShape
  <2> QED
    BY <2>1, <2>2, <2>3, <2>4 DEF CopyShape, Moves
<1>6. Linked(t, o)
  BY <1>3 DEF Follows
<1>7. /\ e = "save" => Tail(t) # <<>>
      /\ e = "secret" => Tail(t) # <<>>
      /\ e \in {"queue", "tracker"} => o = "policies"
      /\ e \in {"secret", "telemetry"} => o = "hec"
      /\ Tail(t) = <<>> /\ o = "policies" => e = "tracker"
      /\ Tail(t) = <<>> /\ o = "hec" => e = "telemetry"
  BY <1>1, <1>2, <1>6, HeadFacts
<1>8. ASSUME todo'[h] = Tail(t), Tail(t) # <<>> PROVE Follower(h)'
  <2>1. /\ todo'[h] = Tail(t) /\ op'[h] = o /\ copy'[h] = c /\ tok'[h] = k /\ solo'[h] = solo[h]
    BY <1>1, <1>8 DEF Moves
  <2>2. "queue" \in apart => "queue" \in apart'
    BY <1>8 DEF Moves
  <2>3. Normalize(stored) = stored
    BY DEF SavedInv, Normal
  <2>4. Follows(Tail(t), o, c, k, solo[h], apart', stored', running', scheduler', secret')
    BY <1>1, <1>2, <1>3, <1>4, <1>8, <2>2, <2>3, TailFollows
  <2>5. Follows(todo'[h], op'[h], copy'[h], tok'[h], solo'[h], apart', stored', running', scheduler', secret')
    BY <2>1, <2>4
  <2> QED
    BY <2>5 DEF Follower
<1>9. ASSUME solo[h] = TRUE, todo'[h] = <<>>, "running" \notin apart'
      PROVE  Normalize(running') = stored'
  <2>1. "running" \in Touched(h)
    BY DEF Touched
  <2>2. Tail(t) = <<>>
    BY <1>1, <1>9, <2>1
  <2>3. ~ Pending(t) /\ e \notin {"save", "secret"}
    BY <1>1, <1>7, <2>2 DEF Pending
  <2>4. stored = Normalize(c) /\ (~ Unrun(t) => Normalize(running) = stored)
    BY <1>2, <1>3, <1>9, <2>3 DEF Follows
  <2>5. Normalize(stored) = stored
    BY DEF SavedInv, Normal
  <2>6. CASE e \in {"run", "refresh"}
    BY <1>4, <2>3, <2>4, <2>5, <2>6
  <2>7. CASE e \notin {"run", "refresh"}
    <3>1. ~ Unrun(t)
      BY <1>1, <2>3, <2>7 DEF Unrun
    <3> QED
      BY <1>4, <2>3, <2>4, <2>7, <3>1
  <2> QED
    BY <2>6, <2>7
<1>10. ASSUME solo[h] = TRUE, todo'[h] = <<>>, "queue" \notin apart', o = "policies"
       PROVE  scheduler' = Capacity(stored') /\ tracker' = Capacity(stored')
  <2>1. "queue" \in Touched(h)
    BY <1>1, <1>10 DEF Touched
  <2>2. Tail(t) = <<>>
    BY <1>1, <1>10, <2>1
  <2>3. e = "tracker"
    BY <1>7, <1>10, <2>2
  <2>4. ~ Pending(t)
    BY <1>1, <2>3 DEF Pending
  <2>5. stored = Normalize(c) /\ Normalize(c) = c /\ scheduler = Capacity(stored)
    BY <1>1, <1>2, <1>3, <1>10, <2>3, <2>4 DEF Follows, Normal
  <2> QED
    BY <1>4, <2>3, <2>5
<1>11. ASSUME solo[h] = TRUE, todo'[h] = <<>>, "telemetry" \notin apart', o = "hec"
       PROVE  tele' \in {None, secret'}
  <2>1. "telemetry" \in Touched(h)
    BY <1>1, <1>11 DEF Touched
  <2>2. Tail(t) = <<>>
    BY <1>1, <1>11, <2>1
  <2>3. e = "telemetry"
    BY <1>7, <1>11, <2>2
  <2>4. k # None => secret = k
    BY <1>1, <1>2, <1>3, <1>11, <2>3 DEF Follows
  <2> QED
    BY <1>4, <2>3, <2>4
<1>12. ASSUME o # "policies", "queue" \notin apart, slipped' = FALSE
       PROVE  /\ slipped = FALSE /\ scheduler' = scheduler /\ tracker' = tracker
              /\ Capacity(stored') = Capacity(stored)
  <2>1. scheduler' = scheduler /\ tracker' = tracker
    BY <1>4, <1>7, <1>12
  <2>2. slipped = FALSE /\ (e = "save" => stale[h] = FALSE)
    <3>1. slipped \in BOOLEAN
      BY DEF SavedInv
    <3> QED
      BY <1>2, <1>4, <1>12, <3>1
  <2>3. CASE e # "save"
    BY <1>4, <2>1, <2>2, <2>3
  <2>4. CASE e = "save"
    <3>1. o # "config"
      BY <1>2, <1>3, <1>12 DEF Follows
    <3>2. Pending(t)
      BY <1>1, <1>2, <2>4 DEF Pending
    <3>3. "depth" \in Fields \ Section(o)
      BY <1>2, <1>12, <3>1 DEF Section, Fields, Operations
    <3>4. Normalize(c)["depth"] = stored["depth"]
      BY <1>1, <2>2, <2>4, <3>1, <3>2, <3>3 DEF SavedInv, Keeper, Keeps
    <3>5. stored' = Normalize(c) /\ Normalize(c) \in Config
      BY <1>2, <1>4, <2>4, NormalizeFields
    <3>6. stored'.depth = stored.depth
      BY <1>2, <3>4, <3>5
    <3> QED
      BY <1>2, <2>1, <2>2, <3>5, <3>6, CapacityFacts
  <2> QED
    BY <2>3, <2>4
<1>13. o # "hec" => tele' = tele /\ secret' = secret
  BY <1>4, <1>7
<1>14. PICK H \in SUBSET Handlers : H = {h}
  OBVIOUS
<1> QED
  BY <1>1, <1>5, <1>8, <1>9, <1>10, <1>11, <1>12, <1>13, <1>14, MovesFollow

LEMMA InitCopies == Init => CopyInv
<1> SUFFICES ASSUME Init PROVE CopyInv
  OBVIOUS
<1>1. stored \in Config /\ Normalize(stored) = stored
  BY InitLocked, InitSaved DEF LockInv, Shape, SavedInv, Normal
<1>2. CopyShape
  <2>1. running \in Config /\ scheduler \in Nat \ {0} /\ tracker \in Nat \ {0}
    BY <1>1, CapacityFacts DEF Init
  <2>2. tok \in [Handlers -> HecTokens \union {None}]
    BY DEF Init
  <2>3. solo \in [Handlers -> BOOLEAN]
    BY DEF Init
  <2>4. calls \in 0..MaxCalls /\ faults \in 0..MaxFaults
    BY SettingsAssumption DEF Init
  <2> QED
    BY <2>1, <2>2, <2>3, <2>4 DEF Init, CopyShape
<1>3. Alone
  BY DEF Init, Alone
<1>4. ASSUME NEW h \in Handlers PROVE Follower(h)
  <2>1. todo[h] = <<>>
    BY DEF Init
  <2>2. Linked(<<>>, op[h])
    BY DEF Linked
  <2> QED
    BY <2>1, <2>2 DEF Follower, Follows
<1>5. RunningIsStored /\ QueueKept /\ TelemetryKept
  BY <1>1 DEF Init, RunningIsStored, QueueKept, TelemetryKept
<1> QED
  BY <1>2, <1>3, <1>4, <1>5 DEF CopyInv

\* An update that begins beside another one ends the run alone of that one.
LEMMA BeginCopies ==
    ASSUME LockInv, SavedInv, CopyInv, NEW h \in Handlers, NEW o \in Operations,
           NEW k \in HecTokens \union {None}, Begin(h, o, k)
    PROVE  CopyInv'
<1>1. Shape /\ CopyShape /\ todo[h] = <<>>
  BY DEF LockInv, CopyInv, Begin, Idle
<1>2. PICK c \in Changes(o, stored) : copy' = [copy EXCEPT ![h] = c]
  BY DEF Begin
<1>3. c \in Config
  BY <1>1, <1>2, ChangeFacts DEF Shape
<1>4. o = "policies" => Normal(c)
  <2> SUFFICES ASSUME o = "policies" PROVE Normal(c)
    OBVIOUS
  <2>1. PICK n \in Depths : c = Normalize([stored EXCEPT !.depth = n])
    BY <1>2 DEF Changes, putRoutingPolicies
  <2>2. [stored EXCEPT !.depth = n] \in Config
    BY <1>1, <2>1, SettingsAssumption DEF Shape, Config
  <2> QED
    BY <2>1, <2>2, NormalizeNormal
<1>5. PICK s : s = Steps(o, k)
  OBVIOUS
<1>6. /\ s \in Seq(StepNames) /\ Linked(s, o) /\ Pending(s) /\ s # <<>>
      /\ o = "hec" /\ k # None => Head(s) = "secret"
  BY <1>5, StepsFacts DEF Pending
<1>7. /\ todo' = [todo EXCEPT ![h] = s] /\ op' = [op EXCEPT ![h] = o] /\ tok' = [tok EXCEPT ![h] = k]
      /\ solo' = [g \in Handlers |-> g = h /\ \A j \in Handlers \ {h} : Idle(j)]
      /\ apart' = IF o = "config" THEN apart \union {"queue"} ELSE apart
  BY <1>5 DEF Begin
<1>8. /\ stored' = stored /\ running' = running /\ scheduler' = scheduler /\ tracker' = tracker
      /\ secret' = secret /\ secretFile' = secretFile /\ tele' = tele /\ slipped' = slipped
      /\ faults' = faults
  BY DEF Begin, config, copies
<1>9. CopyShape'
  <2>1. tok' \in [Handlers -> HecTokens \union {None}]
    BY <1>1, <1>7 DEF CopyShape
  <2>2. solo' \in [Handlers -> BOOLEAN]
    BY <1>7
  <2>3. apart' \in SUBSET Parts
    BY <1>1, <1>7 DEF CopyShape, Parts
  <2>4. calls' \in 0..MaxCalls
    BY <1>1, SettingsAssumption DEF Begin, CopyShape
  <2> QED
    BY <1>1, <1>8, <2>1, <2>2, <2>3, <2>4 DEF CopyShape
<1>10. \A g \in Handlers \ {h} : /\ todo'[g] = todo[g] /\ op'[g] = op[g] /\ copy'[g] = copy[g]
                                 /\ tok'[g] = tok[g]
  BY <1>1, <1>2, <1>7 DEF Shape, CopyShape
<1>11. \A g \in Handlers \ {h} : solo'[g] = FALSE
  BY <1>7
<1>12. todo'[h] = s /\ op'[h] = o /\ copy'[h] = c /\ tok'[h] = k
  BY <1>1, <1>2, <1>7 DEF Shape, CopyShape
<1>13. solo'[h] = TRUE => \A j \in Handlers \ {h} : todo[j] = <<>>
  BY <1>7 DEF Idle
<1>14. Alone'
  BY <1>6, <1>10, <1>11, <1>12, <1>13 DEF Alone
<1>15. apart \subseteq apart' /\ (o = "config" => "queue" \in apart')
  BY <1>7
<1>16. ASSUME NEW g \in Handlers PROVE Follower(g)'
  <2>1. CASE g = h
    <3>1. Head(s) # "tracker"
      BY <1>6 DEF Pending
    <3>2. Follows(s, o, c, k, solo'[h], apart', stored', running', scheduler', secret')
      BY <1>4, <1>6, <1>15, <3>1 DEF Follows, Unrun
    <3>3. Follows(todo'[g], op'[g], copy'[g], tok'[g], solo'[g], apart', stored', running', scheduler', secret')
      BY <1>12, <2>1, <3>2
    <3> QED
      BY <3>3 DEF Follower
  <2>2. CASE g # h
    <3>1. Follows(todo[g], op[g], copy[g], tok[g], solo[g], apart, stored, running, scheduler, secret)
      BY DEF CopyInv, Follower
    <3>2. Follows(todo'[g], op'[g], copy'[g], tok'[g], solo'[g], apart', stored', running', scheduler', secret')
      BY <1>10, <1>11, <1>15, <2>2, <3>1 DEF Follows
    <3> QED
      BY <3>2 DEF Follower
  <2> QED
    BY <2>1, <2>2
<1>17. RunningIsStored'
  BY <1>6, <1>12 DEF RunningIsStored, Settled, Idle
<1>18. QueueKept'
  <2> SUFFICES ASSUME "queue" \notin apart', slipped' = FALSE,
                      \A g \in Handlers : todo'[g] # <<>> /\ op'[g] = "policies" => Pending(todo'[g])
               PROVE  scheduler = Capacity(stored) /\ tracker = Capacity(stored)
    BY <1>8 DEF QueueKept
  <2>1. \A g \in Handlers : todo[g] # <<>> /\ op[g] = "policies" => Pending(todo[g])
    BY <1>1, <1>10
  <2> QED
    BY <1>8, <1>15, <2>1 DEF CopyInv, QueueKept
<1>19. TelemetryKept'
  <2> SUFFICES ASSUME "telemetry" \notin apart', \A g \in Handlers : todo'[g] # <<>> => op'[g] # "hec"
               PROVE  tele \in {None, secret}
    BY <1>8 DEF TelemetryKept
  <2>1. \A g \in Handlers : todo[g] # <<>> => op[g] # "hec"
    BY <1>1, <1>10
  <2> QED
    BY <1>15, <2>1 DEF CopyInv, TelemetryKept
<1> QED
  BY <1>9, <1>14, <1>16, <1>17, <1>18, <1>19 DEF CopyInv

\* Two assignments of s.cfg at once: neither handler ran alone.
LEMMA TornCopies ==
    ASSUME LockInv, SavedInv, CopyInv, NEW h \in Handlers, NEW g \in Handlers, RunTorn(h, g)
    PROVE  CopyInv'
<1>1. PICK H \in SUBSET Handlers : H = {h, g}
  OBVIOUS
<1>2. H # {} /\ h # g /\ \A k \in H : todo[k] # <<>> /\ Head(todo[k]) = "run"
  BY <1>1 DEF RunTorn, At, Idle
<1>3. Moves(H)
  BY <1>1, <1>2, AdvanceMoves DEF RunTorn, CopyInv
<1>4. \A k \in H : solo[k] = FALSE
  BY <1>1, <1>2 DEF CopyInv, Alone, CopyShape
<1>5. /\ stored' = stored /\ scheduler' = scheduler /\ tracker' = tracker /\ slipped' = slipped
      /\ secret' = secret /\ secretFile' = secretFile /\ tele' = tele /\ calls' = calls /\ faults' = faults
  BY DEF RunTorn, config
<1>6. \A k \in H : /\ copy[k] \in Config /\ todo[k] \in Seq(StepNames)
                   /\ Ordered(todo[k], op[k])
  BY <1>2 DEF LockInv, Shape, Handler, Knows
<1>7. running' \in Config
  <2>1. PICK c \in Config, d \in Config : c = copy[h] /\ d = copy[g]
    BY <1>1, <1>6
  <2>2. PICK F : running' = [f \in Fields |-> IF f \in F THEN c[f] ELSE d[f]]
    BY <2>1 DEF RunTorn
  <2> QED
    BY <2>2 DEF Fields, Config
<1>8. CopyShape'
  BY <1>3, <1>5, <1>7 DEF CopyInv, CopyShape, Moves
<1>9. ASSUME NEW k \in H, todo'[k] = Tail(todo[k]), Tail(todo[k]) # <<>> PROVE Follower(k)'
  <2>1. op'[k] = op[k] /\ copy'[k] = copy[k] /\ tok'[k] = tok[k] /\ solo'[k] = FALSE
    BY <1>3, <1>4, <1>9 DEF Moves
  <2>2. "queue" \in apart => "queue" \in apart'
    BY <1>3, <1>4 DEF Moves
  <2>3. Follows(todo[k], op[k], copy[k], tok[k], FALSE, apart, stored, running, scheduler, secret)
    BY <1>4 DEF CopyInv, Follower
  <2>4. Follows(Tail(todo[k]), op[k], copy[k], tok[k], FALSE, apart', stored', running', scheduler', secret')
    BY <1>2, <1>6, <1>9, <2>2, <2>3, TailFollows
  <2> QED
    BY <1>9, <2>1, <2>4 DEF Follower
<1> QED
  BY <1>2, <1>3, <1>4, <1>5, <1>8, <1>9, MovesFollow

\* A start renews every copy from the files.
LEMMA RestartCopies ==
    ASSUME LockInv, SavedInv, CopyInv, Restart
    PROVE  CopyInv'
<1>1. file \in [cfg : Config, setup : BOOLEAN] /\ Normal(file.cfg) /\ CopyShape
  BY DEF LockInv, Shape, SavedInv, CopyInv
<1>2. PICK d : d = Started(file)
  OBVIOUS
<1>3. d \in Config /\ Normal(d) /\ d["depth"] = file.cfg["depth"]
  BY <1>1, <1>2, StartedFacts DEF Fields
<1>4. stored' = d /\ running' = d
  BY <1>2, <1>3 DEF Restart, Normal
<1>5. scheduler' = Capacity(d) /\ tracker' = Capacity(d)
  BY <1>1, <1>3, CapacityFacts DEF Restart
<1>6. secret' = secretFile /\ tele' = secretFile /\ secretFile' = secretFile
  BY DEF Restart
<1>7. CopyShape'
  <2>1. running' \in Config /\ scheduler' \in Nat \ {0} /\ tracker' \in Nat \ {0}
    BY <1>3, <1>4, <1>5, CapacityFacts
  <2>2. tok' \in [Handlers -> HecTokens \union {None}]
    BY DEF Restart
  <2>3. solo' \in [Handlers -> BOOLEAN]
    BY DEF Restart
  <2>4. calls' \in 0..MaxCalls /\ faults' \in 0..MaxFaults
    BY <1>1, SettingsAssumption DEF Restart, Fault, CopyShape
  <2>5. apart' \in SUBSET Parts
    BY DEF Restart
  <2> QED
    BY <1>1, <1>6, <2>1, <2>2, <2>3, <2>4, <2>5 DEF CopyShape
<1>8. \A h \in Handlers : todo'[h] = <<>> /\ solo'[h] = FALSE
  BY DEF Restart
<1>9. ASSUME NEW h \in Handlers PROVE Follower(h)'
  <2>1. Linked(<<>>, op'[h])
    BY DEF Linked
  <2>2. Follows(todo'[h], op'[h], copy'[h], tok'[h], solo'[h], apart', stored', running', scheduler', secret')
    BY <1>8, <2>1 DEF Follows
  <2> QED
    BY <2>2 DEF Follower
<1>10. RunningIsStored'
  BY <1>3, <1>4 DEF RunningIsStored, Normal
<1>11. QueueKept' /\ TelemetryKept' /\ Alone'
  BY <1>4, <1>5, <1>6, <1>8 DEF QueueKept, TelemetryKept, Alone
<1> QED
  BY <1>7, <1>9, <1>10, <1>11 DEF CopyInv

LEMMA NextCopies == LockInv /\ SavedInv /\ CopyInv /\ [Next]_vars => CopyInv'
<1> SUFFICES ASSUME LockInv, SavedInv, CopyInv, [Next]_vars PROVE CopyInv'
  OBVIOUS
<1>0. CopyShape /\ faults \in 0..MaxFaults /\ MaxFaults \in Nat
  BY SettingsAssumption DEF CopyInv, CopyShape
<1>1. ASSUME NEW h \in Handlers,
             \/ SaveConfig(h) \/ Run(h) \/ Refresh(h) \/ ConfigureQueue(h) \/ ConfigureTracker(h)
             \/ NewTelemetry(h) \/ SetSecret(h) \/ EnsureDefaultKey(h) \/ MarkComplete(h) \/ EmitEvent(h)
      PROVE  CopyInv'
  <2>1. todo[h] # <<>>
    BY <1>1 DEF SaveConfig, Run, Refresh, ConfigureQueue, ConfigureTracker, NewTelemetry, SetSecret,
                EnsureDefaultKey, MarkComplete, EmitEvent, At, Idle
  <2>2. Advance({h}) \/ Abort(h)
    BY <1>1 DEF SaveConfig, Run, Refresh, ConfigureQueue, ConfigureTracker, NewTelemetry, SetSecret,
                EnsureDefaultKey, MarkComplete, EmitEvent
  <2>3. Moves({h}) /\ (todo'[h] = <<>> /\ Tail(todo[h]) # <<>> => Touched(h) \subseteq apart')
    <3>1. CASE Advance({h})
      <4>1. PICK H \in SUBSET Handlers : H = {h}
        OBVIOUS
      <4>2. Moves(H)
        BY <1>0, <2>1, <3>1, <4>1, AdvanceMoves
      <4>3. todo'[h] = Tail(todo[h])
        BY <3>1 DEF Advance
      <4> QED
        BY <4>1, <4>2, <4>3
    <3>2. CASE Abort(h)
      BY <1>0, <3>2, AbortMoves
    <3> QED
      BY <2>2, <3>1, <3>2
  <2>4. Effect(h)
    <3>0. faults' = faults \/ Fault => faults' \in 0..MaxFaults
      BY <1>0 DEF Fault
    <3>1. CASE SaveConfig(h)
      BY <1>0, <3>0, <3>1 DEF SaveConfig, At, Effect, copies
    <3>2. CASE Run(h) \/ Refresh(h)
      BY <1>0, <3>2 DEF Run, Refresh, At, Effect, config
    <3>3. CASE ConfigureQueue(h) \/ ConfigureTracker(h) \/ NewTelemetry(h)
      BY <1>0, <3>3 DEF ConfigureQueue, ConfigureTracker, NewTelemetry, At, Effect, config
    <3>4. CASE SetSecret(h)
      BY <1>0, <3>0, <3>4 DEF SetSecret, At, Effect, config
    <3>5. CASE EnsureDefaultKey(h)
      BY <1>0, <3>0, <3>5 DEF EnsureDefaultKey, At, Effect, config, copies
    <3>6. CASE MarkComplete(h) \/ EmitEvent(h)
      BY <1>0, <3>0, <3>6 DEF MarkComplete, EmitEvent, At, Effect, copies
    <3> QED
      BY <1>1, <3>1, <3>2, <3>3, <3>4, <3>5, <3>6
  <2> QED
    BY <2>1, <2>3, <2>4, EffectFollows
<1>2. ASSUME NEW h \in Handlers, NEW g \in Handlers, RunTorn(h, g) PROVE CopyInv'
  BY <1>2, TornCopies
<1>3. CASE AuditEvent \/ UNCHANGED vars
  <2>1. /\ stored' = stored /\ running' = running /\ scheduler' = scheduler /\ tracker' = tracker
        /\ secret' = secret /\ secretFile' = secretFile /\ tele' = tele /\ slipped' = slipped
        /\ todo' = todo /\ op' = op /\ copy' = copy /\ tok' = tok /\ solo' = solo /\ apart' = apart
        /\ calls' = calls /\ faults' = faults
    BY <1>3 DEF AuditEvent, vars, config, copies, handler, marks, history
  <2> QED
    BY <2>1 DEF CopyInv, CopyShape, Alone, Follower, RunningIsStored, Settled, Idle, QueueKept, TelemetryKept
<1>4. ASSUME NEW h \in Handlers, NEW o \in Operations, NEW t \in HecTokens \union {None}, Begin(h, o, t)
      PROVE  CopyInv'
  BY <1>4, BeginCopies
<1>5. CASE Restart
  BY <1>5, RestartCopies
<1> QED
  BY <1>1, <1>2, <1>3, <1>4, <1>5 DEF Next

\* The configuration that runs, the queue's capacity and the telemetry token
\* are those that are stored, each unless an update that really leaves it
\* behind came last; what is stored is normalised (every handler that changes
\* the configuration, SaveConfig, NewServer).
THEOREM CopiesFollow == Spec => []CopiesFollowStored
<1>1. LockInv /\ SavedInv /\ CopyInv => CopiesFollowStored
  <2> SUFFICES ASSUME LockInv, SavedInv, CopyInv PROVE CopiesFollowStored
    OBVIOUS
  <2>1. TypeOK
    BY DEF LockInv, Shape, CopyInv, CopyShape, TypeOK, Parts
  <2>2. StoredIsNormal
    BY NormalizeNormal DEF LockInv, Shape, SavedInv, StoredIsNormal, Normal
  <2>3. QueueFollowsPolicy /\ TelemetryHasCurrentToken
    BY DEF CopyInv, SavedInv, QueueKept, TelemetryKept, QueueFollowsPolicy, TelemetryHasCurrentToken,
           Settled, Idle
  <2> QED
    BY <2>1, <2>2, <2>3 DEF CopyInv, CopiesFollowStored
<1> QED
  BY <1>1, InitLocked, NextLocked, InitSaved, NextSaved, InitCopies, NextCopies, PTL DEF Spec
===============================================================================
