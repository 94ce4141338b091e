------------------------------- MODULE AuthGate -------------------------------
(***************************************************************************)
(* The gate in front of the management and the inference interface of a    *)
(* marshal that is set up: requireAdmin and requireClientAPIKey of         *)
(* internal/httpapi/auth.go, the failure limiter of auth_limiter.go, and   *)
(* the admin token in the secrets store: in memory, in its file and in the *)
(* OS keychain, which is read first where the marshal uses it.             *)
(*                                                                         *)
(* A key of the limiter is a scope and a remote host.  FirstSeen is kept   *)
(* as the age of the attempt and BlockedUntil as the time left, which Tick *)
(* moves; within one tick any number of requests may come.  Whether a      *)
(* client's API key is valid is the matter of ClientKeys.  The names of    *)
(* the two modules differ, so that one module can extend both.             *)
(***************************************************************************)
EXTENDS Integers

CONSTANTS
    Hosts,      \* remote hosts
    Limit,        \* failures that block (defaultAuthFailureLimit, 5)
    Window,     \* how long failures add up (one minute)
    Cooldown,   \* how long a block lasts (30 seconds)
    MaxAdminToken, \* bound on the admin tokens that are drawn
    MaxGateFaults  \* bound on failed saves, lost answers and restarts

ASSUME GateAssumption ==
    /\ Limit \in Nat \ {0} /\ Window \in Nat \ {0} /\ Cooldown \in Nat \ {0}
    /\ MaxAdminToken \in Nat \ {0} /\ MaxGateFaults \in Nat

LimiterKeys == {"admin", "client"} \X Hosts
AdminTokens == 1..MaxAdminToken
Wrong == 0                        \* a token that was never drawn
Horizon == Window + Cooldown - 1  \* how far back the history reaches

\* An absent entry of the limiter's map has count 0.
Attempt == [count : Nat, age : 0..Window + 1, left : 0..Cooldown]
NoAttempt == [count |-> 0, age |-> 0, left |-> 0]

VARIABLES
    attempts,  \* authFailureLimiter.attempts
    soft,      \* history: soft[k][a] failures of k were answered 401 since it was let
               \* in, at most a ticks ago
    admin,     \* the admin token of the secrets store in memory
    adminFile, \* in its file
    adminChain,\* and in the OS keychain, 0 when it is not there
    chainOn,   \* the keychain is the active backend
    storing,   \* the tokens of rotations that are saved and not yet in the keychain
    rotating,  \* the tokens of rotations that have still to be answered
    told,      \* history: the admin tokens the operator was told
    lost,      \* history: the tokens of rotations that he did not hear of
    missed,    \* history: the tokens that the keychain did not take or keep
    nextAdminToken, \* the next token to be drawn
    gateFaults

limiter == <<attempts, soft>>
stored == <<admin, adminFile, adminChain, chainOn>>
token == <<stored, storing, rotating, told, lost, missed, nextAdminToken>>
gateVars == <<limiter, token, gateFaults>>

NoFailures == [a \in 0..Horizon |-> 0]
One(f) == [a \in 0..Horizon |-> f[a] + 1]
Older(f) == [a \in 0..Horizon |-> IF a = 0 THEN 0 ELSE f[a - 1]]

GateInit ==
    /\ attempts = [k \in LimiterKeys |-> NoAttempt]
    /\ soft = [k \in LimiterKeys |-> NoFailures]
    /\ admin = 1 /\ adminFile = 1 /\ told = {1}
    /\ chainOn \in BOOLEAN
    /\ adminChain = IF chainOn THEN 1 ELSE 0
    /\ storing = {} /\ rotating = {}
    /\ lost = {} /\ missed = IF chainOn THEN {} ELSE {1}
    /\ nextAdminToken = 2
    /\ gateFaults = 0

Fault == gateFaults < MaxGateFaults /\ gateFaults' = gateFaults + 1
-------------------------------------------------------------------------------
(* The limiter *)

Blocked(k) == attempts[k].left > 0

\* Fault: the attempts that filled a window are counted in the next one too.
FailedKeepingCount(t) ==
    [t EXCEPT !.count = t.count + 1, !.age = IF t.age > Window THEN 0 ELSE t.age,
              !.left = IF t.count + 1 >= Limit THEN Cooldown ELSE 0]

\* Fault: one failure too many is let through.
FailedOffByOne(t) ==
    LET u == IF t.count = 0 \/ t.age > Window THEN NoAttempt ELSE t
    IN  [u EXCEPT !.count = u.count + 1, !.left = IF u.count + 1 > Limit THEN Cooldown ELSE 0]

\* registerFailure when the key is not blocked.
Failed(t) ==
    LET u == IF t.count = 0 \/ t.age > Window THEN NoAttempt ELSE t
    IN  [u EXCEPT !.count = u.count + 1, !.left = IF u.count + 1 >= Limit THEN Cooldown ELSE 0]

\* registerFailure and its answer: 429 while the key is blocked, without
\* counting; otherwise counted, and 429 or 401.
registerFailure(k) ==
    \/ Blocked(k) /\ UNCHANGED limiter
    \/ /\ ~ Blocked(k)
       /\ attempts' = [attempts EXCEPT ![k] = Failed(@)]
       /\ soft' = IF Failed(attempts[k]).left > 0 THEN soft ELSE [soft EXCEPT ![k] = One(@)]

\* A valid credential is let in, from a blocked host too, and forgets the
\* host's failures.
reset(k) ==
    /\ attempts' = [attempts EXCEPT ![k] = NoAttempt]
    /\ soft' = [soft EXCEPT ![k] = NoFailures]

\* Store.Get: the keychain's token, if it is used and has one.
Accepted == IF chainOn /\ adminChain # 0 THEN adminChain ELSE admin

\* requireAdmin; a request without a token is a 401 and changes nothing.
AdminRequest(host, t) ==
    /\ IF t = Accepted THEN reset(<<"admin", host>>) ELSE registerFailure(<<"admin", host>>)
    /\ UNCHANGED <<token, gateFaults>>

\* requireClientAPIKey.
ClientRequest(host, valid) ==
    /\ IF valid THEN reset(<<"client", host>>) ELSE registerFailure(<<"client", host>>)
    /\ UNCHANGED <<token, gateFaults>>

\* Time passes.
Tick ==
    /\ attempts' = [k \in LimiterKeys |->
          [attempts[k] EXCEPT !.age = IF @ <= Window /\ attempts[k].count > 0 THEN @ + 1 ELSE @,
                              !.left = IF @ > 0 THEN @ - 1 ELSE 0]]
    /\ soft' = [k \in LimiterKeys |-> Older(soft[k])]
    /\ UNCHANGED <<token, gateFaults>>
-------------------------------------------------------------------------------
(* The admin token *)

\* The saved token t goes on to the keychain, or at once to the answer.
SavedToken(t) ==
    IF chainOn THEN storing' = storing \union {t} /\ UNCHANGED <<rotating, missed>>
    ELSE /\ rotating' = rotating \union {t} /\ missed' = missed \union {t}
         /\ UNCHANGED storing

\* Fault: the new token is answered before it is saved.
RotateUnsaved ==
    /\ nextAdminToken <= MaxAdminToken
    /\ nextAdminToken' = nextAdminToken + 1
    /\ admin' = nextAdminToken
    /\ SavedToken(nextAdminToken)
    /\ UNCHANGED <<limiter, adminFile, adminChain, chainOn, told, lost, gateFaults>>

\* rotateAdminToken by an operator who was let in: memory first, then the
\* file, under the lock.  A failed save is a 500 and leaves the new token in
\* memory.
Rotate ==
    /\ nextAdminToken <= MaxAdminToken
    /\ nextAdminToken' = nextAdminToken + 1
    /\ admin' = nextAdminToken
    /\ \/ /\ adminFile' = nextAdminToken
          /\ SavedToken(nextAdminToken)
          /\ UNCHANGED <<lost, gateFaults>>
       \/ /\ Fault
          /\ lost' = lost \union {nextAdminToken}
          /\ UNCHANGED <<adminFile, storing, rotating, missed>>
    /\ UNCHANGED <<limiter, adminChain, chainOn, told>>

\* The keychain takes the token after the lock, so that two rotations may come
\* in either order, or fails: the error is swallowed and the keychain is not
\* used any more.
RotateKeychain(t) ==
    /\ t \in storing
    /\ storing' = storing \ {t}
    /\ rotating' = rotating \union {t}
    /\ \/ /\ adminChain' = t
          /\ missed' = missed \union {u \in AdminTokens : t < u /\ u <= adminChain}
          /\ UNCHANGED <<chainOn, gateFaults>>
       \/ /\ Fault
          /\ chainOn' = FALSE
          /\ missed' = missed \union {t}
          /\ UNCHANGED adminChain
    /\ UNCHANGED <<limiter, admin, adminFile, told, lost, nextAdminToken>>

\* The answer reaches the operator, or gets lost.  Answers may overtake each
\* other.
RotateAnswered(t) ==
    /\ t \in rotating
    /\ rotating' = rotating \ {t}
    /\ \/ told' = told \union {t} /\ UNCHANGED <<lost, gateFaults>>
       \/ Fault /\ lost' = lost \union {t} /\ UNCHANGED told
    /\ UNCHANGED <<limiter, stored, storing, missed, nextAdminToken>>

\* Any other secret is set: the whole store is saved.
OtherSecretSaved ==
    /\ adminFile # admin
    /\ adminFile' = admin
    /\ UNCHANGED <<limiter, admin, adminChain, chainOn, storing, rotating, told, lost, missed,
                   nextAdminToken, gateFaults>>

\* A read of the keychain fails with something else than not found.
AdminKeychainLost ==
    /\ chainOn /\ Fault
    /\ chainOn' = FALSE
    /\ UNCHANGED <<limiter, admin, adminFile, adminChain, storing, rotating, told, lost, missed,
                   nextAdminToken>>

\* The marshal starts again, with a keychain or without (not requested, or not
\* available).  It loads the file, gives the keychain what that does not have
\* and otherwise believes the keychain; ensureAdminToken finds a token.  The
\* limiter is new.
Restart ==
    /\ Fault
    /\ attempts' = [k \in LimiterKeys |-> NoAttempt]
    /\ soft' = [k \in LimiterKeys |-> NoFailures]
    /\ admin' = adminFile
    /\ chainOn' \in BOOLEAN
    /\ adminChain' = IF chainOn' /\ adminChain = 0 THEN adminFile ELSE adminChain
    /\ storing' = {} /\ rotating' = {}
    /\ lost' = lost \union storing \union rotating
    /\ UNCHANGED <<adminFile, told, missed, nextAdminToken>>

GateNext ==
    \/ \E host \in Hosts : \/ \E t \in told \union {Wrong} : AdminRequest(host, t)
                           \/ \E valid \in BOOLEAN : ClientRequest(host, valid)
    \/ Tick
    \/ Rotate
    \/ \E t \in AdminTokens : RotateKeychain(t) \/ RotateAnswered(t)
    \/ OtherSecretSaved
    \/ AdminKeychainLost
    \/ Restart

GateSpec == GateInit /\ [][GateNext]_gateVars
-------------------------------------------------------------------------------
(* Properties *)

\* Every variable keeps its type.
GateTypeOK ==
    /\ attempts \in [LimiterKeys -> Attempt]
    /\ soft \in [LimiterKeys -> [0..Horizon -> Nat]]
    /\ admin \in AdminTokens /\ adminFile \in AdminTokens /\ told \subseteq AdminTokens
    /\ adminChain \in AdminTokens \union {0} /\ chainOn \in BOOLEAN
    /\ storing \subseteq AdminTokens /\ rotating \subseteq AdminTokens
    /\ lost \subseteq AdminTokens /\ missed \subseteq AdminTokens
    /\ nextAdminToken \in 1..MaxAdminToken + 1
    /\ gateFaults \in 0..MaxGateFaults

\* A host is blocked in a scope only if at least Limit - 1 of its tokens were
\* refused in that scope, since it was let in last, less long ago than
\* the window and the cooldown together: old failures, other hosts and the other
\* scope never add up to a block, and failures during a block do not extend it
\* (registerFailure).
BlockIsEarned ==
    \A k \in LimiterKeys : Blocked(k) => soft[k][Horizon] >= Limit - 1

\* Between two successes at most 2 * Limit - 3 wrong tokens of a host are
\* answered 401 in any span of one window: the window is fixed by the first
\* failure, so the end of one and the begin of the next add up, but never two
\* full ones (registerFailure).  A restart forgets all failures, those counted
\* here too.
RefusalsBounded ==
    \A k \in LimiterKeys : soft[k][Window] <= IF Limit = 1 THEN 0 ELSE 2 * Limit - 3

\* The admin token that counts is never older than one the operator was told,
\* and he was told it, or is about to be, unless its own rotation failed to save
\* it or its answer was lost.  That holds of the token in memory and of the one
\* in the file, which counts after a start (rotateAdminToken, ensureAdminToken).
\* The keychain's token, which counts before them, may be older than one that the
\* keychain did not take, because it failed or was not in use, or overwrote with
\* an older one (Store.Set), and than no other.
OperatorHoldsToken ==
    /\ \A t \in {admin, adminFile} :
          /\ t \in told \union storing \union rotating \union lost
          /\ \A u \in told : u <= t
    /\ adminChain # 0 =>
          /\ adminChain \in told \union storing \union rotating \union lost
          /\ \A u \in told : u <= adminChain \/ u \in missed
===============================================================================
