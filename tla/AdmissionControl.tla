--------------------------- MODULE AdmissionControl ---------------------------
(***************************************************************************)
(* What the marshal's request queue promises, with every scheduling detail *)
(* left out: a limit that an operator may change, a set of requests that   *)
(* hold a slot and a set of requests that wait for one.  A request that    *)
(* waits is either admitted or withdraws, never both, and nobody is        *)
(* admitted once the limit is reached.  QueueScheduler implements this     *)
(* specification.                                                          *)
(***************************************************************************)
EXTENDS Integers, FiniteSets

CONSTANTS Requests,  \* the request identifiers
          Limits     \* the limits an operator may choose

VARIABLES limit,     \* the number of requests that may hold a slot
          holders,   \* the requests that hold a slot
          waiters    \* the requests that wait for one

vars == <<limit, holders, waiters>>

Init ==
    /\ limit \in Limits
    /\ holders = {}
    /\ waiters = {}

\* A request joins the waiters.
Join(r) ==
    /\ r \notin holders \union waiters
    /\ waiters' = waiters \union {r}
    /\ UNCHANGED <<limit, holders>>

\* A request, waiting or just arrived, is given one of the free slots.
Admit(r) ==
    /\ r \notin holders
    /\ Cardinality(holders) < limit
    /\ holders' = holders \union {r}
    /\ waiters' = waiters \ {r}
    /\ UNCHANGED limit

\* A waiter gives up; it holds no slot, so none is lost.
Withdraw(r) ==
    /\ r \in waiters
    /\ waiters' = waiters \ {r}
    /\ UNCHANGED <<limit, holders>>

\* A holder gives its slot back.
Leave(r) ==
    /\ r \in holders
    /\ holders' = holders \ {r}
    /\ UNCHANGED <<limit, waiters>>

\* The operator changes the limit; the requests that hold a slot keep it.
Resize(n) ==
    /\ limit' = n
    /\ UNCHANGED <<holders, waiters>>

Next ==
    \/ \E r \in Requests : Join(r) \/ Admit(r) \/ Withdraw(r) \/ Leave(r)
    \/ \E n \in Limits : Resize(n)

Spec == Init /\ [][Next]_vars
===============================================================================
