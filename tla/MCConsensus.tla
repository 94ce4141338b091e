------------------------------ MODULE MCConsensus ------------------------------
(* Small instances of Consensus for TLC. *)
EXTENDS Consensus, TLC

CONSTANTS n1, n2, n3, n4, yes, no, maybe

Ranked == {<<>>, <<n1>>, <<n2, n1>>, <<n1, n2, n3, n4>>}

\* Absent, single, usual, swapped and oversized bounds: a quorum of 2 of 2, 1 of
\* 2, 2 of 3, 3 of 3 and 4 of 4.
AliasSettings ==
    {[min |-> -1, max |-> 0], [min |-> 1, max |-> 2], [min |-> 2, max |-> 3],
     [min |-> 3, max |-> 2], [min |-> 9, max |-> 1]}

\* The bodies stand for groups of bodies that differ in case and white space only.
Signatures == (yes :> "yes") @@ (no :> "no") @@ (maybe :> "maybe")
================================================================================
