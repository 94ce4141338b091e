---------------------------- MODULE MCRequestProxy -----------------------------
(* Instances of RequestProxy for TLC. *)
EXTENDS RequestProxy

CONSTANTS n1, n2, n3

\* No candidate, one, and two or three in different orders.
Lists == {<<>>, <<n1>>, <<n1, n2>>, <<n2, n1, n3>>}
===============================================================================
