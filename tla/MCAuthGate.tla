------------------------------ MODULE MCAuthGate ------------------------------
(* Instance of AuthGate for TLC. *)
EXTENDS AuthGate, TLC
===============================================================================
