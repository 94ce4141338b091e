------------------------------ MODULE MCSettings ------------------------------
(* Instance of Settings for TLC. *)
EXTENDS Settings, TLC

SettingsSymmetry == Permutations(Handlers) \union Permutations(HecTokens)

\* PUT config with authentication half on, a deeper queue, an alias table left
\* out and more attempts than are allowed.
SmallBodies ==
    {[auth |-> FALSE, ui |-> TRUE, depth |-> 2, aliases |-> "unset", session |-> "strict", bench |-> 9]}

SmallDepths == {-1}
===============================================================================
