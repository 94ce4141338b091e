---------------------------- MODULE MCModelActions ----------------------------
(* Instances of ModelActions for TLC. *)
EXTENDS ModelActions, TLC

Symmetry == Permutations(Actions) \union Permutations(Handlers)

\* The models are reported missing, or installed and not kept warm.
SmallInventories == {[m \in S |-> [keep |-> FALSE, state |-> "installed"]] : S \in {{}, Models}}
===============================================================================
