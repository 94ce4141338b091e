---- MODULE MCNodeRegistry ----
EXTENDS NodeRegistry, TLC

\* Nodes, tokens and handlers are interchangeable.
Symmetry == Permutations(Nodes) \cup Permutations(Tokens) \cup Permutations(Handlers)
====
