---------------------------- MODULE MCClientKeys ----------------------------
\* Client keys and their secrets on small instances.
EXTENDS ClientKeys, TLC

HandlerSymmetry == Permutations(Handlers)

=============================================================================
