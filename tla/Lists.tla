-------------------------------- MODULE Lists --------------------------------
(***************************************************************************)
(* Lists that are filtered and sorted, by the positions of their elements. *)
(***************************************************************************)
EXTENDS Integers, Sequences, FiniteSets

Distinct(s) == \A i, j \in DOMAIN s : s[i] = s[j] => i = j

\* What s has at the positions I, arranged by the strict order R of positions.
Arranged(s, I, R) ==
  [k \in 1..Cardinality(I) |->
     s[CHOOSE i \in I : Cardinality({j \in I : <<j, i>> \in R}) = k - 1]]

\* What s has at the positions I, in the order of s.
Kept(s, I) == Arranged(s, I, {p \in I \X I : p[1] < p[2]})

=============================================================================
