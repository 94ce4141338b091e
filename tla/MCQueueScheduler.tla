--------------------------- MODULE MCQueueScheduler ---------------------------
(* Instances of QueueScheduler for TLC. *)
EXTENDS QueueScheduler, TLC

\* Starts with one slot; the round is high, normal, normal, low.
BootSettings == [depth |-> 1, policy |-> "weighted_priority", high |-> 1, normal |-> 2, low |-> 1]

\* A larger queue with an all-default round of three, two and one; a negative
\* depth, which is one slot, served in arrival order.
OperatorSettings ==
    {BootSettings,
     [depth |-> 2, policy |-> "", high |-> 0, normal |-> 0, low |-> -1],
     [depth |-> -1, policy |-> "fifo", high |-> 1, normal |-> 1, low |-> 1]}

\* The operator only widens and narrows the queue.
ResizeSettings ==
    {BootSettings,
     [depth |-> 2, policy |-> "weighted_priority", high |-> 1, normal |-> 1, low |-> 1]}

RequestSymmetry == Permutations(Requests)
===============================================================================
