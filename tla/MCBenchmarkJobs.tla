---------------------------- MODULE MCBenchmarkJobs ----------------------------
(* Instances of BenchmarkJobs for TLC. *)
EXTENDS BenchmarkJobs, TLC

Symmetry == Permutations(Handlers)
===============================================================================
