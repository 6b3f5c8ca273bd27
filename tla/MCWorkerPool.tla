---------------------------- MODULE MCWorkerPool ----------------------------
(***************************************************************************)
(* Instances of the worker pool: few jobs and workers, a capacity that the *)
(* jobs exceed.                                                            *)
(***************************************************************************)
EXTENDS WorkerPool, TLC

CONSTANTS j1, j2, w1, w2, x1

MCSymmetry == Permutations({j1, j2}) \cup Permutations({w1, w2})
=============================================================================
