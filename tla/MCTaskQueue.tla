----------------------------- MODULE MCTaskQueue -----------------------------
(* TaskQueue for TLC: workers and task ids are interchangeable. *)
EXTENDS TaskQueue, TLC

CONSTANTS w1, w2, t1, t2

Symmetry == Permutations({w1, w2}) \cup Permutations({t1, t2})
===============================================================================
