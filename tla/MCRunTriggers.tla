---------------------------- MODULE MCRunTriggers ----------------------------
(* RunTriggers for TLC: the requests are interchangeable within their kind. *)
EXTENDS RunTriggers, TLC

CONSTANTS c1, c2, l1, l2

Symmetry == Permutations({c1, c2}) \cup Permutations({l1, l2})
===============================================================================
