-------------------------- MODULE MCReviewExceptions --------------------------
(* ReviewExceptions for TLC. *)
EXTENDS ReviewExceptions, TLC

CONSTANTS p1, p2, r1, r2

Symmetry == Permutations({p1, p2}) \cup Permutations({r1, r2})

\* Bounds: one of the facts is never block_close, and an assignment overlaps runs
\* but not another person.
Bounded ==
  /\ \A k \in Keys : source[k] # NoIssue /\ source[k].severity = "block_close" => source[k].stated # AnyFact
  /\ \A p \in Persons : person[p].doing = "assign" =>
       \A q \in Persons \ {p} : person[q].doing = "nothing"
===============================================================================
