------------------------------ MODULE MCQboChain ------------------------------
(* QboChain for TLC: the entities are model values. *)
EXTENDS QboChain

CONSTANTS e1, e2
===============================================================================
