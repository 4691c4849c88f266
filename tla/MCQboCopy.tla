------------------------------ MODULE MCQboCopy ------------------------------
(* QboCopy for TLC: two records of one entity, in Id order. *)
EXTENDS QboCopy

CONSTANTS w1, w2

OneEntity == {<<"Invoice", 1>>, <<"Invoice", 2>>}

\* Bound: the first record is there before the backfill starts.
MCInit == Init /\ src[<<"Invoice", 1>>].ver = 1

\* Bound: QuickBooks changes once the backfill has begun; nothing is read before.
MCNext == Next /\ (src' # src => bf.runs > 0)

MCSpec == MCInit /\ [][MCNext]_vars /\ Fairness
===============================================================================
