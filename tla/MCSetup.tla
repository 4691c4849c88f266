------------------------------- MODULE MCSetup -------------------------------
(* Setting up, for TLC: a person's account and sessions, the company's link to *)
(* QuickBooks and the copy with two workers.  They meet only in rows each      *)
(* module models for itself, so a behaviour follows one of them.               *)
EXTENDS Accounts, QboConnect, QboCopy, TLC

CONSTANTS b1, b2, r1, r2, w1, w2

VARIABLE part

OneRecord == {<<"Invoice", 1>>}
MCSymmetry == Permutations({b1, b2}) \cup Permutations({r1, r2}) \cup Permutations({w1, w2})

\* Bound: two requests of an account overlap while nothing failed to verify and no
\* write was lost; one request follows another after that.
AccountBound ==
    /\ ~torn
    /\ Cardinality({x \in DOMAIN asks : asks[x] # Free})
          <= (IF user.count = 0 /\ user.lock = "none" THEN 2 ELSE 1)

\* Bound: the copy's fault happens around one backfill run, or none does.
CopyBound == bf.runs <= 1 \/ faults = 0

\* What the other parts start from is fixed.
MCInit ==
    /\ AccountInit /\ ThrottleInit /\ ConnectInit /\ Init
    /\ part \in {"account", "throttle", "connect", "copy"}
    /\ part # "account" => isFirm /\ user = EnrolledUser
    /\ part # "copy" => \A r \in Recs : src[r].ver = 0

MCNext ==
    /\ UNCHANGED part
    /\ \/ /\ part = "account" /\ AccountNext
          /\ UNCHANGED <<throttleVars, conVars, vars>>
       \/ /\ part = "throttle" /\ ThrottleNext
          /\ UNCHANGED <<accountVars, conVars, vars>>
       \/ part = "connect" /\ ConnectNext /\ UNCHANGED <<peopleVars, vars>>
       \/ part = "copy" /\ Next /\ UNCHANGED <<peopleVars, conVars>>

MCSpec == MCInit /\ [][MCNext]_<<peopleVars, conVars, vars, part>>
=============================================================================
