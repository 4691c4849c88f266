------------------------------ MODULE MCCompany ------------------------------
(* What a company keeps, for TLC: its people, its configuration, and the       *)
(* ledger lines of its costs.  CostLedger models for itself the mapping it     *)
(* reads, so a behaviour follows one of them.                                  *)
EXTENDS Memberships, Config, CostLedger, TLC

CONSTANTS u1, u2

VARIABLE part

\* A rule that derives both values and one that names its division.
Derives == [name |-> "r1", accounts |-> {"a"}, division |-> Unset, fromDigit |-> TRUE,
            category |-> Unset, fromSlot |-> TRUE]
Names == [name |-> "r2", accounts |-> {"a"}, division |-> "L", fromDigit |-> FALSE,
          category |-> Unset, fromSlot |-> FALSE]
MCRuleSets == {<<Derives, Names>>, <<Derives>>}
MCDigit == [a \in {"a"} |-> 4]
MCSlot == [a \in {"a"} |-> 10]
MCCategorySlot == [c \in {"labor"} |-> 10]

\* Costs of two lines, negative costs of an account no type makes expense-side,
\* a void, a deletion, a document before the history starts, an unreadable one.
CostsOf(month, sign, note, ls) ==
    [gone |-> FALSE, readable |-> TRUE, month |-> month, sign |-> sign, note |-> note, lines |-> ls]
Charged(by, of, c, amount) == [by |-> by, of |-> of, customer |-> c, amount |-> amount]
MCCostPayload ==
    LET one == "l1" :> Charged("account", "cogs", "c1", 5) IN
    { CostsOf(1, 1, FALSE, one @@ ("l2" :> Charged("item", "i", Nothing, 3))),
      CostsOf(2, -1, FALSE, "l1" :> Charged("account", "asset", "c1", 2)),
      CostsOf(1, 1, TRUE, "l1" :> Charged("account", "cogs", "c1", 0)),
      CostsOf(0, 1, FALSE, one),
      [CostsOf(0, 1, FALSE, << >>) EXCEPT !.gone = TRUE],
      [CostsOf(1, 1, FALSE, << >>) EXCEPT !.readable = FALSE] }
MCCostPolicy == [basis : {Nothing, {"material"}}, categories : {CostSlot, CostSlot \ {"owned"}}]
MCMapChoice == {[jobCost |-> TRUE, slot |-> "material"], [jobCost |-> TRUE, slot |-> "owned"],
                [jobCost |-> FALSE, slot |-> "labor"]}

\* Bound: one run of the suggestions at a time; while it is under way people
\* change mappings, and between runs everything the rules are made of.
AroundSuggest ==
    /\ suggesting'[2] = Unset
    /\ suggesting[1] # Unset => UNCHANGED <<division, rules, chart>>

MCInit == /\ Init /\ ConfigInit /\ CostInit
          /\ part \in {"members", "map", "rate", "policy", "cost"}
MCNext ==
    /\ UNCHANGED part
    /\ \/ part = "members" /\ Next /\ UNCHANGED <<cfgVars, costVars>>
       \/ /\ part = "map" /\ MapStep /\ AroundSuggest
          /\ UNCHANGED <<vars, rateSide, policySide, costVars>>
       \/ part = "rate" /\ RateStep /\ UNCHANGED <<vars, mapSide, policySide, costVars>>
       \/ part = "policy" /\ PolicyStep /\ UNCHANGED <<vars, mapSide, rateSide, costVars>>
       \/ part = "cost" /\ CostNext /\ UNCHANGED <<vars, cfgVars>>
MCSpec == MCInit /\ [][MCNext]_<<vars, cfgVars, costVars, part>>
=============================================================================
