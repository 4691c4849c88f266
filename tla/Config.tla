------------------------------- MODULE Config -------------------------------
(***************************************************************************)
(* The configuration of one company: domain/config (service, chart, rules, *)
(* categories, burden, policy) behind api/config.py.  A request is one     *)
(* transaction at READ COMMITTED.  Requests that read a row and write it   *)
(* under a unique key or a lock are one action; the three that decide from *)
(* what they read before are two: a run of the suggestions, which reads    *)
(* every mapping first; the adding of a burden rate, which locks the rows  *)
(* it read and not the one another request is adding; and the setting of   *)
(* the history start, which asks without a lock whether a backfill has     *)
(* completed.                                                              *)
(***************************************************************************)
EXTENDS Integers, FiniteSets, Sequences, FiniteSetsExt

CONSTANTS GlAccount, Division, Category, Client,
          Digit,       \* [GlAccount -> the character the rules look up]
          Slot,        \* [GlAccount -> its last two characters]
          CategorySlot,\* [Category -> slot], the D-23 list
          RuleSets,    \* sequences of rules a person may load
          Days,        \* the calendar: a set of integers
          StartDays,      \* history start dates that may be decided
          MaxRates, Unset

\* account_suggest_rule: a value is named or derived, never both (the CHECKs).
RuleHolds(r) == ~(r.division # Unset /\ r.fromDigit) /\ ~(r.category # Unset /\ r.fromSlot)

ASSUME ConfigAssumption ==
    /\ Days \subseteq Int /\ MaxRates \in Nat
    /\ \A rs \in RuleSets : \A i \in DOMAIN rs :
          /\ i \in Nat /\ RuleHolds(rs[i])
          /\ rs[i].division \in Division \cup {Unset}
          /\ rs[i].category \in Category \cup {Unset}

VARIABLES
    division,   \* [Division -> [digit, active]] or Unset: the division rows
    category,   \* [Category -> "none", "active" or "inactive"]
    rules,      \* the rules in force, in order
    chart,      \* active accounts
    map,        \* [GlAccount -> [division, category, status, rule]] or Unset
    suggesting, \* [Client -> what a run of the suggestions read] or Unset
    rates,      \* burden_rate rows: [id, division, from, to, active]
    adding,     \* [Client -> the rate a request is about to insert] or Unset
    policy,     \* the history_start row: a date or Unset
    setting,    \* [Client -> the date a request was allowed to set] or Unset
    backfill,   \* the first backfill: [status, start]
    early,      \* ghost: requests that were under way when the backfill completed
    overtaken,  \* ghost: accounts whose mapping was changed under a run of the suggestions
    doubled,    \* ghost: two additions of a rate were open together
    fresh       \* ghost: the suggestions ran and nothing they read has changed since

mapSide == <<division, category, rules, chart, map, suggesting, overtaken, fresh>>
rateSide == <<rates, adding, doubled>>
policySide == <<policy, setting, backfill, early>>
cfgVars == <<mapSide, rateSide, policySide>>

\* The rows, as far as the properties tell them apart.
DivisionRow == [digit : {Digit[a] : a \in GlAccount} \cup {Unset}, active : BOOLEAN]
MapRow == [division : Division \cup {Unset}, category : Category \cup {Unset},
           status : {"suggested", "confirmed"},
           rule : {Unset} \cup UNION {{rs[i].name : i \in DOMAIN rs} : rs \in RuleSets}]
RateRow == [id : Nat \ {0}, division : Division \cup {Unset}, from : Days,
            to : Days \cup {Unset}, active : BOOLEAN]

\* What a run of the suggestions read and decided, and the periods a request for a
\* burden rate may ask for (the end after the start).
Maps(S) == [S -> MapRow \cup {Unset}]
SuggestRun == UNION {[seen : Maps(GlAccount), want : Maps(S)] : S \in SUBSET GlAccount}
Period == {r \in [division : Division \cup {Unset}, from : Days, to : Days \cup {Unset}] :
             r.to = Unset \/ r.to > r.from}

\* NULL is no row and no id.
ASSUME UnsetAssumption ==
    /\ Unset \notin Division \cup Category \cup DivisionRow \cup MapRow \cup Period
    /\ Unset \notin RateRow /\ Unset \notin SuggestRun /\ Unset \notin StartDays

ConfigInit ==
    /\ division = [d \in Division |-> Unset] /\ category = [c \in Category |-> "none"]
    /\ rules = << >> /\ chart = GlAccount /\ map = [a \in GlAccount |-> Unset]
    /\ suggesting = [c \in Client |-> Unset] /\ overtaken = {} /\ fresh = FALSE
    /\ rates = {} /\ adding = [c \in Client |-> Unset] /\ doubled = FALSE
    /\ policy = Unset /\ setting = [c \in Client |-> Unset]
    /\ backfill = [status |-> "none", start |-> Unset] /\ early = {}

----------------------------------------------------------------------------
(* Divisions, categories and rules.                                         *)

\* A digit is used by one division (the check, and the unique index behind it).
DigitFree(g, d) ==
    g # Unset => {e \in Division \ {d} : division[e] # Unset /\ division[e].digit = g} = {}

Digits == {Digit[a] : a \in GlAccount} \cup {Unset}

\* create_division: a new code, a digit nobody uses.
CreateDivision(d, g) ==
    /\ division[d] = Unset /\ DigitFree(g, d)
    /\ division' = [division EXCEPT ![d] = [digit |-> g, active |-> TRUE]]
    /\ fresh' = FALSE
    /\ UNCHANGED <<category, rules, chart, map, suggesting, overtaken>>

\* Faulty: only the divisions in use are asked for their digit.
BadUpdateDivision(d, g) ==
    /\ division[d] # Unset
    /\ {e \in Division \ {d} : division[e] # Unset /\ division[e].active
                               /\ g # Unset /\ division[e].digit = g} = {}
    /\ division' = [division EXCEPT ![d].digit = g]
    /\ fresh' = FALSE
    /\ UNCHANGED <<category, rules, chart, map, suggesting, overtaken>>

\* update_division: the digit is replaced or cleared.
UpdateDivision(d, g) ==
    /\ division[d] # Unset /\ DigitFree(g, d)
    /\ division' = [division EXCEPT ![d].digit = g]
    /\ fresh' = FALSE
    /\ UNCHANGED <<category, rules, chart, map, suggesting, overtaken>>

\* deactivate_division: the digit stays taken.
DeactivateDivision(d) ==
    /\ division[d] # Unset /\ division[d].active
    /\ division' = [division EXCEPT ![d].active = FALSE]
    /\ fresh' = FALSE
    /\ UNCHANGED <<category, rules, chart, map, suggesting, overtaken>>

\* ensure_cost_categories under the company's advisory lock: the whole D-23
\* list when there is none, nothing when there is one.
Ensured == IF \A c \in Category : category[c] = "none" THEN [c \in Category |-> "active"] ELSE category

\* deactivate_cost_category.
DeactivateCategory(c) ==
    /\ category[c] = "active"
    /\ category' = [category EXCEPT ![c] = "inactive"]
    /\ fresh' = FALSE
    /\ UNCHANGED <<division, rules, chart, map, suggesting, overtaken>>

\* load_suggest_rules: categories are ensured, every division a rule names
\* exists, the old rules go and the new come in one transaction.
LoadRules(rs) ==
    /\ \A i \in DOMAIN rs : rs[i].division # Unset => division[rs[i].division] # Unset
    /\ rules' = rs /\ category' = Ensured /\ fresh' = FALSE
    /\ UNCHANGED <<division, chart, map, suggesting, overtaken>>

\* The follow-up of a chart (ImportBatches) changes which accounts are active.
ChartChanges(s) ==
    /\ chart' = s /\ fresh' = FALSE
    /\ UNCHANGED <<division, category, rules, map, suggesting, overtaken>>

----------------------------------------------------------------------------
(* Suggestions and mappings.                                                *)

\* suggest's lookup tables: active divisions by digit, active categories by slot.
DivisionByDigit(g) ==
    LET hit == {d \in Division : division[d] # Unset /\ division[d].active /\ division[d].digit = g /\ g # Unset}
    IN IF hit = {} THEN Unset ELSE CHOOSE d \in hit : TRUE
CategoryBySlot(cats, s) ==
    LET hit == {c \in Category : cats[c] = "active" /\ CategorySlot[c] = s}
    IN IF hit = {} THEN Unset ELSE CHOOSE c \in hit : TRUE

\* What rule i gives for account a: the explicit value or the derived one.
RuleDivision(i, a) == IF rules[i].fromDigit THEN DivisionByDigit(Digit[a]) ELSE rules[i].division
RuleCategory(i, a, cats) ==
    IF rules[i].fromSlot THEN CategoryBySlot(cats, Slot[a]) ELSE rules[i].category

\* suggest_for: the first rule that matches and can derive what it needs.
SuggestFor(a, cats) ==
    LET usable == {i \in DOMAIN rules :
                     /\ a \in rules[i].accounts
                     /\ rules[i].fromDigit => RuleDivision(i, a) # Unset
                     /\ rules[i].fromSlot => RuleCategory(i, a, cats) # Unset}
    IN IF usable = {} THEN Unset
       ELSE LET i == Min(usable) IN
            [division |-> RuleDivision(i, a), category |-> RuleCategory(i, a, cats),
             status |-> "suggested", rule |-> rules[i].name]

\* suggest reads the rules, the lookup tables, the mappings and the active
\* accounts, and decides for each account without a confirmed mapping.
ReadSuggest(c) ==
    /\ suggesting[c] = Unset
    /\ category' = Ensured
    /\ suggesting' = [suggesting EXCEPT ![c] =
         [seen |-> map,
          want |-> [a \in {b \in chart : map[b] # Unset => map[b].status # "confirmed"} |->
                      SuggestFor(a, Ensured)]]]
    /\ fresh' = (\A e \in Client : suggesting[e] = Unset)
    /\ UNCHANGED <<division, rules, chart, map, overtaken>>

\* What a run writes: a row is inserted, deleted, or updated in the columns that
\* differ, which leaves the status.
Changed(run, a) ==
    /\ run.seen[a] # Unset /\ run.want[a] # Unset
    /\ [run.seen[a] EXCEPT !.status = "suggested"] # run.want[a]
RowAfter(run, a) ==
    CASE Changed(run, a) -> [run.want[a] EXCEPT !.status = map[a].status]
      [] run.seen[a] = Unset /\ run.want[a] # Unset -> run.want[a]
      [] run.seen[a] # Unset /\ run.want[a] = Unset -> Unset
      [] OTHER -> map[a]

\* A row inserted by someone else meets the unique key, and an update of a row that
\* is gone raises: the run is rolled back.
RunFails(run) ==
    \E a \in DOMAIN run.want : \/ run.seen[a] = Unset /\ run.want[a] # Unset /\ map[a] # Unset
                               \/ Changed(run, a) /\ map[a] = Unset

CommitSuggest(c) ==
    LET run == suggesting[c] IN
    /\ run # Unset
    /\ suggesting' = [suggesting EXCEPT ![c] = Unset]
    /\ IF RunFails(run) THEN fresh' = FALSE /\ UNCHANGED <<map, overtaken>>
       ELSE /\ map' = [a \in GlAccount |-> IF a \in DOMAIN run.want THEN RowAfter(run, a) ELSE map[a]]
            /\ overtaken' = overtaken \cup {a \in DOMAIN run.want : map[a] # run.seen[a]}
            /\ UNCHANGED fresh
    /\ UNCHANGED <<division, category, rules, chart>>

\* Faulty: a mapping set by hand takes the row back to suggested.
BadSetAccountMap(a, d, k, confirm) ==
    /\ d # Unset => division[d] # Unset
    /\ k # Unset => category[k] # "none"
    /\ map' = [map EXCEPT ![a] = [division |-> d, category |-> k, rule |-> Unset,
                                  status |-> IF confirm THEN "confirmed" ELSE "suggested"]]
    /\ fresh' = FALSE
    /\ UNCHANGED <<division, category, rules, chart, suggesting, overtaken>>

\* set_account_map: by hand, with or without confirming; a confirmed row stays
\* confirmed.
SetAccountMap(a, d, k, confirm) ==
    /\ d # Unset => division[d] # Unset
    /\ k # Unset => category[k] # "none"
    /\ map' = [map EXCEPT ![a] =
                 [division |-> d, category |-> k, rule |-> Unset,
                  status |-> IF confirm \/ (map[a] # Unset /\ map[a].status = "confirmed")
                             THEN "confirmed" ELSE "suggested"]]
    /\ fresh' = FALSE
    /\ UNCHANGED <<division, category, rules, chart, suggesting, overtaken>>

\* confirm_account_map, and confirm_all_suggestions under row locks.
ConfirmMaps(S) ==
    /\ S # {} /\ \A a \in S : map[a] # Unset /\ map[a].status = "suggested"
    /\ S \in {{a} : a \in GlAccount} \/ S = {a \in GlAccount : map[a] # Unset /\ map[a].status = "suggested"}
    /\ map' = [a \in GlAccount |-> IF a \in S THEN [map[a] EXCEPT !.status = "confirmed"] ELSE map[a]]
    /\ UNCHANGED <<division, category, rules, chart, suggesting, overtaken, fresh>>

----------------------------------------------------------------------------
(* Burden rates.                                                            *)

\* Half-open periods; to = Unset is open-ended.
Overlaps(p, q) == (q.to = Unset \/ p.from < q.to) /\ (p.to = Unset \/ q.from < p.to)

\* add_burden_rate up to the insert: no active rate of the same division, as
\* committed now, overlaps.
ReadRates(c, r) ==
    /\ adding[c] = Unset /\ Cardinality(rates) < MaxRates
    /\ \A q \in rates : q.active /\ q.division = r.division => ~Overlaps(r, q)
    /\ adding' = [adding EXCEPT ![c] = r]
    /\ doubled' = (doubled \/ \E e \in Client : adding[e] # Unset /\ adding[e].division = r.division)
    /\ UNCHANGED rates

\* The insert commits.
AddBurdenRate(c) ==
    /\ adding[c] # Unset
    /\ rates' = rates \cup {[id |-> Cardinality(rates) + 1, division |-> adding[c].division,
                             from |-> adding[c].from, to |-> adding[c].to, active |-> TRUE]}
    /\ adding' = [adding EXCEPT ![c] = Unset]
    /\ UNCHANGED doubled

\* deactivate_burden_rate.
DeactivateBurdenRate(q) ==
    /\ q.active
    /\ rates' = (rates \ {q}) \cup {[q EXCEPT !.active = FALSE]}
    /\ UNCHANGED <<adding, doubled>>

\* pick_rate: the division's own row that covers the day, else the company's.
Covering(day) == {q \in rates : q.active /\ q.from <= day /\ (q.to = Unset \/ day < q.to)}
PickRate(day, d) ==
    LET own == {q \in Covering(day) : d # Unset /\ q.division = d}
        company == {q \in Covering(day) : q.division = Unset}
        Latest(S) == CHOOSE q \in S : \A p \in S : p.from <= q.from
    IN IF own # {} THEN Latest(own) ELSE IF company # {} THEN Latest(company) ELSE Unset

----------------------------------------------------------------------------
(* The history start.                                                       *)

\* set_policy for history_start up to the write: refused once a backfill has
\* completed.
MaySetHistoryStart(c, v) ==
    /\ setting[c] = Unset /\ backfill.status # "completed"
    /\ setting' = [setting EXCEPT ![c] = v]
    /\ UNCHANGED <<policy, backfill, early>>

\* The write commits: nothing is asked again.
SetHistoryStart(c) ==
    /\ setting[c] # Unset
    /\ policy' = setting[c] /\ setting' = [setting EXCEPT ![c] = Unset]
    /\ early' = early \ {c}
    /\ UNCHANGED backfill

\* schedule.start_backfill keeps the date in the run; the pages read it there.
StartFirstBackfill ==
    /\ policy # Unset /\ backfill.status = "none"
    /\ backfill' = [status |-> "running", start |-> policy]
    /\ UNCHANGED <<policy, setting, early>>

\* The last page completes the run; a failed one may be started again.
EndBackfill(ok) ==
    /\ backfill.status = "running"
    /\ IF ok THEN /\ backfill' = [backfill EXCEPT !.status = "completed"]
                  /\ early' = {c \in Client : setting[c] # Unset}
       ELSE backfill' = [status |-> "none", start |-> Unset] /\ UNCHANGED early
    /\ UNCHANGED <<policy, setting>>

----------------------------------------------------------------------------
MapStep ==
    \/ \E d \in Division, g \in Digits : CreateDivision(d, g) \/ UpdateDivision(d, g)
    \/ \E d \in Division : DeactivateDivision(d)
    \/ \E c \in Category : DeactivateCategory(c)
    \/ \E rs \in RuleSets : LoadRules(rs)
    \/ \E s \in SUBSET GlAccount : ChartChanges(s)
    \/ \E c \in Client : ReadSuggest(c) \/ CommitSuggest(c)
    \/ \E a \in GlAccount, d \in Division \cup {Unset}, k \in Category \cup {Unset}, b \in BOOLEAN :
          SetAccountMap(a, d, k, b)
    \/ \E S \in SUBSET GlAccount : ConfirmMaps(S)
RateStep ==
    \/ \E c \in Client, r \in Period : ReadRates(c, r)
    \/ \E c \in Client : AddBurdenRate(c)
    \/ \E q \in rates : DeactivateBurdenRate(q)
PolicyStep ==
    \/ \E c \in Client, v \in StartDays : MaySetHistoryStart(c, v)
    \/ \E c \in Client : SetHistoryStart(c)
    \/ StartFirstBackfill
    \/ \E ok \in BOOLEAN : EndBackfill(ok)

ConfigNext ==
    \/ MapStep /\ UNCHANGED <<rateSide, policySide>>
    \/ RateStep /\ UNCHANGED <<mapSide, policySide>>
    \/ PolicyStep /\ UNCHANGED <<mapSide, rateSide>>
ConfigSpec == ConfigInit /\ [][ConfigNext]_cfgVars

----------------------------------------------------------------------------
ConfigTypeOK ==
    /\ division \in [Division -> DivisionRow \cup {Unset}]
    /\ category \in [Category -> {"none", "active", "inactive"}]
    /\ chart \subseteq GlAccount /\ overtaken \subseteq GlAccount
    /\ map \in [GlAccount -> MapRow \cup {Unset}]
    /\ rates \subseteq RateRow
    /\ policy \in StartDays \cup {Unset} /\ setting \in [Client -> StartDays \cup {Unset}]
    /\ early \subseteq Client /\ doubled \in BOOLEAN /\ fresh \in BOOLEAN

\* Two divisions never share a digit, so a cost code (digit and slot) names
\* one division; an inactive one keeps its digit.
OneDivisionPerDigit ==
    \A d, e \in Division :
        d # e /\ division[d] # Unset /\ division[e] # Unset =>
            division[d].digit = Unset \/ division[d].digit # division[e].digit

\* Right after a run of the suggestions that met no other change, every active
\* account without a confirmed mapping has exactly what the rules give for it:
\* a stale suggestion is gone and a rule that cannot derive its values is
\* passed over (chart.py suggest, rules.py suggest_for).
SuggestionsFollowRules ==
    fresh /\ (\A c \in Client : suggesting[c] = Unset) =>
        \A a \in chart \ overtaken :
            (map[a] = Unset \/ map[a].status = "suggested") => map[a] = SuggestFor(a, category)

\* Active rates of one division never overlap, so pick_rate has one row to
\* choose from on every day, unless two additions were open together
\* (burden.py add_burden_rate locks the rows it read, not the row being added).
OneRateInForce ==
    ~doubled => \A day \in Days, d \in Division \cup {Unset} :
        /\ Cardinality({q \in Covering(day) : q.division = d}) <= 1
        /\ (PickRate(day, d) = Unset) = (\A q \in Covering(day) : q.division \notin {d, Unset})

\* Configuration: the rows of one company agree with each other and with the
\* rules and rates they were made from.
ConfigAgrees == ConfigTypeOK /\ OneDivisionPerDigit /\ SuggestionsFollowRules /\ OneRateInForce

\* A mapping a person confirmed stays confirmed, and no run of the suggestions
\* changes it unless it was confirmed while that run was under way.
ConfirmedStep ==
    \A a \in GlAccount : map[a] # Unset /\ map[a].status = "confirmed" =>
        \/ a \in overtaken'
        \/ /\ map'[a] # Unset /\ map'[a].status = "confirmed"
           /\ map'[a] # map[a] => map'[a].rule = Unset

\* Once the first backfill has completed, the history start moves only by a request
\* that asked before it did and has not committed yet: each moves it once, and no
\* other ever joins them (api/config.py set_policy, without a lock).
HistoryStep ==
    backfill.status = "completed" =>
        /\ early' \subseteq early
        /\ policy' # policy => \E c \in early \ early' : policy' = setting[c]

\* What the code means and does not keep (api/config.py, "it cannot move"): a request
\* that asked before the backfill completed moves the date after it.
HistoryFixed == [][backfill.status = "completed" => policy' = policy]_cfgVars

\* Decisions people made are kept: confirmed mappings and the history start.
DecisionsKept == [][ConfirmedStep /\ HistoryStep]_cfgVars
=============================================================================
