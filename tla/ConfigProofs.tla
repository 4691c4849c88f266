----------------------------- MODULE ConfigProofs -----------------------------
(***************************************************************************)
(* Theorems about Config for any accounts, divisions, categories, rules,   *)
(* dates and number of overlapping requests.  The three parts of the       *)
(* configuration (mappings, rates, history start) share no variable, so    *)
(* each has an inductive invariant of its own.  And theorems about the     *)
(* imports that bring in the chart of accounts, for any files, charts,     *)
(* uploaders, attempts and failures.                                       *)
(***************************************************************************)
EXTENDS Config, ImportBatches, FiniteSetTheorems, SequenceTheorems, WellFoundedInduction, TLAPS

NullOrMap == MapRow \cup {Unset}
Confirmed(r) == r # Unset /\ r.status = "confirmed"

MapTypes ==
  /\ division \in [Division -> DivisionRow \cup {Unset}]
  /\ category \in [Category -> {"none", "active", "inactive"}]
  /\ rules \in RuleSets \cup {<< >>}
  /\ chart \subseteq GlAccount /\ overtaken \subseteq GlAccount
  /\ map \in Maps(GlAccount)
  /\ suggesting \in [Client -> SuggestRun \cup {Unset}]
  /\ fresh \in BOOLEAN

\* A run of the suggestions never decided for a confirmed mapping it saw.
RunDecides(run) ==
  \A a \in DOMAIN run.want : ~Confirmed(run.seen[a])
                             /\ (run.want[a] # Unset => run.want[a].status = "suggested")

\* What a run under way will write is what the rules give, and the mappings it
\* did not see are confirmations of what it saw.
RunFollows(run) ==
  /\ DOMAIN run.want = {a \in chart : ~Confirmed(run.seen[a])}
  /\ \A a \in DOMAIN run.want : run.want[a] = SuggestFor(a, category)
  /\ \A a \in GlAccount : map[a] # run.seen[a] => Confirmed(map[a]) /\ ~Confirmed(run.seen[a])

MapInv ==
  /\ MapTypes /\ OneDivisionPerDigit /\ SuggestionsFollowRules
  /\ \A c \in Client : suggesting[c] # Unset => RunDecides(suggesting[c])
  /\ fresh => /\ \A c, e \in Client : suggesting[c] # Unset /\ suggesting[e] # Unset => c = e
              /\ \A c \in Client : suggesting[c] # Unset => RunFollows(suggesting[c])

RateTypes ==
  /\ rates \subseteq RateRow /\ IsFiniteSet(rates)
  /\ adding \in [Client -> Period \cup {Unset}] /\ doubled \in BOOLEAN

Clash(p, q) == p.division = q.division /\ Overlaps(p, q)

\* The active rates of a division are apart, from one another and from the one
\* that is being added, which is one of its division.
RateInv ==
  /\ RateTypes
  /\ ~doubled =>
       /\ \A p, q \in rates : p.active /\ q.active /\ Clash(p, q) => p = q
       /\ \A c \in Client, q \in rates : adding[c] # Unset /\ q.active => ~Clash(adding[c], q)
       /\ \A c, e \in Client : adding[c] # Unset /\ adding[e] # Unset
                               /\ adding[c].division = adding[e].division => c = e

\* Once the backfill has completed, a request that may still write was under way then.
PolicyInv ==
  /\ policy \in StartDays \cup {Unset} /\ setting \in [Client -> StartDays \cup {Unset}]
  /\ early \subseteq Client
  /\ backfill.status = "completed" => \A c \in Client : setting[c] # Unset => c \in early

IInv == MapInv /\ RateInv /\ PolicyInv

-----------------------------------------------------------------------------
(* The operators.                                                            *)

\* A set of natural numbers has a least element.
LEMMA LeastOfSome ==
  ASSUME NEW S, S \subseteq Nat, S # {}
  PROVE  Min(S) \in S /\ \A y \in S : Min(S) <= y
<1>1. PICK x \in S : \A y \in S : ~(<<y, x>> \in OpToRel(<, Nat))
  BY NatLessThanWellFounded, WFMin
<1>2. \A y \in S : x \in Nat /\ y \in Nat
  OBVIOUS
<1>3. \A y \in S : ~(y < x)
  BY <1>1, <1>2, Zenon DEF OpToRel
<1>4. \A y \in S : x <= y
  BY <1>2, <1>3
<1> QED BY <1>4 DEF Min

\* What the rules give for an account is a suggestion, or nothing.
LEMMA SuggestionType ==
  ASSUME MapTypes, NEW a \in GlAccount, NEW cats
  PROVE  /\ SuggestFor(a, cats) \in NullOrMap
         /\ SuggestFor(a, cats) # Unset => SuggestFor(a, cats).status = "suggested"
<1> DEFINE usable == {i \in DOMAIN rules :
                        /\ a \in rules[i].accounts
                        /\ rules[i].fromDigit => RuleDivision(i, a) # Unset
                        /\ rules[i].fromSlot => RuleCategory(i, a, cats) # Unset}
           i == Min(usable)
           row == [division |-> RuleDivision(i, a), category |-> RuleCategory(i, a, cats),
                   status |-> "suggested", rule |-> rules[i].name]
<1>1. CASE usable = {}
  BY <1>1 DEF SuggestFor, NullOrMap
<1>2. CASE usable # {}
  <2>1. usable \subseteq Nat
    <3>1. CASE rules \in RuleSets
      BY <3>1, ConfigAssumption
    <3>2. CASE rules = << >>
      BY <3>2
    <3> QED BY <3>1, <3>2 DEF MapTypes
  <2>2. i \in usable
    BY <1>2, <2>1, LeastOfSome
  <2> HIDE DEF i
  <2>3. i \in DOMAIN rules /\ rules \in RuleSets
    BY <2>2 DEF MapTypes
  <2>4. \A g : DivisionByDigit(g) \in Division \cup {Unset}
    BY DEF DivisionByDigit
  <2>5. \A s : CategoryBySlot(cats, s) \in Category \cup {Unset}
    BY DEF CategoryBySlot
  <2>6. RuleDivision(i, a) \in Division \cup {Unset}
    BY <2>3, <2>4, ConfigAssumption DEF RuleDivision
  <2>7. RuleCategory(i, a, cats) \in Category \cup {Unset}
    BY <2>3, <2>5, ConfigAssumption DEF RuleCategory
  <2>8. rules[i].name \in UNION {{rs[k].name : k \in DOMAIN rs} : rs \in RuleSets}
    BY <2>3
  <2>9. row \in MapRow /\ row.status = "suggested"
    BY <2>6, <2>7, <2>8 DEF MapRow
  <2>10. SuggestFor(a, cats) = row
    BY <1>2 DEF SuggestFor, i
  <2> QED BY <2>9, <2>10 DEF NullOrMap
<1> QED BY <1>1, <1>2

\* It depends on the divisions and the rules, and on the categories it is given.
LEMMA SuggestionReads ==
  ASSUME UNCHANGED <<division, rules>>, NEW a
  PROVE  /\ category' = category => SuggestFor(a, category)' = SuggestFor(a, category)
         /\ category' = Ensured => SuggestFor(a, category)' = SuggestFor(a, Ensured)
<1>1. ASSUME NEW g PROVE DivisionByDigit(g)' = DivisionByDigit(g)
  <2> DEFINE hit == {d \in Division : division[d] # Unset /\ division[d].active
                                      /\ division[d].digit = g /\ g # Unset}
  <2>1. hit' = hit
    OBVIOUS
  <2> QED BY <2>1 DEF DivisionByDigit
<1>2. ASSUME NEW i PROVE RuleDivision(i, a)' = RuleDivision(i, a)
  BY <1>1 DEF RuleDivision
<1>3. ASSUME NEW i, NEW cats, category' = cats
      PROVE  RuleCategory(i, a, category)' = RuleCategory(i, a, cats)
  <2>1. ASSUME NEW s PROVE CategoryBySlot(category, s)' = CategoryBySlot(cats, s)
    BY <1>3 DEF CategoryBySlot
  <2> QED BY <2>1 DEF RuleCategory
<1>4. ASSUME NEW cats, category' = cats
      PROVE  SuggestFor(a, category)' = SuggestFor(a, cats)
  <2> DEFINE usable(cs) == {i \in DOMAIN rules :
                              /\ a \in rules[i].accounts
                              /\ rules[i].fromDigit => RuleDivision(i, a) # Unset
                              /\ rules[i].fromSlot => RuleCategory(i, a, cs) # Unset}
  <2>1. usable(category)' = usable(cats)
    BY <1>2, <1>3, <1>4
  <2> QED BY <1>2, <1>3, <1>4, <2>1 DEF SuggestFor
<1> QED BY <1>4

LEMMA EnsuredType ==
  ASSUME MapTypes
  PROVE  Ensured \in [Category -> {"none", "active", "inactive"}]
BY DEF MapTypes, Ensured

-----------------------------------------------------------------------------
(* Mappings.                                                                 *)

\* A step after which nobody may rely on the last run keeps the runs under way.
LEMMA StaleKeeps ==
  ASSUME MapInv, MapTypes', OneDivisionPerDigit', ~fresh', UNCHANGED suggesting
  PROVE  MapInv'
BY DEF MapInv, SuggestionsFollowRules, RunDecides

LEMMA DivisionsKeep ==
  ASSUME MapInv, NEW d \in Division, NEW g \in Digits,
         CreateDivision(d, g) \/ UpdateDivision(d, g) \/ DeactivateDivision(d)
  PROVE  MapInv'
<1>1. /\ division \in [Division -> DivisionRow \cup {Unset}] /\ Unset \notin DivisionRow
      /\ ~fresh' /\ UNCHANGED <<category, rules, chart, map, suggesting, overtaken>>
      /\ fresh' \in BOOLEAN
  BY UnsetAssumption DEF MapInv, MapTypes, CreateDivision, UpdateDivision, DeactivateDivision
<1>2. \E r \in DivisionRow : /\ division' = [division EXCEPT ![d] = r]
                             /\ \/ DigitFree(g, d) /\ r.digit = g
                                \/ division[d] # Unset /\ r.digit = division[d].digit
  <2>1. CASE CreateDivision(d, g)
    <3>1. [digit |-> g, active |-> TRUE] \in DivisionRow
      BY DEF DivisionRow, Digits
    <3> QED BY <2>1, <3>1 DEF CreateDivision
  <2>2. CASE UpdateDivision(d, g)
    <3>1. [division[d] EXCEPT !.digit = g] \in DivisionRow /\ [division[d] EXCEPT !.digit = g].digit = g
      BY <1>1, <2>2 DEF UpdateDivision, DivisionRow, Digits
    <3>2. division' = [division EXCEPT ![d] = [division[d] EXCEPT !.digit = g]]
      BY <1>1, <2>2 DEF UpdateDivision
    <3> QED BY <2>2, <3>1, <3>2 DEF UpdateDivision
  <2>3. CASE DeactivateDivision(d)
    <3>1. /\ [division[d] EXCEPT !.active = FALSE] \in DivisionRow
          /\ [division[d] EXCEPT !.active = FALSE].digit = division[d].digit
      BY <1>1, <2>3 DEF DeactivateDivision, DivisionRow
    <3>2. division' = [division EXCEPT ![d] = [division[d] EXCEPT !.active = FALSE]]
      BY <1>1, <2>3 DEF DeactivateDivision
    <3> QED BY <2>3, <3>1, <3>2 DEF DeactivateDivision
  <2> QED BY <2>1, <2>2, <2>3
<1>3. PICK r \in DivisionRow : /\ division' = [division EXCEPT ![d] = r]
                               /\ \/ DigitFree(g, d) /\ r.digit = g
                                  \/ division[d] # Unset /\ r.digit = division[d].digit
  BY <1>2
<1>4. MapTypes'
  BY <1>1, <1>3 DEF MapInv, MapTypes
<1>5. OneDivisionPerDigit'
  <2>1. \A e \in Division \ {d} : division'[e] = division[e]
    BY <1>1, <1>3
  <2>2. \A e \in Division \ {d} : division[e] # Unset =>
           r.digit = Unset \/ r.digit # division[e].digit
    <3>1. CASE DigitFree(g, d) /\ r.digit = g
      BY <3>1 DEF DigitFree
    <3>2. CASE division[d] # Unset /\ r.digit = division[d].digit
      BY <3>2 DEF MapInv, OneDivisionPerDigit
    <3> QED BY <1>3, <3>1, <3>2
  <2>3. division'[d] = r
    BY <1>1, <1>3
  <2>4. \A e, f \in Division \ {d} : e # f /\ division[e] # Unset /\ division[f] # Unset
           => division[e].digit = Unset \/ division[e].digit # division[f].digit
    BY DEF MapInv, OneDivisionPerDigit
  <2>5. ASSUME NEW e \in Division, NEW f \in Division, e # f,
               division'[e] # Unset, division'[f] # Unset
        PROVE  division'[e].digit = Unset \/ division'[e].digit # division'[f].digit
    <3>1. CASE e = d
      BY <2>1, <2>2, <2>3, <2>5, <3>1
    <3>2. CASE f = d
      BY <2>1, <2>2, <2>3, <2>5, <3>2
    <3>3. CASE e # d /\ f # d
      BY <2>1, <2>4, <2>5, <3>3
    <3> QED BY <3>1, <3>2, <3>3
  <2> QED BY <2>5 DEF OneDivisionPerDigit
<1> QED BY <1>1, <1>4, <1>5, StaleKeeps

LEMMA SettingsKeep ==
  ASSUME MapInv, \/ \E k \in Category : DeactivateCategory(k)
                 \/ \E rs \in RuleSets : LoadRules(rs)
                 \/ \E s \in SUBSET GlAccount : ChartChanges(s)
  PROVE  MapInv'
<1>1. ~fresh' /\ fresh' \in BOOLEAN /\ UNCHANGED <<division, map, suggesting, overtaken>>
  BY DEF DeactivateCategory, LoadRules, ChartChanges
<1>2. /\ category' \in [Category -> {"none", "active", "inactive"}]
      /\ rules' \in RuleSets \cup {<< >>} /\ chart' \subseteq GlAccount
  BY EnsuredType DEF MapInv, MapTypes, DeactivateCategory, LoadRules, ChartChanges
<1>3. MapTypes'
  BY <1>1, <1>2 DEF MapInv, MapTypes
<1>4. OneDivisionPerDigit'
  BY <1>1 DEF MapInv, OneDivisionPerDigit
<1> QED BY <1>1, <1>3, <1>4, StaleKeeps

\* A mapping set by hand.
LEMMA SetKeeps ==
  ASSUME MapInv, NEW a \in GlAccount, NEW d \in Division \cup {Unset},
         NEW k \in Category \cup {Unset}, NEW confirm \in BOOLEAN,
         SetAccountMap(a, d, k, confirm)
  PROVE  MapInv'
<1>1. /\ ~fresh' /\ fresh' \in BOOLEAN
      /\ UNCHANGED <<division, category, rules, chart, suggesting, overtaken>>
  BY DEF SetAccountMap
<1>2. PICK r \in MapRow : map' = [map EXCEPT ![a] = r]
  <2>1. PICK st \in {"suggested", "confirmed"} :
          map' = [map EXCEPT ![a] = [division |-> d, category |-> k, rule |-> Unset, status |-> st]]
    BY DEF SetAccountMap
  <2>2. [division |-> d, category |-> k, rule |-> Unset, status |-> st] \in MapRow
    BY DEF MapRow
  <2> QED BY <2>1, <2>2
<1>3. MapTypes'
  BY <1>1, <1>2 DEF MapInv, MapTypes, Maps
<1>4. OneDivisionPerDigit'
  BY <1>1 DEF MapInv, OneDivisionPerDigit
<1> QED BY <1>1, <1>3, <1>4, StaleKeeps

\* Suggestions confirmed while nobody changes what the rules read.
LEMMA ConfirmKeeps ==
  ASSUME MapInv, NEW S \in SUBSET GlAccount, ConfirmMaps(S)
  PROVE  MapInv'
<1>1. /\ UNCHANGED <<division, category, rules, chart, suggesting, overtaken, fresh>>
      /\ \A a \in S : map[a] # Unset /\ map[a].status = "suggested"
      /\ map' = [a \in GlAccount |-> IF a \in S THEN [map[a] EXCEPT !.status = "confirmed"]
                                      ELSE map[a]]
  BY DEF ConfirmMaps
<1>2. map \in [GlAccount -> MapRow \cup {Unset}]
  BY DEF MapInv, MapTypes, Maps
<1>3. \A a \in S : /\ [map[a] EXCEPT !.status = "confirmed"] \in MapRow
                   /\ [map[a] EXCEPT !.status = "confirmed"].status = "confirmed"
  BY <1>1, <1>2 DEF MapRow
<1>4. \A a \in GlAccount : \/ a \notin S /\ map'[a] = map[a]
                           \/ /\ a \in S /\ map'[a] \in MapRow /\ map'[a].status = "confirmed"
                              /\ map[a] # Unset /\ map[a].status = "suggested"
  BY <1>1, <1>3
<1>5. map' \in [GlAccount -> MapRow \cup {Unset}]
  BY <1>1, <1>2, <1>3
<1>6. MapTypes'
  BY <1>1, <1>5 DEF MapInv, MapTypes, Maps
<1>7. OneDivisionPerDigit'
  BY <1>1 DEF MapInv, OneDivisionPerDigit
<1>8. \A a : SuggestFor(a, category)' = SuggestFor(a, category)
  BY <1>1, SuggestionReads
<1>9. SuggestionsFollowRules'
  <2> SUFFICES ASSUME fresh', \A c \in Client : suggesting'[c] = Unset,
                      NEW a \in (chart \ overtaken)',
                      map'[a] = Unset \/ map'[a].status = "suggested"
               PROVE  map'[a] = SuggestFor(a, category)'
    BY DEF SuggestionsFollowRules
  <2>1. a \in GlAccount /\ a \in chart \ overtaken
    BY <1>1 DEF MapInv, MapTypes
  <2>2. map'[a] = map[a]
    BY <1>4, <2>1, UnsetAssumption
  <2> QED BY <1>1, <1>8, <2>1, <2>2 DEF MapInv, SuggestionsFollowRules
<1>10. ASSUME NEW c \in Client, suggesting'[c] # Unset
       PROVE  /\ RunDecides(suggesting'[c])
              /\ fresh' => RunFollows(suggesting[c])'
  <2>1. PICK run : run = suggesting[c] /\ run = suggesting'[c]
    BY <1>1
  <2>2. RunDecides(run)
    BY <1>10, <2>1 DEF MapInv
  <2>3. ASSUME fresh' PROVE RunFollows(run)'
    <3>1. RunFollows(run)
      BY <1>1, <1>10, <2>1, <2>3 DEF MapInv
    <3>2. \A a \in GlAccount : map'[a] # run.seen[a] => Confirmed(map'[a]) /\ ~Confirmed(run.seen[a])
      BY <1>4, <3>1, UnsetAssumption DEF RunFollows, Confirmed
    <3> QED BY <1>1, <1>8, <3>1, <3>2 DEF RunFollows
  <2> QED BY <2>1, <2>2, <2>3
<1>11. fresh' => \A c, e \in Client : suggesting'[c] # Unset /\ suggesting'[e] # Unset => c = e
  BY <1>1 DEF MapInv
<1> QED BY <1>6, <1>7, <1>9, <1>10, <1>11 DEF MapInv, RunDecides

\* A run reads: nobody else's is under way, or nobody relies on its outcome.
LEMMA ReadKeeps ==
  ASSUME MapInv, NEW c \in Client, ReadSuggest(c)
  PROVE  MapInv'
<1> DEFINE acts == {b \in chart : map[b] # Unset => map[b].status # "confirmed"}
           run == [seen |-> map, want |-> [a \in acts |-> SuggestFor(a, Ensured)]]
<1>1. /\ suggesting[c] = Unset /\ category' = Ensured
      /\ suggesting' = [suggesting EXCEPT ![c] = run]
      /\ fresh' = (\A e \in Client : suggesting[e] = Unset)
      /\ UNCHANGED <<division, rules, chart, map, overtaken>>
  BY DEF ReadSuggest
<1>2. /\ suggesting \in [Client -> SuggestRun \cup {Unset}] /\ acts \in SUBSET GlAccount
      /\ map \in Maps(GlAccount)
  BY DEF MapInv, MapTypes
<1>3. \A a \in acts : /\ SuggestFor(a, Ensured) \in MapRow \cup {Unset}
                      /\ SuggestFor(a, Ensured) # Unset => SuggestFor(a, Ensured).status = "suggested"
  BY <1>2, SuggestionType DEF MapInv, NullOrMap
<1>4. run \in SuggestRun
  <2>1. run \in [seen : Maps(GlAccount), want : Maps(acts)]
    BY <1>2, <1>3 DEF Maps
  <2> QED BY <1>2, <2>1 DEF SuggestRun
<1>5. /\ RunDecides(run) /\ DOMAIN run.want = acts /\ run.seen = map
      /\ \A a \in acts : run.want[a] = SuggestFor(a, Ensured)
  BY <1>3 DEF RunDecides, Confirmed
<1> HIDE DEF run
<1>6. MapTypes'
  BY <1>1, <1>2, <1>4, EnsuredType DEF MapInv, MapTypes
<1>7. OneDivisionPerDigit'
  BY <1>1 DEF MapInv, OneDivisionPerDigit
<1>8. suggesting'[c] = run /\ run # Unset
  BY <1>1, <1>2, <1>4, UnsetAssumption
<1>9. SuggestionsFollowRules'
  BY <1>8 DEF SuggestionsFollowRules
<1>10. \A e \in Client \ {c} : suggesting'[e] = suggesting[e]
  BY <1>1, <1>2
<1>11. \A a : SuggestFor(a, category)' = SuggestFor(a, Ensured)
  BY <1>1, SuggestionReads
<1>12. fresh' => \A e \in Client : suggesting'[e] # Unset => e = c
  BY <1>1, <1>10
<1>13. \A e \in Client : suggesting'[e] # Unset => RunDecides(suggesting'[e])
  BY <1>5, <1>8, <1>10 DEF MapInv
<1>14. fresh' => \A e \in Client : suggesting'[e] # Unset => RunFollows(suggesting[e])'
  <2> SUFFICES ASSUME fresh', NEW e \in Client, suggesting'[e] # Unset
               PROVE  RunFollows(suggesting[e])'
    OBVIOUS
  <2>1. suggesting'[e] = run
    BY <1>8, <1>12
  <2>2. PICK r : r = run /\ r = suggesting'[e]
    BY <2>1
  <2>3. RunFollows(r)'
    BY <1>1, <1>5, <1>11, <2>2 DEF RunFollows, Confirmed
  <2> QED BY <2>2, <2>3
<1> QED BY <1>6, <1>7, <1>9, <1>12, <1>13, <1>14 DEF MapInv, RunDecides

LEMMA CommitKeeps ==
  ASSUME MapInv, NEW c \in Client, CommitSuggest(c)
  PROVE  MapInv'
<1>0. /\ suggesting \in [Client -> SuggestRun \cup {Unset}] /\ suggesting[c] # Unset
      /\ map \in [GlAccount -> MapRow \cup {Unset}] /\ chart \subseteq GlAccount
  BY DEF MapInv, MapTypes, Maps, CommitSuggest
<1>1. PICK run \in SuggestRun : run = suggesting[c]
  BY <1>0
<1>2. PICK acts \in SUBSET GlAccount : run \in [seen : Maps(GlAccount), want : Maps(acts)]
  BY DEF SuggestRun
<1>3. /\ DOMAIN run.want = acts
      /\ run.seen \in [GlAccount -> MapRow \cup {Unset}] /\ run.want \in [acts -> MapRow \cup {Unset}]
      /\ RunDecides(run)
  BY <1>0, <1>1, <1>2 DEF Maps, MapInv
<1>4. /\ suggesting' = [suggesting EXCEPT ![c] = Unset]
      /\ UNCHANGED <<division, category, rules, chart>>
  BY <1>1 DEF CommitSuggest
<1>5. /\ suggesting' \in [Client -> SuggestRun \cup {Unset}]
      /\ \A e \in Client : suggesting'[e] # Unset => suggesting'[e] = suggesting[e]
      /\ \A e \in Client : suggesting'[e] # Unset => e # c
  BY <1>0, <1>4
<1>6. OneDivisionPerDigit'
  BY <1>4 DEF MapInv, OneDivisionPerDigit
<1>7. \A e \in Client : suggesting'[e] # Unset => RunDecides(suggesting'[e])
  BY <1>5 DEF MapInv
<1>8. CASE fresh' = FALSE /\ UNCHANGED <<map, overtaken>>
  <2>1. MapTypes'
    BY <1>4, <1>5, <1>8 DEF MapInv, MapTypes
  <2>2. SuggestionsFollowRules'
    BY <1>8 DEF SuggestionsFollowRules
  <2> QED BY <1>6, <1>7, <1>8, <2>1, <2>2 DEF MapInv, RunDecides
<1>9. CASE /\ map' = [a \in GlAccount |-> IF a \in DOMAIN run.want THEN RowAfter(run, a) ELSE map[a]]
           /\ overtaken' = overtaken \cup {a \in DOMAIN run.want : map[a] # run.seen[a]}
           /\ fresh' = fresh
           /\ ~RunFails(run)
  <2>1. ASSUME NEW a \in acts PROVE RowAfter(run, a) \in MapRow \cup {Unset}
    <3>1. map[a] \in MapRow \cup {Unset} /\ run.want[a] \in MapRow \cup {Unset}
      BY <1>0, <1>3
    <3>2. ASSUME run.want[a] \in MapRow, map[a] \in MapRow
          PROVE  [run.want[a] EXCEPT !.status = map[a].status] \in MapRow
      BY <3>2 DEF MapRow
    <3>3. Changed(run, a) => map[a] # Unset
      BY <1>3, <1>9 DEF RunFails
    <3> QED BY <3>1, <3>2, <3>3 DEF RowAfter, Changed
  <2>2. map' \in [GlAccount -> MapRow \cup {Unset}]
    BY <1>0, <1>3, <1>9, <2>1
  <2>3. overtaken' \subseteq GlAccount
    BY <1>3, <1>9 DEF MapInv, MapTypes
  <2>4. MapTypes'
    BY <1>4, <1>5, <1>9, <2>2, <2>3 DEF MapInv, MapTypes, Maps
  <2>5. fresh => \A e \in Client : suggesting'[e] = Unset
    BY <1>0, <1>5 DEF MapInv
  <2>6. ASSUME fresh, NEW a \in chart \ overtaken', map'[a] = Unset \/ map'[a].status = "suggested"
        PROVE  map'[a] = SuggestFor(a, category)
    <3>1. RunFollows(run)
      BY <1>0, <1>1, <2>6 DEF MapInv
    <3>2. a \in GlAccount
      BY <1>0
    <3>3. CASE a \in acts
      <4>1. map[a] = run.seen[a] /\ run.want[a] = SuggestFor(a, category)
        BY <1>3, <1>9, <2>6, <3>1, <3>3 DEF RunFollows
      <4>2. map'[a] = RowAfter(run, a)
        BY <1>3, <1>9, <3>2, <3>3
      <4>3. ~Confirmed(map[a]) /\ (run.want[a] # Unset => run.want[a].status = "suggested")
        BY <1>3, <3>3, <4>1 DEF RunDecides
      <4>4. CASE map[a] = Unset \/ run.want[a] = Unset
        BY <4>1, <4>2, <4>4 DEF RowAfter, Changed
      <4>5. CASE map[a] # Unset /\ run.want[a] # Unset
        <5>1. map[a] \in MapRow /\ map[a].status = "suggested"
          BY <1>0, <3>2, <4>3, <4>5 DEF MapRow, Confirmed
        <5>2. run.want[a] \in MapRow /\ run.want[a].status = "suggested"
          BY <1>3, <3>3, <4>3, <4>5
        <5>3. /\ [map[a] EXCEPT !.status = "suggested"] = map[a]
              /\ [run.want[a] EXCEPT !.status = "suggested"] = run.want[a]
          BY <5>1, <5>2 DEF MapRow
        <5> QED BY <4>1, <4>2, <4>5, <5>1, <5>3 DEF RowAfter, Changed
      <4> QED BY <4>4, <4>5
    <3>4. CASE a \notin acts
      <4>1. Confirmed(run.seen[a])
        BY <1>3, <2>6, <3>1, <3>4 DEF RunFollows
      <4>2. map'[a] = map[a] /\ Confirmed(map[a])
        BY <1>3, <1>9, <3>1, <3>2, <3>4, <4>1 DEF RunFollows
      <4> QED BY <2>6, <4>2 DEF Confirmed
    <3> QED BY <3>3, <3>4
  <2>7. SuggestionsFollowRules'
    <3>1. \A a : SuggestFor(a, category)' = SuggestFor(a, category)
      BY <1>4, SuggestionReads
    <3> QED BY <1>4, <1>9, <2>6, <3>1 DEF SuggestionsFollowRules
  <2> QED BY <1>6, <1>7, <1>9, <2>4, <2>5, <2>7 DEF MapInv, RunDecides
<1> QED BY <1>1, <1>8, <1>9 DEF CommitSuggest

LEMMA MapKeeps ==
  ASSUME MapInv, MapStep
  PROVE  MapInv'
<1>1. \A d \in Division : DeactivateDivision(d) => MapInv'
  <2>1. Unset \in Digits
    BY DEF Digits
  <2> QED BY <2>1, DivisionsKeep
<1> QED BY <1>1, DivisionsKeep, SettingsKeep, SetKeeps, ConfirmKeeps, ReadKeeps, CommitKeeps
        DEF MapStep

-----------------------------------------------------------------------------
(* Burden rates.                                                             *)

\* Whether two periods overlap does not depend on their order, nor on anything
\* but the division and the dates.
LEMMA ClashFacts ==
  /\ \A p, q : Clash(p, q) => Clash(q, p)
  /\ \A p, q, r : /\ Clash(p, q)
                  /\ r.division = p.division /\ r.from = p.from /\ r.to = p.to
                  => Clash(r, q)
BY DEF Clash, Overlaps

LEMMA ReadRatesKeeps ==
  ASSUME RateInv, NEW c \in Client, NEW r \in Period, ReadRates(c, r)
  PROVE  RateInv'
<1>1. /\ adding \in [Client -> Period \cup {Unset}] /\ adding' = [adding EXCEPT ![c] = r]
      /\ UNCHANGED rates
      /\ doubled' = (doubled \/ \E e \in Client : adding[e] # Unset /\ adding[e].division = r.division)
      /\ \A q \in rates : q.active => ~Clash(r, q)
  BY DEF RateInv, RateTypes, ReadRates, Clash
<1>2. adding'[c] = r /\ \A e \in Client \ {c} : adding'[e] = adding[e]
  BY <1>1
<1>3. RateTypes'
  BY <1>1 DEF RateInv, RateTypes
<1>4. ASSUME ~doubled'
      PROVE  /\ \A e \in Client, q \in rates : adding'[e] # Unset /\ q.active => ~Clash(adding'[e], q)
             /\ \A d, e \in Client : adding'[d] # Unset /\ adding'[e] # Unset
                                     /\ adding'[d].division = adding'[e].division => d = e
  <2>1. ~doubled /\ \A e \in Client : adding[e] # Unset => adding[e].division # r.division
    BY <1>1, <1>4
  <2>2. \A e \in Client \ {c}, q \in rates : adding[e] # Unset /\ q.active => ~Clash(adding[e], q)
    BY <2>1 DEF RateInv
  <2>3. \A d, e \in Client \ {c} : adding[d] # Unset /\ adding[e] # Unset
                                    /\ adding[d].division = adding[e].division => d = e
    BY <2>1 DEF RateInv
  <2> QED BY <1>1, <1>2, <2>1, <2>2, <2>3
<1>5. ~doubled' => \A p, q \in rates : p.active /\ q.active /\ Clash(p, q) => p = q
  BY <1>1 DEF RateInv
<1> QED BY <1>1, <1>3, <1>4, <1>5 DEF RateInv, Clash, Overlaps

LEMMA AddRateKeeps ==
  ASSUME RateInv, NEW c \in Client, AddBurdenRate(c)
  PROVE  RateInv'
<1> DEFINE row == [id |-> Cardinality(rates) + 1, division |-> adding[c].division,
                   from |-> adding[c].from, to |-> adding[c].to, active |-> TRUE]
<1>1. /\ adding \in [Client -> Period \cup {Unset}] /\ adding[c] # Unset
      /\ adding' = [adding EXCEPT ![c] = Unset]
      /\ rates' = rates \cup {row} /\ UNCHANGED doubled
      /\ rates \subseteq RateRow /\ IsFiniteSet(rates)
  BY DEF RateInv, RateTypes, AddBurdenRate
<1>2. adding[c] \in Period
  BY <1>1
<1>3. row \in RateRow
  <2>1. Cardinality(rates) + 1 \in Nat \ {0}
    BY <1>1, FS_CardinalityType
  <2> QED BY <1>2, <2>1 DEF Period, RateRow
<1>4. /\ row.division = adding[c].division /\ row.from = adding[c].from /\ row.to = adding[c].to
  OBVIOUS
<1> HIDE DEF row
<1>5. IsFiniteSet(rates')
  BY <1>1, FS_AddElement
<1>6. RateTypes'
  BY <1>1, <1>3, <1>5 DEF RateInv, RateTypes
<1>7. \A e \in Client : adding'[e] # Unset => e # c /\ adding'[e] = adding[e]
  BY <1>1
<1>8. ASSUME ~doubled'
      PROVE  /\ \A p, q \in rates' : p.active /\ q.active /\ Clash(p, q) => p = q
             /\ \A e \in Client, q \in rates' : adding'[e] # Unset /\ q.active => ~Clash(adding'[e], q)
             /\ \A d, e \in Client : adding'[d] # Unset /\ adding'[e] # Unset
                                     /\ adding'[d].division = adding'[e].division => d = e
  <2>1. ~doubled
    BY <1>1, <1>8
  <2>2. \A q \in rates : q.active => ~Clash(row, q) /\ ~Clash(q, row)
    <3>1. \A q \in rates : q.active => ~Clash(adding[c], q)
      BY <1>1, <2>1 DEF RateInv
    <3> QED BY <1>4, <3>1 DEF Clash, Overlaps
  <2>3. \A p, q \in rates : p.active /\ q.active /\ Clash(p, q) => p = q
    BY <2>1 DEF RateInv
  <2>4. \A e \in Client : adding'[e] # Unset => ~Clash(adding'[e], row)
    <3>1. \A e \in Client : adding'[e] # Unset => adding'[e].division # adding[c].division
      BY <1>1, <1>7, <2>1 DEF RateInv
    <3> QED BY <1>4, <3>1 DEF Clash
  <2>5. \A e \in Client, q \in rates : adding'[e] # Unset /\ q.active => ~Clash(adding'[e], q)
    BY <1>7, <2>1 DEF RateInv
  <2>6. \A d, e \in Client : adding'[d] # Unset /\ adding'[e] # Unset
                             /\ adding'[d].division = adding'[e].division => d = e
    BY <1>7, <2>1 DEF RateInv
  <2> QED BY <1>1, <2>2, <2>3, <2>4, <2>5, <2>6
<1> QED BY <1>6, <1>8 DEF RateInv, Clash, Overlaps

LEMMA DeactivateRateKeeps ==
  ASSUME RateInv, NEW q \in rates, DeactivateBurdenRate(q)
  PROVE  RateInv'
<1> DEFINE row == [q EXCEPT !.active = FALSE]
<1>1. /\ rates' = (rates \ {q}) \cup {row} /\ UNCHANGED <<adding, doubled>>
      /\ rates \subseteq RateRow /\ IsFiniteSet(rates)
  BY DEF RateInv, RateTypes, DeactivateBurdenRate
<1>2. row \in RateRow /\ ~row.active
  BY <1>1 DEF RateRow
<1> HIDE DEF row
<1>3. IsFiniteSet(rates')
  BY <1>1, FS_RemoveElement, FS_AddElement
<1>4. RateTypes'
  BY <1>1, <1>2, <1>3 DEF RateInv, RateTypes
<1>5. \A p \in rates' : p.active => p \in rates
  BY <1>1, <1>2
<1> QED BY <1>1, <1>4, <1>5 DEF RateInv, Clash, Overlaps

\* At most one row of a division covers a day, so the row pick_rate takes is the one.
LEMMA RatesAreOne ==
  ASSUME RateInv
  PROVE  OneRateInForce
<1> SUFFICES ASSUME ~doubled, NEW day \in Days, NEW d \in Division \cup {Unset}
             PROVE  /\ Cardinality({q \in Covering(day) : q.division = d}) <= 1
                    /\ (PickRate(day, d) = Unset) = (\A q \in Covering(day) : q.division \notin {d, Unset})
  BY DEF OneRateInForce
<1>1. Covering(day) \subseteq rates /\ rates \subseteq RateRow /\ Unset \notin RateRow
  BY UnsetAssumption DEF Covering, RateInv, RateTypes
<1>2. ASSUME NEW p \in Covering(day), NEW q \in Covering(day), p.division = q.division
      PROVE  p = q
  <2>1. /\ p.active /\ p.from <= day /\ (p.to = Unset \/ day < p.to)
        /\ q.active /\ q.from <= day /\ (q.to = Unset \/ day < q.to)
    BY DEF Covering
  <2>2. /\ p.from \in Int /\ q.from \in Int /\ day \in Int
        /\ p.to = Unset \/ p.to \in Int
        /\ q.to = Unset \/ q.to \in Int
    BY <1>1, ConfigAssumption DEF RateRow
  <2>3. Clash(p, q)
    BY <1>2, <2>1, <2>2 DEF Clash, Overlaps
  <2> QED BY <1>1, <2>1, <2>3 DEF RateInv
<1>3. \A n : {q \in Covering(day) : q.division = n} = {}
             \/ \E q \in Covering(day) : {p \in Covering(day) : p.division = n} = {q}
  BY <1>2
<1>4. Cardinality({q \in Covering(day) : q.division = d}) <= 1
  <2> DEFINE one == {q \in Covering(day) : q.division = d}
  <2>1. one = {} \/ \E q : one = {q}
    BY <1>3
  <2> HIDE DEF one
  <2>2. Cardinality(one) \in {0, 1}
    BY <2>1, FS_EmptySet, FS_Singleton
  <2> QED BY <2>2 DEF one
<1>5. ASSUME NEW S, NEW q, S = {q}, q \in RateRow
      PROVE  (CHOOSE x \in S : \A p \in S : p.from <= x.from) = q
  <2>1. q.from \in Int
    BY <1>5, ConfigAssumption DEF RateRow
  <2>2. q.from <= q.from
    BY <2>1
  <2> QED BY <1>5, <2>2
<1> DEFINE own == {q \in Covering(day) : d # Unset /\ q.division = d}
           company == {q \in Covering(day) : q.division = Unset}
<1>6. /\ own = {} \/ \E q \in RateRow : own = {q}
      /\ company = {} \/ \E q \in RateRow : company = {q}
  BY <1>1, <1>3
<1>7. PickRate(day, d) = Unset <=> own = {} /\ company = {}
  BY <1>1, <1>5, <1>6 DEF PickRate
<1>8. own = {} /\ company = {} <=> \A q \in Covering(day) : q.division \notin {d, Unset}
  OBVIOUS
<1>9. (PickRate(day, d) = Unset) = (\A q \in Covering(day) : q.division \notin {d, Unset})
  BY <1>7, <1>8
<1> QED BY <1>4, <1>9

-----------------------------------------------------------------------------
(* The theorems.                                                             *)

LEMMA IInvInitially == ConfigInit => IInv
<1> SUFFICES ASSUME ConfigInit PROVE IInv
  OBVIOUS
<1>1. MapInv
  BY DEF ConfigInit, MapInv, MapTypes, Maps, OneDivisionPerDigit, SuggestionsFollowRules
<1>2. RateInv
  BY FS_EmptySet DEF ConfigInit, RateInv, RateTypes
<1> QED BY <1>1, <1>2 DEF ConfigInit, IInv, PolicyInv

LEMMA IInvInductive == IInv /\ [ConfigNext]_cfgVars => IInv'
<1> SUFFICES ASSUME IInv, [ConfigNext]_cfgVars PROVE IInv'
  OBVIOUS
<1>1. UNCHANGED mapSide => MapInv'
  <2> SUFFICES ASSUME UNCHANGED mapSide PROVE MapInv'
    OBVIOUS
  <2>1. UNCHANGED <<division, category, rules, chart, map, suggesting, overtaken, fresh>>
    BY DEF mapSide
  <2>2. \A a : SuggestFor(a, category)' = SuggestFor(a, category)
    BY <2>1, SuggestionReads
  <2>3. MapTypes' /\ OneDivisionPerDigit' /\ SuggestionsFollowRules'
    BY <2>1, <2>2 DEF IInv, MapInv, MapTypes, OneDivisionPerDigit, SuggestionsFollowRules
  <2>4. ASSUME NEW run, RunFollows(run) PROVE RunFollows(run)'
    BY <2>1, <2>2, <2>4 DEF RunFollows
  <2>5. \A c \in Client : fresh /\ suggesting'[c] # Unset => RunFollows(suggesting[c])'
    <3> SUFFICES ASSUME NEW c \in Client, fresh, suggesting'[c] # Unset
                 PROVE  RunFollows(suggesting[c])'
      OBVIOUS
    <3>1. PICK run : run = suggesting[c] /\ run = suggesting'[c]
      BY <2>1
    <3> QED BY <2>4, <3>1 DEF IInv, MapInv
  <2> QED BY <2>1, <2>3, <2>5 DEF IInv, MapInv, RunDecides
<1>2. UNCHANGED rateSide => RateInv'
  BY DEF rateSide, IInv, RateInv, RateTypes, Clash, Overlaps
<1>3. UNCHANGED policySide => PolicyInv'
  BY DEF policySide, IInv, PolicyInv
<1>4. RateStep => RateInv'
  BY ReadRatesKeeps, AddRateKeeps, DeactivateRateKeeps DEF IInv, RateStep
<1>5. PolicyStep => PolicyInv'
  BY UnsetAssumption DEF IInv, PolicyInv, PolicyStep, MaySetHistoryStart, SetHistoryStart,
                         StartFirstBackfill, EndBackfill
<1> QED BY <1>1, <1>2, <1>3, <1>4, <1>5, MapKeeps DEF IInv, ConfigNext, cfgVars

\* Whatever requests overlap, divisions keep digits of their own, a run of the
\* suggestions that met no other change leaves what the rules give, and one rate of a
\* division is in force on a day (domain/config).
THEOREM ConfigurationAgrees == ConfigSpec => []ConfigAgrees
<1>1. IInv => ConfigAgrees
  BY RatesAreOne DEF IInv, MapInv, MapTypes, Maps, RateInv, RateTypes, PolicyInv,
                     ConfigAgrees, ConfigTypeOK
<1> QED BY <1>1, IInvInitially, IInvInductive, PTL DEF ConfigSpec

\* No request takes a confirmed mapping back, no run of the suggestions rewrites one it
\* saw confirmed; once a backfill has completed only requests that asked before it did
\* still move the history start (chart.py suggest, api/config.py set_policy).
THEOREM DecisionsAreKept == ConfigSpec => DecisionsKept
<1>1. ASSUME IInv, ConfigNext
      PROVE  ConfirmedStep /\ HistoryStep
  <2>1. HistoryStep
    BY <1>1 DEF HistoryStep, IInv, PolicyInv, ConfigNext, policySide, PolicyStep,
                MaySetHistoryStart, SetHistoryStart, StartFirstBackfill, EndBackfill
  <2> SUFFICES ASSUME NEW a \in GlAccount, Confirmed(map[a])
               PROVE  \/ a \in overtaken'
                      \/ Confirmed(map'[a]) /\ (map'[a] # map[a] => map'[a].rule = Unset)
    BY <2>1 DEF ConfirmedStep, Confirmed
  <2>2. map \in [GlAccount -> MapRow \cup {Unset}] /\ Unset \notin MapRow
    BY <1>1, UnsetAssumption DEF IInv, MapInv, MapTypes, Maps
  <2>3. CASE UNCHANGED map
    BY <2>3 DEF Confirmed
  <2>4. ASSUME NEW b \in GlAccount, NEW d \in Division \cup {Unset}, NEW k \in Category \cup {Unset},
               NEW confirm \in BOOLEAN, SetAccountMap(b, d, k, confirm)
        PROVE  Confirmed(map'[a]) /\ (map'[a] # map[a] => map'[a].rule = Unset)
    <3>1. PICK st \in {"suggested", "confirmed"} :
            /\ map' = [map EXCEPT ![b] = [division |-> d, category |-> k, rule |-> Unset, status |-> st]]
            /\ Confirmed(map[b]) => st = "confirmed"
      BY <2>4 DEF SetAccountMap, Confirmed
    <3>2. CASE a = b
      <4>1. map'[a] = [division |-> d, category |-> k, rule |-> Unset, status |-> "confirmed"]
        BY <2>2, <3>1, <3>2
      <4>2. [division |-> d, category |-> k, rule |-> Unset, status |-> "confirmed"] \in MapRow
        BY DEF MapRow
      <4> QED BY <2>2, <4>1, <4>2 DEF Confirmed
    <3>3. CASE a # b
      BY <2>2, <3>1, <3>3
    <3> QED BY <3>2, <3>3
  <2>5. ASSUME NEW S \in SUBSET GlAccount, ConfirmMaps(S)
        PROVE  map'[a] = map[a]
    BY <2>5 DEF ConfirmMaps, Confirmed
  <2>6. ASSUME NEW c \in Client, CommitSuggest(c)
        PROVE  a \in overtaken' \/ map'[a] = map[a]
    <3>1. RunDecides(suggesting[c])
      BY <1>1, <2>6 DEF IInv, MapInv, CommitSuggest
    <3>2. CASE a \in DOMAIN suggesting[c].want
      <4>1. map[a] # suggesting[c].seen[a]
        BY <3>1, <3>2 DEF RunDecides
      <4> QED BY <2>6, <3>2, <4>1 DEF CommitSuggest
    <3>3. CASE a \notin DOMAIN suggesting[c].want
      BY <2>6, <3>3 DEF CommitSuggest
    <3> QED BY <3>2, <3>3
  <2>7. \/ UNCHANGED map
        \/ \E b \in GlAccount, d \in Division \cup {Unset}, k \in Category \cup {Unset},
              confirm \in BOOLEAN : SetAccountMap(b, d, k, confirm)
        \/ \E S \in SUBSET GlAccount : ConfirmMaps(S)
        \/ \E c \in Client : CommitSuggest(c)
    BY <1>1 DEF ConfigNext, mapSide, MapStep, CreateDivision, UpdateDivision, DeactivateDivision,
                DeactivateCategory, LoadRules, ChartChanges, ReadSuggest
  <2> QED BY <2>3, <2>4, <2>5, <2>6, <2>7
<1>2. IInv /\ [ConfigNext]_cfgVars => [ConfirmedStep /\ HistoryStep]_cfgVars
  BY <1>1
<1> QED BY <1>2, IInvInitially, IInvInductive, PTL DEF ConfigSpec, DecisionsKept

-----------------------------------------------------------------------------
(* The import batches. *)

Known == {f \in File : FindBatch(f)}
Charted(f) == work["follow"][f].status # "none"
At(j, f, steps) == worker.job = j /\ worker.file = f /\ worker.step \in steps

Hands == [job : {"process"}, file : File,
          step : {"start", "read", "loaded", "broken", "transient", "done", "permanent", "retry"}]
         \cup [job : {"follow"}, file : File, step : {"apply", "done", "retry"}]

\* The worker's task is running; a queued task has an attempt left; a batch has its
\* task and its object; uploads are ranked.
WorkFits ==
  /\ worker \in Hands \cup {AtRest}
  /\ applied \in Seq(File) /\ left \subseteq File
  /\ worker # AtRest => work[worker.job][worker.file].status = "running"
  /\ \A j \in WorkKind, f \in File :
       work[j][f].status = "queued" => work[j][f].attempts < MaxTries
  /\ \A f \in File : work["process"][f].status = "none" <=> ~FindBatch(f)
  /\ \A f \in File : Charted(f) => FindBatch(f)
  /\ \A i \in 1..Len(applied) : FindBatch(applied[i])
  /\ \A u \in Uploader : upload[u] # None => upload[u] \in object

RanksFit ==
  /\ IsFiniteSet(Known)
  /\ \A f \in Known : f \in object /\ batch[f].at \in 1..Cardinality(Known)
  /\ \A f, g \in Known : batch[f].at = batch[g].at => f = g

Stored(f) ==
  \A a \in DOMAIN Chart[f] : \E i \in 1..Len(rawRow[a]) : rawRow[a][i].name = Chart[f][a]

\* A raw row is of a batch whose file holds the account.
RowsFit ==
  \A a \in Account : \A i \in 1..Len(rawRow[a]) :
     FindBatch(rawRow[a][i].file) /\ a \in DOMAIN Chart[rawRow[a][i].file]

\* What a batch says of its file.
OutcomesFit ==
  \A f \in File :
     /\ batch[f].status \in Loaded => /\ DOMAIN Chart[f] # {} => Charted(f)
                                      /\ Stored(f) /\ Outcome[f] \in {"good", "mixed", "empty"}
     /\ Charted(f) => Outcome[f] \in {"good", "mixed"}
     /\ batch[f].status = "failed" => Outcome[f] = "broken"
     /\ batch[f].status = "nothing_loaded" => Outcome[f] = "unreadable"
     /\ At("process", f, {"loaded"}) => Stored(f) /\ Outcome[f] # "broken"
     /\ At("process", f, {"broken"}) => Outcome[f] = "broken"

\* A batch at processing has a task that will be tried again, or used up.
ProcessingFits ==
  \A f \in File :
     /\ batch[f].status = "processing" =>
          \/ work["process"][f].status \in {"queued", "running"} /\ ~At("process", f, {"done", "permanent"})
          \/ work["process"][f].status = "failed" /\ work["process"][f].attempts = MaxTries
     /\ work["process"][f].status = "succeeded" \/ At("process", f, {"done"})
          => batch[f].status \in Loaded \cup {"nothing_loaded"}

\* A batch is at processing while the worker reads its file, or was left there.
LeftFits ==
  \A f \in File : batch[f].status = "processing" =>
     f \in left \/ At("process", f, {"read", "loaded", "broken", "transient"})

\* The follow-up of a chart has not come to its end, or never will.
Waits(f) ==
  work["follow"][f].status \in {"queued", "running", "failed"} /\ ~At("follow", f, {"done"})

AppliedSince(f) == applied # << >> /\ batch[Last(applied)].at >= batch[f].at

\* A newer batch that is not known to be done with.
Before(f) ==
  \E g \in File : /\ FindBatch(g)
                  /\ batch[g].at > batch[f].at
                  /\ g \in left \/ Outcome[g] = "empty" \/ Waits(g)

\* A chart that is loaded waits for its turn, is no newer than the one applied
\* last, or has a newer batch before it.
NewestFits ==
  \A f \in File : batch[f].status \in Loaded /\ DOMAIN Chart[f] # {} =>
     Waits(f) \/ AppliedSince(f) \/ Before(f)

ImpInv ==
  /\ ImportTypeOK /\ WorkFits /\ RanksFit /\ RowsFit /\ OutcomesFit /\ ProcessingFits
  /\ ActiveIsHeld /\ LeftFits /\ NewestFits

WorkRow == [status : {"none", "queued", "running", "succeeded", "failed"}, attempts : 0..MaxTries]
WorkTable == [WorkKind -> [File -> WorkRow]]

LEMMA ImportTypes ==
  ImportTypeOK <=> /\ object \subseteq File /\ upload \in [Uploader -> File \cup {None}]
                   /\ batch \in [File -> BatchRow] /\ work \in WorkTable
                   /\ rawRow \in [Account -> Seq(RawRow)]
                   /\ account \in [Account -> AccountRow \cup {None}]
BY DEF ImportTypeOK, WorkTable, WorkRow

LEMMA ImportTypesNext ==
  ImportTypeOK' <=> /\ object' \subseteq File /\ upload' \in [Uploader -> File \cup {None}]
                    /\ batch' \in [File -> BatchRow] /\ work' \in WorkTable
                    /\ rawRow' \in [Account -> Seq(RawRow)]
                    /\ account' \in [Account -> AccountRow \cup {None}]
BY DEF ImportTypeOK, WorkTable, WorkRow

\* The greatest of some positions.
LEMMA GreatestOfSome ==
  ASSUME NEW n \in Nat, NEW S, S \subseteq 0..n, S # {}
  PROVE  Max(S) \in S /\ \A y \in S : y <= Max(S)
<1> DEFINE D == {n - x : x \in S}
<1>1. D \subseteq Nat /\ D # {}
  <2>1. \A x \in S : x \in 0..n /\ n - x \in Nat
    OBVIOUS
  <2> QED BY <2>1
<1>2. PICK m \in D : \A y \in D : m <= y
  BY <1>1, LeastOfSome
<1>3. PICK x \in S : m = n - x
  OBVIOUS
<1>4. ASSUME NEW y \in S PROVE x >= y
  <2>1. n - y \in D /\ m <= n - y
    BY <1>2
  <2> QED BY <1>3, <2>1
<1> HIDE DEF D
<1>5. \E z \in S : \A y \in S : z >= y
  BY <1>4
<1>6. Max(S) \in S /\ \A y \in S : Max(S) >= y
  BY <1>5 DEF Max
<1>7. \A y \in S : y \in Int
  OBVIOUS
<1> QED BY <1>6, <1>7

\* One task is written.
Writes(j, f, r) ==
  /\ work' \in WorkTable /\ work'[j][f] = r
  /\ \A k \in WorkKind, g \in File : k # j \/ g # f => work'[k][g] = work[k][g]

LEMMA WorkSet ==
  ASSUME work \in WorkTable, NEW j \in WorkKind, NEW f \in File, NEW r \in WorkRow,
         work' = [work EXCEPT ![j][f] = r]
  PROVE  Writes(j, f, r)
BY DEF WorkTable, Writes

LEMMA WorkRowIs ==
  ASSUME work \in WorkTable, NEW j \in WorkKind, NEW f \in File
  PROVE  /\ work[j][f] \in WorkRow /\ work[j][f].attempts \in 0..MaxTries
         /\ work[j][f].status \in {"none", "queued", "running", "succeeded", "failed"}
BY DEF WorkTable, WorkRow

\* Its status is.
WritesStatus(j, f, s) ==
  /\ work' \in WorkTable /\ work'[j][f].status = s
  /\ work'[j][f].attempts = work[j][f].attempts
  /\ \A k \in WorkKind, g \in File : k # j \/ g # f => work'[k][g] = work[k][g]

LEMMA WorkStatusSet ==
  ASSUME work \in WorkTable, NEW j \in WorkKind, NEW f \in File,
         NEW s \in {"queued", "running", "succeeded", "failed"},
         work' = [work EXCEPT ![j][f].status = s]
  PROVE  WritesStatus(j, f, s)
<1>1. PICK r : r = [work[j][f] EXCEPT !.status = s]
  OBVIOUS
<1>2. r \in WorkRow /\ r.status = s /\ r.attempts = work[j][f].attempts
  <2>1. PICK q : q = work[j][f]
    OBVIOUS
  <2>2. q \in WorkRow /\ r = [q EXCEPT !.status = s]
    BY <1>1, <2>1, WorkRowIs
  <2> QED BY <2>1, <2>2 DEF WorkRow
<1>3. work' = [work EXCEPT ![j][f] = r]
  BY <1>1 DEF WorkTable
<1>4. Writes(j, f, r)
  BY <1>2, <1>3, WorkSet
<1> QED BY <1>2, <1>4, Zenon DEF Writes, WritesStatus

\* A task is queued: the one that is open stays as it is.
LEMMA EnqueueSets ==
  ASSUME work \in WorkTable, NEW j \in WorkKind, NEW f \in File, work' = Enqueue(work, j, f)
  PROVE  /\ work' \in WorkTable /\ work'[j][f].status \in {"queued", "running"}
         /\ work'[j][f] = work[j][f] \/ work'[j][f] = [status |-> "queued", attempts |-> 0]
         /\ work[j][f].status \notin {"queued", "running"} => work'[j][f].attempts = 0
         /\ \A k \in WorkKind, g \in File : k # j \/ g # f => work'[k][g] = work[k][g]
<1>1. PICK r : r = [status |-> "queued", attempts |-> 0]
  OBVIOUS
<1>2. r \in WorkRow /\ r.status = "queued" /\ r.attempts = 0
  BY <1>1, ImportAssumption DEF WorkRow
<1>3. CASE work[j][f].status \in {"queued", "running"}
  <2>1. work' = work
    BY <1>3 DEF Enqueue
  <2> QED BY <1>3, <2>1
<1>4. CASE work[j][f].status \notin {"queued", "running"}
  <2>1. work' = [work EXCEPT ![j][f] = r]
    BY <1>1, <1>4 DEF Enqueue
  <2>2. Writes(j, f, r)
    BY <1>2, <2>1, WorkSet
  <2> QED BY <1>1, <1>2, <1>4, <2>2, Zenon DEF Writes
<1> QED BY <1>3, <1>4

\* What the worker has in hand is running.
LEMMA InHands ==
  ASSUME WorkFits, worker # AtRest
  PROVE  /\ worker \in Hands /\ worker.job \in WorkKind /\ worker.file \in File
         /\ worker.step # "idle" /\ work[worker.job][worker.file].status = "running"
<1>1. worker \in Hands /\ work[worker.job][worker.file].status = "running"
  BY DEF WorkFits
<1>2. \A h \in Hands : h.job \in WorkKind /\ h.file \in File /\ h.step # "idle"
  BY DEF Hands, WorkKind
<1> QED BY <1>1, <1>2

LEMMA RestIsIdle == AtRest.step = "idle"
BY DEF AtRest

LEMMA HandsApart ==
  ASSUME NEW h \in Hands
  PROVE  h # AtRest /\ h.step # "idle"
BY RestIsIdle DEF Hands

\* The rows of another variable leave the ranks and the raw rows as they are.
LEMMA RanksStay ==
  ASSUME RanksFit, RowsFit, object \subseteq object', rawRow' = rawRow,
         \A f \in File : /\ batch'[f].at = batch[f].at
                         /\ batch'[f].status = "none" <=> batch[f].status = "none"
  PROVE  RanksFit'
<1>1. Known' = Known
  BY DEF Known, FindBatch
<1> QED BY <1>1 DEF RanksFit, Known

LEMMA LastIsOne ==
  ASSUME NEW S, NEW s \in Seq(S), s # << >>
  PROVE  Last(s) \in S /\ Len(s) \in 1..Len(s) /\ Last(s) = s[Len(s)]
BY DEF Last

LEMMA AppliedAreFiles ==
  ASSUME WorkFits, NEW i \in 1..Len(applied)
  PROVE  applied[i] \in File /\ FindBatch(applied[i])
<1>1. applied \in Seq(File) /\ FindBatch(applied[i])
  BY DEF WorkFits
<1> QED BY <1>1

LEMMA RawsAreOfFiles ==
  ASSUME ImportTypeOK, NEW a \in Account, NEW i \in 1..Len(rawRow[a])
  PROVE  rawRow[a] \in Seq(RawRow) /\ rawRow[a][i] \in RawRow
         /\ rawRow[a][i].file \in File /\ rawRow[a][i].name \in Name
<1>1. rawRow[a] \in Seq(RawRow)
  BY ImportTypes
<1>2. rawRow[a][i] \in RawRow
  BY <1>1
<1> QED BY <1>1, <1>2 DEF RawRow

\* A step that applies no chart keeps each chart's place, when a batch that becomes
\* loaded has its follow-up to come.
LEMMA NewestStays ==
  ASSUME ImpInv, applied' = applied, left \subseteq left',
         \A g \in File : FindBatch(g) => FindBatch(g)' /\ batch'[g].at = batch[g].at,
         \A g \in File : Waits(g) => Waits(g)',
         \A g \in File : batch'[g].status \in Loaded /\ DOMAIN Chart[g] # {} =>
                           batch[g].status \in Loaded \/ Waits(g)'
  PROVE  NewestFits'
<1>1. ASSUME NEW f \in File, batch'[f].status \in Loaded, DOMAIN Chart[f] # {}, ~Waits(f)'
      PROVE  AppliedSince(f)' \/ Before(f)'
  <2>1. batch[f].status \in Loaded /\ ~Waits(f) /\ FindBatch(f) /\ batch'[f].at = batch[f].at
    BY <1>1 DEF FindBatch, Loaded
  <2>2. AppliedSince(f) \/ Before(f)
    BY <1>1, <2>1 DEF ImpInv, NewestFits
  <2>3. CASE AppliedSince(f)
    <3>1. applied # << >> /\ Last(applied) \in File /\ FindBatch(Last(applied))
      BY <2>3, LastIsOne, AppliedAreFiles DEF ImpInv, WorkFits, AppliedSince
    <3> QED BY <2>1, <2>3, <3>1 DEF AppliedSince
  <2>4. CASE Before(f)
    BY <2>1, <2>4 DEF Before
  <2> QED BY <2>2, <2>3, <2>4
<1> QED BY <1>1 DEF NewestFits

-----------------------------------------------------------------------------
(* Uploads. *)

\* The steps that write no row.
LEMMA UploadsAside ==
  ASSUME ImpInv, object \subseteq object', object' \subseteq File,
         upload' \in [Uploader -> File \cup {None}],
         \A u \in Uploader : upload'[u] # None => upload'[u] \in object',
         UNCHANGED <<batch, work, rawRow, account, worker, applied, left>>
  PROVE  ImpInv'
<1>1. batch' = batch /\ work' = work /\ rawRow' = rawRow /\ account' = account /\ worker' = worker
      /\ applied' = applied /\ left' = left
  OBVIOUS
<1>2. ImportTypeOK'
  BY <1>1, ImportTypes, ImportTypesNext DEF ImpInv
<1>3. WorkFits'
  BY <1>1 DEF ImpInv, WorkFits, FindBatch, Charted
<1>4. RanksFit'
  BY <1>1, RanksStay DEF ImpInv
<1>5. RowsFit' /\ OutcomesFit' /\ ProcessingFits'
  BY <1>1 DEF ImpInv, RowsFit, OutcomesFit, ProcessingFits, FindBatch, Charted, Stored, At
<1>6. ActiveIsHeld' /\ LeftFits'
  BY <1>1 DEF ImpInv, ActiveIsHeld, LeftFits, At
<1>7. NewestFits'
  BY <1>1, NewestStays DEF Waits, At, FindBatch
<1> QED BY <1>2, <1>3, <1>4, <1>5, <1>6, <1>7 DEF ImpInv

LEMMA PutObjectKeeps == ASSUME ImpInv, NEW u \in Uploader, NEW f \in File, PutObject(u, f) PROVE ImpInv'
<1>1. /\ object' = object \cup {f} /\ upload' = [upload EXCEPT ![u] = f]
      /\ UNCHANGED <<batch, work, rawRow, account, worker, applied, left>>
  BY DEF PutObject
<1>2. object \subseteq File /\ upload \in [Uploader -> File \cup {None}]
      /\ \A v \in Uploader : upload[v] # None => upload[v] \in object
  BY ImportTypes DEF ImpInv, WorkFits
<1> QED BY <1>1, <1>2, UploadsAside

LEMMA LoseUploadKeeps == ASSUME ImpInv, NEW u \in Uploader, LoseUpload(u) PROVE ImpInv'
<1>1. /\ object' = object /\ upload' = [upload EXCEPT ![u] = None]
      /\ UNCHANGED <<batch, work, rawRow, account, worker, applied, left>>
  BY DEF LoseUpload
<1>2. object \subseteq File /\ upload \in [Uploader -> File \cup {None}]
      /\ \A v \in Uploader : upload[v] # None => upload[v] \in object
  BY ImportTypes DEF ImpInv, WorkFits
<1> QED BY <1>1, <1>2, UploadsAside

LEMMA InsertBatchKeeps == ASSUME ImpInv, NEW u \in Uploader, InsertBatch(u) PROVE ImpInv'
<1> DEFINE f == upload[u]
<1>1. /\ f \in File /\ f \in object /\ upload' = [upload EXCEPT ![u] = None]
      /\ UNCHANGED <<object, rawRow, account, worker, applied, failures, left>>
      /\ object \subseteq File /\ upload \in [Uploader -> File \cup {None}]
      /\ \A v \in Uploader : upload[v] # None => upload[v] \in object
      /\ batch \in [File -> BatchRow] /\ work \in WorkTable
  BY ImportTypes DEF ImpInv, WorkFits, InsertBatch
<1>2. CASE FindBatch(f)
  <2>1. UNCHANGED <<batch, work>>
    BY <1>2 DEF InsertBatch
  <2> QED BY <1>1, <2>1, UploadsAside
<1>3. CASE ~FindBatch(f)
  <2> DEFINE n == Cardinality(Known) + 1
  <2>1. PICK r : r = [status |-> "received", outcome |-> None, at |-> n]
    OBVIOUS
  <2>2. batch' = [batch EXCEPT ![f] = r] /\ work' = Enqueue(work, "process", f)
    BY <1>3, <2>1 DEF InsertBatch, Known
  <2>3. Cardinality(Known) \in Nat /\ IsFiniteSet(Known)
    BY FS_CardinalityType DEF ImpInv, RanksFit
  <2>4. n \in Nat /\ r \in BatchRow /\ r.status = "received" /\ r.at = n
    BY <2>1, <2>3 DEF BatchRow
  <2> HIDE DEF f
  <2>5. batch' \in [File -> BatchRow] /\ batch'[f] = r /\ \A g \in File : g # f => batch'[g] = batch[g]
    BY <1>1, <2>2, <2>4
  <2>6. Known' = Known \cup {f} /\ f \notin Known
    <3>1. \A g \in File : FindBatch(g)' <=> FindBatch(g) \/ g = f
      BY <1>3, <2>4, <2>5 DEF FindBatch
    <3> QED BY <1>1, <1>3, <3>1 DEF Known
  <2>7. IsFiniteSet(Known') /\ Cardinality(Known') = n
    BY <2>3, <2>6, FS_AddElement
  <2>8. work["process"][f].status = "none" /\ ~Charted(f)
    BY <1>1, <1>3 DEF ImpInv, WorkFits
  <2>9. /\ work' \in WorkTable /\ work'["process"][f].status \in {"queued", "running"}
        /\ work'["process"][f].attempts = 0
        /\ \A k \in WorkKind, g \in File : k # "process" \/ g # f => work'[k][g] = work[k][g]
    BY <1>1, <2>2, <2>8, EnqueueSets DEF WorkKind
  <2>10. \A g \in File : Charted(g)' <=> Charted(g)
    BY <2>9 DEF Charted, WorkKind
  <2>11. worker # AtRest => worker.job # "process" \/ worker.file # f
    BY <2>8, InHands DEF ImpInv
  <2>12. ImportTypeOK'
    BY <1>1, <2>5, <2>9, ImportTypes, ImportTypesNext DEF ImpInv
  <2>13. WorkFits'
    <3>1. worker' = worker /\ applied' = applied /\ left' = left
      BY <1>1
    <3>2. worker # AtRest => work'[worker.job][worker.file].status = "running"
      BY <2>9, <2>11, InHands DEF ImpInv
    <3>3. \A j \in WorkKind, g \in File :
            work'[j][g].status = "queued" => work'[j][g].attempts < MaxTries
      BY <2>9, ImportAssumption DEF ImpInv, WorkFits
    <3>4. \A g \in File : work'["process"][g].status = "none" <=> ~FindBatch(g)'
      BY <2>4, <2>5, <2>9 DEF ImpInv, WorkFits, FindBatch, WorkKind
    <3>5. \A g \in File : FindBatch(g) => FindBatch(g)'
      BY <2>4, <2>5 DEF FindBatch
    <3>6. \A v \in Uploader : upload'[v] # None => upload'[v] \in object'
      BY <1>1
    <3>7. \A i \in 1..Len(applied) : FindBatch(applied[i])'
      BY <3>1, <3>5, AppliedAreFiles DEF ImpInv
    <3> QED BY <2>10, <3>1, <3>2, <3>3, <3>4, <3>5, <3>6, <3>7 DEF ImpInv, WorkFits
  <2>14. RanksFit'
    <3>1. \A g \in Known : g # f /\ batch'[g].at = batch[g].at /\ batch[g].at \in 1..Cardinality(Known) /\ g \in object
      BY <2>5, <2>6 DEF ImpInv, RanksFit, Known
    <3>2. \A g \in Known' : g \in object' /\ batch'[g].at \in 1..n
      BY <1>1, <2>3, <2>4, <2>5, <2>6, <3>1
    <3>3. ASSUME NEW g \in Known', NEW h \in Known', batch'[g].at = batch'[h].at PROVE g = h
      BY <2>3, <2>4, <2>5, <2>6, <3>1, <3>3 DEF ImpInv, RanksFit
    <3> QED BY <2>7, <3>2, <3>3 DEF RanksFit
  <2>15. RowsFit'
    <3>1. \A a \in Account : \A i \in 1..Len(rawRow[a]) : rawRow[a][i].file \in File
      BY RawsAreOfFiles DEF ImpInv
    <3>2. \A g \in File : FindBatch(g) => FindBatch(g)'
      BY <2>4, <2>5 DEF FindBatch
    <3> QED BY <1>1, <3>1, <3>2 DEF ImpInv, RowsFit
  <2>16. OutcomesFit'
    BY <1>1, <2>4, <2>5, <2>8, <2>10, <2>11, RestIsIdle DEF ImpInv, OutcomesFit, Loaded, Stored, At
  <2>17. ProcessingFits'
    BY <1>1, <2>4, <2>5, <2>8, <2>9, <2>11, RestIsIdle DEF ImpInv, ProcessingFits, At, WorkKind
  <2>18. ActiveIsHeld' /\ LeftFits'
    BY <1>1, <2>4, <2>5, <2>8 DEF ImpInv, ActiveIsHeld, LeftFits, At
  <2>19. NewestFits'
    <3>1. \A g \in File : Waits(g) => Waits(g)'
      BY <1>1, <2>9 DEF Waits, At, WorkKind
    <3>2. \A g \in File : FindBatch(g) => FindBatch(g)' /\ batch'[g].at = batch[g].at
      BY <1>3, <2>5 DEF FindBatch
    <3>3. \A g \in File : batch'[g].status \in Loaded => batch[g].status \in Loaded
      BY <2>4, <2>5 DEF Loaded
    <3> QED BY <1>1, <3>1, <3>2, <3>3, NewestStays
  <2> QED BY <2>12, <2>13, <2>14, <2>15, <2>16, <2>17, <2>18, <2>19 DEF ImpInv
<1> QED BY <1>2, <1>3

-----------------------------------------------------------------------------
(* The steps of the queue. *)

\* What such a step leaves alone.
LEMMA QueueAside ==
  ASSUME ImpInv, work' \in WorkTable, worker' \in Hands \cup {AtRest}, left' \subseteq File,
         UNCHANGED <<object, upload, batch, rawRow, account, applied>>,
         worker' # AtRest => work'[worker'.job][worker'.file].status = "running",
         \A j \in WorkKind, f \in File :
            /\ work'[j][f].status = "queued" => work'[j][f].attempts < MaxTries
            /\ work'[j][f].status = "none" <=> work[j][f].status = "none"
  PROVE  /\ ImportTypeOK' /\ WorkFits' /\ RanksFit' /\ RowsFit' /\ ActiveIsHeld'
         /\ \A f \in File : Charted(f)' <=> Charted(f)
<1>1. batch' = batch /\ rawRow' = rawRow /\ account' = account /\ object' = object
      /\ upload' = upload /\ applied' = applied
  OBVIOUS
<1>2. ImportTypeOK'
  BY <1>1, ImportTypes, ImportTypesNext DEF ImpInv
<1>3. \A f \in File : Charted(f)' <=> Charted(f)
  BY DEF Charted, WorkKind
<1>4. WorkFits'
  BY <1>1, <1>3 DEF ImpInv, WorkFits, FindBatch, WorkKind
<1>5. RanksFit'
  BY <1>1, RanksStay DEF ImpInv
<1>6. RowsFit' /\ ActiveIsHeld'
  BY <1>1 DEF ImpInv, RowsFit, ActiveIsHeld, FindBatch
<1> QED BY <1>2, <1>3, <1>4, <1>5, <1>6

LEMMA ClaimWorkKeeps ==
  ASSUME ImpInv, NEW j \in WorkKind, NEW f \in File, ClaimWork(j, f)
  PROVE  ImpInv'
<1>1. /\ worker = AtRest /\ work[j][f].status = "queued"
      /\ UNCHANGED <<object, upload, batch, rawRow, account, applied>> /\ left' = left
      /\ work \in WorkTable
  BY ImportTypes DEF ImpInv, ClaimWork
<1>2. PICK r : r = [status |-> "running", attempts |-> work[j][f].attempts + 1]
  OBVIOUS
<1>3. r \in WorkRow /\ r.status = "running"
  <2>1. work[j][f].attempts \in Nat /\ work[j][f].attempts < MaxTries /\ MaxTries \in Nat
    BY <1>1, WorkRowIs, ImportAssumption DEF ImpInv, WorkFits
  <2>2. work[j][f].attempts + 1 \in 0..MaxTries
    BY <2>1
  <2> QED BY <1>2, <2>2 DEF WorkRow
<1>4. Writes(j, f, r)
  <2>1. work' = [work EXCEPT ![j][f] = r]
    BY <1>1, <1>2 DEF ClaimWork, WorkTable
  <2> QED BY <1>1, <1>3, <2>1, WorkSet
<1>5. /\ worker' \in Hands /\ worker'.job = j /\ worker'.file = f /\ worker'.step \in {"start", "apply"}
      /\ worker' # AtRest
  <2>1. worker' = [job |-> j, file |-> f, step |-> IF j = "process" THEN "start" ELSE "apply"]
    BY DEF ClaimWork
  <2>2. worker' \in Hands
    BY <2>1 DEF Hands, WorkKind
  <2> QED BY <2>1, <2>2, HandsApart
<1>6. /\ ImportTypeOK' /\ WorkFits' /\ RanksFit' /\ RowsFit' /\ ActiveIsHeld'
      /\ \A g \in File : Charted(g)' <=> Charted(g)
  <2>1. \A k \in WorkKind, g \in File :
            /\ work'[k][g].status = "queued" => work'[k][g].attempts < MaxTries
            /\ work'[k][g].status = "none" <=> work[k][g].status = "none"
    BY <1>1, <1>3, <1>4 DEF Writes, ImpInv, WorkFits
  <2>2. work' \in WorkTable /\ work'[worker'.job][worker'.file].status = "running"
    BY <1>3, <1>4, <1>5 DEF Writes
  <2>3. left' \subseteq File
    BY <1>1 DEF ImpInv, WorkFits
  <2> QED BY <1>1, <1>5, <2>1, <2>2, <2>3, QueueAside
<1>7. batch' = batch /\ rawRow' = rawRow /\ applied' = applied /\ worker.step = "idle"
  BY <1>1, RestIsIdle
<1>8. OutcomesFit'
  BY <1>5, <1>6, <1>7 DEF ImpInv, OutcomesFit, Stored, At
<1>9. ProcessingFits'
  BY <1>1, <1>3, <1>4, <1>5, <1>7 DEF ImpInv, ProcessingFits, At, Writes, WorkKind
<1>10. LeftFits'
  BY <1>1, <1>5, <1>7 DEF ImpInv, LeftFits, At
<1>11. NewestFits'
  <2>1. \A g \in File : Waits(g) => Waits(g)'
    BY <1>1, <1>3, <1>4, <1>5, <1>7 DEF Waits, At, Writes, WorkKind
  <2> QED BY <1>1, <1>7, <2>1, NewestStays DEF FindBatch
<1> QED BY <1>6, <1>8, <1>9, <1>10, <1>11 DEF ImpInv

LEMMA LeaseEndsKeeps ==
  ASSUME ImpInv, NEW j \in WorkKind, NEW f \in File, LeaseEnds(j, f)
  PROVE  ImpInv'
<1>1. /\ work[j][f].status = "running" /\ ~(worker.job = j /\ worker.file = f)
      /\ UNCHANGED <<object, upload, batch, rawRow, account, applied>> /\ left' = left
      /\ worker' = worker /\ work \in WorkTable
  BY ImportTypes DEF ImpInv, LeaseEnds
<1>2. PICK s \in {"queued", "failed"} : s = IF work[j][f].attempts < MaxTries THEN "queued" ELSE "failed"
  OBVIOUS
<1>3. /\ work' \in WorkTable /\ work'[j][f].status = s
      /\ work'[j][f].attempts = work[j][f].attempts
      /\ \A k \in WorkKind, g \in File : k # j \/ g # f => work'[k][g] = work[k][g]
      /\ s = "queued" => work[j][f].attempts < MaxTries
      /\ s = "failed" => work[j][f].attempts = MaxTries
  <2>1. work' = [work EXCEPT ![j][f].status = s]
    BY <1>2 DEF LeaseEnds
  <2>2. work[j][f].attempts \in 0..MaxTries /\ MaxTries \in Nat
    BY <1>1, WorkRowIs, ImportAssumption
  <2>3. WritesStatus(j, f, s)
    BY <1>1, <2>1, WorkStatusSet
  <2>4. /\ s = "queued" => work[j][f].attempts < MaxTries
        /\ s = "failed" => work[j][f].attempts = MaxTries
    BY <1>2, <2>2
  <2> QED BY <2>3, <2>4, Zenon DEF WritesStatus
<1>4. /\ ImportTypeOK' /\ WorkFits' /\ RanksFit' /\ RowsFit' /\ ActiveIsHeld'
      /\ \A g \in File : Charted(g)' <=> Charted(g)
  <2>1. \A k \in WorkKind, g \in File :
            /\ work'[k][g].status = "queued" => work'[k][g].attempts < MaxTries
            /\ work'[k][g].status = "none" <=> work[k][g].status = "none"
    BY <1>1, <1>3 DEF ImpInv, WorkFits
  <2>2. worker' # AtRest => work'[worker'.job][worker'.file].status = "running"
    BY <1>1, <1>3, InHands DEF ImpInv
  <2>3. left' \subseteq File /\ worker' \in Hands \cup {AtRest}
    BY <1>1 DEF ImpInv, WorkFits
  <2> QED BY <1>1, <1>3, <2>1, <2>2, <2>3, QueueAside
<1>5. batch' = batch /\ rawRow' = rawRow /\ applied' = applied
  BY <1>1
<1>6. OutcomesFit'
  BY <1>1, <1>4, <1>5 DEF ImpInv, OutcomesFit, Stored, At
<1>7. ProcessingFits'
  BY <1>1, <1>3, <1>5 DEF ImpInv, ProcessingFits, At, WorkKind
<1>8. LeftFits'
  BY <1>1, <1>5 DEF ImpInv, LeftFits, At
<1>9. NewestFits'
  <2>1. \A g \in File : Waits(g) => Waits(g)'
    BY <1>1, <1>3 DEF Waits, At, WorkKind
  <2> QED BY <1>1, <1>5, <2>1, NewestStays DEF FindBatch
<1> QED BY <1>4, <1>6, <1>7, <1>8, <1>9 DEF ImpInv

LEMMA SettleKeeps == ASSUME ImpInv, Settle PROVE ImpInv'
<1>1. PICK j, f : j = worker.job /\ f = worker.file
  OBVIOUS
<1>2. /\ worker.step \in {"done", "permanent", "retry"} /\ worker \in Hands
      /\ j \in WorkKind /\ f \in File /\ work[j][f].status = "running"
      /\ UNCHANGED <<object, upload, batch, rawRow, account, applied>> /\ left' = left
      /\ worker' = AtRest /\ work \in WorkTable
      /\ worker.step = "permanent" => j = "process"
  <2>1. worker.step \in {"done", "permanent", "retry"} /\ worker # AtRest
    BY RestIsIdle DEF Settle
  <2>2. worker \in Hands
    BY <2>1, InHands DEF ImpInv
  <2>3. worker.step = "permanent" => worker.job = "process"
    BY <2>2 DEF Hands
  <2> QED BY <1>1, <2>1, <2>2, <2>3, InHands, ImportTypes DEF ImpInv, Settle
<1>3. PICK s \in {"queued", "failed", "succeeded"} :
         s = CASE worker.step = "done"      -> "succeeded"
               [] worker.step = "permanent" -> "failed"
               [] OTHER -> IF work[j][f].status = "running" /\ work[j][f].attempts < MaxTries
                           THEN "queued" ELSE "failed"
  OBVIOUS
<1>4. /\ work' \in WorkTable /\ work'[j][f].status = s
      /\ work'[j][f].attempts = work[j][f].attempts
      /\ \A k \in WorkKind, g \in File : k # j \/ g # f => work'[k][g] = work[k][g]
      /\ s = "queued" => work[j][f].attempts < MaxTries
      /\ s = "failed" => work[j][f].attempts = MaxTries \/ worker.step = "permanent"
      /\ s = "succeeded" <=> worker.step = "done"
  <2>1. work' = [work EXCEPT ![j][f].status = s]
    BY <1>1, <1>3 DEF Settle
  <2>2. work[j][f].attempts \in 0..MaxTries /\ MaxTries \in Nat
    BY <1>2, WorkRowIs, ImportAssumption
  <2>3. /\ s = "queued" => work[j][f].attempts < MaxTries
        /\ s = "failed" => work[j][f].attempts = MaxTries \/ worker.step = "permanent"
        /\ s = "succeeded" <=> worker.step = "done"
    BY <1>2, <1>3, <2>2
  <2>4. WritesStatus(j, f, s)
    BY <1>2, <2>1, WorkStatusSet
  <2> QED BY <2>3, <2>4, Zenon DEF WritesStatus
<1>5. /\ ImportTypeOK' /\ WorkFits' /\ RanksFit' /\ RowsFit' /\ ActiveIsHeld'
      /\ \A g \in File : Charted(g)' <=> Charted(g)
  <2>1. \A k \in WorkKind, g \in File :
            /\ work'[k][g].status = "queued" => work'[k][g].attempts < MaxTries
            /\ work'[k][g].status = "none" <=> work[k][g].status = "none"
    BY <1>2, <1>4 DEF ImpInv, WorkFits
  <2>2. left' \subseteq File
    BY <1>2 DEF ImpInv, WorkFits
  <2> QED BY <1>2, <1>4, <2>1, <2>2, QueueAside
<1>6. batch' = batch /\ rawRow' = rawRow /\ applied' = applied /\ worker'.step = "idle"
  BY <1>2, RestIsIdle
<1>7. OutcomesFit'
  BY <1>5, <1>6 DEF ImpInv, OutcomesFit, Stored, At
<1>8. ProcessingFits'
  <2>1. ASSUME NEW g \in File, batch[g].status = "processing"
        PROVE  \/ work'["process"][g].status \in {"queued", "running"}
               \/ work'["process"][g].status = "failed" /\ work'["process"][g].attempts = MaxTries
    <3>1. CASE j = "process" /\ g = f
      <4>1. worker.step \notin {"done", "permanent"}
        BY <1>1, <1>2, <2>1, <3>1 DEF ImpInv, ProcessingFits, At
      <4> QED BY <1>2, <1>4, <3>1, <4>1 DEF WorkKind
    <3>2. CASE j # "process" \/ g # f
      BY <1>4, <2>1, <3>2 DEF ImpInv, ProcessingFits, WorkKind
    <3> QED BY <3>1, <3>2
  <2>2. ASSUME NEW g \in File, work'["process"][g].status = "succeeded"
        PROVE  batch[g].status \in Loaded \cup {"nothing_loaded"}
    <3>1. CASE j = "process" /\ g = f
      BY <1>1, <1>4, <2>2, <3>1 DEF ImpInv, ProcessingFits, At
    <3>2. CASE j # "process" \/ g # f
      BY <1>4, <2>2, <3>2 DEF ImpInv, ProcessingFits, WorkKind
    <3> QED BY <3>1, <3>2
  <2> QED BY <1>6, <2>1, <2>2 DEF ProcessingFits, At
<1>9. LeftFits'
  BY <1>2, <1>6 DEF ImpInv, LeftFits, At
<1>10. NewestFits'
  <2>1. ASSUME NEW g \in File, Waits(g)
        PROVE  Waits(g)'
    BY <1>1, <1>2, <1>4, <1>6, <2>1 DEF Waits, At, WorkKind
  <2> QED BY <1>2, <1>6, <2>1, NewestStays DEF FindBatch
<1> QED BY <1>5, <1>7, <1>8, <1>9, <1>10 DEF ImpInv

LEMMA WorkerDiesKeeps == ASSUME ImpInv, WorkerDies PROVE ImpInv'
<1>1. /\ worker # AtRest /\ worker' = AtRest /\ work' = work
      /\ UNCHANGED <<object, upload, batch, rawRow, account, applied>>
      /\ left' = left \cup {f \in {worker.file} : batch[f].status = "processing"}
  BY DEF WorkerDies
<1>2. /\ ImportTypeOK' /\ WorkFits' /\ RanksFit' /\ RowsFit' /\ ActiveIsHeld'
      /\ \A g \in File : Charted(g)' <=> Charted(g)
  <2> worker.file \in File
    BY <1>1, InHands DEF ImpInv
  <2>1. work' \in WorkTable /\ left' \subseteq File
        /\ \A k \in WorkKind, g \in File :
            /\ work'[k][g].status = "queued" => work'[k][g].attempts < MaxTries
            /\ work'[k][g].status = "none" <=> work[k][g].status = "none"
    BY <1>1, ImportTypes DEF ImpInv, WorkFits
  <2> QED BY <1>1, <2>1, QueueAside
<1>3. batch' = batch /\ rawRow' = rawRow /\ applied' = applied /\ worker'.step = "idle"
  BY <1>1, RestIsIdle
<1>4. worker.file \in File /\ work[worker.job][worker.file].status = "running"
  BY <1>1, InHands DEF ImpInv
<1>5. OutcomesFit'
  BY <1>2, <1>3 DEF ImpInv, OutcomesFit, Stored, At
<1>6. ProcessingFits'
  BY <1>1, <1>3 DEF ImpInv, ProcessingFits, At
<1>7. LeftFits'
  BY <1>1, <1>3 DEF ImpInv, LeftFits, At
<1>8. NewestFits'
  <2>1. \A g \in File : Waits(g) => Waits(g)'
    BY <1>1, <1>3, <1>4 DEF Waits, At
  <2> QED BY <1>1, <1>3, <2>1, NewestStays DEF FindBatch
<1> QED BY <1>2, <1>5, <1>6, <1>7, <1>8 DEF ImpInv

-----------------------------------------------------------------------------
(* The reading of a file. *)

\* The row of a batch is written: its place among the uploads stays.
BatchWrites(f, s) ==
  /\ batch' \in [File -> BatchRow] /\ batch'[f].status = s
  /\ \A g \in File : batch'[g].at = batch[g].at /\ (FindBatch(g)' <=> FindBatch(g))
  /\ \A g \in File : g # f => batch'[g] = batch[g]

LEMMA BatchRowSet ==
  ASSUME batch \in [File -> BatchRow], NEW f \in File, FindBatch(f),
         NEW s \in End \cup {"received", "processing"}, batch' = [batch EXCEPT ![f].status = s]
  PROVE  BatchWrites(f, s)
<1>1. PICK q : q = batch[f]
  OBVIOUS
<1>2. PICK r : r = [q EXCEPT !.status = s]
  OBVIOUS
<1>3. r \in BatchRow /\ r.status = s /\ r.at = q.at /\ s # "none"
  BY <1>1, <1>2 DEF BatchRow, End, Loaded
<1>4. batch' = [batch EXCEPT ![f] = r]
  BY <1>1, <1>2
<1> QED BY <1>1, <1>3, <1>4 DEF FindBatch, BatchWrites

\* The worker goes on with the batch it reads.
LEMMA ReadingAside ==
  ASSUME ImpInv, NEW f \in File, worker.job = "process", worker.file = f, worker.step # "idle",
         worker' \in Hands, worker'.job = "process", worker'.file = f,
         work' \in WorkTable, left' \subseteq File,
         UNCHANGED <<object, upload, account, applied>>,
         \A k \in WorkKind, g \in File :
            /\ work'[k][g].status = "queued" => work'[k][g].attempts < MaxTries
            /\ work'[k][g].status = "none" => work[k][g].status = "none"
            /\ (k = "follow" /\ g = f) \/ work'[k][g] = work[k][g],
         batch' \in [File -> BatchRow],
         \A g \in File : batch'[g].at = batch[g].at /\ (FindBatch(g)' <=> FindBatch(g)),
         rawRow' \in [Account -> Seq(RawRow)], RowsFit'
  PROVE  /\ ImportTypeOK' /\ WorkFits' /\ RanksFit' /\ ActiveIsHeld'
         /\ work["process"][f].status = "running" /\ work'["process"][f].status = "running"
         /\ worker # AtRest /\ FindBatch(f)
<1>1. account' = account /\ object' = object /\ upload' = upload /\ applied' = applied
  OBVIOUS
<1>2. worker # AtRest /\ work["process"][f].status = "running"
  BY RestIsIdle, InHands DEF ImpInv
<1>3. work'["process"][f].status = "running" /\ FindBatch(f)
  BY <1>2 DEF ImpInv, WorkFits, WorkKind
<1>4. ImportTypeOK'
  BY <1>1, ImportTypes, ImportTypesNext DEF ImpInv
<1>5. WorkFits'
  <2>1. \A g \in File : Charted(g)' => FindBatch(g)'
    BY <1>3 DEF ImpInv, WorkFits, Charted, WorkKind
  <2>2. \A i \in 1..Len(applied) : FindBatch(applied[i])'
    BY <1>1, AppliedAreFiles DEF ImpInv
  <2>3. \A g \in File : work'["process"][g].status = "none" <=> ~FindBatch(g)'
    BY DEF ImpInv, WorkFits, WorkKind
  <2>4. worker' \in Hands \cup {AtRest} /\ work'[worker'.job][worker'.file].status = "running"
    BY <1>3
  <2> QED BY <1>1, <2>1, <2>2, <2>3, <2>4 DEF ImpInv, WorkFits
<1>6. RanksFit'
  <2>1. Known' = Known
    BY DEF Known
  <2> QED BY <1>1, <2>1 DEF ImpInv, RanksFit, Known
<1>7. ActiveIsHeld'
  BY <1>1 DEF ImpInv, ActiveIsHeld
<1> QED BY <1>2, <1>3, <1>4, <1>5, <1>6, <1>7

LEMMA RowsAside ==
  ASSUME ImpInv, rawRow' = rawRow, \A g \in File : FindBatch(g)' <=> FindBatch(g)
  PROVE  /\ rawRow' \in [Account -> Seq(RawRow)] /\ RowsFit'
         /\ \A g \in File : Stored(g)' <=> Stored(g)
<1>1. rawRow \in [Account -> Seq(RawRow)]
  BY ImportTypes DEF ImpInv
<1>2. ASSUME NEW a \in Account, NEW i \in 1..Len(rawRow[a])
      PROVE  FindBatch(rawRow[a][i].file)' /\ a \in DOMAIN Chart[rawRow[a][i].file]
  <2>1. rawRow[a][i].file \in File
    BY RawsAreOfFiles DEF ImpInv
  <2>2. FindBatch(rawRow[a][i].file) /\ a \in DOMAIN Chart[rawRow[a][i].file]
    BY DEF ImpInv, RowsFit
  <2> QED BY <2>1, <2>2
<1> QED BY <1>1, <1>2 DEF RowsFit, Stored

LEMMA StartReadingKeeps == ASSUME ImpInv, NEW f \in File, StartReading(f) PROVE ImpInv'
<1>1. /\ worker.job = "process" /\ worker.file = f /\ worker.step = "start" /\ worker \in Hands
      /\ UNCHANGED <<object, upload, work, rawRow, account, applied>> /\ left' = left
      /\ batch \in [File -> BatchRow] /\ work \in WorkTable /\ left \subseteq File
  <2>1. worker.job = "process" /\ worker.file = f /\ worker.step = "start" /\ worker # AtRest
    BY RestIsIdle DEF StartReading
  <2> QED BY <2>1, InHands, ImportTypes DEF ImpInv, WorkFits, StartReading
<1>2. FindBatch(f)
  BY <1>1, InHands, RestIsIdle DEF ImpInv, WorkFits
<1>3. \/ /\ batch[f].status = "failed" /\ batch' = batch /\ worker'.step = "permanent"
      \/ batch' = [batch EXCEPT ![f].status = "processing"] /\ worker'.step = "read"
  BY <1>1 DEF StartReading, Hands
<1>4. worker' \in Hands /\ worker'.job = "process" /\ worker'.file = f
  BY <1>1 DEF StartReading, Hands
<1>5. /\ batch' \in [File -> BatchRow]
      /\ \A g \in File : batch'[g].at = batch[g].at /\ (FindBatch(g)' <=> FindBatch(g))
      /\ \A g \in File : g # f => batch'[g] = batch[g]
      /\ \/ batch'[f].status = "processing" /\ worker'.step = "read"
         \/ batch'[f].status = "failed" /\ batch'[f] = batch[f] /\ worker'.step = "permanent"
  <2>1. CASE batch' = batch /\ batch[f].status = "failed" /\ worker'.step = "permanent"
    BY <1>1, <2>1 DEF FindBatch
  <2>2. CASE batch' = [batch EXCEPT ![f].status = "processing"] /\ worker'.step = "read"
    <3>1. BatchWrites(f, "processing")
      BY <1>1, <1>2, <2>2, BatchRowSet
    <3> QED BY <2>2, <3>1 DEF BatchWrites
  <2> QED BY <1>3, <2>1, <2>2
<1>6. /\ rawRow' \in [Account -> Seq(RawRow)] /\ RowsFit'
      /\ \A g \in File : Stored(g)' <=> Stored(g)
  BY <1>1, <1>5, RowsAside
<1>7. \A k \in WorkKind, g \in File :
            /\ work'[k][g].status = "queued" => work'[k][g].attempts < MaxTries
            /\ work'[k][g].status = "none" => work[k][g].status = "none"
            /\ (k = "follow" /\ g = f) \/ work'[k][g] = work[k][g]
  BY <1>1 DEF ImpInv, WorkFits
<1>8. /\ ImportTypeOK' /\ WorkFits' /\ RanksFit' /\ ActiveIsHeld'
      /\ work["process"][f].status = "running"
  BY <1>1, <1>4, <1>5, <1>6, <1>7, ReadingAside
<1>9. work' = work /\ applied' = applied /\ \A g \in File : Charted(g)' <=> Charted(g)
  BY <1>1 DEF Charted
<1>10. OutcomesFit'
  BY <1>4, <1>5, <1>6, <1>9 DEF ImpInv, OutcomesFit, At, Loaded
<1>11. ProcessingFits'
  BY <1>1, <1>4, <1>5, <1>8, <1>9 DEF ImpInv, ProcessingFits, At
<1>12. LeftFits'
  BY <1>1, <1>4, <1>5 DEF ImpInv, LeftFits, At
<1>13. NewestFits'
  <2>1. \A g \in File : Waits(g) => Waits(g)'
    BY <1>1, <1>4, <1>9 DEF Waits, At
  <2>2. \A g \in File : batch'[g].status \in Loaded => batch[g].status \in Loaded
    BY <1>5 DEF Loaded
  <2> QED BY <1>1, <1>5, <1>9, <2>1, <2>2, NewestStays
<1> QED BY <1>6, <1>8, <1>10, <1>11, <1>12, <1>13 DEF ImpInv

\* What a reading stores.
LEMMA StoreRawStores ==
  ASSUME ImpInv, NEW f \in File, FindBatch(f), rawRow' = StoreRaw(f), batch' = batch
  PROVE  /\ rawRow' \in [Account -> Seq(RawRow)] /\ RowsFit' /\ Stored(f)'
         /\ \A g \in File : Stored(g) => Stored(g)'
<1>1. rawRow \in [Account -> Seq(RawRow)]
  BY ImportTypes DEF ImpInv
<1>2. ASSUME NEW a \in Account
      PROVE  /\ rawRow'[a] \in Seq(RawRow)
             /\ \A i \in 1..Len(rawRow[a]) : i \in 1..Len(rawRow'[a]) /\ rawRow'[a][i] = rawRow[a][i]
             /\ \A i \in 1..Len(rawRow'[a]) :
                  i \in 1..Len(rawRow[a]) \/ (rawRow'[a][i].file = f /\ a \in DOMAIN Chart[f])
             /\ a \in DOMAIN Chart[f] =>
                  \E i \in 1..Len(rawRow'[a]) : rawRow'[a][i].name = Chart[f][a]
  <2>1. rawRow[a] \in Seq(RawRow)
    BY <1>1
  <2>2. CASE a \in DOMAIN Chart[f] /\ (rawRow[a] = << >> \/ Last(rawRow[a]).name # Chart[f][a])
    <3>1. PICK r : r = [file |-> f, name |-> Chart[f][a]]
      OBVIOUS
    <3>2. r \in RawRow /\ r.file = f /\ r.name = Chart[f][a]
      BY <2>2, <3>1, ImportAssumption DEF RawRow
    <3>3. rawRow'[a] = Append(rawRow[a], r)
      BY <2>2, <3>1 DEF StoreRaw
    <3>4. /\ Append(rawRow[a], r) \in Seq(RawRow) /\ Len(Append(rawRow[a], r)) = Len(rawRow[a]) + 1
          /\ Append(rawRow[a], r)[Len(rawRow[a]) + 1] = r
          /\ \A i \in 1..Len(rawRow[a]) : Append(rawRow[a], r)[i] = rawRow[a][i]
          /\ Len(rawRow[a]) \in Nat
      BY <2>1, <3>2, AppendProperties
    <3> QED BY <2>2, <3>2, <3>3, <3>4
  <2>3. CASE ~(a \in DOMAIN Chart[f] /\ (rawRow[a] = << >> \/ Last(rawRow[a]).name # Chart[f][a]))
    <3>1. rawRow'[a] = rawRow[a]
      BY <2>3 DEF StoreRaw
    <3>2. a \in DOMAIN Chart[f] => rawRow[a] # << >> /\ Last(rawRow[a]).name = Chart[f][a]
      BY <2>3
    <3> QED BY <2>1, <3>1, <3>2, LastIsOne
  <2> QED BY <2>2, <2>3
<1>3. rawRow' \in [Account -> Seq(RawRow)]
  <2>1. rawRow' = [a \in Account |-> rawRow'[a]]
    BY DEF StoreRaw
  <2> QED BY <1>2, <2>1
<1>4. DOMAIN Chart[f] \subseteq Account /\ \A g \in File : DOMAIN Chart[g] \subseteq Account
  BY ImportAssumption
<1>5. \A g \in File : Stored(g) => Stored(g)'
  BY <1>2, <1>4 DEF Stored
<1>6. Stored(f)'
  BY <1>2, <1>4 DEF Stored
<1>7. RowsFit'
  <2>1. \A g \in File : FindBatch(g)' <=> FindBatch(g)
    BY DEF FindBatch
  <2>2. ASSUME NEW a \in Account, NEW i \in 1..Len(rawRow'[a])
        PROVE  batch'[rawRow'[a][i].file].status # "none" /\ a \in DOMAIN Chart[rawRow'[a][i].file]
    <3>1. CASE i \in 1..Len(rawRow[a])
      <4>1. rawRow'[a][i] = rawRow[a][i] /\ rawRow[a][i].file \in File
        BY <1>2, <3>1, RawsAreOfFiles DEF ImpInv
      <4>2. FindBatch(rawRow[a][i].file) /\ a \in DOMAIN Chart[rawRow[a][i].file]
        BY <3>1 DEF ImpInv, RowsFit
      <4> QED BY <4>1, <4>2 DEF FindBatch
    <3>2. CASE rawRow'[a][i].file = f /\ a \in DOMAIN Chart[f]
      BY <3>2 DEF FindBatch
    <3> QED BY <1>2, <3>1, <3>2
  <2> QED BY <2>2 DEF RowsFit, FindBatch
<1> QED BY <1>3, <1>5, <1>6, <1>7

LEMMA ReadFileKeeps == ASSUME ImpInv, NEW f \in File, Read(f) PROVE ImpInv'
<1>1. /\ worker.job = "process" /\ worker.file = f /\ worker.step = "read" /\ worker \in Hands
      /\ UNCHANGED <<object, upload, batch, work, account, applied>> /\ left' = left
      /\ batch \in [File -> BatchRow] /\ work \in WorkTable /\ left \subseteq File
  <2>1. worker.job = "process" /\ worker.file = f /\ worker.step = "read" /\ worker # AtRest
    BY RestIsIdle DEF Read
  <2> QED BY <2>1, InHands, ImportTypes DEF ImpInv, WorkFits, Read
<1>2. FindBatch(f)
  BY <1>1, InHands, RestIsIdle DEF ImpInv, WorkFits
<1>3. /\ worker' \in Hands /\ worker'.job = "process" /\ worker'.file = f
      /\ \/ worker'.step = "loaded" /\ Outcome[f] # "broken" /\ rawRow' = StoreRaw(f)
         \/ worker'.step = "broken" /\ Outcome[f] = "broken" /\ rawRow' = rawRow
         \/ worker'.step = "transient" /\ rawRow' = rawRow
  BY <1>1 DEF Read, Hands
<1>4. batch' = batch /\ work' = work /\ applied' = applied
      /\ \A g \in File : (Charted(g)' <=> Charted(g)) /\ (FindBatch(g)' <=> FindBatch(g))
  BY <1>1 DEF Charted, FindBatch
<1>5. /\ rawRow' \in [Account -> Seq(RawRow)] /\ RowsFit'
      /\ worker'.step = "loaded" => Stored(f)'
      /\ \A g \in File : Stored(g) => Stored(g)'
  <2>1. CASE worker'.step = "loaded" /\ rawRow' = StoreRaw(f)
    BY <1>2, <1>4, <2>1, StoreRawStores
  <2>2. CASE worker'.step # "loaded" /\ rawRow' = rawRow
    BY <1>4, <2>2, RowsAside
  <2> QED BY <1>3, <2>1, <2>2
<1>6. \A k \in WorkKind, g \in File :
            /\ work'[k][g].status = "queued" => work'[k][g].attempts < MaxTries
            /\ work'[k][g].status = "none" => work[k][g].status = "none"
            /\ (k = "follow" /\ g = f) \/ work'[k][g] = work[k][g]
  BY <1>4 DEF ImpInv, WorkFits
<1>7. /\ ImportTypeOK' /\ WorkFits' /\ RanksFit' /\ ActiveIsHeld'
      /\ work["process"][f].status = "running"
  BY <1>1, <1>3, <1>4, <1>5, <1>6, ReadingAside
<1>8. OutcomesFit'
  BY <1>3, <1>4, <1>5 DEF ImpInv, OutcomesFit, At
<1>9. ProcessingFits'
  BY <1>1, <1>3, <1>4, <1>7 DEF ImpInv, ProcessingFits, At
<1>10. LeftFits'
  BY <1>1, <1>3, <1>4 DEF ImpInv, LeftFits, At
<1>11. NewestFits'
  <2>1. \A g \in File : Waits(g) => Waits(g)'
    BY <1>1, <1>3, <1>4 DEF Waits, At
  <2> QED BY <1>1, <1>4, <2>1, NewestStays
<1> QED BY <1>5, <1>7, <1>8, <1>9, <1>10, <1>11 DEF ImpInv

\* The end a reading gives its batch.
LEMMA FinalFits ==
  ASSUME ImpInv, NEW f \in File, worker.job = "process", worker.file = f,
         worker.step \in {"loaded", "broken", "transient"}
  PROVE  /\ FinalStatus(f) \in End \cup {"received"}
         /\ FinalStatus(f) \in Loaded => Outcome[f] \in {"good", "mixed", "empty"} /\ Stored(f)
         /\ FinalStatus(f) = "failed" => Outcome[f] = "broken"
         /\ FinalStatus(f) = "nothing_loaded" => Outcome[f] = "unreadable"
         /\ AfterFinish \in {"permanent", "retry", "done"}
         /\ AfterFinish = "done" => FinalStatus(f) \in Loaded \cup {"nothing_loaded"}
<1>1. /\ worker.step = "loaded" => Stored(f) /\ Outcome[f] # "broken"
      /\ worker.step = "broken" => Outcome[f] = "broken"
  BY DEF ImpInv, OutcomesFit, At
<1>2. Outcome[f] \in {"good", "mixed", "empty", "unreadable", "broken"}
  BY ImportAssumption
<1>3. CASE worker.step = "broken"
  <2>1. FinalStatus(f) = "failed"
    BY <1>3 DEF FinalStatus
  <2>2. AfterFinish = "permanent"
    BY <1>3 DEF AfterFinish
  <2> QED BY <1>1, <1>3, <2>1, <2>2 DEF End, Loaded
<1>4. CASE worker.step = "transient"
  <2>1. FinalStatus(f) = "received"
    BY <1>4 DEF FinalStatus
  <2>2. AfterFinish = "retry"
    BY <1>4 DEF AfterFinish
  <2> QED BY <2>1, <2>2 DEF End, Loaded
<1>5. CASE worker.step = "loaded"
  <2>1. AfterFinish = "done"
    BY <1>5 DEF AfterFinish
  <2>2. CASE Outcome[f] = "unreadable"
    <3>1. FinalStatus(f) = "nothing_loaded"
      BY <1>5, <2>2 DEF FinalStatus
    <3> QED BY <2>1, <2>2, <3>1 DEF End, Loaded
  <2>3. CASE Outcome[f] = "mixed"
    <3>1. FinalStatus(f) = "loaded_with_issues"
      BY <1>5, <2>3 DEF FinalStatus
    <3> QED BY <1>1, <1>5, <2>1, <2>3, <3>1 DEF End, Loaded
  <2>4. CASE Outcome[f] \in {"good", "empty"}
    <3>1. FinalStatus(f) = "loaded"
      BY <1>5, <2>4 DEF FinalStatus
    <3> QED BY <1>1, <1>5, <2>1, <2>4, <3>1 DEF End, Loaded
  <2> QED BY <1>1, <1>2, <1>5, <2>2, <2>3, <2>4
<1> QED BY <1>3, <1>4, <1>5

LEMMA FinishKeeps == ASSUME ImpInv, NEW f \in File, Finish(f) PROVE ImpInv'
<1>1. /\ worker.job = "process" /\ worker.file = f
      /\ worker.step \in {"loaded", "broken", "transient"} /\ worker \in Hands
      /\ UNCHANGED <<object, upload, rawRow, account, applied>>
      /\ batch \in [File -> BatchRow] /\ work \in WorkTable /\ left \subseteq File
  <2>1. worker.job = "process" /\ worker.file = f /\ worker # AtRest
        /\ worker.step \in {"loaded", "broken", "transient"}
    BY RestIsIdle DEF Finish
  <2> QED BY <2>1, InHands, ImportTypes DEF ImpInv, WorkFits, Finish
<1>2. FindBatch(f) /\ work["process"][f].status = "running"
  BY <1>1, InHands, RestIsIdle DEF ImpInv, WorkFits
<1>3. PICK s : s = FinalStatus(f)
  OBVIOUS
<1>4. /\ s \in End \cup {"received"} /\ s # "processing"
      /\ s \in Loaded => Outcome[f] \in {"good", "mixed", "empty"} /\ Stored(f)
      /\ s = "failed" => Outcome[f] = "broken"
      /\ s = "nothing_loaded" => Outcome[f] = "unreadable"
      /\ AfterFinish \in {"permanent", "retry", "done"}
      /\ AfterFinish = "done" => s \in Loaded \cup {"nothing_loaded"}
  <2>1. s \in End \cup {"received"} => s # "processing"
    BY DEF End, Loaded
  <2> QED BY <1>1, <1>3, <2>1, FinalFits
<1>5. CASE /\ batch' = [batch EXCEPT ![f].status = s]
           /\ work' = IF s \in Loaded /\ DOMAIN Chart[f] # {}
                      THEN Enqueue(work, "follow", f) ELSE work
           /\ worker' = [worker EXCEPT !.step = AfterFinish]
           /\ left' = left
  <2>1. BatchWrites(f, s)
    BY <1>1, <1>2, <1>4, <1>5, BatchRowSet
  <2>2. /\ batch' \in [File -> BatchRow] /\ batch'[f].status = s
        /\ \A g \in File : batch'[g].at = batch[g].at /\ (FindBatch(g)' <=> FindBatch(g))
        /\ \A g \in File : g # f => batch'[g] = batch[g]
    BY <2>1 DEF BatchWrites
  <2>3. worker' \in Hands /\ worker'.job = "process" /\ worker'.file = f /\ worker'.step = AfterFinish
    BY <1>1, <1>4, <1>5 DEF Hands
  <2>4. /\ work' \in WorkTable
        /\ s \in Loaded /\ DOMAIN Chart[f] # {} => work'["follow"][f].status \in {"queued", "running"}
        /\ ~(s \in Loaded /\ DOMAIN Chart[f] # {}) => work' = work
        /\ \A k \in WorkKind, g \in File :
              /\ work'[k][g].status = "queued" => work'[k][g].attempts < MaxTries
              /\ work'[k][g].status = "none" => work[k][g].status = "none"
              /\ (k = "follow" /\ g = f) \/ work'[k][g] = work[k][g]
    <3>1. \A k \in WorkKind, g \in File : work[k][g].status = "queued" => work[k][g].attempts < MaxTries
      BY DEF ImpInv, WorkFits
    <3>2. CASE ~(s \in Loaded /\ DOMAIN Chart[f] # {})
      BY <1>1, <1>5, <3>1, <3>2
    <3>3. CASE s \in Loaded /\ DOMAIN Chart[f] # {}
      <4>1. work' = Enqueue(work, "follow", f)
        BY <1>5, <3>3
      <4>2. /\ work' \in WorkTable /\ work'["follow"][f].status \in {"queued", "running"}
            /\ work'["follow"][f] = work["follow"][f] \/ work'["follow"][f] = [status |-> "queued", attempts |-> 0]
            /\ \A k \in WorkKind, g \in File : k # "follow" \/ g # f => work'[k][g] = work[k][g]
        BY <1>1, <4>1, EnqueueSets DEF WorkKind
      <4>3. work'["follow"][f].status = "queued" => work'["follow"][f].attempts < MaxTries
        BY <3>1, <4>2, ImportAssumption DEF WorkKind
      <4> QED BY <3>1, <3>3, <4>2, <4>3
    <3> QED BY <3>2, <3>3
  <2>5. /\ rawRow' \in [Account -> Seq(RawRow)] /\ RowsFit'
        /\ \A g \in File : Stored(g)' <=> Stored(g)
    BY <1>1, <2>2, RowsAside
  <2>6. /\ ImportTypeOK' /\ WorkFits' /\ RanksFit' /\ ActiveIsHeld'
        /\ work'["process"][f].status = "running"
    BY <1>1, <1>5, <2>2, <2>3, <2>4, <2>5, ReadingAside
  <2>7. /\ \A g \in File : Charted(g) => Charted(g)'
        /\ \A g \in File : g # f => (Charted(g)' <=> Charted(g)) /\ work'["process"][g] = work["process"][g]
                                    /\ work'["follow"][g] = work["follow"][g]
        /\ ~(s \in Loaded /\ DOMAIN Chart[f] # {}) => (Charted(f)' <=> Charted(f))
        /\ s \in Loaded /\ DOMAIN Chart[f] # {} =>
             Charted(f)' /\ Outcome[f] \in {"good", "mixed"}
    BY <1>4, <2>4, ImportAssumption DEF Charted, WorkKind
  <2>8. OutcomesFit'
    BY <1>1, <1>4, <2>2, <2>3, <2>5, <2>7 DEF ImpInv, OutcomesFit, At
  <2>9. ProcessingFits'
    BY <1>1, <1>4, <2>2, <2>3, <2>6, <2>7 DEF ImpInv, ProcessingFits, At
  <2>10. LeftFits'
    BY <1>1, <1>4, <1>5, <2>2, <2>3 DEF ImpInv, LeftFits, At
  <2>11. NewestFits'
    <3>1. \A g \in File : Waits(g) => Waits(g)'
      BY <1>1, <2>3, <2>4, <2>7 DEF Waits, At
    <3>2. ASSUME NEW g \in File, batch'[g].status \in Loaded, DOMAIN Chart[g] # {}
          PROVE  batch[g].status \in Loaded \/ Waits(g)'
      BY <2>2, <2>3, <2>4, <3>2 DEF Waits, At
    <3> QED BY <1>1, <1>5, <2>2, <3>1, <3>2, NewestStays
  <2> QED BY <2>5, <2>6, <2>8, <2>9, <2>10, <2>11 DEF ImpInv
<1>6. CASE left' = left \cup {f} /\ worker' = [worker EXCEPT !.step = "retry"] /\ UNCHANGED <<batch, work>>
  <2>1. worker' \in Hands /\ worker'.job = "process" /\ worker'.file = f /\ worker'.step = "retry"
    BY <1>1, <1>6 DEF Hands
  <2>2. batch' = batch /\ work' = work /\ applied' = applied
        /\ \A g \in File : (Charted(g)' <=> Charted(g)) /\ (FindBatch(g)' <=> FindBatch(g))
    BY <1>1, <1>6 DEF Charted, FindBatch
  <2>3. /\ rawRow' \in [Account -> Seq(RawRow)] /\ RowsFit'
        /\ \A g \in File : Stored(g)' <=> Stored(g)
    BY <1>1, <2>2, RowsAside
  <2>4. \A k \in WorkKind, g \in File :
            /\ work'[k][g].status = "queued" => work'[k][g].attempts < MaxTries
            /\ work'[k][g].status = "none" => work[k][g].status = "none"
            /\ (k = "follow" /\ g = f) \/ work'[k][g] = work[k][g]
    BY <2>2 DEF ImpInv, WorkFits
  <2>5. /\ ImportTypeOK' /\ WorkFits' /\ RanksFit' /\ ActiveIsHeld'
        /\ work["process"][f].status = "running"
    BY <1>1, <1>6, <2>1, <2>2, <2>3, <2>4, ReadingAside
  <2>6. OutcomesFit'
    BY <2>1, <2>2, <2>3 DEF ImpInv, OutcomesFit, At
  <2>7. ProcessingFits'
    BY <1>1, <2>1, <2>2, <2>5 DEF ImpInv, ProcessingFits, At
  <2>8. LeftFits'
    BY <1>1, <1>6, <2>2 DEF ImpInv, LeftFits, At
  <2>9. NewestFits'
    <3>1. \A g \in File : Waits(g) => Waits(g)'
      BY <1>1, <2>1, <2>2 DEF Waits, At
    <3> QED BY <1>6, <2>2, <3>1, NewestStays
  <2> QED BY <2>3, <2>5, <2>6, <2>7, <2>8, <2>9 DEF ImpInv
<1> QED BY <1>3, <1>5, <1>6 DEF Finish

-----------------------------------------------------------------------------
(* The chart. *)

LEMMA LoadedIsRead ==
  ASSUME ImpInv, NEW f \in File, batch[f].status \in Loaded
  PROVE  Outcome[f] \in {"good", "mixed", "empty"}
BY DEF ImpInv, OutcomesFit

LEMMA ChartTyped ==
  ASSUME ImportTypeOK, NEW f \in File
  PROVE  /\ NormalizeChart(f) \in [Account -> AccountRow \cup {None}]
         /\ \A a \in Account : NormalizeChart(f)[a] # None /\ ~NormalizeChart(f)[a].active =>
              a \notin DOMAIN Chart[f] \/ NormalizeChart(f)[a] = account[a]
         /\ \A a \in Account : NormalizeChart(f)[a] # None /\ NormalizeChart(f)[a].active =>
              \/ \E i \in 1..Len(rawRow[a]) : rawRow[a][i].file = f
              \/ a \in DOMAIN Chart[f] \/ DOMAIN Chart[f] = {}
<1>1. account \in [Account -> AccountRow \cup {None}]
  BY ImportTypes
<1>2. ASSUME NEW a \in Account
      PROVE  /\ NormalizeChart(f)[a] \in AccountRow \cup {None}
             /\ NormalizeChart(f)[a] # None /\ ~NormalizeChart(f)[a].active =>
                  a \notin DOMAIN Chart[f] \/ NormalizeChart(f)[a] = account[a]
             /\ NormalizeChart(f)[a] # None /\ NormalizeChart(f)[a].active =>
                  \/ \E i \in 1..Len(rawRow[a]) : rawRow[a][i].file = f
                  \/ a \in DOMAIN Chart[f] \/ DOMAIN Chart[f] = {}
  <2> DEFINE rows == {i \in DOMAIN rawRow[a] : rawRow[a][i].file = f}
  <2>1. CASE rows # {}
    <3>1. rawRow[a] \in Seq(RawRow)
      BY ImportTypes
    <3>2. Len(rawRow[a]) \in Nat /\ DOMAIN rawRow[a] = 1..Len(rawRow[a])
      BY <3>1
    <3>3. rows \subseteq 0..Len(rawRow[a]) /\ rows \subseteq 1..Len(rawRow[a])
      BY <3>2
    <3>8. \E i \in 1..Len(rawRow[a]) : rawRow[a][i].file = f
      BY <2>1, <3>3
    <3> HIDE DEF rows
    <3>4. Max(rows) \in rows
      BY <2>1, <3>2, <3>3, GreatestOfSome
    <3>5. rawRow[a][Max(rows)].name \in Name
      BY <3>3, <3>4, RawsAreOfFiles
    <3>6. NormalizeChart(f)[a] = [name |-> rawRow[a][Max(rows)].name, active |-> TRUE]
      BY <2>1 DEF NormalizeChart, rows
    <3>7. [name |-> rawRow[a][Max(rows)].name, active |-> TRUE] \in AccountRow
      BY <3>5 DEF AccountRow
    <3> QED BY <3>6, <3>7, <3>8
  <2>2. CASE rows = {} /\ account[a] # None /\ DOMAIN Chart[f] # {} /\ a \notin DOMAIN Chart[f]
    <3>1. PICK q : q = account[a]
      OBVIOUS
    <3>2. q \in AccountRow
      BY <1>1, <2>2, <3>1
    <3>3. NormalizeChart(f)[a] = [q EXCEPT !.active = FALSE]
      BY <2>2, <3>1 DEF NormalizeChart
    <3>4. [q EXCEPT !.active = FALSE] \in AccountRow
      BY <3>2 DEF AccountRow
    <3> QED BY <2>2, <3>3, <3>4
  <2>3. CASE rows = {} /\ ~(account[a] # None /\ DOMAIN Chart[f] # {} /\ a \notin DOMAIN Chart[f])
    <3>1. NormalizeChart(f)[a] = account[a]
      BY <2>3 DEF NormalizeChart
    <3>2. account[a] # None => a \in DOMAIN Chart[f] \/ DOMAIN Chart[f] = {}
      BY <2>3
    <3>3. account[a] \in AccountRow \cup {None}
      BY <1>1
    <3> HIDE DEF rows
    <3> QED BY <3>1, <3>2, <3>3
  <2> QED BY <2>1, <2>2, <2>3
<1>3. NormalizeChart(f) = [a \in Account |-> NormalizeChart(f)[a]]
  BY DEF NormalizeChart
<1> QED BY <1>2, <1>3

\* What applying a chart does to the rows.
LEMMA ApplyWrites ==
  ASSUME ImpInv, NEW f \in File, Apply(f)
  PROVE  /\ worker.job = "follow" /\ worker.file = f /\ worker.step = "apply" /\ worker # AtRest
         /\ UNCHANGED <<object, upload, work, rawRow>> /\ left' = left
         /\ worker' \in Hands /\ worker'.job = "follow" /\ worker'.file = f
         /\ worker'.step \in {"done", "retry"}
         /\ batch' \in [File -> BatchRow]
         /\ \A g \in File : batch'[g].status = batch[g].status /\ batch'[g].at = batch[g].at
         /\ \/ /\ IsNewestChartBatch(f) /\ applied' = Append(applied, f)
               /\ account' = NormalizeChart(f)
            \/ /\ applied' = applied /\ account' = account
               /\ worker'.step = "retry" \/ ~IsNewestChartBatch(f)
<1>1. /\ worker.job = "follow" /\ worker.file = f /\ worker.step = "apply" /\ worker # AtRest
      /\ UNCHANGED <<object, upload, work, rawRow>> /\ left' = left
  BY RestIsIdle DEF Apply
<1>2. worker \in Hands /\ batch \in [File -> BatchRow]
  BY <1>1, InHands, ImportTypes DEF ImpInv
<1>3. /\ worker' = [worker EXCEPT !.step = "done"] \/ worker' = [worker EXCEPT !.step = "retry"]
      /\ \/ batch' = batch
         \/ batch' = [batch EXCEPT ![f].outcome = "applied"]
         \/ batch' = [batch EXCEPT ![f].outcome = "superseded"]
  BY DEF Apply
<1>4. worker' \in Hands /\ worker'.job = "follow" /\ worker'.file = f /\ worker'.step \in {"done", "retry"}
  BY <1>1, <1>2, <1>3 DEF Hands
<1>5. ASSUME NEW o \in {"applied", "superseded"}, batch' = [batch EXCEPT ![f].outcome = o]
      PROVE  /\ batch' \in [File -> BatchRow]
             /\ \A g \in File : batch'[g].status = batch[g].status /\ batch'[g].at = batch[g].at
  <2>1. PICK q : q = batch[f]
    OBVIOUS
  <2>2. PICK r : r = [q EXCEPT !.outcome = o]
    OBVIOUS
  <2>3. r \in BatchRow /\ r.status = q.status /\ r.at = q.at
    BY <1>2, <2>1, <2>2 DEF BatchRow
  <2>4. batch' = [batch EXCEPT ![f] = r]
    BY <1>2, <1>5, <2>1, <2>2
  <2> QED BY <1>2, <2>1, <2>3, <2>4
<1>6. batch' \in [File -> BatchRow]
      /\ \A g \in File : batch'[g].status = batch[g].status /\ batch'[g].at = batch[g].at
  BY <1>2, <1>3, <1>5
<1>7. \/ /\ IsNewestChartBatch(f) /\ applied' = Append(applied, f)
         /\ account' = NormalizeChart(f)
      \/ /\ applied' = applied /\ account' = account
         /\ worker'.step = "retry" \/ ~IsNewestChartBatch(f)
  BY <1>2, <1>4 DEF Apply, Hands
<1> QED BY <1>1, <1>4, <1>6, <1>7

LEMMA ApplyKeeps == ASSUME ImpInv, NEW f \in File, Apply(f) PROVE ImpInv'
<1>1. /\ worker.job = "follow" /\ worker.file = f /\ worker.step = "apply" /\ worker # AtRest
      /\ object' = object /\ upload' = upload /\ work' = work /\ rawRow' = rawRow /\ left' = left
      /\ worker' \in Hands /\ worker'.job = "follow" /\ worker'.file = f
      /\ worker'.step \in {"done", "retry"}
      /\ batch' \in [File -> BatchRow]
      /\ \A g \in File : batch'[g].status = batch[g].status /\ batch'[g].at = batch[g].at
  BY ApplyWrites
<1>2. \/ /\ IsNewestChartBatch(f) /\ applied' = Append(applied, f)
         /\ account' = NormalizeChart(f)
      \/ /\ applied' = applied /\ account' = account
         /\ worker'.step = "retry" \/ ~IsNewestChartBatch(f)
  BY ApplyWrites
<1>3. /\ \A g \in File : (Charted(g)' <=> Charted(g)) /\ (FindBatch(g)' <=> FindBatch(g))
      /\ work["follow"][f].status = "running" /\ Charted(f) /\ FindBatch(f)
  <2>1. work["follow"][f].status = "running"
    BY <1>1, InHands DEF ImpInv
  <2> QED BY <1>1, <2>1 DEF Charted, FindBatch, ImpInv, WorkFits
<1>4. /\ rawRow' \in [Account -> Seq(RawRow)] /\ RowsFit'
      /\ \A g \in File : Stored(g)' <=> Stored(g)
  BY <1>1, <1>3, RowsAside
<1>5. /\ applied' \in Seq(File) /\ \A i \in 1..Len(applied) : i \in 1..Len(applied') /\ applied'[i] = applied[i]
      /\ \A i \in 1..Len(applied') : applied'[i] = f \/ (i \in 1..Len(applied) /\ applied'[i] = applied[i])
      /\ applied' = Append(applied, f) =>
           applied' # << >> /\ Last(applied') = f /\ Len(applied') \in 1..Len(applied') /\ applied'[Len(applied')] = f
  <2>1. applied \in Seq(File)
    BY DEF ImpInv, WorkFits
  <2>2. CASE applied' = Append(applied, f)
    <3>1. /\ applied' \in Seq(File) /\ Len(applied') = Len(applied) + 1 /\ applied'[Len(applied) + 1] = f
          /\ \A i \in 1..Len(applied) : applied'[i] = applied[i]
          /\ Len(applied) \in Nat /\ applied' # << >>
      BY <2>1, <2>2, AppendProperties
    <3>2. Last(applied') = f
      BY <3>1 DEF Last
    <3> QED BY <3>1, <3>2
  <2>3. CASE applied' = applied
    BY <2>1, <2>3, LastIsOne
  <2> QED BY <1>2, <2>1, <2>2, <2>3
<1>6. ImportTypeOK'
  <2>1. account' \in [Account -> AccountRow \cup {None}]
    BY <1>2, ChartTyped, ImportTypes DEF ImpInv
  <2> QED BY <1>1, <1>4, <2>1, ImportTypes, ImportTypesNext DEF ImpInv
<1>7. WorkFits'
  <2>1. \A i \in 1..Len(applied') : batch'[applied'[i]].status # "none"
    BY <1>3, <1>5, AppliedAreFiles DEF ImpInv, FindBatch
  <2>2. work'[worker'.job][worker'.file].status = "running"
    BY <1>1, <1>3
  <2> QED BY <1>1, <1>3, <1>5, <2>1, <2>2 DEF ImpInv, WorkFits, FindBatch
<1>8. RanksFit'
  <2>1. Known' = Known
    BY <1>3 DEF Known
  <2> QED BY <1>1, <2>1 DEF ImpInv, RanksFit, Known
<1>9. OutcomesFit' /\ ProcessingFits' /\ LeftFits'
  BY <1>1, <1>3, <1>4 DEF ImpInv, OutcomesFit, ProcessingFits, LeftFits, At
<1>10. ActiveIsHeld'
  <2>1. DOMAIN Chart[f] # {}
    BY <1>3, ImportAssumption DEF ImpInv, OutcomesFit
  <2>2. CASE applied' = Append(applied, f) /\ account' = NormalizeChart(f)
    <3>1. ASSUME NEW a \in Account, account'[a] # None, ~account'[a].active
          PROVE  \E i \in 1..Len(applied') : a \notin DOMAIN Chart[applied'[i]]
      <4>1. CASE account'[a] = account[a]
        <5>1. \E i \in 1..Len(applied) : a \notin DOMAIN Chart[applied[i]]
          BY <3>1, <4>1 DEF ImpInv, ActiveIsHeld
        <5> QED BY <1>5, <5>1
      <4>2. CASE a \notin DOMAIN Chart[f]
        BY <1>5, <2>2, <4>2
      <4> QED BY <2>2, <3>1, <4>1, <4>2, ChartTyped DEF ImpInv
    <3>2. ASSUME NEW a \in Account, account'[a] # None, account'[a].active
          PROVE  a \in DOMAIN Chart[f]
      <4>1. \/ \E i \in 1..Len(rawRow[a]) : rawRow[a][i].file = f
            \/ a \in DOMAIN Chart[f]
        BY <2>1, <2>2, <3>2, ChartTyped DEF ImpInv
      <4> QED BY <4>1 DEF ImpInv, RowsFit
    <3> QED BY <1>5, <2>2, <3>1, <3>2 DEF ActiveIsHeld
  <2>3. CASE applied' = applied /\ account' = account
    BY <2>3 DEF ImpInv, ActiveIsHeld
  <2> QED BY <1>2, <2>2, <2>3
<1>11. NewestFits'
  <2>1. \A g \in File : g # f => (Waits(g)' <=> Waits(g))
    BY <1>1 DEF Waits, At
  <2>2. worker'.step = "retry" => Waits(f)'
    BY <1>1, <1>3 DEF Waits, At
  <2>3. \A g \in File : batch'[g].at \in Nat /\ batch[g].at \in Nat
    BY <1>1, ImportTypes DEF ImpInv, BatchRow
  <2>4. CASE IsNewestChartBatch(f) /\ applied' = Append(applied, f)
    <3>1. \A g \in File : batch[g].status \in Loaded => batch[g].at <= batch[f].at
      BY <2>4 DEF IsNewestChartBatch
    <3>2. \A g \in File : batch'[g].status \in Loaded => AppliedSince(g)'
      BY <1>1, <1>5, <2>3, <2>4, <3>1 DEF AppliedSince
    <3> QED BY <3>2 DEF NewestFits
  <2>5. CASE applied' = applied /\ worker'.step = "retry"
    BY <1>1, <1>3, <2>1, <2>2, <2>5, NewestStays
  <2>6. CASE applied' = applied /\ ~IsNewestChartBatch(f)
    <3>1. PICK h \in File : batch[h].status \in Loaded \cup {"processing"} /\ ~(batch[h].at <= batch[f].at)
      BY <2>6 DEF IsNewestChartBatch
    <3>2. FindBatch(h) /\ batch[h].at > batch[f].at /\ h # f
      BY <2>3, <3>1 DEF FindBatch, Loaded
    <3>3. \/ h \in left \/ Outcome[h] = "empty" \/ Waits(h)
          \/ AppliedSince(h) \/ Before(h)
      <4>1. CASE batch[h].status = "processing"
        BY <1>1, <4>1 DEF ImpInv, LeftFits, At
      <4>2. CASE batch[h].status \in Loaded /\ DOMAIN Chart[h] # {}
        BY <4>2 DEF ImpInv, NewestFits
      <4>3. CASE batch[h].status \in Loaded /\ DOMAIN Chart[h] = {}
        <5>1. Outcome[h] \in {"empty", "unreadable", "broken"}
          BY <4>3, ImportAssumption
        <5> QED BY <4>3, <5>1, LoadedIsRead
      <4> QED BY <3>1, <4>1, <4>2, <4>3
    <3>4. \/ applied # << >> /\ batch[Last(applied)].at > batch[f].at /\ Last(applied) \in File
          \/ \E g \in File : /\ FindBatch(g) /\ batch[g].at > batch[f].at /\ g # f
                             /\ (g \in left \/ Outcome[g] = "empty" \/ Waits(g))
      <4>1. CASE AppliedSince(h)
        <5>1. applied # << >> /\ Last(applied) \in File
          BY <4>1, LastIsOne DEF AppliedSince, ImpInv, WorkFits
        <5> QED BY <2>3, <3>2, <4>1, <5>1 DEF AppliedSince
      <4>2. CASE Before(h)
        BY <2>3, <3>2, <4>2 DEF Before
      <4>3. CASE h \in left \/ Outcome[h] = "empty" \/ Waits(h)
        BY <3>2, <4>3
      <4> QED BY <3>3, <4>1, <4>2, <4>3
    <3>5. AppliedSince(f)' \/ Before(f)'
      BY <1>1, <1>3, <2>1, <2>3, <2>6, <3>4 DEF AppliedSince, Before
    <3>6. ASSUME NEW g \in File, g # f, batch'[g].status \in Loaded, DOMAIN Chart[g] # {}
          PROVE  Waits(g)' \/ AppliedSince(g)' \/ Before(g)'
      <4>1. Waits(g) \/ AppliedSince(g) \/ Before(g)
        BY <1>1, <3>6 DEF ImpInv, NewestFits
      <4>2. CASE AppliedSince(g)
        <5>1. applied # << >> /\ Last(applied) \in File
          BY <4>2, LastIsOne DEF AppliedSince, ImpInv, WorkFits
        <5> QED BY <1>1, <2>6, <4>2, <5>1 DEF AppliedSince
      <4>3. CASE Before(g)
        <5>1. PICK k \in File : /\ FindBatch(k) /\ batch[k].at > batch[g].at
                               /\ (k \in left \/ Outcome[k] = "empty" \/ Waits(k))
          BY <4>3 DEF Before
        <5>2. CASE k # f
          BY <1>1, <1>3, <2>1, <5>1, <5>2 DEF Before
        <5>3. CASE k = f
          BY <1>1, <1>3, <2>1, <2>3, <2>6, <3>4, <5>1, <5>3 DEF AppliedSince, Before
        <5> QED BY <5>2, <5>3
      <4> QED BY <2>1, <3>6, <4>1, <4>2, <4>3
    <3> QED BY <3>5, <3>6 DEF NewestFits
  <2> QED BY <1>2, <2>4, <2>5, <2>6
<1> QED BY <1>4, <1>6, <1>7, <1>8, <1>9, <1>10, <1>11 DEF ImpInv

-----------------------------------------------------------------------------
(* Every step, and what follows. *)

LEMMA ImportStart == ImportInit => ImpInv
<1> SUFFICES ASSUME ImportInit PROVE ImpInv
  OBVIOUS
<1>1. /\ batch = [f \in File |-> [status |-> "none", at |-> 0, outcome |-> None]]
      /\ work = [j \in WorkKind |-> [f \in File |-> NoWork]]
      /\ rawRow = [a \in Account |-> << >>] /\ account = [a \in Account |-> None]
      /\ upload = [u \in Uploader |-> None] /\ object = {}
      /\ worker = AtRest /\ applied = << >> /\ left = {}
  BY DEF ImportInit
<1>2. /\ \A f \in File : batch[f].status = "none" /\ ~FindBatch(f)
      /\ \A j \in WorkKind, f \in File : work[j][f] = NoWork /\ work[j][f].status = "none"
      /\ "process" \in WorkKind /\ "follow" \in WorkKind
  BY <1>1 DEF FindBatch, NoWork, WorkKind
<1>3. \A f \in File : ~Charted(f) /\ ~At("process", f, {"done"})
                      /\ ~At("process", f, {"loaded"}) /\ ~At("process", f, {"broken"})
  BY <1>1, <1>2 DEF Charted, At, AtRest
<1>4. ImportTypeOK
  <2>1. NoWork \in WorkRow
    BY ImportAssumption DEF NoWork, WorkRow
  <2>2. [status |-> "none", at |-> 0, outcome |-> None] \in BatchRow
    BY DEF BatchRow
  <2> QED BY <1>1, <2>1, <2>2, ImportTypes DEF WorkTable
<1>5. WorkFits
  <2>1. /\ applied \in Seq(File) /\ \A i \in 1..Len(applied) : FindBatch(applied[i])
        /\ worker \in Hands \cup {AtRest} /\ left \subseteq File
    <3>1. applied \in Seq(File)
      BY <1>1
    <3>2. Len(applied) = 0
      BY <1>1
    <3>3. \A i \in 1..Len(applied) : FALSE
      BY <3>2
    <3>4. worker \in Hands \cup {AtRest}
      BY <1>1
    <3>5. left \subseteq File
      BY <1>1
    <3> QED BY <3>1, <3>3, <3>4, <3>5
  <2>2. \A u \in Uploader : upload[u] = None
    BY <1>1
  <2>3. \A j \in WorkKind, f \in File : work[j][f].status # "queued"
    BY <1>2
  <2> QED BY <1>1, <1>2, <1>3, <2>1, <2>2, <2>3 DEF WorkFits
<1>6. RanksFit
  <2>1. Known = {}
    BY <1>2 DEF Known
  <2> QED BY <2>1, FS_EmptySet DEF RanksFit
<1>7. RowsFit /\ ActiveIsHeld
  BY <1>1 DEF RowsFit, ActiveIsHeld
<1>8. OutcomesFit
  BY <1>2, <1>3 DEF OutcomesFit, Loaded
<1>9. ProcessingFits /\ LeftFits /\ NewestFits
  BY <1>2, <1>3 DEF ProcessingFits, LeftFits, NewestFits, Loaded
<1> QED BY <1>4, <1>5, <1>6, <1>7, <1>8, <1>9 DEF ImpInv

LEMMA ImportStep == ImpInv /\ [ImportNext]_impVars => ImpInv'
<1> SUFFICES ASSUME ImpInv, [ImportNext]_impVars PROVE ImpInv'
  OBVIOUS
<1>1. CASE UNCHANGED impVars
  <2>1. UNCHANGED <<object, upload, batch, work, rawRow, account, worker, applied, left>>
    BY <1>1 DEF impVars
  <2> QED BY <2>1, UploadsAside, ImportTypes DEF ImpInv, WorkFits
<1>2. ASSUME NEW u \in Uploader, NEW f \in File, PutObject(u, f) PROVE ImpInv'
  BY <1>2, PutObjectKeeps
<1>3. ASSUME NEW u \in Uploader, InsertBatch(u) \/ LoseUpload(u) PROVE ImpInv'
  BY <1>3, InsertBatchKeeps, LoseUploadKeeps
<1>4. CASE Work
  <2>1. CASE Settle
    BY <2>1, SettleKeeps
  <2>2. ASSUME NEW f \in File, StartReading(f) \/ Read(f) \/ Finish(f) \/ Apply(f) PROVE ImpInv'
    BY <2>2, StartReadingKeeps, ReadFileKeeps, FinishKeeps, ApplyKeeps
  <2>3. ASSUME NEW j \in WorkKind, NEW f \in File, ClaimWork(j, f) \/ LeaseEnds(j, f) PROVE ImpInv'
    BY <2>3, ClaimWorkKeeps, LeaseEndsKeeps
  <2> QED BY <1>4, <2>1, <2>2, <2>3 DEF Work
<1>5. CASE WorkerDies
  BY <1>5, WorkerDiesKeeps
<1> QED BY <1>1, <1>2, <1>3, <1>4, <1>5 DEF ImportNext

LEMMA ImpInvAgrees == ImpInv => ImportsAgree
<1> SUFFICES ASSUME ImpInv PROVE ImportsAgree
  OBVIOUS
<1>1. RowAfterObject
  BY DEF ImpInv, RanksFit, Known, RowAfterObject
<1>2. WholeFile
  <2> SUFFICES ASSUME NEW f \in File
               PROVE  /\ batch[f].status \in Loaded => (DOMAIN Chart[f] # {} => Charted(f)) /\ Stored(f)
                      /\ batch[f].status \in {"none", "failed", "nothing_loaded"} =>
                           \A a \in Account : \A i \in 1..Len(rawRow[a]) : rawRow[a][i].file # f
    BY DEF WholeFile, Charted, Stored
  <2>1. batch[f].status \in Loaded => (DOMAIN Chart[f] # {} => Charted(f)) /\ Stored(f)
    BY DEF ImpInv, OutcomesFit
  <2>2. ASSUME batch[f].status \in {"none", "failed", "nothing_loaded"},
               NEW a \in Account, NEW i \in 1..Len(rawRow[a]), rawRow[a][i].file = f
        PROVE  FALSE
    <3>1. FindBatch(f) /\ DOMAIN Chart[f] # {}
      BY <2>2 DEF ImpInv, RowsFit
    <3>2. batch[f].status \in {"failed", "nothing_loaded"}
      BY <2>2, <3>1 DEF FindBatch
    <3>3. Outcome[f] \in {"unreadable", "broken"}
      BY <3>2 DEF ImpInv, OutcomesFit
    <3> QED BY <3>1, <3>3, ImportAssumption
  <2> QED BY <2>1, <2>2
<1>3. NoneLeftProcessing
  BY DEF ImpInv, ProcessingFits, NoneLeftProcessing, Quiet, WorkKind
<1> QED BY <1>1, <1>2, <1>3 DEF ImpInv, ImportsAgree

\* Of the batches that would show a chart to be neither applied nor excused, take the
\* newest: nothing is left that could stand before it.
LEMMA ImpInvNewest == ImpInv => NewestChartApplied
<1> SUFFICES ASSUME ImpInv PROVE NewestChartApplied
  OBVIOUS
<1>0. \A f \in File : AppliedSince(f) => applied # << >> /\ batch[f].at <= batch[Last(applied)].at
  <2>1. applied # << >> => Last(applied) \in File
    BY LastIsOne DEF ImpInv, WorkFits
  <2>2. \A g \in File : batch[g].at \in Nat
    BY ImportTypes DEF ImpInv, BatchRow
  <2> QED BY <2>1, <2>2 DEF AppliedSince
<1> SUFFICES ASSUME Quiet,
                    NEW l \in File, batch[l].status \in Loaded, DOMAIN Chart[l] # {},
                    work["follow"][l].status # "failed", ~AppliedSince(l),
                    \A g \in File : FindBatch(g) /\ batch[g].at > batch[l].at => ~StandsInTheWay(g)
             PROVE  FALSE
  BY <1>0 DEF NewestChartApplied
<1>1. /\ \A f \in File : Waits(f) => work["follow"][f].status = "failed"
      /\ \A f \in File : batch[f].at \in Nat
  BY ImportTypes DEF ImpInv, Quiet, WorkKind, Waits, BatchRow
<1>2. PICK n \in Nat : n = Cardinality(Known)
  BY FS_CardinalityType DEF ImpInv, RanksFit
<1>3. \A f \in File : FindBatch(f) => batch[f].at \in 1..n
  BY <1>2 DEF ImpInv, RanksFit, Known
<1> DEFINE Kept(f) == /\ batch[f].status \in Loaded /\ DOMAIN Chart[f] # {}
                      /\ batch[f].at >= batch[l].at /\ work["follow"][f].status # "failed"
<1>4. PICK m \in File : Kept(m) /\ \A g \in File : Kept(g) => batch[g].at <= batch[m].at
  <2>1. PICK S : S = {batch[f].at : f \in {g \in File : Kept(g)}}
    OBVIOUS
  <2>2. S \subseteq 0..n
    BY <1>3, <2>1 DEF FindBatch, Loaded
  <2>3. Kept(l) /\ batch[l].at \in S
    BY <1>1, <2>1
  <2>4. Max(S) \in S /\ \A y \in S : y <= Max(S)
    BY <1>2, <2>2, <2>3, GreatestOfSome
  <2>5. PICK m \in File : Kept(m) /\ batch[m].at = Max(S)
    BY <2>1, <2>4
  <2>6. \A g \in File : Kept(g) => batch[g].at \in S
    BY <2>1
  <2> QED BY <2>4, <2>5, <2>6
<1>5. ~AppliedSince(m)
  <2>1. ASSUME AppliedSince(m) PROVE FALSE
    <3>1. applied # << >> /\ Last(applied) \in File
      BY <2>1, LastIsOne DEF AppliedSince, ImpInv, WorkFits
    <3> QED BY <1>1, <1>4, <2>1, <3>1 DEF AppliedSince
  <2> QED BY <2>1
<1>6. Before(m)
  BY <1>1, <1>4, <1>5 DEF ImpInv, NewestFits
<1>7. PICK g \in File : /\ FindBatch(g) /\ batch[g].at > batch[m].at
                       /\ (g \in left \/ Outcome[g] = "empty" \/ Waits(g))
  BY <1>6 DEF Before
<1>8. ~StandsInTheWay(g) /\ batch[g].at >= batch[l].at
  BY <1>1, <1>4, <1>7
<1>9. batch[g].status \in Loaded /\ Outcome[g] # "empty" /\ work["follow"][g].status # "failed"
  BY <1>1, <1>7, <1>8 DEF StandsInTheWay
<1>10. DOMAIN Chart[g] # {}
  BY <1>9, LoadedIsRead, ImportAssumption
<1>11. Kept(g)
  BY <1>8, <1>9, <1>10
<1> QED BY <1>1, <1>4, <1>7, <1>11

\* Whatever uploads overlap and wherever a request or the worker fails, the rows of a
\* batch, its object, its raw records and the accounts agree: a file is stored whole or
\* not at all and a file with a row has its follow-up, none is left being read while a
\* try is left, an account is active only when the chart applied last holds it and
\* inactive only when an applied chart lacks it (imports.py, process_batch_now;
\* config/chart.py).
THEOREM ImportsKeepAgreeing == ImportSpec => []ImportsAgree
<1> QED BY ImportStart, ImportStep, ImpInvAgrees, PTL DEF ImportSpec

\* In whatever order the follow-ups run, no loaded chart is newer than the one applied
\* last when all is quiet, save where StandsInTheWay names a batch: a newer file
\* without a row, one left being read and then not loaded, a follow-up out of attempts
\* (config/chart.py, _is_newest_chart_batch).
THEOREM NewestChartIsApplied == ImportSpec => []NewestChartApplied
<1> QED BY ImportStart, ImportStep, ImpInvNewest, PTL DEF ImportSpec
================================================================================
