----------------------------- MODULE Checklist -----------------------------
(***************************************************************************)
(* The home page: what a company's people are told to do next              *)
(* (domain/home/checklist.py, domain/home/service.py), and a person who    *)
(* does what it says on the page it links to.  A line or a need is its     *)
(* code and the page its link opens; sentences are left out, and a count   *)
(* is kept where it decides which rule applies.                            *)
(***************************************************************************)
EXTENDS Naturals, FiniteSets, Sequences

CONSTANTS Ledger,        \* accounts the company's charts name
          Crew,          \* its divisions
          MaxSurprises   \* events that undo a finished line, at most

VARIABLES
    facts,      \* what setup_facts reads
    jobFacts,   \* what job_facts reads of one job, and its estimate
    surprises

homeVars == <<facts, jobFacts, surprises>>

Everyone == "everyone"   \* a burden rate without a division

\* history_start, timezone and change_order_evidence, wip_basis, and the two
\* keys that name QuickBooks items.
REQUIRED_POLICY_KEYS == {"history", "plain", "basis", "items"}
Undecided(f) == REQUIRED_POLICY_KEYS \ f.decided

\* run: the backfill's sync_run that is open, and whether all its pages can still come
\* ("stuck": one was refused for good); pulled, cdc: the cursor of the last backfill and
\* of the last poll that succeeded, "old" 29 days later; catalog: the copy holds items;
\* burden: Labor Burden is in the basis.
SetupFacts == [status : {"none", "disconnected", "connected", "needs_reconnect"},
               run : {"none", "running", "stuck"}, pulled : {"none", "fresh", "old"},
               cdc : {"none", "fresh", "old"}, catalog : BOOLEAN, rules : BOOLEAN,
               account : [Ledger -> {"absent", "unmapped", "suggested", "confirmed"}],
               decided : SUBSET REQUIRED_POLICY_KEYS, burden : BOOLEAN,
               grid : SUBSET Crew, rates : SUBSET (Crew \cup {Everyone})]

----------------------------------------------------------------------------
(* The set-up lines.                                                        *)

Line(code, done, link) == [code |-> code, done |-> done, link |-> link]

\* schedule.resume_cursor: the last poll's cursor, else the backfill's.
resume_cursor(f) == IF f.cdc # "none" THEN f.cdc ELSE f.pulled

\* status.copy_status: a backfill is needed when there is no cursor or it is too
\* old, and no run is open.
BackfillNeeded(f) == f.status = "connected" /\ f.run = "none" /\ resume_cursor(f) # "fresh"

\* Faulty: connecting is offered before the history start is decided.
BadQuickbooks(f) ==
    LET not(link) == Line("quickbooks", FALSE, link) IN
    CASE f.status \in {"none", "disconnected"} -> not("connections")
      [] f.status = "needs_reconnect" \/ BackfillNeeded(f) -> not("connections")
      [] OTHER -> Line("quickbooks", TRUE, "connections")

Quickbooks(f) ==
    LET not(link) == Line("quickbooks", FALSE, link)
        off == f.status \in {"none", "disconnected"}
    IN CASE off /\ "history" \notin f.decided -> not("policy")
         [] off /\ "history" \in f.decided -> not("connections")
         [] ~off /\ (f.status = "needs_reconnect" \/ BackfillNeeded(f)) -> not("connections")
         [] OTHER -> Line("quickbooks", TRUE, "connections")

SuggestionRules(f) == Line("suggestion_rules", f.rules, "none")

ActiveAccounts(f) == {a \in Ledger : f.account[a] # "absent"}
ChartOfAccounts(f) == Line("chart_of_accounts", ActiveAccounts(f) # {}, "imports")
AccountMapping(f) ==
    IF ActiveAccounts(f) = {} THEN Line("account_mapping", FALSE, "none")
    ELSE Line("account_mapping", \A a \in ActiveAccounts(f) : f.account[a] = "confirmed", "accounts")

Policy(f) == Line("policy", Undecided(f) = {}, "policy")

\* pick_rate: the division's own rate, else the company's.
WithoutRate(f) == {c \in f.grid : {c, Everyone} \cap f.rates = {}}
BurdenRates(f) ==
    LET line(done, link) == Line("burden_rates", done, link) IN
    IF "basis" \notin f.decided THEN line(FALSE, "policy")
    ELSE IF ~f.burden THEN line(TRUE, "burden")
    ELSE IF f.grid = {} THEN line(FALSE, "divisions")
    ELSE line(WithoutRate(f) = {}, "burden")

SETUP_STEPS(f) == <<Quickbooks(f), SuggestionRules(f), ChartOfAccounts(f), AccountMapping(f),
                    Policy(f), BurdenRates(f)>>

\* setup_lines: the first line not done that has an action is primary.
Actionable(f) == SelectSeq(SETUP_STEPS(f), LAMBDA l : ~l.done /\ l.link # "none")
PrimaryLink(f) == IF Actionable(f) = << >> THEN "none" ELSE Actionable(f)[1].link

----------------------------------------------------------------------------
(* What a job needs.                                                        *)

\* Sentences of the job in the order of JOB_NEEDS after the backlog rule.
LaterNeeds == <<"payment_unapplied", "deposit_not_identified", "billed_over_contract",
                "payment_other_credit", "billing_unapproved_co", "payapp_not_invoiced",
                "payapp_invoice_mismatch", "invoice_no_payapp", "co_approval_not_carried",
                "change_orders_unapproved">>
Sentences == {LaterNeeds[i] : i \in DOMAIN LaterNeeds}
\* The ones about money in QuickBooks, which a job has only by its link.
Billed == Sentences \ {"co_approval_not_carried", "change_orders_unapproved"}

\* One job of a contract method, from its estimate's upload on.
JobFacts == [estimate : {"none", "to_review", "job"}, status : {"sold", "in_progress", "closed"},
             linked : BOOLEAN, toConfirm : BOOLEAN, sentences : SUBSET Sentences]

NeedsLink(j) == j.status = "in_progress" /\ ~j.linked      \* JOB_NO_LEDGER_LINK
Backlog(j) == j.status = "sold" /\ ~j.linked
Later(j) == SelectSeq(LaterNeeds, LAMBDA s : s \in j.sentences)

\* next_need: the first rule that applies.
NextNeed(j) ==
    CASE j.toConfirm -> "to_confirm"
      [] ~j.toConfirm /\ NeedsLink(j) -> "needs_link"
      [] OTHER -> IF Backlog(j) \/ Later(j) = << >> THEN "nothing" ELSE Later(j)[1]

\* review_item, then job_lines: a closed job is not listed.
Shown(j) ==
    CASE j.estimate = "none" -> "no_estimates"
      [] j.estimate = "to_review" -> "to_review"
      [] OTHER -> IF j.status = "closed" THEN "nothing" ELSE NextNeed(j)

----------------------------------------------------------------------------
HomeInit ==
    /\ facts = [status |-> "none", run |-> "none", pulled |-> "none", cdc |-> "none",
                catalog |-> FALSE, rules |-> FALSE, account |-> [a \in Ledger |-> "absent"], decided |-> {}, burden |-> FALSE,
                grid |-> {}, rates |-> {}]
    /\ jobFacts = [estimate |-> "none", status |-> "sold", linked |-> FALSE,
                   toConfirm |-> FALSE, sentences |-> {}]
    /\ surprises = 0

Set(f) == facts' = f /\ UNCHANGED <<jobFacts, surprises>>

\* start_backfill: none while a run is open.
Started(run) == IF run = "none" THEN "running" ELSE run

\* after_connect starts a backfill when there is no cursor of this company.
Connect ==
    /\ "history" \in facts.decided /\ facts.status # "connected"
    /\ Set([facts EXCEPT !.status = "connected",
                         !.run = IF resume_cursor(facts) = "none" THEN Started(@) ELSE @])
RunBackfill ==
    /\ BackfillNeeded(facts) /\ "history" \in facts.decided
    /\ Set([facts EXCEPT !.run = Started(@)])

\* A key that names items is refused until a copy holds the company's items.
SetPolicy(k) ==
    /\ k \in Undecided(facts) /\ (k = "items" => facts.catalog)
    /\ \E b \in BOOLEAN :
          Set([facts EXCEPT !.decided = @ \cup {k}, !.burden = IF k = "basis" THEN b ELSE @])
UploadChart(S) ==
    /\ S # {} /\ ActiveAccounts(facts) = {}
    /\ \E sug \in SUBSET S : (facts.rules \/ sug = {}) /\
          Set([facts EXCEPT !.account = [a \in Ledger |-> IF a \in sug THEN "suggested"
                                           ELSE IF a \in S THEN "unmapped" ELSE "absent"]])
ConfirmAccount(a) ==
    facts.account[a] \in {"unmapped", "suggested"} /\ Set([facts EXCEPT !.account[a] = "confirmed"])
SetDigit(c) == c \notin facts.grid /\ Set([facts EXCEPT !.grid = @ \cup {c}])
AddRate(c) == c \notin facts.rates /\ Set([facts EXCEPT !.rates = @ \cup {c}])

\* The person opens the page of the primary line and does what it asks.
FollowPrimary ==
    \/ PrimaryLink(facts) = "connections" /\ (Connect \/ RunBackfill)
    \/ PrimaryLink(facts) = "policy" /\ \E k \in REQUIRED_POLICY_KEYS : SetPolicy(k)
    \/ PrimaryLink(facts) = "imports" /\ \E S \in SUBSET Ledger : UploadChart(S)
    \/ PrimaryLink(facts) = "accounts" /\ \E a \in Ledger : ConfirmAccount(a)
    \/ PrimaryLink(facts) = "divisions" /\ \E c \in Crew : SetDigit(c)
    \/ PrimaryLink(facts) = "burden" /\ \E c \in WithoutRate(facts) \cup {Everyone} : AddRate(c)

\* A backfill all of whose pages come ends while the company is connected.
BackfillEnds ==
    /\ facts.run = "running" /\ facts.status = "connected"
    /\ Set([facts EXCEPT !.run = "none", !.pulled = "fresh", !.catalog = TRUE])

\* Its pages bring the items before it ends, or without its ending.
ItemsStored ==
    /\ facts.status # "none" /\ ~facts.catalog
    /\ Set([facts EXCEPT !.catalog = TRUE])

\* A page that runs while the company is not connected is refused for good; its run
\* stays open.
PageRefused ==
    /\ facts.run = "running" /\ facts.status # "connected"
    /\ Set([facts EXCEPT !.run = "stuck"])

\* The first poll that succeeds; with an old cursor none does.
PollSucceeds ==
    /\ facts.status = "connected" /\ facts.cdc = "none" /\ facts.pulled = "fresh"
    /\ Set([facts EXCEPT !.cdc = "fresh"])

\* The person does what the job's line asks.
FollowNeed ==
    LET j == jobFacts
        do(k) == jobFacts' = k /\ UNCHANGED <<facts, surprises>>
    IN \/ Shown(j) = "no_estimates" /\ do([j EXCEPT !.estimate = "to_review"])
       \/ Shown(j) = "to_review" /\ \E b \in BOOLEAN :
             do([j EXCEPT !.estimate = "job", !.toConfirm = b])
       \/ Shown(j) = "to_confirm" /\ do([j EXCEPT !.toConfirm = FALSE])
       \/ Shown(j) = "needs_link" /\ do([j EXCEPT !.linked = TRUE])
       \/ Shown(j) \in Sentences /\ do([j EXCEPT !.sentences = @ \ {Shown(j)}])

\* Events of other people, of QuickBooks and of time.
Surprise ==
    /\ surprises < MaxSurprises /\ surprises' = surprises + 1
    /\ \/ /\ UNCHANGED jobFacts
          /\ \/ facts.status = "connected" /\ facts' = [facts EXCEPT !.status = "disconnected"]
             \/ /\ facts.status = "connected"      \* seen by a page, its run is closed
                /\ \E run \in {facts.run, "none"} :
                      facts' = [facts EXCEPT !.status = "needs_reconnect", !.run = run]
             \* a page fails for good
             \/ facts.run = "running" /\ facts' = [facts EXCEPT !.run = "stuck"]
             \* 29 days without a poll or a backfill
             \/ /\ resume_cursor(facts) = "fresh"
                /\ facts' = [facts EXCEPT !.pulled = "old", !.cdc = IF @ = "none" THEN "none" ELSE "old"]
             \/ facts' = [facts EXCEPT !.rules = ~@]
             \/ \E a \in Ledger : ActiveAccounts(facts) # {} /\
                   facts' = [facts EXCEPT !.account[a] = IF @ = "absent" THEN "unmapped" ELSE "absent"]
             \/ \E c \in Crew : facts' = [facts EXCEPT !.grid = (@ \ {c}) \cup ({c} \ @)]
             \/ \E c \in facts.rates : facts' = [facts EXCEPT !.rates = @ \ {c}]
             \/ "basis" \in facts.decided /\ facts' = [facts EXCEPT !.burden = ~@]
       \/ /\ UNCHANGED facts /\ jobFacts.estimate = "job"
          /\ \/ \E s \in Sentences : (s \in Billed => jobFacts.linked) /\
                   jobFacts' = [jobFacts EXCEPT !.sentences = @ \cup {s}]
             \/ jobFacts' = [jobFacts EXCEPT !.linked = ~@, !.sentences = @ \ Billed]
             \/ \E s \in {"in_progress", "closed", "sold"} : jobFacts' = [jobFacts EXCEPT !.status = s]
             \/ jobFacts' = [jobFacts EXCEPT !.toConfirm = TRUE]

HomeNext == \/ FollowPrimary \/ FollowNeed \/ Surprise
            \/ BackfillEnds \/ ItemsStored \/ PageRefused \/ PollSucceeds
HomeFairness == WF_homeVars(FollowPrimary) /\ WF_homeVars(FollowNeed) /\ WF_homeVars(BackfillEnds)
HomeSpec == HomeInit /\ [][HomeNext]_homeVars /\ HomeFairness

----------------------------------------------------------------------------
HomeTypeOK == facts \in SetupFacts /\ jobFacts \in JobFacts /\ surprises \in 0..MaxSurprises

SetUp(f) ==
    /\ f.status = "connected" /\ Undecided(f) = {} /\ ActiveAccounts(f) # {}
    /\ \A a \in ActiveAccounts(f) : f.account[a] = "confirmed"
    /\ f.burden => f.grid # {} /\ WithoutRate(f) = {}

Settled(j) ==
    /\ j.estimate = "job"
    /\ \/ j.status = "closed"
       \/ ~j.toConfirm /\ (Backlog(j) \/ j.sentences = {})

\* Where no step of the page helps: a run left open for ever that never brought the
\* items a policy key names; a poll's cursor too old, which a fresh backfill leaves so.
ItemsNeverCome(f) == f.run = "stuck" /\ ~f.catalog
NeverCurrent(f) == f.run # "stuck" /\ f.cdc = "old"

\* The page leads to the end.  Whatever happens on the way, a person who only
\* ever does what the primary line and the job's line ask ends with a company
\* that is set up (connected, a chart whose active accounts are all confirmed,
\* every key decided, a rate for every division of the grid when the basis has
\* the burden, and a current copy unless a run was left open) and with a job that
\* has nothing open, or is closed or backlog: no line leads to a page where its
\* step is refused, and no sentence is hidden for good (checklist.py setup_lines
\* and next_need; schedule.py start_backfill and resume_cursor for what is excepted).
HomeLeadsOn ==
    <>[](/\ HomeTypeOK /\ Settled(jobFacts)
         /\ \/ ItemsNeverCome(facts) \/ NeverCurrent(facts)
            \/ SetUp(facts) /\ (facts.run = "stuck" \/ resume_cursor(facts) = "fresh"))

\* "QuickBooks is connected and a backfill has succeeded" (checklist.py quickbooks): with
\* no backfill under way, the line is done only where there is a copy; not kept, a run
\* that a disconnect left open counts as one under way.
DoneHasCopy == Quickbooks(facts).done => facts.run = "running" \/ resume_cursor(facts) # "none"
=============================================================================
