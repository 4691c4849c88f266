---------------------------- MODULE PayApplications ----------------------------
(***************************************************************************)
(* The pay applications of one fixed-price job (backend/app/domain/billing/*)
(* pay_application_service.py, pay_applications.py and its routes).  A     *)
(* request is one READ COMMITTED transaction without locks, in three       *)
(* steps: the route reads the job and its board, the service reads the     *)
(* application rows again and decides, and the flush writes what it        *)
(* decided over whatever is committed by then.                             *)
(*                                                                         *)
(* price  : per work area its price in the latest estimate version, in     *)
(*          cents; NotListed when it is omitted or not approved            *)
(* tied   : per work area what the invoice lines tied to it have billed    *)
(* docs   : the job's invoices by their _PMT number                        *)
(* rate   : the fuel surcharge rate of the policy, or NoRate               *)
(* keys   : the policy keys that billed to date needs are decided          *)
(* apps   : the rows of pay_application with their lines                   *)
(* req    : per person the request being handled                           *)
(* alone  : no two requests have overlapped so far                         *)
(* changes: changes made around the applications, bounded by MaxChanges    *)
(*                                                                         *)
(* Percents are in hundredths of a percent, as stored.                     *)
(***************************************************************************)
EXTENDS Integers, FiniteSets, FiniteSetsExt

CONSTANTS Areas,       \* work areas
          Prices,      \* prices a work area may have
          Amounts,     \* what an invoice, or the lines tied to a work area, may bill
          Percents,    \* percents a request may name
          Rates,       \* surcharge rates
          MaxNumber,   \* invoice numbers _PMT1 .. _PMT<MaxNumber>
          MaxApps,     \* application rows ever made
          MaxChanges,  \* changes around the applications
          Persons,
          NotListed, NoLine, NoRate, NoDoc, NoHold, Unnamed

ASSUME PriceAssumption == Prices \subseteq Nat /\ Amounts \subseteq Nat
ASSUME PercentAssumption == Percents \subseteq Nat
ASSUME HoldAssumption == NoHold \notin Nat
ASSUME BoundAssumption == MaxNumber \in Nat /\ MaxApps \in Nat /\ MaxChanges \in Nat

VARIABLES price, tied, docs, rate, keys, apps, req, alone, changes

vars == <<price, tied, docs, rate, keys, apps, req, alone, changes>>
around == <<price, tied, docs, rate, keys>>

Ids == 1..MaxApps
Hundred == 10000

Line == [value : Nat, percent : 0..Hundred]
Lines == [Areas -> Line \cup {NoLine}]
Answers == {"unanswered", "yes", "no"}

\* before and due are 0 until they are frozen.
App == [status : {"absent", "draft", "issued", "void", "discarded"}, number : Nat,
        choice : Answers, lines : Lines, rate : Rates \cup {NoRate}, before : Nat, due : Nat]

Row(status, number, choice, lines, surcharge_rate, before, due) ==
  [status |-> status, number |-> number, choice |-> choice, lines |-> lines,
   rate |-> surcharge_rate, before |-> before, due |-> due]

NoRow(status) == Row(status, 0, "unanswered", [k \in Areas |-> NoLine], NoRate, 0, 0)

Idle == [pc |-> "idle"]

Init ==
  /\ price \in [Areas -> Prices]
  /\ tied = [k \in Areas |-> 0]
  /\ docs = [n \in 1..MaxNumber |-> NoDoc]
  /\ rate = NoRate
  /\ keys = FALSE
  /\ apps = [i \in Ids |-> NoRow("absent")]
  /\ req = [p \in Persons |-> Idle]
  /\ alone = TRUE
  /\ changes = 0

-----------------------------------------------------------------------------
(* The figures. *)

RoundHalfUp(n, d) == (2 * n + d) \div (2 * d)

\* earned: scheduled value times percent, half up to the cent.
earned(value, percent) == RoundHalfUp(value * percent, Hundred)

\* prefill_percent: the percent an earlier billing stands for.
prefill_percent(value, billed) ==
  IF value = 0 \/ billed = 0 THEN 0 ELSE Min({RoundHalfUp(billed * Hundred, value), Hundred})

Exists(a) == a.status \in {"draft", "issued", "void"}
Present == {i \in Ids : Exists(apps[i])}

\* The earlier issued applications that list the work area.
Earlier(tbl, number, k) ==
  {i \in Ids : tbl[i].status = "issued" /\ tbl[i].number < number /\ tbl[i].lines[k] # NoLine}

\* previous_for: the latest of them, else what the tied lines stand for.
previous_for(tbl, number, k, cost, billed) ==
  LET e == Earlier(tbl, number, k)
      l == CHOOSE i \in e : \A j \in e : tbl[j].number <= tbl[i].number
      pct == prefill_percent(cost, billed)
  IN IF e = {} THEN [percent |-> pct, earned |-> earned(cost, pct)]
     ELSE [percent |-> tbl[l].lines[k].percent,
           earned |-> earned(tbl[l].lines[k].value, tbl[l].lines[k].percent)]

Cost(v) == IF v = NotListed THEN 0 ELSE v
Previous(number, k) == previous_for(apps, number, k, Cost(price[k]), tied[k])

\* Faulty: only a line that earns less than nothing is refused.
negative_issueBelowZero(value, percent, prev) == earned(value, percent) < 0

\* negative_issue: the line would earn less than what is already earned.
negative_issue(value, percent, prev) == earned(value, percent) < prev.earned

\* draft_lines: a work area over 100.00, priced 0.00 or not listed is left off.
draft_lines(cost, percents, prev) ==
  [k \in Areas |->
     LET pct == IF percents[k] = Unnamed THEN prev[k].percent ELSE percents[k]
     IN IF cost[k] \in {NotListed, 0} \/ pct > Hundred THEN NoLine
        ELSE [value |-> cost[k], percent |-> pct]]

\* line_views of a draft: the percent a held line is shown at.
held_lines(lines, prev) ==
  [k \in Areas |-> IF /\ lines[k] # NoLine
                      /\ negative_issue(lines[k].value, lines[k].percent, prev[k])
                   THEN prev[k].percent ELSE NoHold]

Held(lines, hold) ==
  [k \in Areas |-> IF lines[k] # NoLine /\ hold[k] # NoHold
                   THEN [value |-> lines[k].value, percent |-> hold[k]] ELSE lines[k]]

EarnedOf(lines) ==
  MapThenSumSet(LAMBDA k : earned(lines[k].value, lines[k].percent),
                {k \in Areas : lines[k] # NoLine})

\* summary's amount due, never below 0.00.
amount_due(total, before) == IF total > before THEN total - before ELSE 0

\* billed_before: every counted invoice but this application's and later ones.
billed_before(number) ==
  MapThenSumSet(LAMBDA n : docs[n], {n \in DOMAIN docs : n < number /\ docs[n] # NoDoc})

\* next_number: one more than the highest _PMT number and any number taken.
highest == Max({n \in DOMAIN docs : docs[n] # NoDoc} \cup {0})
next_number(top) == Max({top} \cup {apps[i].number : i \in Present}) + 1

-----------------------------------------------------------------------------
(* What changes around the applications: estimate versions and approvals,   *)
(* QuickBooks' invoices and their lines, the policy.                        *)

Around ==
  /\ changes < MaxChanges
  /\ changes' = changes + 1
  /\ UNCHANGED <<apps, req, alone>>

Reprice(k, v) ==
  /\ Around
  /\ price' = [price EXCEPT ![k] = v]
  /\ UNCHANGED <<tied, docs, rate, keys>>

TieLines(k, b) ==
  /\ Around
  /\ tied' = [tied EXCEPT ![k] = b]
  /\ UNCHANGED <<price, docs, rate, keys>>

\* The controller keys an invoice, or deletes it.
KeyInvoice(n, b) ==
  /\ Around
  /\ docs' = [docs EXCEPT ![n] = b]
  /\ UNCHANGED <<price, tied, rate, keys>>

DecideRate(r) ==
  /\ Around
  /\ rate' = r
  /\ UNCHANGED <<price, tied, docs, keys>>

DecideKeys ==
  /\ ~keys
  /\ keys' = TRUE
  /\ UNCHANGED <<price, tied, docs, rate, apps, req, alone, changes>>

-----------------------------------------------------------------------------
(* The requests.  A refusal in words changes nothing and is no step.        *)

Overlaps(p) == \E q \in Persons \ {p} : req[q] # Idle

Read(p, r) ==
  /\ req[p] = Idle
  /\ req' = [req EXCEPT ![p] = r]
  /\ alone' = (alone /\ ~Overlaps(p))
  /\ UNCHANGED <<around, apps, changes>>

Decide(p, r) ==
  /\ req' = [req EXCEPT ![p] = r]
  /\ UNCHANGED <<around, apps, alone, changes>>

\* Other requests that have read these lines: theirs are no longer the ones there.
Overtake(rs, i) ==
  [q \in Persons |-> IF rs[q].pc \in {"draft", "issue", "discard"} /\ rs[q].id = i
                     THEN [rs[q] EXCEPT !.late = TRUE] ELSE rs[q]]

Write(p, i, app, rewritten) ==
  /\ apps' = [apps EXCEPT ![i] = app]
  /\ req' = LET rs == [req EXCEPT ![p] = Idle] IN IF rewritten THEN Overtake(rs, i) ELSE rs
  /\ UNCHANGED <<around, alone, changes>>

\* The route of a billing request: prices, tied billing, invoice numbers.
DraftRead(p) ==
  Read(p, [pc |-> "draft_read", cost |-> price, billed |-> tied, top |-> highest])

\* Faulty: the job's open draft is not looked for.
OpenDraftNone == {}

OpenDraft == {i \in Ids : apps[i].status = "draft"}

\* draft_application up to its writes: the open draft is replaced, else a row is added.
DraftDecide(p, percents, choice) ==
  LET r == req[p]
      n(i) == IF i = 0 THEN next_number(r.top) ELSE apps[i].number
      prev(i) == [k \in Areas |-> previous_for(apps, n(i), k, Cost(r.cost[k]), r.billed[k])]
  IN /\ r.pc = "draft_read"
     /\ \E i \in IF OpenDraft = {} THEN {0} ELSE OpenDraft :
          /\ \A j \in OpenDraft : i = 0 \/ apps[i].number <= apps[j].number
          /\ Decide(p, [pc |-> "draft", id |-> i, number |-> n(i), late |-> FALSE,
                        loaded |-> IF i = 0 THEN "unanswered" ELSE apps[i].choice,
                        choice |-> choice, lines |-> draft_lines(r.cost, percents, prev(i))])

\* uq_pay_application_number.
UniqueNumber(number) == \A i \in Present : apps[i].number # number

Drafted(r) == Row("draft", r.number, r.choice, r.lines, NoRate, 0, 0)

DraftInsert(p) ==
  LET r == req[p]
      free == {i \in Ids : apps[i].status = "absent"}
  IN /\ r.pc = "draft" /\ r.id = 0
     /\ UniqueNumber(r.number)
     /\ \E i \in free :
          /\ \A j \in free : i <= j
          /\ Write(p, i, Drafted(r), FALSE)

\* The lines after a redraft: its DELETE takes the lines it saw.  When another
\* redraft committed in between, that one's lines may stay beside its own.
Redrafted(a, r) ==
  {r.lines} \cup
  (IF r.late /\ \A k \in Areas : a.lines[k] = NoLine \/ r.lines[k] = NoLine
   THEN {[k \in Areas |-> IF r.lines[k] = NoLine THEN a.lines[k] ELSE r.lines[k]]} ELSE {})

Replaced(a, r, lines) ==
  Row(a.status, a.number, IF r.choice # r.loaded THEN r.choice ELSE a.choice, lines,
      a.rate, a.before, a.due)

\* The flush of a redraft asks for the row by its id, not for its status.
DraftReplace(p) ==
  LET r == req[p]
      a == apps[r.id]
  IN /\ r.pc = "draft" /\ r.id # 0
     /\ Exists(a)
     /\ \E lines \in Redrafted(a, r) :
          Write(p, r.id, Replaced(a, r, lines), TRUE)

\* The route of an issue: the draft as computed now (ApplicationView).
IssueRead(p, i) ==
  LET a == apps[i]
      prev == [k \in Areas |-> Previous(a.number, k)]
      hold == held_lines(a.lines, prev)
      before == billed_before(a.number)
  IN /\ a.status = "draft"
     /\ keys
     /\ \E k \in Areas : a.lines[k] # NoLine
     /\ Read(p, [pc |-> "issue_read", id |-> i, hold |-> hold, before |-> before,
                 due |-> amount_due(EarnedOf(Held(a.lines, hold)), before),
                 rate |-> IF a.choice = "yes" THEN rate ELSE NoRate,
                 rate_undecided |-> a.choice = "yes" /\ rate = NoRate])

\* issue_application's refusals.
MayIssue(a, r) ==
  /\ a.status = "draft"
  /\ a.choice # "unanswered"
  /\ ~(a.choice = "yes" /\ r.rate_undecided)

\* Faulty: _hold_lines is not called.
IssueDecideUnheld(p) ==
  LET r == req[p]
      a == apps[r.id]
  IN /\ r.pc = "issue_read"
     /\ MayIssue(a, r)
     /\ Decide(p, [pc |-> "issue", id |-> r.id, late |-> FALSE, before |-> r.before, due |-> r.due,
                   rate |-> IF a.choice = "yes" THEN r.rate ELSE NoRate,
                   hold |-> [k \in Areas |-> NoHold]])

\* issue_application up to its flush, with _hold_lines' percents to write.
IssueDecide(p) ==
  LET r == req[p]
      a == apps[r.id]
  IN /\ r.pc = "issue_read"
     /\ MayIssue(a, r)
     /\ Decide(p, [pc |-> "issue", id |-> r.id, late |-> FALSE, before |-> r.before, due |-> r.due,
                   rate |-> IF a.choice = "yes" THEN r.rate ELSE NoRate,
                   hold |-> [k \in Areas |->
                               IF /\ a.lines[k] # NoLine /\ r.hold[k] # NoHold
                                  /\ a.lines[k].percent # r.hold[k]
                               THEN r.hold[k] ELSE NoHold]])

\* ck_pay_application_void: the reason of a void row stays, so its status does.
VoidCheck(a, status) == a.status = "void" => status = "void"

Issued(a, r) ==
  Row("issued", a.number, a.choice, Held(a.lines, r.hold),
      IF r.rate # NoRate THEN r.rate ELSE a.rate, r.before, r.due)

IssueWrite(p) ==
  LET r == req[p]
      a == apps[r.id]
  IN /\ r.pc = "issue"
     /\ Exists(a)
     /\ VoidCheck(a, "issued")
     /\ r.late => \A k \in Areas : r.hold[k] = NoHold
     /\ Write(p, r.id, Issued(a, r), FALSE)

\* Faulty: an issued application may be discarded.
MayDiscardAny(a) == Exists(a)

\* discard_application refuses anything but a draft.
MayDiscard(a) == a.status = "draft"

DiscardRead(p, i) ==
  /\ MayDiscard(apps[i])
  /\ Read(p, [pc |-> "discard", id |-> i, late |-> FALSE])

\* Lines and row are deleted by id.
DiscardWrite(p) ==
  LET r == req[p]
  IN /\ r.pc = "discard"
     /\ Exists(apps[r.id])
     /\ Write(p, r.id, NoRow("discarded"), TRUE)

VoidRead(p, i) ==
  /\ apps[i].status = "issued"
  /\ Read(p, [pc |-> "void", id |-> i])

Voided(a) == Row("void", a.number, a.choice, a.lines, a.rate, a.before, a.due)

VoidWrite(p) ==
  LET r == req[p]
  IN /\ r.pc = "void"
     /\ Exists(apps[r.id])
     /\ Write(p, r.id, Voided(apps[r.id]), FALSE)

\* Refused by the service or a constraint, or rolled back: nothing is written.
RequestFails(p) ==
  /\ req[p] # Idle
  /\ req' = [req EXCEPT ![p] = Idle]
  /\ UNCHANGED <<around, apps, alone, changes>>

-----------------------------------------------------------------------------
Next ==
  \/ \E k \in Areas, v \in Prices \cup {NotListed} : Reprice(k, v)
  \/ \E k \in Areas, b \in Amounts : TieLines(k, b)
  \/ \E n \in 1..MaxNumber, b \in Amounts \cup {NoDoc} : KeyInvoice(n, b)
  \/ \E r \in Rates : DecideRate(r)
  \/ DecideKeys
  \/ \E p \in Persons : \/ DraftRead(p) \/ DraftInsert(p) \/ DraftReplace(p)
                        \/ IssueDecide(p) \/ IssueWrite(p)
                        \/ DiscardWrite(p) \/ VoidWrite(p) \/ RequestFails(p)
  \/ \E p \in Persons, percents \in [Areas -> Percents \cup {Unnamed}], c \in Answers :
       DraftDecide(p, percents, c)
  \/ \E p \in Persons, i \in Ids : IssueRead(p, i) \/ DiscardRead(p, i) \/ VoidRead(p, i)

Spec == Init /\ [][Next]_vars

-----------------------------------------------------------------------------
(* Properties. *)

Holds == [Areas -> 0..Hundred \cup {NoHold}]
Bills == [Areas -> Nat]

\* Every row, line and request has its shape; a percent stays within 0.00 and
\* 100.00, and only an issued or void application has frozen figures.
TypeOK ==
  /\ price \in [Areas -> Prices \cup {NotListed}]
  /\ tied \in Bills
  /\ docs \in [1..MaxNumber -> Amounts \cup {NoDoc}]
  /\ rate \in Rates \cup {NoRate}
  /\ keys \in BOOLEAN /\ alone \in BOOLEAN /\ changes \in 0..MaxChanges
  /\ apps \in [Ids -> App]
  /\ \A i \in Ids : apps[i].status \notin {"issued", "void"} =>
       apps[i].rate = NoRate /\ apps[i].before = 0 /\ apps[i].due = 0
  /\ \A p \in Persons :
       \/ req[p] = Idle
       \/ req[p] \in [pc : {"draft_read"}, cost : [Areas -> Prices \cup {NotListed}],
                      billed : Bills, top : 0..MaxNumber]
       \/ req[p] \in [pc : {"draft"}, id : Ids \cup {0}, number : Nat, late : BOOLEAN,
                      loaded : Answers, choice : Answers, lines : Lines]
       \/ req[p] \in [pc : {"issue_read"}, id : Ids, hold : Holds, before : Nat, due : Nat,
                      rate : Rates \cup {NoRate}, rate_undecided : BOOLEAN]
       \/ req[p] \in [pc : {"issue"}, id : Ids, late : BOOLEAN, before : Nat, due : Nat,
                      rate : Rates \cup {NoRate}, hold : Holds]
       \/ req[p] \in [pc : {"discard"}, id : Ids, late : BOOLEAN]
       \/ req[p] \in [pc : {"void"}, id : Ids]

Closed(a) == a.status \in {"issued", "void"}
Frozen(a) == <<a.number, a.choice, a.lines, a.rate, a.before, a.due>>

\* "void closes it": through any overlap of requests a void application is never
\* issued or drafted again.
VoidIsFinal ==
  [][\A i \in Ids : apps[i].status = "void" => apps'[i].status \in {"void", "discarded"}]_vars

\* "The job's open draft": requests handled one after the other never leave two.
OneDraft == alone => Cardinality({i \in Ids : apps[i].status = "draft"}) <= 1

\* "An issued application's lines and figures are never changed by any route":
\* requests handled one after the other keep it, whatever changes around them.
IssuedKept ==
  [][alone' => \A i \in Ids : Closed(apps[i]) =>
                 /\ apps'[i].status \in {apps[i].status, "void"}
                 /\ Frozen(apps'[i]) = Frozen(apps[i])]_vars

\* What was frozen at issue belongs together: the amount due is what the frozen
\* lines earn less the frozen billed before.
DueExplained ==
  alone => \A i \in Ids : Closed(apps[i]) =>
             apps[i].due = amount_due(EarnedOf(apps[i].lines), apps[i].before)

\* D-39: an application is issued only with the surcharge answered, and with its
\* rate exactly when it applies.
SurchargeDecided ==
  alone => \A i \in Ids : Closed(apps[i]) =>
             apps[i].choice # "unanswered" /\ ((apps[i].choice = "yes") <=> (apps[i].rate # NoRate))

\* What issue freezes belongs together: the amount due follows from the frozen lines
\* and billed before, and the surcharge was decided with or without its rate.
IssuedExplained == DueExplained /\ SurchargeDecided

\* What happens to an application after issue: its lines and figures are kept, and
\* void closes it for good (pay_application_service.py, void_application).
IssuedStays == IssuedKept /\ VoidIsFinal

\* An application that is issued earns on a work area no less than the latest
\* issued one before it, unless the price went down in between.
EarnedGrows ==
  [][alone' => \A j \in Ids, k \in Areas :
       apps[j].status = "draft" /\ apps'[j].status = "issued" =>
         \A i \in Earlier(apps, apps[j].number, k) :
           LET l == apps'[j].lines[k]
               m == apps[i].lines[k]
           IN \/ l = NoLine \/ l.value < m.value
              \/ \E h \in Earlier(apps, apps[j].number, k) : apps[h].number > apps[i].number
              \/ earned(l.value, l.percent) >= earned(m.value, m.percent)]_vars

\* "An issued application's lines and figures are never changed by any route",
\* without the condition.
IssuedNeverChanged ==
  [][\A i \in Ids : Closed(apps[i]) =>
       /\ apps'[i].status \in {apps[i].status, "void"}
       /\ Frozen(apps'[i]) = Frozen(apps[i])]_vars

\* "No application ever shows a negative earned this application": as line_views
\* shows it, a draft's held lines at their previous percent.
NoNegative ==
  \A i \in Present, k \in Areas : apps[i].lines[k] # NoLine =>
    LET a == apps[i]
        prev == Previous(a.number, k)
        pct == IF a.status = "draft" /\ negative_issue(a.lines[k].value, a.lines[k].percent, prev)
               THEN prev.percent ELSE a.lines[k].percent
    IN earned(a.lines[k].value, pct) >= prev.earned
================================================================================
