------------------------- MODULE BillingProofs -------------------------
(***************************************************************************)
(* Theorems about PayApplications for any work areas, prices, percents,    *)
(* rates, people and number of applications. A void application stays void *)
(* whatever overlaps; the other properties hold as long as no two requests *)
(* overlapped, and follow from what the one request in flight knows of the *)
(* row it is about to write: its lines and figures, and, for what an       *)
(* application earns, the percents held from the latest issued before it.  *)
(* The second part is about BillingRows, for finite sets of customers,     *)
(* documents, payments, jobs and months: each applier of the sync has a    *)
(* lemma of its own. The third part is about the sums: that the money      *)
(* comes to the same however it is cut, by the sums over two keys of       *)
(* SumTheorems. Then BillingLines, for any invoice, people and work areas: *)
(* what is written for a line was counted out for it.                      *)
(***************************************************************************)
EXTENDS PayApplications, BillingRows, BillingLines, SumTheorems, FiniteSetTheorems, SequenceTheorems, TLAPS

\* The tables as functions on rows and people.
Tables ==
  /\ apps = [i \in Ids |-> apps[i]]
  /\ req = [p \in Persons |-> req[p]]
  /\ alone \in BOOLEAN

-----------------------------------------------------------------------------
(* The three kinds of step a request takes. *)

\* What a write does to the rows and to the requests in flight.
LEMMA WriteFacts ==
  ASSUME Tables, NEW p \in Persons, NEW i, NEW app, NEW b, Write(p, i, app, b)
  PROVE  /\ Tables'
         /\ \A j \in Ids : apps'[j] = IF j = i THEN app ELSE apps[j]
         /\ alone' = alone
         /\ (\A q \in Persons : q # p => req[q] = Idle) => \A q \in Persons : req'[q] = Idle
<1>1. apps' = [apps EXCEPT ![i] = app] /\ alone' = alone
  BY DEF Write
<1>2. apps' = [j \in Ids |-> apps'[j]] /\ \A j \in Ids : apps'[j] = IF j = i THEN app ELSE apps[j]
  BY <1>1 DEF Tables
<1> DEFINE rs == [req EXCEPT ![p] = Idle]
<1>3. rs = [q \in Persons |-> rs[q]] /\ \A q \in Persons : rs[q] = IF q = p THEN Idle ELSE req[q]
  BY DEF Tables
<1>4. req' = IF b THEN Overtake(rs, i) ELSE rs
  BY DEF Write
<1> HIDE DEF rs
<1>5. req' = [q \in Persons |-> req'[q]]
  BY <1>3, <1>4 DEF Overtake
<1>6. ASSUME \A q \in Persons : q # p => req[q] = Idle, NEW q \in Persons
      PROVE  req'[q] = Idle
  <2>1. rs[q] = Idle
    BY <1>3, <1>6
  <2>2. Overtake(rs, i)[q] = Idle
    BY <2>1 DEF Overtake, Idle
  <2> QED BY <2>1, <2>2, <1>4
<1> QED BY <1>1, <1>2, <1>5, <1>6 DEF Tables

\* A first read leaves the rows alone, and is alone only when nobody else is in flight.
LEMMA ReadFacts ==
  ASSUME Tables, NEW p \in Persons, NEW r, Read(p, r)
  PROVE  /\ Tables' /\ apps' = apps
         /\ req'[p] = r
         /\ alone' => alone /\ \A q \in Persons : q # p => req[q] = Idle /\ req'[q] = Idle
<1>1. req' = [req EXCEPT ![p] = r] /\ apps' = apps /\ alone' = (alone /\ ~Overlaps(p))
  BY DEF Read
<1>2. req' = [q \in Persons |-> req'[q]] /\ req'[p] = r /\ \A q \in Persons : q # p => req'[q] = req[q]
  BY <1>1 DEF Tables
<1>3. ~Overlaps(p) => \A q \in Persons : q # p => req[q] = Idle
  BY DEF Overlaps
<1>4. alone' \in BOOLEAN
  BY <1>1
<1> QED BY <1>1, <1>2, <1>3, <1>4 DEF Tables

\* A decision, or a failure, replaces the request and nothing else.
LEMMA DecideFacts ==
  ASSUME Tables, NEW p \in Persons, NEW r, req' = [req EXCEPT ![p] = r],
         UNCHANGED <<apps, alone>>
  PROVE  /\ Tables' /\ req'[p] = r
         /\ \A q \in Persons : q # p => req'[q] = req[q]
BY DEF Tables

\* What changes around the applications leaves them and the requests alone.
AroundStep ==
  \/ \E k \in Areas, v \in Prices \cup {NotListed} : Reprice(k, v)
  \/ \E k \in Areas, b \in Amounts : TieLines(k, b)
  \/ \E n \in 1..MaxNumber, b \in Amounts \cup {NoDoc} : KeyInvoice(n, b)
  \/ \E r \in Rates : DecideRate(r)
  \/ DecideKeys

LEMMA AroundFacts == AroundStep => UNCHANGED <<apps, req, alone>>
BY DEF AroundStep, Reprice, TieLines, KeyInvoice, DecideRate, DecideKeys, Around

-----------------------------------------------------------------------------
(* A void application stays void. *)

LEMMA InitTables == Init => Tables
BY DEF Init, Tables

\* DraftInsert as one write of an absent row.
LEMMA DraftInsertWrites ==
  ASSUME NEW p \in Persons, DraftInsert(p)
  PROVE  /\ req[p].pc = "draft" /\ req[p].id = 0
         /\ \E i \in Ids : apps[i].status = "absent" /\ Write(p, i, Drafted(req[p]), FALSE)
BY DEF DraftInsert

VoidStep == \A i \in Ids : apps[i].status = "void" => apps'[i].status \in {"void", "discarded"}

\* No step takes a row from void to anything but discarded.
LEMMA VoidLemma ==
  ASSUME Tables, [Next]_vars
  PROVE  Tables' /\ VoidStep
<1>1. CASE UNCHANGED vars
  BY <1>1 DEF vars, Tables, VoidStep
<1>2. CASE AroundStep
  BY <1>2, AroundFacts DEF Tables, VoidStep
<1>3. ASSUME NEW p \in Persons, NEW r, Read(p, r)
      PROVE  Tables' /\ VoidStep
  BY <1>3, ReadFacts DEF VoidStep
<1>4. ASSUME NEW p \in Persons, NEW r, Decide(p, r)
      PROVE  Tables' /\ VoidStep
  <2>1. req' = [req EXCEPT ![p] = r] /\ UNCHANGED <<apps, alone>>
    BY <1>4 DEF Decide
  <2> QED BY <2>1, DecideFacts DEF VoidStep
<1>5. ASSUME NEW p \in Persons, DraftInsert(p)
      PROVE  Tables' /\ VoidStep
  <2>1. PICK i \in Ids : apps[i].status = "absent" /\ Write(p, i, Drafted(req[p]), FALSE)
    BY <1>5, DraftInsertWrites
  <2> QED BY <2>1, WriteFacts DEF VoidStep
<1>6. ASSUME NEW p \in Persons, DraftReplace(p)
      PROVE  Tables' /\ VoidStep
  <2>1. PICK lines : Write(p, req[p].id, Replaced(apps[req[p].id], req[p], lines), TRUE)
    BY <1>6 DEF DraftReplace
  <2>2. Replaced(apps[req[p].id], req[p], lines).status = apps[req[p].id].status
    BY DEF Replaced, Row
  <2>3. /\ Tables'
        /\ \A j \in Ids : apps'[j] = IF j = req[p].id THEN Replaced(apps[req[p].id], req[p], lines)
                                     ELSE apps[j]
    BY <2>1, WriteFacts
  <2> QED BY <2>2, <2>3 DEF VoidStep
<1>7. ASSUME NEW p \in Persons, IssueWrite(p)
      PROVE  Tables' /\ VoidStep
  <2>1. /\ apps[req[p].id].status # "void"
        /\ Write(p, req[p].id, Issued(apps[req[p].id], req[p]), FALSE)
    BY <1>7 DEF IssueWrite, VoidCheck
  <2> QED BY <2>1, WriteFacts DEF VoidStep
<1>8. ASSUME NEW p \in Persons, DiscardWrite(p)
      PROVE  Tables' /\ VoidStep
  <2>1. Write(p, req[p].id, NoRow("discarded"), TRUE)
    BY <1>8 DEF DiscardWrite
  <2>2. NoRow("discarded").status = "discarded"
    BY DEF NoRow, Row
  <2> QED BY <2>1, <2>2, WriteFacts DEF VoidStep
<1>9. ASSUME NEW p \in Persons, VoidWrite(p)
      PROVE  Tables' /\ VoidStep
  <2>1. Write(p, req[p].id, Voided(apps[req[p].id]), FALSE)
    BY <1>9 DEF VoidWrite
  <2>2. Voided(apps[req[p].id]).status = "void"
    BY DEF Voided, Row
  <2> QED BY <2>1, <2>2, WriteFacts DEF VoidStep
<1>10. ASSUME NEW p \in Persons, RequestFails(p)
       PROVE  Tables' /\ VoidStep
  <2>1. req' = [req EXCEPT ![p] = Idle] /\ UNCHANGED <<apps, alone>>
    BY <1>10 DEF RequestFails
  <2> QED BY <2>1, DecideFacts DEF VoidStep
<1>11. ASSUME NEW p \in Persons, DraftRead(p)
       PROVE  Tables' /\ VoidStep
  BY <1>11, <1>3 DEF DraftRead
<1>12. ASSUME NEW p \in Persons, IssueDecide(p)
       PROVE  Tables' /\ VoidStep
  BY <1>12, <1>4 DEF IssueDecide
<1>13. ASSUME NEW p \in Persons, NEW percents, NEW c, DraftDecide(p, percents, c)
       PROVE  Tables' /\ VoidStep
  BY <1>13, <1>4 DEF DraftDecide
<1>14. ASSUME NEW p \in Persons, NEW i \in Ids, IssueRead(p, i) \/ DiscardRead(p, i) \/ VoidRead(p, i)
       PROVE  Tables' /\ VoidStep
  BY <1>14, <1>3 DEF IssueRead, DiscardRead, VoidRead
<1>15. CASE Next /\ ~AroundStep
  BY <1>15, <1>5, <1>6, <1>7, <1>8, <1>9, <1>10, <1>11, <1>12, <1>13, <1>14 DEF Next, AroundStep
<1> QED BY <1>1, <1>2, <1>15

\* A void application is never issued or drafted again, through any overlap of
\* requests: the table's check on the void columns is enough (models.py:330).
THEOREM VoidStaysVoid == Spec => VoidIsFinal
<1>1. Tables /\ [Next]_vars => Tables'
  BY VoidLemma
<1>2. Tables /\ [Next]_vars =>
        [\A i \in Ids : apps[i].status = "void" => apps'[i].status \in {"void", "discarded"}]_vars
  BY VoidLemma DEF VoidStep
<1> QED BY InitTables, <1>1, <1>2, PTL DEF Spec, VoidIsFinal

-----------------------------------------------------------------------------
(* While requests do not overlap. *)

Shaped(lines) ==
  /\ lines = [k \in Areas |-> lines[k]]
  /\ \A k \in Areas : \/ lines[k] = NoLine
                      \/ lines[k] = [value |-> lines[k].value, percent |-> lines[k].percent]

RateKnown(choice, surcharge_rate) ==
  choice # "unanswered" /\ ((choice = "yes") <=> (surcharge_rate # NoRate))

\* What a row says of itself.
RowOK(a) ==
  /\ Shaped(a.lines)
  /\ Closed(a) => /\ a.due = amount_due(EarnedOf(a.lines), a.before)
                  /\ RateKnown(a.choice, a.rate)
  /\ ~Closed(a) => a.rate = NoRate

\* What a request knows of the row it will write, with its figures for that row.
Due(a, r) == r.due = amount_due(EarnedOf(Held(a.lines, r.hold)), r.before)

Knows(r, tbl) ==
  /\ r.pc = "draft" => Shaped(r.lines)
  /\ r.pc = "draft" /\ r.id = 0 => \A i \in Ids : tbl[i].status # "draft"
  /\ r.pc = "draft" /\ r.id # 0 => r.id \in Ids /\ tbl[r.id].status = "draft"
  /\ r.pc = "issue_read" => /\ r.id \in Ids /\ tbl[r.id].status = "draft"
                            /\ Due(tbl[r.id], r)
                            /\ tbl[r.id].choice # "yes" => r.rate = NoRate
                            /\ tbl[r.id].choice = "yes" /\ r.rate = NoRate => r.rate_undecided
  /\ r.pc = "issue" => /\ r.id \in Ids /\ tbl[r.id].status = "draft"
                       /\ Due(tbl[r.id], r)
                       /\ RateKnown(tbl[r.id].choice, r.rate)
  /\ r.pc = "discard" => r.id \in Ids /\ tbl[r.id].status = "draft"
  /\ r.pc = "void" => r.id \in Ids /\ tbl[r.id].status = "issued"

OneAtATime == \A p, q \in Persons : p # q => req[p] = Idle \/ req[q] = Idle
AllRows(tbl) == \A i \in Ids : RowOK(tbl[i])
OneOpen(tbl) == \A i, j \in Ids : tbl[i].status = "draft" /\ tbl[j].status = "draft" => i = j
AllKnow == \A p \in Persons : Knows(req[p], apps)

Solo == alone => OneAtATime /\ AllRows(apps) /\ OneOpen(apps) /\ AllKnow

KeptStep ==
  alone' => \A i \in Ids : Closed(apps[i]) =>
              /\ apps'[i].status \in {apps[i].status, "void"}
              /\ Frozen(apps'[i]) = Frozen(apps[i])

LEMMA IdleKnows == ASSUME NEW tbl PROVE Knows(Idle, tbl)
BY DEF Knows, Idle

\* A request that is replaced by one that knows its row, with the others idle.
LEMMA Replacing ==
  ASSUME Tables, Solo, alone, NEW p \in Persons, NEW r, apps' = apps, req'[p] = r,
         \A q \in Persons : q # p => req'[q] = Idle, Knows(r, apps)
  PROVE  Solo' /\ KeptStep
<1>1. AllRows(apps') /\ OneOpen(apps')
  BY DEF Solo
<1>2. \A q \in Persons : Knows(req'[q], apps')
  BY IdleKnows
<1>3. OneAtATime'
  BY DEF OneAtATime
<1> QED BY <1>1, <1>2, <1>3 DEF Solo, AllKnow, KeptStep

\* A row that is replaced by a request, after which nobody is in flight.
LEMMA Writing ==
  ASSUME Tables, Solo, alone, NEW p \in Persons, req[p] # Idle,
         NEW i \in Ids, NEW app, NEW b, Write(p, i, app, b), RowOK(app),
         app.status = "draft" => \A j \in Ids : apps[j].status = "draft" => j = i,
         Closed(apps[i]) => /\ app.status \in {apps[i].status, "void"}
                            /\ Frozen(app) = Frozen(apps[i])
  PROVE  Solo' /\ KeptStep
<1>1. \A q \in Persons : q # p => req[q] = Idle
  BY DEF Solo, OneAtATime
<1>2. /\ \A j \in Ids : apps'[j] = IF j = i THEN app ELSE apps[j]
      /\ \A q \in Persons : req'[q] = Idle
  BY <1>1, WriteFacts
<1>3. AllRows(apps')
  BY <1>2 DEF Solo, AllRows
<1>4. OneOpen(apps')
  BY <1>2 DEF Solo, OneOpen
<1>5. \A q \in Persons : Knows(req'[q], apps')
  BY <1>2, IdleKnows
<1>6. OneAtATime'
  BY <1>2 DEF OneAtATime
<1>7. KeptStep
  BY <1>2 DEF KeptStep
<1> QED BY <1>3, <1>4, <1>5, <1>6, <1>7 DEF Solo, AllKnow

\* A first read of a request that then knows its row.
LEMMA Reading ==
  ASSUME Tables, Solo, NEW p \in Persons, NEW r, Read(p, r), alone => Knows(r, apps)
  PROVE  Solo' /\ KeptStep
<1>1. CASE alone'
  <2>1. /\ alone /\ apps' = apps /\ req'[p] = r
        /\ \A q \in Persons : q # p => req'[q] = Idle
    BY <1>1, ReadFacts
  <2> QED BY <2>1, Replacing
<1>2. CASE ~alone'
  BY <1>2 DEF Solo, KeptStep
<1> QED BY <1>1, <1>2

\* A decision of a request that then knows its row.
LEMMA Deciding ==
  ASSUME Tables, Solo, NEW p \in Persons, req[p] # Idle, NEW r,
         req' = [req EXCEPT ![p] = r], UNCHANGED <<apps, alone>>,
         alone => Knows(r, apps)
  PROVE  Solo' /\ KeptStep
<1>1. CASE alone
  <2>1. \A q \in Persons : q # p => req[q] = Idle
    BY <1>1 DEF Solo, OneAtATime
  <2>2. apps' = apps /\ req'[p] = r /\ \A q \in Persons : q # p => req'[q] = Idle
    BY <2>1, DecideFacts
  <2> QED BY <1>1, <2>2, Replacing
<1>2. CASE ~alone
  BY <1>2 DEF Solo, KeptStep
<1> QED BY <1>1, <1>2

-----------------------------------------------------------------------------
(* The figures keep the shape of the lines. *)

LEMMA DraftLinesShaped ==
  ASSUME NEW cost, NEW percents, NEW prev
  PROVE  Shaped(draft_lines(cost, percents, prev))
BY DEF Shaped, draft_lines

LEMMA HeldShaped ==
  ASSUME NEW lines, NEW hold, Shaped(lines)
  PROVE  Shaped(Held(lines, hold))
BY DEF Shaped, Held

\* Leaving out the percents that are there already changes no line.
Holding(lines, hold) ==
  [k \in Areas |-> IF lines[k] # NoLine /\ hold[k] # NoHold /\ lines[k].percent # hold[k]
                   THEN hold[k] ELSE NoHold]

LEMMA HoldingSame ==
  ASSUME NEW lines, NEW hold, Shaped(lines)
  PROVE  Held(lines, Holding(lines, hold)) = Held(lines, hold)
<1>1. ASSUME NEW k \in Areas
      PROVE  Held(lines, Holding(lines, hold))[k] = Held(lines, hold)[k]
  <2>1. Holding(lines, hold)[k] =
          IF lines[k] # NoLine /\ hold[k] # NoHold /\ lines[k].percent # hold[k]
          THEN hold[k] ELSE NoHold
    BY DEF Holding
  <2>2. lines[k] # NoLine => lines[k] = [value |-> lines[k].value, percent |-> lines[k].percent]
    BY DEF Shaped
  <2> QED BY <2>1, <2>2 DEF Held
<1> QED BY <1>1 DEF Held

LEMMA RedraftedShaped ==
  ASSUME NEW a, NEW r, Shaped(a.lines), Shaped(r.lines), NEW lines \in Redrafted(a, r)
  PROVE  Shaped(lines)
<1>1. CASE lines = r.lines
  BY <1>1
<1>2. CASE lines = [k \in Areas |-> IF r.lines[k] = NoLine THEN a.lines[k] ELSE r.lines[k]]
  BY <1>2 DEF Shaped
<1> QED BY <1>1, <1>2 DEF Redrafted

-----------------------------------------------------------------------------
(* One lemma per request step. *)

LEMMA DraftReadSolo ==
  ASSUME Tables, Solo, NEW p \in Persons, DraftRead(p)
  PROVE  Solo' /\ KeptStep
<1> DEFINE r == [pc |-> "draft_read", cost |-> price, billed |-> tied, top |-> highest]
<1>1. Read(p, r)
  BY DEF DraftRead
<1>2. Knows(r, apps)
  BY DEF Knows
<1> HIDE DEF r
<1> QED BY <1>1, <1>2, Reading

LEMMA DraftDecideSolo ==
  ASSUME Tables, Solo, NEW p \in Persons, NEW percents, NEW c, DraftDecide(p, percents, c)
  PROVE  Solo' /\ KeptStep
<1>1. PICK i, number, loaded, cost, prev :
        /\ i \in IF OpenDraft = {} THEN {0} ELSE OpenDraft
        /\ Decide(p, [pc |-> "draft", id |-> i, number |-> number, late |-> FALSE,
                      loaded |-> loaded, choice |-> c, lines |-> draft_lines(cost, percents, prev)])
        /\ req[p].pc = "draft_read"
  BY DEF DraftDecide
<1> DEFINE lines == draft_lines(cost, percents, prev)
           r == [pc |-> "draft", id |-> i, number |-> number, late |-> FALSE,
                 loaded |-> loaded, choice |-> c, lines |-> lines]
<1>2. Shaped(lines)
  BY DraftLinesShaped
<1>3. /\ i = 0 => \A j \in Ids : apps[j].status # "draft"
      /\ i # 0 => i \in Ids /\ apps[i].status = "draft"
  <2>1. 0 \notin OpenDraft
    BY BoundAssumption DEF OpenDraft, Ids
  <2> QED BY <1>1, <2>1 DEF OpenDraft
<1> HIDE DEF lines
<1>4. Knows(r, apps)
  BY <1>2, <1>3 DEF Knows
<1>5. req' = [req EXCEPT ![p] = r] /\ UNCHANGED <<apps, alone>>
  BY <1>1 DEF Decide, lines
<1>6. req[p] # Idle
  BY <1>1 DEF Idle
<1> HIDE DEF r
<1> QED BY <1>4, <1>5, <1>6, Deciding

LEMMA DraftInsertSolo ==
  ASSUME Tables, Solo, NEW p \in Persons, DraftInsert(p)
  PROVE  Solo' /\ KeptStep
<1>1. /\ req[p].pc = "draft" /\ req[p].id = 0
      /\ \E i \in Ids : apps[i].status = "absent" /\ Write(p, i, Drafted(req[p]), FALSE)
  BY DraftInsertWrites
<1>2. PICK i \in Ids : apps[i].status = "absent" /\ Write(p, i, Drafted(req[p]), FALSE)
  BY <1>1
<1>3. alone' = alone
  BY <1>2 DEF Write
<1>4. CASE ~alone
  BY <1>3, <1>4 DEF Solo, KeptStep
<1>5. CASE alone
  <2>1. Shaped(req[p].lines) /\ \A j \in Ids : apps[j].status # "draft"
    BY <1>1, <1>5 DEF Solo, AllKnow, Knows
  <2>2. req[p] # Idle
    BY <1>1 DEF Idle
  <2>3. Drafted(req[p]).status = "draft" /\ RowOK(Drafted(req[p]))
    BY <2>1 DEF Drafted, Row, RowOK, Closed
  <2>4. ~Closed(apps[i])
    BY <1>2 DEF Closed
  <2> QED BY <1>2, <1>5, <2>1, <2>2, <2>3, <2>4, Writing
<1> QED BY <1>4, <1>5

LEMMA DraftReplaceSolo ==
  ASSUME Tables, Solo, NEW p \in Persons, DraftReplace(p)
  PROVE  Solo' /\ KeptStep
<1> DEFINE r == req[p]
           a == apps[r.id]
<1>1. /\ r.pc = "draft" /\ r.id # 0
      /\ \E lines \in Redrafted(a, r) : Write(p, r.id, Replaced(a, r, lines), TRUE)
  BY DEF DraftReplace
<1>2. PICK lines \in Redrafted(a, r) : Write(p, r.id, Replaced(a, r, lines), TRUE)
  BY <1>1
<1>3. alone' = alone
  BY <1>2 DEF Write
<1>4. CASE ~alone
  BY <1>3, <1>4 DEF Solo, KeptStep
<1>5. CASE alone
  <2>1. Shaped(r.lines) /\ r.id \in Ids /\ a.status = "draft"
    BY <1>1, <1>5 DEF Solo, AllKnow, Knows
  <2>2. r # Idle
    BY <1>1 DEF Idle
  <2>3. RowOK(a) /\ ~Closed(a)
    BY <1>5, <2>1 DEF Solo, AllRows, Closed
  <2>4. Shaped(lines)
    BY <2>1, <2>3, RedraftedShaped DEF RowOK
  <2>5. Replaced(a, r, lines).status = "draft" /\ RowOK(Replaced(a, r, lines))
    BY <2>1, <2>3, <2>4 DEF Replaced, Row, RowOK, Closed
  <2>6. \A j \in Ids : apps[j].status = "draft" => j = r.id
    BY <1>5, <2>1 DEF Solo, OneOpen
  <2> QED BY <1>2, <1>5, <2>1, <2>2, <2>3, <2>5, <2>6, Writing
<1> QED BY <1>4, <1>5

LEMMA IssueReadSolo ==
  ASSUME Tables, Solo, NEW p \in Persons, NEW i \in Ids, IssueRead(p, i)
  PROVE  Solo' /\ KeptStep
<1>1. PICK hold, before :
        /\ apps[i].status = "draft"
        /\ Read(p, [pc |-> "issue_read", id |-> i, hold |-> hold, before |-> before,
                    due |-> amount_due(EarnedOf(Held(apps[i].lines, hold)), before),
                    rate |-> IF apps[i].choice = "yes" THEN rate ELSE NoRate,
                    rate_undecided |-> apps[i].choice = "yes" /\ rate = NoRate])
  BY DEF IssueRead
<1> DEFINE owed == amount_due(EarnedOf(Held(apps[i].lines, hold)), before)
           r == [pc |-> "issue_read", id |-> i, hold |-> hold, before |-> before, due |-> owed,
                 rate |-> IF apps[i].choice = "yes" THEN rate ELSE NoRate,
                 rate_undecided |-> apps[i].choice = "yes" /\ rate = NoRate]
<1>2. Due(apps[i], r)
  BY DEF Due
<1>3. apps[i].choice # "yes" => r.rate = NoRate
  OBVIOUS
<1>4. apps[i].choice = "yes" /\ r.rate = NoRate => r.rate_undecided
  OBVIOUS
<1>5. r.pc = "issue_read" /\ r.id = i
  OBVIOUS
<1>6. Read(p, r)
  BY <1>1
<1> HIDE DEF r
<1>7. Knows(r, apps)
  BY <1>1, <1>2, <1>3, <1>4, <1>5 DEF Knows
<1> QED BY <1>6, <1>7, Reading

LEMMA IssueDecideSolo ==
  ASSUME Tables, Solo, NEW p \in Persons, IssueDecide(p)
  PROVE  Solo' /\ KeptStep
<1> DEFINE q == req[p]
           a == apps[q.id]
           r == [pc |-> "issue", id |-> q.id, late |-> FALSE, before |-> q.before, due |-> q.due,
                 rate |-> IF a.choice = "yes" THEN q.rate ELSE NoRate,
                 hold |-> Holding(a.lines, q.hold)]
<1>1. q.pc = "issue_read" /\ MayIssue(a, q) /\ Decide(p, r)
  BY DEF IssueDecide, Holding
<1>2. ASSUME alone
      PROVE  Knows(r, apps)
  <2>1. /\ q.id \in Ids /\ a.status = "draft" /\ Due(a, q)
        /\ a.choice # "yes" => q.rate = NoRate
        /\ a.choice = "yes" /\ q.rate = NoRate => q.rate_undecided
    BY <1>1, <1>2 DEF Solo, AllKnow, Knows
  <2>2. Shaped(a.lines)
    BY <1>2, <2>1 DEF Solo, AllRows, RowOK
  <2>3. Held(a.lines, r.hold) = Held(a.lines, q.hold)
    BY <2>2, HoldingSame
  <2>4. r.due = q.due /\ r.before = q.before
    OBVIOUS
  <2>5. Due(a, r)
    BY <2>1, <2>3, <2>4 DEF Due
  <2>6. RateKnown(a.choice, r.rate)
    BY <1>1, <2>1 DEF RateKnown, MayIssue
  <2>7. r.pc = "issue" /\ r.id = q.id
    OBVIOUS
  <2> HIDE DEF r
  <2> QED BY <2>1, <2>5, <2>6, <2>7 DEF Knows
<1>3. req' = [req EXCEPT ![p] = r] /\ UNCHANGED <<apps, alone>>
  BY <1>1 DEF Decide
<1>4. req[p] # Idle
  BY <1>1 DEF Idle
<1> HIDE DEF r
<1> QED BY <1>2, <1>3, <1>4, Deciding

LEMMA IssueWriteSolo ==
  ASSUME Tables, Solo, NEW p \in Persons, IssueWrite(p)
  PROVE  Solo' /\ KeptStep
<1> DEFINE r == req[p]
           a == apps[r.id]
<1>1. r.pc = "issue" /\ Write(p, r.id, Issued(a, r), FALSE)
  BY DEF IssueWrite
<1>2. alone' = alone
  BY <1>1 DEF Write
<1>3. CASE ~alone
  BY <1>2, <1>3 DEF Solo, KeptStep
<1>4. CASE alone
  <2>1. r.id \in Ids /\ a.status = "draft" /\ Due(a, r) /\ RateKnown(a.choice, r.rate)
    BY <1>1, <1>4 DEF Solo, AllKnow, Knows
  <2>2. r # Idle
    BY <1>1 DEF Idle
  <2>3. RowOK(a) /\ ~Closed(a)
    BY <1>4, <2>1 DEF Solo, AllRows, Closed
  <2>4. Shaped(Held(a.lines, r.hold))
    BY <2>3, HeldShaped DEF RowOK
  <2>5. RateKnown(a.choice, IF r.rate # NoRate THEN r.rate ELSE a.rate)
    BY <2>1, <2>3 DEF RowOK
  <2>6. /\ Issued(a, r).status = "issued" /\ Issued(a, r).lines = Held(a.lines, r.hold)
        /\ Issued(a, r).due = r.due /\ Issued(a, r).before = r.before
        /\ Issued(a, r).choice = a.choice
        /\ Issued(a, r).rate = IF r.rate # NoRate THEN r.rate ELSE a.rate
    BY DEF Issued, Row
  <2>7. RowOK(Issued(a, r))
    BY <2>1, <2>4, <2>5, <2>6 DEF RowOK, Closed, Due
  <2> QED BY <1>1, <1>4, <2>1, <2>2, <2>3, <2>6, <2>7, Writing
<1> QED BY <1>3, <1>4

LEMMA DiscardWriteSolo ==
  ASSUME Tables, Solo, NEW p \in Persons, DiscardWrite(p)
  PROVE  Solo' /\ KeptStep
<1> DEFINE r == req[p]
           gone == NoRow("discarded")
<1>1. r.pc = "discard" /\ Write(p, r.id, gone, TRUE)
  BY DEF DiscardWrite
<1>2. alone' = alone
  BY <1>1 DEF Write
<1>3. CASE ~alone
  BY <1>2, <1>3 DEF Solo, KeptStep
<1>4. CASE alone
  <2>1. r.id \in Ids /\ ~Closed(apps[r.id])
    BY <1>1, <1>4 DEF Solo, AllKnow, Knows, Closed
  <2>2. r # Idle
    BY <1>1 DEF Idle
  <2>3. gone.status = "discarded" /\ RowOK(gone)
    BY DEF NoRow, Row, RowOK, Closed, Shaped
  <2> HIDE DEF gone
  <2> QED BY <1>1, <1>4, <2>1, <2>2, <2>3, Writing
<1> QED BY <1>3, <1>4

LEMMA VoidWriteSolo ==
  ASSUME Tables, Solo, NEW p \in Persons, VoidWrite(p)
  PROVE  Solo' /\ KeptStep
<1> DEFINE r == req[p]
           a == apps[r.id]
<1>1. r.pc = "void" /\ Write(p, r.id, Voided(a), FALSE)
  BY DEF VoidWrite
<1>2. alone' = alone
  BY <1>1 DEF Write
<1>3. CASE ~alone
  BY <1>2, <1>3 DEF Solo, KeptStep
<1>4. CASE alone
  <2>1. r.id \in Ids /\ a.status = "issued"
    BY <1>1, <1>4 DEF Solo, AllKnow, Knows
  <2>2. r # Idle
    BY <1>1 DEF Idle
  <2>3. RowOK(a) /\ Closed(a)
    BY <1>4, <2>1 DEF Solo, AllRows, Closed
  <2>4. Voided(a).status = "void" /\ Frozen(Voided(a)) = Frozen(a)
    BY DEF Voided, Row, Frozen
  <2>5. RowOK(Voided(a))
    BY <2>3 DEF Voided, Row, RowOK, Closed
  <2> QED BY <1>1, <1>4, <2>1, <2>2, <2>4, <2>5, Writing
<1> QED BY <1>3, <1>4

-----------------------------------------------------------------------------
(* The invariant and what follows from it. *)

LEMMA InitSolo == Init => Solo
<1> SUFFICES ASSUME Init PROVE OneAtATime /\ AllRows(apps) /\ OneOpen(apps) /\ AllKnow
  BY DEF Solo
<1>1. /\ \A p \in Persons : req[p] = Idle
      /\ \A i \in Ids : apps[i] = NoRow("absent")
  BY DEF Init
<1>2. NoRow("absent").status = "absent" /\ RowOK(NoRow("absent"))
  BY DEF NoRow, Row, RowOK, Closed, Shaped
<1> QED BY <1>1, <1>2, IdleKnows DEF OneAtATime, AllRows, OneOpen, AllKnow

LEMMA SoloStep ==
  ASSUME Tables, Solo, [Next]_vars
  PROVE  Solo' /\ KeptStep
<1>1. ASSUME UNCHANGED <<apps, req, alone>>
      PROVE  Solo' /\ KeptStep
  BY <1>1 DEF Solo, OneAtATime, AllKnow, KeptStep
<1>2. CASE UNCHANGED vars \/ AroundStep
  BY <1>1, <1>2, AroundFacts DEF vars
<1>3. ASSUME NEW p \in Persons, RequestFails(p)
      PROVE  Solo' /\ KeptStep
  BY <1>3, IdleKnows, Deciding DEF RequestFails
<1>4. ASSUME NEW p \in Persons, NEW i \in Ids, DiscardRead(p, i)
      PROVE  Solo' /\ KeptStep
  <2> DEFINE r == [pc |-> "discard", id |-> i, late |-> FALSE]
  <2>1. Read(p, r) /\ Knows(r, apps)
    BY <1>4 DEF DiscardRead, MayDiscard, Knows
  <2> HIDE DEF r
  <2> QED BY <2>1, Reading
<1>5. ASSUME NEW p \in Persons, NEW i \in Ids, VoidRead(p, i)
      PROVE  Solo' /\ KeptStep
  <2> DEFINE r == [pc |-> "void", id |-> i]
  <2>1. Read(p, r) /\ Knows(r, apps)
    BY <1>5 DEF VoidRead, Knows
  <2> HIDE DEF r
  <2> QED BY <2>1, Reading
<1>6. CASE Next /\ ~AroundStep
  BY <1>6, <1>3, <1>4, <1>5, DraftReadSolo, DraftDecideSolo, DraftInsertSolo, DraftReplaceSolo,
     IssueReadSolo, IssueDecideSolo, IssueWriteSolo, DiscardWriteSolo, VoidWriteSolo
     DEF Next, AroundStep
<1> QED BY <1>2, <1>6

\* The inductive invariant.
LEMMA SoloInvariant == Spec => [](Tables /\ Solo)
<1>1. Init => Tables /\ Solo
  BY InitTables, InitSolo
<1>2. Tables /\ Solo /\ [Next]_vars => (Tables /\ Solo)'
  BY VoidLemma, SoloStep
<1> QED BY <1>1, <1>2, PTL DEF Spec

\* "The job's open draft" (pay_application_service.py:253): requests handled one
\* after the other never leave a job with two drafts.
THEOREM OpenDraftIsOne == Spec => []OneDraft
<1>1. Solo => OneDraft
  <2> SUFFICES ASSUME OneOpen(apps) PROVE Cardinality({i \in Ids : apps[i].status = "draft"}) <= 1
    BY DEF Solo, OneDraft
  <2> DEFINE open == {i \in Ids : apps[i].status = "draft"}
  <2>1. CASE open = {}
    BY <2>1, FS_EmptySet
  <2>2. CASE open # {}
    <3>1. PICK i \in Ids : open = {i}
      BY <2>2 DEF OneOpen
    <3>2. Cardinality({i}) = 1
      BY FS_Singleton
    <3> QED BY <3>1, <3>2
  <2> QED BY <2>1, <2>2
<1> QED BY <1>1, SoloInvariant, PTL

\* Requests handled one after the other keep the lines and the figures of an issued
\* application, whatever changes around them.
THEOREM IssuedStaysKept == Spec => IssuedKept
<1>1. Tables /\ Solo /\ [Next]_vars =>
        [alone' => \A i \in Ids : Closed(apps[i]) =>
                     /\ apps'[i].status \in {apps[i].status, "void"}
                     /\ Frozen(apps'[i]) = Frozen(apps[i])]_vars
  BY SoloStep DEF KeptStep
<1> QED BY <1>1, SoloInvariant, PTL DEF Spec, IssuedKept

\* The amount due frozen at issue is what the frozen lines earn less the frozen
\* billed before, although lines and figures are read at two different moments.
THEOREM DueIsExplained == Spec => []DueExplained
<1>1. Solo => DueExplained
  BY DEF Solo, DueExplained, AllRows, RowOK
<1> QED BY <1>1, SoloInvariant, PTL

\* While no two requests overlap, an issued application has its surcharge answered, and
\* a rate exactly when the answer is yes.
THEOREM SurchargeIsDecided == Spec => []SurchargeDecided
<1>1. Solo => SurchargeDecided
  BY DEF Solo, SurchargeDecided, AllRows, RowOK, RateKnown
<1> QED BY <1>1, SoloInvariant, PTL

\* While no two requests overlap: the amount due frozen at issue is what the frozen lines
\* earn less the frozen billed before, and the surcharge is answered, with its rate
\* exactly when it applies.
THEOREM IssuedIsExplained == Spec => []IssuedExplained
BY DueIsExplained, SurchargeIsDecided, PTL DEF IssuedExplained

\* While no two requests overlap an issued application keeps its lines and figures; a
\* void one is never issued or drafted again, even when they do (a discard that overlaps
\* the void may still close it as discarded).
THEOREM IssuedIsKept == Spec => IssuedStays
BY IssuedStaysKept, VoidStaysVoid DEF IssuedStays

-----------------------------------------------------------------------------
(* What an application earns, while requests do not overlap. *)

\* The latest of the earlier issued applications that list the work area.
LastBefore(tbl, number, k, i) ==
  /\ i \in Earlier(tbl, number, k)
  /\ \A h \in Earlier(tbl, number, k) : ~(tbl[h].number > tbl[i].number)

LinesCount(lines) ==
  \A k \in Areas : lines[k] # NoLine => lines[k].value \in Nat /\ lines[k].percent \in Nat
RowCounts(a) == Exists(a) => a.number \in Nat /\ LinesCount(a.lines)

\* uq_pay_application_number, on the rows.
NumbersApart(tbl) ==
  \A i, j \in Ids : Exists(tbl[i]) /\ Exists(tbl[j]) /\ tbl[i].number = tbl[j].number => i = j

\* The line l stands at the percent of m, or earns no less.
NoLess(l, m) ==
  l.percent = m.percent \/ earned(l.value, l.percent) >= earned(m.value, m.percent)

\* The lines of the row a, held, go on from the latest application that lists them.
HoldFits(tbl, a, lines) ==
  /\ LinesCount(lines)
  /\ \A k \in Areas, i \in Ids :
       a.lines[k] # NoLine /\ LastBefore(tbl, a.number, k, i) => NoLess(lines[k], tbl[i].lines[k])

\* What the figures are worked out from.
Money ==
  /\ price \in [Areas -> Prices \cup {NotListed}] /\ tied \in Bills
  /\ DOMAIN docs = 1..MaxNumber

\* What a request carries into its next step.
Carries(r, tbl) ==
  /\ r.pc = "draft_read" => /\ r.cost \in [Areas -> Prices \cup {NotListed}]
                            /\ r.billed \in Bills /\ r.top \in Nat
  /\ r.pc = "draft" => LinesCount(r.lines) /\ (r.id = 0 => r.number \in Nat)
  /\ r.pc \in {"issue_read", "issue"} =>
       HoldFits(tbl, tbl[r.id], Held(tbl[r.id].lines, r.hold))

\* While requests do not overlap: rows that can be reckoned with, under numbers of
\* their own, and requests that carry what their next step needs.
Growing ==
  alone => /\ \A i \in Ids : RowCounts(apps[i])
           /\ NumbersApart(apps)
           /\ \A p \in Persons : Carries(req[p], apps)

-----------------------------------------------------------------------------
(* The rounding. *)

LEMMA RoundCounts ==
  ASSUME NEW n \in Nat, NEW d \in Nat \ {0}
  PROVE  RoundHalfUp(n, d) \in Nat
<1>1. PICK u \in Nat : u = 2 * n + d
  OBVIOUS
<1>2. PICK w \in Nat : w = 2 * d /\ w > 0
  OBVIOUS
<1>3. u \div w \in Nat
  BY <1>2
<1> QED BY <1>1, <1>2, <1>3 DEF RoundHalfUp

\* At the same percent a higher scheduled value earns no less.
LEMMA EarnedMonotone ==
  ASSUME NEW v \in Nat, NEW w \in Nat, w <= v, NEW c \in Nat
  PROVE  earned(v, c) >= earned(w, c)
<1>1. PICK x \in Nat : x = v * c
  OBVIOUS
<1>2. PICK y \in Nat : y = w * c
  OBVIOUS
<1>3. y <= x
  <2>1. PICK g \in Nat : v = w + g
    <3>1. v - w \in Nat /\ v = w + (v - w)
      OBVIOUS
    <3> QED BY <3>1
  <2>2. v * c = w * c + g * c /\ g * c \in Nat
    BY <2>1
  <2>3. PICK z \in Nat : z = g * c
    BY <2>2
  <2>4. x = y + z
    BY <1>1, <1>2, <2>2, <2>3
  <2> QED BY <1>1, <1>2, <2>3, <2>4
<1>4. (2 * x + 10000) \div 20000 >= (2 * y + 10000) \div 20000
  BY <1>3
<1>5. earned(v, c) = (2 * x + 10000) \div (2 * 10000) /\ earned(w, c) = (2 * y + 10000) \div (2 * 10000)
  BY <1>1, <1>2 DEF earned, RoundHalfUp, Hundred
<1> QED BY <1>4, <1>5

LEMMA EarnedCounts ==
  ASSUME NEW v \in Nat, NEW c \in Nat
  PROVE  earned(v, c) \in Nat
<1>1. PICK n \in Nat : n = v * c
  OBVIOUS
<1> QED BY <1>1, RoundCounts DEF earned, Hundred

LEMMA PrefillCounts ==
  ASSUME NEW v \in Nat, NEW b \in Nat
  PROVE  prefill_percent(v, b) \in Nat
<1>1. CASE v = 0 \/ b = 0
  BY <1>1 DEF prefill_percent
<1>2. CASE ~(v = 0 \/ b = 0)
  <2>1. PICK n \in Nat : n = b * Hundred
    BY DEF Hundred
  <2>2. PICK x \in Nat : x = RoundHalfUp(n, v)
    BY <1>2, RoundCounts
  <2>3. PICK y \in Nat : y = Hundred
    BY DEF Hundred
  <2>4. \E h \in {x, y} : \A z \in {x, y} : h =< z
    OBVIOUS
  <2>5. Min({x, y}) \in {x, y}
    BY <2>4 DEF Min
  <2>6. prefill_percent(v, b) = Min({x, y})
    BY <1>2, <2>1, <2>2, <2>3 DEF prefill_percent
  <2> QED BY <2>5, <2>6
<1> QED BY <1>1, <1>2

-----------------------------------------------------------------------------
(* The latest earlier application, and what is held of it. *)

\* Rows whose lines can be reckoned with.
RowsCount(tbl) == \A i \in Ids : RowCounts(tbl[i])

LEMMA EarlierCounts ==
  ASSUME NEW tbl, RowsCount(tbl), NEW number, NEW k \in Areas
  PROVE  \A i \in Earlier(tbl, number, k) :
           /\ i \in Ids /\ Exists(tbl[i]) /\ tbl[i].number \in Nat
           /\ tbl[i].lines[k].value \in Nat /\ tbl[i].lines[k].percent \in Nat
BY DEF Earlier, RowsCount, RowCounts, LinesCount, Exists

LEMMA EarlierHasLast ==
  ASSUME NEW tbl, RowsCount(tbl), NEW number, NEW k \in Areas, Earlier(tbl, number, k) # {}
  PROVE  \E l \in Earlier(tbl, number, k) :
           \A j \in Earlier(tbl, number, k) : tbl[j].number <= tbl[l].number
<1>1. PICK e : e = Earlier(tbl, number, k)
  OBVIOUS
<1>2. PICK T : T = {tbl[i].number : i \in e}
  OBVIOUS
<1>3. IsFiniteSet(e)
  <2>1. e \subseteq 1..MaxApps
    BY <1>1 DEF Earlier, Ids
  <2>2. IsFiniteSet(1..MaxApps)
    BY BoundAssumption, FS_Interval
  <2> QED BY <2>1, <2>2, FS_Subset
<1>4. IsFiniteSet(T)
  <2>1. PICK f : f = [i \in e |-> tbl[i].number]
    OBVIOUS
  <2>2. DOMAIN f = e /\ T = {f[i] : i \in DOMAIN f}
    BY <1>2, <2>1
  <2>3. IsFiniteSet(DOMAIN f)
    BY <1>3, <2>2
  <2> QED BY <2>2, <2>3, ImageFinite
<1>5. T \subseteq Nat
  BY <1>1, <1>2, EarlierCounts
<1>6. PICK x \in T : TRUE
  BY <1>1, <1>2
<1>7. PICK h \in T : \A y \in T : h >= y
  BY <1>4, <1>5, <1>6, HasLast
<1>8. PICK l \in e : tbl[l].number = h
  BY <1>2
<1>9. \A j \in e : tbl[j].number <= tbl[l].number
  BY <1>2, <1>5, <1>7, <1>8
<1> QED BY <1>1, <1>9

LEMMA PreviousCounts ==
  ASSUME NEW tbl, RowsCount(tbl), NEW number, NEW k \in Areas, NEW cost \in Nat, NEW billed \in Nat
  PROVE  previous_for(tbl, number, k, cost, billed).percent \in Nat
<1>1. PICK e : e = Earlier(tbl, number, k)
  OBVIOUS
<1>2. PICK l : l = CHOOSE i \in e : \A j \in e : tbl[j].number <= tbl[i].number
  OBVIOUS
<1>3. previous_for(tbl, number, k, cost, billed).percent =
        IF e = {} THEN prefill_percent(cost, billed) ELSE tbl[l].lines[k].percent
  BY <1>1, <1>2 DEF previous_for
<1>4. CASE e = {}
  BY <1>3, <1>4, PrefillCounts
<1>5. CASE e # {}
  <2>1. l \in e
    BY <1>1, <1>2, <1>5, EarlierHasLast
  <2> QED BY <1>1, <1>3, <1>5, <2>1, EarlierCounts
<1> QED BY <1>4, <1>5

LEMMA PreviousIs ==
  ASSUME NEW tbl, RowsCount(tbl), NumbersApart(tbl), NEW number, NEW k \in Areas,
         NEW i, LastBefore(tbl, number, k, i), NEW cost, NEW billed
  PROVE  LET m == tbl[i].lines[k] IN
         /\ previous_for(tbl, number, k, cost, billed).percent = m.percent
         /\ previous_for(tbl, number, k, cost, billed).earned = earned(m.value, m.percent)
<1>1. PICK e : e = Earlier(tbl, number, k)
  OBVIOUS
<1>2. PICK l : l = CHOOSE h \in e : \A j \in e : tbl[j].number <= tbl[h].number
  OBVIOUS
<1>3. i \in e /\ \A h \in e : tbl[h].number <= tbl[i].number
  BY <1>1, EarlierCounts DEF LastBefore
<1>4. l \in e /\ tbl[i].number <= tbl[l].number
  BY <1>2, <1>3
<1>5. tbl[i].number = tbl[l].number
  BY <1>1, <1>3, <1>4, EarlierCounts
<1>6. i = l
  BY <1>1, <1>3, <1>4, <1>5, EarlierCounts DEF NumbersApart
<1>7. /\ previous_for(tbl, number, k, cost, billed).percent = tbl[l].lines[k].percent
      /\ previous_for(tbl, number, k, cost, billed).earned =
           earned(tbl[l].lines[k].value, tbl[l].lines[k].percent)
  BY <1>1, <1>2, <1>3 DEF previous_for
<1> QED BY <1>6, <1>7

\* The figures a route works with: what is billed, and the cost of a work area.
Known(cost, billed) == \A k \in Areas : cost[k] \in Nat /\ billed[k] \in Nat

LEMMA HeldFits ==
  ASSUME NEW tbl, RowsCount(tbl), NumbersApart(tbl), NEW a, LinesCount(a.lines),
         NEW cost, NEW billed, Known(cost, billed),
         NEW prev, \A k \in Areas : prev[k] = previous_for(tbl, a.number, k, cost[k], billed[k])
  PROVE  HoldFits(tbl, a, Held(a.lines, held_lines(a.lines, prev)))
<1>1. PICK hold : hold = held_lines(a.lines, prev)
  OBVIOUS
<1>2. PICK lines : lines = Held(a.lines, hold)
  OBVIOUS
<1>3. ASSUME NEW k \in Areas
      PROVE  /\ prev[k].percent \in Nat /\ prev[k].percent # NoHold
             /\ hold[k] = IF a.lines[k] # NoLine
                             /\ negative_issue(a.lines[k].value, a.lines[k].percent, prev[k])
                          THEN prev[k].percent ELSE NoHold
             /\ lines[k] = IF a.lines[k] # NoLine /\ hold[k] # NoHold
                           THEN [value |-> a.lines[k].value, percent |-> hold[k]] ELSE a.lines[k]
  <2>1. prev[k].percent \in Nat
    BY PreviousCounts DEF Known
  <2> QED BY <2>1, <1>1, <1>2, HoldAssumption DEF held_lines, Held
<1>4. LinesCount(lines)
  <2> SUFFICES ASSUME NEW k \in Areas, lines[k] # NoLine
        PROVE  lines[k].value \in Nat /\ lines[k].percent \in Nat
    BY DEF LinesCount
  <2>1. CASE a.lines[k] # NoLine /\ hold[k] # NoHold
    <3>1. hold[k] \in Nat
      BY <1>3, <2>1
    <3>2. lines[k] = [value |-> a.lines[k].value, percent |-> hold[k]]
      BY <1>3, <2>1
    <3> QED BY <2>1, <3>1, <3>2 DEF LinesCount
  <2>2. CASE ~(a.lines[k] # NoLine /\ hold[k] # NoHold)
    <3>1. lines[k] = a.lines[k]
      BY <1>3, <2>2
    <3> QED BY <3>1 DEF LinesCount
  <2> QED BY <2>1, <2>2
<1>5. ASSUME NEW k \in Areas, NEW i \in Ids, a.lines[k] # NoLine, LastBefore(tbl, a.number, k, i)
      PROVE  NoLess(lines[k], tbl[i].lines[k])
  <2>1. PICK m : m = tbl[i].lines[k]
    OBVIOUS
  <2>2. prev[k].percent = m.percent /\ prev[k].earned = earned(m.value, m.percent)
    BY <1>5, <2>1, PreviousIs
  <2>3. CASE negative_issue(a.lines[k].value, a.lines[k].percent, prev[k])
    <3>1. lines[k] = [value |-> a.lines[k].value, percent |-> prev[k].percent]
      BY <1>3, <1>5, <2>3
    <3> QED BY <2>1, <2>2, <3>1 DEF NoLess
  <2>4. CASE ~negative_issue(a.lines[k].value, a.lines[k].percent, prev[k])
    <3>1. lines[k] = a.lines[k]
      BY <1>3, <2>4
    <3>2. a.lines[k].value \in Nat /\ a.lines[k].percent \in Nat
      BY <1>5 DEF LinesCount
    <3>3. m.value \in Nat /\ m.percent \in Nat
      BY <1>5, <2>1, EarlierCounts DEF LastBefore
    <3>4. PICK x \in Nat : x = earned(a.lines[k].value, a.lines[k].percent)
      BY <3>2, EarnedCounts
    <3>5. PICK y \in Nat : y = earned(m.value, m.percent)
      BY <3>3, EarnedCounts
    <3>6. ~(x < y)
      BY <2>2, <2>4, <3>4, <3>5 DEF negative_issue
    <3>7. x >= y
      BY <3>6
    <3> QED BY <2>1, <3>1, <3>4, <3>5, <3>7 DEF NoLess
  <2> QED BY <2>3, <2>4
<1> QED BY <1>1, <1>2, <1>4, <1>5 DEF HoldFits

-----------------------------------------------------------------------------
(* The numbers. *)

LEMMA LastIsOne ==
  ASSUME NEW T, IsFiniteSet(T), T \subseteq Nat, NEW x \in T
  PROVE  Max(T) \in Nat
<1>1. \E h \in T : \A y \in T : h >= y
  BY HasLast
<1>2. Max(T) \in T
  BY <1>1 DEF Max
<1> QED BY <1>2

LEMMA HighestCounts ==
  ASSUME Money
  PROVE  highest \in Nat
<1>1. PICK T : T = {n \in DOMAIN docs : docs[n] # NoDoc} \cup {0}
  OBVIOUS
<1>2. T \subseteq 0..MaxNumber /\ 0 \in T
  BY <1>1, BoundAssumption DEF Money
<1>3. IsFiniteSet(T)
  <2>1. IsFiniteSet(0..MaxNumber)
    BY BoundAssumption, FS_Interval
  <2> QED BY <1>2, <2>1, FS_Subset
<1>4. T \subseteq Nat /\ 0 \in T
  BY <1>2
<1>5. Max(T) \in Nat
  BY <1>3, <1>4, LastIsOne
<1> QED BY <1>1, <1>5 DEF highest

LEMMA NextNumberCounts ==
  ASSUME RowsCount(apps), NEW top \in Nat
  PROVE  next_number(top) \in Nat
<1>1. PICK f : f = [i \in Present |-> apps[i].number]
  OBVIOUS
<1>2. PICK U : U = {f[i] : i \in DOMAIN f}
  OBVIOUS
<1>3. IsFiniteSet(DOMAIN f)
  <2>1. Present \subseteq 1..MaxApps
    BY DEF Present, Ids
  <2>2. IsFiniteSet(1..MaxApps)
    BY BoundAssumption, FS_Interval
  <2>3. IsFiniteSet(Present)
    BY <2>1, <2>2, FS_Subset
  <2> QED BY <1>1, <2>3
<1>4. IsFiniteSet(U)
  BY <1>2, <1>3, ImageFinite
<1>5. U \subseteq Nat
  BY <1>1, <1>2 DEF Present, RowsCount, RowCounts
<1>6. PICK T : T = {top} \cup U
  OBVIOUS
<1>7. IsFiniteSet(T)
  BY <1>4, <1>6, FS_Singleton, FS_Union
<1>8. Max(T) \in Nat
  BY <1>5, <1>6, <1>7, LastIsOne
<1>9. U = {apps[i].number : i \in Present}
  BY <1>1, <1>2
<1> QED BY <1>6, <1>8, <1>9 DEF next_number

LEMMA DraftLinesCount ==
  ASSUME NEW cost \in [Areas -> Prices \cup {NotListed}],
         NEW percents \in [Areas -> Percents \cup {Unnamed}],
         NEW prev, \A k \in Areas : prev[k].percent \in Nat
  PROVE  LinesCount(draft_lines(cost, percents, prev))
<1> SUFFICES ASSUME NEW k \in Areas, NEW l, l = draft_lines(cost, percents, prev)[k], l # NoLine
      PROVE  l.value \in Nat /\ l.percent \in Nat
  BY DEF LinesCount
<1>1. PICK pct : pct = IF percents[k] = Unnamed THEN prev[k].percent ELSE percents[k]
  OBVIOUS
<1>2. l = IF cost[k] \in {NotListed, 0} \/ pct > Hundred THEN NoLine
          ELSE [value |-> cost[k], percent |-> pct]
  BY <1>1 DEF draft_lines
<1>3. pct \in Nat
  BY <1>1, PercentAssumption
<1>4. cost[k] # NotListed => cost[k] \in Nat
  BY PriceAssumption
<1> QED BY <1>2, <1>3, <1>4

LEMMA CostCounts ==
  ASSUME NEW v \in Prices \cup {NotListed}
  PROVE  Cost(v) \in Nat
BY PriceAssumption DEF Cost

-----------------------------------------------------------------------------
(* The steps. *)

\* What an application earns when it is issued with the row app.
GrowsOn(tbl, j, app) ==
  \A k \in Areas : \A i \in Earlier(tbl, tbl[j].number, k) :
    LET l == app.lines[k]
        m == tbl[i].lines[k]
    IN \/ l = NoLine \/ l.value < m.value
       \/ \E h \in Earlier(tbl, tbl[j].number, k) : tbl[h].number > tbl[i].number
       \/ earned(l.value, l.percent) >= earned(m.value, m.percent)

GrowStep ==
  alone' => \A j \in Ids : apps[j].status = "draft" /\ apps'[j].status = "issued" =>
              GrowsOn(apps, j, apps'[j])

LEMMA IdleCarries == ASSUME NEW tbl PROVE Carries(Idle, tbl)
BY DEF Carries, Idle

LEMMA GrowReplacing ==
  ASSUME Tables, Growing, alone, NEW p \in Persons, NEW r, apps' = apps, req'[p] = r,
         \A q \in Persons : q # p => req'[q] = Idle, Carries(r, apps)
  PROVE  Growing' /\ GrowStep
<1>1. \A q \in Persons : Carries(req'[q], apps')
  BY IdleCarries
<1>2. (\A i \in Ids : RowCounts(apps'[i])) /\ NumbersApart(apps')
  BY DEF Growing
<1> QED BY <1>1, <1>2 DEF Growing, GrowStep

LEMMA GrowWriting ==
  ASSUME Tables, Solo, Growing, alone, NEW p \in Persons, req[p] # Idle,
         NEW i \in Ids, NEW app, NEW b, Write(p, i, app, b), RowCounts(app),
         Exists(app) => \A j \in Ids : Exists(apps[j]) /\ apps[j].number = app.number => j = i,
         apps[i].status = "draft" /\ app.status = "issued" => GrowsOn(apps, i, app)
  PROVE  Growing' /\ GrowStep
<1>1. \A q \in Persons : q # p => req[q] = Idle
  BY DEF Solo, OneAtATime
<1>2. /\ \A j \in Ids : apps'[j] = IF j = i THEN app ELSE apps[j]
      /\ \A q \in Persons : req'[q] = Idle
  BY <1>1, WriteFacts
<1>3. \A j \in Ids : RowCounts(apps'[j])
  BY <1>2 DEF Growing
<1>4. NumbersApart(apps')
  BY <1>2 DEF Growing, NumbersApart
<1>5. \A q \in Persons : Carries(req'[q], apps')
  BY <1>2, IdleCarries
<1>6. GrowStep
  BY <1>2 DEF GrowStep
<1> QED BY <1>3, <1>4, <1>5, <1>6 DEF Growing

LEMMA GrowReading ==
  ASSUME Tables, Growing, NEW p \in Persons, NEW r, Read(p, r), alone => Carries(r, apps)
  PROVE  Growing' /\ GrowStep
<1>1. CASE alone'
  <2>1. /\ alone /\ apps' = apps /\ req'[p] = r
        /\ \A q \in Persons : q # p => req'[q] = Idle
    BY <1>1, ReadFacts
  <2> QED BY <2>1, GrowReplacing
<1>2. CASE ~alone'
  BY <1>2 DEF Growing, GrowStep
<1> QED BY <1>1, <1>2

LEMMA GrowDeciding ==
  ASSUME Tables, Solo, Growing, NEW p \in Persons, req[p] # Idle, NEW r,
         req' = [req EXCEPT ![p] = r], UNCHANGED <<apps, alone>>,
         alone => Carries(r, apps)
  PROVE  Growing' /\ GrowStep
<1>1. CASE alone
  <2>1. \A q \in Persons : q # p => req[q] = Idle
    BY <1>1 DEF Solo, OneAtATime
  <2>2. apps' = apps /\ req'[p] = r /\ \A q \in Persons : q # p => req'[q] = Idle
    BY <2>1, DecideFacts
  <2> QED BY <1>1, <2>2, GrowReplacing
<1>2. CASE ~alone
  BY <1>2 DEF Growing, GrowStep
<1> QED BY <1>1, <1>2

LEMMA DraftReadGrows ==
  ASSUME Tables, Money, Growing, NEW p \in Persons, DraftRead(p)
  PROVE  Growing' /\ GrowStep
<1> DEFINE r == [pc |-> "draft_read", cost |-> price, billed |-> tied, top |-> highest]
<1>1. Read(p, r)
  BY DEF DraftRead
<1>2. Carries(r, apps)
  BY HighestCounts DEF Carries, Money
<1> HIDE DEF r
<1> QED BY <1>1, <1>2, GrowReading

LEMMA DraftDecideGrows ==
  ASSUME Tables, Solo, Growing, NEW p \in Persons, NEW percents \in [Areas -> Percents \cup {Unnamed}],
         NEW c, DraftDecide(p, percents, c)
  PROVE  Growing' /\ GrowStep
<1> DEFINE q == req[p]
           n(i) == IF i = 0 THEN next_number(q.top) ELSE apps[i].number
           before(i) == [k \in Areas |-> previous_for(apps, n(i), k, Cost(q.cost[k]), q.billed[k])]
<1>1. PICK i, loaded, number, prev :
        /\ q.pc = "draft_read" /\ i \in IF OpenDraft = {} THEN {0} ELSE OpenDraft
        /\ number = n(i) /\ prev = before(i)
        /\ Decide(p, [pc |-> "draft", id |-> i, number |-> number, late |-> FALSE,
                      loaded |-> loaded, choice |-> c, lines |-> draft_lines(q.cost, percents, prev)])
  BY DEF DraftDecide
<1> DEFINE lines == draft_lines(q.cost, percents, prev)
           r == [pc |-> "draft", id |-> i, number |-> number, late |-> FALSE,
                 loaded |-> loaded, choice |-> c, lines |-> lines]
<1>2. ASSUME alone
      PROVE  Carries(r, apps)
  <2>1. /\ q.cost \in [Areas -> Prices \cup {NotListed}] /\ q.billed \in Bills /\ q.top \in Nat
        /\ RowsCount(apps)
    BY <1>1, <1>2 DEF Growing, Carries, RowsCount
  <2>2. ASSUME NEW k \in Areas
        PROVE  prev[k].percent \in Nat
    <3>1. prev[k] = previous_for(apps, number, k, Cost(q.cost[k]), q.billed[k])
      BY <1>1
    <3>2. Cost(q.cost[k]) \in Nat /\ q.billed[k] \in Nat
      BY <2>1, CostCounts DEF Bills
    <3> QED BY <2>1, <3>1, <3>2, PreviousCounts
  <2>3. LinesCount(lines)
    BY <2>1, <2>2, DraftLinesCount
  <2>4. i = 0 => number \in Nat
    BY <1>1, <2>1, NextNumberCounts
  <2> HIDE DEF lines
  <2> QED BY <2>3, <2>4 DEF Carries
<1>3. req' = [req EXCEPT ![p] = r] /\ UNCHANGED <<apps, alone>>
  BY <1>1 DEF Decide
<1>4. req[p] # Idle
  BY <1>1 DEF Idle
<1> HIDE DEF r
<1> QED BY <1>2, <1>3, <1>4, GrowDeciding

LEMMA DraftInsertGrows ==
  ASSUME Tables, Solo, Growing, NEW p \in Persons, DraftInsert(p)
  PROVE  Growing' /\ GrowStep
<1>1. /\ req[p].pc = "draft" /\ req[p].id = 0 /\ UniqueNumber(req[p].number)
      /\ \E i \in Ids : apps[i].status = "absent" /\ Write(p, i, Drafted(req[p]), FALSE)
  BY DraftInsertWrites DEF DraftInsert
<1>2. PICK i \in Ids : apps[i].status = "absent" /\ Write(p, i, Drafted(req[p]), FALSE)
  BY <1>1
<1>3. alone' = alone
  BY <1>2 DEF Write
<1>4. CASE ~alone
  BY <1>3, <1>4 DEF Growing, GrowStep
<1>5. CASE alone
  <2>1. LinesCount(req[p].lines) /\ req[p].number \in Nat
    BY <1>1, <1>5 DEF Growing, Carries
  <2>2. req[p] # Idle
    BY <1>1 DEF Idle
  <2>3. /\ Drafted(req[p]).status = "draft" /\ Drafted(req[p]).number = req[p].number
        /\ Drafted(req[p]).lines = req[p].lines
    BY DEF Drafted, Row
  <2>4. RowCounts(Drafted(req[p]))
    BY <2>1, <2>3 DEF RowCounts
  <2>5. \A j \in Ids : Exists(apps[j]) => apps[j].number # req[p].number
    BY <1>1 DEF UniqueNumber, Present
  <2> QED BY <1>2, <1>5, <2>2, <2>3, <2>4, <2>5, GrowWriting
<1> QED BY <1>4, <1>5

\* A write that keeps the number of the row it is about.
LEMMA GrowKeeping ==
  ASSUME Tables, Solo, Growing, alone, NEW p \in Persons, req[p] # Idle,
         NEW i \in Ids, Exists(apps[i]), NEW app, NEW b, Write(p, i, app, b),
         app.number = apps[i].number, LinesCount(app.lines),
         apps[i].status = "draft" /\ app.status = "issued" => GrowsOn(apps, i, app)
  PROVE  Growing' /\ GrowStep
<1>1. RowCounts(app)
  BY DEF RowCounts, Growing
<1>2. \A j \in Ids : Exists(apps[j]) /\ apps[j].number = app.number => j = i
  BY DEF Growing, NumbersApart
<1> QED BY <1>1, <1>2, GrowWriting

LEMMA DraftReplaceGrows ==
  ASSUME Tables, Solo, Growing, NEW p \in Persons, DraftReplace(p)
  PROVE  Growing' /\ GrowStep
<1> DEFINE r == req[p]
           a == apps[r.id]
<1>1. /\ r.pc = "draft" /\ r.id # 0 /\ Exists(a)
      /\ \E lines \in Redrafted(a, r) : Write(p, r.id, Replaced(a, r, lines), TRUE)
  BY DEF DraftReplace
<1>2. PICK lines \in Redrafted(a, r) : Write(p, r.id, Replaced(a, r, lines), TRUE)
  BY <1>1
<1>3. alone' = alone
  BY <1>2 DEF Write
<1>4. CASE ~alone
  BY <1>3, <1>4 DEF Growing, GrowStep
<1>5. CASE alone
  <2>1. r.id \in Ids
    BY <1>1, <1>5 DEF Solo, AllKnow, Knows
  <2>2. r # Idle
    BY <1>1 DEF Idle
  <2>3. LinesCount(r.lines) /\ LinesCount(a.lines)
    BY <1>1, <1>5, <2>1 DEF Growing, Carries, RowCounts
  <2>4. LinesCount(lines)
    <3>1. CASE lines = r.lines
      BY <2>3, <3>1
    <3>2. CASE lines = [k \in Areas |-> IF r.lines[k] = NoLine THEN a.lines[k] ELSE r.lines[k]]
      <4>1. \A k \in Areas : lines[k] = IF r.lines[k] = NoLine THEN a.lines[k] ELSE r.lines[k]
        BY <3>2
      <4> QED BY <2>3, <4>1 DEF LinesCount
    <3> QED BY <1>2, <3>1, <3>2 DEF Redrafted
  <2>5. /\ Replaced(a, r, lines).status = a.status /\ Replaced(a, r, lines).number = a.number
        /\ Replaced(a, r, lines).lines = lines
    BY DEF Replaced, Row
  <2> QED BY <1>1, <1>2, <1>5, <2>1, <2>2, <2>4, <2>5, GrowKeeping
<1> QED BY <1>4, <1>5

LEMMA IssueReadGrows ==
  ASSUME Tables, Money, Growing, NEW p \in Persons, NEW i \in Ids, IssueRead(p, i)
  PROVE  Growing' /\ GrowStep
<1> DEFINE a == apps[i]
<1>1. PICK prev, before, owed, surcharge_rate, open :
        /\ a.status = "draft"
        /\ prev = [k \in Areas |-> Previous(a.number, k)]
        /\ Read(p, [pc |-> "issue_read", id |-> i, hold |-> held_lines(a.lines, prev), before |-> before,
                    due |-> owed, rate |-> surcharge_rate, rate_undecided |-> open])
  BY DEF IssueRead
<1> DEFINE hold == held_lines(a.lines, prev)
           r == [pc |-> "issue_read", id |-> i, hold |-> hold, before |-> before,
                 due |-> owed, rate |-> surcharge_rate, rate_undecided |-> open]
<1>2. ASSUME alone
      PROVE  HoldFits(apps, a, Held(a.lines, hold))
  <2>1. RowsCount(apps) /\ NumbersApart(apps) /\ LinesCount(a.lines)
    BY <1>1, <1>2 DEF Growing, RowsCount, RowCounts, Exists
  <2>2. PICK cost : cost = [k \in Areas |-> Cost(price[k])]
    OBVIOUS
  <2>3. Known(cost, tied)
    BY <2>2, CostCounts DEF Known, Money, Bills
  <2>4. \A k \in Areas : prev[k] = previous_for(apps, a.number, k, cost[k], tied[k])
    BY <1>1, <2>2 DEF Previous
  <2> QED BY <2>1, <2>3, <2>4, HeldFits
<1>3. Read(p, r)
  BY <1>1
<1> HIDE DEF hold
<1>4. alone => Carries(r, apps)
  BY <1>2 DEF Carries
<1> HIDE DEF r
<1> QED BY <1>3, <1>4, GrowReading

LEMMA IssueDecideGrows ==
  ASSUME Tables, Solo, Growing, NEW p \in Persons, IssueDecide(p)
  PROVE  Growing' /\ GrowStep
<1> DEFINE q == req[p]
           a == apps[q.id]
<1>1. PICK surcharge_rate :
        /\ q.pc = "issue_read"
        /\ Decide(p, [pc |-> "issue", id |-> q.id, late |-> FALSE, before |-> q.before, due |-> q.due,
                      rate |-> surcharge_rate, hold |-> Holding(a.lines, q.hold)])
  BY DEF IssueDecide, Holding
<1> DEFINE hold == Holding(a.lines, q.hold)
           r == [pc |-> "issue", id |-> q.id, late |-> FALSE, before |-> q.before, due |-> q.due,
                 rate |-> surcharge_rate, hold |-> hold]
<1>2. ASSUME alone
      PROVE  HoldFits(apps, a, Held(a.lines, hold))
  <2>1. q.id \in Ids /\ HoldFits(apps, a, Held(a.lines, q.hold))
    BY <1>1, <1>2 DEF Solo, AllKnow, Knows, Growing, Carries
  <2>2. Shaped(a.lines)
    BY <1>2, <2>1 DEF Solo, AllRows, RowOK
  <2> QED BY <2>1, <2>2, HoldingSame
<1>3. req' = [req EXCEPT ![p] = r] /\ UNCHANGED <<apps, alone>>
  BY <1>1 DEF Decide
<1>4. req[p] # Idle
  BY <1>1 DEF Idle
<1> HIDE DEF hold
<1>5. alone => Carries(r, apps)
  BY <1>2 DEF Carries
<1> HIDE DEF r
<1> QED BY <1>3, <1>4, <1>5, GrowDeciding

\* What is held at issue earns no less than the latest before it, at no lower a value.
LEMMA HeldGrows ==
  ASSUME RowsCount(apps), NEW i \in Ids, NEW app, HoldFits(apps, apps[i], app.lines),
         \A k \in Areas : apps[i].lines[k] = NoLine => app.lines[k] = NoLine
  PROVE  GrowsOn(apps, i, app)
<1> SUFFICES ASSUME NEW k \in Areas, NEW e \in Earlier(apps, apps[i].number, k),
             app.lines[k] # NoLine, LastBefore(apps, apps[i].number, k, e),
             ~(app.lines[k].value < apps[e].lines[k].value)
      PROVE  earned(app.lines[k].value, app.lines[k].percent)
               >= earned(apps[e].lines[k].value, apps[e].lines[k].percent)
  BY DEF GrowsOn, LastBefore
<1>1. PICK l : l = app.lines[k]
  OBVIOUS
<1>2. PICK m : m = apps[e].lines[k]
  OBVIOUS
<1>3. e \in Ids /\ m.value \in Nat /\ m.percent \in Nat
  BY <1>2, EarlierCounts
<1>4. l.value \in Nat /\ l.percent \in Nat /\ NoLess(l, m)
  BY <1>1, <1>2, <1>3 DEF HoldFits, LinesCount
<1>5. m.value <= l.value
  BY <1>1, <1>2, <1>3, <1>4
<1>6. CASE l.percent = m.percent
  <2>1. earned(l.value, m.percent) >= earned(m.value, m.percent)
    BY <1>3, <1>4, <1>5, EarnedMonotone
  <2> QED BY <1>1, <1>2, <1>6, <2>1
<1>7. CASE earned(l.value, l.percent) >= earned(m.value, m.percent)
  BY <1>1, <1>2, <1>7
<1> QED BY <1>4, <1>6, <1>7 DEF NoLess

LEMMA IssueWriteGrows ==
  ASSUME Tables, Solo, Growing, NEW p \in Persons, IssueWrite(p)
  PROVE  Growing' /\ GrowStep
<1> DEFINE r == req[p]
           a == apps[r.id]
<1>1. r.pc = "issue" /\ Exists(a) /\ Write(p, r.id, Issued(a, r), FALSE)
  BY DEF IssueWrite
<1>2. alone' = alone
  BY <1>1 DEF Write
<1>3. CASE ~alone
  BY <1>2, <1>3 DEF Growing, GrowStep
<1>4. CASE alone
  <2>1. r.id \in Ids /\ HoldFits(apps, a, Held(a.lines, r.hold)) /\ RowsCount(apps)
    BY <1>1, <1>4 DEF Solo, AllKnow, Knows, Growing, Carries, RowsCount
  <2>2. r # Idle
    BY <1>1 DEF Idle
  <2>3. PICK app : app = Issued(a, r)
    OBVIOUS
  <2>4. app.number = a.number /\ app.lines = Held(a.lines, r.hold)
    BY <2>3 DEF Issued, Row
  <2>5. \A k \in Areas : a.lines[k] = NoLine => app.lines[k] = NoLine
    BY <2>4 DEF Held
  <2>6. LinesCount(app.lines) /\ HoldFits(apps, a, app.lines)
    BY <2>1, <2>4 DEF HoldFits
  <2>7. GrowsOn(apps, r.id, app)
    BY <2>1, <2>5, <2>6, HeldGrows
  <2> QED BY <1>1, <1>4, <2>1, <2>2, <2>3, <2>4, <2>6, <2>7, GrowKeeping
<1> QED BY <1>3, <1>4

LEMMA DiscardWriteGrows ==
  ASSUME Tables, Solo, Growing, NEW p \in Persons, DiscardWrite(p)
  PROVE  Growing' /\ GrowStep
<1> DEFINE r == req[p]
           gone == NoRow("discarded")
<1>1. r.pc = "discard" /\ Write(p, r.id, gone, TRUE)
  BY DEF DiscardWrite
<1>2. alone' = alone
  BY <1>1 DEF Write
<1>3. CASE ~alone
  BY <1>2, <1>3 DEF Growing, GrowStep
<1>4. CASE alone
  <2>1. r.id \in Ids
    BY <1>1, <1>4 DEF Solo, AllKnow, Knows
  <2>2. r # Idle
    BY <1>1 DEF Idle
  <2>3. gone.status = "discarded" /\ RowCounts(gone) /\ ~Exists(gone)
    BY DEF NoRow, Row, RowCounts, Exists
  <2> HIDE DEF gone
  <2> QED BY <1>1, <1>4, <2>1, <2>2, <2>3, GrowWriting
<1> QED BY <1>3, <1>4

LEMMA VoidWriteGrows ==
  ASSUME Tables, Solo, Growing, NEW p \in Persons, VoidWrite(p)
  PROVE  Growing' /\ GrowStep
<1> DEFINE r == req[p]
           a == apps[r.id]
<1>1. r.pc = "void" /\ Exists(a) /\ Write(p, r.id, Voided(a), FALSE)
  BY DEF VoidWrite
<1>2. alone' = alone
  BY <1>1 DEF Write
<1>3. CASE ~alone
  BY <1>2, <1>3 DEF Growing, GrowStep
<1>4. CASE alone
  <2>1. r.id \in Ids
    BY <1>1, <1>4 DEF Solo, AllKnow, Knows
  <2>2. r # Idle
    BY <1>1 DEF Idle
  <2>3. Voided(a).status = "void" /\ Voided(a).number = a.number /\ Voided(a).lines = a.lines
    BY DEF Voided, Row
  <2>4. LinesCount(a.lines)
    BY <1>1, <1>4, <2>1 DEF Growing, RowCounts
  <2> QED BY <1>1, <1>4, <2>1, <2>2, <2>3, <2>4, GrowKeeping
<1> QED BY <1>3, <1>4

LEMMA GrowingStep ==
  ASSUME Tables, Solo, Money, Growing, [Next]_vars
  PROVE  Growing' /\ GrowStep
<1>1. ASSUME UNCHANGED <<apps, req, alone>>
      PROVE  Growing' /\ GrowStep
  BY <1>1 DEF Growing, GrowStep
<1>2. CASE UNCHANGED vars \/ AroundStep
  BY <1>1, <1>2, AroundFacts DEF vars
<1>3. ASSUME NEW p \in Persons, RequestFails(p)
      PROVE  Growing' /\ GrowStep
  BY <1>3, IdleCarries, GrowDeciding DEF RequestFails
<1>4. ASSUME NEW p \in Persons, NEW i \in Ids, DiscardRead(p, i)
      PROVE  Growing' /\ GrowStep
  <2> DEFINE r == [pc |-> "discard", id |-> i, late |-> FALSE]
  <2>1. Read(p, r) /\ Carries(r, apps)
    BY <1>4 DEF DiscardRead, Carries
  <2> HIDE DEF r
  <2> QED BY <2>1, GrowReading
<1>5. ASSUME NEW p \in Persons, NEW i \in Ids, VoidRead(p, i)
      PROVE  Growing' /\ GrowStep
  <2> DEFINE r == [pc |-> "void", id |-> i]
  <2>1. Read(p, r) /\ Carries(r, apps)
    BY <1>5 DEF VoidRead, Carries
  <2> HIDE DEF r
  <2> QED BY <2>1, GrowReading
<1>6. CASE Next /\ ~AroundStep
  BY <1>6, <1>3, <1>4, <1>5, DraftReadGrows, DraftDecideGrows, DraftInsertGrows, DraftReplaceGrows,
     IssueReadGrows, IssueDecideGrows, IssueWriteGrows, DiscardWriteGrows, VoidWriteGrows
     DEF Next, AroundStep
<1> QED BY <1>2, <1>6

LEMMA MoneyStep ==
  ASSUME Money, [Next]_vars
  PROVE  Money'
<1>1. CASE UNCHANGED around
  BY <1>1 DEF around, Money
<1>2. ASSUME NEW k \in Areas, NEW v \in Prices \cup {NotListed}, Reprice(k, v)
      PROVE  Money'
  BY <1>2 DEF Reprice, Money
<1>3. ASSUME NEW k \in Areas, NEW b \in Amounts, TieLines(k, b)
      PROVE  Money'
  BY <1>3, PriceAssumption DEF TieLines, Money, Bills
<1>4. ASSUME NEW n, NEW b, KeyInvoice(n, b)
      PROVE  Money'
  BY <1>4 DEF KeyInvoice, Money
<1>5. ASSUME NEW r, DecideRate(r)
      PROVE  Money'
  BY <1>5 DEF DecideRate, Money
<1>6. ASSUME DecideKeys
      PROVE  Money'
  BY <1>6 DEF DecideKeys, Money
<1>7. ASSUME NEW p, NEW r, Read(p, r) \/ Decide(p, r)
      PROVE  UNCHANGED around
  BY <1>7 DEF Read, Decide
<1>8. ASSUME NEW p, NEW i, NEW app, NEW b, Write(p, i, app, b)
      PROVE  UNCHANGED around
  BY <1>8 DEF Write
<1>9. ASSUME NEW p \in Persons,
             \/ DraftInsert(p) \/ DraftReplace(p) \/ IssueWrite(p) \/ DiscardWrite(p)
             \/ VoidWrite(p) \/ RequestFails(p)
      PROVE  UNCHANGED around
  BY <1>8, <1>9 DEF DraftInsert, DraftReplace, IssueWrite, DiscardWrite, VoidWrite, RequestFails
<1>10. ASSUME NEW p \in Persons, NEW i, DraftRead(p) \/ IssueDecide(p)
              \/ IssueRead(p, i) \/ DiscardRead(p, i) \/ VoidRead(p, i)
       PROVE  UNCHANGED around
  BY <1>7, <1>10 DEF DraftRead, IssueDecide, IssueRead, DiscardRead, VoidRead
<1>11. ASSUME NEW p \in Persons, NEW percents, NEW c, DraftDecide(p, percents, c)
       PROVE  UNCHANGED around
  BY <1>7, <1>11 DEF DraftDecide
<1>12. CASE UNCHANGED vars
  BY <1>1, <1>12 DEF vars, around
<1>13. CASE Next
  BY <1>1, <1>2, <1>3, <1>4, <1>5, <1>6, <1>9, <1>10, <1>11, <1>13 DEF Next
<1> QED BY <1>12, <1>13

LEMMA InitGrowing == Init => Money /\ Growing
<1> SUFFICES ASSUME Init PROVE Money /\ Growing
  OBVIOUS
<1>1. /\ \A p \in Persons : req[p] = Idle
      /\ \A i \in Ids : apps[i] = NoRow("absent")
  BY DEF Init
<1>2. NoRow("absent").status = "absent"
  BY DEF NoRow, Row
<1>3. \A i \in Ids : ~Exists(apps[i])
  BY <1>1, <1>2 DEF Exists
<1>4. Money
  BY DEF Init, Money, Bills
<1> QED BY <1>1, <1>3, <1>4, IdleCarries DEF Growing, RowCounts, NumbersApart

\* An application earns on a work area no less than the latest issued one before it,
\* unless the price went down: issue holds a line that would earn less at the previous
\* percent (pay_application_service.py, _hold_lines), and requests handled one after the
\* other write what they held, whatever is repriced or billed between read and write.
THEOREM EarningsGrow == Spec => EarnedGrows
<1>1. Init => Tables /\ Solo /\ Money /\ Growing
  BY InitTables, InitSolo, InitGrowing
<1>2. Tables /\ Solo /\ Money /\ Growing /\ [Next]_vars => (Tables /\ Solo /\ Money /\ Growing)'
  BY VoidLemma, SoloStep, MoneyStep, GrowingStep
<1>3. Tables /\ Solo /\ Money /\ Growing /\ [Next]_vars =>
        [alone' => \A j \in Ids, k \in Areas :
           apps[j].status = "draft" /\ apps'[j].status = "issued" =>
             \A i \in Earlier(apps, apps[j].number, k) :
               LET l == apps'[j].lines[k]
                   m == apps[i].lines[k]
               IN \/ l = NoLine \/ l.value < m.value
                  \/ \E h \in Earlier(apps, apps[j].number, k) : apps[h].number > apps[i].number
                  \/ earned(l.value, l.percent) >= earned(m.value, m.percent)]_vars
  BY GrowingStep DEF GrowStep, GrowsOn
<1> QED BY <1>1, <1>2, <1>3, PTL DEF Spec, EarnedGrows

-----------------------------------------------------------------------------
(* BillingRows.                                                             *)

\* A record's versions are among the payloads it may have, no more than arrived.
VersionsFit ==
  \A r \in Record : version[r] \in Seq(Payload[r]) /\ Len(version[r]) <= arrivals

\* A row shows the version it was built from, one that could be applied.
ShowsVersion(r, row) ==
  LET p == version[r][row.ver] IN
  /\ row.deleted = (p = Gone \/ BeforeStart(r, p))
  /\ p = Gone \/ BeforeStart(r, p) \/ p.readable

RowsShow ==
  /\ \A d \in Document : docRow[d] # Absent => ShowsVersion(d, docRow[d])
  /\ \A c \in Cheque : payRow[c] # Absent => ShowsVersion(c, payRow[c])

RowsInv == BillingTypeOK /\ VersionsFit /\ LinksFilled /\ RowsShow /\ RowsFollow

\* What RowsFollow says of one record.
RowOf(r) == IF r \in Document THEN docRow[r] ELSE payRow[r]
Applied(r) ==
  LET row == RowOf(r)
      p == Latest(r)
  IN /\ row # Absent /\ (p = Gone \/ p.readable \/ BeforeStart(r, p)) => row.ver = Len(version[r])
     /\ row # Absent /\ row.ver = Len(version[r]) =>
          row.deleted = (p = Gone \/ BeforeStart(r, p))
     /\ (row = Absent \/ row.ver < Len(version[r])) =>
          p = Gone \/ BeforeStart(r, p) \/ ~p.readable

LEMMA FollowIsApplied ==
  RowsFollow <=> \A r \in Document \cup Cheque : Settled(r) /\ version[r] # << >> => Applied(r)
BY DEF RowsFollow, Applied, RowOf

\* The rows of one record, before and after, are of the same version.
SameDoc(d) ==
  /\ docRow[d] = Absent => docRow'[d] = Absent
  /\ docRow[d] # Absent =>
       /\ docRow'[d] \in BillingRow /\ docRow'[d].buyer = docRow[d].buyer
       /\ docRow'[d].ver = docRow[d].ver /\ docRow'[d].deleted = docRow[d].deleted
SamePay(x) ==
  /\ payRow[x] = Absent => payRow'[x] = Absent
  /\ payRow[x] # Absent =>
       /\ payRow'[x] \in PaymentRow /\ payRow'[x].buyer = payRow[x].buyer
       /\ payRow'[x].ver = payRow[x].ver /\ payRow'[x].deleted = payRow[x].deleted

LEMMA RecordsApart ==
  /\ Record = Buyer \cup Document \cup Cheque /\ Paid \subseteq Document \cup Cheque
  /\ Cheque \subseteq Paid /\ Receipts \subseteq Document /\ Receipts \subseteq Paid
  /\ \A b \in Buyer : b \notin Document /\ b \notin Cheque
  /\ \A c \in Cheque : c \notin Document
BY BillingAssumption DEF Record, Paid, Receipts

LEMMA NullIsNoRow ==
  /\ Absent \notin Buyer /\ Absent \notin Document /\ Absent \notin CustomerRow
  /\ Absent \notin BillingRow /\ Absent \notin PaymentRow
BY AbsentIsNull

\* The version in a row of the copy, and the latest one, are payloads of the record.
LEMMA VersionTyped ==
  ASSUME RowsInv, NEW r \in Record, NEW n \in 1..Len(version[r]), version[r][n] # Gone
  PROVE  /\ r \in Buyer => version[r][n] \in BuyerPayload
         /\ r \in Document => version[r][n] \in DocPayload
         /\ r \in Cheque => version[r][n] \in ChequePayload
<1>1. version[r] \in Seq(Payload[r])
  BY DEF RowsInv, VersionsFit
<1>2. version[r][n] \in Payload[r]
  BY <1>1, ElementOfSeq
<1> QED BY <1>2, BillingAssumption, RecordsApart

LEMMA LatestIs ==
  ASSUME RowsInv, NEW r \in Record, version[r] # << >>
  PROVE  /\ Len(version[r]) \in 1..Len(version[r])
         /\ Latest(r) = version[r][Len(version[r])]
<1>1. version[r] \in Seq(Payload[r])
  BY DEF RowsInv, VersionsFit
<1>2. Len(version[r]) \in Nat /\ Len(version[r]) # 0
  BY <1>1, EmptySeq, LenProperties
<1> QED BY <1>2 DEF Latest, Last

LEMMA Appending ==
  ASSUME NEW S, NEW s \in Seq(S), NEW e \in S
  PROVE  /\ Append(s, e) \in Seq(S) /\ Len(Append(s, e)) = Len(s) + 1
         /\ \A i \in 1..Len(s) : Append(s, e)[i] = s[i]
BY AppendProperties

LEMMA ArriveKeeps ==
  ASSUME RowsInv, NEW r \in Record, NEW p \in Payload[r], Arrive(r, p)
  PROVE  RowsInv'
<1> DEFINE n == Len(version[r]) + 1
<1>1. /\ version[r] \in Seq(Payload[r]) /\ Len(version[r]) \in Nat /\ Len(version[r]) <= arrivals
      /\ arrivals \in Nat /\ arrivals < MaxArrivals /\ MaxArrivals \in Nat
  BY BillingAssumption, LenProperties DEF RowsInv, VersionsFit, BillingTypeOK, Arrive
<1>2. version' = [version EXCEPT ![r] = Append(version[r], p)] /\ DOMAIN version = Record
  BY DEF Arrive, RowsInv, BillingTypeOK
<1>3. /\ version'[r] = Append(version[r], p) /\ DOMAIN version' = Record
      /\ \A x \in Record \ {r} : version'[x] = version[x]
  BY <1>2
<1>4. /\ version'[r] \in Seq(Payload[r]) /\ Len(version'[r]) = n
      /\ \A i \in 1..Len(version[r]) : version'[r][i] = version[r][i]
  <2>1. /\ Append(version[r], p) \in Seq(Payload[r])
        /\ Len(Append(version[r], p)) = Len(version[r]) + 1
        /\ \A i \in 1..Len(version[r]) : Append(version[r], p)[i] = version[r][i]
    BY <1>1, Appending, Zenon
  <2> HIDE DEF n
  <2>2. n = Len(version[r]) + 1
    BY DEF n
  <2> QED BY <1>3, <2>1, <2>2, Zenon
<1>5. /\ UNCHANGED <<buyerRow, docRow, payRow, site>> /\ arrivals' = arrivals + 1
      /\ due' = due \cup {<<r, n>>} /\ n \in 1..MaxArrivals
  BY <1>1 DEF Arrive
<1>6. \A x \in Record : /\ Len(version[x]) \in Nat /\ Len(version[x]) <= Len(version'[x])
                        /\ \A i \in 1..Len(version[x]) : version'[x][i] = version[x][i]
  <2> SUFFICES ASSUME NEW x \in Record
               PROVE  /\ Len(version[x]) \in Nat /\ Len(version[x]) <= Len(version'[x])
                      /\ \A i \in 1..Len(version[x]) : version'[x][i] = version[x][i]
    OBVIOUS
  <2>1. version[x] \in Seq(Payload[x])
    BY DEF RowsInv, VersionsFit
  <2>2. Len(version[x]) \in Nat
    BY <2>1, LenProperties
  <2>3. CASE x = r
    <3>1. Len(version[r]) <= Len(version'[r])
      BY <1>1, <1>4
    <3> QED BY <1>4, <2>2, <2>3, <3>1
  <2>4. CASE x # r
    BY <1>3, <2>2, <2>4
  <2> QED BY <2>3, <2>4
<1>7. VersionsFit'
  <2> SUFFICES ASSUME NEW x \in Record
               PROVE  version'[x] \in Seq(Payload[x]) /\ Len(version'[x]) <= arrivals'
    BY DEF VersionsFit
  <2>1. CASE x = r
    <3>1. n <= arrivals'
      BY <1>1, <1>5
    <3> QED BY <1>4, <2>1, <3>1
  <2>2. CASE x # r
    <3>1. version[x] \in Seq(Payload[x]) /\ Len(version[x]) <= arrivals
      BY DEF RowsInv, VersionsFit
    <3> QED BY <1>1, <1>3, <1>5, <1>6, <2>2, <3>1
  <2> QED BY <2>1, <2>2
<1>8. BillingTypeOK'
  <2>1. /\ \A d \in Document : docRow[d] # Absent => docRow[d].ver \in 1..Len(version'[d])
        /\ \A x \in Paid : payRow[x] # Absent => payRow[x].ver \in 1..Len(version'[x])
    BY <1>3, <1>4, <1>6, RecordsApart DEF RowsInv, BillingTypeOK
  <2>2. due' \subseteq Record \X (1..MaxArrivals) /\ arrivals' \in 0..MaxArrivals
    BY <1>1, <1>5 DEF RowsInv, BillingTypeOK
  <2> QED BY <1>3, <1>5, <2>1, <2>2 DEF RowsInv, BillingTypeOK
<1>9. LinksFilled'
  BY <1>5 DEF RowsInv, LinksFilled, Finds
<1>10. RowsShow'
  <2>1. \A d \in Document : docRow[d] # Absent => version'[d][docRow[d].ver] = version[d][docRow[d].ver]
    BY <1>6, RecordsApart DEF RowsInv, BillingTypeOK
  <2>2. \A c \in Cheque : payRow[c] # Absent => version'[c][payRow[c].ver] = version[c][payRow[c].ver]
    BY <1>6, RecordsApart DEF RowsInv, BillingTypeOK
  <2> QED BY <1>5, <2>1, <2>2 DEF RowsInv, RowsShow, ShowsVersion, BeforeStart
<1>11. ~Settled(r)'
  BY <1>4, <1>5 DEF Settled, IsLatest
<1>12. ASSUME NEW x \in Document \cup Cheque, Settled(x)', version'[x] # << >>
       PROVE  Applied(x)'
  <2>1. x # r /\ x \in Record
    BY <1>11, <1>12, RecordsApart
  <2>2. version'[x] = version[x]
    BY <1>3, <2>1
  <2>3. Settled(x)
    BY <1>5, <1>12, <2>1, <2>2 DEF Settled, IsLatest
  <2>4. Applied(x)
    BY <1>12, <2>2, <2>3, FollowIsApplied DEF RowsInv
  <2> QED BY <1>5, <2>2, <2>4 DEF Applied, RowOf, Latest, BeforeStart
<1>13. RowsFollow'
  BY <1>12 DEF RowsFollow, Applied, RowOf
<1> QED BY <1>7, <1>8, <1>9, <1>10, <1>13 DEF RowsInv

-----------------------------------------------------------------------------
(* The steps that write rows.                                               *)

SameVer(old, new) ==
  /\ old = Absent <=> new = Absent
  /\ old # Absent => new.ver = old.ver /\ new.deleted = old.deleted

RowTypes ==
  /\ buyerRow \in [Buyer -> CustomerRow \cup {Absent}]
  /\ docRow \in [Document -> BillingRow \cup {Absent}]
  /\ payRow \in [Paid -> PaymentRow \cup {Absent}]
  /\ \A d \in Document : docRow[d] # Absent => docRow[d].ver \in 1..Len(version[d])
  /\ \A x \in Paid : payRow[x] # Absent => payRow[x].ver \in 1..Len(version[x])

\* What a step for record r may do to the rows.
RowsStep(r) ==
  /\ RowTypes' /\ LinksFilled' /\ RowsShow'
  /\ \A d \in Document \ {r} : SameVer(docRow[d], docRow'[d])
  /\ \A c \in Cheque \ {r} : SameVer(payRow[c], payRow'[c])
  /\ r \in Document \cup Cheque => Applied(r)'

LEMMA RowsStepKeeps ==
  ASSUME RowsInv, NEW r \in Record, UNCHANGED <<version, arrivals, site>>, RowsStep(r),
         due' = due \/ due' = due \ {<<r, Len(version[r])>>}
  PROVE  RowsInv'
<1>1. BillingTypeOK' /\ VersionsFit'
  BY DEF RowsInv, BillingTypeOK, VersionsFit, RowsStep, RowTypes
<1>2. ASSUME NEW x \in Document \cup Cheque, Settled(x)', version'[x] # << >>
      PROVE  Applied(x)'
  <2>1. CASE x = r
    BY <2>1 DEF RowsStep
  <2>2. CASE x # r
    <3>1. Settled(x)
      BY <1>2, <2>2 DEF Settled, IsLatest
    <3>2. Applied(x)
      BY <1>2, <3>1, FollowIsApplied DEF RowsInv
    <3>3. SameVer(RowOf(x), RowOf(x)')
      BY <2>2, RecordsApart DEF RowsStep, RowOf
    <3> QED BY <3>2, <3>3 DEF Applied, SameVer, Latest, BeforeStart
  <2> QED BY <2>1, <2>2
<1>3. RowsFollow'
  BY <1>2 DEF RowsFollow, Applied, RowOf
<1> QED BY <1>1, <1>3 DEF RowsInv, RowsStep

Marked(q, n) == [q EXCEPT !.deleted = TRUE, !.ver = n]

LEMMA MarkedDoc ==
  ASSUME NEW q \in BillingRow, NEW n \in Nat
  PROVE  /\ Marked(q, n) \in BillingRow /\ Marked(q, n).buyer = q.buyer
         /\ Marked(q, n).linked = q.linked /\ Marked(q, n).deleted = TRUE /\ Marked(q, n).ver = n
BY DEF Marked, BillingRow

LEMMA MarkedPay ==
  ASSUME NEW q \in PaymentRow, NEW n \in Nat
  PROVE  /\ Marked(q, n) \in PaymentRow /\ Marked(q, n).buyer = q.buyer
         /\ Marked(q, n).linked = q.linked /\ Marked(q, n).deleted = TRUE /\ Marked(q, n).ver = n
         /\ Marked(q, n).lines = q.lines
BY DEF Marked, PaymentRow

LEMMA DeleteStep ==
  ASSUME RowsInv, NEW r \in Record, version[r] # << >>, UNCHANGED version,
         Latest(r) = Gone \/ BeforeStart(r, Latest(r)), ApplyDelete(r, Len(version[r]))
  PROVE  RowsStep(r)
<1>1. PICK n \in 1..Len(version[r]) : n = Len(version[r]) /\ Latest(r) = version[r][n] /\ n \in Nat
  <2>1. Len(version[r]) \in 1..Len(version[r]) /\ Latest(r) = version[r][Len(version[r])]
    BY LatestIs
  <2>2. Len(version[r]) \in Nat
    BY LenProperties DEF RowsInv, VersionsFit
  <2> QED BY <2>1, <2>2
<1>2. /\ buyerRow' = buyerRow
      /\ docRow' = IF r \in Document /\ docRow[r] # Absent
                   THEN [docRow EXCEPT ![r] = Marked(docRow[r], n)] ELSE docRow
      /\ payRow' = IF r \in Paid /\ payRow[r] # Absent
                   THEN [payRow EXCEPT ![r] = Marked(payRow[r], n)] ELSE payRow
  BY <1>1 DEF ApplyDelete, Marked
<1>3. RowTypes
  BY DEF RowsInv, BillingTypeOK, RowTypes
<1>4. /\ \A d \in Document \ {r} : docRow'[d] = docRow[d]
      /\ \A x \in Paid \ {r} : payRow'[x] = payRow[x]
      /\ r \in Document => docRow'[r] = IF docRow[r] = Absent THEN Absent ELSE Marked(docRow[r], n)
      /\ r \in Paid => payRow'[r] = IF payRow[r] = Absent THEN Absent ELSE Marked(payRow[r], n)
  BY <1>2, <1>3 DEF RowTypes
<1>5. r \in Document /\ docRow[r] # Absent =>
        /\ docRow'[r] \in BillingRow /\ docRow'[r] # Absent /\ docRow'[r].buyer = docRow[r].buyer
        /\ docRow'[r].linked = docRow[r].linked /\ docRow'[r].deleted = TRUE /\ docRow'[r].ver = n
  <2> SUFFICES ASSUME r \in Document, docRow[r] # Absent
               PROVE  docRow'[r] = Marked(docRow[r], n) /\ Marked(docRow[r], n) \in BillingRow
                      /\ Marked(docRow[r], n).buyer = docRow[r].buyer
                      /\ Marked(docRow[r], n).linked = docRow[r].linked
                      /\ Marked(docRow[r], n).deleted = TRUE /\ Marked(docRow[r], n).ver = n
    BY NullIsNoRow
  <2>1. docRow[r] \in BillingRow
    BY <1>3 DEF RowTypes
  <2> QED BY <1>1, <1>4, <2>1, MarkedDoc, Zenon
<1>6. r \in Paid /\ payRow[r] # Absent =>
        /\ payRow'[r] \in PaymentRow /\ payRow'[r] # Absent /\ payRow'[r].buyer = payRow[r].buyer
        /\ payRow'[r].linked = payRow[r].linked /\ payRow'[r].deleted = TRUE /\ payRow'[r].ver = n
        /\ payRow'[r].lines = payRow[r].lines
  <2> SUFFICES ASSUME r \in Paid, payRow[r] # Absent
               PROVE  payRow'[r] = Marked(payRow[r], n) /\ Marked(payRow[r], n) \in PaymentRow
                      /\ Marked(payRow[r], n).buyer = payRow[r].buyer
                      /\ Marked(payRow[r], n).linked = payRow[r].linked
                      /\ Marked(payRow[r], n).deleted = TRUE /\ Marked(payRow[r], n).ver = n /\ Marked(payRow[r], n).lines = payRow[r].lines
    BY NullIsNoRow
  <2>1. payRow[r] \in PaymentRow
    BY <1>3 DEF RowTypes
  <2> QED BY <1>1, <1>4, <2>1, MarkedPay, Zenon
<1>7. RowTypes'
  <2>1. docRow' \in [Document -> BillingRow \cup {Absent}]
    BY <1>2, <1>3, <1>4, <1>5 DEF RowTypes
  <2>2. payRow' \in [Paid -> PaymentRow \cup {Absent}]
    BY <1>2, <1>3, <1>4, <1>6 DEF RowTypes
  <2>3. \A d \in Document : docRow'[d] # Absent => docRow'[d].ver \in 1..Len(version'[d])
    BY <1>3, <1>4, <1>5 DEF RowTypes
  <2>4. \A x \in Paid : payRow'[x] # Absent => payRow'[x].ver \in 1..Len(version'[x])
    BY <1>3, <1>4, <1>6 DEF RowTypes
  <2> QED BY <1>2, <1>3, <2>1, <2>2, <2>3, <2>4 DEF RowTypes
<1>8. \A d \in Document : docRow'[d] = Absent <=> docRow[d] = Absent
  BY <1>4, <1>5
<1>9. LinksFilled'
  <2>1. \A b \in Buyer : buyerRow'[b] # Absent =>
          buyerRow'[b].linked = (buyerRow'[b].parent # Absent /\ buyerRow'[buyerRow'[b].parent] # Absent)
    BY <1>2 DEF RowsInv, LinksFilled
  <2>2. \A d \in Document : docRow'[d] # Absent => docRow'[d].linked = (buyerRow'[docRow'[d].buyer] # Absent)
    BY <1>2, <1>4, <1>5 DEF RowsInv, LinksFilled
  <2>3. \A a : Finds(docRow', a) <=> Finds(docRow, a)
    BY <1>8 DEF Finds
  <2>4. ASSUME NEW x \in Paid, payRow'[x] # Absent
        PROVE  /\ payRow'[x].linked = (buyerRow'[payRow'[x].buyer] # Absent)
               /\ \A i \in DOMAIN payRow'[x].lines :
                     payRow'[x].lines[i].held = Finds(docRow', payRow'[x].lines[i])
    <3>1. /\ payRow[x] # Absent /\ payRow'[x].linked = payRow[x].linked
          /\ payRow'[x].buyer = payRow[x].buyer /\ payRow'[x].lines = payRow[x].lines
      BY <1>4, <1>6, <2>4
    <3>2. /\ payRow[x].linked = (buyerRow[payRow[x].buyer] # Absent)
          /\ \A i \in DOMAIN payRow[x].lines : payRow[x].lines[i].held = Finds(docRow, payRow[x].lines[i])
      BY <3>1 DEF RowsInv, LinksFilled
    <3> QED BY <1>2, <2>3, <3>1, <3>2 DEF Finds
  <2> QED BY <2>1, <2>2, <2>4 DEF LinksFilled, Finds
<1>10. RowsShow'
  <2>1. ASSUME NEW d \in Document, docRow'[d] # Absent
        PROVE  ShowsVersion(d, docRow[d])'
    <3>1. CASE d = r
      BY <1>1, <1>4, <1>5, <2>1, <3>1 DEF ShowsVersion, BeforeStart
    <3>2. CASE d # r
      BY <1>4, <2>1, <3>2 DEF RowsInv, RowsShow, ShowsVersion, BeforeStart
    <3> QED BY <3>1, <3>2
  <2>2. ASSUME NEW c \in Cheque, payRow'[c] # Absent
        PROVE  ShowsVersion(c, payRow[c])'
    <3>1. CASE c = r
      BY <1>1, <1>4, <1>6, <2>2, <3>1, RecordsApart DEF ShowsVersion, BeforeStart
    <3>2. CASE c # r
      BY <1>4, <2>2, <3>2, RecordsApart DEF RowsInv, RowsShow, ShowsVersion, BeforeStart
    <3> QED BY <3>1, <3>2
  <2> QED BY <2>1, <2>2 DEF RowsShow, ShowsVersion, BeforeStart
<1>11. /\ \A d \in Document \ {r} : SameVer(docRow[d], docRow'[d])
       /\ \A c \in Cheque \ {r} : SameVer(payRow[c], payRow'[c])
  BY <1>4, RecordsApart DEF SameVer
<1>12. r \in Document \cup Cheque => Applied(r)'
  BY <1>1, <1>4, <1>5, <1>6, RecordsApart DEF Applied, RowOf, Latest, BeforeStart
<1> QED BY <1>7, <1>9, <1>10, <1>11, <1>12 DEF RowsStep

Linking(q) == [q EXCEPT !.linked = TRUE]

LEMMA LinkingDoc ==
  ASSUME NEW q \in BillingRow
  PROVE  /\ Linking(q) \in BillingRow /\ Linking(q).buyer = q.buyer /\ Linking(q).linked = TRUE
         /\ Linking(q).deleted = q.deleted /\ Linking(q).ver = q.ver
BY DEF Linking, BillingRow

LEMMA LinkingPay ==
  ASSUME NEW q \in PaymentRow
  PROVE  /\ Linking(q) \in PaymentRow /\ Linking(q).buyer = q.buyer /\ Linking(q).linked = TRUE
         /\ Linking(q).deleted = q.deleted /\ Linking(q).ver = q.ver /\ Linking(q).lines = q.lines
BY DEF Linking, PaymentRow

LEMMA LinkingBuyer ==
  ASSUME NEW q \in CustomerRow
  PROVE  /\ Linking(q) \in CustomerRow /\ Linking(q).parent = q.parent /\ Linking(q).linked = TRUE
BY DEF Linking, CustomerRow

LEMMA LatestPlace ==
  ASSUME RowsInv, NEW r \in Record, version[r] # << >>
  PROVE  \E n \in 1..Len(version[r]) :
           n = Len(version[r]) /\ Latest(r) = version[r][n] /\ n \in Nat
<1>1. Len(version[r]) \in 1..Len(version[r]) /\ Latest(r) = version[r][Len(version[r])]
  BY LatestIs
<1>2. Len(version[r]) \in Nat
  BY LenProperties DEF RowsInv, VersionsFit
<1> QED BY <1>1, <1>2

LEMMA BuyerStep ==
  ASSUME RowsInv, NEW b \in Buyer, version[b] # << >>, UNCHANGED version,
         Latest(b) # Gone, ApplyBuyer(b, Len(version[b]))
  PROVE  RowsStep(b)
<1>1. b \in Record
  BY RecordsApart
<1>2. PICK n \in 1..Len(version[b]) : n = Len(version[b]) /\ Latest(b) = version[b][n] /\ n \in Nat
  BY <1>1, LatestPlace
<1>3. PICK own : /\ own = [parent |-> version[b][n].parent, ver |-> n,
                           linked |-> version[b][n].parent # Absent
                                      /\ (version[b][n].parent = b
                                            \/ buyerRow[version[b][n].parent] # Absent)]
  OBVIOUS
<1>4. version[b][n] \in BuyerPayload
  BY <1>1, <1>2, VersionTyped
<1>5. /\ own \in CustomerRow /\ own # Absent /\ own.parent \in Buyer \cup {Absent}
      /\ own.linked = (own.parent # Absent /\ (own.parent = b \/ buyerRow[own.parent] # Absent))
  <2>1. version[b][n].parent \in Buyer \cup {Absent}
    BY <1>4 DEF BuyerPayload
  <2>2. own \in CustomerRow
    BY <1>2, <1>3, <2>1 DEF CustomerRow
  <2> QED BY <1>3, <2>1, <2>2, NullIsNoRow
<1>6. /\ buyerRow' = [x \in Buyer |->
             IF x = b THEN own
             ELSE IF buyerRow[x] # Absent /\ buyerRow[x].parent = b
                  THEN Linking(buyerRow[x]) ELSE buyerRow[x]]
      /\ docRow' = [d \in Document |-> IF docRow[d] # Absent /\ docRow[d].buyer = b
                                       THEN Linking(docRow[d]) ELSE docRow[d]]
      /\ payRow' = [p \in Paid |-> IF payRow[p] # Absent /\ payRow[p].buyer = b
                                   THEN Linking(payRow[p]) ELSE payRow[p]]
  BY <1>2, <1>3 DEF ApplyBuyer, Linking
<1> HIDE DEF Linking
<1>7. RowTypes
  BY DEF RowsInv, BillingTypeOK, RowTypes
<1>8. \A x \in Buyer \ {b} : buyerRow[x] = Absent => buyerRow'[x] = Absent
  BY <1>6
<1>9. ASSUME NEW x \in Buyer \ {b}, buyerRow[x] # Absent
      PROVE  /\ buyerRow'[x] \in CustomerRow /\ buyerRow'[x] # Absent
             /\ buyerRow'[x].parent = buyerRow[x].parent
             /\ buyerRow'[x].linked = IF buyerRow[x].parent = b THEN TRUE ELSE buyerRow[x].linked
  <2>1. buyerRow[x] \in CustomerRow
    BY <1>7, <1>9 DEF RowTypes
  <2>2. CASE buyerRow[x].parent = b
    <3>1. buyerRow'[x] = Linking(buyerRow[x])
      BY <1>6, <1>9, <2>2
    <3> QED BY <2>1, <2>2, <3>1, LinkingBuyer, NullIsNoRow, Zenon
  <2>3. CASE buyerRow[x].parent # b
    <3>1. buyerRow'[x] = buyerRow[x]
      BY <1>6, <1>9, <2>3
    <3> QED BY <1>9, <2>1, <2>3, <3>1
  <2> QED BY <2>2, <2>3
<1>10. \A d \in Document : docRow[d] = Absent => docRow'[d] = Absent
  BY <1>6
<1>11. ASSUME NEW d \in Document, docRow[d] # Absent
       PROVE  /\ docRow'[d] \in BillingRow /\ docRow'[d] # Absent
              /\ docRow'[d].buyer = docRow[d].buyer
              /\ docRow'[d].deleted = docRow[d].deleted /\ docRow'[d].ver = docRow[d].ver
              /\ docRow'[d].linked = IF docRow[d].buyer = b THEN TRUE ELSE docRow[d].linked
  <2>1. docRow[d] \in BillingRow
    BY <1>7, <1>11 DEF RowTypes
  <2>2. CASE docRow[d].buyer = b
    <3>1. docRow'[d] = Linking(docRow[d])
      BY <1>6, <1>11, <2>2
    <3> QED BY <2>1, <2>2, <3>1, LinkingDoc, NullIsNoRow, Zenon
  <2>3. CASE docRow[d].buyer # b
    <3>1. docRow'[d] = docRow[d]
      BY <1>6, <1>11, <2>3
    <3> QED BY <1>11, <2>1, <2>3, <3>1
  <2> QED BY <2>2, <2>3
<1>12. \A x \in Paid : payRow[x] = Absent => payRow'[x] = Absent
  BY <1>6
<1>13. ASSUME NEW x \in Paid, payRow[x] # Absent
       PROVE  /\ payRow'[x] \in PaymentRow /\ payRow'[x] # Absent
              /\ payRow'[x].buyer = payRow[x].buyer /\ payRow'[x].lines = payRow[x].lines
              /\ payRow'[x].deleted = payRow[x].deleted /\ payRow'[x].ver = payRow[x].ver
              /\ payRow'[x].linked = IF payRow[x].buyer = b THEN TRUE ELSE payRow[x].linked
  <2>1. payRow[x] \in PaymentRow
    BY <1>7, <1>13 DEF RowTypes
  <2>2. CASE payRow[x].buyer = b
    <3>1. payRow'[x] = Linking(payRow[x])
      BY <1>6, <1>13, <2>2
    <3> QED BY <2>1, <2>2, <3>1, LinkingPay, NullIsNoRow, Zenon
  <2>3. CASE payRow[x].buyer # b
    <3>1. payRow'[x] = payRow[x]
      BY <1>6, <1>13, <2>3
    <3> QED BY <1>13, <2>1, <2>3, <3>1
  <2> QED BY <2>2, <2>3
<1>14. RowTypes'
  <2>1. buyerRow' \in [Buyer -> CustomerRow \cup {Absent}]
    <3>1. \A x \in Buyer : buyerRow'[x] \in CustomerRow \cup {Absent}
      BY <1>5, <1>6, <1>8, <1>9
    <3> QED BY <1>6, <3>1
  <2>2. docRow' \in [Document -> BillingRow \cup {Absent}]
    <3>1. \A d \in Document : docRow'[d] \in BillingRow \cup {Absent}
      BY <1>10, <1>11
    <3> QED BY <1>6, <3>1
  <2>3. payRow' \in [Paid -> PaymentRow \cup {Absent}]
    <3>1. \A x \in Paid : payRow'[x] \in PaymentRow \cup {Absent}
      BY <1>12, <1>13
    <3> QED BY <1>6, <3>1
  <2>4. \A d \in Document : docRow'[d] # Absent => docRow'[d].ver \in 1..Len(version'[d])
    BY <1>7, <1>10, <1>11 DEF RowTypes
  <2>5. \A x \in Paid : payRow'[x] # Absent => payRow'[x].ver \in 1..Len(version'[x])
    BY <1>7, <1>12, <1>13 DEF RowTypes
  <2> QED BY <2>1, <2>2, <2>3, <2>4, <2>5 DEF RowTypes
<1>15. \A y \in Buyer : buyerRow'[y] # Absent <=> y = b \/ buyerRow[y] # Absent
  BY <1>5, <1>6, <1>8, <1>9
<1>16. LinksFilled'
  <2>1. ASSUME NEW x \in Buyer, buyerRow'[x] # Absent
        PROVE  buyerRow'[x].linked =
                 (buyerRow'[x].parent # Absent /\ buyerRow'[buyerRow'[x].parent] # Absent)
    <3>1. CASE x = b
      <4>1. buyerRow'[x] = own
        BY <1>6, <3>1
      <4> QED BY <1>5, <1>15, <4>1
    <3>2. CASE x # b
      <4>1. /\ buyerRow[x] # Absent /\ buyerRow'[x].parent = buyerRow[x].parent
            /\ buyerRow'[x].linked = IF buyerRow[x].parent = b THEN TRUE ELSE buyerRow[x].linked
        BY <1>8, <1>9, <2>1, <3>2
      <4>2. /\ buyerRow[x].parent \in Buyer \cup {Absent}
            /\ buyerRow[x].linked = (buyerRow[x].parent # Absent /\ buyerRow[buyerRow[x].parent] # Absent)
        BY <1>7, <4>1 DEF RowsInv, LinksFilled, RowTypes, CustomerRow
      <4> QED BY <1>15, <4>1, <4>2, NullIsNoRow
    <3> QED BY <3>1, <3>2
  <2>2. ASSUME NEW d \in Document, docRow'[d] # Absent
        PROVE  docRow'[d].linked = (buyerRow'[docRow'[d].buyer] # Absent)
    <3>1. /\ docRow[d] # Absent /\ docRow'[d].buyer = docRow[d].buyer
          /\ docRow'[d].linked = IF docRow[d].buyer = b THEN TRUE ELSE docRow[d].linked
      BY <1>10, <1>11, <2>2
    <3>2. docRow[d].buyer \in Buyer /\ docRow[d].linked = (buyerRow[docRow[d].buyer] # Absent)
      BY <1>7, <3>1 DEF RowsInv, LinksFilled, RowTypes, BillingRow
    <3> QED BY <1>15, <3>1, <3>2
  <2>3. \A a : Finds(docRow', a) <=> Finds(docRow, a)
    BY <1>10, <1>11 DEF Finds
  <2>4. ASSUME NEW x \in Paid, payRow'[x] # Absent
        PROVE  /\ payRow'[x].linked = (buyerRow'[payRow'[x].buyer] # Absent)
               /\ \A i \in DOMAIN payRow'[x].lines :
                     payRow'[x].lines[i].held = Finds(docRow', payRow'[x].lines[i])
    <3>1. /\ payRow[x] # Absent /\ payRow'[x].buyer = payRow[x].buyer
          /\ payRow'[x].lines = payRow[x].lines
          /\ payRow'[x].linked = IF payRow[x].buyer = b THEN TRUE ELSE payRow[x].linked
      BY <1>12, <1>13, <2>4
    <3>2. /\ payRow[x].buyer \in Buyer /\ payRow[x].linked = (buyerRow[payRow[x].buyer] # Absent)
          /\ \A i \in DOMAIN payRow[x].lines : payRow[x].lines[i].held = Finds(docRow, payRow[x].lines[i])
      BY <1>7, <3>1 DEF RowsInv, LinksFilled, RowTypes, PaymentRow
    <3>3. payRow'[x].linked = (buyerRow'[payRow'[x].buyer] # Absent)
      BY <1>15, <3>1, <3>2
    <3> QED BY <2>3, <3>1, <3>2, <3>3 DEF Finds
  <2> QED BY <2>1, <2>2, <2>4 DEF LinksFilled, Finds
<1>17. RowsShow'
  <2>1. \A d \in Document : docRow'[d] # Absent => ShowsVersion(d, docRow[d])'
    BY <1>10, <1>11 DEF RowsInv, RowsShow, ShowsVersion, BeforeStart
  <2>2. ASSUME NEW c \in Cheque, payRow'[c] # Absent
        PROVE  ShowsVersion(c, payRow[c])'
    <3>1. /\ payRow[c] # Absent
          /\ payRow'[c].deleted = payRow[c].deleted /\ payRow'[c].ver = payRow[c].ver
      BY <1>12, <1>13, <2>2, RecordsApart
    <3>2. ShowsVersion(c, payRow[c])
      BY <3>1 DEF RowsInv, RowsShow
    <3> QED BY <3>1, <3>2 DEF ShowsVersion, BeforeStart
  <2> QED BY <2>1, <2>2 DEF RowsShow, ShowsVersion, BeforeStart
<1>18. /\ \A d \in Document \ {b} : SameVer(docRow[d], docRow'[d])
       /\ \A c \in Cheque \ {b} : SameVer(payRow[c], payRow'[c])
  BY <1>10, <1>11, <1>12, <1>13, RecordsApart DEF SameVer
<1>19. b \notin Document \cup Cheque
  BY RecordsApart
<1> QED BY <1>14, <1>16, <1>17, <1>18, <1>19 DEF RowsStep

FilledLines(d, ls) ==
  [i \in DOMAIN ls |-> IF ls[i].to = d /\ ls[i].type = Kind[d]
                       THEN [ls[i] EXCEPT !.held = TRUE] ELSE ls[i]]
FilledRow(d, q) == [q EXCEPT !.lines = FilledLines(d, q.lines)]

\* A sequence made place by place.
LEMMA SeqByPlace ==
  ASSUME NEW S, NEW T, NEW s \in Seq(S), NEW f,
         f = [i \in DOMAIN s |-> f[i]], \A i \in DOMAIN s : f[i] \in T
  PROVE  f \in Seq(T)
<1>1. Len(s) \in Nat /\ DOMAIN s = 1..Len(s)
  BY LenProperties
<1>2. f \in [1..Len(s) -> T]
  BY <1>1
<1> QED BY <1>1, <1>2

LEMMA FilledLinesAre ==
  ASSUME NEW d \in Document, NEW ls \in Seq(ApplicationRow)
  PROVE  /\ FilledLines(d, ls) \in Seq(ApplicationRow) /\ DOMAIN FilledLines(d, ls) = DOMAIN ls
         /\ \A i \in DOMAIN ls :
              /\ FilledLines(d, ls)[i].to = ls[i].to /\ FilledLines(d, ls)[i].type = ls[i].type
              /\ FilledLines(d, ls)[i].held = IF ls[i].to = d /\ ls[i].type = Kind[d]
                                              THEN TRUE ELSE ls[i].held
<1>1. ASSUME NEW i \in DOMAIN ls
      PROVE  /\ FilledLines(d, ls)[i] \in ApplicationRow
             /\ FilledLines(d, ls)[i].to = ls[i].to /\ FilledLines(d, ls)[i].type = ls[i].type
             /\ FilledLines(d, ls)[i].held = IF ls[i].to = d /\ ls[i].type = Kind[d]
                                             THEN TRUE ELSE ls[i].held
  <2>1. ls[i] \in ApplicationRow
    BY LenProperties, ElementOfSeq
  <2>2. FilledLines(d, ls)[i] = IF ls[i].to = d /\ ls[i].type = Kind[d]
                                THEN [ls[i] EXCEPT !.held = TRUE] ELSE ls[i]
    BY DEF FilledLines
  <2> QED BY <2>1, <2>2 DEF ApplicationRow
<1>2. /\ DOMAIN FilledLines(d, ls) = DOMAIN ls
      /\ FilledLines(d, ls) = [i \in DOMAIN ls |-> FilledLines(d, ls)[i]]
  BY DEF FilledLines
<1>3. FilledLines(d, ls) \in Seq(ApplicationRow)
  BY <1>1, <1>2, SeqByPlace, Zenon
<1> QED BY <1>1, <1>2, <1>3

LEMMA FilledPay ==
  ASSUME NEW d \in Document, NEW q \in PaymentRow
  PROVE  /\ FilledRow(d, q) \in PaymentRow /\ FilledRow(d, q).buyer = q.buyer
         /\ FilledRow(d, q).linked = q.linked /\ FilledRow(d, q).deleted = q.deleted
         /\ FilledRow(d, q).ver = q.ver /\ FilledRow(d, q).lines = FilledLines(d, q.lines)
<1>1. q.lines \in Seq(ApplicationRow)
  BY DEF PaymentRow
<1>2. FilledLines(d, q.lines) \in Seq(ApplicationRow)
  BY <1>1, FilledLinesAre
<1> QED BY <1>2 DEF FilledRow, PaymentRow

\* _billing_id finds the same document whether or not the line was resolved.
LEMMA ResolvedLines ==
  ASSUME NEW docs_, NEW ls \in Seq(ApplicationLine)
  PROVE  /\ Resolved(docs_, ls) \in Seq(ApplicationRow)
         /\ \A i \in DOMAIN Resolved(docs_, ls) :
              Resolved(docs_, ls)[i].held = Finds(docs_, Resolved(docs_, ls)[i])
<1>1. ASSUME NEW i \in DOMAIN ls
      PROVE  /\ Resolved(docs_, ls)[i] \in ApplicationRow
             /\ Resolved(docs_, ls)[i].held = Finds(docs_, Resolved(docs_, ls)[i])
  <2>1. ls[i] \in ApplicationLine
    BY LenProperties, ElementOfSeq
  <2>2. PICK h \in BOOLEAN : h = Finds(docs_, ls[i])
    BY DEF Finds
  <2>3. Resolved(docs_, ls)[i] = [type |-> ls[i].type, to |-> ls[i].to, amount |-> ls[i].amount, held |-> h]
    BY <2>2 DEF Resolved
  <2>4. Finds(docs_, Resolved(docs_, ls)[i]) = Finds(docs_, ls[i])
    BY <2>3 DEF Finds
  <2>5. Resolved(docs_, ls)[i] \in ApplicationRow
    BY <2>1, <2>3 DEF ApplicationLine, ApplicationRow
  <2> QED BY <2>2, <2>3, <2>4, <2>5
<1>2. /\ DOMAIN Resolved(docs_, ls) = DOMAIN ls
      /\ Resolved(docs_, ls) = [i \in DOMAIN ls |-> Resolved(docs_, ls)[i]]
  BY DEF Resolved
<1>3. Resolved(docs_, ls) \in Seq(ApplicationRow)
  BY <1>1, <1>2, SeqByPlace, Zenon
<1> QED BY <1>1, <1>2, <1>3

\* The payment row written from a payload that could be read.
Payable(p) ==
  p.month \in Months /\ p.buyer \in Buyer /\ p.total \in Int /\ p.unapplied \in Int
WrittenFrom(q, docs_, p, ls, n) ==
  /\ q \in PaymentRow /\ q.buyer = p.buyer /\ q.deleted = FALSE /\ q.ver = n
  /\ q.linked = (buyerRow[q.buyer] # Absent) /\ q.lines = Resolved(docs_, ls)

LEMMA WrittenPay ==
  ASSUME NEW docs_, NEW p, NEW ls \in Seq(ApplicationLine), NEW n \in Nat, Payable(p)
  PROVE  WrittenFrom(PayFrom(docs_, p, ls, n), docs_, p, ls, n)
<1>1. PICK k \in BOOLEAN : k = (buyerRow[p.buyer] # Absent)
  OBVIOUS
<1>2. PICK s \in Seq(ApplicationRow) : s = Resolved(docs_, ls)
  BY ResolvedLines
<1>3. PayFrom(docs_, p, ls, n) =
        [month |-> p.month, buyer |-> p.buyer, linked |-> k, total |-> p.total,
         unapplied |-> p.unapplied, deleted |-> FALSE, ver |-> n, lines |-> s]
  BY <1>1, <1>2 DEF PayFrom
<1>4. PICK q : q = PayFrom(docs_, p, ls, n)
  OBVIOUS
<1>5. q \in PaymentRow
  BY <1>3, <1>4 DEF PaymentRow, Payable
<1>6. /\ q.buyer = p.buyer /\ q.deleted = FALSE /\ q.ver = n
      /\ q.linked = (buyerRow[q.buyer] # Absent) /\ q.lines = Resolved(docs_, ls)
  BY <1>1, <1>2, <1>3, <1>4
<1> QED BY <1>4, <1>5, <1>6 DEF WrittenFrom

\* A written row shows the version it was written from.
LEMMA WrittenShows ==
  ASSUME NEW r \in Document \cup Cheque, NEW row, row.deleted = FALSE, row.ver = Len(version[r]),
         Latest(r) = version[r][row.ver], Latest(r) # Gone, ~BeforeStart(r, Latest(r)),
         Latest(r).readable
  PROVE  ShowsVersion(r, row)
BY DEF ShowsVersion

LEMMA DocumentWritten ==
  ASSUME RowsInv, NEW d \in Document, NEW n \in 1..Len(version[d]), n \in Nat, version[d][n] # Gone
  PROVE  /\ DocFrom(d, n) \in BillingRow /\ DocFrom(d, n) # Absent
         /\ DocFrom(d, n).linked = (buyerRow[DocFrom(d, n).buyer] # Absent)
         /\ DocFrom(d, n).deleted = FALSE /\ DocFrom(d, n).ver = n
         /\ DocFrom(d, n).buyer \in Buyer
<1>1. version[d][n] \in DocPayload
  BY VersionTyped, RecordsApart
<1>2. PICK p \in DocPayload : p = version[d][n]
  BY <1>1
<1>3. PICK v \in BOOLEAN : v = IsVoided(d, n)
  <2>1. p.note \in BOOLEAN
    BY DEF DocPayload
  <2> QED BY <1>2, <2>1 DEF IsVoided
<1>4. PICK k \in BOOLEAN : k = (buyerRow[p.buyer] # Absent)
  OBVIOUS
<1>5. DocFrom(d, n) = [month |-> p.month, buyer |-> p.buyer, linked |-> k, total |-> p.total,
                       voided |-> v, deleted |-> FALSE, ver |-> n]
  BY <1>2, <1>3, <1>4 DEF DocFrom
<1>6. PICK q : q = DocFrom(d, n)
  OBVIOUS
<1>7. q \in BillingRow
  BY <1>5, <1>6 DEF BillingRow, DocPayload
<1>8. q.linked = (buyerRow[q.buyer] # Absent) /\ q.deleted = FALSE /\ q.ver = n /\ q.buyer = p.buyer
  BY <1>4, <1>5, <1>6
<1>9. p.buyer \in Buyer
  BY DEF DocPayload
<1> QED BY <1>6, <1>7, <1>8, <1>9, NullIsNoRow

LEMMA DocumentStep ==
  ASSUME RowsInv, NEW d \in Document, version[d] # << >>, UNCHANGED version,
         Latest(d) # Gone, ~BeforeStart(d, Latest(d)), Latest(d).readable,
         ApplyDocument(d, Len(version[d]))
  PROVE  RowsStep(d)
<1>1. d \in Record /\ d \notin Cheque /\ d \notin Buyer
  BY RecordsApart
<1>2. PICK n \in 1..Len(version[d]) : n = Len(version[d]) /\ Latest(d) = version[d][n] /\ n \in Nat
  BY <1>1, LatestPlace
<1>3. PICK p \in DocPayload : p = version[d][n]
  BY <1>1, <1>2, VersionTyped
<1>4. PICK own : /\ own = DocFrom(d, n)
                 /\ own \in BillingRow /\ own # Absent /\ own.buyer \in Buyer
                 /\ own.linked = (buyerRow[own.buyer] # Absent)
                 /\ own.deleted = FALSE /\ own.ver = n
  BY <1>2, DocumentWritten
<1>5. PICK after : after = docRow'
  OBVIOUS
<1>50. PICK side : side = PayFrom(after, p, OwnLine(d, p), n)
  OBVIOUS
<1>6. /\ buyerRow' = buyerRow
      /\ docRow' = [docRow EXCEPT ![d] = own]
      /\ payRow' = IF d \in Receipts THEN [Filled(d, payRow) EXCEPT ![d] = side] ELSE Filled(d, payRow)
  BY <1>2, <1>3, <1>4, <1>5, <1>50 DEF ApplyDocument
<1>7. RowTypes
  BY DEF RowsInv, BillingTypeOK, RowTypes
<1>8. docRow'[d] = own /\ \A e \in Document \ {d} : docRow'[e] = docRow[e]
  BY <1>6, <1>7 DEF RowTypes
<1>9. d \in Receipts =>
        /\ side \in PaymentRow /\ side # Absent /\ side.buyer \in Buyer
        /\ side.linked = (buyerRow[side.buyer] # Absent) /\ side.deleted = FALSE /\ side.ver = n
        /\ \A i \in DOMAIN side.lines : side.lines[i].held = Finds(docRow', side.lines[i])
  <2>1. /\ p.month \in Months /\ p.buyer \in Buyer /\ p.total \in Int /\ p.unapplied \in Int
    BY DEF DocPayload
  <2>2. [type |-> "SalesReceipt", to |-> d, amount |-> p.total] \in ApplicationLine
    BY <2>1 DEF ApplicationLine
  <2>3. OwnLine(d, p) \in Seq(ApplicationLine)
    BY <2>2 DEF OwnLine
  <2>4. /\ side \in PaymentRow /\ side.buyer = p.buyer /\ side.deleted = FALSE /\ side.ver = n
        /\ side.linked = (buyerRow[side.buyer] # Absent)
        /\ side.lines = Resolved(after, OwnLine(d, p))
    <3>1. Payable(p)
      BY <2>1 DEF Payable
    <3>2. WrittenFrom(side, after, p, OwnLine(d, p), n)
      BY <1>2, <1>50, <2>3, <3>1, WrittenPay, Zenon
    <3> QED BY <3>2 DEF WrittenFrom
  <2>5. \A i \in DOMAIN side.lines : side.lines[i].held = Finds(after, side.lines[i])
    <3>1. \A i \in DOMAIN Resolved(after, OwnLine(d, p)) :
            Resolved(after, OwnLine(d, p))[i].held = Finds(after, Resolved(after, OwnLine(d, p))[i])
      BY <2>3, ResolvedLines
    <3> QED BY <2>4, <3>1
  <2> QED BY <1>5, <2>1, <2>4, <2>5, NullIsNoRow, Zenon
<1>10. \A x \in Paid : x = d => d \in Receipts
  BY <1>1 DEF Paid
<1>11. /\ \A x \in Paid : x # d => payRow'[x] = IF payRow[x] = Absent THEN Absent
                                               ELSE FilledRow(d, payRow[x])
       /\ d \in Receipts => payRow'[d] = side
       /\ payRow' = [x \in Paid |-> payRow'[x]]
  BY <1>6, RecordsApart DEF Filled, FilledRow, FilledLines
<1>12. ASSUME NEW x \in Paid, x # d, payRow[x] # Absent
       PROVE  /\ payRow'[x] \in PaymentRow /\ payRow'[x] # Absent
              /\ payRow'[x].buyer = payRow[x].buyer /\ payRow'[x].linked = payRow[x].linked
              /\ payRow'[x].deleted = payRow[x].deleted /\ payRow'[x].ver = payRow[x].ver
              /\ payRow'[x].lines = FilledLines(d, payRow[x].lines)
  <2>1. payRow[x] \in PaymentRow
    BY <1>7, <1>12 DEF RowTypes
  <2>2. payRow'[x] = FilledRow(d, payRow[x])
    BY <1>11, <1>12
  <2>3. /\ FilledRow(d, payRow[x]) \in PaymentRow
        /\ FilledRow(d, payRow[x]).buyer = payRow[x].buyer
        /\ FilledRow(d, payRow[x]).linked = payRow[x].linked
        /\ FilledRow(d, payRow[x]).deleted = payRow[x].deleted
        /\ FilledRow(d, payRow[x]).ver = payRow[x].ver
        /\ FilledRow(d, payRow[x]).lines = FilledLines(d, payRow[x].lines)
    BY <2>1, FilledPay
  <2> QED BY <2>2, <2>3, NullIsNoRow
<1>13. RowTypes'
  <2>1. docRow' \in [Document -> BillingRow \cup {Absent}]
    BY <1>4, <1>6, <1>7 DEF RowTypes
  <2>2. payRow' \in [Paid -> PaymentRow \cup {Absent}]
    <3>1. \A x \in Paid : payRow'[x] \in PaymentRow \cup {Absent}
      BY <1>9, <1>10, <1>11, <1>12
    <3> QED BY <1>11, <3>1
  <2>3. \A e \in Document : docRow'[e] # Absent => docRow'[e].ver \in 1..Len(version'[e])
    BY <1>4, <1>7, <1>8 DEF RowTypes
  <2>4. ASSUME NEW x \in Paid, payRow'[x] # Absent
        PROVE  payRow'[x].ver \in 1..Len(version'[x])
    <3>1. CASE x = d
      BY <1>9, <1>10, <1>11, <3>1
    <3>2. CASE x # d
      BY <1>7, <1>11, <1>12, <2>4, <3>2 DEF RowTypes
    <3> QED BY <3>1, <3>2
  <2> QED BY <1>6, <1>7, <2>1, <2>2, <2>3, <2>4 DEF RowTypes
<1>14. \A a : Finds(docRow', a) = (a.to \in Document /\ Kind[a.to] = a.type
                                     /\ (a.to = d \/ docRow[a.to] # Absent))
  BY <1>4, <1>8 DEF Finds
<1>15. LinksFilled'
  <2>1. \A b \in Buyer : buyerRow'[b] # Absent =>
          buyerRow'[b].linked = (buyerRow'[b].parent # Absent /\ buyerRow'[buyerRow'[b].parent] # Absent)
    BY <1>6 DEF RowsInv, LinksFilled
  <2>2. \A e \in Document : docRow'[e] # Absent => docRow'[e].linked = (buyerRow'[docRow'[e].buyer] # Absent)
    BY <1>4, <1>6, <1>8 DEF RowsInv, LinksFilled
  <2>3. ASSUME NEW x \in Paid, payRow'[x] # Absent
        PROVE  /\ payRow'[x].linked = (buyerRow'[payRow'[x].buyer] # Absent)
               /\ \A i \in DOMAIN payRow'[x].lines :
                     payRow'[x].lines[i].held = Finds(docRow', payRow'[x].lines[i])
    <3>1. CASE x = d
      BY <1>6, <1>9, <1>10, <1>11, <3>1 DEF Finds
    <3>2. CASE x # d
      <4>1. /\ payRow[x] # Absent /\ payRow[x] \in PaymentRow
            /\ payRow'[x].buyer = payRow[x].buyer /\ payRow'[x].linked = payRow[x].linked
            /\ payRow'[x].lines = FilledLines(d, payRow[x].lines)
        BY <1>7, <1>11, <1>12, <2>3, <3>2 DEF RowTypes
      <4>2. /\ payRow[x].linked = (buyerRow[payRow[x].buyer] # Absent)
            /\ \A i \in DOMAIN payRow[x].lines :
                  payRow[x].lines[i].held = Finds(docRow, payRow[x].lines[i])
        BY <4>1 DEF RowsInv, LinksFilled
      <4>3. ASSUME NEW i \in DOMAIN payRow'[x].lines
            PROVE  payRow'[x].lines[i].held = Finds(docRow', payRow'[x].lines[i])
        <5> DEFINE old == payRow[x].lines[i]
                   new == FilledLines(d, payRow[x].lines)[i]
        <5>1. payRow[x].lines \in Seq(ApplicationRow)
          BY <4>1 DEF PaymentRow
        <5>2. i \in DOMAIN payRow[x].lines /\ new.to = old.to /\ new.type = old.type
              /\ new.held = IF old.to = d /\ old.type = Kind[d] THEN TRUE ELSE old.held
          <6>1. /\ DOMAIN FilledLines(d, payRow[x].lines) = DOMAIN payRow[x].lines
                /\ \A k \in DOMAIN payRow[x].lines :
                     /\ FilledLines(d, payRow[x].lines)[k].to = payRow[x].lines[k].to
                     /\ FilledLines(d, payRow[x].lines)[k].type = payRow[x].lines[k].type
                     /\ FilledLines(d, payRow[x].lines)[k].held =
                          IF payRow[x].lines[k].to = d /\ payRow[x].lines[k].type = Kind[d]
                          THEN TRUE ELSE payRow[x].lines[k].held
            BY <5>1, FilledLinesAre, Zenon
          <6> QED BY <4>1, <4>3, <6>1, Zenon
        <5>3. old.held = Finds(docRow, old)
          BY <4>2, <5>2
        <5> HIDE DEF old, new
        <5>4. new.held = Finds(docRow', new)
          BY <1>14, <5>2, <5>3 DEF Finds
        <5> QED BY <4>1, <5>4 DEF new
      <4> QED BY <1>6, <4>1, <4>2, <4>3 DEF Finds
    <3> QED BY <3>1, <3>2
  <2> QED BY <2>1, <2>2, <2>3 DEF LinksFilled, Finds
<1>16. ShowsVersion(d, own)
  BY <1>2, <1>4, WrittenShows
<1>17. RowsShow'
  <2>1. \A e \in Document : docRow'[e] # Absent => ShowsVersion(e, docRow[e])'
    BY <1>8, <1>16 DEF RowsInv, RowsShow, ShowsVersion, BeforeStart
  <2>2. ASSUME NEW c \in Cheque, payRow'[c] # Absent
        PROVE  ShowsVersion(c, payRow[c])'
    <3>1. /\ payRow[c] # Absent
          /\ payRow'[c].deleted = payRow[c].deleted /\ payRow'[c].ver = payRow[c].ver
      BY <1>1, <1>11, <1>12, <2>2, RecordsApart
    <3>2. ShowsVersion(c, payRow[c])
      BY <3>1 DEF RowsInv, RowsShow
    <3> QED BY <3>1, <3>2 DEF ShowsVersion, BeforeStart
  <2> QED BY <2>1, <2>2 DEF RowsShow, ShowsVersion, BeforeStart
<1>18. /\ \A e \in Document \ {d} : SameVer(docRow[e], docRow'[e])
       /\ \A c \in Cheque \ {d} : SameVer(payRow[c], payRow'[c])
  BY <1>1, <1>8, <1>11, <1>12, RecordsApart DEF SameVer
<1>19. Applied(d)'
  <2>1. RowOf(d)' = own
    BY <1>8 DEF RowOf
  <2>2. Latest(d)' = Latest(d) /\ version'[d] = version[d]
    BY DEF Latest
  <2>3. /\ RowOf(d)' # Absent /\ RowOf(d)'.ver = Len(version'[d])
        /\ ~(RowOf(d)'.ver < Len(version'[d])) /\ RowOf(d)'.deleted = FALSE
    BY <1>2, <1>4, <2>1, <2>2
  <2>4. /\ Latest(d)' # Gone /\ ~(d \notin Buyer /\ Latest(d)'.month < Start)
        /\ Latest(d)'.readable
    BY <2>2 DEF BeforeStart
  <2> QED BY <2>3, <2>4, Zenon DEF Applied, BeforeStart
<1> QED BY <1>13, <1>15, <1>17, <1>18, <1>19 DEF RowsStep

LEMMA ChequeStep ==
  ASSUME RowsInv, NEW c \in Cheque, version[c] # << >>, UNCHANGED version,
         Latest(c) # Gone, ~BeforeStart(c, Latest(c)), Latest(c).readable,
         ApplyCheque(c, Len(version[c]))
  PROVE  RowsStep(c)
<1>1. c \in Record /\ c \notin Document /\ c \notin Buyer /\ c \in Paid
  BY RecordsApart
<1>2. PICK n \in 1..Len(version[c]) : n = Len(version[c]) /\ Latest(c) = version[c][n] /\ n \in Nat
  BY <1>1, LatestPlace
<1>3. PICK p \in ChequePayload : p = version[c][n]
  BY <1>1, <1>2, VersionTyped
<1>4. PICK own : own = PayFrom(docRow, p, p.lines, n)
  OBVIOUS
<1>5. /\ own \in PaymentRow /\ own # Absent /\ own.buyer \in Buyer
      /\ own.linked = (buyerRow[own.buyer] # Absent) /\ own.deleted = FALSE /\ own.ver = n
      /\ \A i \in DOMAIN own.lines : own.lines[i].held = Finds(docRow, own.lines[i])
  <2>1. Payable(p) /\ p.lines \in Seq(ApplicationLine)
    BY DEF ChequePayload, Payable
  <2>2. PICK docs_ : docs_ = docRow
    OBVIOUS
  <2>3. WrittenFrom(own, docs_, p, p.lines, n)
    BY <1>2, <1>4, <2>1, <2>2, WrittenPay, Zenon
  <2>4. \A i \in DOMAIN own.lines : own.lines[i].held = Finds(docs_, own.lines[i])
    <3>1. \A i \in DOMAIN Resolved(docs_, p.lines) :
            Resolved(docs_, p.lines)[i].held = Finds(docs_, Resolved(docs_, p.lines)[i])
      BY <2>1, ResolvedLines
    <3> QED BY <2>3, <3>1 DEF WrittenFrom
  <2>5. own \in PaymentRow /\ own.buyer = p.buyer
    BY <2>3 DEF WrittenFrom
  <2>6. own # Absent
    BY <2>5, NullIsNoRow
  <2>7. own.buyer \in Buyer
    BY <2>1, <2>5 DEF Payable
  <2> QED BY <2>2, <2>3, <2>4, <2>6, <2>7, Zenon DEF WrittenFrom
<1>6. /\ UNCHANGED <<buyerRow, docRow>> /\ payRow' = [payRow EXCEPT ![c] = own]
  BY <1>2, <1>3, <1>4 DEF ApplyCheque
<1>7. RowTypes
  BY DEF RowsInv, BillingTypeOK, RowTypes
<1>8. payRow'[c] = own /\ \A x \in Paid \ {c} : payRow'[x] = payRow[x]
  BY <1>1, <1>6, <1>7 DEF RowTypes
<1>9. RowTypes'
  <2>1. payRow' \in [Paid -> PaymentRow \cup {Absent}]
    BY <1>5, <1>6, <1>7 DEF RowTypes
  <2>2. \A x \in Paid : payRow'[x] # Absent => payRow'[x].ver \in 1..Len(version'[x])
    BY <1>5, <1>7, <1>8 DEF RowTypes
  <2> QED BY <1>6, <1>7, <2>1, <2>2 DEF RowTypes
<1>10. LinksFilled'
  <2>1. ASSUME NEW x \in Paid, payRow'[x] # Absent
        PROVE  /\ payRow'[x].linked = (buyerRow'[payRow'[x].buyer] # Absent)
               /\ \A i \in DOMAIN payRow'[x].lines :
                     payRow'[x].lines[i].held = Finds(docRow, payRow'[x].lines[i])
    <3>1. CASE x = c
      BY <1>5, <1>6, <1>8, <3>1
    <3>2. CASE x # c
      BY <1>6, <1>8, <2>1, <3>2 DEF RowsInv, LinksFilled
    <3> QED BY <3>1, <3>2
  <2>2. \A b \in Buyer : buyerRow'[b] # Absent =>
          buyerRow'[b].linked = (buyerRow'[b].parent # Absent /\ buyerRow'[buyerRow'[b].parent] # Absent)
    BY <1>6 DEF RowsInv, LinksFilled
  <2>3. \A d \in Document : docRow'[d] # Absent => docRow'[d].linked = (buyerRow'[docRow'[d].buyer] # Absent)
    BY <1>6 DEF RowsInv, LinksFilled
  <2> QED BY <1>6, <2>1, <2>2, <2>3 DEF LinksFilled, Finds
<1>11. ShowsVersion(c, own)
  BY <1>2, <1>5, WrittenShows
<1>12. RowsShow'
  <2>1. ASSUME NEW x \in Cheque, payRow'[x] # Absent
        PROVE  ShowsVersion(x, payRow'[x])
    <3>1. CASE x = c
      BY <1>8, <1>11, <3>1
    <3>2. CASE x # c
      BY <1>8, <2>1, <3>2, RecordsApart DEF RowsInv, RowsShow
    <3> QED BY <3>1, <3>2
  <2> QED BY <1>6, <2>1 DEF RowsInv, RowsShow, ShowsVersion, BeforeStart
<1>13. /\ \A d \in Document \ {c} : SameVer(docRow[d], docRow'[d])
       /\ \A x \in Cheque \ {c} : SameVer(payRow[x], payRow'[x])
  BY <1>6, <1>8, RecordsApart DEF SameVer
<1>14. Applied(c)'
  <2>1. RowOf(c)' = own
    BY <1>1, <1>8 DEF RowOf
  <2>2. Latest(c)' = Latest(c) /\ version'[c] = version[c]
    BY DEF Latest
  <2>3. /\ RowOf(c)' # Absent /\ RowOf(c)'.ver = Len(version'[c])
        /\ ~(RowOf(c)'.ver < Len(version'[c])) /\ RowOf(c)'.deleted = FALSE
    BY <1>2, <1>5, <2>1, <2>2
  <2>4. /\ Latest(c)' # Gone /\ ~(c \notin Buyer /\ Latest(c)'.month < Start)
        /\ Latest(c)'.readable
    BY <2>2 DEF BeforeStart
  <2> QED BY <2>3, <2>4, Zenon DEF Applied, BeforeStart
<1> QED BY <1>9, <1>10, <1>12, <1>13, <1>14 DEF RowsStep

\* A refused version leaves the row at the version it shows.
LEMMA RefusedStep ==
  ASSUME RowsInv, NEW r \in Record, version[r] # << >>, UNCHANGED version,
         Latest(r) # Gone, ~BeforeStart(r, Latest(r)), ~Latest(r).readable,
         UNCHANGED <<buyerRow, docRow, payRow>>
  PROVE  RowsStep(r)
<1>1. /\ RowTypes' /\ LinksFilled' /\ RowsShow'
  BY DEF RowsInv, BillingTypeOK, RowTypes, LinksFilled, Finds, RowsShow, ShowsVersion, BeforeStart
<1>2. /\ \A d \in Document \ {r} : SameVer(docRow[d], docRow'[d])
      /\ \A c \in Cheque \ {r} : SameVer(payRow[c], payRow'[c])
  BY DEF SameVer
<1>3. ASSUME r \in Document \cup Cheque PROVE Applied(r)
  <2>1. Latest(r) = version[r][Len(version[r])]
    BY LatestIs
  <2>2. RowOf(r) # Absent => ShowsVersion(r, RowOf(r))
    BY <1>3, RecordsApart DEF RowsInv, RowsShow, RowOf
  <2>3. RowOf(r) # Absent /\ RowOf(r).ver = Len(version[r]) => Latest(r).readable
    BY <2>1, <2>2 DEF ShowsVersion
  <2> QED BY <2>3 DEF Applied
<1>4. r \in Document \cup Cheque => Applied(r)'
  BY <1>3 DEF Applied, RowOf, Latest, BeforeStart
<1> QED BY <1>1, <1>2, <1>4 DEF RowsStep

LEMMA NormalizeRecordKeeps ==
  ASSUME RowsInv, NEW r \in Record, NEW n \in 1..MaxArrivals, NormalizeRecord(r, n)
  PROVE  RowsInv'
<1>1. /\ UNCHANGED <<version, site, arrivals>> /\ n \in 1..Len(version[r])
      /\ due' = due \/ due' = due \ {<<r, n>>}
  BY DEF NormalizeRecord
<1>2. version[r] # << >>
  <2>1. Len(version[r]) \in Nat
    BY LenProperties DEF RowsInv, VersionsFit
  <2> QED BY <1>1, <2>1
<1>3. CASE n = Len(version[r])
  <2>1. PICK p : p = version[r][n] /\ p = Latest(r)
    BY <1>2, <1>3, LatestIs
  <2>2. ApplyRaw(r, n)
    BY <1>3 DEF NormalizeRecord, IsLatest
  <2>3. \/ (p = Gone \/ BeforeStart(r, p)) /\ ApplyDelete(r, n)
        \/ p # Gone /\ ~BeforeStart(r, p) /\ ~p.readable /\ UNCHANGED <<buyerRow, docRow, payRow>>
        \/ p # Gone /\ r \in Buyer /\ ApplyBuyer(r, n)
        \/ p # Gone /\ ~BeforeStart(r, p) /\ p.readable /\ r \in Document /\ ApplyDocument(r, n)
        \/ p # Gone /\ ~BeforeStart(r, p) /\ p.readable /\ r \in Cheque /\ ApplyCheque(r, n)
    BY <2>1, <2>2, Zenon DEF ApplyRaw
  <2>4. RowsStep(r)
    <3>1. CASE (p = Gone \/ BeforeStart(r, p)) /\ ApplyDelete(r, n)
      BY <1>1, <1>2, <1>3, <2>1, <3>1, DeleteStep
    <3>2. CASE p # Gone /\ ~BeforeStart(r, p) /\ ~p.readable /\ UNCHANGED <<buyerRow, docRow, payRow>>
      BY <1>1, <1>2, <2>1, <3>2, RefusedStep
    <3>3. CASE p # Gone /\ r \in Buyer /\ ApplyBuyer(r, n)
      BY <1>1, <1>2, <1>3, <2>1, <3>3, BuyerStep
    <3>4. CASE p # Gone /\ ~BeforeStart(r, p) /\ p.readable /\ r \in Document /\ ApplyDocument(r, n)
      BY <1>1, <1>2, <1>3, <2>1, <3>4, DocumentStep
    <3>5. CASE p # Gone /\ ~BeforeStart(r, p) /\ p.readable /\ r \in Cheque /\ ApplyCheque(r, n)
      BY <1>1, <1>2, <1>3, <2>1, <3>5, ChequeStep
    <3> QED BY <2>3, <3>1, <3>2, <3>3, <3>4, <3>5
  <2> QED BY <1>1, <1>3, <2>4, RowsStepKeeps
<1>4. CASE n # Len(version[r])
  <2>1. UNCHANGED <<buyerRow, docRow, payRow>>
    BY <1>4 DEF NormalizeRecord, IsLatest
  <2>2. \A x \in Record : Settled(x)' => Settled(x)
    BY <1>1, <1>4 DEF Settled, IsLatest
  <2>3. BillingTypeOK' /\ VersionsFit' /\ LinksFilled' /\ RowsShow'
    <3>1. BillingTypeOK'
      BY <1>1, <2>1 DEF RowsInv, BillingTypeOK
    <3>2. VersionsFit' /\ LinksFilled' /\ RowsShow'
      BY <1>1, <2>1 DEF RowsInv, VersionsFit, LinksFilled, Finds, RowsShow, ShowsVersion, BeforeStart
    <3> QED BY <3>1, <3>2
  <2>4. RowsFollow'
    BY <1>1, <2>1, <2>2, RecordsApart DEF RowsInv, RowsFollow, Latest, BeforeStart
  <2> QED BY <2>3, <2>4 DEF RowsInv
<1> QED BY <1>3, <1>4

LEMMA RowsInitially == BillingInit => RowsInv
<1> SUFFICES ASSUME BillingInit PROVE RowsInv
  OBVIOUS
<1>1. /\ DOMAIN version = Record /\ \A r \in Record : version[r] = << >>
      /\ \A d \in Document : docRow[d] = Absent
      /\ \A x \in Paid : payRow[x] = Absent
      /\ \A b \in Buyer : buyerRow[b] = Absent
  BY DEF BillingInit
<1>2. BillingTypeOK
  BY <1>1, BillingAssumption DEF BillingInit, BillingTypeOK
<1>3. VersionsFit
  BY <1>1, EmptySeq DEF BillingInit, VersionsFit
<1>4. LinksFilled /\ RowsShow /\ RowsFollow
  BY <1>1, RecordsApart DEF LinksFilled, RowsShow, RowsFollow
<1> QED BY <1>2, <1>3, <1>4 DEF RowsInv

LEMMA RowsInductive == RowsInv /\ [BillingNext]_billVars => RowsInv'
<1> SUFFICES ASSUME RowsInv, [BillingNext]_billVars PROVE RowsInv'
  OBVIOUS
<1>1. ASSUME NEW r \in Record, NEW p \in Payload[r], Arrive(r, p) PROVE RowsInv'
  BY <1>1, ArriveKeeps
<1>2. ASSUME NEW r \in Record, NEW n \in 1..MaxArrivals, NormalizeRecord(r, n) PROVE RowsInv'
  BY <1>2, NormalizeRecordKeeps
<1>3. ASSUME UNCHANGED <<version, due, buyerRow, docRow, payRow, arrivals>>,
             site' \in [Buyer -> Site \cup {Absent}]
      PROVE  RowsInv'
  <2>1. BillingTypeOK' /\ VersionsFit'
    BY <1>3 DEF RowsInv, BillingTypeOK, VersionsFit
  <2>2. LinksFilled' /\ RowsShow'
    BY <1>3 DEF RowsInv, LinksFilled, Finds, RowsShow, ShowsVersion, BeforeStart
  <2>3. RowsFollow'
    BY <1>3 DEF RowsInv, RowsFollow, Settled, IsLatest, Latest, BeforeStart
  <2> QED BY <2>1, <2>2, <2>3 DEF RowsInv
<1>4. ASSUME NEW b \in Buyer, NEW s \in Site, LinkBuyer(b, s) PROVE RowsInv'
  BY <1>3, <1>4 DEF LinkBuyer, RowsInv, BillingTypeOK
<1>5. ASSUME NEW b \in Buyer, UnlinkBuyer(b) PROVE RowsInv'
  BY <1>3, <1>5 DEF UnlinkBuyer, RowsInv, BillingTypeOK
<1>6. CASE UNCHANGED billVars
  BY <1>3, <1>6 DEF billVars, RowsInv, BillingTypeOK
<1> QED BY <1>1, <1>2, <1>4, <1>5, <1>6 DEF BillingNext

\* The billing rows follow the copy of QuickBooks: in whatever order customers,
\* documents, payments and deletes are applied, and however often, every link that can
\* be filled in is (sync.py, _apply_customer and _write_billing), and a row whose tasks
\* have run shows the latest version of its record or, when that one was refused, an
\* older one; which, depends on what was applied before the refused one was stored.
THEOREM BillingRowsFollow == BillingSpec => []BillingFollows
<1>1. RowsInv => BillingFollows
  BY DEF RowsInv, BillingFollows
<1> QED BY RowsInitially, RowsInductive, <1>1, PTL DEF BillingSpec

-----------------------------------------------------------------------------
(* What the rows show of the payloads' figures.                             *)

DocTells(d, row) == row # Absent =>
  LET p == version[d][row.ver] IN
  /\ row.voided => row.total = 0
  /\ ~row.deleted => p # Gone /\ row.month = p.month /\ row.total = p.total
PayTells(c, row) == row # Absent =>
  LET p == version[c][row.ver] IN
  ~row.deleted => p # Gone /\ row.month = p.month /\ row.total = p.total

\* A receipt's two rows tell the same.
Twins(row, side) ==
  /\ row = Absent <=> side = Absent
  /\ row # Absent => /\ side.month = row.month /\ side.total = row.total
                     /\ side.deleted = row.deleted

FiguresShow ==
  /\ \A d \in Document : DocTells(d, docRow[d])
  /\ \A c \in Cheque : PayTells(c, payRow[c])
  /\ \A d \in Receipts : Twins(docRow[d], payRow[d])

\* The figures of a row are not touched.
SamePayFigures(old, new) ==
  /\ old = Absent <=> new = Absent
  /\ old # Absent => /\ new.month = old.month /\ new.total = old.total
                     /\ new.deleted = old.deleted /\ new.ver = old.ver
SameDocFigures(old, new) == SamePayFigures(old, new) /\ (old # Absent => new.voided = old.voided)

LEMMA FiguresApart ==
  ASSUME FiguresShow, UNCHANGED version, NEW r \in Record,
         \A d \in Document \ {r} : SameDocFigures(docRow[d], docRow'[d]),
         \A x \in Paid \ {r} : SamePayFigures(payRow[x], payRow'[x]),
         r \in Document => DocTells(r, docRow[r])',
         r \in Cheque => PayTells(r, payRow[r])',
         r \in Receipts => Twins(docRow[r], payRow[r])'
  PROVE  FiguresShow'
<1>1. ASSUME NEW d \in Document PROVE DocTells(d, docRow[d])'
  <2>1. CASE d # r
    <3>1. SameDocFigures(docRow[d], docRow'[d]) /\ DocTells(d, docRow[d])
      BY <2>1 DEF FiguresShow
    <3> QED BY <3>1 DEF SameDocFigures, SamePayFigures, DocTells
  <2> QED BY <2>1
<1>2. ASSUME NEW c \in Cheque PROVE PayTells(c, payRow[c])'
  <2>1. CASE c # r
    <3>1. SamePayFigures(payRow[c], payRow'[c]) /\ PayTells(c, payRow[c])
      BY <2>1, RecordsApart DEF FiguresShow
    <3> QED BY <3>1 DEF SamePayFigures, PayTells
  <2> QED BY <2>1
<1>3. ASSUME NEW d \in Receipts PROVE Twins(docRow[d], payRow[d])'
  <2>1. CASE d # r
    <3>1. /\ SameDocFigures(docRow[d], docRow'[d]) /\ SamePayFigures(payRow[d], payRow'[d])
          /\ Twins(docRow[d], payRow[d])
      BY <2>1, RecordsApart DEF FiguresShow
    <3> QED BY <3>1 DEF SameDocFigures, SamePayFigures, Twins
  <2> QED BY <2>1
<1> QED BY <1>1, <1>2, <1>3 DEF FiguresShow

LEMMA LinkingFigures ==
  /\ \A q \in BillingRow : SameDocFigures(q, Linking(q))
  /\ \A q \in PaymentRow : SamePayFigures(q, Linking(q))
<1>1. ASSUME NEW q \in BillingRow PROVE SameDocFigures(q, Linking(q))
  <2>1. Linking(q) \in BillingRow
    BY LinkingDoc
  <2>2. /\ Linking(q).month = q.month /\ Linking(q).total = q.total /\ Linking(q).deleted = q.deleted
        /\ Linking(q).ver = q.ver /\ Linking(q).voided = q.voided
    BY DEF Linking, BillingRow
  <2> QED BY <2>1, <2>2, NullIsNoRow DEF SameDocFigures, SamePayFigures
<1>2. ASSUME NEW q \in PaymentRow PROVE SamePayFigures(q, Linking(q))
  <2>1. Linking(q) \in PaymentRow
    BY LinkingPay
  <2>2. /\ Linking(q).month = q.month /\ Linking(q).total = q.total /\ Linking(q).deleted = q.deleted
        /\ Linking(q).ver = q.ver
    BY DEF Linking, PaymentRow
  <2> QED BY <2>1, <2>2, NullIsNoRow DEF SamePayFigures
<1> QED BY <1>1, <1>2

LEMMA BuyerFigures ==
  ASSUME RowsInv, FiguresShow, NEW b \in Buyer, UNCHANGED version, NEW n, ApplyBuyer(b, n)
  PROVE  FiguresShow'
<1>1. /\ docRow' = [d \in Document |-> IF docRow[d] # Absent /\ docRow[d].buyer = b
                                       THEN Linking(docRow[d]) ELSE docRow[d]]
      /\ payRow' = [p \in Paid |-> IF payRow[p] # Absent /\ payRow[p].buyer = b
                                   THEN Linking(payRow[p]) ELSE payRow[p]]
  BY DEF ApplyBuyer, Linking
<1>2. RowTypes /\ b \in Record /\ b \notin Document /\ b \notin Cheque /\ b \notin Receipts /\ b \notin Paid
  BY RecordsApart DEF RowsInv, BillingTypeOK, RowTypes
<1> HIDE DEF Linking
<1>3. ASSUME NEW d \in Document PROVE SameDocFigures(docRow[d], docRow'[d])
  <2>1. docRow[d] = Absent \/ docRow[d] \in BillingRow
    BY <1>2 DEF RowTypes
  <2>2. CASE docRow[d] # Absent /\ docRow[d].buyer = b
    <3>1. docRow'[d] = Linking(docRow[d]) /\ docRow[d] \in BillingRow
      BY <1>1, <2>1, <2>2
    <3> QED BY <3>1, LinkingFigures
  <2>3. CASE ~(docRow[d] # Absent /\ docRow[d].buyer = b)
    <3>1. docRow'[d] = docRow[d]
      BY <1>1, <2>3
    <3> QED BY <3>1 DEF SameDocFigures, SamePayFigures
  <2> QED BY <2>2, <2>3
<1>4. ASSUME NEW x \in Paid PROVE SamePayFigures(payRow[x], payRow'[x])
  <2>1. payRow[x] = Absent \/ payRow[x] \in PaymentRow
    BY <1>2 DEF RowTypes
  <2>2. CASE payRow[x] # Absent /\ payRow[x].buyer = b
    <3>1. payRow'[x] = Linking(payRow[x]) /\ payRow[x] \in PaymentRow
      BY <1>1, <2>1, <2>2
    <3> QED BY <3>1, LinkingFigures
  <2>3. CASE ~(payRow[x] # Absent /\ payRow[x].buyer = b)
    <3>1. payRow'[x] = payRow[x]
      BY <1>1, <2>3
    <3> QED BY <3>1 DEF SamePayFigures
  <2> QED BY <2>2, <2>3
<1> QED BY <1>2, <1>3, <1>4, FiguresApart

\* A delete marks the rows and keeps their figures.
LEMMA MarkedFigures ==
  ASSUME NEW n \in Nat
  PROVE  /\ \A q \in BillingRow : /\ Marked(q, n) # Absent /\ Marked(q, n).month = q.month
                                  /\ Marked(q, n).total = q.total /\ Marked(q, n).deleted = TRUE
                                  /\ Marked(q, n).voided = q.voided
         /\ \A q \in PaymentRow : /\ Marked(q, n) # Absent /\ Marked(q, n).month = q.month
                                  /\ Marked(q, n).total = q.total /\ Marked(q, n).deleted = TRUE
<1>1. \A q \in BillingRow : Marked(q, n) # Absent
  BY MarkedDoc, NullIsNoRow
<1>2. \A q \in PaymentRow : Marked(q, n) # Absent
  BY MarkedPay, NullIsNoRow
<1>3. ASSUME NEW q \in BillingRow
      PROVE  /\ Marked(q, n).month = q.month /\ Marked(q, n).total = q.total
             /\ Marked(q, n).deleted = TRUE /\ Marked(q, n).voided = q.voided
  BY DEF Marked, BillingRow
<1>4. ASSUME NEW q \in PaymentRow
      PROVE  /\ Marked(q, n).month = q.month /\ Marked(q, n).total = q.total
             /\ Marked(q, n).deleted = TRUE
  BY DEF Marked, PaymentRow
<1> QED BY <1>1, <1>2, <1>3, <1>4

LEMMA DeleteFigures ==
  ASSUME RowsInv, FiguresShow, NEW r \in Record, UNCHANGED version, NEW n \in Nat, ApplyDelete(r, n)
  PROVE  FiguresShow'
<1>1. /\ docRow' = IF r \in Document /\ docRow[r] # Absent
                   THEN [docRow EXCEPT ![r] = Marked(docRow[r], n)] ELSE docRow
      /\ payRow' = IF r \in Paid /\ payRow[r] # Absent
                   THEN [payRow EXCEPT ![r] = Marked(payRow[r], n)] ELSE payRow
  BY DEF ApplyDelete, Marked
<1>2. RowTypes
  BY DEF RowsInv, BillingTypeOK, RowTypes
<1> HIDE DEF Marked
<1>3. /\ \A d \in Document \ {r} : docRow'[d] = docRow[d]
      /\ \A x \in Paid \ {r} : payRow'[x] = payRow[x]
      /\ r \in Document => docRow'[r] = IF docRow[r] = Absent THEN Absent ELSE Marked(docRow[r], n)
      /\ r \in Paid => payRow'[r] = IF payRow[r] = Absent THEN Absent ELSE Marked(payRow[r], n)
  BY <1>1, <1>2 DEF RowTypes
<1>4. r \in Document /\ docRow[r] # Absent =>
        /\ docRow'[r] # Absent /\ docRow'[r].month = docRow[r].month /\ docRow'[r].total = docRow[r].total
        /\ docRow'[r].deleted = TRUE /\ docRow'[r].voided = docRow[r].voided
  <2> SUFFICES ASSUME r \in Document, docRow[r] # Absent
               PROVE  /\ docRow'[r] # Absent /\ docRow'[r].month = docRow[r].month
                      /\ docRow'[r].total = docRow[r].total
                      /\ docRow'[r].deleted = TRUE /\ docRow'[r].voided = docRow[r].voided
    OBVIOUS
  <2>1. docRow[r] \in BillingRow /\ docRow'[r] = Marked(docRow[r], n)
    BY <1>2, <1>3 DEF RowTypes
  <2>2. PICK q \in BillingRow : q = docRow[r]
    BY <2>1
  <2>3. PICK m : m = Marked(q, n)
    OBVIOUS
  <2>4. /\ m # Absent /\ m.month = q.month /\ m.total = q.total /\ m.deleted = TRUE /\ m.voided = q.voided
    BY <2>3, MarkedFigures
  <2> QED BY <2>1, <2>2, <2>3, <2>4
<1>5. r \in Paid /\ payRow[r] # Absent =>
        /\ payRow'[r] # Absent /\ payRow'[r].month = payRow[r].month /\ payRow'[r].total = payRow[r].total
        /\ payRow'[r].deleted = TRUE
  <2> SUFFICES ASSUME r \in Paid, payRow[r] # Absent
               PROVE  /\ payRow'[r] # Absent /\ payRow'[r].month = payRow[r].month
                      /\ payRow'[r].total = payRow[r].total /\ payRow'[r].deleted = TRUE
    OBVIOUS
  <2>1. payRow[r] \in PaymentRow /\ payRow'[r] = Marked(payRow[r], n)
    BY <1>2, <1>3 DEF RowTypes
  <2>2. PICK q \in PaymentRow : q = payRow[r]
    BY <2>1
  <2>3. PICK m : m = Marked(q, n)
    OBVIOUS
  <2>4. /\ m # Absent /\ m.month = q.month /\ m.total = q.total /\ m.deleted = TRUE
    BY <2>3, MarkedFigures
  <2> QED BY <2>1, <2>2, <2>3, <2>4
<1>6. /\ \A d \in Document \ {r} : SameDocFigures(docRow[d], docRow'[d])
      /\ \A x \in Paid \ {r} : SamePayFigures(payRow[x], payRow'[x])
  BY <1>3 DEF SameDocFigures, SamePayFigures
<1>7. r \in Document => DocTells(r, docRow[r])'
  BY <1>3, <1>4 DEF FiguresShow, DocTells
<1>8. r \in Cheque => PayTells(r, payRow[r])'
  BY <1>3, <1>5, RecordsApart DEF PayTells
<1>9. r \in Receipts => Twins(docRow[r], payRow[r])'
  BY <1>3, <1>4, <1>5, RecordsApart DEF FiguresShow, Twins
<1> QED BY <1>6, <1>7, <1>8, <1>9, FiguresApart

LEMMA FilledFigures ==
  ASSUME NEW d \in Document, NEW q \in PaymentRow
  PROVE  SamePayFigures(q, FilledRow(d, q))
<1>1. FilledRow(d, q) \in PaymentRow
  BY FilledPay
<1>2. /\ FilledRow(d, q).month = q.month /\ FilledRow(d, q).total = q.total
      /\ FilledRow(d, q).deleted = q.deleted /\ FilledRow(d, q).ver = q.ver
  BY DEF FilledRow, PaymentRow
<1> QED BY <1>1, <1>2, NullIsNoRow DEF SamePayFigures

\* A payment row takes the figures of the payload it is written from.
FiguresFrom(q, p, n) ==
  /\ q # Absent /\ q.month = p.month /\ q.total = p.total /\ q.deleted = FALSE /\ q.ver = n

LEMMA WrittenFigures ==
  ASSUME NEW docs_, NEW p, NEW ls \in Seq(ApplicationLine), NEW n \in Nat, Payable(p)
  PROVE  FiguresFrom(PayFrom(docs_, p, ls, n), p, n)
<1>1. WrittenFrom(PayFrom(docs_, p, ls, n), docs_, p, ls, n)
  BY WrittenPay, Zenon
<1>2. PICK q : q = PayFrom(docs_, p, ls, n)
  OBVIOUS
<1>3. q # Absent
  BY <1>1, <1>2, NullIsNoRow DEF WrittenFrom
<1>4. q.month = p.month /\ q.total = p.total /\ q.deleted = FALSE /\ q.ver = n
  BY <1>2 DEF PayFrom
<1> QED BY <1>2, <1>3, <1>4 DEF FiguresFrom

LEMMA DocumentFigures ==
  ASSUME RowsInv, FiguresShow, NEW d \in Document, UNCHANGED version,
         NEW n \in 1..Len(version[d]), n \in Nat, version[d][n] # Gone, ApplyDocument(d, n)
  PROVE  FiguresShow'
<1>1. d \in Record /\ d \notin Cheque /\ RowTypes
  BY RecordsApart DEF RowsInv, BillingTypeOK, RowTypes
<1>2. PICK p \in DocPayload : p = version[d][n]
  BY <1>1, VersionTyped
<1>3. PICK own : own = DocFrom(d, n)
  OBVIOUS
<1>4. PICK after : after = docRow'
  OBVIOUS
<1>5. PICK side : side = PayFrom(after, p, OwnLine(d, p), n)
  OBVIOUS
<1>6. /\ docRow' = [docRow EXCEPT ![d] = own]
      /\ payRow' = IF d \in Receipts THEN [Filled(d, payRow) EXCEPT ![d] = side] ELSE Filled(d, payRow)
  BY <1>2, <1>3, <1>4, <1>5 DEF ApplyDocument
<1>7. docRow'[d] = own /\ \A e \in Document \ {d} : docRow'[e] = docRow[e]
  BY <1>1, <1>6 DEF RowTypes
<1>8. /\ \A x \in Paid : x # d => payRow'[x] = IF payRow[x] = Absent THEN Absent
                                               ELSE FilledRow(d, payRow[x])
      /\ d \in Receipts => payRow'[d] = side
  BY <1>6, RecordsApart DEF Filled, FilledRow, FilledLines
<1>9. /\ own # Absent /\ own.month = p.month /\ own.total = p.total /\ own.deleted = FALSE
      /\ own.ver = n /\ (own.voided => own.total = 0)
  <2>1. DocFrom(d, n) # Absent
    BY DocumentWritten
  <2>2. /\ own.month = p.month /\ own.total = p.total /\ own.deleted = FALSE
        /\ own.ver = n /\ own.voided = IsVoided(d, n)
    BY <1>2, <1>3 DEF DocFrom
  <2> QED BY <1>2, <1>3, <2>1, <2>2 DEF IsVoided
<1>10. /\ side # Absent /\ side.month = p.month /\ side.total = p.total /\ side.deleted = FALSE
  <2>1. /\ p.month \in Months /\ p.buyer \in Buyer /\ p.total \in Int /\ p.unapplied \in Int
    BY DEF DocPayload
  <2>2. [type |-> "SalesReceipt", to |-> d, amount |-> p.total] \in ApplicationLine
    BY <2>1 DEF ApplicationLine
  <2>3. OwnLine(d, p) \in Seq(ApplicationLine) /\ Payable(p)
    BY <2>1, <2>2 DEF OwnLine, Payable
  <2>4. FiguresFrom(PayFrom(after, p, OwnLine(d, p), n), p, n)
    BY <2>3, WrittenFigures, Zenon
  <2> QED BY <1>5, <2>4 DEF FiguresFrom
<1>11. DocTells(d, docRow[d])'
  BY <1>2, <1>7, <1>9 DEF DocTells
<1>12. d \in Receipts => Twins(docRow[d], payRow[d])'
  BY <1>7, <1>8, <1>9, <1>10 DEF Twins
<1>13. \A e \in Document \ {d} : SameDocFigures(docRow[e], docRow'[e])
  BY <1>7 DEF SameDocFigures, SamePayFigures
<1>14. ASSUME NEW x \in Paid \ {d} PROVE SamePayFigures(payRow[x], payRow'[x])
  <2>1. CASE payRow[x] = Absent
    BY <1>8, <2>1 DEF SamePayFigures
  <2>2. CASE payRow[x] # Absent
    <3>1. payRow[x] \in PaymentRow /\ payRow'[x] = FilledRow(d, payRow[x])
      BY <1>1, <1>8, <2>2 DEF RowTypes
    <3> QED BY <3>1, FilledFigures
  <2> QED BY <2>1, <2>2
<1> QED BY <1>1, <1>11, <1>12, <1>13, <1>14, FiguresApart

LEMMA ChequeFigures ==
  ASSUME RowsInv, FiguresShow, NEW c \in Cheque, UNCHANGED version,
         NEW n \in 1..Len(version[c]), n \in Nat, version[c][n] # Gone, ApplyCheque(c, n)
  PROVE  FiguresShow'
<1>1. c \in Record /\ c \notin Document /\ c \notin Receipts /\ c \in Paid /\ RowTypes
  BY RecordsApart DEF RowsInv, BillingTypeOK, RowTypes
<1>2. PICK p \in ChequePayload : p = version[c][n]
  BY <1>1, VersionTyped
<1>3. PICK docs_ : docs_ = docRow
  OBVIOUS
<1>4. PICK own : own = PayFrom(docs_, p, p.lines, n)
  OBVIOUS
<1>5. UNCHANGED docRow /\ payRow' = [payRow EXCEPT ![c] = own]
  BY <1>2, <1>3, <1>4 DEF ApplyCheque
<1>6. payRow'[c] = own /\ \A x \in Paid \ {c} : payRow'[x] = payRow[x]
  BY <1>1, <1>5 DEF RowTypes
<1>7. /\ own # Absent /\ own.month = p.month /\ own.total = p.total /\ own.deleted = FALSE
      /\ own.ver = n
  <2>1. p.lines \in Seq(ApplicationLine) /\ Payable(p)
    BY DEF ChequePayload, Payable
  <2>2. FiguresFrom(PayFrom(docs_, p, p.lines, n), p, n)
    BY <2>1, WrittenFigures, Zenon
  <2> QED BY <1>4, <2>2 DEF FiguresFrom
<1>8. PayTells(c, payRow[c])'
  BY <1>2, <1>6, <1>7 DEF PayTells
<1>9. /\ \A d \in Document \ {c} : SameDocFigures(docRow[d], docRow'[d])
      /\ \A x \in Paid \ {c} : SamePayFigures(payRow[x], payRow'[x])
  BY <1>5, <1>6 DEF SameDocFigures, SamePayFigures
<1> QED BY <1>1, <1>8, <1>9, FiguresApart

LEMMA NormalizeFigures ==
  ASSUME RowsInv, FiguresShow, NEW r \in Record, NEW n \in 1..MaxArrivals, NormalizeRecord(r, n)
  PROVE  FiguresShow'
<1>1. UNCHANGED version /\ n \in 1..Len(version[r]) /\ n \in Nat
  BY BillingAssumption DEF NormalizeRecord
<1>2. ASSUME UNCHANGED <<docRow, payRow>> PROVE FiguresShow'
  BY <1>1, <1>2 DEF FiguresShow, DocTells, PayTells, Twins
<1>3. CASE ~IsLatest(r, n)
  BY <1>2, <1>3 DEF NormalizeRecord
<1>4. CASE ApplyRaw(r, n)
  <2>1. PICK p : p = version[r][n]
    OBVIOUS
  <2>2. \/ ApplyDelete(r, n)
        \/ UNCHANGED <<buyerRow, docRow, payRow>>
        \/ p # Gone /\ r \in Buyer /\ ApplyBuyer(r, n)
        \/ p # Gone /\ r \in Document /\ ApplyDocument(r, n)
        \/ p # Gone /\ r \in Cheque /\ ApplyCheque(r, n)
    BY <1>4, <2>1, Zenon DEF ApplyRaw
  <2>3. CASE ApplyDelete(r, n)
    BY <1>1, <2>3, DeleteFigures
  <2>4. CASE UNCHANGED <<buyerRow, docRow, payRow>>
    BY <1>2, <2>4
  <2>5. CASE p # Gone /\ r \in Buyer /\ ApplyBuyer(r, n)
    BY <1>1, <2>5, BuyerFigures
  <2>6. CASE p # Gone /\ r \in Document /\ ApplyDocument(r, n)
    BY <1>1, <2>1, <2>6, DocumentFigures
  <2>7. CASE p # Gone /\ r \in Cheque /\ ApplyCheque(r, n)
    BY <1>1, <2>1, <2>7, ChequeFigures
  <2> QED BY <2>2, <2>3, <2>4, <2>5, <2>6, <2>7
<1> QED BY <1>3, <1>4 DEF NormalizeRecord

\* A version that arrives stands behind the one a row was built from.
LEMMA ArriveFigures ==
  ASSUME RowsInv, FiguresShow, NEW r \in Record, NEW p \in Payload[r], Arrive(r, p)
  PROVE  FiguresShow'
<1>1. version' = [version EXCEPT ![r] = Append(version[r], p)] /\ DOMAIN version = Record
      /\ UNCHANGED <<docRow, payRow>>
  BY DEF Arrive, RowsInv, BillingTypeOK
<1>2. /\ version'[r] = Append(version[r], p) /\ \A x \in Record \ {r} : version'[x] = version[x]
  BY <1>1
<1>3. version[r] \in Seq(Payload[r])
  BY DEF RowsInv, VersionsFit
<1>4. \A i \in 1..Len(version[r]) : Append(version[r], p)[i] = version[r][i]
  BY <1>3, Appending, Zenon
<1>5. ASSUME NEW x \in Record, NEW i \in 1..Len(version[x]) PROVE version'[x][i] = version[x][i]
  BY <1>2, <1>4
<1>6. /\ \A d \in Document : docRow[d] # Absent => docRow[d].ver \in 1..Len(version[d])
      /\ \A c \in Cheque : payRow[c] # Absent => payRow[c].ver \in 1..Len(version[c])
  BY RecordsApart DEF RowsInv, BillingTypeOK
<1>7. \A d \in Document : DocTells(d, docRow[d])'
  BY <1>1, <1>5, <1>6, RecordsApart DEF FiguresShow, DocTells
<1>8. \A c \in Cheque : PayTells(c, payRow[c])'
  BY <1>1, <1>5, <1>6, RecordsApart DEF FiguresShow, PayTells
<1>9. \A d \in Receipts : Twins(docRow[d], payRow[d])'
  BY <1>1 DEF FiguresShow, Twins
<1> QED BY <1>7, <1>8, <1>9 DEF FiguresShow

LEMMA FiguresInitially == BillingInit => FiguresShow
<1> SUFFICES ASSUME BillingInit PROVE FiguresShow
  OBVIOUS
<1>1. (\A d \in Document : docRow[d] = Absent) /\ (\A x \in Paid : payRow[x] = Absent)
  BY DEF BillingInit
<1> QED BY <1>1, RecordsApart DEF FiguresShow, DocTells, PayTells, Twins

LEMMA FiguresInductive == RowsInv /\ FiguresShow /\ [BillingNext]_billVars => FiguresShow'
<1> SUFFICES ASSUME RowsInv, FiguresShow, [BillingNext]_billVars PROVE FiguresShow'
  OBVIOUS
<1>1. ASSUME NEW r \in Record, NEW p \in Payload[r], Arrive(r, p) PROVE FiguresShow'
  BY <1>1, ArriveFigures
<1>2. ASSUME NEW r \in Record, NEW n \in 1..MaxArrivals, NormalizeRecord(r, n) PROVE FiguresShow'
  BY <1>2, NormalizeFigures
<1>3. ASSUME UNCHANGED <<version, docRow, payRow>> PROVE FiguresShow'
  BY <1>3 DEF FiguresShow, DocTells, PayTells, Twins
<1>4. ASSUME NEW b \in Buyer, NEW s \in Site, LinkBuyer(b, s) PROVE FiguresShow'
  BY <1>3, <1>4 DEF LinkBuyer
<1>5. ASSUME NEW b \in Buyer, UnlinkBuyer(b) PROVE FiguresShow'
  BY <1>3, <1>5 DEF UnlinkBuyer
<1>6. CASE UNCHANGED billVars
  BY <1>3, <1>6 DEF billVars
<1> QED BY <1>1, <1>2, <1>4, <1>5, <1>6 DEF BillingNext

-----------------------------------------------------------------------------
(* The figures as sums over two keys: a row's job or none, and its month.   *)

Places == Site \cup {Absent}

CountedDocs == {d \in Document : Counted(d)}
DocAmount == [d \in CountedDocs |-> Sign(d) * docRow[d].total]
DocMonth == [d \in CountedDocs |-> docRow[d].month]
DocJob == [d \in CountedDocs |-> JobOf(docRow[d])]

LivePaid == {x \in Paid : LivePay(x)}
PayTotal == [x \in LivePaid |-> payRow[x].total]
PayMonth == [x \in LivePaid |-> payRow[x].month]
PayJob == [x \in LivePaid |-> JobOf(payRow[x])]

\* Lines against held documents, and where they count.
HeldLines == {k \in AppLines : LineOf(k).held}
TypedLines == {k \in AppLines : Typed(LineOf(k))}
LineAmount == [k \in AppLines |-> Signed(LineOf(k))]
LineMonth == [k \in AppLines |-> payRow[k[1]].month]
LineTo == [k \in HeldLines |-> JobOf(docRow[LineOf(k).to])]
LineFrom == [k \in AppLines |-> JobOf(payRow[k[1]])]

\* A row on no job is one whose job is none.
LEMMA PlacesApart == Absent \notin Site /\ IsFiniteSet(Site) /\ IsFiniteSet(Months)
BY AbsentIsNull, BillingAssumption

PlacedRow(row) ==
  /\ JobOf(row) \in Places
  /\ JobOf(row) \in Site <=> OnJob(row) = TRUE
  /\ JobOf(row) = Absent <=> OnJob(row) = FALSE

LEMMA PlacedAre ==
  ASSUME RowsInv, NEW row, row.buyer \in Buyer, row.linked \in BOOLEAN
  PROVE  PlacedRow(row)
<1>1. site[row.buyer] \in Places
  BY DEF RowsInv, BillingTypeOK, Places
<1> QED BY <1>1, PlacesApart DEF PlacedRow, JobOf, OnJob, Places

LEMMA CountedTyped ==
  ASSUME RowsInv
  PROVE  /\ IsFiniteSet(CountedDocs) /\ Addable(DocAmount, CountedDocs)
         /\ \A d \in CountedDocs : /\ docRow[d] \in BillingRow /\ docRow[d].month \in Months
                                   /\ PlacedRow(docRow[d])
<1>1. IsFiniteSet(CountedDocs)
  BY FS_Subset, BillingAssumption DEF CountedDocs
<1>2. ASSUME NEW d \in CountedDocs
      PROVE  /\ docRow[d] \in BillingRow /\ docRow[d].month \in Months /\ PlacedRow(docRow[d])
             /\ Sign(d) * docRow[d].total \in Int
  <2>1. docRow[d] \in BillingRow
    BY DEF CountedDocs, Counted, RowsInv, BillingTypeOK
  <2>2. /\ docRow[d].buyer \in Buyer /\ docRow[d].linked \in BOOLEAN
        /\ docRow[d].month \in Months /\ docRow[d].total \in Int
    BY <2>1 DEF BillingRow
  <2>3. PlacedRow(docRow[d])
    BY <2>2, PlacedAre
  <2> QED BY <2>1, <2>2, <2>3 DEF Sign
<1> QED BY <1>1, <1>2 DEF Addable, DocAmount

LEMMA LivePaidTyped ==
  ASSUME RowsInv
  PROVE  /\ IsFiniteSet(LivePaid) /\ Addable(PayTotal, LivePaid)
         /\ \A x \in LivePaid : /\ payRow[x] \in PaymentRow /\ payRow[x].month \in Months
                                /\ payRow[x].unapplied \in Int /\ payRow[x].total \in Int
                                /\ payRow[x].lines \in Seq(ApplicationRow) /\ PlacedRow(payRow[x])
<1>1. IsFiniteSet(Receipts) /\ IsFiniteSet(Paid)
  BY FS_Subset, FS_Union, BillingAssumption DEF Receipts, Paid
<1>2. IsFiniteSet(LivePaid)
  BY <1>1, FS_Subset DEF LivePaid
<1>3. ASSUME NEW x \in LivePaid
      PROVE  /\ payRow[x] \in PaymentRow /\ payRow[x].month \in Months
             /\ payRow[x].unapplied \in Int /\ payRow[x].total \in Int
             /\ payRow[x].lines \in Seq(ApplicationRow) /\ PlacedRow(payRow[x])
  <2>1. payRow[x] \in PaymentRow
    BY DEF LivePaid, LivePay, RowsInv, BillingTypeOK
  <2>2. /\ payRow[x].buyer \in Buyer /\ payRow[x].linked \in BOOLEAN
        /\ payRow[x].month \in Months /\ payRow[x].total \in Int /\ payRow[x].unapplied \in Int
        /\ payRow[x].lines \in Seq(ApplicationRow)
    BY <2>1 DEF PaymentRow
  <2>3. PlacedRow(payRow[x])
    BY <2>2, PlacedAre
  <2> QED BY <2>1, <2>2, <2>3
<1> QED BY <1>2, <1>3 DEF Addable, PayTotal

LEMMA LinesFinite ==
  ASSUME RowsInv
  PROVE  IsFiniteSet(AppLines)
<1> DEFINE Places_(x) == {<<x, i>> : i \in DOMAIN payRow[x].lines}
           All == {Places_(x) : x \in LivePaid}
<1>1. IsFiniteSet(All)
  <2> DEFINE f == [x \in LivePaid |-> Places_(x)]
  <2>1. f \in Surjection(LivePaid, All)
    BY DEF Surjection
  <2> QED BY <2>1, FS_Surjection, LivePaidTyped
<1>2. ASSUME NEW x \in LivePaid PROVE IsFiniteSet(Places_(x))
  <2>1. PICK n \in Nat : DOMAIN payRow[x].lines = 1..n
    BY LivePaidTyped
  <2> DEFINE f == [i \in 1..n |-> <<x, i>>]
  <2>2. f \in Surjection(1..n, Places_(x))
    BY <2>1 DEF Surjection
  <2>3. IsFiniteSet(1..n)
    BY FS_Interval
  <2> QED BY <2>2, <2>3, FS_Surjection
<1>3. \A T \in All : IsFiniteSet(T)
  BY <1>2
<1>4. AppLines = UNION All
  BY DEF AppLines, LivePaid
<1> HIDE DEF All
<1> QED BY <1>1, <1>3, <1>4, FS_UNION

\* A line's payment is live, and a line that is held names a document held.
LEMMA LinesTyped ==
  ASSUME RowsInv
  PROVE  /\ Addable(LineAmount, AppLines)
         /\ \A k \in AppLines : /\ k[1] \in LivePaid /\ LineOf(k) \in ApplicationRow
                                /\ Signed(LineOf(k)) \in Int
         /\ \A k \in HeldLines : /\ LineOf(k).to \in Document /\ Typed(LineOf(k)) = TRUE
                                 /\ docRow[LineOf(k).to] \in BillingRow
                                 /\ PlacedRow(docRow[LineOf(k).to])
<1>1. ASSUME NEW k \in AppLines
      PROVE  k[1] \in LivePaid /\ LineOf(k) \in ApplicationRow /\ Signed(LineOf(k)) \in Int
             /\ (LineOf(k).held => Finds(docRow, LineOf(k)))
  <2>1. PICK x \in LivePaid : \E i \in DOMAIN payRow[x].lines : k = <<x, i>>
    BY DEF AppLines, LivePaid
  <2>2. PICK i \in DOMAIN payRow[x].lines : k = <<x, i>>
    BY <2>1
  <2>3. payRow[x].lines \in Seq(ApplicationRow)
    BY LivePaidTyped
  <2>4. PICK ls \in Seq(ApplicationRow) : ls = payRow[x].lines
    BY <2>3
  <2>5. ls[i] \in ApplicationRow /\ LineOf(k) = ls[i]
    BY <2>2, <2>4 DEF LineOf
  <2>6. ls[i].amount \in Int
    BY <2>5 DEF ApplicationRow
  <2>7. ls[i].held = Finds(docRow, ls[i])
    BY <2>2, <2>4 DEF LivePaid, LivePay, RowsInv, LinksFilled
  <2> QED BY <2>2, <2>5, <2>6, <2>7 DEF Signed
<1>2. ASSUME NEW k \in HeldLines
      PROVE  /\ LineOf(k).to \in Document /\ Typed(LineOf(k)) = TRUE
             /\ docRow[LineOf(k).to] \in BillingRow /\ PlacedRow(docRow[LineOf(k).to])
  <2>1. PICK a : a = LineOf(k)
    OBVIOUS
  <2>2. Finds(docRow, a)
    BY <1>1, <2>1 DEF HeldLines
  <2>3. PICK d \in Document : d = a.to
    BY <2>2 DEF Finds
  <2>4. docRow[d] \in BillingRow /\ a.type = Kind[d]
    BY <2>2, <2>3 DEF Finds, RowsInv, BillingTypeOK
  <2>5. docRow[d].buyer \in Buyer /\ docRow[d].linked \in BOOLEAN
    BY <2>4 DEF BillingRow
  <2>6. PlacedRow(docRow[d])
    BY <2>5, PlacedAre
  <2>7. Typed(a) = TRUE
    BY <2>4, BillingAssumption DEF Typed
  <2> QED BY <2>1, <2>3, <2>4, <2>6, <2>7
<1> QED BY <1>1, <1>2 DEF Addable, LineAmount

-----------------------------------------------------------------------------
(* Each figure in that form.                                                *)

Billed(K, M) == SumFunctionOnSet(DocAmount, Among(CountedDocs, DocJob, K, DocMonth, M))
Ledger(K, M) == SumFunctionOnSet(DocAmount, Among(CountedDocs, Kind, K, DocMonth, M))

LEMMA DocSums ==
  ASSUME RowsInv
  PROVE  \A T \in SUBSET CountedDocs :
           SumFunction([d \in T |-> Sign(d) * docRow[d].total]) = SumFunctionOnSet(DocAmount, T)
<1> SUFFICES ASSUME NEW T \in SUBSET CountedDocs
             PROVE  SumFunction([d \in T |-> Sign(d) * docRow[d].total]) = SumFunctionOnSet(DocAmount, T)
  OBVIOUS
<1>1. IsFiniteSet(T) /\ Addable(DocAmount, T)
  BY CountedTyped, SumsAreWhole
<1>2. PICK g : g = [d \in T |-> Sign(d) * docRow[d].total]
  OBVIOUS
<1>3. DOMAIN g = T /\ \A d \in T : g[d] = DocAmount[d]
  BY <1>2 DEF DocAmount
<1>4. SumFunction(g) = SumFunctionOnSet(DocAmount, T)
  BY <1>1, <1>3, SumOverDomain
<1> QED BY <1>2, <1>4

LEMMA BilledForms ==
  ASSUME RowsInv, NEW m \in Months
  PROVE  /\ \A kind : LedgerColumn(kind, m) = Ledger({kind}, {m})
         /\ SideBilled(TRUE, m) = Billed(Site, {m}) /\ SideBilled(FALSE, m) = Billed({Absent}, {m})
         /\ \A s \in Site : JobBilled(s, m) = Billed({s}, {m})
<1>1. ASSUME NEW kind PROVE LedgerColumn(kind, m) = Ledger({kind}, {m})
  <2>1. PICK T : T = {e \in Document : Kind[e] = kind /\ Counted(e) /\ docRow[e].month = m}
    OBVIOUS
  <2>2. T = Among(CountedDocs, Kind, {kind}, DocMonth, {m})
    BY <2>1 DEF Among, CountedDocs, DocMonth
  <2>3. T \in SUBSET CountedDocs
    BY <2>1 DEF CountedDocs
  <2> QED BY <2>1, <2>2, <2>3, DocSums DEF LedgerColumn, Ledger
<1>2. ASSUME NEW on \in BOOLEAN, NEW K, \A d \in CountedDocs : OnJob(docRow[d]) = on <=> JobOf(docRow[d]) \in K
      PROVE  SumFunction([d \in {e \in Document : Counted(e) /\ docRow[e].month = m /\ OnJob(docRow[e]) = on}
                            |-> Sign(d) * docRow[d].total]) = Billed(K, {m})
  <2>1. PICK T : T = {e \in Document : Counted(e) /\ docRow[e].month = m /\ OnJob(docRow[e]) = on}
    OBVIOUS
  <2>2. T = Among(CountedDocs, DocJob, K, DocMonth, {m})
    BY <1>2, <2>1 DEF Among, CountedDocs, DocMonth, DocJob
  <2>3. T \in SUBSET CountedDocs
    BY <2>1 DEF CountedDocs
  <2> QED BY <2>1, <2>2, <2>3, DocSums DEF Billed
<1>3. /\ \A d \in CountedDocs : OnJob(docRow[d]) = TRUE <=> JobOf(docRow[d]) \in Site
      /\ \A d \in CountedDocs : OnJob(docRow[d]) = FALSE <=> JobOf(docRow[d]) \in {Absent}
  BY CountedTyped DEF PlacedRow
<1>4. SideBilled(TRUE, m) = Billed(Site, {m}) /\ SideBilled(FALSE, m) = Billed({Absent}, {m})
  BY <1>2, <1>3 DEF SideBilled
<1>5. ASSUME NEW s \in Site PROVE JobBilled(s, m) = Billed({s}, {m})
  <2>1. PICK T : T = {e \in Document : Counted(e) /\ docRow[e].month = m /\ JobOf(docRow[e]) = s}
    OBVIOUS
  <2>2. T = Among(CountedDocs, DocJob, {s}, DocMonth, {m})
    BY <2>1 DEF Among, CountedDocs, DocMonth, DocJob
  <2>3. T \in SUBSET CountedDocs
    BY <2>1 DEF CountedDocs
  <2> QED BY <2>1, <2>2, <2>3, DocSums DEF JobBilled, Billed
<1> QED BY <1>1, <1>4, <1>5

-----------------------------------------------------------------------------
(* What is billed.                                                          *)

\* The three kinds of document are all there are, and so are the places.
LEMMA BilledTies ==
  ASSUME RowsInv, NEW m \in Months
  PROVE  SideBilled(TRUE, m) + SideBilled(FALSE, m)
           = LedgerColumn("Invoice", m) + LedgerColumn("CreditMemo", m) + LedgerColumn("SalesReceipt", m)
<1> DEFINE a == {"Invoice"} b == {"CreditMemo"} c == {"SalesReceipt"}
<1>1. /\ Billed(Site \cup {Absent}, {m}) = Billed(Site, {m}) + Billed({Absent}, {m})
      /\ Ledger(a \cup b, {m}) = Ledger(a, {m}) + Ledger(b, {m})
      /\ Ledger((a \cup b) \cup c, {m}) = Ledger(a \cup b, {m}) + Ledger(c, {m})
  <2>1. Site \cap {Absent} = {} /\ a \cap b = {} /\ (a \cup b) \cap c = {}
    BY PlacesApart
  <2> HIDE DEF a, b, c
  <2> QED BY <2>1, CountedTyped, SumOfBoth DEF Billed, Ledger
<1>2. Among(CountedDocs, DocJob, Site \cup {Absent}, DocMonth, {m})
        = Among(CountedDocs, Kind, (a \cup b) \cup c, DocMonth, {m})
  <2>1. \A d \in CountedDocs : Kind[d] \in (a \cup b) \cup c
    BY BillingAssumption DEF CountedDocs
  <2>2. \A d \in CountedDocs : DocJob[d] \in Site \cup {Absent}
    BY CountedTyped DEF DocJob, PlacedRow, Places
  <2> QED BY <2>1, <2>2 DEF Among
<1>3. Billed(Site \cup {Absent}, {m}) = Ledger((a \cup b) \cup c, {m})
  BY <1>2 DEF Billed, Ledger
<1> QED BY <1>1, <1>3, BilledForms

LEMMA BilledAgrees ==
  ASSUME RowsInv, NEW m \in Months
  PROVE  SumFunction([s \in Site |-> JobBilled(s, m)]) = SideBilled(TRUE, m)
<1>1. PICK g : g = [s \in Site |-> JobBilled(s, m)]
  OBVIOUS
<1>2. \A s \in Site : g[s] = Billed({s}, {m})
  BY <1>1, BilledForms
<1>3. FirstGrouped(g, Site, DocAmount, CountedDocs, DocJob, DocMonth, {m})
  BY <1>2 DEF FirstGrouped, Billed
<1>4. SumFunctionOnSet(g, Site) = Billed(Site, {m})
  BY <1>3, SumByFirst, CountedTyped, PlacesApart DEF Billed
<1> QED BY <1>1, <1>4, BilledForms DEF SumFunction

-----------------------------------------------------------------------------
(* What is collected: lines against documents held, and payments, less the  *)
(* lines of theirs that count elsewhere.                                    *)

Into(K, M) == SumFunctionOnSet(LineAmount, Among(HeldLines, LineTo, K, LineMonth, M))
OutOf(K, M) == SumFunctionOnSet(LineAmount, Among(HeldLines, LineFrom, K, LineMonth, M))
PaidIn(K, M) == SumFunctionOnSet(PayTotal, Among(LivePaid, PayJob, K, PayMonth, M))
Collected(K, M) == Into(K, M) + PaidIn(K, M) - OutOf(K, M)

LEMMA LineSums ==
  ASSUME RowsInv
  PROVE  \A T \in SUBSET AppLines : SumLines(T) = SumFunctionOnSet(LineAmount, T)
<1> SUFFICES ASSUME NEW T \in SUBSET AppLines
             PROVE  SumLines(T) = SumFunctionOnSet(LineAmount, T)
  OBVIOUS
<1>1. IsFiniteSet(T) /\ Addable(LineAmount, T)
  BY LinesTyped, LinesFinite, SumsAreWhole
<1>2. PICK g : g = [k \in T |-> Signed(LineOf(k))]
  OBVIOUS
<1>3. DOMAIN g = T /\ \A k \in T : g[k] = LineAmount[k]
  BY <1>2 DEF LineAmount
<1>4. SumFunction(g) = SumFunctionOnSet(LineAmount, T)
  BY <1>1, <1>3, SumOverDomain
<1> QED BY <1>2, <1>4 DEF SumLines

LEMMA HeldFinite ==
  ASSUME RowsInv
  PROVE  IsFiniteSet(HeldLines) /\ Addable(LineAmount, HeldLines) /\ HeldLines \in SUBSET AppLines
<1>1. HeldLines \in SUBSET AppLines
  BY DEF HeldLines
<1> QED BY <1>1, LinesTyped, LinesFinite, SumsAreWhole

\* The parts are whole numbers.
LEMMA PartsAreWhole ==
  ASSUME RowsInv, NEW K, NEW M
  PROVE  Into(K, M) \in Int /\ OutOf(K, M) \in Int /\ PaidIn(K, M) \in Int
<1>1. /\ Among(HeldLines, LineTo, K, LineMonth, M) \in SUBSET HeldLines
      /\ Among(HeldLines, LineFrom, K, LineMonth, M) \in SUBSET HeldLines
      /\ Among(LivePaid, PayJob, K, PayMonth, M) \in SUBSET LivePaid
  BY DEF Among
<1>2. \A T \in SUBSET HeldLines : SumFunctionOnSet(LineAmount, T) \in Int
  BY HeldFinite, SumsAreWhole
<1>3. \A T \in SUBSET LivePaid : SumFunctionOnSet(PayTotal, T) \in Int
  BY LivePaidTyped, SumsAreWhole
<1> QED BY <1>1, <1>2, <1>3 DEF Into, OutOf, PaidIn

\* Two sets of places, every place of a set, every month.
LEMMA CollectedOfBoth ==
  ASSUME RowsInv, NEW K, NEW L, K \cap L = {}, NEW M
  PROVE  Collected(K \cup L, M) = Collected(K, M) + Collected(L, M)
<1>1. Into(K \cup L, M) = Into(K, M) + Into(L, M)
  BY HeldFinite, SumOfBoth DEF Into
<1>2. OutOf(K \cup L, M) = OutOf(K, M) + OutOf(L, M)
  BY HeldFinite, SumOfBoth DEF OutOf
<1>3. PaidIn(K \cup L, M) = PaidIn(K, M) + PaidIn(L, M)
  BY LivePaidTyped, SumOfBoth DEF PaidIn
<1> QED BY <1>1, <1>2, <1>3, PartsAreWhole DEF Collected

CollectedAt(g, K, M) == \A s \in K : g[s] = Collected({s}, M)
CollectedWhen(g, M, K) == \A m \in M : g[m] = Collected(K, {m})

LEMMA CollectedByPlace ==
  ASSUME RowsInv, NEW K, IsFiniteSet(K), NEW M, NEW g, CollectedAt(g, K, M)
  PROVE  SumFunctionOnSet(g, K) = Collected(K, M)
<1>1. PICK i : i = [s \in K |-> Into({s}, M)]
  OBVIOUS
<1>2. PICK o : o = [s \in K |-> OutOf({s}, M)]
  OBVIOUS
<1>3. PICK p : p = [s \in K |-> PaidIn({s}, M)]
  OBVIOUS
<1>4. PICK h : h = [s \in K |-> i[s] + p[s]]
  OBVIOUS
<1>5. Addable(i, K) /\ Addable(o, K) /\ Addable(p, K) /\ Addable(h, K)
  <2>1. \A s \in K : i[s] \in Int /\ o[s] \in Int /\ p[s] \in Int
    BY <1>1, <1>2, <1>3, PartsAreWhole
  <2> QED BY <2>1, <1>4 DEF Addable
<1>6. ASSUME NEW s \in K PROVE h[s] = i[s] + p[s] /\ g[s] = h[s] - o[s]
  <2>1. g[s] = Collected({s}, M)
    BY DEF CollectedAt
  <2>2. h[s] = i[s] + p[s] /\ i[s] = Into({s}, M) /\ p[s] = PaidIn({s}, M) /\ o[s] = OutOf({s}, M)
    BY <1>1, <1>2, <1>3, <1>4
  <2>3. PICK a \in Int : a = Into({s}, M)
    BY PartsAreWhole
  <2>4. PICK b \in Int : b = OutOf({s}, M)
    BY PartsAreWhole
  <2>5. PICK c \in Int : c = PaidIn({s}, M)
    BY PartsAreWhole
  <2> QED BY <2>1, <2>2, <2>3, <2>4, <2>5 DEF Collected
<1>7. SumFunctionOnSet(h, K) = SumFunctionOnSet(i, K) + SumFunctionOnSet(p, K)
  BY <1>5, <1>6, SumPlus
<1>8. SumFunctionOnSet(g, K) = SumFunctionOnSet(h, K) - SumFunctionOnSet(o, K)
  BY <1>5, <1>6, SumMinus
<1>9. SumFunctionOnSet(i, K) = Into(K, M)
  <2>1. FirstGrouped(i, K, LineAmount, HeldLines, LineTo, LineMonth, M)
    BY <1>1 DEF FirstGrouped, Into
  <2> QED BY <2>1, HeldFinite, SumByFirst DEF Into
<1>10. SumFunctionOnSet(o, K) = OutOf(K, M)
  <2>1. FirstGrouped(o, K, LineAmount, HeldLines, LineFrom, LineMonth, M)
    BY <1>2 DEF FirstGrouped, OutOf
  <2> QED BY <2>1, HeldFinite, SumByFirst DEF OutOf
<1>11. SumFunctionOnSet(p, K) = PaidIn(K, M)
  <2>1. FirstGrouped(p, K, PayTotal, LivePaid, PayJob, PayMonth, M)
    BY <1>3 DEF FirstGrouped, PaidIn
  <2> QED BY <2>1, LivePaidTyped, SumByFirst DEF PaidIn
<1>12. PICK a \in Int : a = Into(K, M)
  BY PartsAreWhole
<1>13. PICK b \in Int : b = OutOf(K, M)
  BY PartsAreWhole
<1>14. PICK c \in Int : c = PaidIn(K, M)
  BY PartsAreWhole
<1> QED
  BY <1>7, <1>8, <1>9, <1>10, <1>11, <1>12, <1>13, <1>14 DEF Collected

LEMMA CollectedByMonth ==
  ASSUME RowsInv, NEW K, NEW M, IsFiniteSet(M), NEW g, CollectedWhen(g, M, K)
  PROVE  SumFunctionOnSet(g, M) = Collected(K, M)
<1>1. PICK i : i = [m \in M |-> Into(K, {m})]
  OBVIOUS
<1>2. PICK o : o = [m \in M |-> OutOf(K, {m})]
  OBVIOUS
<1>3. PICK p : p = [m \in M |-> PaidIn(K, {m})]
  OBVIOUS
<1>4. PICK h : h = [m \in M |-> i[m] + p[m]]
  OBVIOUS
<1>5. Addable(i, M) /\ Addable(o, M) /\ Addable(p, M) /\ Addable(h, M)
  <2>1. \A m \in M : i[m] \in Int /\ o[m] \in Int /\ p[m] \in Int
    BY <1>1, <1>2, <1>3, PartsAreWhole
  <2> QED BY <2>1, <1>4 DEF Addable
<1>6. ASSUME NEW m \in M PROVE h[m] = i[m] + p[m] /\ g[m] = h[m] - o[m]
  <2>1. g[m] = Collected(K, {m})
    BY DEF CollectedWhen
  <2>2. h[m] = i[m] + p[m] /\ i[m] = Into(K, {m}) /\ p[m] = PaidIn(K, {m}) /\ o[m] = OutOf(K, {m})
    BY <1>1, <1>2, <1>3, <1>4
  <2>3. PICK a \in Int : a = Into(K, {m})
    BY PartsAreWhole
  <2>4. PICK b \in Int : b = OutOf(K, {m})
    BY PartsAreWhole
  <2>5. PICK c \in Int : c = PaidIn(K, {m})
    BY PartsAreWhole
  <2> QED BY <2>1, <2>2, <2>3, <2>4, <2>5 DEF Collected
<1>7. SumFunctionOnSet(h, M) = SumFunctionOnSet(i, M) + SumFunctionOnSet(p, M)
  BY <1>5, <1>6, SumPlus
<1>8. SumFunctionOnSet(g, M) = SumFunctionOnSet(h, M) - SumFunctionOnSet(o, M)
  BY <1>5, <1>6, SumMinus
<1>9. SumFunctionOnSet(i, M) = Into(K, M)
  <2>1. SecondGrouped(i, M, LineAmount, HeldLines, LineTo, LineMonth, K)
    BY <1>1 DEF SecondGrouped, Into
  <2> QED BY <2>1, HeldFinite, SumBySecond DEF Into
<1>10. SumFunctionOnSet(o, M) = OutOf(K, M)
  <2>1. SecondGrouped(o, M, LineAmount, HeldLines, LineFrom, LineMonth, K)
    BY <1>2 DEF SecondGrouped, OutOf
  <2> QED BY <2>1, HeldFinite, SumBySecond DEF OutOf
<1>11. SumFunctionOnSet(p, M) = PaidIn(K, M)
  <2>1. SecondGrouped(p, M, PayTotal, LivePaid, PayJob, PayMonth, K)
    BY <1>3 DEF SecondGrouped, PaidIn
  <2> QED BY <2>1, LivePaidTyped, SumBySecond DEF PaidIn
<1>12. PICK a \in Int : a = Into(K, M)
  BY PartsAreWhole
<1>13. PICK b \in Int : b = OutOf(K, M)
  BY PartsAreWhole
<1>14. PICK c \in Int : c = PaidIn(K, M)
  BY PartsAreWhole
<1> QED
  BY <1>7, <1>8, <1>9, <1>10, <1>11, <1>12, <1>13, <1>14 DEF Collected

-----------------------------------------------------------------------------
(* The database's two sides.                                                *)

\* Payments, as sums over a set of them.
LEMMA PaySums ==
  ASSUME RowsInv
  PROVE  \A T \in SUBSET LivePaid :
           SumFunction([x \in T |-> payRow[x].total]) = SumFunctionOnSet(PayTotal, T)
<1> SUFFICES ASSUME NEW T \in SUBSET LivePaid
             PROVE  SumFunction([x \in T |-> payRow[x].total]) = SumFunctionOnSet(PayTotal, T)
  OBVIOUS
<1>1. IsFiniteSet(T) /\ Addable(PayTotal, T)
  BY LivePaidTyped, SumsAreWhole
<1>2. PICK g : g = [x \in T |-> payRow[x].total]
  OBVIOUS
<1>3. DOMAIN g = T /\ \A x \in T : g[x] = PayTotal[x]
  BY <1>2 DEF PayTotal
<1>4. SumFunction(g) = SumFunctionOnSet(PayTotal, T)
  BY <1>1, <1>3, SumOverDomain
<1> QED BY <1>2, <1>4

SideIncoming(on, m) ==
  {k \in {j \in AppLines : payRow[j[1]].month = m} : LineOf(k).held /\ OnJob(docRow[LineOf(k).to]) = on}
SideOutgoing(on, m) ==
  {k \in {j \in AppLines : payRow[j[1]].month = m} :
     LineOf(k).held /\ Typed(LineOf(k)) /\ OnJob(payRow[k[1]]) = on}
SideOwn(on, m) == {x \in Paid : LivePay(x) /\ payRow[x].month = m /\ OnJob(payRow[x]) = on}

\* on is the side of the places of K.
SideIs(on, K) ==
  /\ \A k \in HeldLines : OnJob(docRow[LineOf(k).to]) = on <=> JobOf(docRow[LineOf(k).to]) \in K
  /\ \A x \in LivePaid : OnJob(payRow[x]) = on <=> JobOf(payRow[x]) \in K

LEMMA Sides == RowsInv => SideIs(TRUE, Site) /\ SideIs(FALSE, {Absent})
<1> SUFFICES ASSUME RowsInv PROVE SideIs(TRUE, Site) /\ SideIs(FALSE, {Absent})
  OBVIOUS
<1>1. /\ \A k \in HeldLines : PlacedRow(docRow[LineOf(k).to])
      /\ \A x \in LivePaid : PlacedRow(payRow[x])
  BY LinesTyped, LivePaidTyped
<1> QED BY <1>1 DEF SideIs, PlacedRow

LEMMA SideSums ==
  ASSUME RowsInv, NEW m \in Months, NEW on, NEW K, SideIs(on, K)
  PROVE  /\ SumLines(SideIncoming(on, m)) = Into(K, {m})
         /\ SumFunction([x \in SideOwn(on, m) |-> payRow[x].total]) = PaidIn(K, {m})
         /\ SumLines(SideOutgoing(on, m)) = OutOf(K, {m})
<1>1. \A k \in AppLines : k[1] \in LivePaid
  BY LinesTyped
<1>2. SumLines(SideIncoming(on, m)) = Into(K, {m})
  <2>1. SideIncoming(on, m) = Among(HeldLines, LineTo, K, LineMonth, {m})
    BY <1>1 DEF SideIncoming, Among, HeldLines, LineTo, LineMonth, SideIs
  <2>2. SideIncoming(on, m) \in SUBSET AppLines
    BY DEF SideIncoming
  <2> QED BY <2>1, <2>2, LineSums DEF Into
<1>3. SumLines(SideOutgoing(on, m)) = OutOf(K, {m})
  <2>1. \A k \in HeldLines : Typed(LineOf(k)) = TRUE
    BY LinesTyped
  <2>2. SideOutgoing(on, m) = Among(HeldLines, LineFrom, K, LineMonth, {m})
    BY <1>1, <2>1 DEF SideOutgoing, Among, HeldLines, LineFrom, LineMonth, SideIs
  <2>3. SideOutgoing(on, m) \in SUBSET AppLines
    BY DEF SideOutgoing
  <2> QED BY <2>2, <2>3, LineSums DEF OutOf
<1>4. SumFunction([x \in SideOwn(on, m) |-> payRow[x].total]) = PaidIn(K, {m})
  <2>1. SideOwn(on, m) = Among(LivePaid, PayJob, K, PayMonth, {m})
    BY DEF SideOwn, Among, LivePaid, PayJob, PayMonth, SideIs
  <2>2. SideOwn(on, m) \in SUBSET LivePaid
    BY DEF SideOwn, LivePaid
  <2>3. PICK T \in SUBSET LivePaid : T = SideOwn(on, m)
    BY <2>2
  <2>4. SumFunction([x \in T |-> payRow[x].total]) = SumFunctionOnSet(PayTotal, T)
    BY PaySums
  <2> QED BY <2>1, <2>3, <2>4 DEF PaidIn
<1> QED BY <1>2, <1>3, <1>4

LEMMA SideForms ==
  ASSUME RowsInv, NEW m \in Months
  PROVE  /\ SideCollected(TRUE, m) = Collected(Site, {m})
         /\ SideCollected(FALSE, m) = Collected({Absent}, {m})
<1>1. SideCollected(TRUE, m) =
        SumLines(SideIncoming(TRUE, m)) + SumFunction([x \in SideOwn(TRUE, m) |-> payRow[x].total])
        - SumLines(SideOutgoing(TRUE, m))
  BY DEF SideCollected, SideIncoming, SideOwn, SideOutgoing
<1>2. SideCollected(FALSE, m) =
        SumLines(SideIncoming(FALSE, m)) + SumFunction([x \in SideOwn(FALSE, m) |-> payRow[x].total])
        - SumLines(SideOutgoing(FALSE, m))
  BY DEF SideCollected, SideIncoming, SideOwn, SideOutgoing
<1>3. /\ SumLines(SideIncoming(TRUE, m)) = Into(Site, {m})
      /\ SumFunction([x \in SideOwn(TRUE, m) |-> payRow[x].total]) = PaidIn(Site, {m})
      /\ SumLines(SideOutgoing(TRUE, m)) = OutOf(Site, {m})
  BY Sides, SideSums
<1>4. /\ SumLines(SideIncoming(FALSE, m)) = Into({Absent}, {m})
      /\ SumFunction([x \in SideOwn(FALSE, m) |-> payRow[x].total]) = PaidIn({Absent}, {m})
      /\ SumLines(SideOutgoing(FALSE, m)) = OutOf({Absent}, {m})
  BY Sides, SideSums
<1> QED BY <1>1, <1>2, <1>3, <1>4, Zenon DEF Collected

-----------------------------------------------------------------------------
(* Python's figures of one job, or of none.                                 *)

\* What a payment's typed lines take of it, and what of it is unapplied.
LinesOf(x) == {k \in AppLines : k[1] = x /\ Typed(LineOf(k))}
PayTaken == [x \in LivePaid |-> SumFunctionOnSet(LineAmount, LinesOf(x))]
PayLeft == [x \in LivePaid |-> payRow[x].unapplied]
FromPay == [k \in AppLines |-> k[1]]

OwnAt(s, M) == Among(LivePaid, PayJob, {s}, PayMonth, M)
TypedAt(s, M) == Among(TypedLines, LineFrom, {s}, LineMonth, M)
LooseAt(s, M) == {k \in TypedAt(s, M) : ~LineOf(k).held}
HeldAt(s, M) == Among(HeldLines, LineFrom, {s}, LineMonth, M)

LEMMA OwnFinite ==
  ASSUME RowsInv, NEW s, NEW M
  PROVE  /\ IsFiniteSet(OwnAt(s, M)) /\ OwnAt(s, M) \in SUBSET LivePaid
         /\ Addable(PayTotal, OwnAt(s, M)) /\ Addable(PayTaken, OwnAt(s, M)) /\ Addable(PayLeft, OwnAt(s, M))
<1>1. PICK T \in SUBSET LivePaid : T = OwnAt(s, M)
  BY DEF OwnAt, Among
<1>2. IsFiniteSet(T) /\ Addable(PayTotal, T)
  BY LivePaidTyped, SumsAreWhole
<1>3. Addable(PayLeft, T)
  BY LivePaidTyped DEF Addable, PayLeft
<1>4. \A x \in T : LinesOf(x) \in SUBSET AppLines
  BY DEF LinesOf
<1>5. \A L \in SUBSET AppLines : SumFunctionOnSet(LineAmount, L) \in Int
  BY LinesTyped, LinesFinite, SumsAreWhole
<1>6. Addable(PayTaken, T)
  BY <1>4, <1>5 DEF Addable, PayTaken
<1> QED BY <1>1, <1>2, <1>3, <1>6

\* The typed lines of the payments of a place are taken from them.
LEMMA TakenSums ==
  ASSUME RowsInv, NEW s, NEW M
  PROVE  SumFunctionOnSet(PayTaken, OwnAt(s, M)) = SumFunctionOnSet(LineAmount, TypedAt(s, M))
<1>1. PICK S \in SUBSET AppLines : S = TypedAt(s, M)
  BY DEF TypedAt, Among, TypedLines
<1>2. IsFiniteSet(S) /\ Addable(LineAmount, S)
  BY LinesTyped, LinesFinite, SumsAreWhole
<1>3. PICK O \in SUBSET LivePaid : O = OwnAt(s, M)
  BY OwnFinite
<1>4. IsFiniteSet(O)
  BY <1>3, OwnFinite
<1>5. \A k \in AppLines : k[1] \in LivePaid
  BY LinesTyped
<1>6. \A k \in S : FromPay[k] \in O
  BY <1>1, <1>3, <1>5
     DEF FromPay, TypedAt, OwnAt, Among, TypedLines, LineFrom, LineMonth, PayJob, PayMonth
<1>7. ASSUME NEW x \in O PROVE PayTaken[x] = SumFunctionOnSet(LineAmount, {k \in S : FromPay[k] = x})
  <2>1. LinesOf(x) = {k \in S : FromPay[k] = x}
    BY <1>1, <1>3, <1>5
       DEF LinesOf, FromPay, TypedAt, OwnAt, Among, TypedLines, LineFrom, LineMonth, PayJob, PayMonth
  <2> QED BY <2>1 DEF PayTaken
<1>8. Grouped(PayTaken, O, LineAmount, S, FromPay)
  BY <1>6, <1>7 DEF Grouped
<1> QED BY <1>1, <1>2, <1>3, <1>4, <1>8, SumBy

\* A typed line names a document held, or it is loose.
LEMMA TypedSums ==
  ASSUME RowsInv, NEW s, NEW M
  PROVE  /\ SumFunctionOnSet(LineAmount, TypedAt(s, M))
              = SumFunctionOnSet(LineAmount, LooseAt(s, M)) + OutOf({s}, M)
         /\ SumFunctionOnSet(LineAmount, LooseAt(s, M)) \in Int
<1>1. PICK L \in SUBSET AppLines : L = LooseAt(s, M)
  BY DEF LooseAt, TypedAt, Among, TypedLines
<1>2. PICK H \in SUBSET AppLines : H = HeldAt(s, M)
  BY DEF HeldAt, Among, HeldLines
<1>3. \A k \in HeldLines : Typed(LineOf(k)) = TRUE
  BY LinesTyped
<1>4. L \cap H = {} /\ L \cup H = TypedAt(s, M)
  BY <1>1, <1>2, <1>3 DEF LooseAt, HeldAt, TypedAt, Among, TypedLines, HeldLines
<1>5. /\ IsFiniteSet(L) /\ Addable(LineAmount, L) /\ SumFunctionOnSet(LineAmount, L) \in Int
      /\ IsFiniteSet(H) /\ Addable(LineAmount, H)
  BY LinesTyped, LinesFinite, SumsAreWhole
<1>6. SumFunctionOnSet(LineAmount, L \cup H) = SumFunctionOnSet(LineAmount, L) + SumFunctionOnSet(LineAmount, H)
  BY <1>4, <1>5, SumUnion
<1>7. SumFunctionOnSet(LineAmount, H) = OutOf({s}, M)
  BY <1>2 DEF OutOf, HeldAt
<1> QED BY <1>1, <1>4, <1>5, <1>6, <1>7

LEMMA RemainderIs ==
  ASSUME RowsInv, NEW x \in LivePaid
  PROVE  Remainder(x) = PayTotal[x] - PayLeft[x] - PayTaken[x]
<1>1. LinesOf(x) \in SUBSET AppLines
  BY DEF LinesOf
<1>2. SumLines(LinesOf(x)) = PayTaken[x]
  BY <1>1, LineSums DEF PayTaken
<1>3. Remainder(x) = payRow[x].total - payRow[x].unapplied - SumLines(LinesOf(x))
  BY DEF Remainder, LinesOf
<1> QED BY <1>2, <1>3, Zenon DEF PayTotal, PayLeft

\* Over the payments of a place.
LeftAt(s, M) == SumFunctionOnSet(PayLeft, OwnAt(s, M))

LEMMA RemainderSums ==
  ASSUME RowsInv, NEW s, NEW M
  PROVE  /\ LeftAt(s, M) \in Int
         /\ SumFunction([x \in OwnAt(s, M) |-> Remainder(x) + payRow[x].unapplied])
              = PaidIn({s}, M) - SumFunctionOnSet(LineAmount, TypedAt(s, M))
         /\ SumFunction([x \in OwnAt(s, M) |-> Remainder(x)])
              = PaidIn({s}, M) - SumFunctionOnSet(LineAmount, TypedAt(s, M)) - LeftAt(s, M)
         /\ SumFunction([x \in OwnAt(s, M) |-> payRow[x].unapplied]) = LeftAt(s, M)
         /\ SumFunction([x \in OwnAt(s, M) |-> payRow[x].total - payRow[x].unapplied])
              = PaidIn({s}, M) - LeftAt(s, M)
<1>1. PICK T \in SUBSET LivePaid : T = OwnAt(s, M)
  BY OwnFinite
<1>2. IsFiniteSet(T) /\ Addable(PayTotal, T) /\ Addable(PayTaken, T) /\ Addable(PayLeft, T)
  BY <1>1, OwnFinite
<1>3. PICK a : a = [x \in T |-> Remainder(x) + payRow[x].unapplied]
  OBVIOUS
<1>4. PICK b : b = [x \in T |-> Remainder(x)]
  OBVIOUS
<1>5. PICK c : c = [x \in T |-> payRow[x].unapplied]
  OBVIOUS
<1>6. PICK e : e = [x \in T |-> payRow[x].total - payRow[x].unapplied]
  OBVIOUS
<1>7. ASSUME NEW x \in T
      PROVE  /\ a[x] = PayTotal[x] - PayTaken[x] /\ a[x] \in Int /\ b[x] = a[x] - PayLeft[x]
             /\ c[x] = PayLeft[x] /\ e[x] = PayTotal[x] - PayLeft[x]
  <2>1. PICK t \in Int : t = PayTotal[x]
    BY <1>2 DEF Addable
  <2>2. PICK l \in Int : l = PayLeft[x]
    BY <1>2 DEF Addable
  <2>3. PICK k \in Int : k = PayTaken[x]
    BY <1>2 DEF Addable
  <2>4. Remainder(x) = t - l - k
    BY <2>1, <2>2, <2>3, RemainderIs
  <2>5. payRow[x].total = t /\ payRow[x].unapplied = l
    BY <2>1, <2>2 DEF PayTotal, PayLeft
  <2>6. a[x] = Remainder(x) + payRow[x].unapplied /\ b[x] = Remainder(x)
        /\ c[x] = payRow[x].unapplied /\ e[x] = payRow[x].total - payRow[x].unapplied
    BY <1>3, <1>4, <1>5, <1>6
  <2> QED BY <2>1, <2>2, <2>3, <2>4, <2>5, <2>6
<1>8. Addable(a, T)
  BY <1>7 DEF Addable
<1>9. SumFunctionOnSet(a, T) = SumFunctionOnSet(PayTotal, T) - SumFunctionOnSet(PayTaken, T)
  BY <1>2, <1>7, SumMinus
<1>10. SumFunctionOnSet(b, T) = SumFunctionOnSet(a, T) - SumFunctionOnSet(PayLeft, T)
  BY <1>2, <1>7, <1>8, SumMinus
<1>11. SumFunctionOnSet(PayLeft, T) = SumFunctionOnSet(c, T)
  BY <1>2, <1>7, SumSame
<1>12. SumFunctionOnSet(e, T) = SumFunctionOnSet(PayTotal, T) - SumFunctionOnSet(PayLeft, T)
  BY <1>2, <1>7, SumMinus
<1>13. SumFunctionOnSet(PayLeft, T) \in Int
  BY <1>2, SumIsWhole
<1>14. /\ SumFunctionOnSet(PayTotal, T) = PaidIn({s}, M)
       /\ SumFunctionOnSet(PayTaken, T) = SumFunctionOnSet(LineAmount, TypedAt(s, M))
       /\ SumFunctionOnSet(PayLeft, T) = LeftAt(s, M)
  BY <1>1, TakenSums DEF PaidIn, OwnAt, LeftAt
<1>15. /\ SumFunction(a) = SumFunctionOnSet(a, T) /\ SumFunction(b) = SumFunctionOnSet(b, T)
       /\ SumFunction(c) = SumFunctionOnSet(c, T) /\ SumFunction(e) = SumFunctionOnSet(e, T)
  BY <1>3, <1>4, <1>5, <1>6 DEF SumFunction
<1>16. /\ SumFunction(a) = PaidIn({s}, M) - SumFunctionOnSet(LineAmount, TypedAt(s, M))
       /\ SumFunction(b) = PaidIn({s}, M) - SumFunctionOnSet(LineAmount, TypedAt(s, M)) - LeftAt(s, M)
       /\ SumFunction(c) = LeftAt(s, M) /\ SumFunction(e) = PaidIn({s}, M) - LeftAt(s, M)
  BY <1>9, <1>10, <1>11, <1>12, <1>14, <1>15, Zenon
<1> QED BY <1>1, <1>3, <1>4, <1>5, <1>6, <1>13, <1>14, <1>16

LEMMA IntoSums ==
  ASSUME RowsInv, NEW s, NEW M, M \in SUBSET Months
  PROVE  SumLines({k \in AppLines : /\ payRow[k[1]].month \in M /\ Typed(LineOf(k))
                                    /\ LineOf(k).held /\ JobOf(docRow[LineOf(k).to]) = s})
           = Into({s}, M)
<1> DEFINE I == {k \in AppLines : /\ payRow[k[1]].month \in M /\ Typed(LineOf(k))
                                  /\ LineOf(k).held /\ JobOf(docRow[LineOf(k).to]) = s}
<1>1. \A k \in HeldLines : Typed(LineOf(k)) = TRUE
  BY LinesTyped
<1>2. I = Among(HeldLines, LineTo, {s}, LineMonth, M)
  BY <1>1 DEF Among, HeldLines, LineTo, LineMonth
<1>3. I \in SUBSET AppLines
  OBVIOUS
<1> HIDE DEF I
<1>4. SumLines(I) = Into({s}, M)
  BY <1>2, <1>3, LineSums DEF Into
<1> QED BY <1>4 DEF I

LEMMA JobForms ==
  ASSUME RowsInv, NEW s, NEW m \in Months
  PROVE  JobCollected(s, m) = Collected({s}, {m})
<1> DEFINE I == {k \in {j \in AppLines : payRow[j[1]].month = m /\ Typed(LineOf(j))} :
                   LineOf(k).held /\ JobOf(docRow[LineOf(k).to]) = s}
           L == {k \in {j \in AppLines : payRow[j[1]].month = m /\ Typed(LineOf(j))} :
                   ~LineOf(k).held /\ JobOf(payRow[k[1]]) = s}
           O == {x \in Paid : LivePay(x) /\ payRow[x].month = m /\ JobOf(payRow[x]) = s}
<1>1. JobCollected(s, m) =
        SumLines(I) + SumLines(L) + SumFunction([x \in O |-> Remainder(x) + payRow[x].unapplied])
  BY DEF JobCollected
<1>2. I = {k \in AppLines : /\ payRow[k[1]].month \in {m} /\ Typed(LineOf(k))
                            /\ LineOf(k).held /\ JobOf(docRow[LineOf(k).to]) = s}
  OBVIOUS
<1>3. L = LooseAt(s, {m}) /\ L \in SUBSET AppLines
  BY DEF LooseAt, TypedAt, Among, TypedLines, LineFrom, LineMonth
<1>4. O = OwnAt(s, {m})
  BY DEF OwnAt, Among, LivePaid, PayJob, PayMonth
<1> HIDE DEF I, L, O
<1>5. SumLines(I) = Into({s}, {m})
  BY <1>2, IntoSums
<1>6. SumLines(L) = SumFunctionOnSet(LineAmount, LooseAt(s, {m}))
  BY <1>3, LineSums
<1>7. SumFunction([x \in O |-> Remainder(x) + payRow[x].unapplied])
        = PaidIn({s}, {m}) - SumFunctionOnSet(LineAmount, TypedAt(s, {m}))
  BY <1>4, RemainderSums
<1>8. PICK a \in Int : a = Into({s}, {m})
  BY PartsAreWhole
<1>9. PICK b \in Int : b = OutOf({s}, {m})
  BY PartsAreWhole
<1>10. PICK c \in Int : c = PaidIn({s}, {m})
  BY PartsAreWhole
<1>11. PICK e \in Int : e = SumFunctionOnSet(LineAmount, LooseAt(s, {m}))
  BY TypedSums
<1>12. SumFunctionOnSet(LineAmount, TypedAt(s, {m})) = e + b
  BY <1>9, <1>11, TypedSums
<1>13. JobCollected(s, m) = a + e + (c - (e + b))
  BY <1>1, <1>5, <1>6, <1>7, <1>8, <1>10, <1>11, <1>12, Zenon
<1>14. JobCollected(s, m) = a + c - b
  BY <1>13
<1> QED BY <1>8, <1>9, <1>10, <1>14, Zenon DEF Collected

LEMMA ToDateForms ==
  ASSUME RowsInv, NEW s
  PROVE  /\ CollectedToDate(s) + Unapplied(s) = Collected({s}, Months)
         /\ CollectedToDate(s) \in Int /\ Unapplied(s) \in Int
<1> DEFINE I == {k \in AppLines : Typed(LineOf(k)) /\ LineOf(k).held /\ JobOf(docRow[LineOf(k).to]) = s}
           L == {k \in AppLines : Typed(LineOf(k)) /\ ~LineOf(k).held /\ JobOf(payRow[k[1]]) = s}
           O == OwnPays(s)
<1>1. CollectedToDate(s) = SumLines(I) + SumLines(L) + SumFunction([x \in O |-> Remainder(x)])
  BY DEF CollectedToDate
<1>2. (\A k \in AppLines : payRow[k[1]].month \in Months) /\ (\A x \in LivePaid : payRow[x].month \in Months)
  BY LinesTyped, LivePaidTyped
<1>3. I = {k \in AppLines : /\ payRow[k[1]].month \in Months /\ Typed(LineOf(k))
                            /\ LineOf(k).held /\ JobOf(docRow[LineOf(k).to]) = s}
  BY <1>2
<1>4. L = LooseAt(s, Months) /\ L \in SUBSET AppLines
  BY <1>2 DEF LooseAt, TypedAt, Among, TypedLines, LineFrom, LineMonth
<1>5. O = OwnAt(s, Months)
  BY <1>2 DEF OwnPays, OwnAt, Among, LivePaid, PayJob, PayMonth
<1>6. Unapplied(s) = SumFunction([x \in O |-> payRow[x].unapplied])
  BY DEF Unapplied
<1> HIDE DEF I, L, O
<1>7. SumLines(I) = Into({s}, Months)
  BY <1>3, IntoSums
<1>8. SumLines(L) = SumFunctionOnSet(LineAmount, LooseAt(s, Months))
  BY <1>4, LineSums
<1>9. /\ SumFunction([x \in O |-> Remainder(x)])
           = PaidIn({s}, Months) - SumFunctionOnSet(LineAmount, TypedAt(s, Months)) - LeftAt(s, Months)
      /\ SumFunction([x \in O |-> payRow[x].unapplied]) = LeftAt(s, Months)
      /\ LeftAt(s, Months) \in Int
  BY <1>5, RemainderSums
<1>10. PICK a \in Int : a = Into({s}, Months)
  BY PartsAreWhole
<1>11. PICK b \in Int : b = OutOf({s}, Months)
  BY PartsAreWhole
<1>12. PICK c \in Int : c = PaidIn({s}, Months)
  BY PartsAreWhole
<1>13. PICK e \in Int : e = SumFunctionOnSet(LineAmount, LooseAt(s, Months))
  BY TypedSums
<1>14. PICK u \in Int : u = LeftAt(s, Months)
  BY <1>9
<1>15. SumFunctionOnSet(LineAmount, TypedAt(s, Months)) = e + b
  BY <1>11, <1>13, TypedSums
<1>16. CollectedToDate(s) = a + e + (c - (e + b) - u) /\ Unapplied(s) = u
  BY <1>1, <1>6, <1>7, <1>8, <1>9, <1>10, <1>12, <1>13, <1>14, <1>15, Zenon
<1>17. CollectedToDate(s) + Unapplied(s) = a + c - b /\ CollectedToDate(s) \in Int /\ Unapplied(s) \in Int
  BY <1>16
<1> QED BY <1>10, <1>11, <1>12, <1>17, Zenon DEF Collected

\* The database's sum over the rows of no job.
LEMMA OtherForms ==
  ASSUME RowsInv
  PROVE  OtherCollected = CollectedToDate(Absent)
<1> DEFINE I == {k \in AppLines : LineOf(k).held /\ ~OnJob(docRow[LineOf(k).to])}
           H == {k \in AppLines : LineOf(k).held /\ Typed(LineOf(k)) /\ ~OnJob(payRow[k[1]])}
           O == {x \in Paid : LivePay(x) /\ ~OnJob(payRow[x])}
<1>1. OtherCollected =
        SumLines(I) + SumFunction([x \in O |-> payRow[x].total - payRow[x].unapplied]) - SumLines(H)
  BY DEF OtherCollected
<1>2. /\ \A k \in HeldLines : ~OnJob(docRow[LineOf(k).to]) <=> JobOf(docRow[LineOf(k).to]) = Absent
      /\ \A x \in LivePaid : ~OnJob(payRow[x]) <=> JobOf(payRow[x]) = Absent
  <2>1. ASSUME NEW row, PlacedRow(row) PROVE ~OnJob(row) <=> JobOf(row) = Absent
    BY <2>1, PlacesApart DEF PlacedRow, OnJob, JobOf, Places
  <2>2. /\ \A k \in HeldLines : PlacedRow(docRow[LineOf(k).to])
        /\ \A x \in LivePaid : PlacedRow(payRow[x])
    BY LinesTyped, LivePaidTyped
  <2> QED BY <2>1, <2>2
<1>3. (\A k \in AppLines : payRow[k[1]].month \in Months) /\ (\A x \in LivePaid : payRow[x].month \in Months)
  BY LinesTyped, LivePaidTyped
<1>4. (\A k \in HeldLines : Typed(LineOf(k)) = TRUE) /\ (\A k \in AppLines : k[1] \in LivePaid)
  BY LinesTyped
<1>5. I = Among(HeldLines, LineTo, {Absent}, LineMonth, Months) /\ I \in SUBSET AppLines
  BY <1>2, <1>3 DEF Among, HeldLines, LineTo, LineMonth
<1>6. H = Among(HeldLines, LineFrom, {Absent}, LineMonth, Months) /\ H \in SUBSET AppLines
  BY <1>2, <1>3, <1>4 DEF Among, HeldLines, LineFrom, LineMonth
<1>7. O = OwnAt(Absent, Months)
  BY <1>2, <1>3 DEF OwnAt, Among, LivePaid, PayJob, PayMonth
<1> HIDE DEF I, H, O
<1>8. SumLines(I) = Into({Absent}, Months) /\ SumLines(H) = OutOf({Absent}, Months)
  BY <1>5, <1>6, LineSums DEF Into, OutOf
<1>9. /\ SumFunction([x \in O |-> payRow[x].total - payRow[x].unapplied])
           = PaidIn({Absent}, Months) - LeftAt(Absent, Months)
      /\ Unapplied(Absent) = LeftAt(Absent, Months) /\ LeftAt(Absent, Months) \in Int
  <2>1. OwnPays(Absent) = OwnAt(Absent, Months)
    BY <1>3 DEF OwnPays, OwnAt, Among, LivePaid, PayJob, PayMonth
  <2> QED BY <1>7, <2>1, RemainderSums DEF Unapplied
<1>10. PICK a \in Int : a = Into({Absent}, Months)
  BY PartsAreWhole
<1>11. PICK b \in Int : b = OutOf({Absent}, Months)
  BY PartsAreWhole
<1>12. PICK c \in Int : c = PaidIn({Absent}, Months)
  BY PartsAreWhole
<1>13. PICK u \in Int : u = LeftAt(Absent, Months)
  BY <1>9
<1>14. OtherCollected = a + (c - u) - b
  BY <1>1, <1>8, <1>9, <1>10, <1>11, <1>12, <1>13, Zenon
<1>15. CollectedToDate(Absent) + u = a + c - b /\ CollectedToDate(Absent) \in Int
  BY <1>9, <1>10, <1>11, <1>12, <1>13, ToDateForms, Zenon DEF Collected
<1>16. PICK t \in Int : t = CollectedToDate(Absent)
  BY <1>15
<1>17. t = a + (c - u) - b
  BY <1>15, <1>16
<1> QED BY <1>14, <1>16, <1>17

-----------------------------------------------------------------------------
(* What is collected.                                                       *)

LEMMA PlacesAreAll == Site \cap {Absent} = {} /\ Places = Site \cup {Absent}
BY PlacesApart DEF Places

\* Over every place, what comes in from other payments is what goes out.
LEMMA LinesBalance ==
  ASSUME RowsInv, NEW M
  PROVE  Into(Places, M) = OutOf(Places, M)
<1>1. \A k \in HeldLines : k \in AppLines /\ k[1] \in LivePaid
  BY LinesTyped DEF HeldLines
<1>2. \A k \in HeldLines : LineTo[k] \in Places /\ LineFrom[k] \in Places
  BY <1>1, LinesTyped, LivePaidTyped DEF LineTo, LineFrom, PlacedRow
<1>3. Among(HeldLines, LineTo, Places, LineMonth, M) = Among(HeldLines, LineFrom, Places, LineMonth, M)
  BY <1>2 DEF Among
<1> QED BY <1>3 DEF Into, OutOf

\* The payments of a month are the ledger's, and a receipt's payment side shows
\* what the receipt does.
LEMMA PaymentsOfMonth ==
  ASSUME RowsInv, FiguresShow, NEW m \in Months
  PROVE  PaidIn(Places, {m}) = LedgerPayments(m) + LedgerColumn("SalesReceipt", m)
<1>1. PICK C \in SUBSET LivePaid : C = {e \in Cheque : LivePay(e) /\ payRow[e].month = m}
  BY RecordsApart DEF LivePaid
<1>2. PICK R \in SUBSET LivePaid : R = {e \in Receipts : LivePay(e) /\ payRow[e].month = m}
  BY RecordsApart DEF LivePaid
<1>3. C \cap R = {} /\ C \cup R = Among(LivePaid, PayJob, Places, PayMonth, {m})
  <2>1. \A x \in LivePaid : PayJob[x] \in Places
    BY LivePaidTyped DEF PayJob, PlacedRow
  <2> QED BY <1>1, <1>2, <2>1, RecordsApart DEF Among, LivePaid, PayMonth, Paid
<1>4. /\ IsFiniteSet(C) /\ Addable(PayTotal, C) /\ IsFiniteSet(R) /\ Addable(PayTotal, R)
  BY LivePaidTyped, SumsAreWhole
<1>5. SumFunctionOnSet(PayTotal, C \cup R) = SumFunctionOnSet(PayTotal, C) + SumFunctionOnSet(PayTotal, R)
  BY <1>3, <1>4, SumUnion
<1>6. LedgerPayments(m) = SumFunctionOnSet(PayTotal, C)
  <2>1. SumFunction([x \in C |-> payRow[x].total]) = SumFunctionOnSet(PayTotal, C)
    BY PaySums
  <2>2. LedgerPayments(m) = SumFunction([x \in C |-> payRow[x].total])
    BY <1>1 DEF LedgerPayments
  <2> QED BY <2>1, <2>2
<1>7. LedgerColumn("SalesReceipt", m) = SumFunctionOnSet(PayTotal, R)
  <2>1. PICK T \in SUBSET CountedDocs : T = Among(CountedDocs, Kind, {"SalesReceipt"}, DocMonth, {m})
    BY DEF Among
  <2>2. \A d \in T : d \in Receipts /\ Counted(d) /\ docRow[d].month = m
    BY <2>1 DEF Among, CountedDocs, DocMonth, Receipts
  <2>3. T \in SUBSET R
    <3>1. ASSUME NEW d \in T PROVE LivePay(d) /\ payRow[d].month = m
      <4>1. Twins(docRow[d], payRow[d])
        BY <2>2 DEF FiguresShow
      <4> QED BY <2>2, <4>1 DEF Twins, Counted, LivePay
    <3> QED BY <1>2, <2>2, <3>1
  <2>4. ASSUME NEW d \in R PROVE PayTotal[d] = IF d \in T THEN DocAmount[d] ELSE 0
    <3>1. d \in Receipts /\ d \in Document /\ LivePay(d) /\ payRow[d].month = m
          /\ PayTotal[d] = payRow[d].total
      BY <1>2, RecordsApart DEF PayTotal
    <3>2. Twins(docRow[d], payRow[d]) /\ DocTells(d, docRow[d])
      BY <3>1 DEF FiguresShow
    <3>3. docRow[d] # Absent /\ ~docRow[d].deleted /\ docRow[d].month = m
          /\ docRow[d].total = payRow[d].total
      BY <3>1, <3>2 DEF Twins, LivePay
    <3>4. CASE docRow[d].voided
      <4>1. d \notin T /\ docRow[d].total = 0
        BY <2>2, <3>2, <3>3, <3>4 DEF Counted, DocTells
      <4> QED BY <3>1, <3>3, <4>1
    <3>5. CASE ~docRow[d].voided
      <4>1. d \in CountedDocs /\ Kind[d] = "SalesReceipt"
        BY <3>1, <3>3, <3>5 DEF CountedDocs, Counted, Receipts
      <4>2. d \in T
        BY <2>1, <3>3, <4>1 DEF Among, DocMonth
      <4>3. docRow[d].total \in Int /\ DocAmount[d] = docRow[d].total
        BY <4>1, CountedTyped DEF DocAmount, Sign, BillingRow
      <4> QED BY <3>1, <3>3, <4>2, <4>3
    <3> QED BY <3>4, <3>5
  <2>5. Addable(DocAmount, T)
    BY CountedTyped, SumsAreWhole
  <2>6. SumFunctionOnSet(DocAmount, T) = SumFunctionOnSet(PayTotal, R)
    BY <1>4, <2>3, <2>4, <2>5, SumWithin
  <2> QED BY <2>1, <2>6, BilledForms DEF Ledger
<1> QED BY <1>3, <1>5, <1>6, <1>7 DEF PaidIn

LEMMA CollectedTies ==
  ASSUME RowsInv, FiguresShow, NEW m \in Months
  PROVE  SideCollected(TRUE, m) + SideCollected(FALSE, m)
           = LedgerPayments(m) + LedgerColumn("SalesReceipt", m)
<1>1. Collected(Places, {m}) = Collected(Site, {m}) + Collected({Absent}, {m})
  BY CollectedOfBoth, PlacesAreAll
<1>2. PICK a \in Int : a = Into(Places, {m})
  BY PartsAreWhole
<1>3. a = OutOf(Places, {m})
  BY <1>2, LinesBalance
<1>4. PICK c \in Int : c = PaidIn(Places, {m})
  BY PartsAreWhole
<1>5. Collected(Places, {m}) = a + c - a
  BY <1>2, <1>3, <1>4, Zenon DEF Collected
<1>6. Collected(Places, {m}) = c
  BY <1>5
<1> QED BY <1>1, <1>4, <1>6, SideForms, PaymentsOfMonth

LEMMA CollectedAgrees ==
  ASSUME RowsInv, NEW m \in Months
  PROVE  SumFunction([s \in Site |-> JobCollected(s, m)]) = SideCollected(TRUE, m)
<1>1. PICK g : g = [s \in Site |-> JobCollected(s, m)]
  OBVIOUS
<1>2. \A s \in Site : JobCollected(s, m) = Collected({s}, {m})
  BY JobForms
<1>3. CollectedAt(g, Site, {m})
  BY <1>1, <1>2 DEF CollectedAt
<1>4. SumFunctionOnSet(g, Site) = Collected(Site, {m})
  BY <1>3, CollectedByPlace, PlacesApart
<1> QED BY <1>1, <1>4, SideForms DEF SumFunction

LEMMA OtherRow ==
  ASSUME RowsInv
  PROVE  SumFunction([m \in Months |-> SideCollected(FALSE, m)]) = OtherCollected + Unapplied(Absent)
<1>1. PICK g : g = [m \in Months |-> SideCollected(FALSE, m)]
  OBVIOUS
<1>2. \A m \in Months : SideCollected(FALSE, m) = Collected({Absent}, {m})
  BY SideForms
<1>3. CollectedWhen(g, Months, {Absent})
  BY <1>1, <1>2 DEF CollectedWhen
<1>4. SumFunctionOnSet(g, Months) = Collected({Absent}, Months)
  BY <1>3, CollectedByMonth, PlacesApart
<1>5. Collected({Absent}, Months) = OtherCollected + Unapplied(Absent)
  BY OtherForms, ToDateForms
<1> QED BY <1>1, <1>4, <1>5 DEF SumFunction

LEMMA JobMonths ==
  ASSUME RowsInv, NEW s
  PROVE  SumFunction([m \in Months |-> JobCollected(s, m)]) = CollectedToDate(s) + Unapplied(s)
<1>1. PICK g : g = [m \in Months |-> JobCollected(s, m)]
  OBVIOUS
<1>2. \A m \in Months : JobCollected(s, m) = Collected({s}, {m})
  BY JobForms
<1>3. CollectedWhen(g, Months, {s})
  BY <1>1, <1>2 DEF CollectedWhen
<1>4. SumFunctionOnSet(g, Months) = Collected({s}, Months)
  BY <1>3, CollectedByMonth, PlacesApart
<1>5. Collected({s}, Months) = CollectedToDate(s) + Unapplied(s)
  BY ToDateForms
<1> QED BY <1>1, <1>4, <1>5 DEF SumFunction

-----------------------------------------------------------------------------
(* What the raw payloads say.                                               *)

\* A payload dated in the history.
InHistory(r, m) == Latest(r) # Gone /\ Latest(r).month = m /\ m >= Start
SettledRight(r) == Settled(r) /\ (Latest(r) = Gone \/ Latest(r).readable)

\* Once its latest payload is applied, a document counts in a month what the
\* payload says.
LEMMA DocSettled ==
  ASSUME RowsInv, FiguresShow, NEW d \in Document, SettledRight(d), NEW m \in Months
  PROVE  /\ Counted(d) /\ docRow[d].month = m => InHistory(d, m) /\ Latest(d).total = docRow[d].total
         /\ InHistory(d, m) /\ ~(Counted(d) /\ docRow[d].month = m) => Latest(d).total = 0
         /\ InHistory(d, m) => Latest(d).total \in Int
<1>1. d \in Record /\ d \notin Buyer /\ (docRow[d] = Absent \/ docRow[d] \in BillingRow)
  BY RecordsApart DEF RowsInv, BillingTypeOK
<1>2. version[d] \in Seq(Payload[d])
  BY <1>1 DEF RowsInv, VersionsFit
<1>3. CASE version[d] = << >>
  <2>1. Latest(d) = Gone
    BY <1>3 DEF Latest
  <2>2. docRow[d] = Absent
    BY <1>3 DEF RowsInv, BillingTypeOK
  <2> QED BY <2>1, <2>2 DEF InHistory, Counted
<1>4. CASE version[d] # << >>
  <2>1. PICK n \in Nat \ {0} : n = Len(version[d])
    BY <1>2, <1>4
  <2>2. PICK p : p = version[d][n]
    OBVIOUS
  <2>3. Latest(d) = p /\ n \in 1..Len(version[d])
    BY <1>4, <2>1, <2>2 DEF Latest, Last
  <2>4. p # Gone => p \in DocPayload
    BY <1>1, <2>2, <2>3, VersionTyped
  <2>5. /\ docRow[d] # Absent /\ (p = Gone \/ p.readable \/ BeforeStart(d, p)) => docRow[d].ver = n
        /\ docRow[d] # Absent /\ docRow[d].ver = n =>
             docRow[d].deleted = (p = Gone \/ BeforeStart(d, p))
        /\ (docRow[d] = Absent \/ docRow[d].ver < n) => p = Gone \/ BeforeStart(d, p) \/ ~p.readable
    BY <1>4, <2>1, <2>3 DEF RowsInv, RowsFollow, SettledRight
  <2>6. p = Gone \/ p.readable
    BY <2>3 DEF SettledRight
  <2>7. CASE p = Gone
    BY <2>3, <2>5, <2>7 DEF InHistory, Counted
  <2>8. CASE p # Gone /\ BeforeStart(d, p)
    <3>1. p.month < Start /\ p.month \in Nat /\ Start \in Nat
      BY <2>4, <2>8, BillingAssumption DEF BeforeStart, DocPayload
    <3>2. ~InHistory(d, m)
      BY <2>3, <3>1 DEF InHistory
    <3>3. ~Counted(d)
      BY <2>5, <2>8 DEF Counted
    <3> QED BY <3>2, <3>3
  <2>9. CASE p # Gone /\ ~BeforeStart(d, p)
    <3>1. p \in DocPayload /\ p.month \in Nat /\ Start \in Nat /\ p.total \in Int
      BY <2>4, <2>9, BillingAssumption DEF DocPayload
    <3>2. p.month >= Start
      BY <1>1, <2>9, <3>1 DEF BeforeStart
    <3>3. docRow[d] # Absent /\ docRow[d].ver = n
      BY <2>5, <2>6, <2>9
    <3>4. docRow[d].deleted = FALSE
      BY <2>5, <2>9, <3>3
    <3>5. DocTells(d, docRow[d])
      BY DEF FiguresShow
    <3>6. docRow[d].month = p.month /\ docRow[d].total = p.total
          /\ (docRow[d].voided => docRow[d].total = 0)
      BY <2>2, <3>3, <3>4, <3>5 DEF DocTells
    <3> QED BY <2>3, <2>9, <3>1, <3>2, <3>3, <3>4, <3>6 DEF InHistory, Counted
  <2> QED BY <2>7, <2>8, <2>9
<1> QED BY <1>3, <1>4

LEMMA ChequeSettled ==
  ASSUME RowsInv, FiguresShow, NEW c \in Cheque, SettledRight(c), NEW m \in Months
  PROVE  /\ LivePay(c) /\ payRow[c].month = m <=> InHistory(c, m)
         /\ InHistory(c, m) => Latest(c).total = payRow[c].total
<1>1. c \in Record /\ c \notin Buyer /\ c \notin Document /\ c \in Paid
      /\ (payRow[c] = Absent \/ payRow[c] \in PaymentRow)
  BY RecordsApart DEF RowsInv, BillingTypeOK
<1>2. version[c] \in Seq(Payload[c])
  BY <1>1 DEF RowsInv, VersionsFit
<1>3. CASE version[c] = << >>
  <2>1. Latest(c) = Gone
    BY <1>3 DEF Latest
  <2>2. payRow[c] = Absent
    BY <1>1, <1>3 DEF RowsInv, BillingTypeOK
  <2> QED BY <2>1, <2>2 DEF InHistory, LivePay
<1>4. CASE version[c] # << >>
  <2>1. PICK n \in Nat \ {0} : n = Len(version[c])
    BY <1>2, <1>4
  <2>2. PICK p : p = version[c][n]
    OBVIOUS
  <2>3. Latest(c) = p /\ n \in 1..Len(version[c])
    BY <1>4, <2>1, <2>2 DEF Latest, Last
  <2>4. p # Gone => p \in ChequePayload
    BY <1>1, <2>2, <2>3, VersionTyped
  <2>5. /\ payRow[c] # Absent /\ (p = Gone \/ p.readable \/ BeforeStart(c, p)) => payRow[c].ver = n
        /\ payRow[c] # Absent /\ payRow[c].ver = n =>
             payRow[c].deleted = (p = Gone \/ BeforeStart(c, p))
        /\ (payRow[c] = Absent \/ payRow[c].ver < n) => p = Gone \/ BeforeStart(c, p) \/ ~p.readable
    BY <1>1, <1>4, <2>1, <2>3 DEF RowsInv, RowsFollow, SettledRight
  <2>6. p = Gone \/ p.readable
    BY <2>3 DEF SettledRight
  <2>7. CASE p = Gone
    BY <2>3, <2>5, <2>7 DEF InHistory, LivePay
  <2>8. CASE p # Gone /\ BeforeStart(c, p)
    <3>1. p.month < Start /\ p.month \in Nat /\ Start \in Nat
      BY <2>4, <2>8, BillingAssumption DEF BeforeStart, ChequePayload
    <3>2. ~InHistory(c, m)
      BY <2>3, <3>1 DEF InHistory
    <3>3. ~LivePay(c)
      BY <2>5, <2>8 DEF LivePay
    <3> QED BY <3>2, <3>3
  <2>9. CASE p # Gone /\ ~BeforeStart(c, p)
    <3>1. p \in ChequePayload /\ p.month \in Nat /\ Start \in Nat
      BY <2>4, <2>9, BillingAssumption DEF ChequePayload
    <3>2. p.month >= Start
      BY <1>1, <2>9, <3>1 DEF BeforeStart
    <3>3. payRow[c] # Absent /\ payRow[c].ver = n
      BY <2>5, <2>6, <2>9
    <3>4. payRow[c].deleted = FALSE
      BY <2>5, <2>9, <3>3
    <3>5. PayTells(c, payRow[c])
      BY DEF FiguresShow
    <3>6. payRow[c].month = p.month /\ payRow[c].total = p.total
      BY <2>2, <3>3, <3>4, <3>5 DEF PayTells
    <3> QED BY <2>3, <2>9, <3>1, <3>2, <3>3, <3>4, <3>6 DEF InHistory, LivePay
  <2> QED BY <2>7, <2>8, <2>9
<1> QED BY <1>3, <1>4

LEMMA ColumnSettled ==
  ASSUME RowsInv, FiguresShow, \A r \in Document \cup Cheque : SettledRight(r), NEW m \in Months, NEW kind
  PROVE  LedgerColumn(kind, m) = RawColumn({d \in Document : Kind[d] = kind}, m)
<1>1. PICK T \in SUBSET CountedDocs : T = Among(CountedDocs, Kind, {kind}, DocMonth, {m})
  BY DEF Among
<1>2. PICK Q : Q = {q \in {d \in Document : Kind[d] = kind} :
                      Latest(q) # Gone /\ Latest(q).month = m /\ m >= Start}
  OBVIOUS
<1>3. \A d : d \in Q <=> d \in Document /\ Kind[d] = kind /\ InHistory(d, m)
  BY <1>2 DEF InHistory
<1>4. \A d : d \in T <=> d \in Document /\ Kind[d] = kind /\ Counted(d) /\ docRow[d].month = m
  BY <1>1 DEF Among, CountedDocs, DocMonth
<1>5. PICK g : g = [r \in Q |-> (IF r \in Document THEN Sign(r) ELSE 1) * Latest(r).total]
  OBVIOUS
<1>6. ASSUME NEW d \in Q PROVE g[d] = IF d \in T THEN DocAmount[d] ELSE 0
  <2>1. d \in Document /\ InHistory(d, m) /\ SettledRight(d) /\ Kind[d] = kind
    BY <1>3
  <2>2. PICK a \in Int : a = Latest(d).total
    BY <2>1, DocSettled
  <2>3. g[d] = Sign(d) * a
    BY <1>5, <2>1, <2>2
  <2>4. CASE d \in T
    <3>1. a = docRow[d].total /\ d \in CountedDocs
      BY <1>4, <2>1, <2>2, <2>4, DocSettled
    <3>2. DocAmount[d] = Sign(d) * a
      BY <3>1 DEF DocAmount
    <3> QED BY <2>3, <2>4, <3>2
  <2>5. CASE d \notin T
    <3>1. a = 0
      BY <1>4, <2>1, <2>2, <2>5, DocSettled
    <3>2. Sign(d) \in Int
      BY DEF Sign
    <3> QED BY <2>3, <2>5, <3>1, <3>2
  <2> QED BY <2>4, <2>5
<1>7. T \in SUBSET Q
  <2>1. ASSUME NEW d \in T PROVE d \in Q
    <3>1. d \in Document /\ Kind[d] = kind /\ Counted(d) /\ docRow[d].month = m /\ SettledRight(d)
      BY <1>4
    <3> QED BY <1>3, <3>1, DocSettled
  <2> QED BY <2>1
<1>8. IsFiniteSet(Q) /\ Addable(DocAmount, T)
  BY <1>3, FS_Subset, BillingAssumption, CountedTyped, SumsAreWhole
<1>9. SumFunctionOnSet(DocAmount, T) = SumFunctionOnSet(g, Q)
  BY <1>6, <1>7, <1>8, SumWithin
<1>10. RawColumn({d \in Document : Kind[d] = kind}, m) = SumFunctionOnSet(g, Q)
  BY <1>2, <1>5 DEF RawColumn, SumFunction
<1> QED BY <1>1, <1>9, <1>10, BilledForms DEF Ledger

LEMMA PaymentsSettled ==
  ASSUME RowsInv, FiguresShow, \A r \in Document \cup Cheque : SettledRight(r), NEW m \in Months
  PROVE  LedgerPayments(m) = RawColumn(Cheque, m)
<1>1. PICK T \in SUBSET LivePaid : T = {e \in Cheque : LivePay(e) /\ payRow[e].month = m}
  BY RecordsApart DEF LivePaid
<1>2. PICK Q : Q = {q \in Cheque : Latest(q) # Gone /\ Latest(q).month = m /\ m >= Start}
  OBVIOUS
<1>3. T = Q
  BY <1>1, <1>2, ChequeSettled DEF InHistory
<1>4. PICK g : g = [r \in Q |-> (IF r \in Document THEN Sign(r) ELSE 1) * Latest(r).total]
  OBVIOUS
<1>5. ASSUME NEW c \in T PROVE PayTotal[c] = g[c]
  <2>1. c \in Cheque /\ c \notin Document /\ InHistory(c, m) /\ SettledRight(c)
    BY <1>2, <1>3, RecordsApart DEF InHistory
  <2>2. PICK a \in Int : a = payRow[c].total
    BY LivePaidTyped
  <2>3. Latest(c).total = a
    BY <2>1, <2>2, ChequeSettled
  <2>4. g[c] = 1 * a
    BY <1>3, <1>4, <2>1, <2>3
  <2> QED BY <2>2, <2>4 DEF PayTotal
<1>6. IsFiniteSet(T) /\ Addable(PayTotal, T)
  BY LivePaidTyped, SumsAreWhole
<1>7. SumFunctionOnSet(PayTotal, T) = SumFunctionOnSet(g, T)
  BY <1>5, <1>6, SumSame
<1>8. SumFunction([x \in T |-> payRow[x].total]) = SumFunctionOnSet(PayTotal, T)
  BY PaySums
<1>9. LedgerPayments(m) = SumFunction([x \in T |-> payRow[x].total])
  BY <1>1 DEF LedgerPayments
<1>10. RawColumn(Cheque, m) = SumFunctionOnSet(g, Q)
  BY <1>2, <1>4 DEF RawColumn, SumFunction
<1> QED BY <1>3, <1>7, <1>8, <1>9, <1>10

-----------------------------------------------------------------------------
LEMMA TheyTie == RowsInv /\ FiguresShow => MonthsTie
<1> SUFFICES ASSUME RowsInv, FiguresShow PROVE MonthsTie
  OBVIOUS
<1>1. TiesOut
  BY BilledTies, CollectedTies DEF TiesOut
<1>2. FiguresAgree
  BY BilledAgrees, CollectedAgrees DEF FiguresAgree
<1>3. OtherRowAgrees
  BY OtherForms, OtherRow, JobMonths DEF OtherRowAgrees
<1>4. DriftAgrees
  <2> SUFFICES ASSUME \A r \in Document \cup Cheque : SettledRight(r), NEW m \in Months PROVE ~Drift(m)
    BY DEF DriftAgrees, SettledRight
  <2> QED BY ColumnSettled, PaymentsSettled DEF Drift
<1> QED BY <1>1, <1>2, <1>3, <1>4 DEF MonthsTie

\* However customers, documents and payments are applied, and whoever links
\* customers to jobs meanwhile, every month ties to the cent in all of the
\* ways the code counts it (board.tie_out, month_sums, figures.job_figures,
\* report.drift_check).
THEOREM MonthsAlwaysTie == BillingSpec => []MonthsTie
<1>1. BillingInit => RowsInv /\ FiguresShow
  BY RowsInitially, FiguresInitially
<1>2. RowsInv /\ FiguresShow /\ [BillingNext]_billVars => (RowsInv /\ FiguresShow)'
  BY RowsInductive, FiguresInductive
<1>3. RowsInv /\ FiguresShow => MonthsTie
  BY TheyTie
<1> QED BY <1>1, <1>2, <1>3, PTL DEF BillingSpec

-----------------------------------------------------------------------------
(* The lines of an invoice and what they are billed for.                     *)

Part == [area : AreaKey, amount : Int]

\* Parts that may have been written for a line: of a line some version has, and
\* together the line or nothing.
WriteFits(w) ==
  /\ w.line[1] \in 1..Len(incoming) /\ incoming[w.line[1]] \in Shape
  /\ \E v, i : w.line = <<v, i>> /\ i \in DOMAIN incoming[v].lines
  /\ w.parts \subseteq Part /\ IsFiniteSet(w.parts)
  /\ w.parts # {} => Sum(w.parts) = LineAt(w.line).amount

BooksShaped ==
  /\ incoming \in Seq(Shape \cup {Erased}) /\ Len(incoming) \in 1..MaxVersions
  /\ incoming[built] \in Shape
  /\ now \in Nat /\ asking = [c \in Clerk |-> asking[c]]

\* What a person is about to write was counted out for the line it names.
AsksKnow ==
  \A c \in Clerk : asking[c] # Unasked =>
    /\ asking[c].at \in 1..now /\ IsFiniteSet(asking[c].writes)
    /\ \A w \in asking[c].writes : w = [line |-> w.line, parts |-> w.parts] /\ WriteFits(w)

\* Every event is of a line that is there.
DecisionsFit ==
  \A i \in DOMAIN decision :
    decision[i].at <= now /\ decision[i].line \in LineRows /\ WriteFits(decision[i])

LinesInv == LinesTypeOK /\ BooksShaped /\ AsksKnow /\ DecisionsFit

-----------------------------------------------------------------------------
(* Sums of parts.                                                            *)

LEMMA PartsAdd ==
  ASSUME NEW ps, ps \subseteq Part, IsFiniteSet(ps)
  PROVE  LET f == [r \in ps |-> r.amount]
         IN Addable(f, ps) /\ Sum(ps) = SumFunctionOnSet(f, ps) /\ Sum(ps) \in Int
<1> DEFINE f == [r \in ps |-> r.amount]
<1>1. Addable(f, ps)
  BY DEF Addable, Part
<1>2. DOMAIN f = ps /\ \A x \in ps : f[x] = f[x]
  OBVIOUS
<1> HIDE DEF f
<1>3. SumFunction(f) = SumFunctionOnSet(f, ps)
  BY <1>1, <1>2, SumOverDomain
<1>4. SumFunctionOnSet(f, ps) \in Int
  BY <1>1, SumIsWhole
<1> QED BY <1>1, <1>3, <1>4 DEF f, Sum

LEMMA OnePart ==
  ASSUME NEW r, r.amount \in Int
  PROVE  Sum({r}) = r.amount
<1> DEFINE f == [x \in {r} |-> x.amount]
<1>1. f[r] \in Int /\ f[r] = r.amount /\ DOMAIN f = {r} /\ Addable(f, {r})
  BY DEF Addable
<1> HIDE DEF f
<1>2. SumFunction(f) = SumFunctionOnSet(f, {r})
  BY <1>1, FS_Singleton, SumOverDomain
<1>3. SumFunctionOnSet(f, {r}) = f[r]
  BY <1>1, SumOfOne
<1> QED BY <1>1, <1>2, <1>3 DEF f, Sum

LEMMA NoPart == Sum({}) = 0
<1> DEFINE f == [x \in {} |-> x.amount]
<1>1. DOMAIN f = {} /\ Addable(f, {}) /\ \A x \in {} : f[x] = f[x]
  BY DEF Addable
<1> HIDE DEF f
<1>2. SumFunction(f) = SumFunctionOnSet(f, {})
  BY <1>1, FS_EmptySet, SumOverDomain
<1> QED BY <1>2, SumOfNone DEF f, Sum

-----------------------------------------------------------------------------
(* What a line counts for.                                                   *)

LEMMA RowsKnown ==
  ASSUME LinesTypeOK, BooksShaped
  PROVE  /\ IsFiniteSet(LineRows)
         /\ \A l \in LineRows : /\ l \in (1..MaxVersions) \X (Nat \ {0})
                                /\ l[1] = built /\ l[2] \in DOMAIN incoming[built].lines
                                /\ LineAt(l) \in BillingLine /\ LineAt(l).amount \in Int
<1>1. PICK s : s = incoming[built].lines
  OBVIOUS
<1>2. s \in Seq(BillingLine) /\ Len(s) \in Nat /\ DOMAIN s = 1..Len(s) /\ \A i \in DOMAIN s : s[i] \in BillingLine
  BY <1>1, LinesAssumption, LenProperties, ElementOfSeq DEF BooksShaped
<1>3. LineRows = {<<built, i>> : i \in 1..Len(s)}
  BY <1>1, <1>2 DEF LineRows
<1>4. IsFiniteSet({<<built, i>> : i \in 1..Len(s)})
  <2> DEFINE f == [i \in 1..Len(s) |-> <<built, i>>]
  <2>1. IsFiniteSet(DOMAIN f)
    BY <1>2, FS_Interval
  <2>2. {f[x] : x \in DOMAIN f} = {<<built, i>> : i \in 1..Len(s)}
    OBVIOUS
  <2> HIDE DEF f
  <2> QED BY <2>1, <2>2, ImageFinite
<1>5. built \in 1..MaxVersions /\ MaxVersions \in Nat
  BY LinesAssumption DEF LinesTypeOK, BooksShaped
<1>6. ASSUME NEW l \in LineRows
      PROVE  /\ l \in (1..MaxVersions) \X (Nat \ {0})
             /\ l[1] = built /\ l[2] \in DOMAIN incoming[built].lines
             /\ LineAt(l) \in BillingLine /\ LineAt(l).amount \in Int
  <2>1. PICK i \in 1..Len(s) : l = <<built, i>>
    BY <1>3, <1>6
  <2>2. LineAt(l) = s[i] /\ i \in DOMAIN s
    BY <2>1, <1>1, <1>2 DEF LineAt
  <2>3. s[i] \in BillingLine /\ s[i].amount \in Int
    BY <2>2, <1>2 DEF BillingLine
  <2>4. i \in Nat \ {0}
    BY <2>1, <1>2
  <2> QED BY <2>1, <2>2, <2>3, <2>4, <1>1, <1>5
<1> QED BY <1>3, <1>4, <1>6

\* What a line's parts must be.
CountsWhole(l, ps) ==
  ps \subseteq Part /\ IsFiniteSet(ps) /\ (ps # {} => Sum(ps) = LineAt(l).amount)

\* Of some events there is one no other is later than.
LEMMA LatestThere ==
  ASSUME LinesInv, NEW on, on \subseteq DOMAIN decision, on # {}
  PROVE  \E i \in on : \A j \in on : decision[j].at <= decision[i].at
<1> DEFINE back == {now - decision[i].at : i \in on}
<1>1. \A i \in on : decision[i].at \in Nat /\ decision[i].at <= now /\ now \in Nat
  <2> SUFFICES ASSUME NEW i \in on PROVE decision[i].at \in Nat /\ decision[i].at <= now /\ now \in Nat
    OBVIOUS
  <2>1. decision[i] \in LineEvent
    BY ElementOfSeq DEF LinesInv, LinesTypeOK
  <2> QED BY <2>1 DEF LineEvent, LinesInv, DecisionsFit, BooksShaped
<1>2. back \subseteq Nat /\ back # {}
  BY <1>1
<1>3. PICK x \in back : \A y \in back : x <= y
  BY <1>2, Lowest
<1>4. PICK i \in on : x = now - decision[i].at
  BY <1>3
<1>5. ASSUME NEW j \in on PROVE decision[j].at <= decision[i].at
  <2>1. now - decision[i].at <= now - decision[j].at
    BY <1>3, <1>4
  <2> QED BY <2>1, <1>1
<1> QED BY <1>5

LEMMA CurrentFits ==
  ASSUME LinesInv, NEW l \in LineRows
  PROVE  CountsWhole(l, Current(l))
<1>1. PICK on : on = {i \in DOMAIN decision : decision[i].line = l}
  OBVIOUS
<1>2. CASE on = {}
  BY <1>1, <1>2, FS_EmptySet DEF Current, CountsWhole
<1>3. CASE on # {}
  <2>1. PICK i : i = CHOOSE k \in on : \A j \in on : decision[j].at <= decision[k].at
    OBVIOUS
  <2>2. i \in on
    BY <1>1, <1>3, <2>1, LatestThere
  <2>3. Current(l) = decision[i].parts
    BY <1>1, <1>3, <2>1 DEF Current
  <2>4. decision[i].line = l /\ WriteFits(decision[i])
    BY <2>2, <1>1 DEF LinesInv, DecisionsFit
  <2> QED BY <2>3, <2>4 DEF WriteFits, CountsWhole
<1> QED BY <1>2, <1>3

LEMMA AssignedFits ==
  ASSUME LinesInv, NEW l \in LineRows
  PROVE  CountsWhole(l, AssignedParts(l))
<1>1. PICK rows : rows = Current(l)
  OBVIOUS
<1>2. CountsWhole(l, rows)
  BY <1>1, CurrentFits
<1>3. CASE \E r \in rows : area[r.area] = "absent"
  BY <1>1, <1>3, FS_EmptySet DEF AssignedParts, CountsWhole
<1>4. CASE ~(\E r \in rows : area[r.area] = "absent") /\ Cardinality(rows) = 1
  <2>1. PICK r : rows = {r}
    BY <1>2, <1>4, FS_Singleton DEF CountsWhole
  <2>2. PICK n : n = LineAt(l).amount
    OBVIOUS
  <2>3. n \in Int
    BY <2>2, RowsKnown DEF LinesInv
  <2>4. r \in Part
    BY <2>1, <1>2 DEF CountsWhole
  <2>5. PICK q : q = [r EXCEPT !.amount = n]
    OBVIOUS
  <2>6. q \in Part /\ q.amount = n
    BY <2>3, <2>4, <2>5 DEF Part
  <2>7. AssignedParts(l) = {q}
    BY <1>1, <1>4, <2>1, <2>2, <2>5 DEF AssignedParts
  <2>8. Sum({q}) = n
    BY <2>3, <2>6, OnePart
  <2> QED BY <2>2, <2>6, <2>7, <2>8, FS_Singleton DEF CountsWhole
<1>5. CASE ~(\E r \in rows : area[r.area] = "absent") /\ Cardinality(rows) # 1
  BY <1>1, <1>2, <1>5 DEF AssignedParts
<1> QED BY <1>3, <1>4, <1>5

LEMMA PartsFit ==
  ASSUME LinesInv, NEW l \in LineRows
  PROVE  CountsWhole(l, Parts(l))
<1>1. CASE How(l) = "assigned"
  BY <1>1, AssignedFits DEF Parts
<1>2. CASE How(l) = "number"
  <2>1. PICK n : n = LineAt(l).amount
    OBVIOUS
  <2>2. n \in Int
    BY <2>1, RowsKnown DEF LinesInv
  <2>3. ByNumber(l) # {}
    <3>1. CASE ByNumber(l) = {}
      BY <3>1, <1>2 DEF How
    <3> QED BY <3>1
  <2>4. PICK c : c = {k \in AreaKey : area[k] # "absent" /\ k[2] = LineAt(l).hash}
    OBVIOUS
  <2>5. ByNumber(l) = c /\ Cardinality(c) = 1 /\ c \subseteq AreaKey
    BY <2>3, <2>4 DEF ByNumber
  <2>6. IsFiniteSet(c)
    BY <2>5, LinesAssumption, FS_Subset
  <2>7. PICK k : c = {k}
    BY <2>5, <2>6, FS_Singleton
  <2>8. PICK q : q = [area |-> k, amount |-> n]
    OBVIOUS
  <2>9. q \in Part /\ q.amount = n
    BY <2>2, <2>5, <2>7, <2>8 DEF Part
  <2>10. Parts(l) = {[area |-> x, amount |-> n] : x \in c}
    BY <1>2, <2>1, <2>5 DEF Parts
  <2>11. Parts(l) = {q}
    BY <2>7, <2>8, <2>10
  <2>12. Sum({q}) = n
    BY <2>2, <2>9, OnePart
  <2> QED BY <2>1, <2>9, <2>11, <2>12, FS_Singleton DEF CountsWhole
<1>3. CASE How(l) # "assigned" /\ How(l) # "number"
  <2>1. Parts(l) = {}
    BY <1>3 DEF Parts
  <2> QED BY <2>1, FS_EmptySet DEF CountsWhole
<1> QED BY <1>1, <1>2, <1>3

\* The parts of one line, by work area.
LEMMA LineByArea ==
  ASSUME LinesInv, NEW l \in LineRows, NEW g,
         \A k \in AreaKey : g[k] = Sum({r \in Parts(l) : r.area = k})
  PROVE  Addable(g, AreaKey) /\ SumFunctionOnSet(g, AreaKey) = Sum(Parts(l))
<1>1. PICK ps : ps = Parts(l)
  OBVIOUS
<1>2. ps \subseteq Part /\ IsFiniteSet(ps)
  BY <1>1, PartsFit DEF CountsWhole
<1>3. PICK f : f = [r \in ps |-> r.amount]
  OBVIOUS
<1>4. PICK key : key = [r \in ps |-> r.area]
  OBVIOUS
<1>5. Addable(f, ps) /\ Sum(ps) = SumFunctionOnSet(f, ps)
  BY <1>2, <1>3, PartsAdd
<1>6. ASSUME NEW k \in AreaKey
      PROVE  g[k] = SumFunctionOnSet(f, {r \in ps : key[r] = k}) /\ g[k] \in Int
  <2>1. PICK qs : qs = {r \in ps : r.area = k}
    OBVIOUS
  <2>2. qs \subseteq ps /\ qs \subseteq Part /\ IsFiniteSet(qs) /\ qs = {r \in ps : key[r] = k}
    BY <2>1, <1>2, <1>4, FS_Subset
  <2>3. PICK h : h = [r \in qs |-> r.amount]
    OBVIOUS
  <2>4. Addable(h, qs) /\ Sum(qs) = SumFunctionOnSet(h, qs) /\ Sum(qs) \in Int
    BY <2>2, <2>3, PartsAdd
  <2>5. \A x \in qs : h[x] = f[x]
    BY <2>2, <2>3, <1>3
  <2>6. SumFunctionOnSet(h, qs) = SumFunctionOnSet(f, qs)
    BY <2>2, <2>4, <2>5, SumSame
  <2>7. g[k] = Sum(qs)
    BY <1>1, <2>1
  <2> QED BY <2>2, <2>4, <2>6, <2>7
<1>7. \A r \in ps : key[r] \in AreaKey
  BY <1>2, <1>4 DEF Part
<1>8. Grouped(g, AreaKey, f, ps, key)
  BY <1>6, <1>7 DEF Grouped
<1>9. SumFunctionOnSet(g, AreaKey) = SumFunctionOnSet(f, ps)
  BY <1>2, <1>5, <1>8, LinesAssumption, SumBy
<1>10. Addable(g, AreaKey)
  BY <1>6 DEF Addable
<1> QED BY <1>1, <1>5, <1>9, <1>10

\* A table of sums is added up over its rows or over its columns.
LEMMA CountedOnce ==
  ASSUME LinesInv
  PROVE  LinesCountOnce
<1>1. \A l \in LineRows : Parts(l) # {} => Sum(Parts(l)) = LineAt(l).amount
  BY PartsFit DEF CountsWhole
<1>2. IsFiniteSet(LineRows) /\ IsFiniteSet(AreaKey)
  BY RowsKnown, LinesAssumption DEF LinesInv
<1>3. PICK t : t = [l \in LineRows |-> [k \in AreaKey |-> Sum({r \in Parts(l) : r.area = k})]]
  OBVIOUS
<1>4. PICK f : f = [k \in AreaKey |-> [l \in LineRows |-> Sum({r \in Parts(l) : r.area = k})]]
  OBVIOUS
<1>5. PICK rows : rows = [k \in AreaKey |-> BilledOn(k)]
  OBVIOUS
<1>6. PICK columns : columns = [l \in LineRows |-> Sum(Parts(l))]
  OBVIOUS
<1>7. ASSUME NEW l \in LineRows
      PROVE  Addable(t[l], AreaKey) /\ columns[l] = SumFunctionOnSet(t[l], AreaKey)
  <2>1. \A k \in AreaKey : t[l][k] = Sum({r \in Parts(l) : r.area = k})
    BY <1>3
  <2>2. PICK g : g = t[l]
    OBVIOUS
  <2>3. Addable(g, AreaKey) /\ SumFunctionOnSet(g, AreaKey) = Sum(Parts(l))
    BY <2>1, <2>2, LineByArea
  <2> QED BY <2>2, <2>3, <1>6
<1>8. \A k \in AreaKey : \A l \in LineRows : t[l][k] = f[k][l]
  BY <1>3, <1>4
<1>9. \A k \in AreaKey : Addable(f[k], LineRows)
  BY <1>7, <1>8 DEF Addable
<1>10. ASSUME NEW k \in AreaKey PROVE rows[k] = SumFunctionOnSet(f[k], LineRows)
  <2>1. PICK g : g = f[k]
    OBVIOUS
  <2>2. Addable(g, LineRows) /\ DOMAIN g = LineRows
    BY <2>1, <1>4, <1>9
  <2>3. SumFunction(g) = SumFunctionOnSet(g, LineRows)
    BY <2>2, <1>2, SumOverDomain
  <2>4. g = [l \in LineRows |-> Sum({r \in Parts(l) : r.area = k})]
    BY <2>1, <1>4
  <2> QED BY <2>1, <2>3, <2>4, <1>5 DEF BilledOn
<1>11. SumFunctionOnSet(rows, AreaKey) = SumFunctionOnSet(columns, LineRows)
  BY <1>2, <1>7, <1>8, <1>9, <1>10, SumExchange
<1>12. ASSUME NEW k \in AreaKey PROVE rows[k] \in Int
  <2>1. PICK g : g = f[k]
    OBVIOUS
  <2>2. SumFunctionOnSet(g, LineRows) \in Int
    BY <2>1, <1>2, <1>9, SumIsWhole
  <2> QED BY <2>1, <2>2, <1>10
<1>13. SumFunction([k \in AreaKey |-> BilledOn(k)]) = SumFunctionOnSet(columns, LineRows)
  <2>1. Addable(rows, AreaKey) /\ DOMAIN rows = AreaKey
    BY <1>5, <1>12 DEF Addable
  <2>2. SumFunction(rows) = SumFunctionOnSet(rows, AreaKey)
    BY <2>1, <1>2, SumOverDomain
  <2> QED BY <2>2, <1>5, <1>11
<1>14. PICK T : T = {l \in LineRows : Parts(l) # {}}
  OBVIOUS
<1>15. PICK h : h = [l \in T |-> LineAt(l).amount]
  OBVIOUS
<1>16. T \in SUBSET LineRows /\ IsFiniteSet(T) /\ Addable(h, T) /\ DOMAIN h = T
  BY <1>2, <1>14, <1>15, FS_Subset, RowsKnown DEF Addable, LinesInv
<1>17. \A l \in LineRows : columns[l] = IF l \in T THEN h[l] ELSE 0
  BY <1>1, <1>6, <1>14, <1>15, NoPart
<1>18. SumFunctionOnSet(h, T) = SumFunctionOnSet(columns, LineRows)
  BY <1>2, <1>16, <1>17, SumWithin
<1>19. SumFunction(h) = SumFunctionOnSet(h, T)
  BY <1>16, SumOverDomain
<1> QED BY <1>1, <1>13, <1>14, <1>15, <1>18, <1>19 DEF LinesCountOnce

LEMMA EventsStay ==
  ASSUME LinesInv
  PROVE  EventsKeepLines
BY DEF LinesInv, DecisionsFit, WriteFits, EventsKeepLines

-----------------------------------------------------------------------------
(* Every step.                                                               *)

LEMMA LinesStart == LinesInit => LinesInv
<1> SUFFICES ASSUME LinesInit PROVE LinesInv
  OBVIOUS
<1>1. PICK s \in Shape : incoming = <<s>>
  BY DEF LinesInit
<1>2. incoming \in Seq(Shape \cup {Erased}) /\ Len(incoming) = 1 /\ incoming[1] = s
  BY <1>1
<1>3. built = 1 /\ applied = 1 /\ decision = << >> /\ now = 0 /\ asking = [c \in Clerk |-> Unasked]
  BY DEF LinesInit
<1>4. LinesTypeOK
  BY <1>2, <1>3 DEF LinesTypeOK, LinesInit
<1>5. BooksShaped
  BY <1>2, <1>3, LinesAssumption DEF BooksShaped
<1>6. AsksKnow /\ DecisionsFit
  BY <1>3 DEF AsksKnow, DecisionsFit
<1> QED BY <1>4, <1>5, <1>6 DEF LinesInv

\* Versions are only added: what was counted out for a line still fits it.
VersionsStay ==
  Len(incoming) <= Len(incoming') /\ \A v \in 1..Len(incoming) : incoming'[v] = incoming[v]

LEMMA FitsOn ==
  ASSUME BooksShaped, BooksShaped', VersionsStay, NEW w, WriteFits(w)
  PROVE  WriteFits(w)'
<1>1. PICK v : v = w.line[1]
  OBVIOUS
<1>2. v \in 1..Len(incoming) /\ incoming[v] \in Shape /\ Len(incoming) \in Nat /\ Len(incoming') \in Nat
  BY <1>1 DEF WriteFits, BooksShaped
<1>3. v \in 1..Len(incoming') /\ incoming'[v] = incoming[v]
  BY <1>2 DEF VersionsStay
<1>4. PICK u, i : w.line = <<u, i>> /\ i \in DOMAIN incoming[u].lines
  BY DEF WriteFits
<1>5. u = v
  BY <1>1, <1>4
<1>6. LineAt(w.line)' = LineAt(w.line)
  BY <1>1, <1>3 DEF LineAt
<1>7. w.parts \subseteq Part /\ IsFiniteSet(w.parts) /\ (w.parts # {} => Sum(w.parts) = LineAt(w.line).amount)
  BY DEF WriteFits
<1>8. w.line[1] \in 1..Len(incoming') /\ incoming'[w.line[1]] \in Shape
  BY <1>1, <1>2, <1>3
<1>9. \E u1, i1 : w.line = <<u1, i1>> /\ i1 \in DOMAIN incoming'[u1].lines
  BY <1>3, <1>4, <1>5
<1> QED BY <1>6, <1>7, <1>8, <1>9 DEF WriteFits

LEMMA FitsAll ==
  ASSUME BooksShaped, BooksShaped', VersionsStay
  PROVE  \A w : WriteFits(w) => WriteFits(w)'
BY FitsOn

\* A step that leaves the events and what people are about to write.
LEMMA BooksLeft ==
  ASSUME LinesInv, LinesTypeOK', BooksShaped', VersionsStay, decision' = decision, asking' = asking, now' = now,
         decision # << >> => LineRows' = LineRows
  PROVE  LinesInv'
<1>1. \A w : WriteFits(w) => WriteFits(w)'
  BY FitsAll DEF LinesInv
<1>2. AsksKnow'
  <2> SUFFICES ASSUME NEW c \in Clerk, asking'[c] # Unasked
               PROVE  /\ asking'[c].at \in 1..now' /\ IsFiniteSet(asking'[c].writes)
                      /\ \A w \in asking'[c].writes : w = [line |-> w.line, parts |-> w.parts] /\ WriteFits(w)'
    BY DEF AsksKnow
  <2> QED BY <1>1 DEF LinesInv, AsksKnow
<1>3. DecisionsFit'
  <2> SUFFICES ASSUME NEW i \in DOMAIN decision
               PROVE  decision[i].at <= now /\ decision[i].line \in LineRows' /\ WriteFits(decision[i])'
    BY DEF DecisionsFit
  <2>1. decision # << >>
    OBVIOUS
  <2>2. decision[i].at <= now /\ decision[i].line \in LineRows /\ WriteFits(decision[i])
    BY DEF LinesInv, DecisionsFit
  <2> QED BY <1>1, <2>1, <2>2
<1> QED BY <1>2, <1>3 DEF LinesInv

LEMMA StoreVersionInv ==
  ASSUME LinesInv, NEW s \in Shape \cup {Erased}, StoreVersion(s)
  PROVE  LinesInv'
<1>1. /\ Len(incoming) < MaxVersions /\ incoming' = Append(incoming, s)
      /\ UNCHANGED <<built, applied, area, keyed, decided, decision, asking, now>>
  BY DEF StoreVersion, aroundLines
<1>2. incoming \in Seq(Shape \cup {Erased}) /\ Len(incoming) \in 1..MaxVersions /\ MaxVersions \in Nat
  BY LinesAssumption DEF LinesInv, BooksShaped
<1>3. /\ incoming' \in Seq(Shape \cup {Erased}) /\ Len(incoming') = Len(incoming) + 1
      /\ \A v \in 1..Len(incoming) : incoming'[v] = incoming[v]
  BY <1>1, <1>2, AppendProperties
<1>4. VersionsStay
  BY <1>2, <1>3 DEF VersionsStay
<1>5. built \in 1..Len(incoming) /\ applied \in built..Len(incoming)
  BY DEF LinesInv, LinesTypeOK
<1>6. LinesTypeOK'
  BY <1>1, <1>2, <1>3, <1>5 DEF LinesInv, LinesTypeOK
<1>7. incoming'[built'] = incoming[built]
  BY <1>1, <1>3, <1>5
<1>8. BooksShaped'
  BY <1>1, <1>2, <1>3, <1>7 DEF LinesInv, BooksShaped
<1>9. LineRows' = LineRows
  BY <1>1, <1>7 DEF LineRows
<1> QED BY <1>1, <1>4, <1>6, <1>8, <1>9, BooksLeft

LEMMA RewriteLinesInv ==
  ASSUME LinesInv, RewriteLines
  PROVE  LinesInv'
<1>1. UNCHANGED <<incoming, area, keyed, decided, decision, asking, now>> /\ applied < Len(incoming)
  BY DEF RewriteLines, aroundLines
<1>2. incoming \in Seq(Shape \cup {Erased}) /\ Len(incoming) \in 1..MaxVersions
  BY DEF LinesInv, BooksShaped
<1>3. built \in 1..Len(incoming) /\ applied \in built..Len(incoming)
  BY DEF LinesInv, LinesTypeOK
<1>4. VersionsStay
  BY <1>1, <1>2 DEF VersionsStay
<1>5. CASE Last(incoming) = Erased /\ applied' = Len(incoming) /\ UNCHANGED built
  <2>1. LinesTypeOK'
    BY <1>1, <1>2, <1>3, <1>5 DEF LinesInv, LinesTypeOK
  <2>2. BooksShaped'
    BY <1>1, <1>5 DEF LinesInv, BooksShaped
  <2>3. LineRows' = LineRows
    BY <1>1, <1>5 DEF LineRows
  <2> QED BY <1>1, <1>4, <2>1, <2>2, <2>3, BooksLeft
<1>6. CASE Last(incoming) # Erased /\ Rewritable /\ applied' = Len(incoming) /\ built' = Len(incoming)
  <2>1. LinesTypeOK'
    BY <1>1, <1>2, <1>3, <1>6 DEF LinesInv, LinesTypeOK
  <2>2. incoming'[built'] \in Shape
    <3>1. incoming[Len(incoming)] \in Shape \cup {Erased}
      BY <1>2, ElementOfSeq
    <3> QED BY <3>1, <1>1, <1>6 DEF Last
  <2>3. BooksShaped'
    BY <1>1, <2>2 DEF LinesInv, BooksShaped
  <2>4. decision = << >>
    <3>1. decision \in Seq(LineEvent)
      BY DEF LinesInv, LinesTypeOK
    <3>2. \A i \in DOMAIN decision : FALSE
      BY <1>6 DEF LinesInv, DecisionsFit, Rewritable
    <3> QED BY <3>1, <3>2
  <2> QED BY <1>1, <1>4, <2>1, <2>3, <2>4, BooksLeft
<1> QED BY <1>5, <1>6 DEF RewriteLines

LEMMA AroundInv ==
  ASSUME LinesInv, area' \in [AreaKey -> {"absent", "kept", "omitted"}],
         UNCHANGED <<incoming, built, applied, decision, asking, now>>
  PROVE  LinesInv'
<1>1. LinesTypeOK'
  BY DEF LinesInv, LinesTypeOK
<1>2. BooksShaped'
  BY DEF LinesInv, BooksShaped
<1>3. LineRows' = LineRows
  BY DEF LineRows
<1>4. VersionsStay
  BY DEF LinesInv, BooksShaped, VersionsStay
<1> QED BY <1>1, <1>2, <1>3, <1>4, BooksLeft

\* Parts of a line that is there, counted out for it.
LEMMA FitsHere ==
  ASSUME LinesInv, NEW l \in LineRows, NEW ps, CountsWhole(l, ps)
  PROVE  WriteFits([line |-> l, parts |-> ps])
<1>1. PICK w : w = [line |-> l, parts |-> ps]
  OBVIOUS
<1>2. w.line = l /\ w.parts = ps
  BY <1>1
<1>3. l[1] = built /\ built \in 1..Len(incoming) /\ incoming[built] \in Shape
  BY RowsKnown DEF LinesInv, LinesTypeOK, BooksShaped
<1>4. \E i : l = <<built, i>> /\ i \in DOMAIN incoming[built].lines
  BY DEF LineRows
<1> QED BY <1>1, <1>2, <1>3, <1>4 DEF WriteFits, CountsWhole

LEMMA BeginInv ==
  ASSUME LinesInv, NEW c \in Clerk, NEW ws, BeginAsking(c, ws), IsFiniteSet(ws),
         \A w \in ws : w = [line |-> w.line, parts |-> w.parts] /\ WriteFits(w)
  PROVE  LinesInv'
<1>1. /\ now' = now + 1 /\ asking' = [asking EXCEPT ![c] = [at |-> now + 1, writes |-> ws]]
      /\ UNCHANGED <<incoming, built, applied, area, keyed, decided, decision>>
  BY DEF BeginAsking, aroundLines
<1>2. now \in Nat /\ asking = [d \in Clerk |-> asking[d]]
  BY DEF LinesInv, BooksShaped
<1>3. PICK r : r = [at |-> now + 1, writes |-> ws]
  OBVIOUS
<1>4. asking' = [d \in Clerk |-> asking'[d]] /\ \A d \in Clerk : asking'[d] = IF d = c THEN r ELSE asking[d]
  BY <1>1, <1>2, <1>3
<1>5. LinesTypeOK' /\ BooksShaped'
  BY <1>1, <1>2, <1>4 DEF LinesInv, LinesTypeOK, BooksShaped
<1>6. VersionsStay
  BY <1>1 DEF LinesInv, BooksShaped, VersionsStay
<1>7. \A w : WriteFits(w) => WriteFits(w)'
  BY <1>5, <1>6, FitsAll DEF LinesInv
<1>8. AsksKnow'
  <2> SUFFICES ASSUME NEW d \in Clerk, asking'[d] # Unasked
               PROVE  /\ asking'[d].at \in 1..now' /\ IsFiniteSet(asking'[d].writes)
                      /\ \A w \in asking'[d].writes : w = [line |-> w.line, parts |-> w.parts] /\ WriteFits(w)'
    BY DEF AsksKnow
  <2>1. CASE d = c
    <3>1. asking'[d] = r /\ r.at = now + 1 /\ r.writes = ws
      BY <2>1, <1>3, <1>4
    <3>2. now + 1 \in 1..now'
      BY <1>1, <1>2
    <3> QED BY <3>1, <3>2, <1>7
  <2>2. CASE d # c
    <3>1. asking'[d] = asking[d]
      BY <2>2, <1>4
    <3>2. /\ asking[d].at \in 1..now /\ IsFiniteSet(asking[d].writes)
          /\ \A w \in asking[d].writes : w = [line |-> w.line, parts |-> w.parts] /\ WriteFits(w)
      BY <3>1 DEF LinesInv, AsksKnow
    <3>3. 1..now \subseteq 1..now'
      BY <1>1, <1>2
    <3> QED BY <3>1, <3>2, <3>3, <1>7
  <2> QED BY <2>1, <2>2
<1>9. DecisionsFit'
  <2> SUFFICES ASSUME NEW i \in DOMAIN decision
               PROVE  decision[i].at <= now' /\ decision[i].line \in LineRows' /\ WriteFits(decision[i])'
    BY <1>1 DEF DecisionsFit
  <2>1. decision[i].at <= now /\ decision[i].line \in LineRows /\ WriteFits(decision[i])
    BY DEF LinesInv, DecisionsFit
  <2>2. LineRows' = LineRows
    BY <1>1 DEF LineRows
  <2>3. decision[i] \in LineEvent
    BY ElementOfSeq DEF LinesInv, LinesTypeOK
  <2>4. decision[i].at <= now'
    BY <2>1, <2>3, <1>1, <1>2 DEF LineEvent
  <2>5. WriteFits(decision[i])'
    BY <1>1, <1>7, <2>1
  <2> QED BY <2>1, <2>2, <2>4, <2>5
<1> QED BY <1>5, <1>8, <1>9 DEF LinesInv

LEMMA AssignLineInv ==
  ASSUME LinesInv, NEW c \in Clerk, NEW l \in LineRows, NEW q \in SplitOf[LineAt(l).amount],
         NEW ks \in [DOMAIN q -> AreaKey],
         AssignLine(c, l, {[area |-> ks[i], amount |-> q[i]] : i \in DOMAIN q})
  PROVE  LinesInv'
<1>1. PICK ps : ps = {[area |-> ks[i], amount |-> q[i]] : i \in DOMAIN q}
  OBVIOUS
<1>2. l[1] = built /\ l[2] \in DOMAIN incoming[built].lines /\ incoming[built] \in Shape
  BY RowsKnown DEF LinesInv, BooksShaped
<1>3. q \in Seq(Int)
  BY <1>2, LinesAssumption DEF LineAt
<1>4. ps \subseteq Part
  <2> SUFFICES ASSUME NEW i \in DOMAIN q PROVE [area |-> ks[i], amount |-> q[i]] \in Part
    BY <1>1
  <2>1. q[i] \in Int /\ ks[i] \in AreaKey
    BY <1>3, ElementOfSeq
  <2> QED BY <2>1 DEF Part
<1>5. IsFiniteSet(ps)
  <2>1. PICK f : f = [i \in DOMAIN q |-> [area |-> ks[i], amount |-> q[i]]]
    OBVIOUS
  <2>2. IsFiniteSet(DOMAIN f)
    <3>1. Len(q) \in Nat /\ DOMAIN q = 1..Len(q)
      BY <1>3, LenProperties
    <3>2. DOMAIN f = 1..Len(q)
      BY <2>1, <3>1
    <3> QED BY <3>1, <3>2, FS_Interval
  <2>3. {f[x] : x \in DOMAIN f} = ps
    BY <1>1, <2>1
  <2> QED BY <2>2, <2>3, ImageFinite
<1>6. MayWrite(l, ps) /\ BeginAsking(c, {[line |-> l, parts |-> ps]})
  BY <1>1 DEF AssignLine
<1>7. CountsWhole(l, ps)
  BY <1>4, <1>5, <1>6 DEF MayWrite, CountsWhole
<1>8. PICK w : w = [line |-> l, parts |-> ps]
  OBVIOUS
<1>9. WriteFits(w) /\ w = [line |-> w.line, parts |-> w.parts] /\ BeginAsking(c, {w}) /\ IsFiniteSet({w})
  BY <1>6, <1>7, <1>8, FitsHere, FS_Singleton
<1> QED BY <1>9, BeginInv

LEMMA ClearLineInv ==
  ASSUME LinesInv, NEW c \in Clerk, NEW l \in LineRows, ClearLine(c, l)
  PROVE  LinesInv'
<1>1. PICK w : w = [line |-> l, parts |-> {}]
  OBVIOUS
<1>2. CountsWhole(l, {})
  BY FS_EmptySet DEF CountsWhole
<1>3. WriteFits(w) /\ w = [line |-> w.line, parts |-> w.parts] /\ IsFiniteSet({w})
  BY <1>1, <1>2, FitsHere, FS_Singleton
<1>4. BeginAsking(c, {w})
  BY <1>1 DEF ClearLine
<1> QED BY <1>3, <1>4, BeginInv

LEMMA AssignPairsInv ==
  ASSUME LinesInv, NEW c \in Clerk, NEW S \in SUBSET LineRows, NEW f \in [S -> AreaKey], AssignPairs(c, f)
  PROVE  LinesInv'
<1>1. PICK g : g = [l \in S |-> [line |-> l, parts |-> {[area |-> f[l], amount |-> LineAt(l).amount]}]]
  OBVIOUS
<1>2. PICK ws : ws = {g[l] : l \in DOMAIN g}
  OBVIOUS
<1>3. DOMAIN f = S /\ DOMAIN g = S
  BY <1>1
<1>4. BeginAsking(c, ws)
  <2>1. ws = {[line |-> l, parts |-> {[area |-> f[l], amount |-> LineAt(l).amount]}] : l \in DOMAIN f}
    BY <1>1, <1>2, <1>3
  <2> QED BY <2>1 DEF AssignPairs
<1>5. IsFiniteSet(ws)
  <2>1. IsFiniteSet(S)
    BY RowsKnown, FS_Subset DEF LinesInv
  <2> QED BY <2>1, <1>2, <1>3, ImageFinite
<1>6. ASSUME NEW w \in ws PROVE w = [line |-> w.line, parts |-> w.parts] /\ WriteFits(w)
  <2>1. PICK l \in S : w = g[l]
    BY <1>2, <1>3, <1>6
  <2>2. PICK n : n = LineAt(l).amount
    OBVIOUS
  <2>3. n \in Int
    BY <2>2, RowsKnown DEF LinesInv
  <2>4. PICK r : r = [area |-> f[l], amount |-> n]
    OBVIOUS
  <2>5. r \in Part /\ r.amount = n
    BY <2>3, <2>4 DEF Part
  <2>6. w = [line |-> l, parts |-> {r}]
    BY <1>1, <2>1, <2>2, <2>4
  <2>7. Sum({r}) = n
    BY <2>3, <2>5, OnePart
  <2>8. CountsWhole(l, {r})
    BY <2>2, <2>5, <2>7, FS_Singleton DEF CountsWhole
  <2> QED BY <2>6, <2>8, FitsHere
<1> QED BY <1>4, <1>5, <1>6, BeginInv

\* The events of one request, in some order.
LEMMA Ordered ==
  ASSUME NEW T, IsFiniteSet(T)
  PROVE  SetToSeq(T) \in Seq(T)
<1>1. PICK n : n = Cardinality(T)
  OBVIOUS
<1>2. n \in Nat /\ ExistsBijection(1..n, T)
  BY <1>1, FS_CardinalityType
<1>3. PICK b : b \in Bijection(1..n, T)
  BY <1>2 DEF ExistsBijection
<1>4. b \in [1..n -> T] /\ IsInjective(b)
  BY <1>3 DEF Bijection, Injection, Surjection, IsInjective
<1>5. SetToSeq(T) = CHOOSE f \in [1..n -> T] : IsInjective(f)
  BY <1>1 DEF SetToSeq
<1>6. SetToSeq(T) \in [1..n -> T]
  BY <1>4, <1>5
<1> QED BY <1>2, <1>6

LEMMA CommitAskingInv ==
  ASSUME LinesInv, NEW c \in Clerk, CommitAsking(c)
  PROVE  LinesInv'
<1>1. /\ asking[c] # Unasked /\ asking' = [asking EXCEPT ![c] = Unasked]
      /\ UNCHANGED <<incoming, built, applied, area, keyed, decided, now>>
  BY DEF CommitAsking, aroundLines
<1>2. asking' = [d \in Clerk |-> asking'[d]] /\ \A d \in Clerk : asking'[d] = IF d = c THEN Unasked ELSE asking[d]
  BY <1>1 DEF LinesInv, BooksShaped
<1>3. BooksShaped' /\ VersionsStay /\ LineRows' = LineRows
  BY <1>1, <1>2 DEF LinesInv, BooksShaped, VersionsStay, LineRows
<1>4. \A w : WriteFits(w) => WriteFits(w)'
  BY <1>3, FitsAll DEF LinesInv
<1>5. AsksKnow'
  <2> SUFFICES ASSUME NEW d \in Clerk, asking'[d] # Unasked
               PROVE  /\ asking'[d].at \in 1..now' /\ IsFiniteSet(asking'[d].writes)
                      /\ \A w \in asking'[d].writes : w = [line |-> w.line, parts |-> w.parts] /\ WriteFits(w)'
    BY DEF AsksKnow
  <2>1. asking'[d] = asking[d]
    BY <1>2
  <2> QED BY <2>1, <1>1, <1>4 DEF LinesInv, AsksKnow
<1>6. PICK r : r = asking[c]
  OBVIOUS
<1>7. r.at \in 1..now /\ IsFiniteSet(r.writes) /\ \A w \in r.writes : w = [line |-> w.line, parts |-> w.parts] /\ WriteFits(w)
  BY <1>1, <1>6 DEF LinesInv, AsksKnow
<1>8. CASE ~(\A w \in r.writes : w.line \in LineRows)
  <2>1. decision' = decision
    BY <1>6, <1>8 DEF CommitAsking
  <2>2. LinesTypeOK'
    BY <1>1, <2>1 DEF LinesInv, LinesTypeOK
  <2>3. DecisionsFit'
    <3> SUFFICES ASSUME NEW i \in DOMAIN decision
                 PROVE  decision[i].at <= now /\ decision[i].line \in LineRows /\ WriteFits(decision[i])'
      BY <1>1, <1>3, <2>1 DEF DecisionsFit
    <3>1. decision[i].at <= now /\ decision[i].line \in LineRows /\ WriteFits(decision[i])
      BY DEF LinesInv, DecisionsFit
    <3>2. WriteFits(decision[i])'
      BY <2>1, <3>1, <1>4
    <3> QED BY <3>1, <3>2
  <2> QED BY <1>3, <1>5, <2>2, <2>3 DEF LinesInv
<1>9. CASE \A w \in r.writes : w.line \in LineRows
  <2>1. PICK entry : entry = [w \in r.writes |-> [line |-> w.line, at |-> r.at, parts |-> w.parts]]
    OBVIOUS
  <2>2. PICK T : T = {entry[w] : w \in DOMAIN entry}
    OBVIOUS
  <2>3. DOMAIN entry = r.writes
    BY <2>1
  <2>4. T = {[line |-> w.line, at |-> r.at, parts |-> w.parts] : w \in r.writes}
    BY <2>1, <2>2, <2>3
  <2>5. IsFiniteSet(T)
    BY <2>2, <2>3, <1>7, ImageFinite
  <2>6. PICK s : s = SetToSeq(T)
    OBVIOUS
  <2>7. decision' = decision \o s
    BY <2>4, <2>6, <1>6, <1>9 DEF CommitAsking
  <2>8. s \in Seq(T)
    BY <2>5, <2>6, Ordered
  <2>9. ASSUME NEW e \in T
        PROVE  e \in LineEvent /\ e.at <= now /\ e.line \in LineRows /\ WriteFits(e)
    <3>1. PICK w \in r.writes : e = [line |-> w.line, at |-> r.at, parts |-> w.parts]
      BY <2>4
    <3>2. w.line \in LineRows /\ WriteFits(w)
      BY <1>7, <1>9
    <3>3. e.line = w.line /\ e.at = r.at /\ e.parts = w.parts
      BY <3>1
    <3>4. WriteFits(e)
      BY <3>2, <3>3 DEF WriteFits
    <3>5. r.at \in Nat \ {0} /\ r.at <= now
      BY <1>7 DEF LinesInv, BooksShaped
    <3>6. w.line \in (1..MaxVersions) \X (Nat \ {0}) /\ w.parts \in SUBSET Part
      BY <3>2, RowsKnown DEF WriteFits, LinesInv
    <3>7. e \in LineEvent
      BY <3>1, <3>5, <3>6 DEF LineEvent, Part
    <3> QED BY <3>2, <3>3, <3>4, <3>5, <3>7
  <2>10. T \subseteq LineEvent
    BY <2>9
  <2>11. decision \in Seq(LineEvent)
    BY DEF LinesInv, LinesTypeOK
  <2>12. s \in Seq(LineEvent)
    BY <2>8, <2>10
  <2>13. decision' \in Seq(LineEvent)
    BY <2>7, <2>11, <2>12, ConcatProperties
  <2>14. LinesTypeOK'
    BY <1>1, <2>13 DEF LinesInv, LinesTypeOK
  <2>15. ASSUME NEW i \in DOMAIN decision'
         PROVE  \E e : e = decision'[i] /\ e.at <= now /\ e.line \in LineRows /\ WriteFits(e)
    <3>1. DOMAIN decision = 1..Len(decision) /\ DOMAIN s = 1..Len(s) /\ Len(decision) \in Nat /\ Len(s) \in Nat
      BY <2>11, <2>12, LenProperties
    <3>2. i \in 1..(Len(decision) + Len(s))
      BY <2>7, <2>11, <2>12, <2>13, ConcatProperties, LenProperties
    <3>3. CASE i <= Len(decision)
      <4>1. i \in DOMAIN decision /\ decision'[i] = decision[i]
        BY <3>1, <3>2, <3>3, <2>7, <2>11, <2>12, ConcatProperties
      <4> QED BY <4>1 DEF LinesInv, DecisionsFit
    <3>4. CASE ~(i <= Len(decision))
      <4>1. PICK j : j = i - Len(decision)
        OBVIOUS
      <4>2. j \in DOMAIN s /\ decision'[i] = s[j]
        BY <4>1, <3>1, <3>2, <3>4, <2>7, <2>11, <2>12, ConcatProperties
      <4>3. s[j] \in T
        BY <4>2, <2>8, ElementOfSeq
      <4> QED BY <4>2, <4>3, <2>9
    <3> QED BY <3>3, <3>4
  <2>16. DecisionsFit'
    <3> SUFFICES ASSUME NEW i \in DOMAIN decision'
                 PROVE  decision'[i].at <= now /\ decision'[i].line \in LineRows /\ WriteFits(decision[i])'
      BY <1>1, <1>3 DEF DecisionsFit
    <3>1. PICK e : e = decision'[i] /\ e.at <= now /\ e.line \in LineRows /\ WriteFits(e)
      BY <2>15
    <3>2. WriteFits(e)'
      BY <3>1, <1>4
    <3> QED BY <3>1, <3>2
  <2> QED BY <1>3, <1>5, <2>14, <2>16 DEF LinesInv
<1> QED BY <1>8, <1>9

LEMMA LinesStep == LinesInv /\ [LinesNext]_lineVars => LinesInv'
<1> SUFFICES ASSUME LinesInv, [LinesNext]_lineVars PROVE LinesInv'
  OBVIOUS
<1>1. ASSUME NEW c \in Clerk, NEW l \in LineRows, ClearLine(c, l) PROVE LinesInv'
  BY <1>1, ClearLineInv
<1>2. ASSUME NEW c \in Clerk, NEW l \in LineRows, NEW q \in SplitOf[LineAt(l).amount],
             NEW ks \in [DOMAIN q -> AreaKey],
             AssignLine(c, l, {[area |-> ks[i], amount |-> q[i]] : i \in DOMAIN q})
      PROVE  LinesInv'
  BY <1>2, AssignLineInv
<1>3. ASSUME NEW c \in Clerk, NEW f \in UNION {[S -> AreaKey] : S \in SUBSET LineRows}, AssignPairs(c, f)
      PROVE  LinesInv'
  BY <1>3, AssignPairsInv
<1>4. ASSUME NEW c \in Clerk, CommitAsking(c) PROVE LinesInv'
  BY <1>4, CommitAskingInv
<1>5. ASSUME NEW s \in Shape \cup {Erased}, StoreVersion(s) PROVE LinesInv'
  BY <1>5, StoreVersionInv
<1>6. CASE RewriteLines
  BY <1>6, RewriteLinesInv
<1>7. area \in [AreaKey -> {"absent", "kept", "omitted"}]
  BY DEF LinesInv, LinesTypeOK
<1>8. ASSUME NEW k \in AreaKey, NEW s \in {"absent", "kept", "omitted"}, AreaChanges(k, s) PROVE LinesInv'
  <2>1. area' \in [AreaKey -> {"absent", "kept", "omitted"}]
    BY <1>7, <1>8 DEF AreaChanges
  <2> QED BY <2>1, <1>8, AroundInv DEF AreaChanges
<1>9. CASE KeyedChanges
  BY <1>7, <1>9, AroundInv DEF KeyedChanges
<1>10. CASE PolicyDecided
  BY <1>7, <1>10, AroundInv DEF PolicyDecided
<1>11. CASE UNCHANGED lineVars
  BY <1>7, <1>11, AroundInv DEF lineVars, aroundLines
<1> QED BY <1>1, <1>2, <1>3, <1>4, <1>5, <1>6, <1>8, <1>9, <1>10, <1>11 DEF LinesNext

\* A line of an invoice counts for its whole amount or for nothing, the work areas'
\* billed to date add up to what the lines that count bill, and no event is ever
\* separated from its line, whatever people assign, split and clear at the same
\* time and however versions of the invoice and of the estimates come in between
\* (billing/assignments.py, work_areas.py, sync.py _write_billing).
THEOREM LinesKeepAgreeing == LinesSpec => []LinesAgree
<1>1. LinesInv => LinesAgree
  BY CountedOnce, EventsStay DEF LinesAgree, LinesInv
<1> QED BY <1>1, LinesStart, LinesStep, PTL DEF LinesSpec
================================================================================
