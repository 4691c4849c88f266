----------------------------- MODULE BillingRows -----------------------------
(***************************************************************************)
(* The billing side of the QuickBooks copy: raw versions of customers,     *)
(* documents and payments are applied to the canonical rows in whatever    *)
(* order their tasks run (domain/billing/sync.py, qbo/normalize/,          *)
(* qbo/tasks.py normalize), people link customer rows to jobs, and the     *)
(* month figures are summed from the rows in three independent ways        *)
(* (totals.py month_totals, board.py month_sums, figures.py job_figures)   *)
(* and once from the raw payloads (report.py raw_month_totals).            *)
(*                                                                         *)
(* A payload is what the normalizers read of it.  Months stand for dates;  *)
(* a month before Start is before the company's history start.             *)
(***************************************************************************)
EXTENDS Integers, Sequences, FiniteSets, Functions, SequencesExt

CONSTANTS Buyer,      \* QuickBooks customers
          Document,   \* invoices, credit memos and sales receipts
          Kind,       \* [Document -> "Invoice", "CreditMemo" or "SalesReceipt"]
          Cheque,     \* Payment documents
          Payload,    \* [records -> what a version of it may be: a payload or Gone]
          Months, Start,
          Site,       \* jobs a customer row may be linked to
          MaxArrivals,
          Absent, Gone

Receipts == {d \in Document : Kind[d] = "SalesReceipt"}
Record == Buyer \cup Document \cup Cheque
Paid == Cheque \cup Receipts

\* What the normalizers read of a payload: readable says that they accept it
\* (amounts and dates parse, the customer is named), note that a private note
\* says it was voided; an application line keeps its type and its target's id.
BuyerPayload == [parent : Buyer \cup {Absent}, readable : BOOLEAN]
DocPayload == [month : Months, buyer : Buyer, total : Int, unapplied : Int, note : BOOLEAN,
               readable : BOOLEAN]
ApplicationLine == [type : {"Invoice", "CreditMemo", "SalesReceipt", "JournalEntry", "Deposit"},
                    to : Document \cup {Absent}, amount : Int]
ChequePayload == [month : Months, buyer : Buyer, total : Int, unapplied : Int,
                  lines : Seq(ApplicationLine), readable : BOOLEAN]

ASSUME BillingAssumption ==
    /\ Months \subseteq Nat /\ Start \in Months /\ MaxArrivals \in Nat
    /\ \A r \in Record : \A p \in Payload[r] \ {Gone} :
          p \in IF r \in Buyer THEN BuyerPayload ELSE IF r \in Document THEN DocPayload ELSE ChequePayload
    /\ Kind \in [Document -> {"Invoice", "CreditMemo", "SalesReceipt"}]
    /\ Buyer \cap (Document \cup Cheque) = {} /\ Document \cap Cheque = {}
    /\ IsFiniteSet(Document) /\ IsFiniteSet(Cheque) /\ IsFiniteSet(Site) /\ IsFiniteSet(Months)

VARIABLES
    version,   \* [Record -> Seq(payload or Gone)]: the raw versions, oldest first
    due,       \* set of <<record, version number>>: normalize tasks to run
    buyerRow,  \* [Buyer -> row or Absent]
    docRow,    \* [Document -> row or Absent]
    payRow,    \* [Paid -> row or Absent]
    site,      \* [Buyer -> Site or Absent]: the qbo_customer aliases
    arrivals   \* raw versions stored so far

billVars == <<version, due, buyerRow, docRow, payRow, site, arrivals>>

\* customer, billing, payment and payment_application, as far as the properties
\* tell them apart; linked and held say that the foreign key is filled in.
CustomerRow == [parent : Buyer \cup {Absent}, linked : BOOLEAN, ver : Nat]
BillingRow == [month : Months, buyer : Buyer, linked : BOOLEAN, total : Int, voided : BOOLEAN,
               deleted : BOOLEAN, ver : Nat]
ApplicationRow == [type : {"Invoice", "CreditMemo", "SalesReceipt", "JournalEntry", "Deposit"},
                   to : Document \cup {Absent}, amount : Int, held : BOOLEAN]
PaymentRow == [month : Months, buyer : Buyer, linked : BOOLEAN, total : Int, unapplied : Int,
               deleted : BOOLEAN, ver : Nat, lines : Seq(ApplicationRow)]

\* NULL is none of the rows, and an id that is not there none of the records.
ASSUME AbsentIsNull ==
    Absent \notin Buyer \cup Document \cup Site \cup CustomerRow \cup BillingRow \cup PaymentRow

BillingInit ==
    /\ version = [r \in Record |-> << >>] /\ due = {}
    /\ buyerRow = [b \in Buyer |-> Absent]
    /\ docRow = [d \in Document |-> Absent]
    /\ payRow = [p \in Paid |-> Absent]
    /\ site = [b \in Buyer |-> Absent] /\ arrivals = 0

----------------------------------------------------------------------------
(* What the normalizers read.                                               *)

\* The latest version of a record; one that never came is as good as deleted.
Latest(r) == IF version[r] = << >> THEN Gone ELSE Last(version[r])

\* A page or a poll stores a version that differs from the latest one and
\* queues its normalize task; a delete of a record never held is stored too.
Arrive(r, p) ==
    /\ arrivals < MaxArrivals
    /\ version[r] # << >> => Last(version[r]) # p
    /\ version' = [version EXCEPT ![r] = Append(@, p)]
    /\ due' = due \cup {<<r, Len(version[r]) + 1>>}
    /\ arrivals' = arrivals + 1
    /\ UNCHANGED <<buyerRow, docRow, payRow, site>>

\* is_voided: the total is zero, the note says so, and an earlier version had
\* an amount.
IsVoided(d, n) ==
    /\ version[d][n].total = 0 /\ version[d][n].note
    /\ \E i \in 1..(n - 1) : version[d][i] # Gone /\ version[d][i].total # 0

\* _billing_id: the document a payment line names, once its row is held; a
\* line of any other type names none.
Finds(docs_, a) == a.to \in Document /\ Kind[a.to] = a.type /\ docs_[a.to] # Absent

Resolved(docs_, lines) ==
    [i \in DOMAIN lines |-> [type |-> lines[i].type, to |-> lines[i].to,
                             amount |-> lines[i].amount, held |-> Finds(docs_, lines[i])]]

\* _write_billing: the row takes every column of the version.
DocFrom(d, n) ==
    LET p == version[d][n] IN
    [month |-> p.month, buyer |-> p.buyer, linked |-> buyerRow[p.buyer] # Absent,
     total |-> p.total, voided |-> IsVoided(d, n), deleted |-> FALSE, ver |-> n]

\* _write_payment, with its lines replaced by the version's.
PayFrom(docs_, p, lines, n) ==
    [month |-> p.month, buyer |-> p.buyer, linked |-> buyerRow[p.buyer] # Absent,
     total |-> p.total, unapplied |-> p.unapplied, deleted |-> FALSE, ver |-> n,
     lines |-> Resolved(docs_, lines)]

\* payment_from_sales_receipt: the whole total, applied to the receipt itself.
OwnLine(d, p) == <<[type |-> "SalesReceipt", to |-> d, amount |-> p.total]>>

\* Faulty: the lines that already named the document stay unresolved.
BadFilled(d, rows) == rows

\* The lines that named the document before it was held now point at it.
Filled(d, rows) ==
    [x \in Paid |-> IF rows[x] = Absent THEN Absent
                    ELSE [rows[x] EXCEPT !.lines =
                            [i \in DOMAIN @ |-> IF @[i].to = d /\ @[i].type = Kind[d]
                                                THEN [@[i] EXCEPT !.held = TRUE] ELSE @[i]]]]

----------------------------------------------------------------------------
(* apply_raw, for the latest version of a record.                           *)

\* _apply_customer: the row, then everyone who named it before it existed.
ApplyBuyer(b, n) ==
    LET parent == version[b][n].parent
        own == [parent |-> parent, ver |-> n,
                linked |-> parent # Absent /\ (parent = b \/ buyerRow[parent] # Absent)]
        Link(row) == IF row # Absent /\ row.buyer = b THEN [row EXCEPT !.linked = TRUE] ELSE row
    IN /\ buyerRow' = [x \in Buyer |->
             IF x = b THEN own
             ELSE IF buyerRow[x] # Absent /\ buyerRow[x].parent = b
                  THEN [buyerRow[x] EXCEPT !.linked = TRUE] ELSE buyerRow[x]]
       /\ docRow' = [d \in Document |-> Link(docRow[d])]
       /\ payRow' = [p \in Paid |-> Link(payRow[p])]

\* _apply_billing: the document, the lines that named it, and for a sales
\* receipt its collected side.
ApplyDocument(d, n) ==
    LET p == version[d][n]
        docs_ == [docRow EXCEPT ![d] = DocFrom(d, n)]
        rows == Filled(d, payRow)
    IN /\ docRow' = docs_
       /\ payRow' = IF d \in Receipts
                    THEN [rows EXCEPT ![d] = PayFrom(docs_, p, OwnLine(d, p), n)]
                    ELSE rows
       /\ UNCHANGED buyerRow

\* _apply_payment.
ApplyCheque(c, n) ==
    /\ payRow' = [payRow EXCEPT ![c] = PayFrom(docRow, version[c][n], version[c][n].lines, n)]
    /\ UNCHANGED <<buyerRow, docRow>>

\* Faulty: a receipt's collected side is left standing.
BadApplyDelete(r, n) ==
    /\ docRow' = IF r \in Document /\ docRow[r] # Absent
                 THEN [docRow EXCEPT ![r].deleted = TRUE, ![r].ver = n] ELSE docRow
    /\ payRow' = IF r \in Cheque /\ payRow[r] # Absent
                 THEN [payRow EXCEPT ![r].deleted = TRUE, ![r].ver = n] ELSE payRow
    /\ UNCHANGED buyerRow

\* _apply_delete: the rows held are marked, a receipt's payment side too; a
\* record never held, and a customer, change nothing.
ApplyDelete(r, n) ==
    /\ docRow' = IF r \in Document /\ docRow[r] # Absent
                 THEN [docRow EXCEPT ![r].deleted = TRUE, ![r].ver = n] ELSE docRow
    /\ payRow' = IF r \in Paid /\ payRow[r] # Absent
                 THEN [payRow EXCEPT ![r].deleted = TRUE, ![r].ver = n] ELSE payRow
    /\ UNCHANGED buyerRow

\* before_history_start: a payload whose date can be read, dated too early.
BeforeStart(r, p) == r \notin Buyer /\ p.month < Start

\* apply_raw: a delete, a date before the history start, a payload the
\* normalizer refuses (the row keeps its version), or the record's own applier.
ApplyRaw(r, n) ==
    LET p == version[r][n] IN
    \/ p = Gone /\ ApplyDelete(r, n)
    \/ p # Gone /\ BeforeStart(r, p) /\ ApplyDelete(r, n)
    \/ p # Gone /\ ~BeforeStart(r, p) /\ ~p.readable /\ UNCHANGED <<buyerRow, docRow, payRow>>
    \/ p # Gone /\ ~BeforeStart(r, p) /\ p.readable /\ r \in Buyer /\ ApplyBuyer(r, n)
    \/ p # Gone /\ ~BeforeStart(r, p) /\ p.readable /\ r \in Document /\ ApplyDocument(r, n)
    \/ p # Gone /\ ~BeforeStart(r, p) /\ p.readable /\ r \in Cheque /\ ApplyCheque(r, n)

\* normalize asks for the latest version; an older one has its own task behind it.
IsLatest(r, n) == n = Len(version[r])

\* normalize, one record: tasks run in any order, and again after a crash.
NormalizeRecord(r, n) ==
    /\ n \in 1..Len(version[r]) /\ <<r, n>> \in due
    /\ IF IsLatest(r, n) THEN ApplyRaw(r, n) ELSE UNCHANGED <<buyerRow, docRow, payRow>>
    /\ \/ due' = due \ {<<r, n>>}
       \/ UNCHANGED due
    /\ UNCHANGED <<version, site, arrivals>>

\* A person links a customer row to a job, or unlinks it (module Jobs).
LinkBuyer(b, s) ==
    /\ buyerRow[b] # Absent /\ site[b] = Absent
    /\ site' = [site EXCEPT ![b] = s]
    /\ UNCHANGED <<version, due, buyerRow, docRow, payRow, arrivals>>

UnlinkBuyer(b) ==
    /\ site[b] # Absent
    /\ site' = [site EXCEPT ![b] = Absent]
    /\ UNCHANGED <<version, due, buyerRow, docRow, payRow, arrivals>>

BillingNext ==
    \/ \E r \in Record : \E p \in Payload[r] : Arrive(r, p)
    \/ \E r \in Record, n \in 1..MaxArrivals : NormalizeRecord(r, n)
    \/ \E b \in Buyer, s \in Site : LinkBuyer(b, s)
    \/ \E b \in Buyer : UnlinkBuyer(b)

BillingSpec == BillingInit /\ [][BillingNext]_billVars

----------------------------------------------------------------------------
(* The figures.                                                             *)

Sign(d) == IF Kind[d] = "CreditMemo" THEN -1 ELSE 1
Counted(d) == docRow[d] # Absent /\ ~docRow[d].deleted /\ ~docRow[d].voided
LivePay(x) == payRow[x] # Absent /\ ~payRow[x].deleted

\* month_totals: one column per kind of document, and the payments.
LedgerColumn(kind, m) ==
    SumFunction([d \in {e \in Document : Kind[e] = kind /\ Counted(e) /\ docRow[e].month = m}
                   |-> Sign(d) * docRow[d].total])
LedgerPayments(m) ==
    SumFunction([c \in {e \in Cheque : LivePay(e) /\ payRow[e].month = m} |-> payRow[c].total])

\* on_a_job and not_on_a_job: a row whose customer is not held is on none.
OnJob(row) == row.linked /\ site[row.buyer] # Absent

\* signed_application: a line that applies a credit memo counts against.
Signed(a) == IF a.type = "CreditMemo" THEN -a.amount ELSE a.amount
Typed(a) == a.type \in {"Invoice", "SalesReceipt", "CreditMemo"}
AppLines == UNION {{<<x, i>> : i \in DOMAIN payRow[x].lines} : x \in {y \in Paid : LivePay(y)}}
LineOf(k) == payRow[k[1]].lines[k[2]]
SumLines(K) == SumFunction([k \in K |-> Signed(LineOf(k))])

\* month_sums, billed: counted documents of the side by their month.
SideBilled(onJob, m) ==
    SumFunction([d \in {e \in Document : Counted(e) /\ docRow[e].month = m /\ OnJob(docRow[e]) = onJob}
                   |-> Sign(d) * docRow[d].total])

\* month_sums, collected: lines against the side's documents, and the side's
\* payments, less their typed lines against documents held.
SideCollected(onJob, m) ==
    LET inMonth == {k \in AppLines : payRow[k[1]].month = m}
        incoming == {k \in inMonth : LineOf(k).held /\ OnJob(docRow[LineOf(k).to]) = onJob}
        heldTyped == {k \in inMonth : LineOf(k).held /\ Typed(LineOf(k)) /\ OnJob(payRow[k[1]]) = onJob}
        own == {x \in Paid : LivePay(x) /\ payRow[x].month = m /\ OnJob(payRow[x]) = onJob}
    IN SumLines(incoming) + SumFunction([x \in own |-> payRow[x].total]) - SumLines(heldTyped)

\* The job of a row (alias_rows): its customer's, once the row is linked to it.
JobOf(row) == IF row.linked THEN site[row.buyer] ELSE Absent

\* figures.remainder (D-41): a payment's cash less its typed lines, held or not.
Remainder(x) ==
    payRow[x].total - payRow[x].unapplied
    - SumLines({k \in AppLines : k[1] = x /\ Typed(LineOf(k))})

\* job_figures' collected_by_month: typed lines against the job's documents, its
\* own typed lines that name no held document, remainders and unapplied money.
JobCollected(s, m) ==
    LET inMonth == {k \in AppLines : payRow[k[1]].month = m /\ Typed(LineOf(k))}
        incoming == {k \in inMonth : LineOf(k).held /\ JobOf(docRow[LineOf(k).to]) = s}
        loose == {k \in inMonth : ~LineOf(k).held /\ JobOf(payRow[k[1]]) = s}
        own == {x \in Paid : LivePay(x) /\ payRow[x].month = m /\ JobOf(payRow[x]) = s}
    IN SumLines(incoming) + SumLines(loose)
       + SumFunction([x \in own |-> Remainder(x) + payRow[x].unapplied])

\* job_figures' collected_to_date, unapplied_payments and other_credits_applied,
\* over the rows of a job, or of none.
OwnPays(s) == {x \in Paid : LivePay(x) /\ JobOf(payRow[x]) = s}
CollectedToDate(s) ==
    SumLines({k \in AppLines : Typed(LineOf(k)) /\ LineOf(k).held /\ JobOf(docRow[LineOf(k).to]) = s})
    + SumLines({k \in AppLines : Typed(LineOf(k)) /\ ~LineOf(k).held /\ JobOf(payRow[k[1]]) = s})
    + SumFunction([x \in OwnPays(s) |-> Remainder(x)])
Unapplied(s) == SumFunction([x \in OwnPays(s) |-> payRow[x].unapplied])

\* other_figures: collected on the row of no job, as the database sums it.
OtherCollected ==
    LET own == {x \in Paid : LivePay(x) /\ ~OnJob(payRow[x])}
    IN SumLines({k \in AppLines : LineOf(k).held /\ ~OnJob(docRow[LineOf(k).to])})
       + SumFunction([x \in own |-> payRow[x].total - payRow[x].unapplied])
       - SumLines({k \in AppLines : LineOf(k).held /\ Typed(LineOf(k)) /\ ~OnJob(payRow[k[1]])})

\* job_figures' billed_by_month.
JobBilled(s, m) ==
    SumFunction([d \in {e \in Document : Counted(e) /\ docRow[e].month = m /\ JobOf(docRow[e]) = s}
                   |-> Sign(d) * docRow[d].total])

\* raw_month_totals: the latest payloads, whether or not they can be applied.
RawColumn(S, m) ==
    SumFunction([r \in {q \in S : Latest(q) # Gone /\ Latest(q).month = m /\ m >= Start}
                   |-> (IF r \in Document THEN Sign(r) ELSE 1) * Latest(r).total])

\* drift_check: a month where a column of the ledger is not the re-sum.
Drift(m) ==
    \/ \E kind \in {"Invoice", "CreditMemo", "SalesReceipt"} :
         LedgerColumn(kind, m) # RawColumn({d \in Document : Kind[d] = kind}, m)
    \/ LedgerPayments(m) # RawColumn(Cheque, m)

----------------------------------------------------------------------------
\* The version a row should be built from: the latest, unless it is refused.
Settled(r) == ~\E n \in 1..MaxArrivals : <<r, n>> \in due /\ IsLatest(r, n)

BillingTypeOK ==
    /\ DOMAIN version = Record
    /\ buyerRow \in [Buyer -> CustomerRow \cup {Absent}]
    /\ docRow \in [Document -> BillingRow \cup {Absent}]
    /\ payRow \in [Paid -> PaymentRow \cup {Absent}]
    /\ arrivals \in 0..MaxArrivals
    /\ due \subseteq Record \X (1..MaxArrivals)
    /\ site \in [Buyer -> Site \cup {Absent}]
    /\ \A d \in Document : docRow[d] # Absent => docRow[d].ver \in 1..Len(version[d])
    /\ \A x \in Paid : payRow[x] # Absent => payRow[x].ver \in 1..Len(version[x])

\* Order independence: whatever order customers, documents and payments were
\* applied in, a row is linked to the customer it names, a sub-customer to its
\* parent and a payment line to the document it names, exactly when that row
\* is held (sync.py, the fill-ins of _apply_customer and _write_billing).
LinksFilled ==
    /\ \A b \in Buyer : buyerRow[b] # Absent =>
         buyerRow[b].linked = (buyerRow[b].parent # Absent /\ buyerRow[buyerRow[b].parent] # Absent)
    /\ \A d \in Document : docRow[d] # Absent => docRow[d].linked = (buyerRow[docRow[d].buyer] # Absent)
    /\ \A x \in Paid : payRow[x] # Absent =>
         /\ payRow[x].linked = (buyerRow[payRow[x].buyer] # Absent)
         /\ \A i \in DOMAIN payRow[x].lines : payRow[x].lines[i].held = Finds(docRow, payRow[x].lines[i])

\* Once the task of its latest version has run, a row shows that version or,
\* when it was refused, an older one; it is deleted exactly when the version is
\* a delete or dated before the history start.
RowsFollow ==
    \A r \in Document \cup Cheque : Settled(r) /\ version[r] # << >> =>
        LET row == IF r \in Document THEN docRow[r] ELSE payRow[r]
            p == Latest(r)
        IN /\ row # Absent /\ (p = Gone \/ p.readable \/ BeforeStart(r, p)) => row.ver = Len(version[r])
           /\ row # Absent /\ row.ver = Len(version[r]) =>
                row.deleted = (p = Gone \/ BeforeStart(r, p))
           /\ (row = Absent \/ row.ver < Len(version[r])) =>
                p = Gone \/ BeforeStart(r, p) \/ ~p.readable

\* The copy of billing is what the versions say, in whatever order they came.
BillingFollows == BillingTypeOK /\ LinksFilled /\ RowsFollow

\* Every month ties to the cent at every moment: what is billed and collected
\* on jobs and on none adds up to the ledger's month, although the sums split a
\* payment between its own row and its documents' rows (board.py tie_out).
TiesOut ==
    \A m \in Months :
        /\ SideBilled(TRUE, m) + SideBilled(FALSE, m)
             = LedgerColumn("Invoice", m) + LedgerColumn("CreditMemo", m) + LedgerColumn("SalesReceipt", m)
        /\ SideCollected(TRUE, m) + SideCollected(FALSE, m)
             = LedgerPayments(m) + LedgerColumn("SalesReceipt", m)

\* The figures Python keeps per job add up to the sums the database makes over
\* all jobs (figures.job_figures against board.month_sums).
FiguresAgree ==
    \A m \in Months :
        /\ SumFunction([s \in Site |-> JobBilled(s, m)]) = SideBilled(TRUE, m)
        /\ SumFunction([s \in Site |-> JobCollected(s, m)]) = SideCollected(TRUE, m)

\* The row of no job shows what job_figures would compute for it, and on every
\* row the months of the tie-out add up to what is shown as collected and
\* unapplied (board.other_figures and month_sums against figures.job_figures).
OtherRowAgrees ==
    /\ OtherCollected = CollectedToDate(Absent)
    /\ SumFunction([m \in Months |-> SideCollected(FALSE, m)]) = OtherCollected + Unapplied(Absent)
    /\ \A s \in Site :
         SumFunction([m \in Months |-> JobCollected(s, m)]) = CollectedToDate(s) + Unapplied(s)

\* With nothing left to apply and every latest payload readable, the ledger's
\* months are the re-sum of the raw payloads: the nightly check finds a
\* difference only where a payload was refused (report.py, drift_check).
DriftAgrees ==
    (\A r \in Document \cup Cheque : Settled(r) /\ (Latest(r) = Gone \/ Latest(r).readable)) =>
        \A m \in Months : ~Drift(m)

\* The same money counted in each of these ways is the same.
MonthsTie == TiesOut /\ FiguresAgree /\ OtherRowAgrees /\ DriftAgrees
=============================================================================
