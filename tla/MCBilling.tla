------------------------------ MODULE MCBilling ------------------------------
(* BillingRows for TLC: the rows the normalizers write from the copy of        *)
(* QuickBooks, and the months counted from them.                               *)
EXTENDS BillingRows, TLC

CONSTANTS b1, b2, inv, cm, sr, pay

\* A customer and its sub-customer; an invoice billed, voided, moved before the
\* history starts, unreadable or deleted; payments over several documents.
MCKind == (inv :> "Invoice") @@ (cm :> "CreditMemo") @@ (sr :> "SalesReceipt")
Who(p) == [parent |-> p, readable |-> TRUE]
Bill(m, b, t, note, ok) ==
    [month |-> m, buyer |-> b, total |-> t, unapplied |-> 0, note |-> note, readable |-> ok]
Pays(m, b, t, u, l) ==
    [month |-> m, buyer |-> b, total |-> t, unapplied |-> u, lines |-> l, readable |-> TRUE]
To(k, d, a) == [type |-> k, to |-> d, amount |-> a]
MCPayload ==
    (b1 :> {Who(Absent)}) @@ (b2 :> {Who(b1)})
    @@ (inv :> {Bill(2, b2, 5, FALSE, TRUE), Bill(2, b2, 0, TRUE, TRUE),
                Bill(1, b2, 5, FALSE, TRUE), Bill(3, b1, 4, FALSE, FALSE), Gone})
    @@ (cm :> {Bill(2, b1, 1, FALSE, TRUE)})
    @@ (sr :> {Bill(2, b2, 3, FALSE, TRUE), Bill(3, b1, 0, TRUE, TRUE), Gone})
    @@ (pay :> {Pays(3, b1, 6, 1, <<To("Invoice", inv, 5), To("CreditMemo", cm, 1),
                                    To("JournalEntry", Absent, 1)>>),
                Pays(2, b1, 4, 0, <<To("Invoice", inv, 5), To("Deposit", Absent, 1)>>), Gone})

\* The two customers' versions are stored, their tasks still to run.
BuyersStored ==
    /\ version = [r \in Record |-> IF r \in Buyer THEN <<CHOOSE p \in Payload[r] : TRUE>> ELSE << >>]
    /\ due = Buyer \X {1}
    /\ buyerRow = [b \in Buyer |-> Absent] /\ docRow = [d \in Document |-> Absent]
    /\ payRow = [p \in Paid |-> Absent]
    /\ site = [b \in Buyer |-> Absent] /\ arrivals = 0

MCSpec == BuyersStored /\ [][BillingNext]_billVars
=============================================================================
