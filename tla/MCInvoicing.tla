---------------------------- MODULE MCInvoicing ----------------------------
(* Two invoices of one customer, a payment entered by hand and others       *)
(* registered on the invoices, one bank journal and one statement line.     *)
EXTENDS Invoicing, TLC

CONSTANTS i1, i2, p1, p2, p3, bank, cash, l1, w1, w2

MCInvoice == {i1, i2}
MCPaymentIds == <<p1, p2>>
ThreePayments == <<p1, p2, p3>>
MCWorker == {w1, w2}

MCJournalOf == [d \in {p1, l1} |-> bank]
MCAmountOf == [d \in {p1, l1} |-> IF d = p1 THEN 2 ELSE 3]

\* The lines of i1 may be corrected; i2 is left as it was created.
MCLineTotal == (i1 :> {1, 2}) @@ (i2 :> {2})

WorkerSymmetry == Permutations({w1, w2})
=============================================================================
