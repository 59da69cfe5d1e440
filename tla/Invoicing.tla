----------------------------- MODULE Invoicing -----------------------------
(***************************************************************************)
(* Customer invoices and the money applied to them: the account.move and   *)
(* account.payment handlers of modules/account/AccountModule.cpp, the bank *)
(* reconciliation next to them and core/PaymentAllocation.cpp, for one     *)
(* customer and one currency.  As in StockTransfers, one step is one SQL   *)
(* statement with the SELECTs directly before it.  INSERTs never wait:     *)
(* what a request has inserted is kept beside the rows until it commits.   *)
(***************************************************************************)
EXTENDS ReadCommitted, Integers, Sequences, FiniteSets, FiniteSetsExt, SequencesExt

CONSTANTS Invoice,       \* account_move rows of type out_invoice
          Journal,       \* bank and cash journals
          StatementLine, \* account_bank_statement_line rows
          paymentIds,    \* the account_payment ids in the order of their id
          Drafted,       \* the payments that start as drafts; register_payment
                         \* inserts the others
          journalOf,     \* journal_id of a drafted payment, statement line
          amountOf,      \* amount of a drafted payment, statement line
          lineTotal,     \* the totals an invoice's lines may add up to
          Amounts,       \* the "amount" of register_payment; 0: the residual
          CarefulEdits,  \* lines change only before money is applied, and no
                         \* save of the form stops half way
          OneRequestPerDocument, \* no two requests on one document at once
          MaxNumber,     \* bound: invoice numbers drawn
          NoInvoice, NoDocument

Payment == ToSet(paymentIds)

InvoiceRow(i) == <<"invoice", i>>
PaymentRow(p) == <<"payment", p>>
LineRow(l)    == <<"line", l>>
SequenceRow(j) == <<"sequence", j>>   \* ir_sequence row of a journal
InvSequence   == <<"sequence", "INV">>

InvoicingRows ==
    {InvoiceRow(i) : i \in Invoice} \cup {PaymentRow(p) : p \in Payment}
    \cup {LineRow(l) : l \in StatementLine}
    \cup {SequenceRow(j) : j \in Journal} \cup {InvSequence}

ASSUME InvoicingAssumption ==
    /\ Row = InvoicingRows
    /\ IsFiniteSet(Invoice) /\ IsFiniteSet(StatementLine)
    /\ paymentIds \in Seq(Payment)
    /\ Payment \cap StatementLine = {}
    /\ NoInvoice \notin Invoice
    /\ "INV" \notin Journal
    /\ Drafted \subseteq Payment
    /\ \A d \in Drafted \cup StatementLine : journalOf[d] \in Journal /\ amountOf[d] \in Nat \ {0}
    /\ \A i \in Invoice : lineTotal[i] \subseteq Nat \ {0} /\ lineTotal[i] # {}
    /\ Amounts \subseteq Nat
    /\ MaxNumber \in Nat

VARIABLES lines,    \* what the product lines of an invoice add up to, with tax
          applied,  \* account_partial_reconcile: amount by payment and invoice
          entries,  \* posted bank entries, in the order they were committed
          call      \* per worker, the request it serves and what it has inserted

vars == <<dbVars, lines, applied, entries, call>>

-----------------------------------------------------------------------------
NothingApplied == [q \in Payment \X Invoice |-> 0]

Idle == [pc |-> "idle", docs |-> {}, inv |-> NoInvoice, doc |-> NoDocument, queue |-> <<>>,
         amount |-> 0, status |-> "", applying |-> NothingApplied, entering |-> <<>>]

At(w, pc) == call[w].pc = pc
Goto(w, pc) == call' = [call EXCEPT ![w].pc = pc]

\* A request on the documents docs goes on at statement pc.
Begin(w, docs, request) ==
    /\ call[w] = Idle
    /\ OneRequestPerDocument => \A v \in Worker : call[v].docs \cap docs = {}
    /\ call' = [call EXCEPT ![w] = [request EXCEPT !.docs = docs]]
    /\ UNCHANGED <<dbVars, lines, applied, entries>>

\* One UPDATE of row r that sees the version it finds once it has the lock.
Update(w, r, version) == Write(w, [s \in {r} |-> version])

Inv(w, i) == Visible(w, InvoiceRow(i))
Pay(w, p) == Visible(w, PaymentRow(p))

\* SUM(account_partial_reconcile.amount), with w's own inserts.
Applied(w, p, i) == applied[<<p, i>>] + call[w].applying[<<p, i>>]
AppliedTo(w, i) == SumFunction([p \in Payment |-> Applied(w, p, i)])
AppliedFrom(w, p) == SumFunction([i \in Invoice |-> Applied(w, p, i)])

Init ==
    /\ lines \in [Invoice -> UNION {lineTotal[i] : i \in Invoice}]
    /\ \A i \in Invoice : lines[i] \in lineTotal[i]
    /\ committed = [r \in Row |->
         CASE r[1] = "invoice" ->
                [state |-> "draft", total |-> lines[r[2]], residual |-> lines[r[2]],
                 paid |-> "not_paid", number |-> 0]
           [] r[1] = "payment" ->
                IF r[2] \in Drafted
                THEN [state |-> "draft", amount |-> amountOf[r[2]], journal |-> journalOf[r[2]]]
                ELSE [state |-> "absent"]
           [] r[1] = "line" -> [reconciled |-> NoInvoice]
           [] r[1] = "sequence" -> [next |-> 1]]
    /\ live = committed
    /\ lock = [r \in Row |-> NoTxn]
    /\ applied = NothingApplied
    /\ entries = <<>>
    /\ call = [w \in Worker |-> Idle]

\* txn.commit(): the inserts become visible with the rows.
Commit(w) ==
    /\ At(w, "commit")
    /\ CommitTxn(w)
    /\ applied' = [q \in DOMAIN applied |-> applied[q] + call[w].applying[q]]
    /\ entries' = entries \o call[w].entering
    /\ call' = [call EXCEPT ![w] = Idle]
    /\ UNCHANGED lines

\* A failing statement, a lost connection or a deadlock ends the request.
Abort(w) ==
    /\ call[w] # Idle
    /\ CarefulEdits => \A i \in call[w].docs \cap Invoice : Inv(NoTxn, i).total = lines[i]
    /\ RollbackTxn(w)
    /\ call' = [call EXCEPT ![w] = Idle]
    /\ UNCHANGED <<lines, applied, entries>>

-----------------------------------------------------------------------------
(* account.move: lines, totals, cancel and reset *)

\* The invoice form (draft or posted) saves the lines, each in a transaction
\* of its own, and then calls recompute_totals.
EditLines(w, i, total) ==
    /\ call[w] = Idle
    /\ OneRequestPerDocument => \A v \in Worker : i \notin call[v].docs
    /\ Inv(w, i).state # "cancel"
    /\ CarefulEdits => Inv(w, i).paid = "not_paid"
    /\ lines' = [lines EXCEPT ![i] = total]
    /\ call' = [call EXCEPT ![w] = [Idle EXCEPT !.pc = "edited", !.docs = {i}, !.inv = i]]
    /\ UNCHANGED <<dbVars, applied, entries>>

\* recompute_totals reads the lines and payment_state; it does not ask for the
\* state of the invoice.
ReadLines(w, i) ==
    [Idle EXCEPT !.pc = "totals", !.docs = {i}, !.inv = i,
                 !.amount = lines[i], !.status = Inv(w, i).paid]

Recompute(w, i) == Begin(w, {i}, ReadLines(w, i))

RecomputeSaved(w) ==
    /\ At(w, "edited")
    /\ call' = [call EXCEPT ![w] = ReadLines(w, call[w].inv)]
    /\ UNCHANGED <<dbVars, lines, applied, entries>>

\* Mutant: an invoice that is paid in part owes nothing.
OwedWhenUnpaid(total, status) == IF status = "not_paid" THEN total ELSE 0

\* residual = not paid or partial ? total : 0
RecomputedResidual(total, status) == IF status \in {"not_paid", "partial"} THEN total ELSE 0

WriteTotals(w) ==
    LET i == call[w].inv
        total == call[w].amount
    IN /\ At(w, "totals")
       /\ Update(w, InvoiceRow(i),
            [live[InvoiceRow(i)] EXCEPT
                !.total = total, !.residual = RecomputedResidual(total, call[w].status)])
       /\ Goto(w, "commit")
       /\ UNCHANGED <<lines, applied, entries>>

\* UPDATE account_move SET ... WHERE id = ANY(ids) AND state = from.
SwitchState(w, i, from, version) ==
    /\ call[w] = Idle
    /\ OneRequestPerDocument => \A v \in Worker : i \notin call[v].docs
    /\ live[InvoiceRow(i)].state = from
    /\ Update(w, InvoiceRow(i), version)
    /\ call' = [call EXCEPT ![w] = [Idle EXCEPT !.pc = "commit", !.docs = {i}, !.inv = i]]
    /\ UNCHANGED <<lines, applied, entries>>

Cancel(w, i) ==
    SwitchState(w, i, "posted", [live[InvoiceRow(i)] EXCEPT !.state = "cancel"])

ResetToDraft(w, i) ==
    SwitchState(w, i, "cancel", [live[InvoiceRow(i)] EXCEPT !.state = "draft", !.number = 0])

-----------------------------------------------------------------------------
(* account.move: action_post *)

\* Mutant: posting does not ask whether the invoice is still a draft.
PostAny(w, i) ==
    /\ committed[InvSequence].next <= MaxNumber
    /\ Begin(w, {i}, [Idle EXCEPT !.pc = "number", !.inv = i])

\* "Only draft entries can be posted", by a SELECT that takes no lock.
Post(w, i) ==
    /\ committed[InvSequence].next <= MaxNumber
    /\ Inv(w, i).state = "draft"
    /\ Begin(w, {i}, [Idle EXCEPT !.pc = "number", !.inv = i])

\* nextByCode(txn, "account.move.INV"): IrSequence in one step.
DrawNumber(w) ==
    /\ At(w, "number")
    /\ Update(w, InvSequence, [next |-> live[InvSequence].next + 1])
    /\ call' = [call EXCEPT ![w].amount = live[InvSequence].next, ![w].pc = "post"]
    /\ UNCHANGED <<lines, applied, entries>>

\* UPDATE account_move SET state = 'posted', name = $1 WHERE id = $2.
WritePosted(w) ==
    LET r == InvoiceRow(call[w].inv) IN
    /\ At(w, "post")
    /\ Update(w, r, [live[r] EXCEPT !.state = "posted", !.number = call[w].amount])
    /\ Goto(w, "credit")
    /\ UNCHANGED <<lines, applied, entries>>

\* The view account_payment_unallocated, ORDER BY payment_id.
Unallocated(w) ==
    SelectSeq(paymentIds, LAMBDA p : /\ Pay(w, p).state = "posted"
                                     /\ Pay(w, p).amount - AppliedFrom(w, p) > 0)

\* The payments to try next, or the end of the handler.
TryNext(w, queue) ==
    call' = [call EXCEPT ![w].queue = queue,
                         ![w].pc = IF queue = <<>> THEN "commit" ELSE "allocate"]

FindCredit(w) ==
    /\ At(w, "credit")
    /\ TryNext(w, Unallocated(w))
    /\ UNCHANGED <<dbVars, lines, applied, entries>>

-----------------------------------------------------------------------------
(* PaymentAllocation::allocate(txn, payment, ..., {invoice}) *)

\* The invoice as allocate() selects it: posted, amount_total - applied.
Open(w, i) == IF Inv(w, i).state = "posted" THEN Inv(w, i).total - AppliedTo(w, i) ELSE 0

\* Mutant: the payment is applied whole.
SliceWhole(amount, open) == amount

\* "Never apply more than the invoice still owes."
Slice(amount, open) == IF amount < open THEN amount ELSE open

\* Payment and open invoices are read, the slice is inserted.  The payment
\* starts out with its full amount, whatever was applied before.
Allocate(w) ==
    LET p == Head(call[w].queue)
        i == call[w].inv
    IN /\ At(w, "allocate")
       /\ Pay(w, p).state = "posted"
       /\ Open(w, i) # 0
       /\ call' = [call EXCEPT ![w].pc = "residual",
                     ![w].applying[<<p, i>>] = @ + Slice(Pay(w, p).amount, Open(w, i))]
       /\ UNCHANGED <<dbVars, lines, applied, entries>>

\* "Payment not found, or not posted": action_post catches it and goes on.
AllocateRefused(w) ==
    /\ At(w, "allocate")
    /\ Pay(w, Head(call[w].queue)).state # "posted"
    /\ Goto(w, "commit")
    /\ UNCHANGED <<dbVars, lines, applied, entries>>

\* Nothing is open; action_post breaks out of its loop once nothing is owed.
AllocateNothing(w) ==
    /\ At(w, "allocate")
    /\ Pay(w, Head(call[w].queue)).state = "posted"
    /\ Open(w, call[w].inv) = 0
    /\ TryNext(w, IF Inv(w, call[w].inv).residual <= 0 THEN <<>> ELSE Tail(call[w].queue))
    /\ UNCHANGED <<dbVars, lines, applied, entries>>

\* residualOf(): total minus everything applied, before the row is locked.
DeriveResidual(w) ==
    LET i == call[w].inv
        residual == Inv(w, i).total - AppliedTo(w, i)
    IN /\ At(w, "residual")
       /\ call' = [call EXCEPT ![w].pc = "refresh", ![w].amount = residual,
                     ![w].status = IF residual = 0 THEN "paid"
                                   ELSE IF residual = Inv(w, i).total THEN "not_paid"
                                   ELSE "partial"]
       /\ UNCHANGED <<dbVars, lines, applied, entries>>

WriteResidual(w) ==
    LET r == InvoiceRow(call[w].inv) IN
    /\ At(w, "refresh")
    /\ Update(w, r, [live[r] EXCEPT !.residual = call[w].amount, !.paid = call[w].status])
    /\ TryNext(w, IF call[w].amount <= 0 THEN <<>> ELSE Tail(call[w].queue))
    /\ UNCHANGED <<lines, applied, entries>>

-----------------------------------------------------------------------------
(* account.move: action_register_payment *)

\* Where in paymentIds the ids are that no INSERT has taken, and the first.
Unused == {k \in DOMAIN paymentIds : live[PaymentRow(paymentIds[k])].state = "absent"}
NextPayment == paymentIds[CHOOSE k \in Unused : \A m \in Unused : k <= m]

\* min(amount, residual) of the SELECT; nothing or nonsense means the residual.
PayAmount(amount, residual) ==
    LET capped == IF amount > 0 /\ amount < residual THEN amount ELSE residual
    IN IF capped <= 0 THEN residual ELSE capped

RegisterPayment(w, i, j, amount) ==
    /\ Inv(w, i).state = "posted"
    /\ Inv(w, i).paid # "paid"
    /\ Unused # {}
    /\ Begin(w, {i}, [Idle EXCEPT !.pc = "enter", !.inv = i, !.doc = j,
                                  !.amount = PayAmount(amount, Inv(w, i).residual)])

\* INSERT of the payment and its entry, numbered by the journal's sequence: its
\* row lock is what requests on the same journal wait for.
EnterPayment(w) ==
    LET j == call[w].doc
        p == NextPayment
        number == live[SequenceRow(j)].next
    IN /\ At(w, "enter")
       /\ Unused # {}
       /\ Write(w, [r \in {PaymentRow(p), SequenceRow(j)} |->
                      IF r = SequenceRow(j) THEN [next |-> number + 1]
                      ELSE [state |-> "posted", amount |-> call[w].amount, journal |-> j]])
       /\ call' = [call EXCEPT ![w].entering = Append(@, [journal |-> j, number |-> number, of |-> p]),
                               ![w].queue = <<p>>, ![w].pc = "allocate"]
       /\ UNCHANGED <<lines, applied, entries>>

-----------------------------------------------------------------------------
(* account.payment: action_post, action_cancel *)

\* COUNT(*) + 1 of the journal's posted entries numbers the next one.
CountedNumber(j) == Cardinality({k \in DOMAIN entries : entries[k].journal = j}) + 1

\* Mutant: posting does not ask whether the payment is still a draft.
PostAnyPayment(w, p) ==
    /\ Pay(w, p).state # "absent"
    /\ Begin(w, {p}, [Idle EXCEPT !.pc = "book", !.doc = p,
                                  !.amount = CountedNumber(Pay(w, p).journal)])

PostPayment(w, p) ==
    /\ Pay(w, p).state = "draft"
    /\ Begin(w, {p}, [Idle EXCEPT !.pc = "book", !.doc = p,
                                  !.amount = CountedNumber(Pay(w, p).journal)])

BookPayment(w) ==
    LET p == call[w].doc IN
    /\ At(w, "book")
    /\ Update(w, PaymentRow(p), [live[PaymentRow(p)] EXCEPT !.state = "posted"])
    /\ call' = [call EXCEPT ![w].pc = "commit", ![w].entering =
         Append(@, [journal |-> live[PaymentRow(p)].journal, number |-> call[w].amount, of |-> p])]
    /\ UNCHANGED <<lines, applied, entries>>

\* The entry and what was applied stay.
CancelPayment(w, p) ==
    LET r == PaymentRow(p) IN
    /\ call[w] = Idle
    /\ OneRequestPerDocument => \A v \in Worker : p \notin call[v].docs
    /\ live[r].state \in {"draft", "posted"}
    /\ Update(w, r, [live[r] EXCEPT !.state = "cancelled"])
    /\ call' = [call EXCEPT ![w] = [Idle EXCEPT !.pc = "commit", !.docs = {p}]]
    /\ UNCHANGED <<lines, applied, entries>>

-----------------------------------------------------------------------------
(* account.bank.statement.line: reconcile *)

Reconcile(w, l, i) ==
    /\ Visible(w, LineRow(l)).reconciled = NoInvoice
    /\ Inv(w, i).state = "posted"
    /\ Inv(w, i).residual > 0
    /\ Begin(w, {l, i}, [Idle EXCEPT !.pc = "clear", !.inv = i, !.doc = l])

\* GREATEST(amount_residual - amount, 0)
Cleared(residual, amount) == IF residual > amount THEN residual - amount ELSE 0

\* The bank entry and the invoice, from the version the UPDATE finds.
ClearInvoice(w) ==
    LET l == call[w].doc
        r == InvoiceRow(call[w].inv)
    IN /\ At(w, "clear")
       /\ Update(w, r, [live[r] EXCEPT
            !.residual = Cleared(live[r].residual, amountOf[l]),
            !.paid = IF live[r].residual - amountOf[l] <= 0 THEN "paid" ELSE "partial"])
       /\ call' = [call EXCEPT ![w].pc = "mark", ![w].entering =
            Append(@, [journal |-> journalOf[l], number |-> 0, of |-> l])]
       /\ UNCHANGED <<lines, applied, entries>>

\* is_reconciled; kept as the invoice it cleared, where the code stores the
\* bank entry.
MarkReconciled(w) ==
    /\ At(w, "mark")
    /\ Update(w, LineRow(call[w].doc), [reconciled |-> call[w].inv])
    /\ Goto(w, "commit")
    /\ UNCHANGED <<lines, applied, entries>>

-----------------------------------------------------------------------------
Next ==
    \E w \in Worker :
       \/ \E i \in Invoice :
             \/ \E total \in lineTotal[i] : EditLines(w, i, total)
             \/ Recompute(w, i)
             \/ Cancel(w, i)
             \/ ResetToDraft(w, i)
             \/ Post(w, i)
             \/ \E j \in Journal, amount \in Amounts : RegisterPayment(w, i, j, amount)
             \/ \E l \in StatementLine : Reconcile(w, l, i)
       \/ \E p \in Payment : PostPayment(w, p) \/ CancelPayment(w, p)
       \/ RecomputeSaved(w) \/ WriteTotals(w)
       \/ DrawNumber(w) \/ WritePosted(w) \/ FindCredit(w)
       \/ Allocate(w) \/ AllocateRefused(w) \/ AllocateNothing(w)
       \/ DeriveResidual(w) \/ WriteResidual(w)
       \/ EnterPayment(w) \/ BookPayment(w)
       \/ ClearInvoice(w) \/ MarkReconciled(w)
       \/ Commit(w) \/ Abort(w)

Spec == Init /\ [][Next]_vars

-----------------------------------------------------------------------------
\* What has been applied to an invoice, and from a payment, as committed.
AppliedSum(i) == SumFunction([p \in Payment |-> applied[<<p, i>>]])
SpentSum(p) == SumFunction([i \in Invoice |-> applied[<<p, i>>]])

\* What statement lines have cleared on an invoice.
ReconciledSum(i) ==
    SumFunction([l \in StatementLine |->
        IF committed[LineRow(l)].reconciled = i THEN amountOf[l] ELSE 0])

\* The amount due of an invoice never claims money that was not received: every
\* path that lowers it (allocation, bank reconciliation, recompute_totals) is
\* backed by an allocation or a reconciled statement line.
DebtNeverUnderstated ==
    \A i \in Invoice :
        committed[InvoiceRow(i)].residual
            >= committed[InvoiceRow(i)].total - AppliedSum(i) - ReconciledSum(i)

\* "Never apply more than the invoice still owes." (PaymentAllocation.cpp)
\* Advances found by action_post and payments registered on the invoice add up.
NeverOverApplied ==
    \A i \in Invoice : AppliedSum(i) <= committed[InvoiceRow(i)].total

EntriesOf(d) == {k \in DOMAIN entries : entries[k].of = d}

\* A posted payment, and a reconciled statement line, moved money in the ledger
\* exactly once; what was never posted did not, and nothing of it is applied.
MoneyMovesOnce ==
    /\ \A p \in Payment :
          LET state == committed[PaymentRow(p)].state IN
          /\ Cardinality(EntriesOf(p)) <= 1
          /\ state = "posted" => EntriesOf(p) # {}
          /\ state \in {"absent", "draft"} => EntriesOf(p) = {}
          /\ SpentSum(p) # 0 => EntriesOf(p) # {}
    /\ \A l \in StatementLine :
          Cardinality(EntriesOf(l)) = IF committed[LineRow(l)].reconciled = NoInvoice THEN 0 ELSE 1

\* A posted invoice keeps its number, and shares it with no other: "concurrent
\* posts serialise, and the allocation rolls back with the post if it fails -
\* gapless" (AccountModule.cpp, action_post).
NumbersKept ==
    [][\A i \in Invoice :
          LET before == committed[InvoiceRow(i)]
              after == committed'[InvoiceRow(i)]
          IN /\ before.state # "draft" /\ after.state # "draft" => after.number = before.number
             /\ \A k \in Invoice \ {i} :
                   after.number # 0 => committed'[InvoiceRow(k)].number # after.number]_vars

\* "An unallocated credit" is what is left of a payment (PaymentAllocation.hpp):
\* what is applied of a payment, to one invoice and later to others, is never
\* more than what was paid.
CreditWithinPayment ==
    \A p \in Payment :
        SpentSum(p) # 0 => SpentSum(p) <= committed[PaymentRow(p)].amount

\* "Allocations are now rows, and residual is DERIVED from them, so the two
\* cannot disagree." (PaymentAllocation.hpp)
ResidualFromAllocations ==
    \A i \in Invoice :
        committed[InvoiceRow(i)].residual = committed[InvoiceRow(i)].total - AppliedSum(i)
=============================================================================
