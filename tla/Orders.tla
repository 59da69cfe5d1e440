------------------------------- MODULE Orders -------------------------------
(***************************************************************************)
(* Sales and purchase orders from the first line to the last invoice:      *)
(* modules/sale/SaleModule.cpp and its mirror PurchaseModule.cpp, with the *)
(* way the order forms of web/static/src/app.js call them.  One step is    *)
(* one SQL statement, as in StockTransfers; a line is saved in several     *)
(* transactions of its own.  Stored amounts are micro-units, what a        *)
(* request carries are major units.  A purchase bill is an invoice here.   *)
(***************************************************************************)
EXTENDS ReadCommitted, Integers, Sequences, FiniteSets, FiniteSetsExt

CONSTANTS Order, Line,
          kind,        \* "sale" or "purchase", per order
          orderOf,     \* the order of a line
          Typed,       \* what a new line may hold: [qty, price], major units
          Sent,        \* what a write may carry, per order: 0 is a field not sent
          Amounts,     \* the amounts of down payments, major units
          Micros,      \* micro-units of one major unit
          MaxStored,   \* bound: no write over a line that stores more
          MaxInvoices, \* bound: invoices raised, per order
          Exclusive,   \* the orders on which no two requests overlap
          CarefulEdits,   \* there, no save of the form stops half way, and the
                          \* last line is never deleted
          ThroughForm, \* the orders billed with the buttons of the form alone
          NoOrder, NoLine

OrderRow(o) == <<"order", o>>
LineRow(l) == <<"line", l>>
SequenceRow(k) == <<"sequence", k>>

OrderRows ==
    {OrderRow(o) : o \in Order} \cup {LineRow(l) : l \in Line}
    \cup {SequenceRow(k) : k \in {"sale", "purchase"}}

ASSUME OrdersAssumption ==
    /\ Row = OrderRows
    /\ kind \in [Order -> {"sale", "purchase"}]
    /\ orderOf \in [Line -> Order]
    /\ Typed \subseteq [qty : Nat \ {0}, price : Nat \ {0}]
    /\ \A o \in Order : Sent[o] \subseteq [qty : Nat, price : Nat]
    /\ Amounts \subseteq Nat \ {0}
    /\ Micros \in Nat \ {0}
    /\ MaxStored \in Nat /\ MaxInvoices \in [Order -> Nat]
    /\ Exclusive \subseteq Order /\ ThroughForm \subseteq Order

VARIABLES deliveries, \* the pickings of an order: the lines they move, with quantity
          invoices,   \* the account_move rows of an order, in the order of their id
          call        \* per worker, the request it serves

vars == <<dbVars, deliveries, invoices, call>>

-----------------------------------------------------------------------------
NoLineRow == [present |-> FALSE, qty |-> 0, price |-> 0, subtotal |-> 0]

Idle == [pc |-> "idle", order |-> NoOrder, line |-> NoLine, sent |-> [qty |-> 0, price |-> 0],
         copy |-> NoLineRow, total |-> 0, kind |-> "", raising |-> <<>>, shipping |-> <<>>]

At(w, pc) == call[w].pc = pc
Goto(w, pc) == call' = [call EXCEPT ![w].pc = pc]

Ord(w, o) == Visible(w, OrderRow(o))
Lin(w, l) == Visible(w, LineRow(l))

\* SELECT ... FROM sale_order_line WHERE order_id = o
LinesOf(w, o) == {l \in Line : orderOf[l] = o /\ Lin(w, l).present}
SumOfLines(w, o) == MapThenSumSet(LAMBDA l : Lin(w, l).subtotal, LinesOf(w, o))

\* A request on order o goes on at statement pc.
Begin(w, o, pc, request) ==
    /\ call[w] = Idle
    /\ o \in Exclusive => \A v \in Worker : call[v].order # o
    /\ call' = [call EXCEPT ![w] = [request EXCEPT !.order = o, !.pc = pc]]
    /\ UNCHANGED <<dbVars, deliveries, invoices>>

\* A transaction of one UPDATE, committed at once.
WriteAlone(r, version) ==
    /\ lock[r] = NoTxn
    /\ committed' = [committed EXCEPT ![r] = version]
    /\ live' = [live EXCEPT ![r] = version]
    /\ UNCHANGED lock

Init ==
    /\ committed = [r \in Row |->
         CASE r[1] = "order" -> [state |-> "draft", status |-> "nothing", total |-> 0]
           [] r[1] = "line" -> NoLineRow
           [] r[1] = "sequence" -> [code |-> r[2]]]
    /\ live = committed
    /\ lock = [r \in Row |-> NoTxn]
    /\ deliveries = [o \in Order |-> <<>>]
    /\ invoices = [o \in Order |-> <<>>]
    /\ call = [w \in Worker |-> Idle]

\* txn.commit(): what the request inserted becomes visible with its updates.
Commit(w) ==
    /\ At(w, "commit")
    /\ CommitTxn(w)
    /\ deliveries' = [deliveries EXCEPT ![call[w].order] = @ \o call[w].shipping]
    /\ invoices' = [invoices EXCEPT ![call[w].order] = @ \o call[w].raising]
    /\ call' = [call EXCEPT ![w] = Idle]

\* A statement that fails (a double of 1e+07 is no BIGINT), a lost connection,
\* a closed browser.
Abort(w) ==
    /\ call[w] # Idle
    /\ CarefulEdits /\ call[w].order \in Exclusive =>
         Ord(NoTxn, call[w].order).total = SumOfLines(NoTxn, call[w].order)
    /\ RollbackTxn(w)
    /\ call' = [call EXCEPT ![w] = Idle]
    /\ UNCHANGED <<deliveries, invoices>>

-----------------------------------------------------------------------------
(* the lines of an order: create, write, unlink and the form's syncLines *)

\* What create() stores of the typed values.
Stored(v) == [present |-> TRUE, qty |-> v.qty * Micros, price |-> v.price * Micros,
              subtotal |-> v.qty * v.price * Micros]

\* Mutant: a new line leaves the order's total as it is.
CreateLineAlone(w, l, v) ==
    /\ call[w] = Idle
    /\ orderOf[l] \in Exclusive => \A u \in Worker : call[u].order # orderOf[l]
    /\ ~Lin(w, l).present
    /\ WriteAlone(LineRow(l), Stored(v))
    /\ UNCHANGED <<deliveries, invoices, call>>

\* handleCreate: the amounts are computed before the INSERT, which commits.
CreateLine(w, l, v) ==
    /\ call[w] = Idle
    /\ orderOf[l] \in Exclusive => \A u \in Worker : call[u].order # orderOf[l]
    /\ ~Lin(w, l).present
    /\ WriteAlone(LineRow(l), Stored(v))
    /\ call' = [call EXCEPT ![w] = [Idle EXCEPT !.pc = "sum", !.order = orderOf[l], !.line = l]]
    /\ UNCHANGED <<deliveries, invoices>>

\* handleWrite, its first transaction: the current values.
ReadLine(w, l, v) ==
    LET row == Lin(w, l) IN
    /\ row.present
    /\ (v.qty = 0 => row.qty <= MaxStored) /\ (v.price = 0 => row.price <= MaxStored)
    /\ call[w] = Idle => Begin(w, orderOf[l], "write", [Idle EXCEPT !.line = l, !.sent = v, !.copy = row])
    /\ call[w] # Idle =>
         /\ At(w, "sync") /\ orderOf[l] = call[w].order
         /\ call' = [call EXCEPT ![w].pc = "write", ![w].line = l, ![w].sent = v, ![w].copy = row]
         /\ UNCHANGED <<dbVars, deliveries, invoices>>

\* Mutant: only the fields that were sent are written, with the new subtotal.
MergedSent(row, copy, sent) ==
    LET qty == IF sent.qty = 0 THEN copy.qty ELSE sent.qty
        price == IF sent.price = 0 THEN copy.price ELSE sent.price
    IN [row EXCEPT !.qty = IF sent.qty = 0 THEN row.qty ELSE qty * Micros,
                   !.price = IF sent.price = 0 THEN row.price ELSE price * Micros,
                   !.subtotal = qty * price * Micros]

\* The values read are micro-units but are merged with, and computed and
\* stored like, the major units of the request.
Merged(row, copy, sent) ==
    Stored([qty |-> IF sent.qty = 0 THEN copy.qty ELSE sent.qty,
            price |-> IF sent.price = 0 THEN copy.price ELSE sent.price])

\* proto.write of the merged values; a line deleted meanwhile is no error.
WriteLine(w) ==
    LET c == call[w]
        row == Lin(w, c.line)
    IN /\ At(w, "write")
       /\ IF row.present
          THEN WriteAlone(LineRow(c.line), Merged(row, c.copy, c.sent))
          ELSE UNCHANGED dbVars
       /\ Goto(w, "sum")
       /\ UNCHANGED <<deliveries, invoices>>

\* updateOrderTotals_: the subqueries see the lines of the moment the UPDATE
\* starts, also when it then waits for the order's row.
SumLines(w) ==
    /\ At(w, "sum")
    /\ call' = [call EXCEPT ![w].pc = "total", ![w].total = SumOfLines(w, call[w].order)]
    /\ UNCHANGED <<dbVars, deliveries, invoices>>

WriteTotal(w) ==
    LET r == OrderRow(call[w].order) IN
    /\ At(w, "total")
    /\ WriteAlone(r, [live[r] EXCEPT !.total = call[w].total])
    /\ call' = [call EXCEPT ![w] = Idle]
    /\ UNCHANGED <<deliveries, invoices>>

\* syncLines deletes what was removed from the form, then writes every line
\* that is left.  unlink is the generic one: it refreshes no total.
DeleteLine(w, l) ==
    /\ Lin(w, l).present
    /\ lock[LineRow(l)] = NoTxn
    /\ CarefulEdits /\ orderOf[l] \in Exclusive => LinesOf(w, orderOf[l]) # {l}
    /\ call[w] = Idle
    /\ orderOf[l] \in Exclusive => \A v \in Worker : call[v].order # orderOf[l]
    /\ WriteAlone(LineRow(l), NoLineRow)
    /\ call' = [call EXCEPT ![w] = [Idle EXCEPT !.pc = "sync", !.order = orderOf[l]]]
    /\ UNCHANGED <<deliveries, invoices>>

NothingToSync(w) ==
    /\ At(w, "sync") /\ LinesOf(w, call[w].order) = {}
    /\ call' = [call EXCEPT ![w] = Idle]
    /\ UNCHANGED <<dbVars, deliveries, invoices>>

-----------------------------------------------------------------------------
(* action_confirm and action_cancel *)

\* Mutant: what is not confirmed can be confirmed.
ConfirmableUnlessSold(state) == state # "sale"

Confirmable(state) == state = "draft"

Confirm(w, o) ==
    /\ Confirmable(Ord(w, o).state)
    /\ Begin(w, o, "number", Idle)

\* nextByCode locks the row of the sequence until the end of the transaction.
DrawNumber(w) ==
    LET r == SequenceRow(kind[call[w].order]) IN
    /\ At(w, "number")
    /\ Write(w, [s \in {r} |-> live[r]])
    /\ Goto(w, "state")
    /\ UNCHANGED <<deliveries, invoices>>

\* The UPDATE names the row by its id alone.
SetState(w, pc, state, next) ==
    LET r == OrderRow(call[w].order) IN
    /\ At(w, pc)
    /\ Write(w, [s \in {r} |-> [live[r] EXCEPT !.state = state]])
    /\ Goto(w, next)
    /\ UNCHANGED <<deliveries, invoices>>

\* INSERT of the picking, and INSERT of its moves SELECTed from the lines.
Deliver(w) ==
    LET o == call[w].order IN
    /\ At(w, "deliver")
    /\ call' = [call EXCEPT ![w].pc = "commit",
                            ![w].shipping = <<[l \in LinesOf(w, o) |-> Lin(w, l).qty]>>]
    /\ UNCHANGED <<dbVars, deliveries, invoices>>

\* Neither the picking nor the invoices of the order are touched.
Cancel(w, o) ==
    /\ Ord(w, o).state # "cancel"
    /\ Begin(w, o, "cancel", Idle)

-----------------------------------------------------------------------------
(* the invoices of an order *)

\* The buttons that showCreateInvoice, showProgressInvoice and showBillActions
\* leave; they look at the status of the order alone.
FormOffers(o, what) ==
    LET status == committed[OrderRow(o)].status IN
    /\ status # "invoiced"
    /\ kind[o] = "sale" /\ what = "full" => status # "to invoice"
    /\ kind[o] = "sale" /\ what = "final" => status = "to invoice"

\* Every one of them asks for the state and for nothing else.
Raise(w, o, what, pc, request) ==
    /\ Ord(w, o).state = "sale"
    /\ Len(invoices[o]) < MaxInvoices[o]
    /\ o \in ThroughForm => FormOffers(o, what)
    /\ Begin(w, o, pc, [request EXCEPT !.kind = what, !.total = Ord(w, o).total])

Draft(what, total, credited) ==
    [kind |-> what, total |-> total, lines |-> credited, state |-> "draft"]

\* action_create_invoices and action_create_bills: the header first, ...
CreateInvoice(w, o) == Raise(w, o, "full", "lines", Idle)

\* ... then the lines, as a second SELECT finds them.
InvoiceLines(w) ==
    LET c == call[w] IN
    /\ At(w, "lines")
    /\ call' = [call EXCEPT ![w].pc = "status",
                            ![w].raising = <<Draft("full", c.total, SumOfLines(w, c.order))>>]
    /\ UNCHANGED <<dbVars, deliveries, invoices>>

\* action_create_down_payment, also called action_create_progress_payment: the
\* amount typed goes into the micro-unit columns as it is.
CreateDownPayment(w, o, amount) ==
    Raise(w, o, "down", "status", [Idle EXCEPT !.raising = <<Draft("down", amount, amount)>>])

\* action_create_final_invoice, of sales orders only
CreateFinal(w, o) == kind[o] = "sale" /\ Raise(w, o, "final", "remaining", Idle)

\* order total less SUM(amount_total) of its posted invoices
Remaining(o, total) ==
    total - MapThenSumSet(LAMBDA i : invoices[o][i].total,
                          {i \in DOMAIN invoices[o] : invoices[o][i].state = "posted"})

\* "No remaining balance" is thrown otherwise: Abort.
FinalInvoice(w) ==
    LET rest == Remaining(call[w].order, call[w].total) IN
    /\ At(w, "remaining")
    /\ rest > 0
    /\ call' = [call EXCEPT ![w].pc = "status", ![w].raising = <<Draft("final", rest, rest)>>]
    /\ UNCHANGED <<dbVars, deliveries, invoices>>

\* The status once an invoice of that kind is raised; a purchase says 'billed'.
StatusOf(what) == IF what = "down" THEN "to invoice" ELSE "invoiced"


\* WHERE invoice_status = 'nothing', of a down payment alone.
Moves(what, status) == what = "down" => status = "nothing"

\* UPDATE of invoice_status
SetStatus(w) ==
    LET c == call[w]
        r == OrderRow(c.order)
        hit == {s \in {r} : Moves(c.kind, Visible(w, s).status)}
    IN /\ At(w, "status")
       /\ Write(w, [s \in hit |-> [live[s] EXCEPT !.status = StatusOf(c.kind)]])
       /\ Goto(w, "commit")
       /\ UNCHANGED <<deliveries, invoices>>

\* What validating a picking of the order does to it once every line is
\* delivered: 'to_invoice', or 'to_bill', whatever was billed before.  The rest
\* of the transfer is StockTransfers; its request is none on the order.
Delivered(o) ==
    LET r == OrderRow(o) IN
    /\ deliveries[o] # <<>>
    /\ committed[r].state = "sale"
    /\ WriteAlone(r, [live[r] EXCEPT !.status = "delivered"])
    /\ UNCHANGED <<deliveries, invoices, call>>

\* action_post, button_cancel and button_draft of account.move, whole requests here and taken
\* apart in Invoicing.  Only entries of type 'entry' are checked for balance.
InvoiceState(o, i, from, to) ==
    /\ invoices[o][i].state \in from
    /\ o \in Exclusive => \A v \in Worker : call[v].order # o
    /\ invoices' = [invoices EXCEPT ![o][i].state = to]
    /\ UNCHANGED <<dbVars, deliveries, call>>

PostInvoice(o, i) == InvoiceState(o, i, {"draft"}, "posted")
CancelInvoice(o, i) == InvoiceState(o, i, {"posted"}, "cancel")
ResetInvoice(o, i) == InvoiceState(o, i, {"cancel"}, "draft")

-----------------------------------------------------------------------------
Editing(w) ==
    \/ \E l \in Line :
          \/ \E v \in Typed : CreateLine(w, l, v)
          \/ \E v \in Sent[orderOf[l]] : ReadLine(w, l, v)
          \/ DeleteLine(w, l)
    \/ WriteLine(w) \/ SumLines(w) \/ WriteTotal(w) \/ NothingToSync(w)

Ordering(w) ==
    \/ \E o \in Order : Confirm(w, o) \/ Cancel(w, o)
    \/ DrawNumber(w)
    \/ SetState(w, "state", "sale", "deliver")
    \/ Deliver(w)
    \/ SetState(w, "cancel", "cancel", "commit")

Billing(w) ==
    \/ \E o \in Order :
          \/ CreateInvoice(w, o) \/ CreateFinal(w, o)
          \/ \E a \in Amounts : CreateDownPayment(w, o, a)
    \/ InvoiceLines(w) \/ FinalInvoice(w) \/ SetStatus(w)

Next ==
    \/ \E w \in Worker : Editing(w) \/ Ordering(w) \/ Billing(w) \/ Commit(w) \/ Abort(w)
    \/ \E o \in Order :
          \/ Delivered(o)
          \/ \E i \in DOMAIN invoices[o] :
                PostInvoice(o, i) \/ CancelInvoice(o, i) \/ ResetInvoice(o, i)

Spec == Init /\ [][Next]_vars

-----------------------------------------------------------------------------
\* Whatever saves of a line interleave, and although each reads the line in one
\* transaction and writes it in another, its subtotal is that of the quantity
\* and the price stored beside it (SaleOrderLineViewModel::handleWrite).
LineAmountsAgree ==
    \A l \in Line : committed[LineRow(l)].subtotal * Micros
                      = committed[LineRow(l)].qty * committed[LineRow(l)].price

\* Confirming, cancelling, editing and billing an order in any sequence creates
\* at most one delivery (action_confirm), if its requests do not overlap.
OneDelivery == \A o \in Exclusive : Len(deliveries[o]) <= 1

\* "Every entry balances": what an invoice debits to the receivable, taken from
\* the order's header, is what its lines credit, taken from the order's lines
\* (action_create_invoices), whatever was saved before.
InvoicesBalance ==
    \A o \in Exclusive : \A i \in DOMAIN invoices[o] :
        invoices[o][i].total = invoices[o][i].lines


\* "Mark order as invoiced (full invoice - disables further Create Invoice)"
\* (action_create_invoices): the form raises one full or final invoice.
OneFullInvoice ==
    \A o \in Exclusive \cap ThroughForm :
        Cardinality({i \in DOMAIN invoices[o] : invoices[o][i].kind # "down"}) <= 1
=============================================================================
