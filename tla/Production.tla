----------------------------- MODULE Production -----------------------------
(***************************************************************************)
(* Manufacturing and what it does to the value of stock: the production    *)
(* and work orders of modules/mrp/MrpModule.cpp, the valuation layers of   *)
(* core/StockQuant.cpp, and the landed costs and the reorder scheduler of  *)
(* modules/stock/StockModule.cpp.  One step is one data-changing statement *)
(* with the SELECTs directly before it.  Of the quants only those of       *)
(* WH/Stock are kept: no virtual location is read.  Quantities are whole   *)
(* units, values and prices whole micro-units of one unit.                 *)
(***************************************************************************)
EXTENDS ReadCommitted, Integers, Sequences, FiniteSets, FiniteSetsExt

CONSTANTS Product, Order,
          Operation,  \* the operations of the bills of materials
          makes,      \* product_id of a production order
          needs,      \* the bill of a product: units of each for one of it
          operations, \* the operations of the bill
          method,     \* cost_method: "standard", "average" or "fifo"
          price,      \* standard_price at the start
          rule,       \* the reordering rules: [min, max, multiple] by product
          Batch,      \* the quantities people order or move
          Costs,      \* the prices receipts are valued at, the landed costs
          MaxDocuments, \* bound: receipts, deliveries and landed costs
          MaxOrder,   \* bound: the quantity one reordering drafts
          OneRequestPerOrder, \* confirm, mark done and cancel of one order
                              \* never run at once
          LandedAlone,  \* no landed cost of a product that is being moved
          ReorderAlone, \* one reorder run at a time, and none of a product
                        \* that is being made
          NoOrder, NoProduct, NoRule

QuantRow(p) == <<"quant", p>>
ProductRow(p) == <<"product", p>>
OrderRow(o) == <<"order", o>>
MoveRow(o, p) == <<"move", o, p>>
WorkRow(o, k) == <<"work", o, k>>
SequenceRow == <<"sequence">>

ProductionRows ==
    {QuantRow(p) : p \in Product} \cup {ProductRow(p) : p \in Product}
    \cup {OrderRow(o) : o \in Order} \cup {SequenceRow}
    \cup {MoveRow(o, p) : o \in Order, p \in Product}
    \cup {WorkRow(o, k) : o \in Order, k \in Operation}

ASSUME ProductionAssumption ==
    /\ Row = ProductionRows
    /\ IsFiniteSet(Order)
    /\ makes \in [Order -> Product]
    /\ needs \in [Product -> [Product -> Nat]]
    /\ \A p \in Product : needs[p][p] = 0
    /\ operations \in [Product -> SUBSET Operation]
    /\ method \in [Product -> {"standard", "average", "fifo"}]
    /\ price \in [Product -> Nat]
    /\ \A p \in Product : rule[p] = NoRule
                          \/ rule[p] \in [min : Nat, max : Nat, multiple : Nat]
    /\ Batch \subseteq Nat \ {0} /\ Costs \subseteq Nat \ {0}
    /\ MaxDocuments \in Nat /\ MaxOrder \in Nat
    /\ NoOrder \notin Order /\ NoProduct \notin Product

VARIABLES layers, \* stock_valuation_layer: the sum of a product's committed ones
          flow,   \* per product, units committed transfers brought less those
                  \* they took
          received, \* the products of committed receipts
          documents, \* receipts, deliveries and landed costs so far
          call    \* per worker, the request it serves

history == <<layers, flow, received, documents>>
vars == <<dbVars, history, call>>

-----------------------------------------------------------------------------
Zero == [qty |-> 0, value |-> 0]
NoCopy == [quantity |-> 0, value |-> 0, price |-> 0, fifo |-> <<>>]
Idle == [method |-> "", pc |-> "idle", order |-> NoOrder, product |-> NoProduct,
         todo |-> {}, qty |-> 0, cost |-> -1, worth |-> 0, left |-> 0, drawn |-> 0,
         copy |-> NoCopy, out |-> [p \in Product |-> Zero]]

At(w, pc) == call[w].pc = pc
Goto(w, pc) == call' = [call EXCEPT ![w].pc = pc]

\* The products a request moves, values or counts.
Touches(c, p) ==
    \/ c.product = p
    \/ c.method = "done" /\ (makes[c.order] = p \/ needs[makes[c.order]][p] > 0)

Workflow == {"confirm", "done", "cancel"}

\* What callers are assumed to keep apart.  Two confirms of one order always
\* are, since the rows of its moves stand for one explosion.
Bars(c, d) ==
    \/ /\ c.order = d.order /\ c.order # NoOrder
       /\ \/ c.method = "confirm" /\ d.method = "confirm"
          \/ OneRequestPerOrder /\ c.method \in Workflow /\ d.method \in Workflow
    \/ LandedAlone /\ c.method = "land" /\ Touches(d, c.product)
    \/ ReorderAlone /\ c.method = "reorder" /\ d.method \in {"reorder", "done"} /\ Touches(d, c.product)

Begin(w, pc, request) ==
    /\ call[w] = Idle
    /\ \A v \in Worker : ~Bars(request, call[v]) /\ ~Bars(call[v], request)
    /\ call' = [call EXCEPT ![w] = [request EXCEPT !.pc = pc]]

\* UPDATE ... SET state WHERE state IN from: a row that does not match is passed
\* over, one that does is waited for and looked at again.
MoveStates(w, rows, from, to) ==
    Write(w, [r \in {s \in rows : Visible(w, s) \in from} |-> to])

OrderState(w, o, from, to) ==
    Write(w, [r \in {s \in {OrderRow(o)} : Visible(w, s).state \in from}
                 |-> [live[r] EXCEPT !.state = to]])

-----------------------------------------------------------------------------
NoOrderRow == [state |-> "none", qty |-> 0]

Init ==
    /\ committed = [r \in Row |->
         CASE r[1] = "quant" -> 0
           [] r[1] = "product" -> [NoCopy EXCEPT !.price = price[r[2]]]
           [] r[1] = "order" -> NoOrderRow
           [] OTHER -> "none"]
    /\ live = committed
    /\ lock = [r \in Row |-> NoTxn]
    /\ layers = [p \in Product |-> Zero]
    /\ flow = [p \in Product |-> 0]
    /\ received = {}
    /\ documents = 0
    /\ call = [w \in Worker |-> Idle]

Commit(w) ==
    /\ At(w, "commit")
    /\ CommitTxn(w)
    /\ layers' = [p \in Product |-> [qty |-> layers[p].qty + call[w].out[p].qty,
                                     value |-> layers[p].value + call[w].out[p].value]]
    /\ flow' = [p \in Product |->
         IF p = call[w].product /\ call[w].method \in {"receive", "deliver"}
         THEN flow[p] + call[w].out[p].qty ELSE flow[p]]
    /\ received' = IF call[w].method = "receive" THEN received \cup {call[w].product} ELSE received
    /\ call' = [call EXCEPT ![w] = Idle]
    /\ UNCHANGED documents

\* A statement that fails, a deadlock, a lost connection, a server that stops.
Abort(w) ==
    /\ call[w] # Idle
    /\ RollbackTxn(w)
    /\ call' = [call EXCEPT ![w] = Idle]
    /\ UNCHANGED history

-----------------------------------------------------------------------------
(* applyMove and the valuation layers: product, qty and cost of the call *)

\* C++ division rounds towards zero.
Quotient(a, b) == IF a < 0 THEN -((-a) \div b) ELSE a \div b

\* upsertDelta of WH/Stock.
Moved(w, p, n) == Write(w, [r \in {QuantRow(p)} |-> live[r] + n])

\* Mutant: the product is read once for all the moves of a request.
RefreshOnHandOnce(w) ==
    /\ At(w, "onhand")
    /\ Write(w, [r \in {ProductRow(call[w].product)} |-> live[r]])
    /\ call' = [call EXCEPT ![w].pc = "layers",
                            ![w].copy = IF @ = NoCopy THEN live[ProductRow(call[w].product)] ELSE @,
                            ![w].left = IF call[w].qty < 0 THEN -call[w].qty ELSE 0]
    /\ UNCHANGED history

\* refreshProductOnHand locks the product's row, which makes the SELECT of its
\* caches by valuateMove_ the last word on them.
RefreshOnHand(w) ==
    /\ At(w, "onhand")
    /\ Write(w, [r \in {ProductRow(call[w].product)} |-> live[r]])
    /\ call' = [call EXCEPT ![w].pc = "layers", ![w].copy = live[ProductRow(call[w].product)],
                            ![w].left = IF call[w].qty < 0 THEN -call[w].qty ELSE 0]
    /\ UNCHANGED history

\* first in, first out: the oldest layer with something left gives what it has.
TakeLayer(w) ==
    LET c == call[w]
        r == ProductRow(c.product)
        old == Head(live[r].fifo)
        take == IF old.qty < c.left THEN old.qty ELSE c.left
        portion == (old.value * take) \div old.qty
        rest == IF take = old.qty THEN Tail(live[r].fifo)
                ELSE <<[qty |-> old.qty - take, value |-> old.value - portion]>> \o Tail(live[r].fifo)
    IN /\ At(w, "layers")
       /\ method[c.product] = "fifo" /\ c.left > 0 /\ live[r].fifo # <<>>
       /\ Write(w, [s \in {r} |-> [live[s] EXCEPT !.fifo = rest]])
       /\ call' = [call EXCEPT ![w].left = @ - take, ![w].drawn = @ + portion]
       /\ UNCHANGED history

\* What the layer of the move is worth: in at the given cost or at the standard
\* price, out at the layers taken and the standard price of the rest.
LayerValue(c) ==
    IF c.qty > 0 THEN c.qty * (IF c.cost >= 0 THEN c.cost ELSE c.copy.price)
                 ELSE -(c.drawn + c.left * c.copy.price)

\* The standard price from then on: of an average-cost product, what one is worth.
NewPrice(c, old, quantity, value) ==
    IF method[c.product] = "average" /\ c.qty >= 0 /\ quantity > 0
    THEN Quotient(value, quantity) ELSE old

\* INSERT of the layer, and UPDATE of the caches to what was read plus the move.
WriteCaches(w) ==
    LET c == call[w]
        r == ProductRow(c.product)
        v == LayerValue(c)
        quantity == c.copy.quantity + c.qty
        value == c.copy.value + v
    IN /\ At(w, "layers")
       /\ method[c.product] = "fifo" => c.left = 0 \/ live[r].fifo = <<>>
       /\ Write(w, [s \in {r} |->
             [quantity |-> quantity, value |-> value, price |-> NewPrice(c, live[s].price, quantity, value),
              fifo |-> IF method[c.product] = "fifo" /\ c.qty > 0
                       THEN Append(live[r].fifo, [qty |-> c.qty, value |-> v]) ELSE live[r].fifo]])
       /\ call' = [call EXCEPT ![w].pc = IF c.method = "done" THEN "move" ELSE "commit",
                               ![w].out[c.product] = [qty |-> @.qty + c.qty, value |-> @.value + v]]
       /\ UNCHANGED history

-----------------------------------------------------------------------------
(* transfers and landed costs *)

Document(w, m, pc, p, request) ==
    /\ documents < MaxDocuments
    /\ documents' = documents + 1
    /\ Begin(w, pc, [request EXCEPT !.method = m, !.product = p])
    /\ UNCHANGED <<layers, flow, received>>

\* Validating a receipt, at its purchase price, and a delivery (StockTransfers
\* takes both apart).  What a rule reorders is made, not bought.
Receive(w, p, n, c) ==
    /\ rule[p] = NoRule
    /\ Moved(w, p, n)
    /\ Document(w, "receive", "onhand", p, [Idle EXCEPT !.qty = n, !.cost = c])

Deliver(w, p, n) ==
    /\ Moved(w, p, -n)
    /\ Document(w, "deliver", "onhand", p, [Idle EXCEPT !.qty = -n])

\* button_validate of a landed cost on a done receipt; revalue reads the caches
\* without a lock and inserts its layer.
Land(w, p, v) ==
    /\ p \in received
    /\ Document(w, "land", "revalue", p,
                [Idle EXCEPT !.worth = v, !.copy = Visible(w, ProductRow(p)),
                             !.out[p] = [qty |-> 0, value |-> v]])
    /\ UNCHANGED dbVars

\* The added value over the layers with something left, the last one taking
\* what the divisions lose.
Spread(fifo, v) ==
    LET total == MapThenSumSet(LAMBDA i : fifo[i].qty, DOMAIN fifo)
        share(i) == (v * fifo[i].qty) \div total
        others == DOMAIN fifo \ {Len(fifo)}
    IN [i \in DOMAIN fifo |->
          [fifo[i] EXCEPT !.value = @ + IF i \in others THEN share(i)
                                        ELSE v - MapThenSumSet(share, others)]]

Revalue(w) ==
    LET c == call[w]
        r == ProductRow(c.product)
        value == c.copy.value + c.worth
    IN /\ At(w, "revalue")
       /\ Write(w, [s \in {r} |->
             [live[s] EXCEPT !.value = value,
                             !.price = NewPrice(c, @, c.copy.quantity, value),
                             !.fifo = IF method[c.product] = "fifo" THEN Spread(@, c.worth) ELSE @]])
       /\ Goto(w, "commit")
       /\ UNCHANGED history

-----------------------------------------------------------------------------
(* production orders *)

\* create of the form and action_replenish of the schedule.
Plan(w, o, n) ==
    LET r == OrderRow(o)
        row == [state |-> "draft", qty |-> n]
    IN /\ rule[makes[o]] = NoRule
       /\ lock[r] = NoTxn /\ live[r].state = "none"
       /\ committed' = [committed EXCEPT ![r] = row]
       /\ live' = [live EXCEPT ![r] = row]
       /\ UNCHANGED <<lock, history, call>>

Components(o) == {p \in Product : needs[makes[o]][p] > 0}
RawRows(o) == {MoveRow(o, p) : p \in Components(o)}
MoveRows(o) == RawRows(o) \cup {MoveRow(o, makes[o])}
WorkRows(o) == {WorkRow(o, k) : k \in operations[makes[o]]}

For(m, o) == [Idle EXCEPT !.method = m, !.order = o]

Confirm(w, o) ==
    /\ Visible(w, OrderRow(o)).state = "draft"
    /\ Begin(w, "explode", For("confirm", o))
    /\ UNCHANGED <<dbVars, history>>

\* INSERT of the moves of components and product and of the work orders.
Explode(w) ==
    LET o == call[w].order IN
    /\ At(w, "explode")
    /\ Write(w, [r \in MoveRows(o) \cup WorkRows(o) |-> IF r \in MoveRows(o) THEN "confirmed" ELSE "ready"])
    /\ Goto(w, "number")
    /\ UNCHANGED history

DrawNumber(w) ==
    /\ At(w, "number")
    /\ Write(w, [r \in {SequenceRow} |-> live[r]])
    /\ Goto(w, "confirmed")
    /\ UNCHANGED history

\* The UPDATE names the order by its id alone.
SetState(w, state) ==
    LET r == OrderRow(call[w].order) IN
    /\ At(w, state)
    /\ Write(w, [s \in {r} |-> [live[s] EXCEPT !.state = state]])
    /\ Goto(w, "commit")
    /\ UNCHANGED history

\* Mutant: only what is in progress counts as open.
OpenWorkStarted(w, o) == {r \in WorkRows(o) : Visible(w, r) = "progress"}

OpenWork(w, o) == {r \in WorkRows(o) : Visible(w, r) \in {"ready", "progress"}}

\* The state, the work orders and the moves of the components, by SELECTs.
MarkDone(w, o) ==
    /\ Visible(w, OrderRow(o)).state \in {"confirmed", "progress", "to_close"}
    /\ OpenWork(w, o) = {}
    /\ Begin(w, "raw", [For("done", o) EXCEPT
         !.todo = {p \in Components(o) : Visible(w, MoveRow(o, p)) = "confirmed"}])
    /\ UNCHANGED <<dbVars, history>>

\* A component leaves WH/Stock, worth its standard price of this moment.
ConsumeRaw(w, p) ==
    LET o == call[w].order
        n == live[OrderRow(o)].qty * needs[makes[o]][p]
    IN /\ At(w, "raw")
       /\ p \in call[w].todo
       /\ Moved(w, p, -n)
       /\ call' = [call EXCEPT ![w].pc = "onhand", ![w].todo = @ \ {p}, ![w].product = p,
                               ![w].qty = -n, ![w].drawn = 0,
                               ![w].worth = @ + n * Visible(w, ProductRow(p)).price]
       /\ UNCHANGED history

\* The product comes in at the components' worth, unless its move was cancelled.
ProduceFinished(w) ==
    LET o == call[w].order
        p == makes[o]
        n == live[OrderRow(o)].qty
    IN /\ At(w, "raw")
       /\ call[w].todo = {}
       /\ IF Visible(w, MoveRow(o, p)) = "confirmed"
          THEN /\ Moved(w, p, n)
               /\ call' = [call EXCEPT ![w].pc = "onhand", ![w].product = p, ![w].qty = n,
                                       ![w].cost = Quotient(call[w].worth, n)]
          ELSE Goto(w, "done") /\ UNCHANGED dbVars
       /\ UNCHANGED history

MoveDone(w) ==
    LET c == call[w] IN
    /\ At(w, "move")
    /\ Write(w, [r \in {MoveRow(c.order, c.product)} |-> "done"])
    /\ Goto(w, IF c.product = makes[c.order] THEN "done" ELSE "raw")
    /\ UNCHANGED history

\* action_cancel asks for no state: what is done is passed over.
Cancel(w, o) ==
    /\ Visible(w, OrderRow(o)).state # "none"
    /\ MoveStates(w, MoveRows(o), {"confirmed"}, "cancel")
    /\ Begin(w, "cancel work", For("cancel", o))
    /\ UNCHANGED history

CancelWork(w) ==
    /\ At(w, "cancel work")
    /\ MoveStates(w, WorkRows(call[w].order), {"ready", "progress"}, "cancel")
    /\ Goto(w, "cancel order")
    /\ UNCHANGED history

\* Mutant: an order that is done is cancelled as well.
CancelOrderAny(w) ==
    /\ At(w, "cancel order")
    /\ OrderState(w, call[w].order, {"draft", "confirmed", "progress", "to_close", "done"}, "cancel")
    /\ Goto(w, "commit")
    /\ UNCHANGED history

CancelOrder(w) ==
    /\ At(w, "cancel order")
    /\ OrderState(w, call[w].order, {"draft", "confirmed", "progress", "to_close"}, "cancel")
    /\ Goto(w, "commit")
    /\ UNCHANGED history

-----------------------------------------------------------------------------
(* work orders *)

StartWork(w, o, k) ==
    /\ Visible(w, WorkRow(o, k)) # "none"
    /\ MoveStates(w, {WorkRow(o, k)}, {"ready", "progress"}, "progress")
    /\ Begin(w, "start order", For("start", o))
    /\ UNCHANGED history

StartOrder(w) ==
    /\ At(w, "start order")
    /\ OrderState(w, call[w].order, {"confirmed"}, "progress")
    /\ Goto(w, "commit")
    /\ UNCHANGED history

FinishWork(w, o, k) ==
    /\ Visible(w, WorkRow(o, k)) # "none"
    /\ MoveStates(w, {WorkRow(o, k)}, {"ready", "progress"}, "done")
    /\ Begin(w, "close order", For("finish", o))
    /\ UNCHANGED history

\* UPDATE ... WHERE state IN (...) AND NOT EXISTS an open work order.
CloseOrder(w) ==
    LET o == call[w].order IN
    /\ At(w, "close order")
    /\ OrderState(w, o, IF OpenWork(w, o) = {} THEN {"confirmed", "progress"} ELSE {}, "to_close")
    /\ Goto(w, "commit")
    /\ UNCHANGED history

-----------------------------------------------------------------------------
(* runReorderScheduler, for one rule of route "manufacture" *)

\* What is on hand.
Reorder(w, p) ==
    /\ rule[p] # NoRule
    /\ Begin(w, "forecast", [Idle EXCEPT !.method = "reorder", !.product = p,
                                         !.qty = Visible(w, QuantRow(p))])
    /\ UNCHANGED <<dbVars, history>>

\* Mutant: what is being made is not counted.
IncomingIgnored(w, p) == 0

Incoming(w, p) ==
    SumFunction([o \in Order |->
        IF makes[o] = p /\ Visible(w, OrderRow(o)).state \notin {"none", "done", "cancel"}
        THEN Visible(w, OrderRow(o)).qty ELSE 0])

\* Up to the maximum, in whole multiples.
Replenishment(u, forecast) ==
    IF forecast >= u.min \/ forecast >= u.max THEN 0
    ELSE IF u.multiple = 0 THEN u.max - forecast
    ELSE ((u.max - forecast + u.multiple - 1) \div u.multiple) * u.multiple

\* Bound: there is an order left to draft, and it is for MaxOrder at most.
Replenish(w) ==
    LET c == call[w]
        n == Replenishment(rule[c.product], c.qty + Incoming(w, c.product))
    IN /\ At(w, "forecast")
       /\ n \in 0..MaxOrder
       /\ IF n = 0 THEN UNCHANGED dbVars
          ELSE \E o \in Order :
                 /\ makes[o] = c.product /\ live[OrderRow(o)].state = "none"
                 /\ Write(w, [r \in {OrderRow(o)} |-> [state |-> "draft", qty |-> n]])
       /\ Goto(w, "commit")
       /\ UNCHANGED history

-----------------------------------------------------------------------------
Moving(w) == RefreshOnHand(w) \/ TakeLayer(w) \/ WriteCaches(w)

Documents(w) ==
    \/ \E p \in Product, n \in Batch : Deliver(w, p, n) \/ \E c \in Costs : Receive(w, p, n, c)
    \/ \E p \in Product, v \in Costs : Land(w, p, v)
    \/ Revalue(w)

Producing(w) ==
    \/ \E o \in Order : Confirm(w, o) \/ MarkDone(w, o) \/ Cancel(w, o)
    \/ Explode(w) \/ DrawNumber(w) \/ SetState(w, "confirmed")
    \/ \E p \in Product : ConsumeRaw(w, p)
    \/ ProduceFinished(w) \/ MoveDone(w) \/ SetState(w, "done")
    \/ CancelWork(w) \/ CancelOrder(w)

Working(w) ==
    \/ \E o \in Order, k \in Operation : StartWork(w, o, k) \/ FinishWork(w, o, k)
    \/ StartOrder(w) \/ CloseOrder(w)

Reordering(w) == Replenish(w) \/ \E p \in Product : Reorder(w, p)

Next ==
    \/ \E w \in Worker :
         Moving(w) \/ Documents(w) \/ Producing(w) \/ Working(w) \/ Reordering(w)
         \/ Commit(w) \/ Abort(w)
    \/ \E w \in Worker, o \in Order, n \in Batch : Plan(w, o, n)

Spec == Init /\ [][Next]_vars

-----------------------------------------------------------------------------
\* What an order has built, and by order what that is of p and took of p.
Built(o) == IF committed[OrderRow(o)].state = "done" THEN committed[OrderRow(o)].qty ELSE 0
Made(p) == [o \in Order |-> IF makes[o] = p THEN Built(o) ELSE 0]
Used(p) == [o \in Order |-> Built(o) * needs[makes[o]][p]]

\* "Stock only changes when the order is done" (modules/help/HelpContentB.hpp):
\* what is in WH/Stock is what transfers brought, what done orders made and what
\* they used, each once, whichever of them are cancelled, fail or run together.
StockFollowsOrders ==
    \A p \in Product : committed[QuantRow(p)] = flow[p] + SumFunction(Made(p)) - SumFunction(Used(p))

\* "Maintains the product's quantity_svl / value_svl caches" (core/StockQuant.cpp):
\* they are the sums of the product's layers, although every move reads them
\* and writes the sum back.
CacheMatchesLayers ==
    \A p \in Product :
        LET row == committed[ProductRow(p)]
        IN row.quantity = layers[p].qty /\ row.value = layers[p].value

\* "Gated on all work orders being finished" (handleMarkDone): work that somebody
\* starts or finishes beside the closing of its order never stays open on it.
WorkBeforeClose ==
    \A o \in Order : \A r \in WorkRows(o) :
        committed[OrderRow(o)].state \in {"to_close", "done"} => committed[r] \notin {"ready", "progress"}

\* By order, what it is going to make of p.
Coming(p) ==
    [o \in Order |->
        IF makes[o] = p /\ committed[OrderRow(o)].state \in {"draft", "confirmed", "progress", "to_close"}
        THEN committed[OrderRow(o)].qty ELSE 0]

\* "draft a replenishment up to the maximum, rounded to the multiple"
\* (runReorderScheduler): stock and open orders never add up to more.
ForecastWithinMaximum ==
    \A p \in Product : rule[p] # NoRule =>
        committed[QuantRow(p)] + SumFunction(Coming(p))
          < rule[p].max + (IF rule[p].multiple = 0 THEN 1 ELSE rule[p].multiple)

\* "so manufacturing conserves inventory value" (handleMarkDone): what a finished
\* order took out of and put into the valuation differs by its rounding only.
ValueConserved ==
    \A w \in Worker : At(w, "done") =>
        LET out == MapThenSumSet(LAMBDA p : call[w].out[p].value, Product)
        IN out <= 0 /\ -out < live[OrderRow(call[w].order)].qty

\* "when the last one finishes the MO becomes 'to_close'" (MrpWorkorderViewModel).
ClosesWithLast ==
    \A o \in Order :
        /\ WorkRows(o) # {}
        /\ \A r \in WorkRows(o) : committed[r] = "done" /\ lock[r] = NoTxn
        => committed[OrderRow(o)].state \notin {"confirmed", "progress"}
=============================================================================
