--------------------------- MODULE StockTransfers ---------------------------
(***************************************************************************)
(* The quant engine (core/StockQuant.cpp) and the stock.picking handlers   *)
(* that drive it (modules/stock/StockModule.cpp): confirm, assign,         *)
(* validate, cancel, unreserve, reset to draft and the inventory count.    *)
(* One step is one SQL statement, with the SELECTs directly before it, of  *)
(* a request's transaction; requests interleave between statements as READ *)
(* COMMITTED allows.  Quantities are whole units, lots are left out.       *)
(***************************************************************************)
EXTENDS ReadCommitted, Integers, FiniteSets, FiniteSetsExt, Functions

CONSTANTS Product, Location, Picking, Move, Order,
          Internal,     \* locations whose usage is 'internal'
          InventoryLoc, \* "Inventory Adjustments", location 7
          StockLoc,     \* WH/Stock, location 4
          SubcontractLoc,
          picking,      \* the picking of a move
          product,      \* the product of a move
          source,       \* location_id of a move
          planned,      \* location_dest_id of a move as created
          demand,       \* product_uom_qty of a move
          counted,      \* the done quantity the operator typed, 0 if none
          lotMissing,   \* moves of a tracked product without a lot
          putaway,      \* [Product \X Location -> Location], the rule's target
          component,    \* subcontract BOM: the component move a received
                        \* product's receipt creates, per move, or NoMove
          code,         \* picking type: "incoming", "outgoing" or "internal"
          order,        \* the sale or purchase order of a picking, or NoOrder
          ordered,      \* [Order \X Product -> Nat], quantity on its lines
          onHand,       \* [Product -> Nat], units in StockLoc at the start
          Count,        \* the <<product, location, quantity>> set_on_hand is called with
          MaxUnits,     \* bound: no unit moves once the ledger is beyond it
          OneRequestPerPicking, \* TRUE: no two requests on one picking at once
          NoPicking, NoMove, NoOrder, NoTransfer

QuantRow(p, l)   == <<"quant", p, l>>
ProductRow(p)    == <<"product", p>>
PickingRow(k)    == <<"picking", k>>
MoveRow(m)       == <<"move", m>>
LineRow(o, p)    == <<"line", o, p>>
OrderRow(o)      == <<"order", o>>

TransferRows ==
    {QuantRow(p, l) : p \in Product, l \in Location}
    \cup {ProductRow(p) : p \in Product}
    \cup {PickingRow(k) : k \in Picking}
    \cup {MoveRow(m) : m \in Move}
    \cup {LineRow(o, p) : o \in Order, p \in Product}
    \cup {OrderRow(o) : o \in Order}

ASSUME TransferAssumption ==
    /\ Row = TransferRows
    /\ IsFiniteSet(Location) /\ IsFiniteSet(Move)
    /\ Internal \subseteq Location
    /\ {InventoryLoc, StockLoc, SubcontractLoc} \subseteq Location
    /\ StockLoc \in Internal \ {InventoryLoc}
    /\ picking \in [Move -> Picking]
    /\ product \in [Move -> Product]
    /\ source \in [Move -> Location] /\ planned \in [Move -> Location]
    /\ putaway \in [Product \X Location -> Location]
    /\ component \in [Move -> Move \cup {NoMove}]
    /\ \A m \in Move : component[m] \in Move => picking[component[m]] = picking[m]
    /\ order \in [Picking -> Order \cup {NoOrder}]
    /\ NoPicking \notin Picking /\ NoMove \notin Move /\ NoOrder \notin Order
    /\ demand \in [Move -> Nat \ {0}]
    /\ counted \in [Move -> Nat]
    /\ onHand \in [Product -> Nat]
    /\ Count \subseteq Product \X Internal \X Nat
    /\ MaxUnits \in Nat

VARIABLE txn   \* per worker, the request it serves and the statement it is at

vars == <<dbVars, txn>>

-----------------------------------------------------------------------------
(* What the handlers keep between statements *)

Idle == [pc |-> "idle", pick |-> NoPicking, todo |-> {}, cur |-> NoTransfer,
         qty |-> 0, full |-> TRUE]

MovesOf(k) == {m \in Move : picking[m] = k}

\* Moves a picking is created with; a component move is inserted on receipt.
IsComponent(m) == \E n \in Move : component[n] = m

DoneQty(m) == IF counted[m] > 0 THEN counted[m] ELSE demand[m]

\* The row of a move as a SELECT returns it, with what the handler derives.
Selected(w, m) ==
    LET row == Visible(w, MoveRow(m)) IN
    [move |-> m, prod |-> product[m], src |-> source[m], dest |-> row.dest,
     qty |-> DoneQty(m), reserved |-> row.reserved]

SelectMoves(w, k, states) ==
    {Selected(w, m) : m \in {n \in MovesOf(k) : Visible(w, MoveRow(n)).state \in states}}

OpenStates == {"draft", "confirmed", "partially_available", "assigned"}

\* The request on picking k starts at statement pc with the moves it selected.
Begin(w, k, pc, todo) ==
    /\ txn[w] = Idle
    /\ (OneRequestPerPicking /\ k # NoPicking) => \A v \in Worker : txn[v].pick # k
    /\ txn' = [txn EXCEPT ![w] =
         [Idle EXCEPT !.pc = pc, !.pick = k, !.todo = todo, !.full = todo # {}]]
    /\ UNCHANGED dbVars

At(w, pc) == txn[w].pc = pc
Goto(w, pc) == txn' = [txn EXCEPT ![w].pc = pc]

\* UPDATE ... SET state = to WHERE state IN from: only matching rows are locked.
UpdateState(w, rows, from, to) ==
    Write(w, [r \in {s \in rows : Visible(w, s).state \in from} |->
                 [Visible(w, r) EXCEPT !.state = to]])

AllStates == OpenStates \cup {"done", "cancel"}
MoveRows(k) == {MoveRow(m) : m \in MovesOf(k)}

Init ==
    /\ committed = [r \in Row |->
         CASE r[1] = "quant" ->
                [qty |-> IF r[3] = StockLoc THEN onHand[r[2]]
                         ELSE IF r[3] = InventoryLoc THEN 0 - onHand[r[2]] ELSE 0,
                 res |-> 0]
           [] r[1] = "product" -> [available |-> onHand[r[2]]]
           [] r[1] = "picking" -> [state |-> "draft"]
           [] r[1] = "move" ->
                [state |-> IF IsComponent(r[2]) THEN "absent" ELSE "draft",
                 reserved |-> 0, dest |-> planned[r[2]], quantity |-> 0]
           [] r[1] = "line" -> [delivered |-> 0]
           [] r[1] = "order" -> [toInvoice |-> FALSE]]
    /\ live = committed
    /\ lock = [r \in Row |-> NoTxn]
    /\ txn = [w \in Worker |-> Idle]

Commit(w) ==
    /\ At(w, "commit") \/ (At(w, "backflush") /\ txn[w].todo = {})
    /\ CommitTxn(w)
    /\ txn' = [txn EXCEPT ![w] = Idle]

\* A failing statement, a deadlock the server breaks, a lost connection or a
\* server that dies: the transaction is rolled back as a whole.
Abort(w) ==
    /\ txn[w] # Idle
    /\ RollbackTxn(w)
    /\ txn' = [txn EXCEPT ![w] = Idle]

-----------------------------------------------------------------------------
(* action_confirm *)

Confirm(w, k) ==
    /\ Visible(w, PickingRow(k)).state = "draft"
    /\ Begin(w, k, "confirm", {})

ConfirmPicking(w) ==
    /\ At(w, "confirm")
    /\ Write(w, [r \in {PickingRow(txn[w].pick)} |-> [state |-> "confirmed"]])
    /\ Goto(w, "confirm_moves")

ConfirmMoves(w) ==
    /\ At(w, "confirm_moves")
    /\ UpdateState(w, MoveRows(txn[w].pick), {"draft"}, "confirmed")
    /\ Goto(w, "commit")

-----------------------------------------------------------------------------
(* action_assign, with StockQuant::availableAt and ::reserve *)

Assign(w, k) ==
    Begin(w, k, "assign", SelectMoves(w, k, {"confirmed", "partially_available"}))

Available(w, p, l) ==
    LET q == Visible(w, QuantRow(p, l)) IN q.qty - q.res

\* How much reserve() takes for a move that still needs n units.
ToReserve(w, t, n) == Max({0, Min({n, Available(w, t.prod, t.src)})})

AssignMove(w) ==
    /\ At(w, "assign")
    /\ \E t \in txn[w].todo :
         LET already == Visible(w, MoveRow(t.move)).reserved
             got == ToReserve(w, t, demand[t.move] - already)
         IN txn' = [txn EXCEPT ![w].todo = @ \ {t},
                               ![w].cur = [t EXCEPT !.reserved = already + got],
                               ![w].qty = got,
                               ![w].pc = IF got > 0 THEN "reserve" ELSE "reserved"]
    /\ UNCHANGED dbVars

\* reserved_quantity + $4: added to whatever the row holds by now.
Reserve(w) ==
    LET t == txn[w].cur
        q == QuantRow(t.prod, t.src)
    IN /\ At(w, "reserve")
       /\ Write(w, [r \in {q} |-> [live[q] EXCEPT !.res = @ + txn[w].qty]])
       /\ Goto(w, "reserved")

AssignedMove(w) ==
    LET t == txn[w].cur
        full == t.reserved >= demand[t.move]
    IN /\ At(w, "reserved")
       /\ Write(w, [r \in {MoveRow(t.move)} |->
             [live[r] EXCEPT !.reserved = t.reserved,
                             !.state = IF full THEN "assigned" ELSE "partially_available"]])
       /\ txn' = [txn EXCEPT ![w].full = @ /\ full, ![w].pc = "assign"]

AssignPicking(w) ==
    /\ At(w, "assign")
    /\ txn[w].todo = {}
    /\ UpdateState(w, {PickingRow(txn[w].pick)}, {"confirmed", "partially_available"},
                   IF txn[w].full THEN "assigned" ELSE "partially_available")
    /\ Goto(w, "commit")

-----------------------------------------------------------------------------
(* StockQuant::release and ::applyMove, for the transfer txn[w].cur *)

\* Mutant: the GREATEST(..., 0) is lost.
ReleasedUnfloored(w, t) ==
    LET q == QuantRow(t.prod, t.src)
    IN Write(w, [r \in {q} |-> [live[q] EXCEPT !.res = @ - t.reserved]])

ReleasedQuant(w, t) ==
    LET q == QuantRow(t.prod, t.src)
    IN Write(w, [r \in {q} |-> [live[q] EXCEPT !.res = Max({@ - t.reserved, 0})]])

\* Where the handler continues once a transfer has been applied.
AppliedPc(t) ==
    IF t.move = NoMove THEN "commit"
    ELSE IF IsComponent(t.move) THEN "backflush" ELSE "moved"

\* applyMove returns at once for a zero quantity or a move to the same place.
ApplyPc(t) == IF t.qty = 0 \/ t.src = t.dest THEN AppliedPc(t) ELSE "out"

\* upsertDelta: the delta is added to whatever the row holds by now.
AddToQuant(w, p, l, delta) ==
    LET q == QuantRow(p, l)
    IN Write(w, [r \in {q} |-> [live[q] EXCEPT !.qty = @ + delta]])

\* Mutant: the statement runs outside the handler's transaction.
ApplyOutAutocommit(w) ==
    LET t == txn[w].cur
        q == QuantRow(t.prod, t.src)
        after == [live[q] EXCEPT !.qty = @ - t.qty]
    IN /\ At(w, "out")
       /\ lock[q] = NoTxn
       /\ live' = [live EXCEPT ![q] = after]
       /\ committed' = [committed EXCEPT ![q] = after]
       /\ Goto(w, "in")
       /\ UNCHANGED lock

ApplyOut(w) ==
    LET t == txn[w].cur IN
    /\ At(w, "out")
    /\ AddToQuant(w, t.prod, t.src, 0 - t.qty)
    /\ Goto(w, "in")

ApplyIn(w) ==
    LET t == txn[w].cur IN
    /\ At(w, "in")
    /\ AddToQuant(w, t.prod, t.dest, t.qty)
    /\ Goto(w, "refresh")

\* refreshProductOnHand is one UPDATE, but its subquery sums the quants as of
\* the moment the statement started, before it waits for the product's row.
RefreshSnapshot(w) ==
    LET quantity == [l \in Internal |-> Visible(w, QuantRow(txn[w].cur.prod, l)).qty]
    IN /\ At(w, "refresh")
       /\ txn' = [txn EXCEPT ![w].qty = SumFunction(quantity), ![w].pc = "refreshed"]
       /\ UNCHANGED dbVars

RefreshWrite(w) ==
    /\ At(w, "refreshed")
    /\ Write(w, [r \in {ProductRow(txn[w].cur.prod)} |-> [available |-> txn[w].qty]])
    /\ Goto(w, AppliedPc(txn[w].cur))

-----------------------------------------------------------------------------
(* button_validate *)

\* Mutant: a transfer that is already done is validated again.
ValidateAgain(w, k) ==
    /\ Visible(w, PickingRow(k)).state # "cancel"
    /\ Begin(w, k, "load", {})

Validate(w, k) ==
    /\ Visible(w, PickingRow(k)).state \notin {"done", "cancel"}
    /\ Begin(w, k, "load", {})

LoadMoves(w) ==
    /\ At(w, "load")
    /\ txn' = [txn EXCEPT ![w].todo = SelectMoves(w, txn[w].pick, OpenStates),
                          ![w].pc = "validate"]
    /\ UNCHANGED dbVars

ReleasePc(t) == IF t.reserved > 0 THEN "release" ELSE ApplyPc(t)

\* The next move, redirected by its putaway rule.
ValidateMove(w) ==
    /\ At(w, "validate")
    /\ \E t \in txn[w].todo :
         LET to == [t EXCEPT !.dest = putaway[<<t.prod, t.dest>>]] IN
         /\ to.dest = t.dest => t.move \notin lotMissing
         /\ txn' = [txn EXCEPT ![w].todo = @ \ {t},
                               ![w].cur = to,
                               ![w].pc = IF to.dest # t.dest THEN "putaway"
                                         ELSE ReleasePc(to)]
    /\ UNCHANGED dbVars

Putaway(w) ==
    LET t == txn[w].cur IN
    /\ At(w, "putaway")
    /\ t.move \notin lotMissing
    /\ Write(w, [r \in {MoveRow(t.move)} |-> [live[r] EXCEPT !.dest = t.dest]])
    /\ Goto(w, ReleasePc(t))

\* "A lot/serial number is required": the exception undoes the moves before.
RefuseMove(w) ==
    /\ \/ At(w, "validate") /\ \E t \in txn[w].todo : t.move \in lotMissing
       \/ At(w, "putaway") /\ txn[w].cur.move \in lotMissing
    /\ Abort(w)

ReleaseMove(w) ==
    /\ At(w, "release")
    /\ ReleasedQuant(w, txn[w].cur)
    /\ Goto(w, ApplyPc(txn[w].cur))

\* Mutant: the applied move stays open.
MoveStaysOpen(w) ==
    LET t == txn[w].cur IN
    /\ At(w, "moved")
    /\ Write(w, [r \in {MoveRow(t.move)} |->
          [live[r] EXCEPT !.quantity = t.qty, !.reserved = 0]])
    /\ Goto(w, "validate")

MoveDone(w) ==
    LET t == txn[w].cur IN
    /\ At(w, "moved")
    /\ Write(w, [r \in {MoveRow(t.move)} |->
          [live[r] EXCEPT !.quantity = t.qty, !.reserved = 0, !.state = "done"]])
    /\ Goto(w, "validate")

Bills(k) == order[k] # NoOrder /\ code[k] \in {"incoming", "outgoing"}

AfterOrder(k) == IF code[k] = "incoming" THEN "backflush_select" ELSE "commit"

PickingDone(w) ==
    LET k == txn[w].pick IN
    /\ At(w, "validate")
    /\ txn[w].todo = {}
    /\ Write(w, [r \in {PickingRow(k)} |-> [state |-> "done"]])
    /\ Goto(w, IF Bills(k) THEN "bill" ELSE AfterOrder(k))

DoneMoves(w, k) == {m \in MovesOf(k) : Visible(w, MoveRow(m)).state = "done"}

DoneQuantity(w, k, p) ==
    SumFunction([m \in {n \in DoneMoves(w, k) : product[n] = p} |->
                    Visible(w, MoveRow(m)).quantity])

\* qty_delivered / qty_received of the order's lines, then its invoice_status.  The
\* code has one UPDATE per product: what another request may do between two of them
\* is wait for a row already held, or lose a deadlock, which is an Abort here.
UpdateLines(w) ==
    LET k == txn[w].pick
        lines == {LineRow(order[k], product[m]) : m \in DoneMoves(w, k)}
    IN /\ At(w, "bill")
       /\ Write(w, [r \in lines |->
             [live[r] EXCEPT !.delivered = @ + DoneQuantity(w, k, r[3])]])
       /\ Goto(w, "status")

\* WHERE state = 'sale' or 'purchase': the orders here are confirmed and stay so
\* (Orders has the cancellation, and the condition in Delivered).
UpdateOrder(w) ==
    LET o == order[txn[w].pick]
        complete == \A p \in Product : Visible(w, LineRow(o, p)).delivered >= ordered[<<o, p>>]
    IN /\ At(w, "status")
       /\ Write(w, [r \in {OrderRow(o)} |->
             [live[r] EXCEPT !.toInvoice = @ \/ complete]])
       /\ Goto(w, AfterOrder(txn[w].pick))

\* Subcontracting: the components of what was received are consumed.
BackflushSelect(w) ==
    LET k == txn[w].pick
        received == {m \in DoneMoves(w, k) : component[m] # NoMove}
        consumed(m) == [Selected(w, component[m]) EXCEPT
             !.qty = demand[component[m]] * Visible(w, MoveRow(m)).quantity]
    IN /\ At(w, "backflush_select")
       /\ txn' = [txn EXCEPT ![w].todo = {consumed(m) : m \in received},
                             ![w].pc = "backflush"]
       /\ UNCHANGED dbVars

Backflush(w) ==
    /\ At(w, "backflush")
    /\ \E t \in txn[w].todo :
         /\ Write(w, [r \in {MoveRow(t.move)} |->
               [live[r] EXCEPT !.quantity = @ + t.qty, !.state = "done"]])
         /\ txn' = [txn EXCEPT ![w].todo = @ \ {t}, ![w].cur = t, ![w].pc = ApplyPc(t)]

-----------------------------------------------------------------------------
(* action_cancel, button_unreserve, button_reset_to_draft *)

HeldMoves(w, k, states) == {t \in SelectMoves(w, k, states) : t.reserved > 0}

\* Mutant: cancelling forgets the stock the transfer had reserved.
CancelUnreleased(w, k) == Begin(w, k, "cancel", {})

Cancel(w, k)    == Begin(w, k, "cancel", HeldMoves(w, k, OpenStates))
Unreserve(w, k) ==
    Begin(w, k, "unreserve", HeldMoves(w, k, {"assigned", "partially_available"}))
Reset(w, k)     == Begin(w, k, "reset", {})

ReleaseHeld(w) ==
    /\ At(w, "cancel") \/ At(w, "unreserve")
    /\ \E t \in txn[w].todo :
         /\ ReleasedQuant(w, t)
         /\ txn' = [txn EXCEPT ![w].todo = @ \ {t}]

\* Mutant: the UPDATE has lost its state != 'done'.
CancelAnyPicking(w) ==
    /\ At(w, "cancel")
    /\ txn[w].todo = {}
    /\ UpdateState(w, {PickingRow(txn[w].pick)}, AllStates, "cancel")
    /\ Goto(w, "cancel_moves")

CancelPicking(w) ==
    /\ At(w, "cancel")
    /\ txn[w].todo = {}
    /\ UpdateState(w, {PickingRow(txn[w].pick)}, AllStates \ {"done"}, "cancel")
    /\ Goto(w, "cancel_moves")

\* UPDATE stock_move SET state = to, reserved_qty = 0 WHERE state IN from.
DropMoves(w, from, to) ==
    Write(w, [r \in {s \in MoveRows(txn[w].pick) : Visible(w, s).state \in from} |->
                 [live[r] EXCEPT !.state = to, !.reserved = 0]])

CancelMoves(w) ==
    /\ At(w, "cancel_moves")
    /\ DropMoves(w, AllStates \ {"done"}, "cancel")
    /\ Goto(w, "commit")

UnreserveMoves(w) ==
    /\ At(w, "unreserve")
    /\ txn[w].todo = {}
    /\ DropMoves(w, {"assigned", "partially_available"}, "confirmed")
    /\ Goto(w, "unreserve_picking")

UnreservePicking(w) ==
    /\ At(w, "unreserve_picking")
    /\ UpdateState(w, {PickingRow(txn[w].pick)}, {"assigned", "partially_available"},
                   "confirmed")
    /\ Goto(w, "commit")

ResetPicking(w) ==
    /\ At(w, "reset")
    /\ UpdateState(w, {PickingRow(txn[w].pick)}, {"cancel"}, "draft")
    /\ Goto(w, "reset_moves")

ResetMoves(w) ==
    /\ At(w, "reset_moves")
    /\ UpdateState(w, MoveRows(txn[w].pick), {"cancel"}, "draft")
    /\ Goto(w, "commit")

-----------------------------------------------------------------------------
(* set_on_hand: the counted quantity minus the one on record is moved between *)
(* the location and Inventory Adjustments                                     *)

SetOnHand(w, p, l, n) ==
    LET delta == n - Visible(w, QuantRow(p, l)).qty
        move(from, to, q) == [move |-> NoMove, prod |-> p, src |-> from, dest |-> to,
                              qty |-> q, reserved |-> 0]
    IN /\ txn[w] = Idle
       /\ delta # 0
       /\ txn' = [txn EXCEPT ![w] = [Idle EXCEPT
             !.pc = "out",
             !.cur = IF delta > 0 THEN move(InventoryLoc, l, delta)
                                  ELSE move(l, InventoryLoc, 0 - delta)]]
       /\ UNCHANGED dbVars

-----------------------------------------------------------------------------
WithinBounds ==
    /\ \A p \in Product, l \in Location :
          committed[QuantRow(p, l)].qty \in (0 - MaxUnits)..MaxUnits
    /\ \A o \in Order, p \in Product : committed[LineRow(o, p)].delivered <= MaxUnits

Request(w) ==
    \/ \E k \in Picking :
          Confirm(w, k) \/ Assign(w, k) \/ Cancel(w, k) \/ Unreserve(w, k) \/ Reset(w, k)
    \/ /\ WithinBounds
       /\ \/ \E k \in Picking : Validate(w, k)
          \/ \E c \in Count : SetOnHand(w, c[1], c[2], c[3])

Statement(w) ==
    \/ ConfirmPicking(w) \/ ConfirmMoves(w)
    \/ AssignMove(w) \/ Reserve(w) \/ AssignedMove(w) \/ AssignPicking(w)
    \/ LoadMoves(w) \/ ValidateMove(w) \/ Putaway(w) \/ RefuseMove(w) \/ ReleaseMove(w)
    \/ ApplyOut(w) \/ ApplyIn(w) \/ RefreshSnapshot(w) \/ RefreshWrite(w)
    \/ MoveDone(w) \/ PickingDone(w) \/ UpdateLines(w) \/ UpdateOrder(w)
    \/ BackflushSelect(w) \/ Backflush(w)
    \/ ReleaseHeld(w) \/ CancelPicking(w) \/ CancelMoves(w)
    \/ UnreserveMoves(w) \/ UnreservePicking(w) \/ ResetPicking(w) \/ ResetMoves(w)

Next == \E w \in Worker : Request(w) \/ Statement(w) \/ Commit(w) \/ Abort(w)

Spec == Init /\ [][Next]_vars

-----------------------------------------------------------------------------
Quant(p, l)    == committed[QuantRow(p, l)]
MoveState(m)   == committed[MoveRow(m)].state
PickState(k)   == committed[PickingRow(k)].state

\* The quantities on record, and what was done of the moves in S.
OnRecord(p, L) == SumFunction([l \in L |-> Quant(p, l).qty])
DoneUnits(S)   == SumFunction([m \in {n \in S : MoveState(n) = "done"} |->
                                  committed[MoveRow(m)].quantity])

\* Every unit that leaves a location arrives at another: applyMove writes both
\* sides in the caller's transaction, so whatever fails or interleaves, no
\* session ever sees a product whose quants do not balance.
Conserved == \A p \in Product : OnRecord(p, Location) = 0

\* release() is "floored at 0" and reserve() only adds, so however the requests
\* interleave no location ever shows a negative reservation.
ReservedNonNegative == \A p \in Product, l \in Location : Quant(p, l).res >= 0

\* The reservation on a quant is exactly what the open moves leaving that
\* location hold: nothing leaks through cancel, unreserve, reset or validate.
ReservedMatchesMoves ==
    \A p \in Product, l \in Location :
        LET leaving == {m \in Move : product[m] = p /\ source[m] = l}
        IN Quant(p, l).res = SumFunction([m \in leaving |-> committed[MoveRow(m)].reserved])

\* "the single authority on on-hand quantity" (StockQuant.hpp): the quants are
\* the done moves, each applied exactly once; only an inventory count moves
\* units between the company's own locations and Inventory Adjustments.
LedgerMatchesMoves ==
    \A p \in Product :
        LET of(S) == DoneUnits({m \in S : product[m] = p})
            into(L) == of({m \in Move : committed[MoveRow(m)].dest \in L})
            outOf(L) == of({m \in Move : source[m] \in L})
            own == Internal \cup {InventoryLoc}
        IN /\ OnRecord(p, own) = into(own) - outOf(own)
           /\ \A l \in Location \ own : Quant(p, l).qty = into({l}) - outOf({l})

\* What an order's lines say was delivered or received is what the moves of its
\* transfers delivered, also after aborted validations and resets.
DeliveredMatchesMoves ==
    \A o \in Order, p \in Product :
        committed[LineRow(o, p)].delivered =
            DoneUnits({m \in Move : /\ order[picking[m]] = o
                                    /\ Bills(picking[m])
                                    /\ product[m] = p
                                    /\ ~ IsComponent(m)})

\* A transfer's header and its moves never tell different stories: done and
\* cancelled transfers have only done and cancelled moves, an assigned one only
\* fully reserved moves, a draft one only draft moves.
HeaderMatchesMoves ==
    \A m \in Move :
        LET k == picking[m] IN
        \/ IsComponent(m) /\ (MoveState(m) = "done" => PickState(k) = "done")
        \/ PickState(k) = "partially_available"
              /\ MoveState(m) \in {"assigned", "partially_available"}
        \/ PickState(k) \notin {"partially_available"} /\ MoveState(m) = PickState(k)

\* "Kept transactionally consistent with the quant rows it summarises"
\* (StockQuant.cpp): the product's cached on-hand is the sum of its internal
\* quants whenever no transaction is open on it.
OnHandMatchesQuants ==
    \A p \in Product : committed[ProductRow(p)].available = OnRecord(p, Internal)

\* "Never reserves more than is physically available" (StockQuant.hpp): a commit
\* that raises the reservation of a quant leaves it covered by the quantity.
ReserveWithinAvailable ==
    [][\A p \in Product, l \in Location :
          Quant(p, l).res < Quant(p, l)'.res => Quant(p, l)'.res <= Quant(p, l)'.qty]_vars
=============================================================================
