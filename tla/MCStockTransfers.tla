-------------------------- MODULE MCStockTransfers --------------------------
(* A receipt of a subcontracted product that is put away on a shelf, and a  *)
(* delivery and an internal transfer that compete for the same stock; the   *)
(* internal transfer's product is tracked and its move has no lot.          *)
EXTENDS StockTransfers, TLC

CONSTANTS goods, part, vendor, stock, shelf, sub, inventory, customer,
          receipt, delivery, internal, m1, m2, m3, c1, po, so, w1, w2

\* Requests are interchangeable.
WorkerSymmetry == Permutations(Worker)

MCProduct == {goods, part}
MCLocation == {vendor, stock, shelf, sub, inventory, customer}
MCInternal == {stock, shelf}
MCPicking == {receipt, delivery, internal}
MCMove == {m1, m2, m3, c1}
MCOrder == {po, so}

\* One product, for the run whose requests share a transfer.
OneProduct == {part}
OneOrder == {so}
OnePicking == {delivery}
OneMove == {m2}
OneLocation == {stock, shelf, inventory, sub, customer}
OneInternal == {stock, shelf}

\* The two transfers that compete for the same stock.
CompetingPickings == {delivery, internal}
CompetingMoves == {m2, m3}

\* A receipt into the stock and a delivery from the shelf, of one product: the
\* two share no quant.
ApartMoves == {m1, m2}
ApartPickings == {receipt, delivery}
ApartProductOf == [m \in Move |-> part]
ApartSource == [m \in Move |-> IF m = m1 THEN vendor ELSE shelf]
NoComponent == [m \in Move |-> NoMove]

OneCount == {<<part, stock, 1>>}
GoodsCount == {<<goods, shelf, 1>>}

MCPickingOf == [m \in Move |->
    CASE m \in {m1, c1} -> receipt [] m = m2 -> delivery [] m = m3 -> internal]
MCProductOf == [m \in Move |-> IF m = m1 THEN goods ELSE part]
MCSource == [m \in Move |-> IF m = m1 THEN vendor ELSE stock]
MCPlanned == [m \in Move |->
    CASE m = m1 -> stock [] m = m2 -> customer [] m = m3 -> shelf [] m = c1 -> sub]
MCDemand == [m \in Move |-> IF m = m2 THEN 2 ELSE 1]
UnitDemand == [m \in Move |-> 1]
MCCounted == [m \in Move |-> 0]
MCLotMissing == {m3}
MCPutaway == [r \in Product \X Location |->
    IF r = <<goods, stock>> THEN shelf ELSE r[2]]
MCComponent == [m \in Move |-> IF m = m1 THEN c1 ELSE NoMove]
MCCode == [k \in Picking |->
    CASE k = receipt -> "incoming" [] k = delivery -> "outgoing" [] k = internal -> "internal"]
MCOrderOf == [k \in Picking |->
    CASE k = receipt -> po [] k = delivery -> so [] k = internal -> NoOrder]
MCOrdered == [r \in Order \X Product |->
    CASE r = <<po, goods>> -> 1 [] r = <<so, part>> -> 2 [] OTHER -> 0]

\* Bound: two of the three transfers are worked on at a time; one waits or is over.
AtRest(k) ==
    /\ committed[PickingRow(k)].state \in {"draft", "done"}
    /\ \A w \in Worker : txn[w].pick # k
TwoAtATime == \E k \in Picking : AtRest(k)

MCOnHand == [p \in Product |-> IF p = part THEN 2 ELSE 0]
=============================================================================
