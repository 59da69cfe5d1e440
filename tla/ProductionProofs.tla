-------------------------- MODULE ProductionProofs --------------------------
(***************************************************************************)
(* Proofs about Production, for any products, bills, orders, prices and    *)
(* number of workers.                                                      *)
(*                                                                         *)
(*  - The valuation caches of a product never drift from the sum of its    *)
(*    layers.  A request reads them under the lock of the product's row,   *)
(*    which applyMove takes before the SELECT, and a landed cost, which    *)
(*    does not, has the product to itself.                                 *)
(*  - No work is open on an order that is to close or done, although work  *)
(*    orders and orders are read without a lock.                           *)
(*  - WH/Stock holds what transfers moved and what done orders made and    *)
(*    used, where one order is confirmed, marked done or cancelled by one  *)
(*    request at a time.                                                   *)
(***************************************************************************)
EXTENDS Production, SumTheorems, TLAPS

\* The layers of a first-in-first-out product are summed by folds.
NoFifo == \A p \in Product : method[p] # "fifo"

Method == {"", "receive", "deliver", "land", "confirm", "done", "cancel", "start", "finish", "reorder"}
Place == {"idle", "onhand", "layers", "revalue", "explode", "number", "confirmed", "raw", "move", "done",
          "cancel work", "cancel order", "start order", "close order", "forecast", "commit"}
State == {"none", "draft", "confirmed", "progress", "to_close", "done", "cancel"}

ProductVersion == [quantity : Int, value : Int, price : Int, fifo : {<<>>}]
OrderVersion == [state : State, qty : Nat]
Amount == [qty : Int, value : Int]

Request ==
    [method : Method, pc : Place, order : Order \cup {NoOrder}, product : Product \cup {NoProduct},
     todo : SUBSET Product, qty : Int, cost : Int, worth : Int, left : Int, drawn : Int,
     copy : ProductVersion, out : [Product -> Amount]]

\* What is written down of an order has a quantity from the start.
OrderOK(v) == v \in OrderVersion /\ (v.state # "none" => v.qty > 0)

RowInv ==
    /\ committed = [r \in Row |-> committed[r]]
    /\ live = [r \in Row |-> live[r]]
    /\ lock \in [Row -> Worker \cup {NoTxn}]
    /\ layers \in [Product -> Amount]
    /\ \A p \in Product :
         /\ committed[ProductRow(p)] \in ProductVersion /\ live[ProductRow(p)] \in ProductVersion
         /\ committed[QuantRow(p)] \in Int /\ live[QuantRow(p)] \in Int
    /\ \A o \in Order :
         /\ OrderOK(committed[OrderRow(o)]) /\ OrderOK(live[OrderRow(o)])
         /\ committed[OrderRow(o)].qty > 0 => live[OrderRow(o)].qty > 0

CallOK(c) ==
    /\ c \in Request
    /\ c.pc \in {"onhand", "layers", "revalue"} => c.product \in Product
    /\ c.pc \in {"raw", "move", "done"} => c.method = "done"
    /\ c.pc \in {"explode", "number", "confirmed"} => c.method = "confirm"
    /\ c.pc = "revalue" => c.method = "land"
    /\ c.method = "land" => c.product \in Product
    /\ c.method \in Workflow => c.order \in Order
    /\ c.method = "done" => /\ c.todo \subseteq Components(c.order)
                            /\ c.product \in Components(c.order) \cup {makes[c.order], NoProduct}

CallInv ==
    /\ call = [w \in Worker |-> call[w]]
    /\ \A w \in Worker : CallOK(call[w])

\* Who serves no request holds no lock, and a request works on an order that is
\* there for everybody.
IdleInv == \A w \in Worker : call[w] = Idle => \A r \in Row : lock[r] # w
OrderInv == \A w \in Worker : call[w].method \in Workflow => committed[OrderRow(call[w].order)].qty > 0

\* A landed cost is alone with its product.
AloneInv ==
    \A v, w \in Worker : v # w /\ call[w].method = "land" => ~Touches(call[v], call[w].product)

\* The products a request may hold.
Covers(c, p) ==
    IF c.method = "done" THEN makes[c.order] = p \/ needs[makes[c.order]][p] > 0
                         ELSE c.product = p

\* A landed cost counts its layer before it writes the product.
Landing(w, p) == call[w].pc = "revalue" /\ call[w].product = p

\* Under the lock the caches are ahead of the committed layers by the request's
\* own ones.
Holds(w, p) ==
    /\ Covers(call[w], p)
    /\ ~Landing(w, p)
    /\ live[ProductRow(p)].quantity = layers[p].qty + call[w].out[p].qty
    /\ live[ProductRow(p)].value = layers[p].value + call[w].out[p].value

\* What a request has read is what it is going to overwrite.
Reads(w) ==
    LET c == call[w]
        r == ProductRow(c.product)
    IN /\ c.pc = "layers" => /\ lock[r] = w
                             /\ c.copy.quantity = live[r].quantity /\ c.copy.value = live[r].value
       /\ c.pc = "revalue" => /\ c.copy.value = committed[r].value
                              /\ c.out[c.product] = [qty |-> 0, value |-> c.worth]

ValueInv ==
    /\ CacheMatchesLayers
    /\ \A p \in Product : lock[ProductRow(p)] = NoTxn => live[ProductRow(p)] = committed[ProductRow(p)]
    /\ \A p \in Product, w \in Worker : lock[ProductRow(p)] = w => Holds(w, p)
    /\ \A p \in Product, w \in Worker :
         lock[ProductRow(p)] # w /\ ~Landing(w, p) => call[w].out[p] = Zero
    /\ \A w \in Worker : Reads(w)

IInv == RowInv /\ CallInv /\ IdleInv /\ OrderInv /\ AloneInv /\ ValueInv

-----------------------------------------------------------------------------
(* rows and calls *)

\* Rows of different kinds or of different things are different rows.
LEMMA RowNames ==
    /\ \A p, q : ProductRow(p) = ProductRow(q) => p = q
    /\ \A p, q : QuantRow(p) = QuantRow(q) => p = q
    /\ \A p, q : OrderRow(p) = OrderRow(q) => p = q
    /\ \A p, q : ProductRow(p) # QuantRow(q) /\ ProductRow(p) # OrderRow(q) /\ QuantRow(p) # OrderRow(q)
    /\ \A p : ProductRow(p) # SequenceRow /\ QuantRow(p) # SequenceRow /\ OrderRow(p) # SequenceRow
    /\ \A p, o, q : ProductRow(p) # MoveRow(o, q) /\ QuantRow(p) # MoveRow(o, q) /\ OrderRow(p) # MoveRow(o, q)
    /\ \A p, o, q : ProductRow(p) # WorkRow(o, q) /\ QuantRow(p) # WorkRow(o, q) /\ OrderRow(p) # WorkRow(o, q)
  BY DEF ProductRow, QuantRow, OrderRow, SequenceRow, MoveRow, WorkRow

\* Every product and every order has its rows.
LEMMA RowsThere ==
    /\ \A p \in Product : ProductRow(p) \in Row /\ QuantRow(p) \in Row
    /\ \A o \in Order : OrderRow(o) \in Row
  BY ProductionAssumption DEF ProductionRows

\* What a statement leaves of each row.
LEMMA WriteEffect ==
    ASSUME NEW w \in Worker, NEW new, Write(w, new)
    PROVE  /\ committed' = committed
           /\ \A r \in Row : /\ live'[r] = IF r \in DOMAIN new THEN new[r] ELSE live[r]
                             /\ lock'[r] = IF r \in DOMAIN new THEN w ELSE lock[r]
                             /\ r \in DOMAIN new => lock[r] \in {w, NoTxn}
  BY DEF Write, Free

\* A statement keeps the types of the rows it gives new versions.
LEMMA WriteKeepsRows ==
    ASSUME RowInv, NEW w \in Worker, NEW new, Write(w, new), layers' = layers,
           \A p \in Product : /\ ProductRow(p) \in DOMAIN new => new[ProductRow(p)] \in ProductVersion
                              /\ QuantRow(p) \in DOMAIN new => new[QuantRow(p)] \in Int,
           \A o \in Order : OrderRow(o) \in DOMAIN new =>
                              new[OrderRow(o)] \in OrderVersion /\ new[OrderRow(o)].qty > 0
    PROVE  RowInv'
  <1>1. /\ committed' = committed
        /\ \A r \in Row : live'[r] = IF r \in DOMAIN new THEN new[r] ELSE live[r]
    BY WriteEffect
  <1>2. live' = [r \in Row |-> live'[r]] /\ lock' \in [Row -> Worker \cup {NoTxn}]
    BY DEF Write, RowInv
  <1>3. \A p \in Product : live'[ProductRow(p)] \in ProductVersion /\ live'[QuantRow(p)] \in Int
    BY <1>1, RowsThere DEF RowInv
  <1>4. \A o \in Order : /\ OrderOK(live'[OrderRow(o)])
                         /\ committed[OrderRow(o)].qty > 0 => live'[OrderRow(o)].qty > 0
    BY <1>1, RowsThere DEF RowInv, OrderOK
  <1> QED
    BY <1>1, <1>2, <1>3, <1>4 DEF RowInv

\* A request that goes on within its type changes no other request.
LEMMA CallKeeps ==
    ASSUME CallInv, NEW w \in Worker, NEW c, CallOK(c), call' = [call EXCEPT ![w] = c]
    PROVE  /\ CallInv'
           /\ call'[w] = c
           /\ \A v \in Worker \ {w} : call'[v] = call[v]
  <1>1. \A v \in Worker : call'[v] = IF v = w THEN c ELSE call[v]
    BY DEF CallInv
  <1>2. call' = [v \in Worker |-> call'[v]]
    BY DEF CallInv
  <1>3. \A v \in Worker : CallOK(call'[v])
    BY <1>1 DEF CallInv
  <1> QED
    BY <1>1, <1>2, <1>3 DEF CallInv, CallOK

\* Who serves no request works on nothing and has added nothing.
LEMMA IdleOK ==
    /\ CallOK(Idle) /\ Idle.pc = "idle" /\ Idle.method = "" /\ Idle.product = NoProduct
    /\ Idle.order = NoOrder /\ Idle.todo = {}
    /\ \A p \in Product : Idle.out[p] = Zero
  <1>1. NoCopy \in ProductVersion /\ [p \in Product |-> Zero] \in [Product -> Amount]
    BY DEF Zero, NoCopy, ProductVersion, Amount
  <1>2. Idle \in Request
    BY <1>1 DEF Idle, Request, Method, Place
  <1>3. /\ Idle.pc = "idle" /\ Idle.method = "" /\ Idle.product = NoProduct
        /\ Idle.order = NoOrder /\ Idle.todo = {}
        /\ Idle.out = [p \in Product |-> Zero]
    BY DEF Idle
  <1>4. CallOK(Idle)
    BY <1>2, <1>3 DEF CallOK, Workflow
  <1> QED
    BY <1>3, <1>4

-----------------------------------------------------------------------------
(* steps that write no product *)

\* No product is written or unlocked, and at most one request goes on.
Quiet(w) ==
    /\ \A p \in Product : /\ committed'[ProductRow(p)] = committed[ProductRow(p)]
                          /\ live'[ProductRow(p)] = live[ProductRow(p)]
                          /\ lock'[ProductRow(p)] = lock[ProductRow(p)]
    /\ layers' = layers
    /\ \A v \in Worker \ {w} : call'[v] = call[v]
    /\ call[w].pc # "revalue"
    /\ call'[w].pc \notin {"layers", "revalue"}
    /\ call'[w].out = call[w].out

\* A step that writes no product keeps the caches and what is known of them.
LEMMA QuietKeeps ==
    ASSUME CallInv, ValueInv, NEW w \in Worker, Quiet(w),
           \A p \in Product : lock[ProductRow(p)] = w => Covers(call'[w], p)
    PROVE  ValueInv'
  <1>1. CacheMatchesLayers'
    BY DEF Quiet, ValueInv, CacheMatchesLayers
  <1>2. \A p \in Product : lock'[ProductRow(p)] = NoTxn => live'[ProductRow(p)] = committed'[ProductRow(p)]
    BY DEF Quiet, ValueInv
  <1>3. \A p \in Product, v \in Worker \ {w} :
           /\ (Landing(v, p) <=> Landing(v, p)')
           /\ (Covers(call[v], p) <=> Covers(call'[v], p))
    BY DEF Quiet, Landing
  <1>4. \A p \in Product : ~Landing(w, p) /\ ~Landing(w, p)'
    BY DEF Quiet, Landing
  <1>5. ASSUME NEW p \in Product, NEW v \in Worker, lock'[ProductRow(p)] = v
        PROVE  Holds(v, p)'
    <2>1. CASE v = w
      BY <1>4, <1>5, <2>1 DEF Quiet, ValueInv, Holds
    <2>2. CASE v # w
      BY <1>3, <1>5, <2>2 DEF Quiet, ValueInv, Holds
    <2> QED
      BY <2>1, <2>2
  <1>6. ASSUME NEW p \in Product, NEW v \in Worker, lock'[ProductRow(p)] # v, ~Landing(v, p)'
        PROVE  call'[v].out[p] = Zero
    BY <1>3, <1>4, <1>6 DEF Quiet, ValueInv
  <1>7. ASSUME NEW v \in Worker
        PROVE  Reads(v)'
    <2>1. CASE v = w
      BY <2>1 DEF Quiet, Reads
    <2>2. CASE v # w
      <3>1. call'[v] = call[v]
        BY <2>2 DEF Quiet
      <3>2. call[v].pc \in {"layers", "revalue"} => call[v].product \in Product
        BY DEF CallInv, CallOK
      <3> QED
        BY <3>1, <3>2 DEF Quiet, ValueInv, Reads
    <2> QED
      BY <2>1, <2>2
  <1> QED
    BY <1>1, <1>2, <1>5, <1>6, <1>7 DEF ValueInv

\* Nothing but rows other than products is written, under locks of w.
Elsewhere(w) ==
    /\ committed' = committed
    /\ layers' = layers
    /\ \A p \in Product : /\ live'[ProductRow(p)] = live[ProductRow(p)]
                          /\ lock'[ProductRow(p)] = lock[ProductRow(p)]
    /\ \A r \in Row : lock'[r] \in {lock[r], w}

\* A statement on other rows than products leaves products alone.
LEMMA WriteElsewhere ==
    ASSUME NEW w \in Worker, NEW new, Write(w, new), layers' = layers,
           \A p \in Product : ProductRow(p) \notin DOMAIN new
    PROVE  Elsewhere(w)
  <1>1. /\ committed' = committed
        /\ \A r \in Row : /\ live'[r] = IF r \in DOMAIN new THEN new[r] ELSE live[r]
                          /\ lock'[r] = IF r \in DOMAIN new THEN w ELSE lock[r]
    BY WriteEffect
  <1> QED
    BY <1>1, RowsThere DEF Elsewhere

\* So does a SELECT.
LEMMA NoWrite ==
    ASSUME RowInv, NEW w \in Worker, UNCHANGED dbVars, layers' = layers
    PROVE  Elsewhere(w) /\ RowInv'
  BY DEF dbVars, Elsewhere, RowInv

\* A step inside a request that writes no product.
LEMMA GoKeeps ==
    ASSUME IInv, NEW w \in Worker, NEW c, CallOK(c), call' = [call EXCEPT ![w] = c],
           c.pc \notin {"idle", "layers", "revalue"}, call[w].pc # "revalue",
           c.method = call[w].method, c.order = call[w].order, c.out = call[w].out,
           c.product = call[w].product \/ c.method = "done",
           Elsewhere(w), RowInv'
    PROVE  IInv'
  <1>1. /\ CallInv'
        /\ call'[w] = c
        /\ \A v \in Worker \ {w} : call'[v] = call[v]
    BY CallKeeps DEF IInv
  <1>2. IdleInv'
    <2> SUFFICES ASSUME NEW v \in Worker, call'[v] = Idle, NEW r \in Row
                 PROVE  lock'[r] # v
      BY DEF IdleInv
    <2>1. v # w /\ call[v] = Idle
      BY <1>1, IdleOK
    <2> QED
      BY <2>1 DEF IInv, IdleInv, Elsewhere
  <1>3. OrderInv'
    BY <1>1 DEF IInv, OrderInv, Elsewhere
  <1>4. AloneInv'
    <2> SUFFICES ASSUME NEW v \in Worker, NEW u \in Worker, v # u, call'[u].method = "land"
                 PROVE  ~Touches(call'[v], call'[u].product)
      BY DEF AloneInv
    <2>1. call[u].method = "land" /\ call'[u].product = call[u].product
      BY <1>1
    <2>2. call[u].product \in Product
      BY <2>1 DEF IInv, CallInv, CallOK
    <2>3. ~Touches(call[v], call[u].product)
      BY <2>1 DEF IInv, AloneInv
    <2>4. CASE v # w
      BY <1>1, <2>1, <2>3, <2>4
    <2>5. CASE v = w /\ c.method # "done"
      BY <1>1, <2>1, <2>3, <2>5 DEF Touches
    <2>6. CASE v = w /\ c.method = "done"
      <3>1. c.product \in Components(c.order) \cup {makes[c.order], NoProduct}
        BY <2>6 DEF CallOK
      <3>2. c.product # call[u].product
        BY <2>2, <2>3, <2>6, <3>1, ProductionAssumption DEF Touches, Components
      <3> QED
        BY <1>1, <2>1, <2>3, <2>6, <3>2 DEF Touches
    <2> QED
      BY <2>4, <2>5, <2>6
  <1>5. Quiet(w)
    BY <1>1 DEF Quiet, Elsewhere
  <1>6. \A p \in Product : lock[ProductRow(p)] = w => Covers(call'[w], p)
    BY <1>1 DEF IInv, ValueInv, Holds, Covers
  <1>7. ValueInv'
    BY <1>5, <1>6, QuietKeeps DEF IInv
  <1> QED
    BY <1>1, <1>2, <1>3, <1>4, <1>7 DEF IInv

\* What callers keep apart stays apart when a request begins.
LEMMA BeginAlone ==
    ASSUME IInv, LandedAlone, NEW w \in Worker, NEW pc, NEW request, Begin(w, pc, request),
           NEW c, c.method = request.method, c.order = request.order, c.product = request.product,
           call'[w] = c, \A v \in Worker \ {w} : call'[v] = call[v]
    PROVE  AloneInv'
  <1>1. \A v \in Worker : ~Bars(request, call[v]) /\ ~Bars(call[v], request)
    BY DEF Begin
  <1>2. \A p : Touches(c, p) <=> Touches(request, p)
    BY DEF Touches
  <1>3. \A v \in Worker : /\ request.method = "land" => ~Touches(call[v], request.product)
                          /\ call[v].method = "land" => ~Touches(request, call[v].product)
    BY <1>1 DEF Bars
  <1> QED
    BY <1>2, <1>3 DEF IInv, AloneInv

\* A request that begins, with a statement on other rows than products or none.
LEMMA BeginKeeps ==
    ASSUME IInv, LandedAlone, NEW w \in Worker, NEW pc, NEW request, Begin(w, pc, request),
           NEW c, c = [request EXCEPT !.pc = pc], CallOK(c),
           c.pc = pc, c.method = request.method, c.order = request.order, c.product = request.product,
           pc \notin {"idle", "layers", "revalue"}, c.out = Idle.out,
           c.method \in Workflow => committed[OrderRow(c.order)].qty > 0,
           Elsewhere(w), RowInv'
    PROVE  IInv'
  <1>1. call[w] = Idle /\ call' = [call EXCEPT ![w] = c]
    BY DEF Begin
  <1>2. /\ CallInv'
        /\ call'[w] = c
        /\ \A v \in Worker \ {w} : call'[v] = call[v]
    BY <1>1, CallKeeps DEF IInv
  <1>3. IdleInv'
    <2>1. call'[w] # Idle
      BY <1>2, IdleOK
    <2> QED
      BY <1>2, <2>1 DEF IInv, IdleInv, Elsewhere
  <1>4. OrderInv'
    BY <1>2 DEF IInv, OrderInv, Elsewhere
  <1>5. AloneInv'
    BY <1>2, BeginAlone
  <1>6. Quiet(w)
    BY <1>1, <1>2, IdleOK DEF Quiet, Elsewhere
  <1>7. \A p \in Product : lock[ProductRow(p)] # w
    BY <1>1, RowsThere DEF IInv, IdleInv
  <1>8. ValueInv'
    BY <1>6, <1>7, QuietKeeps DEF IInv
  <1> QED
    BY <1>2, <1>3, <1>4, <1>5, <1>8 DEF IInv

-----------------------------------------------------------------------------
(* what statements write *)

Other(r) == r = SequenceRow \/ \E o, q : r = MoveRow(o, q) \/ r = WorkRow(o, q)

\* A statement on moves, work orders or the sequence keeps every typed row.
LEMMA OtherWrite ==
    ASSUME RowInv, NEW w \in Worker, NEW new, Write(w, new), layers' = layers,
           \A r \in DOMAIN new : Other(r)
    PROVE  Elsewhere(w) /\ RowInv'
  <1>1. /\ \A p \in Product : ProductRow(p) \notin DOMAIN new /\ QuantRow(p) \notin DOMAIN new
        /\ \A o \in Order : OrderRow(o) \notin DOMAIN new
    BY RowNames DEF Other
  <1> QED
    BY <1>1, WriteElsewhere, WriteKeepsRows

\* upsertDelta keeps the types of rows and leaves products alone.
LEMMA MovedKeeps ==
    ASSUME RowInv, NEW w \in Worker, NEW p \in Product, NEW n \in Int, Moved(w, p, n), layers' = layers
    PROVE  Elsewhere(w) /\ RowInv'
  <1>1. PICK new : new = [r \in {QuantRow(p)} |-> live[r] + n]
    OBVIOUS
  <1>2. Write(w, new)
    BY <1>1 DEF Moved
  <1>3. DOMAIN new = {QuantRow(p)} /\ new[QuantRow(p)] \in Int
    BY <1>1 DEF RowInv
  <1>4. /\ \A q \in Product : ProductRow(q) \notin DOMAIN new
        /\ \A o \in Order : OrderRow(o) \notin DOMAIN new
    BY <1>3, RowNames
  <1>5. \A q \in Product : QuantRow(q) \in DOMAIN new => new[QuantRow(q)] \in Int
    BY <1>3
  <1> QED
    BY <1>2, <1>4, <1>5, WriteElsewhere, WriteKeepsRows

\* An order's row gets another state and keeps its quantity.
LEMMA OrderWrite ==
    ASSUME RowInv, NEW w \in Worker, NEW o, NEW state \in State, NEW new, Write(w, new), layers' = layers,
           DOMAIN new \subseteq {OrderRow(o)},
           o \in Order /\ OrderRow(o) \in DOMAIN new =>
              /\ live[OrderRow(o)].qty > 0
              /\ new[OrderRow(o)] = [live[OrderRow(o)] EXCEPT !.state = state]
    PROVE  Elsewhere(w) /\ RowInv'
  <1>1. \A q \in Product : ProductRow(q) \notin DOMAIN new /\ QuantRow(q) \notin DOMAIN new
    BY RowNames
  <1>2. ASSUME NEW q \in Order, OrderRow(q) \in DOMAIN new
        PROVE  new[OrderRow(q)] \in OrderVersion /\ new[OrderRow(q)].qty > 0
    <2>1. q = o
      BY <1>2, RowNames
    <2>2. live[OrderRow(o)] \in OrderVersion
      BY <2>1 DEF RowInv, OrderOK
    <2> QED
      BY <1>2, <2>1, <2>2 DEF OrderVersion
  <1> QED
    BY <1>1, <1>2, WriteElsewhere, WriteKeepsRows

\* An order somebody sees is there to be written.
LEMMA SeenOrder ==
    ASSUME RowInv, NEW w \in Worker, NEW o \in Order, Visible(w, OrderRow(o)).state # "none"
    PROVE  /\ live[OrderRow(o)].qty > 0
           /\ lock[OrderRow(o)] # w => committed[OrderRow(o)].qty > 0
  BY DEF Visible, RowInv, OrderOK

\* So does a conditional UPDATE of an order's state.
LEMMA OrderStateKeeps ==
    ASSUME RowInv, NEW w \in Worker, NEW o, NEW from, "none" \notin from, NEW to \in State,
           OrderState(w, o, from, to), layers' = layers
    PROVE  Elsewhere(w) /\ RowInv'
  <1>1. PICK new : new = [r \in {s \in {OrderRow(o)} : Visible(w, s).state \in from} |->
                            [live[r] EXCEPT !.state = to]]
    OBVIOUS
  <1>2. Write(w, new)
    BY <1>1 DEF OrderState
  <1>3. /\ DOMAIN new \subseteq {OrderRow(o)}
        /\ OrderRow(o) \in DOMAIN new => /\ Visible(w, OrderRow(o)).state # "none"
                                         /\ new[OrderRow(o)] = [live[OrderRow(o)] EXCEPT !.state = to]
    BY <1>1
  <1>4. o \in Order /\ OrderRow(o) \in DOMAIN new => live[OrderRow(o)].qty > 0
    BY <1>3, SeenOrder
  <1> QED
    BY <1>2, <1>3, <1>4, OrderWrite

\* So does one of moves or work orders.
LEMMA MoveStatesKeeps ==
    ASSUME RowInv, NEW w \in Worker, NEW rows, \A r \in rows : Other(r), NEW from, NEW to,
           MoveStates(w, rows, from, to), layers' = layers
    PROVE  Elsewhere(w) /\ RowInv'
  <1>1. PICK new : new = [r \in {s \in rows : Visible(w, s) \in from} |-> to]
    OBVIOUS
  <1>2. Write(w, new) /\ \A r \in DOMAIN new : Other(r)
    BY <1>1 DEF MoveStates
  <1> QED
    BY <1>2, OtherWrite

\* Products and quotients of whole numbers are whole numbers.
LEMMA Arithmetic ==
    /\ \A a \in Int, b \in Int : a * b \in Int
    /\ \A a \in Int, b \in Nat : b > 0 => a \div b \in Int /\ Quotient(a, b) \in Int
    /\ \A a \in Nat, b \in Nat : a * b \in Nat
  BY DEF Quotient

-----------------------------------------------------------------------------
(* the requests that begin *)

\* A receipt begins.
LEMMA ReceiveKeeps ==
    ASSUME IInv, LandedAlone, NEW w \in Worker, NEW p \in Product, NEW n \in Batch, NEW cost \in Costs,
           Receive(w, p, n, cost)
    PROVE  IInv'
  <1>1. PICK request : request = [[Idle EXCEPT !.qty = n, !.cost = cost] EXCEPT !.method = "receive", !.product = p]
    OBVIOUS
  <1>2. PICK c : c = [request EXCEPT !.pc = "onhand"]
    OBVIOUS
  <1>3. Begin(w, "onhand", request) /\ Moved(w, p, n) /\ layers' = layers
    BY <1>1 DEF Receive, Document
  <1>4. n \in Int /\ cost \in Int
    BY ProductionAssumption
  <1>5. /\ CallOK(c) /\ c.pc = "onhand" /\ c.method = request.method /\ c.method = "receive"
        /\ c.order = request.order /\ c.product = request.product /\ c.out = Idle.out
    <2>1. PICK idle : idle = Idle /\ idle \in Request
      BY IdleOK DEF CallOK
    <2>2. /\ request \in Request /\ request.method = "receive" /\ request.product = p
          /\ request.out = idle.out
      BY <1>1, <1>4, <2>1 DEF Request, Method
    <2>3. /\ c \in Request /\ c.pc = "onhand" /\ c.method = "receive" /\ c.order = request.order
          /\ c.product = p /\ c.out = request.out
      BY ONLY <1>2, <2>2 DEF Request, Place
    <2> QED
      BY <2>1, <2>2, <2>3 DEF CallOK, Workflow
  <1>6. Elsewhere(w) /\ RowInv'
    BY <1>3, <1>4, MovedKeeps DEF IInv
  <1> QED
    BY <1>2, <1>3, <1>5, <1>6, BeginKeeps DEF Workflow

\* A delivery begins.
LEMMA DeliverKeeps ==
    ASSUME IInv, LandedAlone, NEW w \in Worker, NEW p \in Product, NEW n \in Batch, Deliver(w, p, n)
    PROVE  IInv'
  <1>1. PICK request : request = [[Idle EXCEPT !.qty = -n] EXCEPT !.method = "deliver", !.product = p]
    OBVIOUS
  <1>2. PICK c : c = [request EXCEPT !.pc = "onhand"]
    OBVIOUS
  <1>3. Begin(w, "onhand", request) /\ Moved(w, p, -n) /\ layers' = layers
    BY <1>1 DEF Deliver, Document
  <1>4. -n \in Int
    BY ProductionAssumption
  <1>5. /\ CallOK(c) /\ c.pc = "onhand" /\ c.method = request.method /\ c.method = "deliver"
        /\ c.order = request.order /\ c.product = request.product /\ c.out = Idle.out
    <2>1. PICK idle : idle = Idle /\ idle \in Request
      BY IdleOK DEF CallOK
    <2>2. /\ request \in Request /\ request.method = "deliver" /\ request.product = p
          /\ request.out = idle.out
      BY <1>1, <1>4, <2>1 DEF Request, Method
    <2>3. /\ c \in Request /\ c.pc = "onhand" /\ c.method = "deliver" /\ c.order = request.order
          /\ c.product = p /\ c.out = request.out
      BY ONLY <1>2, <2>2 DEF Request, Place
    <2> QED
      BY <2>1, <2>2, <2>3 DEF CallOK, Workflow
  <1>6. Elsewhere(w) /\ RowInv'
    BY <1>3, <1>4, MovedKeeps DEF IInv
  <1> QED
    BY <1>2, <1>3, <1>5, <1>6, BeginKeeps DEF Workflow

\* Nobody who begins holds the row of an order.
LEMMA SeenByAll ==
    ASSUME IInv, NEW w \in Worker, call[w] = Idle, NEW o \in Order, Visible(w, OrderRow(o)).state # "none"
    PROVE  committed[OrderRow(o)].qty > 0
  <1>1. lock[OrderRow(o)] # w
    BY RowsThere DEF IInv, IdleInv
  <1> QED
    BY <1>1, SeenOrder DEF IInv

\* A request on an order, other than mark done, begins.
LEMMA ForKeeps ==
    ASSUME IInv, LandedAlone, NEW w \in Worker, NEW m \in Method, m \notin {"land", "done"}, NEW o \in Order,
           NEW pc \in Place,
           pc \notin {"idle", "onhand", "layers", "revalue", "raw", "move", "done", "number", "confirmed"},
           pc = "explode" => m = "confirm",
           Begin(w, pc, For(m, o)),
           m \in Workflow => Visible(w, OrderRow(o)).state # "none",
           Elsewhere(w), RowInv'
    PROVE  IInv'
  <1>1. PICK c : c = [For(m, o) EXCEPT !.pc = pc]
    OBVIOUS
  <1>2. /\ CallOK(c) /\ c.pc = pc /\ c.method = m /\ c.order = o /\ c.product = NoProduct
        /\ c.out = Idle.out
        /\ For(m, o).method = m /\ For(m, o).order = o /\ For(m, o).product = NoProduct
    BY <1>1, IdleOK DEF For, CallOK, Request, Workflow
  <1>3. call[w] = Idle
    BY DEF Begin
  <1>4. m \in Workflow => committed[OrderRow(o)].qty > 0
    BY <1>3, SeenByAll
  <1> QED
    BY <1>1, <1>2, <1>4, BeginKeeps

\* action_confirm begins.
LEMMA ConfirmKeeps ==
    ASSUME IInv, LandedAlone, NEW w \in Worker, NEW o \in Order, Confirm(w, o)
    PROVE  IInv'
  <1>1. Elsewhere(w) /\ RowInv'
    BY NoWrite DEF Confirm, history, IInv
  <1>2. Begin(w, "explode", For("confirm", o)) /\ Visible(w, OrderRow(o)).state # "none"
    BY DEF Confirm
  <1> QED
    BY <1>1, <1>2, ForKeeps DEF Method, Place

\* Moves and work orders are rows nothing is proved of.
LEMMA WorkOther ==
    \A o, k : Other(WorkRow(o, k)) /\ Other(MoveRow(o, k))
  BY DEF Other

\* action_cancel begins.
LEMMA CancelKeeps ==
    ASSUME IInv, LandedAlone, NEW w \in Worker, NEW o \in Order, Cancel(w, o)
    PROVE  IInv'
  <1>1. \A r \in MoveRows(o) : Other(r)
    BY WorkOther DEF MoveRows, RawRows
  <1>2. Elsewhere(w) /\ RowInv'
    BY <1>1, MoveStatesKeeps DEF Cancel, history, IInv
  <1>3. Begin(w, "cancel work", For("cancel", o)) /\ Visible(w, OrderRow(o)).state # "none"
    BY DEF Cancel
  <1> QED
    BY <1>2, <1>3, ForKeeps DEF Method, Place

\* The start or the finish of a work order begins.
LEMMA WorkKeeps ==
    ASSUME IInv, LandedAlone, NEW w \in Worker, NEW o \in Order, NEW k \in Operation,
           StartWork(w, o, k) \/ FinishWork(w, o, k)
    PROVE  IInv'
  <1>1. \A r \in {WorkRow(o, k)} : Other(r)
    BY WorkOther
  <1>2. Elsewhere(w) /\ RowInv'
    BY <1>1, MoveStatesKeeps DEF StartWork, FinishWork, history, IInv
  <1>3. \/ Begin(w, "start order", For("start", o))
        \/ Begin(w, "close order", For("finish", o))
    BY DEF StartWork, FinishWork
  <1> QED
    BY <1>2, <1>3, ForKeeps DEF Workflow, Method, Place

\* handleMarkDone begins, for components of its order only.
LEMMA MarkDoneKeeps ==
    ASSUME IInv, LandedAlone, NEW w \in Worker, NEW o \in Order, MarkDone(w, o)
    PROVE  IInv'
  <1>1. PICK todo : todo = {p \in Components(o) : Visible(w, MoveRow(o, p)) = "confirmed"}
    OBVIOUS
  <1>2. PICK request : request = [For("done", o) EXCEPT !.todo = todo]
    OBVIOUS
  <1>3. PICK c : c = [request EXCEPT !.pc = "raw"]
    OBVIOUS
  <1>4. /\ Begin(w, "raw", request)
        /\ Visible(w, OrderRow(o)).state # "none"
        /\ call[w] = Idle
    BY <1>1, <1>2 DEF MarkDone, Begin
  <1>5. todo \subseteq Components(o) /\ todo \subseteq Product
    BY <1>1 DEF Components
  <1>6. /\ CallOK(c) /\ c.pc = "raw" /\ c.method = request.method /\ c.order = o
        /\ c.order = request.order /\ c.product = request.product /\ c.out = Idle.out
    <2>1. PICK idle : idle = Idle /\ idle \in Request
      BY IdleOK DEF CallOK
    <2>2. o \in Order /\ todo \in SUBSET Product
      BY <1>5
    <2>3. /\ request \in Request /\ request.method = "done" /\ request.order = o
          /\ request.product = idle.product /\ request.todo = todo /\ request.out = idle.out
      BY <1>2, <2>1, <2>2 DEF For, Request, Method
    <2>4. /\ c \in Request /\ c.pc = "raw" /\ c.method = "done" /\ c.order = o
          /\ c.product = request.product /\ c.todo = todo /\ c.out = request.out
      BY ONLY <1>3, <2>3 DEF Request, Place
    <2>5. idle.product = NoProduct
      BY <2>1, IdleOK
    <2> QED
      BY <1>5, <2>1, <2>3, <2>4, <2>5 DEF CallOK, Workflow
  <1>7. committed[OrderRow(o)].qty > 0
    BY <1>4, SeenByAll
  <1>8. Elsewhere(w) /\ RowInv'
    BY NoWrite DEF MarkDone, history, IInv
  <1> QED
    BY <1>3, <1>4, <1>6, <1>7, <1>8, BeginKeeps

\* runReorderScheduler begins.
LEMMA ReorderKeeps ==
    ASSUME IInv, LandedAlone, NEW w \in Worker, NEW p \in Product, Reorder(w, p)
    PROVE  IInv'
  <1>1. PICK q : q = Visible(w, QuantRow(p))
    OBVIOUS
  <1>2. PICK request : request = [Idle EXCEPT !.method = "reorder", !.product = p, !.qty = q]
    OBVIOUS
  <1>3. PICK c : c = [request EXCEPT !.pc = "forecast"]
    OBVIOUS
  <1>4. Begin(w, "forecast", request)
    BY <1>1, <1>2 DEF Reorder
  <1>5. q \in Int
    BY <1>1 DEF Visible, IInv, RowInv
  <1>6. /\ CallOK(c) /\ c.pc = "forecast" /\ c.method = request.method /\ c.method = "reorder"
        /\ c.order = request.order /\ c.product = request.product /\ c.out = Idle.out
    <2>1. PICK idle : idle = Idle /\ idle \in Request
      BY IdleOK DEF CallOK
    <2>2. /\ request \in Request /\ request.method = "reorder" /\ request.out = idle.out
      BY <1>2, <1>5, <2>1 DEF Request, Method
    <2>3. /\ c \in Request /\ c.pc = "forecast" /\ c.method = "reorder" /\ c.order = request.order
          /\ c.product = request.product /\ c.out = request.out
      BY ONLY <1>3, <2>2 DEF Request, Place
    <2> QED
      BY <2>1, <2>2, <2>3 DEF CallOK, Workflow
  <1>7. Elsewhere(w) /\ RowInv'
    BY NoWrite DEF Reorder, history, IInv
  <1> QED
    BY <1>3, <1>4, <1>6, <1>7, BeginKeeps DEF Workflow

-----------------------------------------------------------------------------
(* the steps of a request that write no product *)

\* A request goes on to pc and keeps everything else.
LEMMA GotoKeeps ==
    ASSUME IInv, NEW w \in Worker, NEW pc \in Place, Goto(w, pc),
           pc \notin {"idle", "onhand", "layers", "revalue"}, call[w].pc # "revalue",
           pc \in {"raw", "move", "done"} => call[w].method = "done",
           pc \in {"explode", "number", "confirmed"} => call[w].method = "confirm",
           Elsewhere(w), RowInv'
    PROVE  IInv'
  <1>1. PICK old : old = call[w]
    OBVIOUS
  <1>2. PICK c : c = [old EXCEPT !.pc = pc]
    OBVIOUS
  <1>3. call' = [call EXCEPT ![w] = c]
    BY <1>1, <1>2 DEF Goto
  <1>4. CallOK(old)
    BY <1>1 DEF IInv, CallInv
  <1>5. /\ c \in Request /\ c.pc = pc /\ c.method = old.method /\ c.order = old.order
        /\ c.product = old.product /\ c.todo = old.todo /\ c.out = old.out
    BY <1>2, <1>4 DEF CallOK, Request
  <1>6. CallOK(c)
    BY <1>1, <1>4, <1>5 DEF CallOK
  <1> QED
    BY <1>1, <1>3, <1>5, <1>6, GoKeeps

\* The bill explodes into moves and work orders.
LEMMA ExplodeKeeps ==
    ASSUME IInv, NEW w \in Worker, Explode(w)
    PROVE  IInv'
  <1>1. PICK o : o = call[w].order
    OBVIOUS
  <1>2. PICK new : new = [r \in MoveRows(o) \cup WorkRows(o) |->
                            IF r \in MoveRows(o) THEN "confirmed" ELSE "ready"]
    OBVIOUS
  <1>3. Write(w, new) /\ layers' = layers /\ call[w].pc = "explode" /\ Goto(w, "number")
    BY <1>1, <1>2 DEF Explode, history, At
  <1>4. \A r \in DOMAIN new : Other(r)
    BY <1>2, WorkOther DEF MoveRows, RawRows, WorkRows
  <1>5. Elsewhere(w) /\ RowInv'
    BY <1>3, <1>4, OtherWrite DEF IInv
  <1>6. call[w].method = "confirm"
    BY <1>3 DEF IInv, CallInv, CallOK
  <1> QED
    BY <1>3, <1>5, <1>6, GotoKeeps DEF Place

\* The order gets its number.
LEMMA NumberKeeps ==
    ASSUME IInv, NEW w \in Worker, DrawNumber(w)
    PROVE  IInv'
  <1>1. PICK new : new = [r \in {SequenceRow} |-> live[r]]
    OBVIOUS
  <1>2. Write(w, new) /\ layers' = layers /\ call[w].pc = "number" /\ Goto(w, "confirmed")
    BY <1>1 DEF DrawNumber, history, At
  <1>3. \A r \in DOMAIN new : Other(r)
    BY <1>1 DEF Other
  <1>4. Elsewhere(w) /\ RowInv'
    BY <1>2, <1>3, OtherWrite DEF IInv
  <1>5. call[w].method = "confirm"
    BY <1>2 DEF IInv, CallInv, CallOK
  <1> QED
    BY <1>2, <1>4, <1>5, GotoKeeps DEF Place

\* The order of a request of the workflow is there to be written.
LEMMA OrderThere ==
    ASSUME IInv, NEW w \in Worker, call[w].method \in Workflow
    PROVE  /\ call[w].order \in Order
           /\ live[OrderRow(call[w].order)] \in OrderVersion
           /\ live[OrderRow(call[w].order)].qty > 0
  <1>1. call[w].order \in Order
    BY DEF IInv, CallInv, CallOK
  <1> QED
    BY <1>1 DEF IInv, OrderInv, RowInv, OrderOK

\* The order is confirmed or done.
LEMMA SetStateKeeps ==
    ASSUME IInv, NEW w \in Worker, NEW state \in {"confirmed", "done"}, SetState(w, state)
    PROVE  IInv'
  <1>1. PICK r : r = OrderRow(call[w].order)
    OBVIOUS
  <1>2. PICK new : new = [s \in {r} |-> [live[s] EXCEPT !.state = state]]
    OBVIOUS
  <1>3. Write(w, new) /\ layers' = layers /\ call[w].pc = state /\ Goto(w, "commit")
    BY <1>1, <1>2 DEF SetState, history, At
  <1>4. call[w].method \in Workflow
    BY <1>3 DEF IInv, CallInv, CallOK, Workflow
  <1>5. /\ DOMAIN new = {OrderRow(call[w].order)}
        /\ new[OrderRow(call[w].order)] = [live[OrderRow(call[w].order)] EXCEPT !.state = state]
    BY <1>1, <1>2
  <1>6. Elsewhere(w) /\ RowInv'
    BY <1>3, <1>4, <1>5, OrderThere, OrderWrite DEF IInv, State
  <1> QED
    BY <1>3, <1>6, GotoKeeps DEF Place

\* The work orders are cancelled.
LEMMA CancelWorkKeeps ==
    ASSUME IInv, NEW w \in Worker, CancelWork(w)
    PROVE  IInv'
  <1>1. \A r \in WorkRows(call[w].order) : Other(r)
    BY WorkOther DEF WorkRows
  <1>2. /\ MoveStates(w, WorkRows(call[w].order), {"ready", "progress"}, "cancel")
        /\ layers' = layers /\ call[w].pc = "cancel work" /\ Goto(w, "cancel order")
    BY DEF CancelWork, history, At
  <1>3. Elsewhere(w) /\ RowInv'
    BY <1>1, <1>2, MoveStatesKeeps DEF IInv
  <1> QED
    BY <1>2, <1>3, GotoKeeps DEF Place

\* The order is cancelled, in progress or to close.
LEMMA OrderStepKeeps ==
    ASSUME IInv, NEW w \in Worker, CancelOrder(w) \/ StartOrder(w) \/ CloseOrder(w)
    PROVE  IInv'
  <1>1. Elsewhere(w) /\ RowInv'
    <2>1. CASE CancelOrder(w)
      BY <2>1, OrderStateKeeps DEF CancelOrder, history, IInv, State
    <2>2. CASE StartOrder(w)
      BY <2>2, OrderStateKeeps DEF StartOrder, history, IInv, State
    <2>3. CASE CloseOrder(w)
      <3>1. PICK from : /\ from \in {{"confirmed", "progress"}, {}}
                        /\ OrderState(w, call[w].order, from, "to_close")
        BY <2>3 DEF CloseOrder
      <3> QED
        BY <2>3, <3>1, OrderStateKeeps DEF CloseOrder, history, IInv, State
    <2> QED
      BY <2>1, <2>2, <2>3
  <1>2. /\ layers' = layers /\ Goto(w, "commit")
        /\ call[w].pc \in {"cancel order", "start order", "close order"}
    BY DEF CancelOrder, StartOrder, CloseOrder, history, At
  <1> QED
    BY <1>1, <1>2, GotoKeeps DEF Place

\* A move is done.
LEMMA MoveDoneKeeps ==
    ASSUME IInv, NEW w \in Worker, MoveDone(w)
    PROVE  IInv'
  <1>1. PICK new : new = [r \in {MoveRow(call[w].order, call[w].product)} |-> "done"]
    OBVIOUS
  <1>2. PICK pc : pc \in {"done", "raw"} /\ Goto(w, pc)
    BY DEF MoveDone
  <1>3. Write(w, new) /\ layers' = layers /\ call[w].pc = "move"
    BY <1>1 DEF MoveDone, history, At
  <1>4. call[w].method = "done"
    BY <1>3 DEF IInv, CallInv, CallOK
  <1>5. Elsewhere(w) /\ RowInv'
    BY <1>1, <1>3, WorkOther, OtherWrite DEF IInv
  <1> QED
    BY <1>2, <1>3, <1>4, <1>5, GotoKeeps DEF Place

\* A component leaves stock: its product is one the request may lock.
LEMMA ConsumeKeeps ==
    ASSUME IInv, NEW w \in Worker, NEW p \in Product, ConsumeRaw(w, p)
    PROVE  IInv'
  <1>1. PICK old : old = call[w]
    OBVIOUS
  <1>2. PICK n : n = live[OrderRow(old.order)].qty * needs[makes[old.order]][p]
    OBVIOUS
  <1>3. PICK worth : worth = old.worth + n * Visible(w, ProductRow(p)).price
    OBVIOUS
  <1>4. PICK c : c = [old EXCEPT !.pc = "onhand", !.todo = @ \ {p}, !.product = p, !.qty = -n,
                                 !.drawn = 0, !.worth = worth]
    OBVIOUS
  <1>5. /\ old.pc = "raw" /\ p \in old.todo /\ Moved(w, p, -n) /\ layers' = layers
        /\ call' = [call EXCEPT ![w] = c]
    BY <1>1, <1>2, <1>3, <1>4 DEF ConsumeRaw, history, At
  <1>6. CallOK(old) /\ old.method = "done"
    BY <1>1, <1>5 DEF IInv, CallInv, CallOK
  <1>7. n \in Int
    <2>1. old.order \in Order /\ live[OrderRow(old.order)].qty \in Int
      BY <1>1, <1>6, OrderThere DEF Workflow, OrderVersion
    <2>2. needs[makes[old.order]][p] \in Int
      BY <2>1, ProductionAssumption
    <2> QED
      BY <1>2, <2>1, <2>2, Arithmetic
  <1>8. worth \in Int
    <2>1. Visible(w, ProductRow(p)).price \in Int
      BY DEF Visible, IInv, RowInv, ProductVersion
    <2>2. old.worth \in Int
      BY <1>6 DEF CallOK, Request
    <2>3. n * Visible(w, ProductRow(p)).price \in Int
      BY <1>7, <2>1, Arithmetic
    <2> QED
      BY <1>3, <2>2, <2>3
  <1>9. /\ c \in Request /\ c.pc = "onhand" /\ c.method = old.method /\ c.order = old.order
        /\ c.product = p /\ c.todo \subseteq old.todo /\ c.out = old.out
    <2>1. old \in Request /\ "onhand" \in Place /\ -n \in Int /\ 0 \in Int
      BY <1>6, <1>7 DEF CallOK, Place
    <2>2. old.todo \ {p} \in SUBSET Product
      BY <2>1 DEF Request
    <2>3. c \in Request
      BY <1>4, <1>8, <2>1, <2>2, Zenon DEF Request
    <2> QED
      BY <1>4, <2>1, <2>3 DEF Request
  <1>10. CallOK(c)
    BY <1>5, <1>6, <1>9 DEF CallOK
  <1>11. Elsewhere(w) /\ RowInv'
    BY <1>5, <1>7, MovedKeeps DEF IInv
  <1> QED
    BY <1>1, <1>5, <1>6, <1>9, <1>10, <1>11, GoKeeps

\* The request once its finished product is on the way into stock.
WithProduct(old, p, n) ==
    [old EXCEPT !.pc = "onhand", !.product = p, !.qty = n, !.cost = Quotient(old.worth, n)]

\* What the step writes when the move is still confirmed.
LEMMA ProduceStep ==
    ASSUME NEW w \in Worker, ProduceFinished(w),
           NEW p, p = makes[call[w].order], NEW n, n = live[OrderRow(call[w].order)].qty,
           Visible(w, MoveRow(call[w].order, p)) = "confirmed"
    PROVE  /\ Moved(w, p, n)
           /\ call' = [call EXCEPT ![w] = WithProduct(call[w], p, n)]
  <1>1. /\ Moved(w, p, n)
        /\ call' = [call EXCEPT ![w].pc = "onhand", ![w].product = p, ![w].qty = n,
                                ![w].cost = Quotient(call[w].worth, n)]
    BY DEF ProduceFinished
  <1> QED
    BY <1>1 DEF WithProduct

\* The invariant is kept.
LEMMA ProduceKeeps ==
    ASSUME IInv, NEW w \in Worker, ProduceFinished(w)
    PROVE  IInv'
  <1>1. PICK old : old = call[w]
    OBVIOUS
  <1>2. /\ old.pc = "raw" /\ layers' = layers
    BY <1>1 DEF ProduceFinished, history, At
  <1>3. CallOK(old) /\ old.method = "done"
    BY <1>1, <1>2 DEF IInv, CallInv, CallOK
  <1>4. CASE Goto(w, "done") /\ UNCHANGED dbVars
    <2>1. Elsewhere(w) /\ RowInv'
      BY <1>2, <1>4, NoWrite DEF IInv
    <2> QED
      BY <1>1, <1>2, <1>3, <1>4, <2>1, GotoKeeps DEF Place
  <1>5. CASE ~(Goto(w, "done") /\ UNCHANGED dbVars)
    <2>1. PICK p : p = makes[old.order]
      OBVIOUS
    <2>2. PICK n : n = live[OrderRow(old.order)].qty
      OBVIOUS
    <2>3. PICK cost : cost = Quotient(old.worth, n)
      OBVIOUS
    <2>4. PICK c : c = [old EXCEPT !.pc = "onhand", !.product = p, !.qty = n, !.cost = cost]
      OBVIOUS
    <2>5. Moved(w, p, n) /\ call' = [call EXCEPT ![w] = c]
      <3>1. Visible(w, MoveRow(old.order, p)) = "confirmed"
        BY <1>1, <1>5, <2>1 DEF ProduceFinished
      <3>2. /\ Moved(w, p, n)
            /\ call' = [call EXCEPT ![w] = WithProduct(call[w], p, n)]
        BY <1>1, <2>1, <2>2, <3>1, ProduceStep
      <3>3. c = WithProduct(call[w], p, n)
        BY ONLY <1>1, <2>3, <2>4 DEF WithProduct
      <3> QED
        BY ONLY <3>2, <3>3
    <2>6. old.order \in Order /\ n \in Nat /\ n > 0
      BY <1>1, <1>3, <2>2, OrderThere DEF Workflow, OrderVersion
    <2>7. p \in Product
      BY <2>1, <2>6, ProductionAssumption
    <2>8. cost \in Int
      <3>1. old.worth \in Int
        BY <1>3 DEF CallOK, Request
      <3> QED
        BY <2>3, <2>6, <3>1, Arithmetic
    <2>9. /\ c \in Request /\ c.pc = "onhand" /\ c.method = old.method /\ c.order = old.order
          /\ c.product = p /\ c.todo = old.todo /\ c.out = old.out
      <3>1. old \in Request /\ "onhand" \in Place
        BY <1>3 DEF CallOK, Place
      <3>2. n \in Int
        BY <2>6
      <3>3. c \in Request
        BY <2>4, <2>7, <2>8, <3>1, <3>2, Zenon DEF Request
      <3> QED
        BY <2>4, <3>1, <3>3 DEF Request
    <2>10. CallOK(c)
      BY <1>3, <2>1, <2>6, <2>7, <2>9 DEF CallOK
    <2>11. Elsewhere(w) /\ RowInv'
      BY <1>2, <2>5, <2>6, <2>7, MovedKeeps DEF IInv
    <2> QED
      BY <1>1, <1>2, <1>3, <2>5, <2>9, <2>10, <2>11, GoKeeps
  <1> QED
    BY <1>4, <1>5

\* A replenishment is drafted, or none is needed.
LEMMA ReplenishKeeps ==
    ASSUME IInv, NEW w \in Worker, Replenish(w)
    PROVE  IInv'
  <1>1. PICK n : /\ n \in 0..MaxOrder
                 /\ IF n = 0 THEN UNCHANGED dbVars
                    ELSE \E o \in Order : Write(w, [r \in {OrderRow(o)} |-> [state |-> "draft", qty |-> n]])
    BY DEF Replenish
  <1>2. layers' = layers /\ call[w].pc = "forecast" /\ Goto(w, "commit")
    BY DEF Replenish, history, At
  <1>3. Elsewhere(w) /\ RowInv'
    <2>1. CASE n = 0
      BY <1>1, <1>2, <2>1, NoWrite DEF IInv
    <2>2. CASE n # 0
      <3>1. PICK o \in Order : Write(w, [r \in {OrderRow(o)} |-> [state |-> "draft", qty |-> n]])
        BY <1>1, <2>2
      <3>2. PICK new : new = [r \in {OrderRow(o)} |-> [state |-> "draft", qty |-> n]]
        OBVIOUS
      <3>3. n \in Nat /\ n > 0
        BY <1>1, <2>2, ProductionAssumption
      <3>4. /\ DOMAIN new = {OrderRow(o)}
            /\ new[OrderRow(o)] \in OrderVersion /\ new[OrderRow(o)].qty > 0
        BY <3>2, <3>3 DEF OrderVersion, State
      <3>5. /\ \A p \in Product : ProductRow(p) \notin DOMAIN new /\ QuantRow(p) \notin DOMAIN new
            /\ \A q \in Order : OrderRow(q) \in DOMAIN new => q = o
        BY <3>4, RowNames
      <3>6. Write(w, new)
        BY <3>1, <3>2
      <3> QED
        BY <1>2, <3>4, <3>5, <3>6, WriteElsewhere, WriteKeepsRows DEF IInv
    <2> QED
      BY <2>1, <2>2
  <1> QED
    BY <1>2, <1>3, GotoKeeps DEF Place

-----------------------------------------------------------------------------
(* the steps that write a product *)

\* A request writes its own product, by what it adds to the layers.
LEMMA ProductKeeps ==
    ASSUME IInv, NEW w \in Worker, NEW p \in Product, p = call[w].product,
           NEW row \in ProductVersion, NEW new, Write(w, new), layers' = layers,
           DOMAIN new = {ProductRow(p)}, new[ProductRow(p)] = row,
           NEW c, CallOK(c), call' = [call EXCEPT ![w] = c],
           c.method = call[w].method, c.order = call[w].order, c.product = p,
           c.pc \notin {"idle", "revalue"},
           \A q \in Product : q # p => c.out[q] = call[w].out[q],
           row.quantity = layers[p].qty + c.out[p].qty,
           row.value = layers[p].value + c.out[p].value,
           c.pc = "layers" => c.copy.quantity = row.quantity /\ c.copy.value = row.value
    PROVE  IInv'
  <1>1. /\ CallInv'
        /\ call'[w] = c
        /\ \A v \in Worker \ {w} : call'[v] = call[v]
    BY CallKeeps DEF IInv
  <1>2. /\ committed' = committed
        /\ live'[ProductRow(p)] = row /\ lock'[ProductRow(p)] = w
        /\ lock[ProductRow(p)] \in {w, NoTxn}
        /\ \A r \in Row \ {ProductRow(p)} : live'[r] = live[r] /\ lock'[r] = lock[r]
    BY WriteEffect, RowsThere
  <1>3. \A q \in Product \ {p} : /\ live'[ProductRow(q)] = live[ProductRow(q)]
                                 /\ lock'[ProductRow(q)] = lock[ProductRow(q)]
    BY <1>2, RowsThere, RowNames
  <1>4. RowInv'
    <2>1. /\ \A q \in Product : ProductRow(q) \in DOMAIN new => q = p
          /\ \A q \in Product : QuantRow(q) \notin DOMAIN new
          /\ \A o \in Order : OrderRow(o) \notin DOMAIN new
      BY RowNames
    <2> QED
      BY <2>1, WriteKeepsRows DEF IInv
  <1>5. IdleInv'
    <2>1. c # Idle
      BY IdleOK
    <2>2. \A r \in Row : lock'[r] = lock[r] \/ lock'[r] = w
      BY <1>2
    <2> QED
      BY <1>1, <2>1, <2>2 DEF IInv, IdleInv
  <1>6. OrderInv'
    BY <1>1, <1>2 DEF IInv, OrderInv
  <1>7. AloneInv'
    BY <1>1 DEF IInv, AloneInv, Touches
  <1>8. Covers(c, p)
    <2>1. CASE c.method = "done"
      <3>1. p # NoProduct
        BY ProductionAssumption
      <3> QED
        BY <2>1, <3>1 DEF CallOK, Components, Covers
    <2> QED
      BY <2>1 DEF Covers
  <1>9. NoTxn # w
    BY NoTxnAssumption
  <1>10. CacheMatchesLayers'
    BY <1>2 DEF IInv, ValueInv, CacheMatchesLayers
  <1>11. \A q \in Product : lock'[ProductRow(q)] = NoTxn => live'[ProductRow(q)] = committed'[ProductRow(q)]
    BY <1>2, <1>3, <1>9 DEF IInv, ValueInv
  <1>12. ASSUME NEW q \in Product, NEW v \in Worker, lock'[ProductRow(q)] = v
         PROVE  Holds(v, q)'
    <2>1. CASE q = p
      BY <1>1, <1>2, <1>8, <1>12, <2>1 DEF Holds, Landing, Covers
    <2>2. CASE q # p
      <3>1. Holds(v, q)
        BY <1>3, <1>12, <2>2 DEF IInv, ValueInv
      <3>2. CASE v = w
        BY <1>1, <1>3, <2>2, <3>1, <3>2 DEF Holds, Landing, Covers
      <3>3. CASE v # w
        BY <1>1, <1>3, <2>2, <3>1, <3>3 DEF Holds, Landing, Covers
      <3> QED
        BY <3>2, <3>3
    <2> QED
      BY <2>1, <2>2
  <1>13. ASSUME NEW q \in Product, NEW v \in Worker, lock'[ProductRow(q)] # v, ~Landing(v, q)'
         PROVE  call'[v].out[q] = Zero
    <2>1. CASE v = w
      <3>1. q # p
        BY <1>2, <1>13, <2>1
      <3>2. lock[ProductRow(q)] # w /\ ~Landing(w, q)
        BY <1>3, <1>13, <2>1, <3>1 DEF Landing
      <3> QED
        BY <1>1, <2>1, <3>1, <3>2 DEF IInv, ValueInv
    <2>2. CASE v # w
      <3>1. lock[ProductRow(q)] # v
        BY <1>2, <1>3, <1>13, <2>2, NoTxnAssumption
      <3>2. ~Landing(v, q)
        BY <1>1, <1>13, <2>2 DEF Landing
      <3> QED
        BY <1>1, <2>2, <3>1, <3>2 DEF IInv, ValueInv
    <2> QED
      BY <2>1, <2>2
  <1>14. ASSUME NEW v \in Worker
         PROVE  Reads(v)'
    <2>1. CASE v = w
      BY <1>1, <1>2, <2>1 DEF Reads
    <2>2. CASE v # w
      <3>1. call'[v] = call[v] /\ Reads(v)
        BY <1>1, <2>2 DEF IInv, ValueInv
      <3>2. call[v].pc \in {"layers", "revalue"} => call[v].product \in Product
        BY DEF IInv, CallInv, CallOK
      <3>3. call[v].pc = "layers" => call[v].product # p
        BY <1>2, <2>2, <3>1, NoTxnAssumption DEF Reads
      <3> QED
        BY <1>2, <1>3, <3>1, <3>2, <3>3 DEF Reads
    <2> QED
      BY <2>1, <2>2
  <1>15. ValueInv'
    BY <1>10, <1>11, <1>12, <1>13, <1>14 DEF ValueInv
  <1> QED
    BY <1>1, <1>4, <1>5, <1>6, <1>7, <1>15 DEF IInv

\* Whoever may write a product and has not counted a layer of it yet sees the
\* committed layers and its own.
LEMMA LiveValue ==
    ASSUME IInv, NEW w \in Worker, NEW p \in Product, ~Landing(w, p),
           lock[ProductRow(p)] \in {w, NoTxn}
    PROVE  /\ live[ProductRow(p)].quantity = layers[p].qty + call[w].out[p].qty
           /\ live[ProductRow(p)].value = layers[p].value + call[w].out[p].value
  <1>1. CASE lock[ProductRow(p)] = w
    BY <1>1 DEF IInv, ValueInv, Holds
  <1>2. CASE lock[ProductRow(p)] = NoTxn
    <2>1. live[ProductRow(p)] = committed[ProductRow(p)] /\ call[w].out[p] = Zero
      BY <1>2, NoTxnAssumption DEF IInv, ValueInv
    <2>2. /\ layers[p].qty \in Int /\ layers[p].value \in Int
          /\ call[w].out[p].qty = 0 /\ call[w].out[p].value = 0
      <3>1. Zero.qty = 0 /\ Zero.value = 0
        BY DEF Zero
      <3>2. layers[p] \in Amount
        BY DEF IInv, RowInv
      <3> QED
        BY <2>1, <3>1, <3>2 DEF Amount
    <2> QED
      BY <2>1, <2>2 DEF IInv, ValueInv, CacheMatchesLayers
  <1> QED
    BY <1>1, <1>2

\* Under the lock taken here the SELECT returns the layers and the request's own.
LEMMA RefreshKeeps ==
    ASSUME IInv, NEW w \in Worker, RefreshOnHand(w)
    PROVE  IInv'
  <1>1. PICK old : old = call[w]
    OBVIOUS
  <1>2. PICK p : p = old.product
    OBVIOUS
  <1>3. PICK row : row = live[ProductRow(p)]
    OBVIOUS
  <1>4. PICK new : new = [r \in {ProductRow(p)} |-> live[r]]
    OBVIOUS
  <1>5. PICK left : left = IF old.qty < 0 THEN -old.qty ELSE 0
    OBVIOUS
  <1>6. PICK c : c = [old EXCEPT !.pc = "layers", !.copy = row, !.left = left]
    OBVIOUS
  <1>7. /\ old.pc = "onhand" /\ Write(w, new) /\ layers' = layers
        /\ call' = [call EXCEPT ![w] = c]
    BY <1>1, <1>2, <1>3, <1>4, <1>5, <1>6 DEF RefreshOnHand, history, At
  <1>8. CallOK(old) /\ p \in Product
    BY <1>1, <1>2, <1>7 DEF IInv, CallInv, CallOK
  <1>9. row \in ProductVersion
    BY <1>3, <1>8 DEF IInv, RowInv
  <1>10. /\ c \in Request /\ c.pc = "layers" /\ c.method = old.method /\ c.order = old.order
         /\ c.product = p /\ c.todo = old.todo /\ c.out = old.out /\ c.copy = row
    <2>1. old \in Request /\ "layers" \in Place
      BY <1>8 DEF CallOK, Place
    <2>2. left \in Int
      BY <1>5, <2>1 DEF Request
    <2>3. c \in Request
      BY <1>6, <1>9, <2>1, <2>2, Zenon DEF Request
    <2> QED
      BY <1>2, <1>6, <2>1, <2>3 DEF Request
  <1>11. CallOK(c)
    BY <1>2, <1>8, <1>10 DEF CallOK
  <1>12. DOMAIN new = {ProductRow(p)} /\ new[ProductRow(p)] = row
    BY <1>3, <1>4
  <1>13. lock[ProductRow(p)] \in {w, NoTxn}
    BY <1>7, <1>8, <1>12, WriteEffect, RowsThere
  <1>14. /\ row.quantity = layers[p].qty + c.out[p].qty
         /\ row.value = layers[p].value + c.out[p].value
    BY <1>1, <1>3, <1>7, <1>8, <1>10, <1>13, LiveValue DEF Landing
  <1> QED
    BY <1>1, <1>2, <1>7, <1>8, <1>9, <1>10, <1>11, <1>12, <1>14, ProductKeeps

\* A layer's value and a new standard price are whole numbers.
LEMMA ValuesAreNumbers ==
    ASSUME NEW c \in Request, NEW old \in Int, NEW quantity \in Int, NEW value \in Int
    PROVE  LayerValue(c) \in Int /\ NewPrice(c, old, quantity, value) \in Int
  <1>1. c.qty \in Int /\ c.cost \in Int /\ c.drawn \in Int /\ c.left \in Int /\ c.copy.price \in Int
    BY DEF Request, ProductVersion
  <1>2. c.qty * c.cost \in Int /\ c.qty * c.copy.price \in Int /\ c.left * c.copy.price \in Int
    BY <1>1, Arithmetic
  <1>3. LayerValue(c) \in Int
    BY <1>1, <1>2 DEF LayerValue
  <1>4. quantity > 0 => Quotient(value, quantity) \in Int
    BY Arithmetic
  <1> QED
    BY <1>3, <1>4 DEF NewPrice

\* The sum is written back under the lock it was read under.
LEMMA WriteCachesKeeps ==
    ASSUME IInv, NoFifo, NEW w \in Worker, WriteCaches(w)
    PROVE  IInv'
  <1>1. PICK old : old = call[w]
    OBVIOUS
  <1>2. PICK p : p = old.product
    OBVIOUS
  <1>3. PICK v : v = LayerValue(old)
    OBVIOUS
  <1>4. PICK quantity, value : quantity = old.copy.quantity + old.qty /\ value = old.copy.value + v
    OBVIOUS
  <1>5. PICK row : row = [quantity |-> quantity, value |-> value,
                          price |-> NewPrice(old, live[ProductRow(p)].price, quantity, value),
                          fifo |-> live[ProductRow(p)].fifo]
    OBVIOUS
  <1>6. PICK pc : pc = IF old.method = "done" THEN "move" ELSE "commit"
    OBVIOUS
  <1>7. PICK sum : sum = [qty |-> old.out[p].qty + old.qty, value |-> old.out[p].value + v]
    OBVIOUS
  <1>8. PICK c : c = [old EXCEPT !.pc = pc, !.out[p] = sum]
    OBVIOUS
  <1>9. old.pc = "layers" /\ layers' = layers /\ call' = [call EXCEPT ![w] = c]
    BY <1>1, <1>2, <1>3, <1>6, <1>7, <1>8 DEF WriteCaches, history, At
  <1>10. CallOK(old) /\ p \in Product
    BY <1>1, <1>2, <1>9 DEF IInv, CallInv, CallOK
  <1>11. PICK new : Write(w, new) /\ DOMAIN new = {ProductRow(p)} /\ new[ProductRow(p)] = row
    <2>1. PICK new :
            new = [s \in {ProductRow(p)} |->
                     [quantity |-> quantity, value |-> value, price |-> NewPrice(old, live[s].price, quantity, value),
                      fifo |-> IF method[p] = "fifo" /\ old.qty > 0
                               THEN Append(live[ProductRow(p)].fifo, [qty |-> old.qty, value |-> v])
                               ELSE live[ProductRow(p)].fifo]]
      OBVIOUS
    <2>2. Write(w, new)
      BY <1>1, <1>2, <1>3, <1>4, <2>1 DEF WriteCaches
    <2>3. method[p] # "fifo"
      BY <1>10 DEF NoFifo
    <2>4. DOMAIN new = {ProductRow(p)} /\ new[ProductRow(p)] = row
      BY <1>5, <2>1, <2>3
    <2> QED
      BY <2>2, <2>4
  <1>12. live[ProductRow(p)] \in ProductVersion
    BY <1>10 DEF IInv, RowInv
  <1>13. /\ old.copy.quantity \in Int /\ old.copy.value \in Int /\ old.qty \in Int
         /\ old.out \in [Product -> Amount]
    BY <1>10 DEF CallOK, Request, ProductVersion
  <1>14. live[ProductRow(p)].price \in Int
    BY <1>12 DEF ProductVersion
  <1>15. v \in Int
    BY <1>3, <1>10, <1>14, ValuesAreNumbers DEF CallOK
  <1>16. quantity \in Int /\ value \in Int
    BY <1>4, <1>13, <1>15
  <1>17. row \in ProductVersion
    BY <1>5, <1>10, <1>12, <1>14, <1>16, ValuesAreNumbers DEF CallOK, ProductVersion
  <1>18. sum \in Amount
    BY <1>7, <1>10, <1>13, <1>15 DEF Amount
  <1>19. /\ c \in Request /\ c.pc = pc /\ c.method = old.method /\ c.order = old.order
         /\ c.product = p /\ c.todo = old.todo /\ c.out[p] = sum
         /\ \A q \in Product : q # p => c.out[q] = old.out[q]
    <2>1. old \in Request /\ pc \in Place
      BY <1>6, <1>10 DEF CallOK, Place
    <2>2. PICK out : out = [old.out EXCEPT ![p] = sum]
      OBVIOUS
    <2>3. /\ out \in [Product -> Amount] /\ out[p] = sum
          /\ \A q \in Product \ {p} : out[q] = old.out[q]
      BY <1>10, <1>13, <1>18, <2>2
    <2>4. c = [old EXCEPT !.pc = pc, !.out = out]
      BY <1>8, <2>2
    <2>5. c \in Request
      BY <2>1, <2>3, <2>4, Zenon DEF Request
    <2> QED
      BY <1>2, <2>1, <2>3, <2>4, <2>5 DEF Request
  <1>20. CallOK(c)
    BY <1>2, <1>6, <1>10, <1>19 DEF CallOK
  <1>21. /\ lock[ProductRow(p)] = w
         /\ old.copy.quantity = live[ProductRow(p)].quantity
         /\ old.copy.value = live[ProductRow(p)].value
    BY <1>1, <1>2, <1>9 DEF IInv, ValueInv, Reads
  <1>22. /\ live[ProductRow(p)].quantity = layers[p].qty + old.out[p].qty
         /\ live[ProductRow(p)].value = layers[p].value + old.out[p].value
    BY <1>1, <1>9, <1>10, <1>21, LiveValue DEF Landing
  <1>23. /\ row.quantity = layers[p].qty + c.out[p].qty
         /\ row.value = layers[p].value + c.out[p].value
    <2>1. /\ layers[p].qty \in Int /\ layers[p].value \in Int
          /\ old.out[p].qty \in Int /\ old.out[p].value \in Int
      BY <1>10, <1>13 DEF IInv, RowInv, Amount
    <2>2. /\ row.quantity = old.copy.quantity + old.qty /\ row.value = old.copy.value + v
          /\ c.out[p].qty = old.out[p].qty + old.qty /\ c.out[p].value = old.out[p].value + v
      BY <1>4, <1>5, <1>7, <1>19
    <2> QED
      BY <1>13, <1>15, <1>21, <1>22, <2>1, <2>2
  <1>24. /\ p = call[w].product /\ c.method = call[w].method /\ c.order = call[w].order
         /\ \A q \in Product : q # p => c.out[q] = call[w].out[q]
    BY <1>1, <1>2, <1>19
  <1>25. CASE c.pc = "move"
    BY <1>9, <1>10, <1>11, <1>17, <1>19, <1>20, <1>23, <1>24, <1>25, ProductKeeps
  <1>26. CASE c.pc = "commit"
    BY <1>9, <1>10, <1>11, <1>17, <1>19, <1>20, <1>23, <1>24, <1>26, ProductKeeps
  <1> QED
    BY <1>6, <1>19, <1>25, <1>26

\* A landed cost finds its product unlocked and as it was read.
LEMMA RevalueKeeps ==
    ASSUME IInv, NoFifo, NEW w \in Worker, Revalue(w)
    PROVE  IInv'
  <1>1. PICK old : old = call[w]
    OBVIOUS
  <1>2. PICK p : p = old.product
    OBVIOUS
  <1>3. PICK value : value = old.copy.value + old.worth
    OBVIOUS
  <1>4. PICK row : row = [live[ProductRow(p)] EXCEPT !.value = value,
                            !.price = NewPrice(old, live[ProductRow(p)].price, old.copy.quantity, value)]
    OBVIOUS
  <1>5. PICK c : c = [old EXCEPT !.pc = "commit"]
    OBVIOUS
  <1>6. old.pc = "revalue" /\ layers' = layers /\ call' = [call EXCEPT ![w] = c]
    BY <1>1, <1>5 DEF Revalue, history, At, Goto
  <1>7. CallOK(old) /\ p \in Product /\ old \in Request
    BY <1>1, <1>2, <1>6 DEF IInv, CallInv, CallOK
  <1>8. live[ProductRow(p)] \in ProductVersion
    BY <1>7 DEF IInv, RowInv
  <1>9. PICK new : Write(w, new) /\ DOMAIN new = {ProductRow(p)} /\ new[ProductRow(p)] = row
    <2>1. PICK new : new = [s \in {ProductRow(p)} |->
             [live[s] EXCEPT !.value = value,
                             !.price = NewPrice(old, @, old.copy.quantity, value),
                             !.fifo = IF method[p] = "fifo" THEN Spread(@, old.worth) ELSE @]]
      OBVIOUS
    <2>2. Write(w, new)
      BY <1>1, <1>2, <1>3, <2>1 DEF Revalue
    <2>3. DOMAIN new = {ProductRow(p)}
      BY <2>1
    <2>4. method[p] # "fifo"
      BY <1>7 DEF NoFifo
    <2>5. new[ProductRow(p)] = row
      BY <1>4, <1>8, <2>1, <2>4 DEF ProductVersion
    <2> QED
      BY <2>2, <2>3, <2>5
  <1>10. /\ old.copy.quantity \in Int /\ old.copy.value \in Int /\ old.worth \in Int
         /\ live[ProductRow(p)].price \in Int
    BY <1>7, <1>8 DEF Request, ProductVersion
  <1>11. value \in Int
    BY <1>3, <1>10
  <1>12. /\ row \in ProductVersion /\ row.value = value
         /\ row.quantity = live[ProductRow(p)].quantity
    BY <1>4, <1>7, <1>8, <1>10, <1>11, ValuesAreNumbers DEF ProductVersion
  <1>13. /\ c \in Request /\ c.pc = "commit" /\ c.method = old.method /\ c.order = old.order
         /\ c.product = p /\ c.todo = old.todo /\ c.out = old.out
    BY <1>2, <1>5, <1>7 DEF Request, Place
  <1>14. CallOK(c)
    BY <1>2, <1>7, <1>13 DEF CallOK
  <1>15. lock[ProductRow(p)] = NoTxn
    <2>1. lock[ProductRow(p)] \in {w, NoTxn}
      BY <1>7, <1>9, WriteEffect, RowsThere
    <2>2. lock[ProductRow(p)] # w
      BY <1>1, <1>2, <1>6, <1>7 DEF IInv, ValueInv, Holds, Landing
    <2> QED
      BY <2>1, <2>2
  <1>16. /\ live[ProductRow(p)] = committed[ProductRow(p)]
         /\ old.copy.value = committed[ProductRow(p)].value
         /\ old.out[p] = [qty |-> 0, value |-> old.worth]
         /\ committed[ProductRow(p)].quantity = layers[p].qty
         /\ committed[ProductRow(p)].value = layers[p].value
    BY <1>1, <1>2, <1>6, <1>7, <1>15 DEF IInv, ValueInv, Reads, CacheMatchesLayers
  <1>17. /\ row.quantity = layers[p].qty + c.out[p].qty
         /\ row.value = layers[p].value + c.out[p].value
    <2>1. layers[p].qty \in Int
      BY <1>7 DEF IInv, RowInv, Amount
    <2>2. c.out[p].qty = 0 /\ c.out[p].value = old.worth
      BY <1>13, <1>16
    <2> QED
      BY <1>3, <1>12, <1>16, <2>1, <2>2
  <1> QED
    BY <1>1, <1>2, <1>6, <1>7, <1>9, <1>12, <1>13, <1>14, <1>17, ProductKeeps

\* button_validate of a landed cost reads the caches of a product nobody moves.
LEMMA LandKeeps ==
    ASSUME IInv, LandedAlone, NEW w \in Worker, NEW p \in Product, NEW v \in Costs, Land(w, p, v)
    PROVE  IInv'
  <1>1. PICK copy : copy = Visible(w, ProductRow(p))
    OBVIOUS
  <1>2. PICK out : out = [Idle.out EXCEPT ![p] = [qty |-> 0, value |-> v]]
    OBVIOUS
  <1>3. PICK request : request = [[Idle EXCEPT !.worth = v, !.copy = copy, !.out = out]
                                    EXCEPT !.method = "land", !.product = p]
    OBVIOUS
  <1>4. PICK c : c = [request EXCEPT !.pc = "revalue"]
    OBVIOUS
  <1>5. Begin(w, "revalue", request)
    <2>1. request = [[Idle EXCEPT !.worth = v, !.copy = copy, !.out[p] = [qty |-> 0, value |-> v]]
                       EXCEPT !.method = "land", !.product = p]
      BY <1>2, <1>3
    <2> QED
      BY <1>1, <2>1 DEF Land, Document
  <1>6. call[w] = Idle /\ call' = [call EXCEPT ![w] = c]
    BY <1>4, <1>5 DEF Begin
  <1>7. UNCHANGED dbVars /\ layers' = layers
    BY DEF Land, Document
  <1>8. \A r \in Row : lock[r] # w
    BY <1>6 DEF IInv, IdleInv
  <1>9. copy = committed[ProductRow(p)] /\ copy \in ProductVersion
    BY <1>1, <1>8, RowsThere DEF Visible, IInv, RowInv
  <1>10. v \in Int /\ [qty |-> 0, value |-> v] \in Amount
    BY ProductionAssumption DEF Amount
  <1>11. /\ out \in [Product -> Amount] /\ out[p] = [qty |-> 0, value |-> v]
         /\ \A q \in Product : q # p => out[q] = Zero
    <2>1. Idle.out \in [Product -> Amount]
      BY IdleOK DEF CallOK, Request
    <2> QED
      BY <1>2, <1>10, <2>1, IdleOK
  <1>12. /\ c \in Request /\ c.pc = "revalue" /\ c.method = "land" /\ c.product = p
         /\ c.order = NoOrder /\ c.worth = v /\ c.copy = copy /\ c.out = out
         /\ request.method = "land" /\ request.product = p /\ request.order = NoOrder
    <2>1. Idle \in Request /\ "revalue" \in Place /\ "land" \in Method
      BY IdleOK DEF CallOK, Place, Method
    <2>2. c \in Request
      BY <1>3, <1>4, <1>9, <1>10, <1>11, <2>1, Zenon DEF Request
    <2> QED
      BY <1>3, <1>4, <2>1, <2>2, IdleOK DEF Request
  <1>13. CallOK(c)
    BY <1>12 DEF CallOK, Workflow
  <1>14. /\ CallInv'
         /\ call'[w] = c
         /\ \A u \in Worker \ {w} : call'[u] = call[u]
    BY <1>6, <1>13, CallKeeps DEF IInv
  <1>15. RowInv' /\ committed' = committed /\ live' = live /\ lock' = lock
    BY <1>7, NoWrite DEF IInv, dbVars
  <1>16. IdleInv'
    BY <1>8, <1>14, <1>15 DEF IInv, IdleInv
  <1>17. OrderInv'
    BY <1>12, <1>14, <1>15 DEF IInv, OrderInv, Workflow
  <1>18. AloneInv'
    BY <1>5, <1>12, <1>14, BeginAlone
  <1>19. Landing(w, p)' /\ \A u \in Worker \ {w}, q \in Product : Landing(u, q)' <=> Landing(u, q)
    BY <1>12, <1>14 DEF Landing
  <1>20. CacheMatchesLayers'
    BY <1>7, <1>15 DEF IInv, ValueInv, CacheMatchesLayers
  <1>21. ASSUME NEW q \in Product, NEW u \in Worker, lock'[ProductRow(q)] = u
         PROVE  Holds(u, q)'
    <2>1. u # w /\ Holds(u, q)
      BY <1>8, <1>15, <1>21, RowsThere DEF IInv, ValueInv
    <2> QED
      BY <1>7, <1>14, <1>15, <1>19, <2>1 DEF Holds, Covers
  <1>22. ASSUME NEW q \in Product, NEW u \in Worker, lock'[ProductRow(q)] # u, ~Landing(u, q)'
         PROVE  call'[u].out[q] = Zero
    <2>1. CASE u = w
      BY <1>11, <1>12, <1>14, <1>19, <1>22, <2>1
    <2>2. CASE u # w
      BY <1>14, <1>15, <1>19, <1>22, <2>2 DEF IInv, ValueInv
    <2> QED
      BY <2>1, <2>2
  <1>23. ASSUME NEW u \in Worker
         PROVE  Reads(u)'
    <2>1. CASE u = w
      BY <1>9, <1>11, <1>12, <1>14, <1>15, <2>1 DEF Reads
    <2>2. CASE u # w
      BY <1>14, <1>15, <2>2 DEF IInv, ValueInv, Reads
    <2> QED
      BY <2>1, <2>2
  <1>24. ValueInv'
    BY <1>15, <1>20, <1>21, <1>22, <1>23 DEF IInv, ValueInv
  <1> QED
    BY <1>14, <1>15, <1>16, <1>17, <1>18, <1>24 DEF IInv

-----------------------------------------------------------------------------
(* the ends of a request *)

\* A request that ends leaves no lock and no call behind, and gives every row
\* one of its two versions.
Ended(w) ==
    /\ call' = [call EXCEPT ![w] = Idle]
    /\ lock' = [r \in Row |-> IF lock[r] = w THEN NoTxn ELSE lock[r]]
    /\ committed' = [r \in Row |-> committed'[r]] /\ live' = [r \in Row |-> live'[r]]
    /\ \A r \in Row : lock[r] # w => committed'[r] = committed[r] /\ live'[r] = live[r]
    /\ \A r \in Row : lock[r] = w => committed'[r] = live'[r] /\ live'[r] \in {committed[r], live[r]}

\* A request ends: the rows it held have the values the layers say.
LEMMA EndKeeps ==
    ASSUME IInv, NEW w \in Worker, Ended(w), layers' \in [Product -> Amount],
           \A p \in Product : lock[ProductRow(p)] # w => layers'[p] = layers[p],
           \A p \in Product : lock[ProductRow(p)] = w =>
              /\ committed'[ProductRow(p)].quantity = layers'[p].qty
              /\ committed'[ProductRow(p)].value = layers'[p].value,
           \A p \in Product, v \in Worker :
              v # w /\ lock[ProductRow(p)] = w /\ Landing(v, p) =>
                 committed'[ProductRow(p)].value = committed[ProductRow(p)].value
    PROVE  IInv'
  <1>1. /\ CallInv'
        /\ call'[w] = Idle
        /\ \A v \in Worker \ {w} : call'[v] = call[v]
    BY CallKeeps, IdleOK DEF IInv, Ended
  <1>2. \A r \in Row : /\ lock[r] = w => lock'[r] = NoTxn /\ committed'[r] = live'[r]
                       /\ lock[r] # w => /\ lock'[r] = lock[r] /\ live'[r] = live[r]
                                         /\ committed'[r] = committed[r]
    BY DEF Ended
  <1>3. \A r \in Row : lock'[r] # w
    BY <1>2, NoTxnAssumption
  <1>4. RowInv'
    <2>1. lock' \in [Row -> Worker \cup {NoTxn}]
      BY DEF Ended, IInv, RowInv
    <2>2. ASSUME NEW p \in Product
          PROVE  /\ committed'[ProductRow(p)] \in ProductVersion /\ live'[ProductRow(p)] \in ProductVersion
                 /\ committed'[QuantRow(p)] \in Int /\ live'[QuantRow(p)] \in Int
      BY RowsThere DEF Ended, IInv, RowInv
    <2>3. ASSUME NEW o \in Order
          PROVE  /\ OrderOK(committed'[OrderRow(o)]) /\ OrderOK(live'[OrderRow(o)])
                 /\ committed'[OrderRow(o)].qty > 0 => live'[OrderRow(o)].qty > 0
      BY RowsThere DEF Ended, IInv, RowInv
    <2> QED
      BY <2>1, <2>2, <2>3 DEF Ended, RowInv
  <1>5. IdleInv'
    BY <1>1, <1>2, <1>3, NoTxnAssumption DEF IInv, IdleInv
  <1>6. OrderInv'
    <2> SUFFICES ASSUME NEW v \in Worker, call'[v].method \in Workflow
                 PROVE  committed'[OrderRow(call'[v].order)].qty > 0
      BY DEF OrderInv
    <2>1. v # w
      BY <1>1, IdleOK DEF Workflow
    <2>2. call'[v] = call[v]
      BY <1>1, <2>1
    <2>3. call[v].order \in Order
      BY <2>2 DEF IInv, CallInv, CallOK
    <2>4. committed[OrderRow(call[v].order)].qty > 0
      BY <2>2 DEF IInv, OrderInv
    <2>5. live[OrderRow(call[v].order)].qty > 0
      BY <2>3, <2>4 DEF IInv, RowInv
    <2> QED
      BY <2>2, <2>3, <2>4, <2>5, RowsThere DEF Ended
  <1>7. AloneInv'
    <2> SUFFICES ASSUME NEW v \in Worker, NEW u \in Worker, v # u, call'[u].method = "land"
                 PROVE  ~Touches(call'[v], call'[u].product)
      BY DEF AloneInv
    <2>1. u # w
      BY <1>1, IdleOK
    <2>2. call'[u] = call[u] /\ call[u].product \in Product
      BY <1>1, <2>1 DEF IInv, CallInv, CallOK
    <2>3. CASE v = w
      <3>1. Idle.product # call[u].product /\ Idle.method # "done"
        BY <2>2, IdleOK, ProductionAssumption
      <3> QED
        BY <1>1, <2>2, <2>3, <3>1 DEF Touches
    <2>4. CASE v # w
      BY <1>1, <2>2, <2>4 DEF IInv, AloneInv
    <2> QED
      BY <2>3, <2>4
  <1>8. \A q \in Product : ~Landing(w, q)'
    BY <1>1, IdleOK DEF Landing
  <1>9. \A v \in Worker \ {w}, q \in Product : Landing(v, q)' <=> Landing(v, q)
    BY <1>1 DEF Landing
  <1>10. CacheMatchesLayers'
    <2> SUFFICES ASSUME NEW q \in Product
                 PROVE  /\ committed'[ProductRow(q)].quantity = layers'[q].qty
                        /\ committed'[ProductRow(q)].value = layers'[q].value
      BY DEF CacheMatchesLayers
    <2>1. CASE lock[ProductRow(q)] = w
      BY <2>1
    <2>2. CASE lock[ProductRow(q)] # w
      BY <1>2, <2>2, RowsThere DEF IInv, ValueInv, CacheMatchesLayers
    <2> QED
      BY <2>1, <2>2
  <1>11. ASSUME NEW q \in Product, lock'[ProductRow(q)] = NoTxn
         PROVE  live'[ProductRow(q)] = committed'[ProductRow(q)]
    BY <1>2, <1>11, RowsThere DEF IInv, ValueInv
  <1>12. ASSUME NEW q \in Product, NEW v \in Worker, lock'[ProductRow(q)] = v
         PROVE  Holds(v, q)'
    <2>1. v # w /\ lock[ProductRow(q)] = v
      BY <1>2, <1>3, <1>12, NoTxnAssumption, RowsThere
    <2>2. Holds(v, q)
      BY <2>1 DEF IInv, ValueInv
    <2>3. layers'[q] = layers[q] /\ live'[ProductRow(q)] = live[ProductRow(q)]
      BY <1>2, <2>1, RowsThere
    <2> QED
      BY <1>1, <1>9, <2>1, <2>2, <2>3 DEF Holds, Covers
  <1>13. ASSUME NEW q \in Product, NEW v \in Worker, lock'[ProductRow(q)] # v, ~Landing(v, q)'
         PROVE  call'[v].out[q] = Zero
    <2>1. CASE v = w
      BY <1>1, <2>1, IdleOK
    <2>2. CASE v # w
      <3>1. lock[ProductRow(q)] # v
        BY <1>2, <1>13, <2>2, RowsThere
      <3> QED
        BY <1>1, <1>9, <1>13, <2>2, <3>1 DEF IInv, ValueInv
    <2> QED
      BY <2>1, <2>2
  <1>14. ASSUME NEW v \in Worker
         PROVE  Reads(v)'
    <2>1. CASE v = w
      BY <1>1, <2>1, IdleOK DEF Reads
    <2>2. CASE v # w
      <3>1. call'[v] = call[v] /\ Reads(v)
        BY <1>1, <2>2 DEF IInv, ValueInv
      <3>2. call[v].pc \in {"layers", "revalue"} => call[v].product \in Product
        BY DEF IInv, CallInv, CallOK
      <3>3. CASE call[v].pc = "layers"
        BY <1>2, <2>2, <3>1, <3>2, <3>3, RowsThere DEF Reads
      <3>4. CASE call[v].pc = "revalue"
        <4>1. Landing(v, call[v].product)
          BY <3>4 DEF Landing
        <4>2. committed'[ProductRow(call[v].product)].value = committed[ProductRow(call[v].product)].value
          BY <1>2, <2>2, <3>2, <3>4, <4>1, RowsThere
        <4> QED
          BY <3>1, <3>4, <4>2 DEF Reads
      <3> QED
        BY <3>1, <3>3, <3>4 DEF Reads
    <2> QED
      BY <2>1, <2>2
  <1>15. ValueInv'
    BY <1>10, <1>11, <1>12, <1>13, <1>14 DEF ValueInv
  <1> QED
    BY <1>1, <1>4, <1>5, <1>6, <1>7, <1>15 DEF IInv

\* ROLLBACK takes back the caches and adds no layer.
LEMMA AbortKeeps ==
    ASSUME IInv, NEW w \in Worker, Abort(w)
    PROVE  IInv'
  <1>1. Ended(w) /\ layers' = layers
    BY DEF Abort, RollbackTxn, history, Ended, IInv, RowInv
  <1>2. committed' = committed
    BY DEF Abort, RollbackTxn
  <1> QED
    BY <1>1, <1>2, EndKeeps DEF IInv, RowInv, ValueInv, CacheMatchesLayers

\* COMMIT publishes the caches together with the layers they were counted with.
LEMMA CommitKeeps ==
    ASSUME IInv, NEW w \in Worker, Commit(w)
    PROVE  IInv'
  <1>1. /\ call[w].pc = "commit"
        /\ committed' = [r \in Row |-> IF lock[r] = w THEN live[r] ELSE committed[r]]
        /\ live' = live
        /\ layers' = [p \in Product |-> [qty |-> layers[p].qty + call[w].out[p].qty,
                                         value |-> layers[p].value + call[w].out[p].value]]
    BY DEF Commit, CommitTxn, Visible, At
  <1>2. Ended(w)
    BY <1>1 DEF Commit, CommitTxn, Ended, IInv, RowInv
  <1>3. \A p \in Product : layers[p] \in Amount /\ call[w].out[p] \in Amount
    BY DEF IInv, RowInv, CallInv, CallOK, Request
  <1>4. layers' \in [Product -> Amount]
    BY <1>1, <1>3 DEF Amount
  <1>5. \A p \in Product : ~Landing(w, p)
    BY <1>1 DEF Landing
  <1>6. ASSUME NEW p \in Product, lock[ProductRow(p)] # w
        PROVE  layers'[p] = layers[p]
    <2>1. call[w].out[p] = Zero
      BY <1>5, <1>6 DEF IInv, ValueInv
    <2> QED
      BY <1>1, <1>3, <2>1 DEF Zero, Amount
  <1>7. ASSUME NEW p \in Product, lock[ProductRow(p)] = w
        PROVE  /\ committed'[ProductRow(p)].quantity = layers'[p].qty
               /\ committed'[ProductRow(p)].value = layers'[p].value
    BY <1>1, <1>7, RowsThere DEF IInv, ValueInv, Holds
  <1>8. ASSUME NEW p \in Product, NEW v \in Worker, v # w, lock[ProductRow(p)] = w, Landing(v, p)
        PROVE  FALSE
    <2>1. Covers(call[w], p)
      BY <1>8 DEF IInv, ValueInv, Holds
    <2>2. call[v].method = "land" /\ call[v].product = p
      BY <1>8 DEF Landing, IInv, CallInv, CallOK
    <2> QED
      BY <1>8, <2>1, <2>2 DEF IInv, AloneInv, Covers, Touches
  <1> QED
    BY <1>2, <1>4, <1>6, <1>7, <1>8, EndKeeps

\* A new order touches no product.
LEMMA PlanKeeps ==
    ASSUME IInv, NEW w \in Worker, NEW o \in Order, NEW n \in Batch, Plan(w, o, n)
    PROVE  IInv'
  <1>1. PICK row : row = [state |-> "draft", qty |-> n]
    OBVIOUS
  <1>2. /\ committed' = [committed EXCEPT ![OrderRow(o)] = row]
        /\ live' = [live EXCEPT ![OrderRow(o)] = row]
        /\ UNCHANGED <<lock, layers, call>>
    BY <1>1 DEF Plan, history
  <1>3. row \in OrderVersion /\ row.qty > 0
    BY <1>1, ProductionAssumption DEF OrderVersion, State
  <1>4. \A r \in Row : r # OrderRow(o) => committed'[r] = committed[r] /\ live'[r] = live[r]
    BY <1>2 DEF IInv, RowInv
  <1>5. committed'[OrderRow(o)] = row /\ live'[OrderRow(o)] = row
    BY <1>2, RowsThere DEF IInv, RowInv
  <1>6. \A p \in Product : /\ committed'[ProductRow(p)] = committed[ProductRow(p)]
                           /\ live'[ProductRow(p)] = live[ProductRow(p)]
                           /\ committed'[QuantRow(p)] = committed[QuantRow(p)]
                           /\ live'[QuantRow(p)] = live[QuantRow(p)]
    BY <1>4, RowsThere, RowNames
  <1>7. \A q \in Order : \/ q = o
                         \/ /\ committed'[OrderRow(q)] = committed[OrderRow(q)]
                            /\ live'[OrderRow(q)] = live[OrderRow(q)]
    BY <1>4, RowsThere, RowNames
  <1>8. RowInv'
    <2>1. /\ committed' = [r \in Row |-> committed'[r]] /\ live' = [r \in Row |-> live'[r]]
          /\ lock' \in [Row -> Worker \cup {NoTxn}] /\ layers' \in [Product -> Amount]
      BY <1>2 DEF IInv, RowInv
    <2>2. ASSUME NEW p \in Product
          PROVE  /\ committed'[ProductRow(p)] \in ProductVersion /\ live'[ProductRow(p)] \in ProductVersion
                 /\ committed'[QuantRow(p)] \in Int /\ live'[QuantRow(p)] \in Int
      BY <1>6 DEF IInv, RowInv
    <2>3. ASSUME NEW q \in Order
          PROVE  /\ OrderOK(committed'[OrderRow(q)]) /\ OrderOK(live'[OrderRow(q)])
                 /\ committed'[OrderRow(q)].qty > 0 => live'[OrderRow(q)].qty > 0
      BY <1>3, <1>5, <1>7 DEF IInv, RowInv, OrderOK
    <2> QED
      BY <2>1, <2>2, <2>3 DEF RowInv
  <1>9. OrderInv'
    <2> SUFFICES ASSUME NEW v \in Worker, call[v].method \in Workflow
                 PROVE  committed'[OrderRow(call[v].order)].qty > 0
      BY <1>2 DEF OrderInv
    <2>1. call[v].order \in Order
      BY DEF IInv, CallInv, CallOK
    <2>2. committed[OrderRow(call[v].order)].qty > 0
      BY DEF IInv, OrderInv
    <2> QED
      BY <1>3, <1>5, <1>7, <2>1, <2>2
  <1>10. ValueInv'
    <2>1. CacheMatchesLayers'
      BY <1>2, <1>6 DEF IInv, ValueInv, CacheMatchesLayers
    <2>2. \A p \in Product, v \in Worker : Holds(v, p) => Holds(v, p)'
      BY <1>2, <1>6 DEF Holds, Landing, Covers
    <2>3. ASSUME NEW v \in Worker
          PROVE  Reads(v)'
      <3>1. Reads(v)
        BY DEF IInv, ValueInv
      <3>2. call[v].pc \in {"layers", "revalue"} => call[v].product \in Product
        BY DEF IInv, CallInv, CallOK
      <3> QED
        BY <1>2, <1>6, <3>1, <3>2 DEF Reads
    <2>4. \A p \in Product, v \in Worker :
             lock'[ProductRow(p)] # v /\ ~Landing(v, p)' => call'[v].out[p] = Zero
      BY <1>2 DEF IInv, ValueInv, Landing
    <2> QED
      BY <1>2, <1>6, <2>1, <2>2, <2>3, <2>4 DEF IInv, ValueInv
  <1> QED
    BY <1>2, <1>8, <1>9, <1>10 DEF IInv, CallInv, IdleInv, AloneInv

-----------------------------------------------------------------------------
(* the specification *)

\* At the start there is no layer and the caches are zero.
LEMMA InitHolds ==
    ASSUME Init
    PROVE  IInv
  <1>1. /\ live = committed /\ lock = [r \in Row |-> NoTxn] /\ layers = [p \in Product |-> Zero]
        /\ call = [w \in Worker |-> Idle]
    BY DEF Init
  <1>2. \A p \in Product : /\ committed[ProductRow(p)] = [NoCopy EXCEPT !.price = price[p]]
                           /\ committed[QuantRow(p)] = 0
    BY RowsThere DEF Init, ProductRow, QuantRow
  <1>3. \A o \in Order : committed[OrderRow(o)] = NoOrderRow
    BY RowsThere DEF Init, OrderRow
  <1>4. committed = [r \in Row |-> committed[r]]
    BY DEF Init
  <1>5. \A p \in Product : /\ committed[ProductRow(p)] \in ProductVersion
                           /\ committed[ProductRow(p)].quantity = 0 /\ committed[ProductRow(p)].value = 0
    <2>1. \A p \in Product : price[p] \in Int
      BY ProductionAssumption
    <2>2. NoCopy \in ProductVersion /\ NoCopy.quantity = 0 /\ NoCopy.value = 0
      BY DEF NoCopy, ProductVersion
    <2> QED
      BY <1>2, <2>1, <2>2 DEF ProductVersion
  <1>6. OrderOK(NoOrderRow) /\ NoOrderRow.qty = 0
    BY DEF NoOrderRow, OrderOK, OrderVersion, State
  <1>7. Zero \in Amount /\ Zero.qty = 0 /\ Zero.value = 0
    BY DEF Zero, Amount
  <1>8. RowInv
    <2>1. lock \in [Row -> Worker \cup {NoTxn}] /\ layers \in [Product -> Amount]
      BY <1>1, <1>7
    <2>2. \A p \in Product : committed[ProductRow(p)] \in ProductVersion
      BY <1>5
    <2>3. \A p \in Product : committed[QuantRow(p)] \in Int
      <3>1. 0 \in Int
        OBVIOUS
      <3> QED
        BY <1>2, <3>1, Zenon
    <2>4. \A o \in Order : OrderOK(committed[OrderRow(o)]) /\ committed[OrderRow(o)].qty = 0
      BY <1>3, <1>6
    <2>5. live = committed
      BY <1>1
    <2> QED
      BY <1>4, <2>1, <2>2, <2>3, <2>4, <2>5 DEF RowInv
  <1>9. CallInv /\ IdleInv /\ OrderInv /\ AloneInv
    BY <1>1, IdleOK, NoTxnAssumption DEF CallInv, IdleInv, OrderInv, AloneInv, Workflow
  <1>10. ValueInv
    <2>1. CacheMatchesLayers
      BY <1>1, <1>5, <1>7 DEF CacheMatchesLayers
    <2>2. \A p \in Product : lock[ProductRow(p)] = NoTxn
      BY <1>1, RowsThere
    <2>3. \A w \in Worker : call[w] = Idle
      BY <1>1
    <2>4. \A w \in Worker : Reads(w)
      BY <2>3, IdleOK DEF Reads
    <2> QED
      BY <1>1, <2>1, <2>2, <2>3, <2>4, IdleOK, NoTxnAssumption DEF ValueInv
  <1> QED
    BY <1>8, <1>9, <1>10 DEF IInv

\* Nothing changes when nothing happens.
LEMMA StutterKeeps ==
    ASSUME IInv, UNCHANGED vars
    PROVE  IInv'
  <1>1. /\ committed' = committed /\ live' = live /\ lock' = lock
        /\ layers' = layers /\ call' = call
    BY DEF vars, dbVars, history
  <1>2. RowInv'
    BY <1>1 DEF IInv, RowInv
  <1>3. CallInv' /\ IdleInv' /\ OrderInv' /\ AloneInv'
    BY <1>1 DEF IInv, CallInv, IdleInv, OrderInv, AloneInv
  <1>4. ValueInv'
    BY <1>1 DEF IInv, ValueInv, CacheMatchesLayers, Holds, Landing, Reads
  <1> QED
    BY <1>2, <1>3, <1>4 DEF IInv

\* Every step keeps the invariant.
LEMMA NextKeeps ==
    ASSUME IInv, LandedAlone, NoFifo, Next
    PROVE  IInv'
  <1>1. CASE \E w \in Worker, o \in Order, n \in Batch : Plan(w, o, n)
    BY <1>1, PlanKeeps
  <1>2. ASSUME NEW w \in Worker,
               Moving(w) \/ Documents(w) \/ Producing(w) \/ Working(w) \/ Reordering(w)
               \/ Commit(w) \/ Abort(w)
        PROVE  IInv'
    <2>1. CASE Moving(w)
      <3>1. ~TakeLayer(w)
        <4>1. call[w].pc = "layers" => call[w].product \in Product
          BY DEF IInv, CallInv, CallOK
        <4> QED
          BY <4>1 DEF TakeLayer, At, NoFifo
      <3> QED
        BY <2>1, <3>1, RefreshKeeps, WriteCachesKeeps DEF Moving
    <2>2. CASE Documents(w)
      BY <2>2, DeliverKeeps, ReceiveKeeps, LandKeeps, RevalueKeeps DEF Documents
    <2>3. CASE Producing(w)
      BY <2>3, ConfirmKeeps, MarkDoneKeeps, CancelKeeps, ExplodeKeeps, NumberKeeps, SetStateKeeps,
         ConsumeKeeps, ProduceKeeps, MoveDoneKeeps, CancelWorkKeeps, OrderStepKeeps DEF Producing
    <2>4. CASE Working(w)
      BY <2>4, WorkKeeps, OrderStepKeeps DEF Working
    <2>5. CASE Reordering(w)
      BY <2>5, ReplenishKeeps, ReorderKeeps DEF Reordering
    <2>6. CASE Commit(w) \/ Abort(w)
      BY <2>6, CommitKeeps, AbortKeeps
    <2> QED
      BY <1>2, <2>1, <2>2, <2>3, <2>4, <2>5, <2>6
  <1> QED
    BY <1>1, <1>2 DEF Next

\* "Maintains the product's quantity_svl / value_svl caches": valuateMove_ adds
\* a move to what it has read of them and revalue an added cost, each in its
\* own statement.  They are the sums of the layers nevertheless, whatever
\* receipts, deliveries and productions of a product run together, fail or stop,
\* as long as a landed cost of the product runs beside none of them.
THEOREM CachesKept ==
    ASSUME LandedAlone, NoFifo
    PROVE  Spec => []CacheMatchesLayers
  <1>1. Init => IInv
    BY InitHolds
  <1>2. IInv /\ [Next]_vars => IInv'
    BY NextKeeps, StutterKeeps
  <1>3. IInv => CacheMatchesLayers
    BY DEF IInv, ValueInv
  <1> QED
    BY <1>1, <1>2, <1>3, PTL DEF Spec

-----------------------------------------------------------------------------
(* work orders and the closing of their order *)

Open == {"ready", "progress"}

\* An order no work is open on, for those who hold none of its rows.
Settled(o) == \A r \in WorkRows(o) : committed[r] \notin Open

IsOrder(v) == v = [state |-> v.state, qty |-> v.qty]

IsCall(c) ==
    c = [method |-> c.method, pc |-> c.pc, order |-> c.order, product |-> c.product, todo |-> c.todo,
         qty |-> c.qty, cost |-> c.cost, worth |-> c.worth, left |-> c.left, drawn |-> c.drawn,
         copy |-> c.copy, out |-> c.out]

Confirms(c, o) == c.method = "confirm" /\ c.order = o
Finishes(c, o) == c.method = "done" /\ c.order = o

Shape ==
    /\ committed = [r \in Row |-> committed[r]] /\ live = [r \in Row |-> live[r]]
    /\ \A o \in Order : IsOrder(committed[OrderRow(o)]) /\ IsOrder(live[OrderRow(o)])
    /\ call = [w \in Worker |-> call[w]]
    /\ \A w \in Worker : IsCall(call[w])

\* What nobody has locked has one version.
Unlocked == \A r \in Row : lock[r] = NoTxn => live[r] = committed[r]

\* Nobody confirms an order twice at once, or confirms one that is being finished.
Apart ==
    \A o \in Order, v, w \in Worker :
        /\ v # w => ~(Confirms(call[v], o) /\ Confirms(call[w], o))
        /\ ~(Confirms(call[v], o) /\ Finishes(call[w], o))

\* Who holds the row of an order is about to commit one of these changes.
OrderHeld(w, o) ==
    LET old == committed[OrderRow(o)].state
        new == live[OrderRow(o)].state
    IN /\ call[w].pc = "commit"
       /\ \/ new = "confirmed" /\ Confirms(call[w], o)
          \/ new = "done" /\ Finishes(call[w], o)
          \/ new = "cancel"
          \/ new = "progress" /\ old = "confirmed"
          \/ /\ new = "to_close" /\ old \in {"confirmed", "progress"}
             /\ \A r \in WorkRows(o) : Visible(w, r) \notin Open
          \/ new = "draft" /\ old = "none"

\* Work is opened by the confirmation of its order alone.
WorkHeld(w, o) ==
    \A r \in WorkRows(o) :
        lock[r] = w /\ live[r] \in Open => committed[r] \in Open \/ Confirms(call[w], o)

\* What a request has read of its order still holds.
StillHolds(w, o) ==
    /\ Confirms(call[w], o) => committed[OrderRow(o)].state \in {"draft", "cancel"}
    /\ Finishes(call[w], o) => committed[OrderRow(o)].state \notin {"none", "draft"} /\ Settled(o)

Knows(w) ==
    /\ call[w].pc \in {"explode", "number", "confirmed"} => call[w].method = "confirm"
    /\ call[w].pc \in {"raw", "move", "done"} => call[w].method = "done"
    /\ call[w].pc = "idle" => \A r \in Row : lock[r] # w
    /\ \A o \in Order : /\ lock[OrderRow(o)] = w => OrderHeld(w, o)
                        /\ WorkHeld(w, o)
                        /\ StillHolds(w, o)

WorkInv ==
    /\ Shape
    /\ Unlocked
    /\ Apart
    /\ WorkBeforeClose
    /\ \A w \in Worker : Knows(w)

-----------------------------------------------------------------------------
(* statements and work orders *)

\* Work orders have rows of their own, one per operation.
LEMMA WorkNames ==
    /\ \A o, k, q, j : WorkRow(o, k) = WorkRow(q, j) => o = q /\ k = j
    /\ \A o, k, q, p : WorkRow(o, k) # MoveRow(q, p)
    /\ \A o, k : WorkRow(o, k) # SequenceRow
    /\ \A o \in Order, k \in Operation : WorkRow(o, k) \in Row
    /\ \A o \in Order : WorkRows(o) \subseteq Row
    /\ \A o, q, r : r \in WorkRows(o) /\ r \in WorkRows(q) => o = q
    /\ \A o, p, r : r \in WorkRows(o) => r # OrderRow(p) /\ r # ProductRow(p) /\ r # QuantRow(p) /\ r # SequenceRow
    /\ \A o, q, p, r : r \in WorkRows(o) => r # MoveRow(q, p)
  <1>1. /\ \A o, k, q, j : WorkRow(o, k) = WorkRow(q, j) => o = q /\ k = j
        /\ \A o, k, q, p : WorkRow(o, k) # MoveRow(q, p)
        /\ \A o, k : WorkRow(o, k) # SequenceRow
    BY DEF WorkRow, MoveRow, SequenceRow
  <1>2. \A o \in Order, k \in Operation : WorkRow(o, k) \in Row
    BY ProductionAssumption DEF ProductionRows
  <1>3. \A o \in Order : WorkRows(o) \subseteq Row
    <2>1. \A o \in Order : operations[makes[o]] \subseteq Operation
      BY ProductionAssumption
    <2> QED
      BY <1>2, <2>1 DEF WorkRows
  <1>4. \A o, q, r : r \in WorkRows(o) /\ r \in WorkRows(q) => o = q
    BY <1>1 DEF WorkRows
  <1>5. \A o, p, r : r \in WorkRows(o) => r # OrderRow(p) /\ r # ProductRow(p) /\ r # QuantRow(p) /\ r # SequenceRow
    BY <1>1, RowNames DEF WorkRows
  <1>6. \A o, q, p, r : r \in WorkRows(o) => r # MoveRow(q, p)
    BY <1>1 DEF WorkRows
  <1> QED
    BY <1>1, <1>2, <1>3, <1>4, <1>5, <1>6

\* A statement of a request, or none.
Step(w) ==
    /\ committed' = committed
    /\ live' = [r \in Row |-> live'[r]]
    /\ \A r \in Row : \/ lock'[r] = lock[r] /\ live'[r] = live[r]
                      \/ lock[r] \in {w, NoTxn} /\ lock'[r] = w
    /\ \A v \in Worker \ {w} : call'[v] = call[v]

\* What the other requests know stays so.
LEMMA OthersKnow ==
    ASSUME WorkInv, NEW w \in Worker, Step(w)
    PROVE  /\ Unlocked' /\ WorkBeforeClose'
           /\ \A v \in Worker \ {w} : Knows(v)'
  <1>1. /\ committed' = committed
        /\ \A r \in Row : \/ lock'[r] = lock[r] /\ live'[r] = live[r]
                          \/ lock[r] \in {w, NoTxn} /\ lock'[r] = w
        /\ \A v \in Worker \ {w} : call'[v] = call[v]
    BY DEF Step
  <1>2. Unlocked'
    BY <1>1, NoTxnAssumption DEF WorkInv, Unlocked
  <1>3. WorkBeforeClose'
    BY <1>1 DEF WorkInv, WorkBeforeClose, WorkRows
  <1>4. ASSUME NEW v \in Worker \ {w}
        PROVE  Knows(v)'
    <2>1. Knows(v) /\ call'[v] = call[v]
      BY <1>1 DEF WorkInv
    <2>2. \A r \in Row : lock'[r] = v => lock[r] = v /\ live'[r] = live[r]
      BY <1>1
    <2>3. \A r \in Row : Visible(v, r)' = Visible(v, r)
      BY <1>1, NoTxnAssumption DEF Visible
    <2>4. ASSUME NEW o \in Order
          PROVE  /\ lock'[OrderRow(o)] = v => OrderHeld(v, o)'
                 /\ WorkHeld(v, o)'
                 /\ StillHolds(v, o)'
      <3>1. OrderRow(o) \in Row /\ WorkRows(o) \subseteq Row /\ WorkRows(o)' = WorkRows(o)
        BY RowsThere, WorkNames DEF WorkRows
      <3>2. lock'[OrderRow(o)] = v => OrderHeld(v, o)'
        BY <1>1, <2>1, <2>2, <2>3, <3>1 DEF Knows, OrderHeld, Confirms, Finishes
      <3>3. WorkHeld(v, o)'
        BY <1>1, <2>1, <2>2, <3>1 DEF Knows, WorkHeld, Confirms
      <3>4. StillHolds(v, o)'
        BY <1>1, <2>1, <3>1 DEF Knows, StillHolds, Confirms, Finishes, Settled
      <3> QED
        BY <3>2, <3>3, <3>4
    <2>5. call'[v].pc = "idle" => \A r \in Row : lock'[r] # v
      BY <2>1, <2>2 DEF Knows
    <2> QED
      BY <2>1, <2>4, <2>5 DEF Knows
  <1> QED
    BY <1>2, <1>3, <1>4

\* What a request may do to rows of orders and of work orders.
Lawful(w, c) ==
    /\ \A o \in Order :
         \/ lock'[OrderRow(o)] = lock[OrderRow(o)] /\ live'[OrderRow(o)] = live[OrderRow(o)]
         \/ IsOrder(live'[OrderRow(o)]) /\ OrderHeld(w, o)'
    /\ \A o \in Order : \A r \in WorkRows(o) :
         \/ lock'[r] = lock[r] /\ live'[r] = live[r]
         \/ live'[r] \in Open => Visible(w, r) \in Open \/ Confirms(c, o)

\* A request that takes a step knows what it knew, and what its statement did.
LEMMA LawfulKeeps ==
    ASSUME WorkInv, NEW w \in Worker, Step(w), NEW c, IsCall(c), call' = [call EXCEPT ![w] = c],
           call[w].pc # "commit", c.pc # "idle",
           c.pc \in {"explode", "number", "confirmed"} => c.method = "confirm",
           c.pc \in {"raw", "move", "done"} => c.method = "done",
           \A o \in Order : Confirms(call[w], o) => Confirms(c, o),
           \A o \in Order : StillHolds(w, o)',
           Apart',
           Lawful(w, c)
    PROVE  WorkInv'
  <1>1. call'[w] = c
    BY DEF WorkInv, Shape
  <1>2. /\ committed' = committed
        /\ \A r \in Row : \/ lock'[r] = lock[r] /\ live'[r] = live[r]
                          \/ lock[r] \in {w, NoTxn} /\ lock'[r] = w
        /\ \A v \in Worker \ {w} : call'[v] = call[v]
    BY DEF Step
  <1>3. \A o \in Order : lock[OrderRow(o)] # w
    BY DEF WorkInv, Knows, OrderHeld
  <1>4. \A o \in Order : lock'[OrderRow(o)] = w => OrderHeld(w, o)'
    BY <1>3 DEF Lawful
  <1>5. \A o \in Order : IsOrder(committed'[OrderRow(o)]) /\ IsOrder(live'[OrderRow(o)])
    BY <1>2 DEF Lawful, WorkInv, Shape
  <1>6. Shape'
    <2>1. call' = [v \in Worker |-> call'[v]]
      BY DEF WorkInv, Shape
    <2>2. \A v \in Worker : IsCall(call'[v])
      BY <1>1, <1>2 DEF WorkInv, Shape
    <2>3. committed' = [r \in Row |-> committed'[r]] /\ live' = [r \in Row |-> live'[r]]
      BY <1>2 DEF Step, WorkInv, Shape
    <2> QED
      BY <1>5, <2>1, <2>2, <2>3 DEF Shape
  <1>7. \A o \in Order : WorkHeld(w, o)'
    <2> SUFFICES ASSUME NEW o \in Order, NEW r \in WorkRows(o), lock'[r] = w, live'[r] \in Open
                 PROVE  committed[r] \in Open \/ Confirms(c, o)
      BY <1>1, <1>2 DEF WorkHeld, WorkRows, Confirms
    <2>1. WorkHeld(w, o)
      BY DEF WorkInv, Knows
    <2>2. CASE lock'[r] = lock[r] /\ live'[r] = live[r]
      BY <2>1, <2>2 DEF WorkHeld
    <2>3. CASE Visible(w, r) \in Open
      BY <2>1, <2>3 DEF WorkHeld, Visible
    <2> QED
      BY <2>2, <2>3 DEF Lawful
  <1>8. Knows(w)'
    BY <1>1, <1>4, <1>7 DEF Knows
  <1> QED
    BY <1>6, <1>8, OthersKnow DEF WorkInv

\* A request that is being served goes on.
LEMMA ServedKeeps ==
    ASSUME WorkInv, NEW w \in Worker, Step(w), NEW c, IsCall(c), call' = [call EXCEPT ![w] = c],
           call[w].pc # "commit", c.pc # "idle",
           c.pc \in {"explode", "number", "confirmed"} => c.method = "confirm",
           c.pc \in {"raw", "move", "done"} => c.method = "done",
           c.method = call[w].method, c.order = call[w].order,
           Lawful(w, c)
    PROVE  WorkInv'
  <1>1. call'[w] = c
    BY DEF WorkInv, Shape
  <1>2. committed' = committed /\ \A v \in Worker \ {w} : call'[v] = call[v]
    BY DEF Step
  <1>3. \A v \in Worker, o \in Order :
           (Confirms(call'[v], o) <=> Confirms(call[v], o)) /\ (Finishes(call'[v], o) <=> Finishes(call[v], o))
    BY <1>1, <1>2 DEF Confirms, Finishes
  <1>4. Apart'
    BY <1>3 DEF WorkInv, Apart
  <1>5. \A o \in Order : StillHolds(w, o)'
    BY <1>2, <1>3 DEF WorkInv, Knows, StillHolds, Settled, WorkRows
  <1>6. \A o \in Order : Confirms(call[w], o) => Confirms(c, o)
    BY DEF Confirms
  <1> QED
    BY <1>4, <1>5, <1>6, LawfulKeeps

\* A request begins, beside others its caller keeps it apart from.
LEMMA BegunKeeps ==
    ASSUME WorkInv, NEW w \in Worker, Step(w), NEW pc, NEW request, Begin(w, pc, request),
           NEW c, IsCall(c), c = [request EXCEPT !.pc = pc], c.pc = pc,
           c.method = request.method, c.order = request.order,
           c.pc # "idle", c.pc # "commit",
           c.pc \in {"explode", "number", "confirmed"} => c.method = "confirm",
           c.pc \in {"raw", "move", "done"} => c.method = "done",
           \A o \in Order : Confirms(c, o) => committed[OrderRow(o)].state = "draft",
           \A o \in Order : Finishes(c, o) =>
              committed[OrderRow(o)].state \in {"confirmed", "progress", "to_close"} /\ Settled(o),
           Lawful(w, c)
    PROVE  WorkInv'
  <1>1. call[w] = Idle /\ call' = [call EXCEPT ![w] = c]
    BY DEF Begin
  <1>2. call'[w] = c
    BY <1>1 DEF WorkInv, Shape
  <1>3. committed' = committed /\ \A v \in Worker \ {w} : call'[v] = call[v]
    BY DEF Step
  <1>4. Idle.pc = "idle" /\ Idle.method = ""
    BY IdleOK
  <1>5. \A o : ~Confirms(call[w], o) /\ ~Finishes(call[w], o)
    BY <1>1, <1>4 DEF Confirms, Finishes
  <1>6. ASSUME NEW o \in Order, NEW v \in Worker \ {w}
        PROVE  /\ ~(Confirms(c, o) /\ Confirms(call[v], o))
               /\ ~(Confirms(c, o) /\ Finishes(call[v], o))
               /\ ~(Finishes(c, o) /\ Confirms(call[v], o))
    <2>1. StillHolds(v, o)
      BY DEF WorkInv, Knows
    <2>2. ~Bars(request, call[v])
      BY DEF Begin
    <2>3. o # NoOrder
      BY ProductionAssumption
    <2>4. ~(Confirms(c, o) /\ Confirms(call[v], o))
      BY <2>2, <2>3 DEF Bars, Confirms
    <2>5. ~(Confirms(c, o) /\ Finishes(call[v], o)) /\ ~(Finishes(c, o) /\ Confirms(call[v], o))
      BY <2>1 DEF StillHolds
    <2> QED
      BY <2>4, <2>5
  <1>7. \A o : ~(Confirms(c, o) /\ Finishes(c, o))
    BY DEF Confirms, Finishes
  <1>8. Apart'
    <2> SUFFICES ASSUME NEW o \in Order, NEW u \in Worker, NEW v \in Worker
                 PROVE  /\ u # v => ~(Confirms(call'[u], o) /\ Confirms(call'[v], o))
                        /\ ~(Confirms(call'[u], o) /\ Finishes(call'[v], o))
      BY Zenon DEF Apart, Confirms, Finishes
    <2>1. CASE u = w /\ v = w
      BY <1>2, <1>7, <2>1
    <2>2. CASE u = w /\ v # w
      BY <1>2, <1>3, <1>6, <2>2
    <2>3. CASE u # w /\ v = w
      BY <1>2, <1>3, <1>6, <2>3
    <2>4. CASE u # w /\ v # w
      BY <1>3, <2>4 DEF WorkInv, Apart
    <2> QED
      BY <2>1, <2>2, <2>3, <2>4
  <1>9. \A o \in Order : StillHolds(w, o)'
    BY <1>2, <1>3 DEF StillHolds, Confirms, Finishes, Settled, WorkRows
  <1> QED
    BY <1>1, <1>4, <1>5, <1>8, <1>9, LawfulKeeps

-----------------------------------------------------------------------------
(* the kinds of statements *)

\* A statement is a step.
LEMMA WriteStep ==
    ASSUME NEW w \in Worker, NEW new, Write(w, new), \A v \in Worker \ {w} : call'[v] = call[v]
    PROVE  Step(w)
  <1>1. live' = [r \in Row |-> live'[r]]
    BY DEF Write
  <1> QED
    BY <1>1, WriteEffect DEF Step

\* So is a request that writes nothing, and it may do that.
LEMMA NothingWritten ==
    ASSUME WorkInv, NEW w \in Worker, NEW c, UNCHANGED dbVars, \A v \in Worker \ {w} : call'[v] = call[v]
    PROVE  Step(w) /\ Lawful(w, c)
  <1>1. committed' = committed /\ live' = live /\ lock' = lock
    BY DEF dbVars
  <1>2. live = [r \in Row |-> live[r]]
    BY DEF WorkInv, Shape
  <1>3. live' = [r \in Row |-> live'[r]]
    BY <1>1, <1>2
  <1> QED
    BY <1>1, <1>3 DEF Step, Lawful

\* A statement on rows of other kinds is lawful.
LEMMA PlainLawful ==
    ASSUME NEW w \in Worker, NEW c, NEW new, Write(w, new),
           \A o \in Order : OrderRow(o) \notin DOMAIN new /\ \A r \in WorkRows(o) : r \notin DOMAIN new
    PROVE  Lawful(w, c)
  <1>1. \A r \in Row : r \notin DOMAIN new => lock'[r] = lock[r] /\ live'[r] = live[r]
    BY WriteEffect
  <1>2. \A o \in Order : OrderRow(o) \in Row /\ WorkRows(o) \subseteq Row
    BY RowsThere, WorkNames
  <1> QED
    BY <1>1, <1>2 DEF Lawful

\* So is one on moves or work orders that opens none.
LEMMA WorkLawful ==
    ASSUME NEW w \in Worker, NEW c, NEW new, Write(w, new),
           \A o \in Order : OrderRow(o) \notin DOMAIN new,
           \A o \in Order : \A r \in WorkRows(o) :
              r \in DOMAIN new /\ new[r] \in Open => Visible(w, r) \in Open \/ Confirms(c, o)
    PROVE  Lawful(w, c)
  <1>1. \A r \in Row : IF r \in DOMAIN new THEN live'[r] = new[r]
                                           ELSE lock'[r] = lock[r] /\ live'[r] = live[r]
    BY WriteEffect
  <1>2. \A o \in Order : OrderRow(o) \in Row /\ WorkRows(o) \subseteq Row
    BY RowsThere, WorkNames
  <1>3. \A o \in Order : lock'[OrderRow(o)] = lock[OrderRow(o)] /\ live'[OrderRow(o)] = live[OrderRow(o)]
    BY <1>1, <1>2
  <1>4. \A o \in Order : \A r \in WorkRows(o) :
           \/ lock'[r] = lock[r] /\ live'[r] = live[r]
           \/ live'[r] \in Open => Visible(w, r) \in Open \/ Confirms(c, o)
    BY <1>1, <1>2
  <1> QED
    BY <1>3, <1>4 DEF Lawful

\* So is one that closes, cancels or passes over the work orders it names.
LEMMA MovesLawful ==
    ASSUME NEW w \in Worker, NEW c, NEW rows, NEW from, NEW to, MoveStates(w, rows, from, to),
           \A o \in Order : OrderRow(o) \notin rows,
           to \notin Open \/ from \subseteq Open,
           \A v \in Worker \ {w} : call'[v] = call[v]
    PROVE  Step(w) /\ Lawful(w, c)
  <1>1. PICK new : new = [r \in {s \in rows : Visible(w, s) \in from} |-> to]
    OBVIOUS
  <1>2. Write(w, new)
    BY <1>1 DEF MoveStates
  <1>3. \A o \in Order : OrderRow(o) \notin DOMAIN new
    BY <1>1
  <1>4. \A r \in DOMAIN new : new[r] = to /\ Visible(w, r) \in from
    BY <1>1
  <1>5. \A o \in Order : \A r \in WorkRows(o) :
           r \in DOMAIN new /\ new[r] \in Open => Visible(w, r) \in Open \/ Confirms(c, o)
    BY <1>4
  <1> QED
    BY <1>2, <1>3, <1>5, WorkLawful, WriteStep

\* So is one on the row of an order that gives it a version its holder may commit.
LEMMA OrderLawful ==
    ASSUME NEW w \in Worker, NEW c, NEW new, Write(w, new),
           NEW o, DOMAIN new \subseteq {OrderRow(o)},
           o \in Order /\ OrderRow(o) \in DOMAIN new => IsOrder(live'[OrderRow(o)]) /\ OrderHeld(w, o)'
    PROVE  Lawful(w, c)
  <1>1. \A r \in Row : r \notin DOMAIN new => lock'[r] = lock[r] /\ live'[r] = live[r]
    BY WriteEffect
  <1>2. \A q \in Order : OrderRow(q) \in Row /\ WorkRows(q) \subseteq Row
    BY RowsThere, WorkNames
  <1>3. ASSUME NEW q \in Order
        PROVE  \/ lock'[OrderRow(q)] = lock[OrderRow(q)] /\ live'[OrderRow(q)] = live[OrderRow(q)]
               \/ IsOrder(live'[OrderRow(q)]) /\ OrderHeld(w, q)'
    <2>1. CASE OrderRow(q) \in DOMAIN new
      <3>1. q = o
        BY <2>1, RowNames
      <3> QED
        BY <2>1, <3>1
    <2>2. CASE OrderRow(q) \notin DOMAIN new
      BY <1>1, <1>2, <2>2
    <2> QED
      BY <2>1, <2>2
  <1>4. \A q \in Order : \A r \in WorkRows(q) : lock'[r] = lock[r] /\ live'[r] = live[r]
    BY <1>1, <1>2, WorkNames
  <1> QED
    BY <1>3, <1>4 DEF Lawful

\* A conditional UPDATE of an order's state: what its holder may commit is up to
\* the states it moves on from.
LEMMA OrderStateLawful ==
    ASSUME WorkInv, NEW w \in Worker, call[w].pc # "commit", NEW c, c.pc = "commit",
           call'[w] = c, NEW o, NEW from, NEW to, OrderState(w, o, from, to),
           \/ to = "cancel"
           \/ to = "progress" /\ from = {"confirmed"}
           \/ /\ to = "to_close" /\ from \subseteq {"confirmed", "progress"}
              /\ from # {} => OpenWork(w, o) = {}
    PROVE  Lawful(w, c)
  <1>1. PICK new : new = [r \in {s \in {OrderRow(o)} : Visible(w, s).state \in from} |->
                            [live[r] EXCEPT !.state = to]]
    OBVIOUS
  <1>2. Write(w, new)
    BY <1>1 DEF OrderState
  <1>3. DOMAIN new \subseteq {OrderRow(o)}
    BY <1>1
  <1>4. ASSUME o \in Order, OrderRow(o) \in DOMAIN new
        PROVE  IsOrder(live'[OrderRow(o)]) /\ OrderHeld(w, o)'
    <2>1. /\ OrderRow(o) \in Row
          /\ new[OrderRow(o)] = [live[OrderRow(o)] EXCEPT !.state = to]
          /\ Visible(w, OrderRow(o)).state \in from
      BY <1>1, <1>4, RowsThere
    <2>2. live'[OrderRow(o)] = new[OrderRow(o)] /\ committed' = committed
      BY <1>2, <1>4, <2>1, WriteEffect
    <2>3. PICK old, row : /\ old = live[OrderRow(o)] /\ row = live'[OrderRow(o)]
                          /\ row = [old EXCEPT !.state = to]
                          /\ old = [state |-> old.state, qty |-> old.qty]
      BY <1>4, <2>1, <2>2 DEF WorkInv, Shape, IsOrder
    <2>4. row = [state |-> to, qty |-> old.qty]
      BY ONLY <2>3
    <2>5. row.state = to /\ IsOrder(row)
      BY ONLY <2>4 DEF IsOrder
    <2>6. lock[OrderRow(o)] # w
      BY <1>4 DEF WorkInv, Knows, OrderHeld
    <2>7. committed[OrderRow(o)].state \in from
      BY <2>1, <2>6 DEF Visible
    <2>8. to = "to_close" => \A r \in WorkRows(o) : Visible(w, r)' \notin Open
      <3>1. \A r \in WorkRows(o) : Visible(w, r)' = Visible(w, r)
        <4>1. \A r \in WorkRows(o) : r \in Row /\ r \notin DOMAIN new
          BY <1>3, <1>4, WorkNames
        <4>2. \A r \in WorkRows(o) : lock'[r] = lock[r] /\ live'[r] = live[r]
          BY <1>2, <4>1, WriteEffect
        <4> QED
          BY <2>2, <4>2 DEF Visible
      <3>2. to = "to_close" => OpenWork(w, o) = {}
        BY <2>1
      <3> QED
        BY <3>1, <3>2 DEF OpenWork, Open
    <2> QED
      BY <2>2, <2>3, <2>5, <2>7, <2>8 DEF OrderHeld, WorkRows
  <1> QED
    BY <1>2, <1>3, <1>4, OrderLawful

-----------------------------------------------------------------------------
(* each statement *)

\* A statement about products, quants, moves or the sequence.
LEMMA PlainKeeps ==
    ASSUME WorkInv, NEW w \in Worker, NEW new, Write(w, new),
           \A o \in Order : OrderRow(o) \notin DOMAIN new /\ \A r \in WorkRows(o) : r \notin DOMAIN new,
           NEW c, IsCall(c), call' = [call EXCEPT ![w] = c],
           call[w].pc # "commit", c.pc # "idle",
           c.pc \in {"explode", "number", "confirmed"} => c.method = "confirm",
           c.pc \in {"raw", "move", "done"} => c.method = "done",
           c.method = call[w].method, c.order = call[w].order
    PROVE  WorkInv'
  <1>1. \A v \in Worker \ {w} : call'[v] = call[v]
    BY DEF WorkInv, Shape
  <1> QED
    BY <1>1, WriteStep, PlainLawful, ServedKeeps

\* The product is locked and read.
LEMMA RefreshWork ==
    ASSUME WorkInv, NEW w \in Worker, RefreshOnHand(w)
    PROVE  WorkInv'
  <1>1. PICK old, row, left : old = call[w] /\ row = live[ProductRow(old.product)]
                              /\ left = IF old.qty < 0 THEN -old.qty ELSE 0
    OBVIOUS
  <1>2. PICK new : new = [r \in {ProductRow(old.product)} |-> live[r]]
    OBVIOUS
  <1>3. PICK c : c = [old EXCEPT !.pc = "layers", !.copy = row, !.left = left]
    OBVIOUS
  <1>4. old.pc = "onhand" /\ Write(w, new) /\ call' = [call EXCEPT ![w] = c]
    BY <1>1, <1>2, <1>3 DEF RefreshOnHand, At
  <1>5. IsCall(old)
    BY <1>1 DEF WorkInv, Shape
  <1>6. IsCall(c) /\ c.pc = "layers" /\ c.method = old.method /\ c.order = old.order
    BY ONLY <1>3, <1>5 DEF IsCall
  <1>7. \A o \in Order : OrderRow(o) \notin DOMAIN new /\ \A r \in WorkRows(o) : r \notin DOMAIN new
    BY <1>2, RowNames, WorkNames
  <1> QED
    BY <1>1, <1>4, <1>6, <1>7, PlainKeeps

\* A layer is taken.
LEMMA TakeWork ==
    ASSUME WorkInv, NEW w \in Worker, TakeLayer(w)
    PROVE  WorkInv'
  <1>1. PICK old : old = call[w]
    OBVIOUS
  <1>2. PICK new, take, portion :
          /\ Write(w, new) /\ DOMAIN new = {ProductRow(old.product)}
          /\ call' = [call EXCEPT ![w].left = @ - take, ![w].drawn = @ + portion]
          /\ old.pc = "layers"
    BY <1>1 DEF TakeLayer, At
  <1>3. PICK c : c = [old EXCEPT !.left = @ - take, !.drawn = @ + portion]
    OBVIOUS
  <1>4. old.pc = "layers" /\ call' = [call EXCEPT ![w] = c]
    BY ONLY <1>1, <1>2, <1>3
  <1>5. IsCall(old)
    BY <1>1 DEF WorkInv, Shape
  <1>6. IsCall(c) /\ c.pc = old.pc /\ c.method = old.method /\ c.order = old.order
    BY ONLY <1>3, <1>5 DEF IsCall
  <1>7. \A o \in Order : OrderRow(o) \notin DOMAIN new /\ \A r \in WorkRows(o) : r \notin DOMAIN new
    BY <1>2, RowNames, WorkNames
  <1> QED
    BY <1>1, <1>2, <1>4, <1>6, <1>7, PlainKeeps

\* The layer is inserted and the caches are written.
LEMMA WriteCachesWork ==
    ASSUME WorkInv, NEW w \in Worker, WriteCaches(w)
    PROVE  WorkInv'
  <1>1. PICK old, p, pc, v : /\ old = call[w] /\ p = old.product /\ v = LayerValue(old)
                             /\ pc = IF old.method = "done" THEN "move" ELSE "commit"
    OBVIOUS
  <1>2. PICK sum : sum = [qty |-> old.out[p].qty + old.qty, value |-> old.out[p].value + v]
    OBVIOUS
  <1>3. PICK c : c = [old EXCEPT !.pc = pc, !.out[p] = sum]
    OBVIOUS
  <1>4. old.pc = "layers" /\ call' = [call EXCEPT ![w] = c]
    BY <1>1, <1>2, <1>3 DEF WriteCaches, At
  <1>5. IsCall(old)
    BY <1>1 DEF WorkInv, Shape
  <1>6. IsCall(c) /\ c.pc = pc /\ c.method = old.method /\ c.order = old.order
    BY ONLY <1>3, <1>5 DEF IsCall
  <1>7. PICK new : Write(w, new) /\ DOMAIN new = {ProductRow(p)}
    <2>1. PICK quantity, value : quantity = old.copy.quantity + old.qty /\ value = old.copy.value + v
      OBVIOUS
    <2>2. PICK new :
            new = [s \in {ProductRow(p)} |->
                     [quantity |-> quantity, value |-> value, price |-> NewPrice(old, live[s].price, quantity, value),
                      fifo |-> IF method[old.product] = "fifo" /\ old.qty > 0
                               THEN Append(live[ProductRow(p)].fifo, [qty |-> old.qty, value |-> v])
                               ELSE live[ProductRow(p)].fifo]]
      OBVIOUS
    <2>3. Write(w, new)
      BY <1>1, <2>1, <2>2 DEF WriteCaches
    <2> QED
      BY <2>2, <2>3
  <1>8. \A o \in Order : OrderRow(o) \notin DOMAIN new /\ \A r \in WorkRows(o) : r \notin DOMAIN new
    BY <1>7, RowNames, WorkNames
  <1> QED
    BY <1>1, <1>4, <1>6, <1>7, <1>8, PlainKeeps

\* A request goes on to pc.
LEMMA Gone ==
    ASSUME WorkInv, NEW w \in Worker, NEW pc, Goto(w, pc)
    PROVE  \E c : /\ IsCall(c) /\ c.pc = pc /\ c.method = call[w].method /\ c.order = call[w].order
                  /\ call' = [call EXCEPT ![w] = c] /\ call'[w] = c
                  /\ \A v \in Worker \ {w} : call'[v] = call[v]
  <1>1. PICK old, c : old = call[w] /\ c = [old EXCEPT !.pc = pc]
    OBVIOUS
  <1>2. call' = [call EXCEPT ![w] = c]
    BY <1>1 DEF Goto
  <1>3. IsCall(old)
    BY <1>1 DEF WorkInv, Shape
  <1>4. IsCall(c) /\ c.pc = pc /\ c.method = old.method /\ c.order = old.order
    BY ONLY <1>1, <1>3 DEF IsCall
  <1>5. call'[w] = c /\ \A v \in Worker \ {w} : call'[v] = call[v]
    BY <1>2 DEF WorkInv, Shape
  <1> QED
    BY <1>1, <1>2, <1>4, <1>5

\* The added cost is written, the number drawn, a move done.
LEMMA RowWork ==
    ASSUME WorkInv, NEW w \in Worker, Revalue(w) \/ DrawNumber(w) \/ MoveDone(w)
    PROVE  WorkInv'
  <1>1. PICK new, pc : /\ Write(w, new)
                       /\ \/ \E p : DOMAIN new = {ProductRow(p)}
                          \/ DOMAIN new = {SequenceRow}
                          \/ \E o, p : DOMAIN new = {MoveRow(o, p)}
                       /\ Goto(w, pc)
                       /\ \/ call[w].pc = "revalue" /\ pc = "commit"
                          \/ call[w].pc = "number" /\ pc = "confirmed"
                          \/ call[w].pc = "move" /\ pc \in {"done", "raw"}
    <2>1. CASE Revalue(w)
      BY <2>1 DEF Revalue, At
    <2>2. CASE DrawNumber(w)
      BY <2>2 DEF DrawNumber, At
    <2>3. CASE MoveDone(w)
      BY <2>3 DEF MoveDone, At
    <2> QED
      BY <2>1, <2>2, <2>3
  <1>2. \A o \in Order : OrderRow(o) \notin DOMAIN new /\ \A r \in WorkRows(o) : r \notin DOMAIN new
    <2>1. CASE \E p : DOMAIN new = {ProductRow(p)}
      BY <2>1, RowNames, WorkNames
    <2>2. CASE DOMAIN new = {SequenceRow}
      BY <2>2, RowNames, WorkNames
    <2>3. CASE \E o, p : DOMAIN new = {MoveRow(o, p)}
      BY <2>3, RowNames, WorkNames
    <2> QED
      BY <1>1, <2>1, <2>2, <2>3
  <1>3. PICK c : /\ IsCall(c) /\ c.pc = pc /\ c.method = call[w].method /\ c.order = call[w].order
                 /\ call' = [call EXCEPT ![w] = c] /\ call'[w] = c
                 /\ \A v \in Worker \ {w} : call'[v] = call[v]
    BY <1>1, Gone
  <1>4. /\ c.pc \in {"explode", "number", "confirmed"} => c.method = "confirm"
        /\ c.pc \in {"raw", "move", "done"} => c.method = "done"
    BY <1>1, <1>3 DEF WorkInv, Knows
  <1> QED
    BY <1>1, <1>2, <1>3, <1>4, PlainKeeps

\* A component leaves stock.
LEMMA ConsumeWork ==
    ASSUME WorkInv, NEW w \in Worker, NEW p, ConsumeRaw(w, p)
    PROVE  WorkInv'
  <1>1. PICK old, n : old = call[w] /\ n = live[OrderRow(old.order)].qty * needs[makes[old.order]][p]
    OBVIOUS
  <1>2. PICK c : c = [old EXCEPT !.pc = "onhand", !.todo = @ \ {p}, !.product = p, !.qty = -n,
                                 !.drawn = 0, !.worth = @ + n * Visible(w, ProductRow(p)).price]
    OBVIOUS
  <1>3. PICK new : new = [r \in {QuantRow(p)} |-> live[r] + (-n)]
    OBVIOUS
  <1>4. old.pc = "raw" /\ Write(w, new) /\ call' = [call EXCEPT ![w] = c]
    BY <1>1, <1>2, <1>3 DEF ConsumeRaw, Moved, At
  <1>5. IsCall(old)
    BY <1>1 DEF WorkInv, Shape
  <1>6. IsCall(c) /\ c.pc = "onhand" /\ c.method = old.method /\ c.order = old.order
    BY ONLY <1>2, <1>5 DEF IsCall
  <1>7. \A o \in Order : OrderRow(o) \notin DOMAIN new /\ \A r \in WorkRows(o) : r \notin DOMAIN new
    BY <1>3, RowNames, WorkNames
  <1> QED
    BY <1>1, <1>4, <1>6, <1>7, PlainKeeps

\* The product comes in, or its move was cancelled.
LEMMA ProduceWork ==
    ASSUME WorkInv, NEW w \in Worker, ProduceFinished(w)
    PROVE  WorkInv'
  <1>1. PICK old, p, n : old = call[w] /\ p = makes[old.order] /\ n = live[OrderRow(old.order)].qty
    OBVIOUS
  <1>2. old.pc = "raw" /\ old.method = "done"
    BY <1>1 DEF ProduceFinished, At, WorkInv, Knows
  <1>3. CASE Goto(w, "done") /\ UNCHANGED dbVars
    <2>1. PICK c : /\ IsCall(c) /\ c.pc = "done" /\ c.method = call[w].method /\ c.order = call[w].order
                   /\ call' = [call EXCEPT ![w] = c] /\ call'[w] = c
                   /\ \A v \in Worker \ {w} : call'[v] = call[v]
      BY <1>3, Gone
    <2>2. Step(w) /\ Lawful(w, c)
      BY <1>3, <2>1, NothingWritten
    <2> QED
      BY <1>1, <1>2, <2>1, <2>2, ServedKeeps
  <1>4. CASE ~(Goto(w, "done") /\ UNCHANGED dbVars)
    <2>1. PICK c : c = [old EXCEPT !.pc = "onhand", !.product = p, !.qty = n, !.cost = Quotient(old.worth, n)]
      OBVIOUS
    <2>2. PICK new : new = [r \in {QuantRow(p)} |-> live[r] + n]
      OBVIOUS
    <2>3. Write(w, new) /\ call' = [call EXCEPT ![w] = c]
      BY <1>1, <1>4, <2>1, <2>2 DEF ProduceFinished, Moved
    <2>4. IsCall(old)
      BY <1>1 DEF WorkInv, Shape
    <2>5. IsCall(c) /\ c.pc = "onhand" /\ c.method = old.method /\ c.order = old.order
      BY ONLY <2>1, <2>4 DEF IsCall
    <2>6. \A o \in Order : OrderRow(o) \notin DOMAIN new /\ \A r \in WorkRows(o) : r \notin DOMAIN new
      BY <2>2, RowNames, WorkNames
    <2> QED
      BY <1>1, <1>2, <2>3, <2>5, <2>6, PlainKeeps
  <1> QED
    BY <1>3, <1>4

\* The bill explodes: a confirmation opens the work of its order.
LEMMA ExplodeWork ==
    ASSUME WorkInv, NEW w \in Worker, Explode(w)
    PROVE  WorkInv'
  <1>1. PICK o : o = call[w].order
    OBVIOUS
  <1>2. PICK new : new = [r \in MoveRows(o) \cup WorkRows(o) |->
                            IF r \in MoveRows(o) THEN "confirmed" ELSE "ready"]
    OBVIOUS
  <1>3. Write(w, new) /\ call[w].pc = "explode" /\ Goto(w, "number")
    BY <1>1, <1>2 DEF Explode, At
  <1>4. call[w].method = "confirm"
    BY <1>3 DEF WorkInv, Knows
  <1>5. PICK c : /\ IsCall(c) /\ c.pc = "number" /\ c.method = call[w].method /\ c.order = call[w].order
                 /\ call' = [call EXCEPT ![w] = c] /\ call'[w] = c
                 /\ \A v \in Worker \ {w} : call'[v] = call[v]
    BY <1>3, Gone
  <1>6. \A q \in Order : OrderRow(q) \notin DOMAIN new
    BY <1>2, RowNames, WorkNames DEF MoveRows, RawRows
  <1>7. \A q \in Order : \A r \in WorkRows(q) : r \in DOMAIN new => Confirms(c, q)
    <2> SUFFICES ASSUME NEW q \in Order, NEW r \in WorkRows(q), r \in DOMAIN new
                 PROVE  q = o
      BY <1>1, <1>4, <1>5 DEF Confirms
    <2>1. r \notin MoveRows(o)
      BY WorkNames DEF MoveRows, RawRows
    <2> QED
      BY <1>2, <2>1, WorkNames
  <1>8. Step(w) /\ Lawful(w, c)
    BY <1>3, <1>5, <1>6, <1>7, WriteStep, WorkLawful
  <1> QED
    BY <1>3, <1>4, <1>5, <1>8, ServedKeeps

\* The order is confirmed or done.
LEMMA SetStateWork ==
    ASSUME WorkInv, NEW w \in Worker, NEW state \in {"confirmed", "done"}, SetState(w, state)
    PROVE  WorkInv'
  <1>1. PICK o : o = call[w].order
    OBVIOUS
  <1>2. PICK new : new = [s \in {OrderRow(o)} |-> [live[s] EXCEPT !.state = state]]
    OBVIOUS
  <1>3. Write(w, new) /\ call[w].pc = state /\ Goto(w, "commit")
    BY <1>1, <1>2 DEF SetState, At
  <1>4. PICK c : /\ IsCall(c) /\ c.pc = "commit" /\ c.method = call[w].method /\ c.order = call[w].order
                 /\ call' = [call EXCEPT ![w] = c] /\ call'[w] = c
                 /\ \A v \in Worker \ {w} : call'[v] = call[v]
    BY <1>3, Gone
  <1>5. call[w].method = IF state = "confirmed" THEN "confirm" ELSE "done"
    BY <1>3 DEF WorkInv, Knows
  <1>6. ASSUME o \in Order, OrderRow(o) \in DOMAIN new
        PROVE  IsOrder(live'[OrderRow(o)]) /\ OrderHeld(w, o)'
    <2>1. /\ OrderRow(o) \in Row
          /\ new[OrderRow(o)] = [live[OrderRow(o)] EXCEPT !.state = state]
      BY <1>2, <1>6, RowsThere
    <2>2. live'[OrderRow(o)] = new[OrderRow(o)]
      BY <1>3, <1>6, <2>1, WriteEffect
    <2>3. PICK old, row : /\ old = live[OrderRow(o)] /\ row = live'[OrderRow(o)]
                          /\ row = [old EXCEPT !.state = state]
                          /\ old = [state |-> old.state, qty |-> old.qty]
      BY <1>6, <2>1, <2>2 DEF WorkInv, Shape, IsOrder
    <2>4. row = [state |-> state, qty |-> old.qty]
      BY ONLY <2>3
    <2>5. row.state = state /\ IsOrder(row)
      BY ONLY <2>4 DEF IsOrder
    <2> QED
      BY <1>1, <1>4, <1>5, <2>3, <2>5 DEF OrderHeld, Confirms, Finishes
  <1>7. DOMAIN new \subseteq {OrderRow(o)}
    BY <1>2
  <1>8. Step(w) /\ Lawful(w, c)
    BY <1>3, <1>4, <1>6, <1>7, WriteStep, OrderLawful
  <1> QED
    BY <1>3, <1>4, <1>5, <1>8, ServedKeeps

\* The work orders are cancelled.
LEMMA CancelWorkWork ==
    ASSUME WorkInv, NEW w \in Worker, CancelWork(w)
    PROVE  WorkInv'
  <1>1. PICK rows, from : /\ MoveStates(w, rows, from, "cancel") /\ rows = WorkRows(call[w].order)
                          /\ call[w].pc = "cancel work" /\ Goto(w, "cancel order")
    BY DEF CancelWork, At
  <1>2. PICK c : /\ IsCall(c) /\ c.pc = "cancel order" /\ c.method = call[w].method /\ c.order = call[w].order
                 /\ call' = [call EXCEPT ![w] = c] /\ call'[w] = c
                 /\ \A v \in Worker \ {w} : call'[v] = call[v]
    BY <1>1, Gone
  <1>3. \A o \in Order : OrderRow(o) \notin rows
    BY <1>1, WorkNames
  <1>4. "cancel" \notin Open
    BY DEF Open
  <1>5. Step(w) /\ Lawful(w, c)
    BY <1>1, <1>2, <1>3, <1>4, MovesLawful
  <1> QED
    BY <1>1, <1>2, <1>5, ServedKeeps

\* A conditional UPDATE of an order's state is a step.
LEMMA OrderStateStep ==
    ASSUME NEW w \in Worker, NEW o, NEW from, NEW to, OrderState(w, o, from, to),
           \A v \in Worker \ {w} : call'[v] = call[v]
    PROVE  Step(w)
  BY WriteStep DEF OrderState

\* The order is cancelled, in progress or to close.
LEMMA OrderStepWork ==
    ASSUME WorkInv, NEW w \in Worker, CancelOrder(w) \/ StartOrder(w) \/ CloseOrder(w)
    PROVE  WorkInv'
  <1>1. Goto(w, "commit") /\ call[w].pc \in {"cancel order", "start order", "close order"}
    BY DEF CancelOrder, StartOrder, CloseOrder, At
  <1>2. PICK c : /\ IsCall(c) /\ c.pc = "commit" /\ c.method = call[w].method /\ c.order = call[w].order
                 /\ call' = [call EXCEPT ![w] = c] /\ call'[w] = c
                 /\ \A v \in Worker \ {w} : call'[v] = call[v]
    BY <1>1, Gone
  <1>3. PICK o, from, to :
          /\ OrderState(w, o, from, to)
          /\ \/ to = "cancel"
             \/ to = "progress" /\ from = {"confirmed"}
             \/ /\ to = "to_close" /\ from \subseteq {"confirmed", "progress"}
                /\ from # {} => OpenWork(w, o) = {}
    <2>1. CASE CancelOrder(w)
      BY <2>1 DEF CancelOrder
    <2>2. CASE StartOrder(w)
      BY <2>2 DEF StartOrder
    <2>3. CASE CloseOrder(w)
      <3>1. PICK from : /\ OrderState(w, call[w].order, from, "to_close")
                        /\ from = IF OpenWork(w, call[w].order) = {} THEN {"confirmed", "progress"} ELSE {}
        BY <2>3 DEF CloseOrder
      <3>2. from \subseteq {"confirmed", "progress"} /\ (from # {} => OpenWork(w, call[w].order) = {})
        BY <3>1
      <3> QED
        BY <3>1, <3>2
    <2> QED
      BY <2>1, <2>2, <2>3
  <1>4. Step(w)
    BY <1>2, <1>3, OrderStateStep
  <1>5. Lawful(w, c)
    BY <1>1, <1>2, <1>3, OrderStateLawful
  <1> QED
    BY <1>1, <1>2, <1>4, <1>5, ServedKeeps

\* A replenishment is drafted, for an order nobody has seen.
LEMMA ReplenishWork ==
    ASSUME WorkInv, NEW w \in Worker, Replenish(w)
    PROVE  WorkInv'
  <1>1. call[w].pc = "forecast" /\ Goto(w, "commit")
    BY DEF Replenish, At
  <1>2. PICK c : /\ IsCall(c) /\ c.pc = "commit" /\ c.method = call[w].method /\ c.order = call[w].order
                 /\ call' = [call EXCEPT ![w] = c] /\ call'[w] = c
                 /\ \A v \in Worker \ {w} : call'[v] = call[v]
    BY <1>1, Gone
  <1>3. CASE UNCHANGED dbVars
    BY <1>1, <1>2, <1>3, NothingWritten, ServedKeeps
  <1>4. CASE ~(UNCHANGED dbVars)
    <2>1. PICK n : IF n = 0 THEN UNCHANGED dbVars
                   ELSE \E o \in Order : /\ live[OrderRow(o)].state = "none"
                                         /\ Write(w, [r \in {OrderRow(o)} |-> [state |-> "draft", qty |-> n]])
      BY DEF Replenish
    <2>2. PICK o \in Order : /\ live[OrderRow(o)].state = "none"
                             /\ Write(w, [r \in {OrderRow(o)} |-> [state |-> "draft", qty |-> n]])
      BY <1>4, <2>1
    <2>3. PICK new : new = [r \in {OrderRow(o)} |-> [state |-> "draft", qty |-> n]]
      OBVIOUS
    <2>4. Write(w, new)
      BY <2>2, <2>3
    <2>5. /\ committed' = committed /\ live'[OrderRow(o)] = [state |-> "draft", qty |-> n]
          /\ lock[OrderRow(o)] \in {w, NoTxn} /\ OrderRow(o) \in Row
      BY <2>3, <2>4, WriteEffect, RowsThere
    <2>6. committed[OrderRow(o)].state = "none"
      <3>1. lock[OrderRow(o)] # w
        BY <1>1 DEF WorkInv, Knows, OrderHeld
      <3> QED
        BY <2>2, <2>5, <3>1 DEF WorkInv, Unlocked
    <2>7. IsOrder(live'[OrderRow(o)]) /\ live'[OrderRow(o)].state = "draft"
      BY ONLY <2>5 DEF IsOrder
    <2>8. OrderHeld(w, o)'
      BY <1>2, <2>5, <2>6, <2>7 DEF OrderHeld
    <2>9. DOMAIN new \subseteq {OrderRow(o)}
      BY <2>3
    <2>10. Step(w) /\ Lawful(w, c)
      BY <1>2, <2>4, <2>7, <2>8, <2>9, WriteStep, OrderLawful
    <2> QED
      BY <1>1, <1>2, <2>10, ServedKeeps
  <1> QED
    BY <1>3, <1>4

\* A request that begins without an order.
LEMMA OrderlessWork ==
    ASSUME WorkInv, NEW w \in Worker, Step(w), NEW pc, NEW request, Begin(w, pc, request),
           NEW c, IsCall(c), c = [request EXCEPT !.pc = pc], c.pc = pc,
           c.method = request.method, c.order = request.order,
           c.pc \in {"onhand", "revalue", "forecast"},
           c.method \notin {"confirm", "done"},
           Lawful(w, c)
    PROVE  WorkInv'
  <1>1. \A o : ~Confirms(c, o) /\ ~Finishes(c, o)
    BY DEF Confirms, Finishes
  <1> QED
    BY <1>1, BegunKeeps

\* Idle is a request like others.
LEMMA IdleCall == IsCall(Idle)
  BY DEF Idle, IsCall

\* A request that begins by moving stock.
LEMMA MovingBegins ==
    ASSUME WorkInv, NEW w \in Worker, NEW p, NEW n, Moved(w, p, n),
           NEW request, IsCall(request), request.method \notin {"confirm", "done"}, Begin(w, "onhand", request)
    PROVE  WorkInv'
  <1>1. PICK c : c = [request EXCEPT !.pc = "onhand"]
    OBVIOUS
  <1>2. IsCall(c) /\ c.pc = "onhand" /\ c.method = request.method /\ c.order = request.order
    BY ONLY <1>1, IsCall(request) DEF IsCall
  <1>3. PICK new : new = [r \in {QuantRow(p)} |-> live[r] + n]
    OBVIOUS
  <1>4. Write(w, new)
    BY <1>3 DEF Moved
  <1>5. \A o \in Order : OrderRow(o) \notin DOMAIN new /\ \A r \in WorkRows(o) : r \notin DOMAIN new
    BY <1>3, RowNames, WorkNames
  <1>6. \A v \in Worker \ {w} : call'[v] = call[v]
    BY DEF Begin, WorkInv, Shape
  <1>7. Step(w) /\ Lawful(w, c)
    BY <1>4, <1>5, <1>6, WriteStep, PlainLawful
  <1> QED
    BY <1>1, <1>2, <1>7, OrderlessWork

\* A receipt or a delivery begins.
LEMMA MovingWork ==
    ASSUME WorkInv, NEW w \in Worker, NEW p, NEW n, NEW cost,
           Receive(w, p, n, cost) \/ Deliver(w, p, n)
    PROVE  WorkInv'
  <1>1. CASE Receive(w, p, n, cost)
    <2>1. PICK request : request = [[Idle EXCEPT !.qty = n, !.cost = cost] EXCEPT !.method = "receive", !.product = p]
      OBVIOUS
    <2>2. Moved(w, p, n) /\ Begin(w, "onhand", request)
      BY <1>1, <2>1 DEF Receive, Document
    <2>3. IsCall(request) /\ request.method = "receive"
      BY ONLY <2>1, IdleCall DEF IsCall
    <2> QED
      BY <2>2, <2>3, MovingBegins
  <1>2. CASE Deliver(w, p, n)
    <2>1. PICK request : request = [[Idle EXCEPT !.qty = -n] EXCEPT !.method = "deliver", !.product = p]
      OBVIOUS
    <2>2. Moved(w, p, -n) /\ Begin(w, "onhand", request)
      BY <1>2, <2>1 DEF Deliver, Document
    <2>3. IsCall(request) /\ request.method = "deliver"
      BY ONLY <2>1, IdleCall DEF IsCall
    <2> QED
      BY <2>2, <2>3, MovingBegins
  <1> QED
    BY <1>1, <1>2

\* A landed cost or a run of the reorder scheduler begins.
LEMMA ReadingWork ==
    ASSUME WorkInv, NEW w \in Worker, NEW p \in Product, NEW v, Land(w, p, v) \/ Reorder(w, p)
    PROVE  WorkInv'
  <1>1. PICK request, pc :
          /\ IsCall(request) /\ request.method \in {"land", "reorder"}
          /\ pc \in {"revalue", "forecast"}
          /\ Begin(w, pc, request) /\ UNCHANGED dbVars
    <2>1. CASE Land(w, p, v)
      <3>1. PICK copy, out : copy = Visible(w, ProductRow(p)) /\ out = [Idle.out EXCEPT ![p] = [qty |-> 0, value |-> v]]
        OBVIOUS
      <3>2. PICK request :
              request = [[Idle EXCEPT !.worth = v, !.copy = copy, !.out = out] EXCEPT !.method = "land", !.product = p]
        OBVIOUS
      <3>3. Begin(w, "revalue", request) /\ UNCHANGED dbVars
        BY <2>1, <3>1, <3>2 DEF Land, Document
      <3>4. IsCall(request) /\ request.method = "land"
        BY ONLY <3>2, IdleCall DEF IsCall
      <3> QED
        BY <3>3, <3>4
    <2>2. CASE Reorder(w, p)
      <3>1. PICK q : q = Visible(w, QuantRow(p))
        OBVIOUS
      <3>2. PICK request : request = [Idle EXCEPT !.method = "reorder", !.product = p, !.qty = q]
        OBVIOUS
      <3>3. Begin(w, "forecast", request) /\ UNCHANGED dbVars
        BY <2>2, <3>1, <3>2 DEF Reorder
      <3>4. IsCall(request) /\ request.method = "reorder"
        BY ONLY <3>2, IdleCall DEF IsCall
      <3> QED
        BY <3>3, <3>4
    <2> QED
      BY <2>1, <2>2
  <1>2. PICK c : c = [request EXCEPT !.pc = pc]
    OBVIOUS
  <1>3. IsCall(c) /\ c.pc = pc /\ c.method = request.method /\ c.order = request.order
    BY ONLY <1>1, <1>2 DEF IsCall
  <1>4. \A u \in Worker \ {w} : call'[u] = call[u]
    BY <1>1 DEF Begin, WorkInv, Shape
  <1>5. Step(w) /\ Lawful(w, c)
    BY <1>1, <1>4, NothingWritten
  <1>6. c.pc \in {"onhand", "revalue", "forecast"} /\ c.method \notin {"confirm", "done"}
    BY <1>1, <1>3
  <1> QED
    BY <1>1, <1>2, <1>3, <1>5, <1>6, OrderlessWork

\* What a request for an order starts with.
LEMMA ForCall ==
    ASSUME NEW m, NEW o
    PROVE  IsCall(For(m, o)) /\ For(m, o).method = m /\ For(m, o).order = o
  <1>1. PICK d : d = For(m, o)
    OBVIOUS
  <1>2. d = [Idle EXCEPT !.method = m, !.order = o]
    BY <1>1 DEF For
  <1>3. IsCall(d) /\ d.method = m /\ d.order = o
    BY ONLY <1>2, IdleCall DEF IsCall
  <1> QED
    BY <1>1, <1>3

\* It begins at pc.
LEMMA CallAt ==
    ASSUME NEW d, IsCall(d), NEW pc, NEW c, c = [d EXCEPT !.pc = pc]
    PROVE  IsCall(c) /\ c.pc = pc /\ c.method = d.method /\ c.order = d.order
  BY DEF IsCall

\* Who serves no request sees what is committed.
LEMMA IdleSees ==
    ASSUME WorkInv, NEW w \in Worker, call[w] = Idle, NEW r \in Row
    PROVE  Visible(w, r) = committed[r]
  <1>1. lock[r] # w
    BY IdleOK DEF WorkInv, Knows
  <1> QED
    BY <1>1 DEF Visible

\* action_confirm begins.
LEMMA ConfirmWork ==
    ASSUME WorkInv, NEW w \in Worker, NEW o \in Order, Confirm(w, o)
    PROVE  WorkInv'
  <1>1. PICK c : c = [For("confirm", o) EXCEPT !.pc = "explode"]
    OBVIOUS
  <1>2. /\ IsCall(c) /\ c.pc = "explode" /\ c.method = "confirm" /\ c.order = o
        /\ For("confirm", o).method = "confirm" /\ For("confirm", o).order = o
    BY <1>1, ForCall, CallAt
  <1>3. Begin(w, "explode", For("confirm", o)) /\ UNCHANGED dbVars /\ call[w] = Idle
    BY DEF Confirm, Begin
  <1>4. committed[OrderRow(o)].state = "draft"
    BY <1>3, RowsThere, IdleSees DEF Confirm
  <1>5. \A v \in Worker \ {w} : call'[v] = call[v]
    BY <1>3 DEF Begin, WorkInv, Shape
  <1>6. Step(w) /\ Lawful(w, c)
    BY <1>3, <1>5, NothingWritten
  <1>7. \A q \in Order : /\ Confirms(c, q) => committed[OrderRow(q)].state = "draft"
                         /\ ~Finishes(c, q)
    BY <1>2, <1>4 DEF Confirms, Finishes
  <1> QED
    BY <1>1, <1>2, <1>3, <1>6, <1>7, BegunKeeps

\* handleMarkDone begins, with no work open on its order.
LEMMA MarkDoneWork ==
    ASSUME WorkInv, NEW w \in Worker, NEW o \in Order, MarkDone(w, o)
    PROVE  WorkInv'
  <1>1. PICK todo : todo = {p \in Components(o) : Visible(w, MoveRow(o, p)) = "confirmed"}
    OBVIOUS
  <1>3. PICK request : request = [For("done", o) EXCEPT !.todo = todo]
    OBVIOUS
  <1>4. PICK c : c = [request EXCEPT !.pc = "raw"]
    OBVIOUS
  <1>5. IsCall(For("done", o)) /\ For("done", o).method = "done" /\ For("done", o).order = o
    BY ForCall
  <1>6. PICK d : d = For("done", o) /\ request = [d EXCEPT !.todo = todo] /\ IsCall(d) /\ d.method = "done" /\ d.order = o
    BY <1>3, <1>5
  <1>7. /\ IsCall(c) /\ c.pc = "raw" /\ c.method = "done" /\ c.order = o
        /\ request.method = "done" /\ request.order = o
    BY ONLY <1>4, <1>6 DEF IsCall
  <1>8. Begin(w, "raw", request) /\ UNCHANGED dbVars /\ call[w] = Idle
    BY <1>1, <1>3 DEF MarkDone, Begin
  <1>9. committed[OrderRow(o)].state \in {"confirmed", "progress", "to_close"}
    BY <1>8, RowsThere, IdleSees DEF MarkDone
  <1>10. Settled(o)
    <2>1. \A r \in WorkRows(o) : r \in Row
      BY WorkNames
    <2>2. \A r \in WorkRows(o) : Visible(w, r) = committed[r]
      BY <1>8, <2>1, IdleSees
    <2>3. OpenWork(w, o) = {}
      BY DEF MarkDone
    <2> QED
      BY <2>2, <2>3 DEF OpenWork, Settled, Open
  <1>11. \A v \in Worker \ {w} : call'[v] = call[v]
    BY <1>8 DEF Begin, WorkInv, Shape
  <1>12. Step(w) /\ Lawful(w, c)
    BY <1>8, <1>11, NothingWritten
  <1>13. \A q \in Order : /\ ~Confirms(c, q)
                          /\ Finishes(c, q) =>
                                committed[OrderRow(q)].state \in {"confirmed", "progress", "to_close"} /\ Settled(q)
    BY <1>7, <1>9, <1>10 DEF Confirms, Finishes
  <1> QED
    BY <1>4, <1>7, <1>8, <1>12, <1>13, BegunKeeps

\* A cancel, or the start or the finish of a work order, begins.
LEMMA MovesWork ==
    ASSUME WorkInv, NEW w \in Worker, NEW o \in Order, NEW rows, NEW from, NEW to, NEW pc, NEW m,
           MoveStates(w, rows, from, to), \A q \in Order : OrderRow(q) \notin rows,
           to \notin Open \/ from \subseteq Open,
           Begin(w, pc, For(m, o)),
           pc \in {"cancel work", "start order", "close order"}, m \notin {"confirm", "done"}
    PROVE  WorkInv'
  <1>1. PICK c : c = [For(m, o) EXCEPT !.pc = pc]
    OBVIOUS
  <1>2. /\ IsCall(c) /\ c.pc = pc /\ c.method = m /\ c.order = o
        /\ For(m, o).method = m /\ For(m, o).order = o
    <2>1. PICK d : d = For(m, o)
      OBVIOUS
    <2>2. IsCall(d) /\ d.method = m /\ d.order = o
      BY <2>1, ForCall
    <2>3. c = [d EXCEPT !.pc = pc]
      BY <1>1, <2>1
    <2>4. IsCall(c) /\ c.pc = pc /\ c.method = d.method /\ c.order = d.order
      BY ONLY <2>2, <2>3 DEF IsCall
    <2> QED
      BY <2>1, <2>2, <2>4
  <1>3. \A v \in Worker \ {w} : call'[v] = call[v]
    BY DEF Begin, WorkInv, Shape
  <1>4. Step(w) /\ Lawful(w, c)
    BY <1>3, MovesLawful
  <1>5. \A q : ~Confirms(c, q) /\ ~Finishes(c, q)
    BY <1>2 DEF Confirms, Finishes
  <1> QED
    BY <1>1, <1>2, <1>4, <1>5, BegunKeeps

\* action_cancel, and the handlers of work orders, begin.
LEMMA BeginningsWork ==
    ASSUME WorkInv, NEW w \in Worker, NEW o \in Order, NEW k,
           Cancel(w, o) \/ StartWork(w, o, k) \/ FinishWork(w, o, k)
    PROVE  WorkInv'
  <1>1. /\ \A q \in Order : OrderRow(q) \notin MoveRows(o)
        /\ \A q \in Order : OrderRow(q) \notin {WorkRow(o, k)}
    BY RowNames DEF MoveRows, RawRows
  <1>2. "cancel" \notin Open /\ "done" \notin Open /\ {"ready", "progress"} \subseteq Open
    BY DEF Open
  <1>3. CASE Cancel(w, o)
    <2>1. /\ MoveStates(w, MoveRows(o), {"confirmed"}, "cancel")
          /\ Begin(w, "cancel work", For("cancel", o))
          /\ "cancel work" \in {"cancel work", "start order", "close order"} /\ "cancel" \notin {"confirm", "done"}
      BY <1>3 DEF Cancel
    <2> QED
      BY <1>1, <1>2, <2>1, MovesWork, Zenon
  <1>4. CASE StartWork(w, o, k)
    <2>1. PICK rows, from, to, pc, m :
            /\ rows = {WorkRow(o, k)} /\ from = {"ready", "progress"} /\ to = "progress"
            /\ pc = "start order" /\ m = "start"
      OBVIOUS
    <2>2. MoveStates(w, rows, from, to) /\ Begin(w, pc, For(m, o))
      BY <1>4, <2>1 DEF StartWork
    <2>3. \A q \in Order : OrderRow(q) \notin rows
      BY <1>1, <2>1
    <2>4. from \subseteq Open /\ pc \in {"cancel work", "start order", "close order"} /\ m \notin {"confirm", "done"}
      BY <1>2, <2>1
    <2> QED
      BY <2>2, <2>3, <2>4, MovesWork
  <1>5. CASE FinishWork(w, o, k)
    <2>1. /\ MoveStates(w, {WorkRow(o, k)}, {"ready", "progress"}, "done")
          /\ Begin(w, "close order", For("finish", o))
          /\ "close order" \in {"cancel work", "start order", "close order"} /\ "finish" \notin {"confirm", "done"}
      BY <1>5 DEF FinishWork
    <2> QED
      BY <1>1, <1>2, <2>1, MovesWork
  <1> QED
    BY <1>3, <1>4, <1>5

-----------------------------------------------------------------------------
(* the ends of a request, and a new order *)

\* The rows a request held are published, or taken back.
Released(w) ==
    /\ committed' = [r \in Row |-> committed'[r]] /\ live' = [r \in Row |-> live'[r]]
    /\ \A r \in Row : lock[r] # w => /\ lock'[r] = lock[r] /\ live'[r] = live[r]
                                     /\ committed'[r] = committed[r]
    /\ \A r \in Row : lock[r] = w => lock'[r] = NoTxn /\ live'[r] = committed'[r]
    /\ call' = [call EXCEPT ![w] = Idle]

\* What an end of a request leaves to be seen of what it held.
LEMMA ReleasedKeeps ==
    ASSUME WorkInv, NEW w \in Worker, Released(w),
           \A o \in Order : IsOrder(committed'[OrderRow(o)]),
           \A o \in Order : \A r \in WorkRows(o) :
              committed'[r] \in Open => committed[r] \in Open \/ Confirms(call[w], o),
           \A o \in Order :
              \/ committed'[OrderRow(o)] = committed[OrderRow(o)]
              \/ committed'[OrderRow(o)].state = "confirmed" /\ Confirms(call[w], o)
              \/ committed'[OrderRow(o)].state = "done" /\ Finishes(call[w], o)
              \/ committed'[OrderRow(o)].state = "cancel"
              \/ committed'[OrderRow(o)].state = "progress" /\ committed[OrderRow(o)].state = "confirmed"
              \/ /\ committed'[OrderRow(o)].state = "to_close"
                 /\ committed[OrderRow(o)].state \in {"confirmed", "progress"}
                 /\ \A r \in WorkRows(o) : committed'[r] \notin Open
              \/ committed'[OrderRow(o)].state = "draft" /\ committed[OrderRow(o)].state = "none"
    PROVE  WorkInv'
  <1>1. /\ call'[w] = Idle
        /\ \A v \in Worker \ {w} : call'[v] = call[v]
        /\ call' = [v \in Worker |-> call'[v]]
    BY DEF Released, WorkInv, Shape
  <1>2. /\ \A r \in Row : lock[r] # w => /\ lock'[r] = lock[r] /\ live'[r] = live[r]
                                         /\ committed'[r] = committed[r]
        /\ \A r \in Row : lock[r] = w => lock'[r] = NoTxn /\ live'[r] = committed'[r]
    BY DEF Released
  <1>3. Idle.pc = "idle" /\ Idle.method = ""
    BY IdleOK
  <1>4. \A o : ~Confirms(call'[w], o) /\ ~Finishes(call'[w], o)
    BY <1>1, <1>3 DEF Confirms, Finishes
  <1>5. \A o \in Order : OrderRow(o) \in Row /\ WorkRows(o) \subseteq Row /\ WorkRows(o)' = WorkRows(o)
    BY RowsThere, WorkNames DEF WorkRows
  <1>6. Shape'
    <2>1. \A o \in Order : IsOrder(live'[OrderRow(o)])
      BY <1>2, <1>5 DEF WorkInv, Shape
    <2>2. \A v \in Worker : IsCall(call'[v])
      BY <1>1, IdleCall DEF WorkInv, Shape
    <2>3. committed' = [r \in Row |-> committed'[r]] /\ live' = [r \in Row |-> live'[r]]
      BY DEF Released
    <2> QED
      BY <1>1, <2>1, <2>2, <2>3 DEF Shape
  <1>7. Unlocked'
    BY <1>2 DEF WorkInv, Unlocked
  <1>8. Apart'
    <2> SUFFICES ASSUME NEW o \in Order, NEW u \in Worker, NEW v \in Worker
                 PROVE  /\ u # v => ~(Confirms(call'[u], o) /\ Confirms(call'[v], o))
                        /\ ~(Confirms(call'[u], o) /\ Finishes(call'[v], o))
      BY Zenon DEF Apart, Confirms, Finishes
    <2>1. CASE u = w \/ v = w
      BY <1>4, <2>1
    <2>2. CASE u # w /\ v # w
      BY <1>1, <2>2 DEF WorkInv, Apart
    <2> QED
      BY <2>1, <2>2
  <1>9. WorkBeforeClose'
    <2> SUFFICES ASSUME NEW o \in Order, NEW r \in WorkRows(o), committed'[r] \in Open
                 PROVE  committed'[OrderRow(o)].state \notin {"to_close", "done"}
      BY <1>5 DEF WorkBeforeClose, Open
    <2>1. StillHolds(w, o) /\ Confirms(call[w], o) => committed[OrderRow(o)].state \in {"draft", "cancel"}
      BY DEF WorkInv, Knows, StillHolds
    <2>2. committed[OrderRow(o)].state \in {"to_close", "done"} => committed[r] \notin Open
      BY DEF WorkInv, WorkBeforeClose, Open
    <2>3. StillHolds(w, o)
      BY DEF WorkInv, Knows
    <2>4. Finishes(call[w], o) => committed[r] \notin Open /\ ~Confirms(call[w], o)
      BY <2>3 DEF StillHolds, Settled, Confirms, Finishes
    <2> QED
      BY <2>1, <2>2, <2>3, <2>4
  <1>10. ASSUME NEW v \in Worker \ {w}
         PROVE  Knows(v)'
    <2>1. Knows(v) /\ call'[v] = call[v]
      BY <1>1 DEF WorkInv
    <2>2. \A r \in Row : lock'[r] = v => /\ lock[r] = v /\ live'[r] = live[r]
                                         /\ committed'[r] = committed[r]
      BY <1>2, NoTxnAssumption
    <2>3. ASSUME NEW o \in Order, lock'[OrderRow(o)] = v
          PROVE  OrderHeld(v, o)'
      <3>1. /\ OrderHeld(v, o) /\ live'[OrderRow(o)] = live[OrderRow(o)]
            /\ committed'[OrderRow(o)] = committed[OrderRow(o)]
        BY <1>5, <2>1, <2>2, <2>3 DEF Knows
      <3>2. ASSUME committed[OrderRow(o)].state \in {"confirmed", "progress"},
                   NEW r \in WorkRows(o), Visible(v, r) \notin Open
            PROVE  Visible(v, r)' \notin Open
        <4>1. r \in Row
          BY <1>5
        <4>2. ~Confirms(call[w], o)
          BY <3>2 DEF WorkInv, Knows, StillHolds
        <4>3. CASE lock[r] = v
          BY <1>2, <3>2, <4>1, <4>3 DEF Visible
        <4>4. CASE lock[r] # v
          BY <1>2, <2>2, <3>2, <4>1, <4>2, <4>4 DEF Visible
        <4> QED
          BY <4>3, <4>4
      <3> QED
        BY <1>5, <2>1, <3>1, <3>2 DEF OrderHeld, Confirms, Finishes
    <2>4. ASSUME NEW o \in Order
          PROVE  WorkHeld(v, o)'
      <3>1. WorkHeld(v, o)
        BY <2>1 DEF Knows
      <3> QED
        BY <1>5, <2>1, <2>2, <3>1 DEF WorkHeld, Confirms
    <2>5. ASSUME NEW o \in Order
          PROVE  StillHolds(v, o)'
      <3>1. StillHolds(v, o) /\ StillHolds(w, o)
        BY DEF WorkInv, Knows
      <3>2. /\ Confirms(call[v], o) => ~Confirms(call[w], o) /\ ~Finishes(call[w], o)
            /\ Finishes(call[v], o) => ~Confirms(call[w], o)
        BY DEF WorkInv, Apart
      <3>3. Confirms(call[v], o) => committed'[OrderRow(o)].state \in {"draft", "cancel"}
        BY <3>1, <3>2 DEF StillHolds
      <3>4. Finishes(call[v], o) => committed'[OrderRow(o)].state \notin {"none", "draft"}
        BY <3>1 DEF StillHolds
      <3>5. Finishes(call[v], o) => \A r \in WorkRows(o) : committed'[r] \notin Open
        BY <3>1, <3>2 DEF StillHolds, Settled
      <3> QED
        BY <1>5, <2>1, <3>3, <3>4, <3>5 DEF StillHolds, Settled, Confirms, Finishes
    <2>6. call'[v].pc = "idle" => \A r \in Row : lock'[r] # v
      BY <2>1, <2>2 DEF Knows
    <2> QED
      BY <2>1, <2>3, <2>4, <2>5, <2>6 DEF Knows
  <1>11. Knows(w)'
    <2>1. \A r \in Row : lock'[r] # w
      BY <1>2, NoTxnAssumption
    <2>2. \A o \in Order : WorkHeld(w, o)'
      BY <1>5, <2>1 DEF WorkHeld
    <2>3. \A o \in Order : StillHolds(w, o)'
      BY <1>4 DEF StillHolds, Confirms, Finishes
    <2> QED
      BY <1>1, <1>3, <1>5, <2>1, <2>2, <2>3 DEF Knows
  <1> QED
    BY <1>6, <1>7, <1>8, <1>9, <1>10, <1>11 DEF WorkInv

\* ROLLBACK takes everything back.
LEMMA AbortWork ==
    ASSUME WorkInv, NEW w \in Worker, Abort(w)
    PROVE  WorkInv'
  <1>1. Released(w) /\ committed' = committed
    BY DEF Abort, RollbackTxn, Released, WorkInv, Shape
  <1> QED
    BY <1>1, ReleasedKeeps DEF WorkInv, Shape

\* COMMIT publishes the state of an order together with its work.
LEMMA CommitWork ==
    ASSUME WorkInv, NEW w \in Worker, Commit(w)
    PROVE  WorkInv'
  <1>1. /\ committed' = [r \in Row |-> Visible(w, r)]
        /\ live' = live
        /\ lock' = [r \in Row |-> IF lock[r] = w THEN NoTxn ELSE lock[r]]
        /\ call' = [call EXCEPT ![w] = Idle]
    BY DEF Commit, CommitTxn
  <1>2. Released(w)
    BY <1>1 DEF Released, Visible, WorkInv, Shape
  <1>3. \A o \in Order : OrderRow(o) \in Row /\ WorkRows(o) \subseteq Row
    BY RowsThere, WorkNames
  <1>4. \A o \in Order : IsOrder(committed'[OrderRow(o)])
    BY <1>1, <1>3 DEF Visible, WorkInv, Shape
  <1>5. ASSUME NEW o \in Order, NEW r \in WorkRows(o), committed'[r] \in Open
        PROVE  committed[r] \in Open \/ Confirms(call[w], o)
    BY <1>1, <1>3, <1>5 DEF Visible, WorkInv, Knows, WorkHeld
  <1>6. ASSUME NEW o \in Order, committed'[OrderRow(o)] # committed[OrderRow(o)]
        PROVE  /\ committed'[OrderRow(o)] = live[OrderRow(o)] /\ OrderHeld(w, o)
               /\ \A r \in WorkRows(o) : committed'[r] = Visible(w, r)
    <2>1. OrderRow(o) \in Row /\ \A r \in WorkRows(o) : r \in Row
      BY <1>3
    <2>2. lock[OrderRow(o)] = w
      BY <1>1, <1>6, <2>1 DEF Visible
    <2> QED
      BY <1>1, <2>1, <2>2 DEF Visible, WorkInv, Knows
  <1>7. \A o \in Order : committed'[OrderRow(o)] # committed[OrderRow(o)] =>
          \/ committed'[OrderRow(o)].state = "confirmed" /\ Confirms(call[w], o)
          \/ committed'[OrderRow(o)].state = "done" /\ Finishes(call[w], o)
          \/ committed'[OrderRow(o)].state = "cancel"
          \/ committed'[OrderRow(o)].state = "progress" /\ committed[OrderRow(o)].state = "confirmed"
          \/ /\ committed'[OrderRow(o)].state = "to_close"
             /\ committed[OrderRow(o)].state \in {"confirmed", "progress"}
             /\ \A r \in WorkRows(o) : committed'[r] \notin Open
          \/ committed'[OrderRow(o)].state = "draft" /\ committed[OrderRow(o)].state = "none"
    BY <1>6 DEF OrderHeld
  <1> QED
    BY <1>2, <1>4, <1>5, <1>7, ReleasedKeeps

\* A new order is a draft nobody has seen.
LEMMA PlanWork ==
    ASSUME WorkInv, NEW w \in Worker, NEW o \in Order, NEW n, Plan(w, o, n)
    PROVE  WorkInv'
  <1>1. PICK row : row = [state |-> "draft", qty |-> n]
    OBVIOUS
  <1>2. /\ committed' = [committed EXCEPT ![OrderRow(o)] = row]
        /\ live' = [live EXCEPT ![OrderRow(o)] = row]
        /\ lock' = lock /\ call' = call
        /\ lock[OrderRow(o)] = NoTxn /\ live[OrderRow(o)].state = "none"
    BY <1>1 DEF Plan
  <1>3. OrderRow(o) \in Row /\ committed[OrderRow(o)].state = "none"
    BY <1>2, RowsThere DEF WorkInv, Unlocked
  <1>4. committed'[OrderRow(o)] = row /\ live'[OrderRow(o)] = row
    BY <1>2, <1>3 DEF WorkInv, Shape
  <1>5. \A r \in Row : r # OrderRow(o) => committed'[r] = committed[r] /\ live'[r] = live[r]
    BY <1>2 DEF WorkInv, Shape
  <1>6. IsOrder(row) /\ row.state = "draft"
    BY ONLY <1>1 DEF IsOrder
  <1>7. \A q \in Order : OrderRow(q) \in Row /\ WorkRows(q) \subseteq Row
    BY RowsThere, WorkNames
  <1>8. \A q \in Order : q # o => /\ committed'[OrderRow(q)] = committed[OrderRow(q)]
                                  /\ live'[OrderRow(q)] = live[OrderRow(q)]
    BY <1>5, <1>7, RowNames
  <1>9. \A q \in Order : \A r \in WorkRows(q) : committed'[r] = committed[r] /\ live'[r] = live[r]
    BY <1>5, <1>7, WorkNames
  <1>10. Shape'
    <2>1. committed' = [r \in Row |-> committed'[r]] /\ live' = [r \in Row |-> live'[r]]
      BY <1>2 DEF WorkInv, Shape
    <2>2. \A q \in Order : IsOrder(committed'[OrderRow(q)]) /\ IsOrder(live'[OrderRow(q)])
      BY <1>4, <1>6, <1>8 DEF WorkInv, Shape
    <2> QED
      BY <1>2, <2>1, <2>2 DEF WorkInv, Shape
  <1>11. Unlocked'
    BY <1>2, <1>4, <1>5 DEF WorkInv, Unlocked
  <1>12. Apart'
    BY <1>2 DEF WorkInv, Apart, Confirms, Finishes
  <1>13. WorkBeforeClose'
    <2> SUFFICES ASSUME NEW q \in Order, NEW r \in WorkRows(q), committed'[OrderRow(q)].state \in {"to_close", "done"}
                 PROVE  committed'[r] \notin Open
      BY DEF WorkBeforeClose, Open, WorkRows
    <2>1. q # o
      BY <1>4, <1>6
    <2> QED
      BY <1>8, <1>9, <2>1 DEF WorkInv, WorkBeforeClose, Open
  <1>14. ASSUME NEW v \in Worker
         PROVE  Knows(v)'
    <2>1. Knows(v) /\ call'[v] = call[v]
      BY <1>2 DEF WorkInv
    <2>2. ASSUME NEW q \in Order, lock'[OrderRow(q)] = v
          PROVE  OrderHeld(v, q)'
      <3>1. q # o /\ OrderHeld(v, q)
        BY <1>2, <2>1, <2>2, NoTxnAssumption DEF Knows
      <3>2. \A r \in WorkRows(q) : Visible(v, r)' = Visible(v, r)
        BY <1>2, <1>9 DEF Visible
      <3> QED
        BY <1>8, <2>1, <3>1, <3>2 DEF OrderHeld, Confirms, Finishes, WorkRows
    <2>3. \A q \in Order : WorkHeld(v, q)'
      BY <1>2, <1>9, <2>1 DEF Knows, WorkHeld, Confirms, WorkRows
    <2>4. ASSUME NEW q \in Order
          PROVE  StillHolds(v, q)'
      <3>1. StillHolds(v, q)
        BY <2>1 DEF Knows
      <3>2. CASE q = o
        <4>1. ~Finishes(call[v], q)
          BY <1>3, <3>1, <3>2 DEF StillHolds
        <4> QED
          BY <1>4, <1>6, <2>1, <3>2, <4>1 DEF StillHolds, Confirms, Finishes
      <3>3. CASE q # o
        BY <1>8, <1>9, <2>1, <3>1, <3>3 DEF StillHolds, Settled, Confirms, Finishes, WorkRows
      <3> QED
        BY <3>2, <3>3
    <2> QED
      BY <1>2, <2>1, <2>2, <2>3, <2>4 DEF Knows
  <1> QED
    BY <1>10, <1>11, <1>12, <1>13, <1>14 DEF WorkInv

-----------------------------------------------------------------------------
\* At the start there are no orders.
LEMMA InitWork ==
    ASSUME Init
    PROVE  WorkInv
  <1>1. /\ live = committed /\ lock = [r \in Row |-> NoTxn] /\ call = [w \in Worker |-> Idle]
        /\ committed = [r \in Row |-> committed[r]]
    BY DEF Init
  <1>2. \A o \in Order : committed[OrderRow(o)] = NoOrderRow
    BY RowsThere DEF Init, OrderRow
  <1>3. \A o \in Order : \A r \in WorkRows(o) : r \in Row /\ committed[r] = "none"
    <2>1. \A o \in Order : \A r \in WorkRows(o) : r \in Row /\ r[1] = "work"
      BY WorkNames DEF WorkRows, WorkRow
    <2> QED
      BY <2>1 DEF Init
  <1>4. IsOrder(NoOrderRow) /\ NoOrderRow.state = "none"
    BY DEF IsOrder, NoOrderRow
  <1>5. Idle.pc = "idle" /\ Idle.method = ""
    BY IdleOK
  <1>6. \A w \in Worker, o \in Order : ~Confirms(call[w], o) /\ ~Finishes(call[w], o)
    BY <1>1, <1>5 DEF Confirms, Finishes
  <1>7. Shape
    BY <1>1, <1>2, <1>4, IdleCall DEF Shape
  <1>8. Unlocked /\ Apart
    BY <1>1, <1>6 DEF Unlocked, Apart
  <1>9. WorkBeforeClose
    BY <1>3 DEF WorkBeforeClose
  <1>10. ASSUME NEW w \in Worker
         PROVE  Knows(w)
    <2>1. \A r \in Row : lock[r] # w
      BY <1>1, NoTxnAssumption
    <2>2. call[w].pc = "idle"
      BY <1>1, <1>5
    <2>3. \A o \in Order : OrderRow(o) \in Row /\ WorkHeld(w, o) /\ StillHolds(w, o)
      BY <1>3, <1>6, <2>1, RowsThere DEF WorkHeld, StillHolds
    <2> QED
      BY <2>1, <2>2, <2>3 DEF Knows
  <1> QED
    BY <1>7, <1>8, <1>9, <1>10 DEF WorkInv

\* Every step keeps what the requests know.
LEMMA NextWork ==
    ASSUME WorkInv, Next
    PROVE  WorkInv'
  <1>1. CASE \E w \in Worker, o \in Order, n \in Batch : Plan(w, o, n)
    BY <1>1, PlanWork
  <1>2. ASSUME NEW w \in Worker, Moving(w)
        PROVE  WorkInv'
    BY <1>2, RefreshWork, TakeWork, WriteCachesWork DEF Moving
  <1>3. ASSUME NEW w \in Worker, Documents(w)
        PROVE  WorkInv'
    BY <1>3, MovingWork, ReadingWork, RowWork DEF Documents
  <1>4. ASSUME NEW w \in Worker, Producing(w)
        PROVE  WorkInv'
    BY <1>4, ConfirmWork, MarkDoneWork, BeginningsWork, ExplodeWork, RowWork, SetStateWork, ConsumeWork,
       ProduceWork, CancelWorkWork, OrderStepWork DEF Producing
  <1>5. ASSUME NEW w \in Worker, Working(w)
        PROVE  WorkInv'
    BY <1>5, BeginningsWork, OrderStepWork DEF Working
  <1>6. ASSUME NEW w \in Worker, Reordering(w)
        PROVE  WorkInv'
    BY <1>6, ReplenishWork, ReadingWork DEF Reordering
  <1>7. ASSUME NEW w \in Worker, Commit(w) \/ Abort(w)
        PROVE  WorkInv'
    BY <1>7, CommitWork, AbortWork
  <1> QED
    BY <1>1, <1>2, <1>3, <1>4, <1>5, <1>6, <1>7 DEF Next

\* A step of something else leaves it alone.
LEMMA StutterWork ==
    ASSUME WorkInv, UNCHANGED vars
    PROVE  WorkInv'
  <1>1. committed' = committed /\ live' = live /\ lock' = lock /\ call' = call
    BY DEF vars, dbVars
  <1>2. Shape' /\ Unlocked' /\ Apart' /\ WorkBeforeClose'
    BY <1>1 DEF WorkInv, Shape, Unlocked, Apart, WorkBeforeClose, Confirms, Finishes, WorkRows
  <1>3. \A w \in Worker : Knows(w)'
    BY <1>1 DEF WorkInv, Knows, OrderHeld, WorkHeld, StillHolds, Settled, Visible, Confirms, Finishes, WorkRows
  <1> QED
    BY <1>2, <1>3 DEF WorkInv

\* "Gated on all work orders being finished": handleMarkDone reads the work
\* orders and closes the order several statements later, and finishing the last
\* of them closes it beside others that start or finish.  No work is ever open
\* on an order that is to close or done, whatever requests run together, fail or
\* stop.  Nothing is assumed of callers but one confirmation of an order at a time.
THEOREM ClosedWithoutWork == Spec => []WorkBeforeClose
  <1>1. Init => WorkInv
    BY InitWork
  <1>2. WorkInv /\ [Next]_vars => WorkInv'
    BY NextWork, StutterWork
  <1>3. WorkInv => WorkBeforeClose
    BY DEF WorkInv
  <1> QED
    BY <1>1, <1>2, <1>3, PTL DEF Spec

-----------------------------------------------------------------------------
(* stock and the orders that are done *)

Active == {"confirmed", "progress", "to_close"}

Serves(c, o) == c.method \in Workflow /\ c.order = o
Cancels(c, o) == c.method = "cancel" /\ c.order = o
Moves(c) == c.method \in {"receive", "deliver"}

\* Quantities are whole, and an order keeps its own once it is there.
Whole ==
    /\ \A p \in Product : committed[QuantRow(p)] \in Int
    /\ flow \in [Product -> Int]
    /\ \A o \in Order :
         /\ committed[OrderRow(o)].qty \in Int /\ live[OrderRow(o)].qty \in Int
         /\ committed[OrderRow(o)].state # "none" => live[OrderRow(o)].qty = committed[OrderRow(o)].qty

\* One confirm, mark done or cancel of an order at a time.
OneEach == \A o \in Order, v, w \in Worker : v # w => ~(Serves(call[v], o) /\ Serves(call[w], o))

\* The moves of an order in production are still to be done.
MovesReady ==
    \A o \in Order : committed[OrderRow(o)].state \in Active =>
                        \A r \in MoveRows(o) : committed[r] = "confirmed"

\* Which requests are where.
Placed(w) ==
    LET c == call[w]
    IN /\ c.pc \in {"onhand", "layers"} => c.method \in {"receive", "deliver", "done"}
       /\ c.pc = "revalue" => c.method = "land"
       /\ c.pc \in {"cancel work", "cancel order"} => c.method = "cancel"
       /\ c.pc = "start order" => c.method = "start"
       /\ c.pc = "close order" => c.method = "finish"
       /\ c.pc = "forecast" => c.method = "reorder"
       /\ Moves(c) =>
            /\ c.pc \in {"onhand", "layers", "commit"}
            /\ c.product \in Product /\ c.qty \in Int
            /\ c.out = [p \in Product |-> c.out[p]]
            /\ c.out[c.product].qty = IF c.pc = "commit" THEN c.qty ELSE 0

\* The rows of an order and its moves are its workflow's.
Owns(w, o) ==
    /\ lock[OrderRow(o)] = w => /\ committed[OrderRow(o)].state # "done"
                                /\ live[OrderRow(o)].state = "cancel" => Cancels(call[w], o)
    /\ \A r \in MoveRows(o) : lock[r] = w => Serves(call[w], o)

\* A confirmation has made the moves, all of them.
Confirming(w, o) ==
    /\ committed[OrderRow(o)].state = "draft"
    /\ call[w].pc \in {"number", "confirmed", "commit"} =>
          \A r \in MoveRows(o) : lock[r] = w /\ live[r] = "confirmed"

\* A mark done has used the components that are not to do any more, and made the
\* product if that is what it moved last.
Finishing(w, o) ==
    LET c == call[w]
        p == makes[o]
    IN /\ committed[OrderRow(o)].state \in Active
       /\ c.pc \in {"raw", "onhand", "layers", "move", "done", "commit"}
       /\ c.todo \subseteq Components(o)
       /\ c.product # p => /\ Visible(w, MoveRow(o, p)) = "confirmed"
                           /\ c.pc \notin {"done", "commit"}
       /\ c.product = p => c.todo = {} /\ c.pc # "raw"
       /\ c.pc = "commit" => lock[OrderRow(o)] = w /\ live[OrderRow(o)].state = "done"

\* A cancel takes the order with it, or found nothing to cancel.
Cancelling(w, o) ==
    call[w].pc = "commit" =>
        \/ lock[OrderRow(o)] = w /\ live[OrderRow(o)].state = "cancel"
        \/ committed[OrderRow(o)].state \notin Active

\* What a request has changed of the stock of p.
Delta(w, p) ==
    LET c == call[w]
        o == c.order
        n == committed[OrderRow(o)].qty
    IN IF Moves(c) THEN (IF c.product = p THEN c.qty ELSE 0)
       ELSE IF c.method # "done" THEN 0
       ELSE IF p = makes[o] THEN (IF c.product = p THEN n ELSE 0)
       ELSE IF p \in Components(o) \ c.todo THEN -(n * needs[makes[o]][p]) ELSE 0

StockKnows(w) ==
    /\ Placed(w)
    /\ \A o \in Order : /\ Owns(w, o)
                        /\ Confirms(call[w], o) => Confirming(w, o)
                        /\ Finishes(call[w], o) => Finishing(w, o)
                        /\ Cancels(call[w], o) => Cancelling(w, o)
    /\ call[w].method = "done" => call[w].order \in Order
    /\ \A p \in Product : Visible(w, QuantRow(p)) = committed[QuantRow(p)] + Delta(w, p)

StockInv ==
    /\ Whole
    /\ OneEach
    /\ MovesReady
    /\ StockFollowsOrders
    /\ \A w \in Worker : StockKnows(w)

\* Moves have rows of their own, by order and product.
LEMMA MoveNames ==
    /\ \A o, q : MoveRow(o, q) # SequenceRow
    /\ \A o, p, q, r : MoveRow(o, p) = MoveRow(q, r) => o = q /\ p = r
    /\ \A o \in Order : /\ Components(o) \subseteq Product /\ makes[o] \in Product /\ makes[o] \notin Components(o)
                        /\ MoveRows(o) \subseteq Row /\ MoveRow(o, makes[o]) \in MoveRows(o)
                        /\ \A p \in Components(o) : MoveRow(o, p) \in MoveRows(o)
    /\ \A o, q, r : r \in MoveRows(o) /\ r \in MoveRows(q) => o = q
    /\ \A o, p, r : r \in MoveRows(o) => r # OrderRow(p) /\ r # ProductRow(p) /\ r # QuantRow(p) /\ r # SequenceRow
    /\ \A o, q, k, r : r \in MoveRows(o) => r # WorkRow(q, k)
  <1>1. /\ \A o, q : MoveRow(o, q) # SequenceRow
        /\ \A o, p, q, r : MoveRow(o, p) = MoveRow(q, r) => o = q /\ p = r
    BY DEF MoveRow, SequenceRow
  <1>2. \A o, r : r \in MoveRows(o) => \E p : r = MoveRow(o, p)
    BY DEF MoveRows, RawRows
  <1>3. ASSUME NEW o \in Order
        PROVE  /\ Components(o) \subseteq Product /\ makes[o] \in Product /\ makes[o] \notin Components(o)
               /\ MoveRows(o) \subseteq Row /\ MoveRow(o, makes[o]) \in MoveRows(o)
               /\ \A p \in Components(o) : MoveRow(o, p) \in MoveRows(o)
    <2>1. Components(o) \subseteq Product /\ makes[o] \in Product
      BY ProductionAssumption DEF Components
    <2>2. makes[o] \notin Components(o)
      BY <2>1, ProductionAssumption DEF Components
    <2>3. \A p \in Product : MoveRow(o, p) \in Row
      BY ProductionAssumption DEF ProductionRows
    <2> QED
      BY <2>1, <2>2, <2>3 DEF MoveRows, RawRows
  <1>4. \A o, q, r : r \in MoveRows(o) /\ r \in MoveRows(q) => o = q
    BY <1>1, <1>2
  <1>5. \A o, p, r : r \in MoveRows(o) => r # OrderRow(p) /\ r # ProductRow(p) /\ r # QuantRow(p) /\ r # SequenceRow
    BY <1>1, <1>2, RowNames
  <1>6. \A o, q, k, r : r \in MoveRows(o) => r # WorkRow(q, k)
    BY <1>2, WorkNames
  <1> QED
    BY <1>1, <1>3, <1>4, <1>5, <1>6

\* What the other requests know of orders and stock stays so.
LEMMA OthersStock ==
    ASSUME StockInv, NEW w \in Worker, Step(w), NEW v \in Worker \ {w}
    PROVE  StockKnows(v)'
  <1>1. /\ committed' = committed
        /\ \A r \in Row : \/ lock'[r] = lock[r] /\ live'[r] = live[r]
                          \/ lock[r] \in {w, NoTxn} /\ lock'[r] = w
        /\ call'[v] = call[v]
    BY DEF Step
  <1>2. StockKnows(v)
    BY DEF StockInv
  <1>3. \A r \in Row : /\ lock[r] = v <=> lock'[r] = v
                       /\ lock[r] = v => live'[r] = live[r]
    BY <1>1, NoTxnAssumption
  <1>4. \A r \in Row : Visible(v, r)' = Visible(v, r)
    BY <1>1, <1>3 DEF Visible
  <1>5. Placed(v)'
    BY <1>1, <1>2 DEF StockKnows, Placed, Moves
  <1>6. ASSUME NEW o \in Order
        PROVE  /\ Owns(v, o)'
               /\ (Confirms(call[v], o) => Confirming(v, o))'
               /\ (Finishes(call[v], o) => Finishing(v, o))'
               /\ (Cancels(call[v], o) => Cancelling(v, o))'
    <2>1. OrderRow(o) \in Row /\ MoveRows(o) \subseteq Row /\ MoveRow(o, makes[o]) \in Row
      BY RowsThere, MoveNames
    <2>2. MoveRows(o)' = MoveRows(o) /\ Components(o)' = Components(o)
      BY DEF MoveRows, RawRows, Components
    <2>3. Owns(v, o)'
      BY <1>1, <1>2, <1>3, <2>1, <2>2 DEF StockKnows, Owns, Cancels, Serves
    <2>4. (Confirms(call[v], o) => Confirming(v, o))'
      BY <1>1, <1>2, <1>3, <2>1, <2>2 DEF StockKnows, Confirming, Confirms
    <2>5. (Finishes(call[v], o) => Finishing(v, o))'
      BY <1>1, <1>2, <1>3, <1>4, <2>1, <2>2 DEF StockKnows, Finishing, Finishes
    <2>6. (Cancels(call[v], o) => Cancelling(v, o))'
      BY <1>1, <1>2, <1>3, <2>1 DEF StockKnows, Cancelling, Cancels
    <2> QED
      BY <2>3, <2>4, <2>5, <2>6
  <1>7. \A p \in Product : Delta(v, p)' = Delta(v, p)
    BY <1>1 DEF Delta, Moves, Components
  <1>8. \A p \in Product : Visible(v, QuantRow(p))' = committed'[QuantRow(p)] + Delta(v, p)'
    BY <1>1, <1>2, <1>4, <1>7, RowsThere DEF StockKnows
  <1> QED
    BY <1>1, <1>2, <1>5, <1>6, <1>8 DEF StockKnows

\* A statement publishes nothing.
LEMMA StockStep ==
    ASSUME StockInv, NEW w \in Worker, Step(w), flow' = flow,
           \A o \in Order : /\ live'[OrderRow(o)].qty \in Int
                            /\ committed[OrderRow(o)].state # "none" =>
                                  live'[OrderRow(o)].qty = committed[OrderRow(o)].qty,
           OneEach', StockKnows(w)'
    PROVE  StockInv'
  <1>1. committed' = committed
    BY DEF Step
  <1>2. Whole'
    BY <1>1 DEF StockInv, Whole
  <1>3. MovesReady'
    BY <1>1 DEF StockInv, MovesReady, MoveRows, RawRows, Components
  <1>4. StockFollowsOrders'
    <2>1. \A p \in Product : Made(p)' = Made(p) /\ Used(p)' = Used(p)
      BY <1>1 DEF Made, Used, Built
    <2> QED
      BY <1>1, <2>1 DEF StockInv, StockFollowsOrders
  <1>5. \A v \in Worker : StockKnows(v)'
    BY OthersStock
  <1> QED
    BY <1>2, <1>3, <1>4, <1>5 DEF StockInv

Kept(r) == lock'[r] = lock[r] /\ live'[r] = live[r]

\* What a request may do to the rows of orders and moves.
Allowed(c, w) ==
    \A o \in Order :
        /\ \/ Kept(OrderRow(o))
           \/ /\ live'[OrderRow(o)].qty \in Int
              /\ committed[OrderRow(o)].state # "none" => live'[OrderRow(o)].qty = committed[OrderRow(o)].qty
              /\ committed[OrderRow(o)].state # "done"
              /\ live'[OrderRow(o)].state = "cancel" => Cancels(c, o)
        /\ \A r \in MoveRows(o) : Kept(r) \/ Serves(c, o)

\* A request that is being served, on the same order.
LEMMA StockServed ==
    ASSUME StockInv, NEW w \in Worker, Step(w), flow' = flow,
           NEW c, call'[w] = c, c.method = call[w].method, c.order = call[w].order,
           Allowed(c, w),
           Placed(w)',
           \A o \in Order : /\ Confirms(c, o) => Confirming(w, o)'
                            /\ Finishes(c, o) => Finishing(w, o)'
                            /\ Cancels(c, o) => Cancelling(w, o)',
           \A p \in Product : Visible(w, QuantRow(p))' = committed[QuantRow(p)] + Delta(w, p)'
    PROVE  StockInv'
  <1>1. /\ committed' = committed
        /\ \A v \in Worker \ {w} : call'[v] = call[v]
    BY DEF Step
  <1>2. StockKnows(w)
    BY DEF StockInv
  <1>3. ASSUME NEW o \in Order
        PROVE  /\ live'[OrderRow(o)].qty \in Int
               /\ committed[OrderRow(o)].state # "none" => live'[OrderRow(o)].qty = committed[OrderRow(o)].qty
    BY DEF Allowed, Kept, StockInv, Whole
  <1>4. ASSUME NEW o \in Order
        PROVE  Owns(w, o)'
    <2>1. Owns(w, o)
      BY <1>2 DEF StockKnows
    <2>2. MoveRows(o)' = MoveRows(o)
      BY DEF MoveRows, RawRows, Components
    <2> QED
      BY <1>1, <2>1, <2>2 DEF Allowed, Kept, Owns, Cancels, Serves
  <1>5. OneEach'
    <2>1. \A v \in Worker, o \in Order : Serves(call'[v], o) <=> Serves(call[v], o)
      BY <1>1 DEF Serves
    <2> QED
      BY <2>1 DEF StockInv, OneEach, Serves
  <1>6. StockKnows(w)'
    BY <1>1, <1>2, <1>4 DEF StockKnows, Confirms, Finishes, Cancels
  <1> QED
    BY <1>3, <1>5, <1>6, StockStep

-----------------------------------------------------------------------------
(* statements that touch no order, no move and no stock *)

\* A request goes on to pc with all it has read.
LEMMA GoneWhole ==
    ASSUME WorkInv, NEW w \in Worker, NEW pc, Goto(w, pc)
    PROVE  \E c : /\ c.pc = pc /\ c.method = call[w].method /\ c.order = call[w].order
                  /\ c.product = call[w].product /\ c.todo = call[w].todo /\ c.qty = call[w].qty
                  /\ c.out = call[w].out
                  /\ call'[w] = c /\ \A v \in Worker \ {w} : call'[v] = call[v]
  <1>1. PICK old, c : old = call[w] /\ c = [old EXCEPT !.pc = pc]
    OBVIOUS
  <1>2. call' = [call EXCEPT ![w] = c]
    BY <1>1 DEF Goto
  <1>3. IsCall(old)
    BY <1>1 DEF WorkInv, Shape
  <1>4. /\ c.pc = pc /\ c.method = old.method /\ c.order = old.order /\ c.product = old.product
        /\ c.todo = old.todo /\ c.qty = old.qty /\ c.out = old.out
    BY ONLY <1>1, <1>3 DEF IsCall
  <1>5. call'[w] = c /\ \A v \in Worker \ {w} : call'[v] = call[v]
    BY <1>2 DEF WorkInv, Shape
  <1> QED
    BY <1>1, <1>4, <1>5

\* A request that has moved the same stock.
LEMMA SameDelta ==
    ASSUME NEW w \in Worker, NEW c, call'[w] = c, committed' = committed,
           c.method = call[w].method, c.order = call[w].order, c.product = call[w].product,
           c.todo = call[w].todo, c.qty = call[w].qty
    PROVE  \A p : Delta(w, p)' = Delta(w, p)
  BY DEF Delta, Moves, Components

\* Stock looks the same where no quant is written.
LEMMA SameStock ==
    ASSUME StockInv, NEW w \in Worker, committed' = committed,
           \A p \in Product : Kept(QuantRow(p)),
           \A p \in Product : Delta(w, p)' = Delta(w, p)
    PROVE  \A p \in Product : Visible(w, QuantRow(p))' = committed[QuantRow(p)] + Delta(w, p)'
  <1>1. \A p \in Product : Visible(w, QuantRow(p)) = committed[QuantRow(p)] + Delta(w, p)
    BY DEF StockInv, StockKnows
  <1> QED
    BY <1>1 DEF Kept, Visible

\* A statement on rows of other kinds, in the middle of a request.
LEMMA PlainStock ==
    ASSUME StockInv, NEW w \in Worker, NEW new, Write(w, new), flow' = flow,
           \A o \in Order : OrderRow(o) \notin DOMAIN new /\ \A r \in MoveRows(o) : r \notin DOMAIN new,
           \A p \in Product : QuantRow(p) \notin DOMAIN new,
           NEW c, call'[w] = c, \A v \in Worker \ {w} : call'[v] = call[v],
           c.method = call[w].method, c.order = call[w].order, c.product = call[w].product,
           c.todo = call[w].todo, c.qty = call[w].qty,
           Placed(w)',
           c.method = "confirm" /\ c.pc \in {"number", "confirmed", "commit"} => call[w].pc = "number",
           c.method = "done" => c.pc \in {"onhand", "layers", "move"},
           c.method = "cancel" => c.pc # "commit"
    PROVE  StockInv'
  <1>1. Step(w)
    BY WriteStep
  <1>2. \A r \in Row : r \notin DOMAIN new => Kept(r)
    BY WriteEffect DEF Kept
  <1>3. /\ \A o \in Order : OrderRow(o) \in Row /\ MoveRows(o) \subseteq Row /\ MoveRow(o, makes[o]) \in MoveRows(o)
        /\ \A p \in Product : QuantRow(p) \in Row
    BY RowsThere, MoveNames
  <1>4. /\ \A o \in Order : Kept(OrderRow(o)) /\ \A r \in MoveRows(o) : Kept(r)
        /\ \A p \in Product : Kept(QuantRow(p))
    BY <1>2, <1>3
  <1>5. Allowed(c, w)
    BY <1>4 DEF Allowed
  <1>6. committed' = committed
    BY <1>1 DEF Step
  <1>7. StockKnows(w)
    BY DEF StockInv
  <1>8. ASSUME NEW o \in Order
        PROVE  /\ Confirms(c, o) => Confirming(w, o)'
               /\ Finishes(c, o) => Finishing(w, o)'
               /\ Cancels(c, o) => Cancelling(w, o)'
    <2>1. MoveRows(o)' = MoveRows(o) /\ Components(o)' = Components(o)
      BY DEF MoveRows, RawRows, Components
    <2>2. Confirms(c, o) => Confirming(w, o)'
      BY <1>4, <1>6, <1>7, <2>1 DEF StockKnows, Confirming, Confirms, Kept
    <2>3. Visible(w, MoveRow(o, makes[o]))' = Visible(w, MoveRow(o, makes[o]))
      BY <1>3, <1>4, <1>6 DEF Visible, Kept
    <2>4. ASSUME Finishes(c, o)
          PROVE  Finishing(w, o)'
      <3>1. Finishing(w, o)
        BY <1>7, <2>4 DEF StockKnows, Finishes
      <3> QED
        BY <1>6, <2>1, <2>3, <2>4, <3>1 DEF Finishing, Finishes
    <2>5. Cancels(c, o) => Cancelling(w, o)'
      BY DEF Cancelling, Cancels
    <2> QED
      BY <2>2, <2>4, <2>5
  <1>9. \A p \in Product : Visible(w, QuantRow(p))' = committed[QuantRow(p)] + Delta(w, p)'
    BY <1>4, <1>6, SameDelta, SameStock
  <1> QED
    BY <1>1, <1>5, <1>8, <1>9, StockServed

\* A request that has moved its product goes on with it.
LEMMA StillPlaced ==
    ASSUME NEW w \in Worker, Placed(w), NEW old, NEW c, old = call[w], call'[w] = c,
           old.pc \in {"onhand", "layers"}, c.pc \in {"onhand", "layers"}, c.method = old.method,
           c.order = old.order, c.product = old.product, c.todo = old.todo, c.qty = old.qty,
           c.out = old.out
    PROVE  Placed(w)' /\ c.method \notin {"confirm", "cancel"}
  <1>1. c.method \notin {"confirm", "cancel"}
    BY DEF Placed
  <1> QED
    BY <1>1 DEF Placed, Moves

\* The product is locked and read.
LEMMA RefreshStock ==
    ASSUME WorkInv, StockInv, NEW w \in Worker, RefreshOnHand(w)
    PROVE  StockInv'
  <1>1. PICK old, copy, left : /\ old = call[w] /\ copy = live[ProductRow(old.product)]
                              /\ left = IF old.qty < 0 THEN -old.qty ELSE 0
    OBVIOUS
  <1>2. PICK c : c = [old EXCEPT !.pc = "layers", !.copy = copy, !.left = left]
    OBVIOUS
  <1>3. PICK new : new = [r \in {ProductRow(old.product)} |-> live[r]]
    OBVIOUS
  <1>4. Write(w, new) /\ call' = [call EXCEPT ![w] = c] /\ old.pc = "onhand" /\ flow' = flow
    BY <1>1, <1>2, <1>3 DEF RefreshOnHand, At, history
  <1>5. IsCall(old)
    BY <1>1 DEF WorkInv, Shape
  <1>6. /\ c.pc = "layers" /\ c.method = old.method /\ c.order = old.order /\ c.product = old.product
        /\ c.todo = old.todo /\ c.qty = old.qty /\ c.out = old.out
    BY ONLY <1>2, <1>5 DEF IsCall
  <1>7. call'[w] = c /\ \A v \in Worker \ {w} : call'[v] = call[v]
    BY <1>4 DEF WorkInv, Shape
  <1>8. /\ \A o \in Order : OrderRow(o) \notin DOMAIN new /\ \A r \in MoveRows(o) : r \notin DOMAIN new
        /\ \A p \in Product : QuantRow(p) \notin DOMAIN new
    BY <1>3, RowNames, MoveNames
  <1>9. Placed(w)
    BY DEF StockInv, StockKnows
  <1>10. old.pc \in {"onhand", "layers"} /\ c.pc \in {"onhand", "layers"}
    BY <1>4, <1>6
  <1>11. Placed(w)' /\ c.method \notin {"confirm", "cancel"}
    BY <1>1, <1>6, <1>7, <1>9, <1>10, StillPlaced
  <1> QED
    BY <1>1, <1>4, <1>6, <1>7, <1>8, <1>10, <1>11, PlainStock

\* The oldest layer gives what it has.
LEMMA TakeStock ==
    ASSUME WorkInv, StockInv, NEW w \in Worker, TakeLayer(w)
    PROVE  StockInv'
  <1>1. PICK old : old = call[w]
    OBVIOUS
  <1>2. PICK new, take, portion :
          /\ Write(w, new) /\ DOMAIN new = {ProductRow(old.product)}
          /\ call' = [call EXCEPT ![w].left = @ - take, ![w].drawn = @ + portion]
          /\ old.pc = "layers" /\ flow' = flow
    BY <1>1 DEF TakeLayer, At, history
  <1>3. PICK c : c = [old EXCEPT !.left = @ - take, !.drawn = @ + portion]
    OBVIOUS
  <1>4. call' = [call EXCEPT ![w] = c]
    BY <1>1, <1>2, <1>3
  <1>5. IsCall(old)
    BY <1>1 DEF WorkInv, Shape
  <1>6. /\ c.pc = "layers" /\ c.method = old.method /\ c.order = old.order /\ c.product = old.product
        /\ c.todo = old.todo /\ c.qty = old.qty /\ c.out = old.out
    BY ONLY <1>2, <1>3, <1>5 DEF IsCall
  <1>7. call'[w] = c /\ \A v \in Worker \ {w} : call'[v] = call[v]
    BY <1>4 DEF WorkInv, Shape
  <1>8. /\ \A o \in Order : OrderRow(o) \notin DOMAIN new /\ \A r \in MoveRows(o) : r \notin DOMAIN new
        /\ \A p \in Product : QuantRow(p) \notin DOMAIN new
    BY <1>2, RowNames, MoveNames
  <1>9. Placed(w)
    BY DEF StockInv, StockKnows
  <1>10. old.pc \in {"onhand", "layers"} /\ c.pc \in {"onhand", "layers"}
    BY <1>2, <1>6
  <1>11. Placed(w)' /\ c.method \notin {"confirm", "cancel"}
    BY <1>1, <1>6, <1>7, <1>9, <1>10, StillPlaced
  <1>12. /\ Write(w, new) /\ flow' = flow
         /\ c.method = call[w].method /\ c.order = call[w].order /\ c.product = call[w].product
         /\ c.todo = call[w].todo /\ c.qty = call[w].qty
    BY <1>1, <1>2, <1>6
  <1>13. c.method # "confirm" /\ c.method # "cancel" /\ c.pc = "layers"
    BY <1>2, <1>6, <1>11
  <1> QED
    BY <1>7, <1>8, <1>11, <1>12, <1>13, PlainStock

\* The layer is inserted and the caches are written.
LEMMA WriteCachesStock ==
    ASSUME WorkInv, StockInv, NEW w \in Worker, WriteCaches(w)
    PROVE  StockInv'
  <1>1. PICK old, p, pc, v : /\ old = call[w] /\ p = old.product /\ v = LayerValue(old)
                             /\ pc = IF old.method = "done" THEN "move" ELSE "commit"
    OBVIOUS
  <1>2. PICK sum : sum = [qty |-> old.out[p].qty + old.qty, value |-> old.out[p].value + v]
    OBVIOUS
  <1>3. PICK c : c = [old EXCEPT !.pc = pc, !.out[p] = sum]
    OBVIOUS
  <1>4. old.pc = "layers" /\ call' = [call EXCEPT ![w] = c] /\ flow' = flow
    BY <1>1, <1>2, <1>3 DEF WriteCaches, At, history
  <1>5. IsCall(old)
    BY <1>1 DEF WorkInv, Shape
  <1>6. /\ c.pc = pc /\ c.method = old.method /\ c.order = old.order /\ c.product = old.product
        /\ c.todo = old.todo /\ c.qty = old.qty /\ c.out = [old.out EXCEPT ![p] = sum]
    BY ONLY <1>3, <1>5 DEF IsCall
  <1>7. PICK new : Write(w, new) /\ DOMAIN new = {ProductRow(p)}
    <2>1. PICK quantity, value : quantity = old.copy.quantity + old.qty /\ value = old.copy.value + v
      OBVIOUS
    <2>2. PICK new :
            new = [s \in {ProductRow(p)} |->
                     [quantity |-> quantity, value |-> value, price |-> NewPrice(old, live[s].price, quantity, value),
                      fifo |-> IF method[old.product] = "fifo" /\ old.qty > 0
                               THEN Append(live[ProductRow(p)].fifo, [qty |-> old.qty, value |-> v])
                               ELSE live[ProductRow(p)].fifo]]
      OBVIOUS
    <2>3. Write(w, new)
      BY <1>1, <2>1, <2>2 DEF WriteCaches
    <2> QED
      BY <2>2, <2>3
  <1>8. call'[w] = c /\ \A u \in Worker \ {w} : call'[u] = call[u]
    BY <1>4 DEF WorkInv, Shape
  <1>9. /\ \A o \in Order : OrderRow(o) \notin DOMAIN new /\ \A r \in MoveRows(o) : r \notin DOMAIN new
        /\ \A q \in Product : QuantRow(q) \notin DOMAIN new
    BY <1>7, RowNames, MoveNames
  <1>10. Placed(w)
    BY DEF StockInv, StockKnows
  <1>11. old.method \in {"receive", "deliver", "done"}
    BY <1>1, <1>4, <1>10 DEF Placed
  <1>12. Placed(w)'
    <2>1. ASSUME Moves(c)
          PROVE  /\ c.pc = "commit" /\ c.product \in Product /\ c.qty \in Int
                 /\ c.out = [q \in Product |-> c.out[q]] /\ c.out[c.product].qty = c.qty
      <3>1. /\ old.product \in Product /\ old.qty \in Int /\ old.out = [q \in Product |-> old.out[q]]
            /\ old.out[p].qty = 0
        BY <1>1, <1>4, <1>6, <1>10, <2>1 DEF Placed, Moves
      <3>2. c.pc = "commit"
        BY <1>1, <1>6, <2>1 DEF Moves
      <3>3. c.out = [q \in Product |-> c.out[q]] /\ c.out[p] = sum
        BY <1>1, <1>6, <3>1
      <3>4. sum.qty = old.qty
        BY <1>2, <3>1
      <3> QED
        BY <1>1, <1>6, <3>1, <3>2, <3>3, <3>4
    <2>2. c.pc \in {"move", "commit"}
      BY <1>1, <1>6
    <2> QED
      BY <1>8, <2>1, <2>2 DEF Placed, Moves
  <1>13. c.method = "done" => c.pc = "move"
    BY <1>1, <1>6
  <1>14. c.method # "confirm" /\ c.method # "cancel"
    BY <1>6, <1>11
  <1> QED
    BY <1>1, <1>4, <1>6, <1>7, <1>8, <1>9, <1>12, <1>13, <1>14, PlainStock

\* The added cost is written, the number drawn, the work cancelled.
LEMMA RowStock ==
    ASSUME WorkInv, StockInv, NEW w \in Worker, Revalue(w) \/ DrawNumber(w) \/ CancelWork(w)
    PROVE  StockInv'
  <1>1. PICK new, pc : /\ Write(w, new)
                       /\ \/ \E p : DOMAIN new = {ProductRow(p)}
                          \/ DOMAIN new = {SequenceRow}
                          \/ \E o : DOMAIN new \subseteq WorkRows(o)
                       /\ Goto(w, pc) /\ flow' = flow
                       /\ \/ call[w].pc = "revalue" /\ pc = "commit"
                          \/ call[w].pc = "number" /\ pc = "confirmed"
                          \/ call[w].pc = "cancel work" /\ pc = "cancel order"
    <2>1. CASE Revalue(w)
      BY <2>1 DEF Revalue, At, history
    <2>2. CASE DrawNumber(w)
      BY <2>2 DEF DrawNumber, At, history
    <2>3. CASE CancelWork(w)
      <3>1. PICK new : new = [r \in {s \in WorkRows(call[w].order) : Visible(w, s) \in {"ready", "progress"}} |-> "cancel"]
        OBVIOUS
      <3>2. Write(w, new) /\ DOMAIN new \subseteq WorkRows(call[w].order)
        BY <2>3, <3>1 DEF CancelWork, MoveStates
      <3> QED
        BY <2>3, <3>2 DEF CancelWork, At, history
    <2> QED
      BY <2>1, <2>2, <2>3
  <1>2. /\ \A o \in Order : OrderRow(o) \notin DOMAIN new /\ \A r \in MoveRows(o) : r \notin DOMAIN new
        /\ \A p \in Product : QuantRow(p) \notin DOMAIN new
    <2>1. CASE \E p : DOMAIN new = {ProductRow(p)}
      BY <2>1, RowNames, MoveNames
    <2>2. CASE DOMAIN new = {SequenceRow}
      BY <2>2, RowNames, MoveNames
    <2>3. CASE \E o : DOMAIN new \subseteq WorkRows(o)
      <3>1. \A o, q, r : r \in WorkRows(o) => r \notin MoveRows(q)
        BY MoveNames DEF WorkRows
      <3> QED
        BY <2>3, <3>1, WorkNames
    <2> QED
      BY <1>1, <2>1, <2>2, <2>3
  <1>3. PICK c : /\ c.pc = pc /\ c.method = call[w].method /\ c.order = call[w].order
                 /\ c.product = call[w].product /\ c.todo = call[w].todo /\ c.qty = call[w].qty
                 /\ c.out = call[w].out
                 /\ call'[w] = c /\ \A v \in Worker \ {w} : call'[v] = call[v]
    BY <1>1, GoneWhole
  <1>4. Placed(w)
    BY DEF StockInv, StockKnows
  <1>5. call[w].pc = "number" => call[w].method = "confirm"
    BY DEF WorkInv, Knows
  <1>6. ~Moves(call[w])
    BY <1>1, <1>4 DEF Placed
  <1>7. \/ c.method = "land" /\ c.pc = "commit"
        \/ c.method = "confirm" /\ c.pc = "confirmed" /\ call[w].pc = "number"
        \/ c.method = "cancel" /\ c.pc = "cancel order"
    BY <1>1, <1>3, <1>4, <1>5 DEF Placed
  <1>8. Placed(w)'
    BY <1>3, <1>7 DEF Placed, Moves
  <1>9. /\ c.method = "confirm" /\ c.pc \in {"number", "confirmed", "commit"} => call[w].pc = "number"
        /\ c.method # "done"
        /\ c.method = "cancel" => c.pc # "commit"
    BY <1>7
  <1> QED
    BY <1>1, <1>2, <1>3, <1>8, <1>9, PlainStock

-----------------------------------------------------------------------------
(* statements on orders and their moves *)

\* Nobody holds the row of an order before the end of the request.
LEMMA OrderFree ==
    ASSUME WorkInv, NEW w \in Worker, call[w].pc # "commit", NEW o \in Order
    PROVE  /\ lock[OrderRow(o)] # w
           /\ Visible(w, OrderRow(o)) = committed[OrderRow(o)]
           /\ Free(w, OrderRow(o)) => live[OrderRow(o)] = committed[OrderRow(o)]
  <1>1. lock[OrderRow(o)] # w
    BY DEF WorkInv, Knows, OrderHeld
  <1> QED
    BY <1>1, RowsThere DEF Visible, Free, WorkInv, Unlocked

\* A new version of the row of one order is one the request may write.
LEMMA OrderAllowed ==
    ASSUME NEW w \in Worker, NEW c, NEW o, NEW new, Write(w, new), DOMAIN new \subseteq {OrderRow(o)},
           o \in Order /\ OrderRow(o) \in DOMAIN new =>
              /\ new[OrderRow(o)].qty \in Int
              /\ committed[OrderRow(o)].state # "none" => new[OrderRow(o)].qty = committed[OrderRow(o)].qty
              /\ committed[OrderRow(o)].state # "done"
              /\ new[OrderRow(o)].state = "cancel" => Cancels(c, o)
    PROVE  /\ Allowed(c, w)
           /\ \A q \in Order : \A r \in MoveRows(q) : Kept(r)
           /\ \A p \in Product : Kept(QuantRow(p))
  <1>1. \A r \in Row : IF r \in DOMAIN new THEN live'[r] = new[r] ELSE Kept(r)
    BY WriteEffect DEF Kept
  <1>2. /\ \A q \in Order : OrderRow(q) \in Row /\ MoveRows(q) \subseteq Row
        /\ \A p \in Product : QuantRow(p) \in Row
    BY RowsThere, MoveNames
  <1>3. /\ \A q \in Order : \A r \in MoveRows(q) : Kept(r)
        /\ \A p \in Product : Kept(QuantRow(p))
    BY <1>1, <1>2, RowNames, MoveNames
  <1>4. ASSUME NEW q \in Order, ~Kept(OrderRow(q))
        PROVE  /\ live'[OrderRow(q)].qty \in Int
               /\ committed[OrderRow(q)].state # "none" => live'[OrderRow(q)].qty = committed[OrderRow(q)].qty
               /\ committed[OrderRow(q)].state # "done"
               /\ live'[OrderRow(q)].state = "cancel" => Cancels(c, q)
    <2>1. OrderRow(q) \in DOMAIN new /\ live'[OrderRow(q)] = new[OrderRow(q)]
      BY <1>1, <1>2, <1>4
    <2>2. q = o
      BY <2>1, RowNames
    <2> QED
      BY <2>1, <2>2
  <1> QED
    BY <1>3, <1>4 DEF Allowed

\* An order in progress, to close or cancelled.
LEMMA OrderStateAllowed ==
    ASSUME WorkInv, StockInv, NEW w \in Worker, call[w].pc # "commit", NEW c,
           NEW o, NEW from, NEW to, OrderState(w, o, from, to), "done" \notin from,
           to = "cancel" => Cancels(c, o)
    PROVE  /\ Allowed(c, w)
           /\ \A q \in Order : \A r \in MoveRows(q) : Kept(r)
           /\ \A p \in Product : Kept(QuantRow(p))
           /\ o \in Order /\ committed[OrderRow(o)].state \in from =>
                lock'[OrderRow(o)] = w /\ live'[OrderRow(o)].state = to
  <1>1. PICK new : new = [r \in {s \in {OrderRow(o)} : Visible(w, s).state \in from} |->
                            [live[r] EXCEPT !.state = to]]
    OBVIOUS
  <1>2. Write(w, new) /\ DOMAIN new \subseteq {OrderRow(o)}
    BY <1>1 DEF OrderState
  <1>3. ASSUME o \in Order, OrderRow(o) \in DOMAIN new
        PROVE  /\ new[OrderRow(o)].state = to
               /\ new[OrderRow(o)].qty = committed[OrderRow(o)].qty
               /\ committed[OrderRow(o)].state # "done"
    <2>1. Free(w, OrderRow(o))
      BY <1>2, <1>3 DEF Write
    <2>2. live[OrderRow(o)] = committed[OrderRow(o)] /\ Visible(w, OrderRow(o)) = committed[OrderRow(o)]
      BY <1>3, <2>1, OrderFree
    <2>3. committed[OrderRow(o)].state \in from
      BY <1>1, <1>3, <2>2
    <2>4. IsOrder(live[OrderRow(o)]) /\ new[OrderRow(o)] = [live[OrderRow(o)] EXCEPT !.state = to]
      BY <1>1, <1>3 DEF WorkInv, Shape
    <2>5. new[OrderRow(o)].state = to /\ new[OrderRow(o)].qty = live[OrderRow(o)].qty
      BY ONLY <2>4 DEF IsOrder
    <2> QED
      BY <2>2, <2>3, <2>5
  <1>4. o \in Order => committed[OrderRow(o)].qty \in Int
    BY DEF StockInv, Whole
  <1>5. /\ Allowed(c, w)
        /\ \A q \in Order : \A r \in MoveRows(q) : Kept(r)
        /\ \A p \in Product : Kept(QuantRow(p))
    BY <1>2, <1>3, <1>4, OrderAllowed
  <1>6. ASSUME o \in Order, committed[OrderRow(o)].state \in from
        PROVE  lock'[OrderRow(o)] = w /\ live'[OrderRow(o)].state = to
    <2>1. OrderRow(o) \in DOMAIN new /\ OrderRow(o) \in Row
      BY <1>1, <1>6, OrderFree, RowsThere
    <2>2. live'[OrderRow(o)] = new[OrderRow(o)] /\ lock'[OrderRow(o)] = w
      BY <1>2, <2>1, WriteEffect
    <2> QED
      BY <1>3, <1>6, <2>1, <2>2
  <1> QED
    BY <1>5, <1>6

\* A statement of a request that neither confirms nor finishes an order.
LEMMA AsideStock ==
    ASSUME StockInv, NEW w \in Worker, Step(w), flow' = flow,
           NEW c, call'[w] = c, c.method = call[w].method, c.order = call[w].order,
           c.product = call[w].product, c.todo = call[w].todo, c.qty = call[w].qty,
           Allowed(c, w), \A p \in Product : Kept(QuantRow(p)),
           Placed(w)', c.method \notin {"confirm", "done"},
           \A o \in Order : Cancels(c, o) => Cancelling(w, o)'
    PROVE  StockInv'
  <1>1. committed' = committed
    BY DEF Step
  <1>2. \A p \in Product : Visible(w, QuantRow(p))' = committed[QuantRow(p)] + Delta(w, p)'
    BY <1>1, SameDelta, SameStock
  <1>3. \A o \in Order : ~Confirms(c, o) /\ ~Finishes(c, o)
    BY DEF Confirms, Finishes
  <1> QED
    BY <1>2, <1>3, StockServed

\* The order is cancelled, in progress or to close.
LEMMA OrderStepStock ==
    ASSUME WorkInv, StockInv, NEW w \in Worker, CancelOrder(w) \/ StartOrder(w) \/ CloseOrder(w)
    PROVE  StockInv'
  <1>1. PICK o, from, to :
          /\ o = call[w].order
          /\ OrderState(w, o, from, to) /\ "done" \notin from
          /\ Goto(w, "commit") /\ flow' = flow
          /\ \/ call[w].pc = "cancel order" /\ to = "cancel" /\ Active \subseteq from
             \/ call[w].pc = "start order" /\ to = "progress"
             \/ call[w].pc = "close order" /\ to = "to_close"
    <2>1. CASE CancelOrder(w)
      <3>1. PICK from : from = {"draft", "confirmed", "progress", "to_close"}
        OBVIOUS
      <3>2. OrderState(w, call[w].order, from, "cancel") /\ "done" \notin from /\ Active \subseteq from
        BY <2>1, <3>1 DEF CancelOrder, Active
      <3> QED
        BY <2>1, <3>2 DEF CancelOrder, At, history
    <2>2. CASE StartOrder(w)
      <3>1. OrderState(w, call[w].order, {"confirmed"}, "progress") /\ "done" \notin {"confirmed"}
        BY <2>2 DEF StartOrder
      <3> QED
        BY <2>2, <3>1 DEF StartOrder, At, history
    <2>3. CASE CloseOrder(w)
      <3>1. PICK from : from = IF OpenWork(w, call[w].order) = {} THEN {"confirmed", "progress"} ELSE {}
        OBVIOUS
      <3>2. OrderState(w, call[w].order, from, "to_close") /\ "done" \notin from
        BY <2>3, <3>1 DEF CloseOrder
      <3> QED
        BY <2>3, <3>2 DEF CloseOrder, At, history
    <2> QED
      BY <2>1, <2>2, <2>3
  <1>2. PICK c : /\ c.pc = "commit" /\ c.method = call[w].method /\ c.order = call[w].order
                 /\ c.product = call[w].product /\ c.todo = call[w].todo /\ c.qty = call[w].qty
                 /\ c.out = call[w].out
                 /\ call'[w] = c /\ \A v \in Worker \ {w} : call'[v] = call[v]
    BY <1>1, GoneWhole
  <1>3. Placed(w)
    BY DEF StockInv, StockKnows
  <1>4. /\ c.method \in {"cancel", "start", "finish"}
        /\ c.method = "cancel" <=> to = "cancel"
        /\ to = "cancel" => Active \subseteq from
    BY <1>1, <1>2, <1>3 DEF Placed
  <1>5. to = "cancel" => Cancels(c, o)
    BY <1>1, <1>2, <1>4 DEF Cancels
  <1>6. /\ Allowed(c, w)
        /\ \A p \in Product : Kept(QuantRow(p))
        /\ o \in Order /\ committed[OrderRow(o)].state \in from =>
             lock'[OrderRow(o)] = w /\ live'[OrderRow(o)].state = to
    <2>1. OrderState(w, o, from, to) /\ "done" \notin from /\ call[w].pc # "commit"
      BY <1>1
    <2> QED
      BY <1>5, <2>1, OrderStateAllowed
  <1>7. Step(w) /\ committed' = committed
    BY <1>1, <1>2, OrderStateStep DEF Step
  <1>8. \A q \in Order : Cancels(c, q) => Cancelling(w, q)'
    BY <1>1, <1>2, <1>4, <1>6, <1>7 DEF Cancels, Cancelling
  <1>9. Placed(w)'
    BY <1>2, <1>4 DEF Placed, Moves
  <1> QED
    BY <1>1, <1>2, <1>4, <1>6, <1>7, <1>8, <1>9, AsideStock

\* The order is confirmed, or done.
LEMMA SetStateStock ==
    ASSUME WorkInv, StockInv, NEW w \in Worker, NEW state \in {"confirmed", "done"}, SetState(w, state)
    PROVE  StockInv'
  <1>1. PICK o : o = call[w].order
    OBVIOUS
  <1>2. PICK new : new = [s \in {OrderRow(o)} |-> [live[s] EXCEPT !.state = state]]
    OBVIOUS
  <1>3. /\ Write(w, new) /\ DOMAIN new = {OrderRow(o)}
        /\ call[w].pc = state /\ Goto(w, "commit") /\ flow' = flow
    BY <1>1, <1>2 DEF SetState, At, history
  <1>4. PICK c : /\ c.pc = "commit" /\ c.method = call[w].method /\ c.order = call[w].order
                 /\ c.product = call[w].product /\ c.todo = call[w].todo /\ c.qty = call[w].qty
                 /\ c.out = call[w].out
                 /\ call'[w] = c /\ \A v \in Worker \ {w} : call'[v] = call[v]
    BY <1>3, GoneWhole
  <1>5. /\ call[w].pc = "confirmed" => call[w].method = "confirm"
        /\ call[w].pc = "done" => call[w].method = "done"
    BY DEF WorkInv, Knows
  <1>6. \/ state = "confirmed" /\ c.method = "confirm"
        \/ state = "done" /\ c.method = "done"
    <2>1. call[w].pc = state /\ c.method = call[w].method
      BY <1>3, <1>4
    <2> QED
      BY <1>5, <2>1
  <1>7. StockKnows(w)
    BY DEF StockInv
  <1>8. o \in Order => /\ Confirms(call[w], o) => Confirming(w, o)
                       /\ Finishes(call[w], o) => Finishing(w, o)
    BY <1>7 DEF StockKnows
  <1>9. o \in Order => committed[OrderRow(o)].state # "done"
    BY <1>1, <1>4, <1>6, <1>8 DEF Confirms, Finishes, Confirming, Finishing, Active
  <1>10. ASSUME o \in Order
         PROVE  /\ new[OrderRow(o)].state = state
                /\ new[OrderRow(o)].qty = live[OrderRow(o)].qty
    <2>1. IsOrder(live[OrderRow(o)]) /\ new[OrderRow(o)] = [live[OrderRow(o)] EXCEPT !.state = state]
      BY <1>2, <1>10 DEF WorkInv, Shape
    <2> QED
      BY ONLY <2>1 DEF IsOrder
  <1>11. o \in Order => /\ live[OrderRow(o)].qty \in Int
                        /\ committed[OrderRow(o)].state # "none" => live[OrderRow(o)].qty = committed[OrderRow(o)].qty
    BY DEF StockInv, Whole
  <1>12. /\ Allowed(c, w)
         /\ \A q \in Order : \A r \in MoveRows(q) : Kept(r)
         /\ \A p \in Product : Kept(QuantRow(p))
    <2>1. DOMAIN new \subseteq {OrderRow(o)}
      BY <1>3
    <2>2. state # "cancel"
      OBVIOUS
    <2>3. o \in Order /\ OrderRow(o) \in DOMAIN new =>
            /\ new[OrderRow(o)].qty \in Int
            /\ committed[OrderRow(o)].state # "none" => new[OrderRow(o)].qty = committed[OrderRow(o)].qty
            /\ committed[OrderRow(o)].state # "done"
            /\ new[OrderRow(o)].state = "cancel" => Cancels(c, o)
      BY <1>9, <1>10, <1>11, <2>2
    <2> QED
      BY <1>3, <2>1, <2>3, OrderAllowed
  <1>13. Step(w) /\ committed' = committed
    BY <1>3, <1>4, WriteStep DEF Step
  <1>14. o \in Order => lock'[OrderRow(o)] = w /\ live'[OrderRow(o)].state = state
    <2>1. o \in Order => OrderRow(o) \in Row /\ OrderRow(o) \in DOMAIN new
      BY <1>3, RowsThere
    <2> QED
      BY <1>3, <1>10, <2>1, WriteEffect
  <1>15. Placed(w)'
    BY <1>4, <1>6 DEF Placed, Moves
  <1>16. ASSUME NEW q \in Order
         PROVE  /\ Confirms(c, q) => Confirming(w, q)'
                /\ Finishes(c, q) => Finishing(w, q)'
                /\ Cancels(c, q) => Cancelling(w, q)'
    <2>1. MoveRows(q)' = MoveRows(q) /\ Components(q)' = Components(q)
      BY DEF MoveRows, RawRows, Components
    <2>2. ASSUME Confirms(c, q)
          PROVE  Confirming(w, q)'
      <3>1. q = o /\ state = "confirmed" /\ Confirming(w, q)
        BY <1>1, <1>4, <1>6, <1>8, <2>2 DEF Confirms
      <3> QED
        BY <1>3, <1>12, <1>13, <2>1, <3>1 DEF Confirming, Kept
    <2>3. ASSUME Finishes(c, q)
          PROVE  Finishing(w, q)'
      <3>1. q = o /\ state = "done" /\ Finishing(w, q)
        BY <1>1, <1>4, <1>6, <1>8, <2>3 DEF Finishes
      <3>2. c.product = makes[q] /\ c.todo = {}
        BY <1>3, <1>4, <3>1 DEF Finishing
      <3> QED
        BY <1>4, <1>13, <1>14, <2>1, <3>1, <3>2 DEF Finishing
    <2>4. ~Cancels(c, q)
      BY <1>6 DEF Cancels
    <2> QED
      BY <2>2, <2>3, <2>4
  <1>17. \A p \in Product : Visible(w, QuantRow(p))' = committed[QuantRow(p)] + Delta(w, p)'
    BY <1>4, <1>12, <1>13, SameDelta, SameStock
  <1> QED
    BY <1>4, <1>12, <1>13, <1>15, <1>16, <1>17, <1>3, StockServed

\* The moves and the work of a new order.
LEMMA ExplodeStock ==
    ASSUME WorkInv, StockInv, NEW w \in Worker, Explode(w)
    PROVE  StockInv'
  <1>1. PICK o : o = call[w].order
    OBVIOUS
  <1>2. PICK new : new = [r \in MoveRows(o) \cup WorkRows(o) |->
                            IF r \in MoveRows(o) THEN "confirmed" ELSE "ready"]
    OBVIOUS
  <1>3. /\ Write(w, new) /\ DOMAIN new = MoveRows(o) \cup WorkRows(o)
        /\ \A r \in MoveRows(o) : new[r] = "confirmed"
        /\ call[w].pc = "explode" /\ Goto(w, "number") /\ flow' = flow
    BY <1>1, <1>2 DEF Explode, At, history
  <1>4. PICK c : /\ c.pc = "number" /\ c.method = call[w].method /\ c.order = call[w].order
                 /\ c.product = call[w].product /\ c.todo = call[w].todo /\ c.qty = call[w].qty
                 /\ c.out = call[w].out
                 /\ call'[w] = c /\ \A v \in Worker \ {w} : call'[v] = call[v]
    BY <1>3, GoneWhole
  <1>5. c.method = "confirm"
    BY <1>3, <1>4 DEF WorkInv, Knows
  <1>6. Step(w) /\ committed' = committed
    BY <1>3, <1>4, WriteStep DEF Step
  <1>7. \A r \in Row : /\ r \notin DOMAIN new => Kept(r)
                       /\ r \in DOMAIN new => lock'[r] = w /\ live'[r] = new[r]
    BY <1>3, WriteEffect DEF Kept
  <1>8. /\ \A q \in Order : OrderRow(q) \in Row /\ MoveRows(q) \subseteq Row
        /\ \A p \in Product : QuantRow(p) \in Row
    BY RowsThere, MoveNames
  <1>9. /\ \A q \in Order : OrderRow(q) \notin DOMAIN new
        /\ \A p \in Product : QuantRow(p) \notin DOMAIN new
        /\ \A q \in Order : \A r \in MoveRows(q) : r \in DOMAIN new => q = o
    <2>1. \A q, r : r \in MoveRows(q) => r \notin WorkRows(o)
      BY MoveNames DEF WorkRows
    <2> QED
      BY <1>3, <2>1, MoveNames, WorkNames
  <1>10. Allowed(c, w) /\ \A p \in Product : Kept(QuantRow(p))
    BY <1>1, <1>4, <1>5, <1>7, <1>8, <1>9 DEF Allowed, Serves, Workflow
  <1>11. ASSUME NEW q \in Order
         PROVE  /\ Confirms(c, q) => Confirming(w, q)'
                /\ ~Finishes(c, q) /\ ~Cancels(c, q)
    <2>1. MoveRows(q)' = MoveRows(q)
      BY DEF MoveRows, RawRows, Components
    <2>2. ASSUME Confirms(c, q)
          PROVE  Confirming(w, q)'
      <3>1. q = o /\ Confirming(w, q)
        BY <1>1, <1>4, <2>2 DEF StockInv, StockKnows, Confirms
      <3>2. \A r \in MoveRows(q) : lock'[r] = w /\ live'[r] = "confirmed"
        BY <1>3, <1>7, <1>8, <3>1
      <3> QED
        BY <1>6, <2>1, <3>1, <3>2 DEF Confirming
    <2> QED
      BY <1>5, <2>2 DEF Finishes, Cancels
  <1>12. Placed(w)'
    BY <1>4, <1>5 DEF Placed, Moves
  <1>13. \A p \in Product : Visible(w, QuantRow(p))' = committed[QuantRow(p)] + Delta(w, p)'
    BY <1>4, <1>6, <1>10, SameDelta, SameStock
  <1> QED
    BY <1>3, <1>4, <1>6, <1>10, <1>11, <1>12, <1>13, StockServed

\* A reorder drafts an order that was not there.
LEMMA ReplenishStock ==
    ASSUME WorkInv, StockInv, NEW w \in Worker, Replenish(w)
    PROVE  StockInv'
  <1>1. call[w].pc = "forecast" /\ Goto(w, "commit") /\ flow' = flow
    BY DEF Replenish, At, history
  <1>2. PICK c : /\ c.pc = "commit" /\ c.method = call[w].method /\ c.order = call[w].order
                 /\ c.product = call[w].product /\ c.todo = call[w].todo /\ c.qty = call[w].qty
                 /\ c.out = call[w].out
                 /\ call'[w] = c /\ \A v \in Worker \ {w} : call'[v] = call[v]
    BY <1>1, GoneWhole
  <1>3. c.method = "reorder"
    BY <1>1, <1>2 DEF StockInv, StockKnows, Placed
  <1>4. Placed(w)'
    BY <1>2, <1>3 DEF Placed, Moves
  <1>5. c.method \notin {"confirm", "done"} /\ \A o \in Order : ~Cancels(c, o)
    BY <1>3 DEF Cancels
  <1>6. Step(w) /\ Allowed(c, w) /\ \A p \in Product : Kept(QuantRow(p))
    <2>1. PICK n : n = Replenishment(rule[call[w].product], call[w].qty + Incoming(w, call[w].product))
      OBVIOUS
    <2>2. /\ n \in 0..MaxOrder
          /\ IF n = 0 THEN UNCHANGED dbVars
             ELSE \E o \in Order : /\ live[OrderRow(o)].state = "none"
                                   /\ Write(w, [r \in {OrderRow(o)} |-> [state |-> "draft", qty |-> n]])
      BY <2>1 DEF Replenish
    <2>3. CASE n = 0
      <3>1. UNCHANGED dbVars
        BY <2>2, <2>3
      <3>2. Step(w)
        BY <1>2, <3>1, NothingWritten
      <3> QED
        BY <3>1, <3>2 DEF dbVars, Allowed, Kept
    <2>4. CASE n # 0
      <3>1. PICK o \in Order : /\ live[OrderRow(o)].state = "none"
                               /\ Write(w, [r \in {OrderRow(o)} |-> [state |-> "draft", qty |-> n]])
        BY <2>2, <2>4
      <3>2. PICK new : new = [r \in {OrderRow(o)} |-> [state |-> "draft", qty |-> n]]
        OBVIOUS
      <3>3. /\ Write(w, new) /\ DOMAIN new \subseteq {OrderRow(o)} /\ OrderRow(o) \in DOMAIN new
            /\ new[OrderRow(o)].state = "draft" /\ new[OrderRow(o)].qty = n
        BY <3>1, <3>2
      <3>4. Free(w, OrderRow(o))
        BY <3>3 DEF Write
      <3>5. committed[OrderRow(o)].state = "none"
        BY <1>1, <3>1, <3>4, OrderFree
      <3>6. n \in Int
        BY <2>2, ProductionAssumption
      <3>7. Allowed(c, w) /\ \A p \in Product : Kept(QuantRow(p))
        BY <3>3, <3>5, <3>6, OrderAllowed
      <3> QED
        BY <1>2, <3>3, <3>7, WriteStep
    <2> QED
      BY <2>3, <2>4
  <1> QED
    BY <1>1, <1>2, <1>4, <1>5, <1>6, AsideStock

\* The move of what has left or come is done.
LEMMA MoveDoneStock ==
    ASSUME WorkInv, StockInv, NEW w \in Worker, MoveDone(w)
    PROVE  StockInv'
  <1>1. PICK o, q, new, pc : /\ o = call[w].order /\ q = call[w].product
                             /\ new = [r \in {MoveRow(o, q)} |-> "done"]
                             /\ pc = IF q = makes[o] THEN "done" ELSE "raw"
    OBVIOUS
  <1>2. /\ Write(w, new) /\ DOMAIN new = {MoveRow(o, q)}
        /\ call[w].pc = "move" /\ Goto(w, pc) /\ flow' = flow
    BY <1>1 DEF MoveDone, At, history
  <1>3. PICK c : /\ c.pc = pc /\ c.method = call[w].method /\ c.order = call[w].order
                 /\ c.product = call[w].product /\ c.todo = call[w].todo /\ c.qty = call[w].qty
                 /\ c.out = call[w].out
                 /\ call'[w] = c /\ \A v \in Worker \ {w} : call'[v] = call[v]
    BY <1>2, GoneWhole
  <1>4. c.method = "done" /\ pc \in {"done", "raw"}
    BY <1>1, <1>2, <1>3 DEF WorkInv, Knows
  <1>5. StockKnows(w) /\ o \in Order
    BY <1>1, <1>3, <1>4 DEF StockInv, StockKnows
  <1>6. Step(w) /\ committed' = committed
    BY <1>2, <1>3, WriteStep DEF Step
  <1>7. \A r \in Row : r \notin DOMAIN new => Kept(r)
    BY <1>2, WriteEffect DEF Kept
  <1>8. /\ \A p \in Product : Kept(QuantRow(p))
        /\ \A p \in Order : Kept(OrderRow(p)) /\ \A r \in MoveRows(p) : r # MoveRow(o, q) => Kept(r)
    BY <1>2, <1>7, RowsThere, MoveNames, RowNames
  <1>9. Allowed(c, w)
    <2>1. \A p \in Order : \A r \in MoveRows(p) : r = MoveRow(o, q) => p = o
      BY MoveNames DEF MoveRows, RawRows
    <2>2. Serves(c, o)
      BY <1>1, <1>3, <1>4 DEF Serves, Workflow
    <2> QED
      BY <1>8, <2>1, <2>2 DEF Allowed
  <1>10. Placed(w)'
    BY <1>3, <1>4 DEF Placed, Moves
  <1>11. ASSUME NEW p \in Order
         PROVE  /\ ~Confirms(c, p) /\ ~Cancels(c, p)
                /\ Finishes(c, p) => Finishing(w, p)'
    <2>1. ASSUME Finishes(c, p)
          PROVE  Finishing(w, p)'
      <3>1. p = o /\ Finishing(w, p)
        BY <1>1, <1>3, <1>5, <2>1 DEF StockKnows, Finishes
      <3>2. Components(p)' = Components(p)
        BY DEF Components
      <3>3. q # makes[o] => Visible(w, MoveRow(o, makes[o]))' = Visible(w, MoveRow(o, makes[o]))
        <4>1. q # makes[o] => MoveRow(o, makes[o]) # MoveRow(o, q)
          BY MoveNames
        <4>2. MoveRow(o, makes[o]) \in MoveRows(o)
          BY <1>5, MoveNames
        <4> QED
          BY <1>5, <1>6, <1>8, <4>1, <4>2 DEF Visible, Kept
      <3>4. /\ q # makes[o] => c.pc = "raw"
            /\ q = makes[o] => c.pc = "done"
        BY <1>1, <1>3
      <3> QED
        BY <1>1, <1>3, <1>6, <3>1, <3>2, <3>3, <3>4 DEF Finishing
    <2> QED
      BY <1>4, <2>1 DEF Confirms, Cancels
  <1>12. \A p \in Product : Visible(w, QuantRow(p))' = committed[QuantRow(p)] + Delta(w, p)'
    BY <1>3, <1>6, <1>8, SameDelta, SameStock
  <1> QED
    BY <1>2, <1>3, <1>6, <1>9, <1>10, <1>11, <1>12, StockServed

\* What applyMove leaves to be seen of the stock of a product.
LEMMA MovedEffect ==
    ASSUME WorkInv, NEW w \in Worker, NEW p \in Product, NEW n, Moved(w, p, n)
    PROVE  /\ committed' = committed
           /\ Visible(w, QuantRow(p))' = Visible(w, QuantRow(p)) + n
           /\ \A r \in Row : r # QuantRow(p) => Kept(r)
  <1>1. PICK new : new = [r \in {QuantRow(p)} |-> live[r] + n]
    OBVIOUS
  <1>2. /\ Write(w, new) /\ DOMAIN new = {QuantRow(p)} /\ new[QuantRow(p)] = live[QuantRow(p)] + n
        /\ QuantRow(p) \in Row
    BY <1>1, RowsThere DEF Moved
  <1>3. /\ committed' = committed
        /\ \A r \in Row : r # QuantRow(p) => Kept(r)
        /\ live'[QuantRow(p)] = live[QuantRow(p)] + n /\ lock'[QuantRow(p)] = w
        /\ lock[QuantRow(p)] \in {w, NoTxn}
    BY <1>2, WriteEffect DEF Kept
  <1>4. live[QuantRow(p)] = Visible(w, QuantRow(p))
    BY <1>2, <1>3 DEF Visible, WorkInv, Unlocked
  <1> QED
    BY <1>3, <1>4 DEF Visible

-----------------------------------------------------------------------------
(* what a mark done takes and brings *)

\* A quant is no row of an order or of a move.
LEMMA MovedAllowed ==
    ASSUME WorkInv, NEW w \in Worker, NEW p \in Product, NEW n, Moved(w, p, n), NEW c
    PROVE  /\ Allowed(c, w)
           /\ \A o \in Order : Kept(OrderRow(o)) /\ \A r \in MoveRows(o) : Kept(r)
           /\ \A q \in Product : q # p => Kept(QuantRow(q))
  <1>1. \A r \in Row : r # QuantRow(p) => Kept(r)
    BY MovedEffect
  <1>2. /\ \A o \in Order : Kept(OrderRow(o)) /\ \A r \in MoveRows(o) : Kept(r)
        /\ \A q \in Product : q # p => Kept(QuantRow(q))
    BY <1>1, RowsThere, RowNames, MoveNames
  <1> QED
    BY <1>2 DEF Allowed

\* What a request sees of stock once it has moved some.
LEMMA MovedSeen ==
    ASSUME WorkInv, StockInv, NEW w \in Worker, NEW p \in Product, NEW n, Moved(w, p, n),
           Delta(w, p)' = Delta(w, p) + n, Delta(w, p) \in Int, n \in Int,
           \A q \in Product : q # p => Delta(w, q)' = Delta(w, q)
    PROVE  \A q \in Product : Visible(w, QuantRow(q))' = committed[QuantRow(q)] + Delta(w, q)'
  <1> SUFFICES ASSUME NEW q \in Product
               PROVE  Visible(w, QuantRow(q))' = committed[QuantRow(q)] + Delta(w, q)'
    OBVIOUS
  <1>1. Visible(w, QuantRow(q)) = committed[QuantRow(q)] + Delta(w, q)
    BY DEF StockInv, StockKnows
  <1>2. committed[QuantRow(q)] \in Int
    BY DEF StockInv, Whole
  <1>3. CASE q = p
    <2>1. Visible(w, QuantRow(p))' = Visible(w, QuantRow(p)) + n
      BY MovedEffect
    <2> QED
      BY <1>1, <1>2, <1>3, <2>1
  <1>4. CASE q # p
    <2>1. Kept(QuantRow(q)) /\ committed' = committed
      BY <1>4, MovedAllowed, MovedEffect
    <2> QED
      BY <1>1, <1>4, <2>1 DEF Kept, Visible
  <1> QED
    BY <1>3, <1>4

\* A mark done goes on with a move.
LEMMA FinishingMoves ==
    ASSUME WorkInv, StockInv, NEW w \in Worker, call[w].pc = "raw", call[w].method = "done",
           NEW o \in Order, call[w].order = o, NEW p \in Product, NEW n \in Int, Moved(w, p, n), flow' = flow,
           NEW c, call'[w] = c, \A v \in Worker \ {w} : call'[v] = call[v],
           c.pc = "onhand", c.method = "done", c.order = o, c.product = p, c.todo = call[w].todo \ {p},
           p = makes[o] => call[w].todo = {} /\ n = committed[OrderRow(o)].qty,
           p # makes[o] => p \in call[w].todo /\ n = -(committed[OrderRow(o)].qty * needs[makes[o]][p])
    PROVE  StockInv'
  <1>1. Finishing(w, o)
    BY DEF StockInv, StockKnows, Finishes
  <1>2. Step(w) /\ committed' = committed
    <2>1. PICK new : new = [r \in {QuantRow(p)} |-> live[r] + n]
      OBVIOUS
    <2>2. Write(w, new)
      BY <2>1 DEF Moved
    <2> QED
      BY <2>2, WriteStep DEF Step
  <1>3. /\ Allowed(c, w)
        /\ \A q \in Order : Kept(OrderRow(q)) /\ \A r \in MoveRows(q) : Kept(r)
    BY MovedAllowed
  <1>4. Placed(w)'
    BY DEF Placed, Moves
  <1>5. /\ call[w].product # makes[o] /\ call[w].todo \subseteq Components(o)
        /\ committed[OrderRow(o)].state \in Active
        /\ Visible(w, MoveRow(o, makes[o])) = "confirmed"
    BY <1>1 DEF Finishing
  <1>6. Finishing(w, o)'
    <2>1. Components(o)' = Components(o)
      BY DEF Components
    <2>2. Visible(w, MoveRow(o, makes[o]))' = "confirmed"
      BY <1>2, <1>3, <1>5, MoveNames DEF Visible, Kept
    <2>3. p = makes[o] => c.todo = {}
      OBVIOUS
    <2> QED
      BY <1>2, <1>5, <2>1, <2>2, <2>3 DEF Finishing
  <1>7. \A q \in Order : /\ ~Confirms(c, q) /\ ~Cancels(c, q)
                         /\ Finishes(c, q) => Finishing(w, q)'
    BY <1>6 DEF Confirms, Cancels, Finishes
  <1>8. PICK m : m = committed[OrderRow(o)].qty
    OBVIOUS
  <1>9. m \in Int /\ \A q \in Product : needs[makes[o]][q] \in Int
    BY <1>8, ProductionAssumption DEF StockInv, Whole
  <1>10. \A q : Delta(w, q) = IF q = makes[o] THEN 0
                              ELSE IF q \in Components(o) \ call[w].todo THEN -(m * needs[makes[o]][q]) ELSE 0
    BY <1>5, <1>8 DEF Delta, Moves
  <1>11. \A q : Delta(w, q)' = IF q = makes[o] THEN (IF p = q THEN m ELSE 0)
                               ELSE IF q \in Components(o) \ c.todo THEN -(m * needs[makes[o]][q]) ELSE 0
    BY <1>2, <1>8 DEF Delta, Moves, Components
  <1>12. /\ Delta(w, p)' = Delta(w, p) + n /\ Delta(w, p) \in Int
         /\ \A q \in Product : q # p => Delta(w, q)' = Delta(w, q)
    <2>1. CASE p = makes[o]
      <3>1. Delta(w, p) = 0 /\ Delta(w, p)' = n
        BY <1>8, <1>10, <1>11, <2>1
      <3>2. c.todo = call[w].todo
        BY <2>1
      <3> QED
        BY <1>10, <1>11, <2>1, <3>1, <3>2
    <2>2. CASE p # makes[o]
      <3>1. p \in Components(o) /\ p \in call[w].todo
        BY <1>5, <2>2
      <3>2. Delta(w, p) = 0 /\ Delta(w, p)' = n
        BY <1>8, <1>10, <1>11, <2>2, <3>1
      <3>3. \A q \in Product : q # p => (q \in Components(o) \ c.todo <=> q \in Components(o) \ call[w].todo)
        OBVIOUS
      <3> QED
        BY <1>10, <1>11, <2>2, <3>2, <3>3
    <2> QED
      BY <2>1, <2>2
  <1>13. \A q \in Product : Visible(w, QuantRow(q))' = committed[QuantRow(q)] + Delta(w, q)'
    BY <1>12, MovedSeen
  <1> QED
    BY <1>2, <1>3, <1>4, <1>7, <1>13, StockServed

\* A component leaves WH/Stock.
LEMMA ConsumeStock ==
    ASSUME WorkInv, StockInv, NEW w \in Worker, NEW p, ConsumeRaw(w, p)
    PROVE  StockInv'
  <1>1. PICK old, n, o : /\ old = call[w] /\ o = old.order
                         /\ n = live[OrderRow(o)].qty * needs[makes[o]][p]
    OBVIOUS
  <1>2. PICK c : c = [old EXCEPT !.pc = "onhand", !.todo = @ \ {p}, !.product = p, !.qty = -n,
                                 !.drawn = 0, !.worth = @ + n * Visible(w, ProductRow(p)).price]
    OBVIOUS
  <1>3. /\ call' = [call EXCEPT ![w] = c] /\ old.pc = "raw" /\ p \in old.todo
        /\ Moved(w, p, -n) /\ flow' = flow
    BY <1>1, <1>2 DEF ConsumeRaw, At, history
  <1>4. IsCall(old)
    BY <1>1 DEF WorkInv, Shape
  <1>5. /\ c.pc = "onhand" /\ c.method = old.method /\ c.order = old.order /\ c.product = p
        /\ c.todo = old.todo \ {p}
    BY ONLY <1>2, <1>4 DEF IsCall
  <1>6. call'[w] = c /\ \A v \in Worker \ {w} : call'[v] = call[v]
    BY <1>3 DEF WorkInv, Shape
  <1>7. old.method = "done"
    BY <1>1, <1>3 DEF WorkInv, Knows
  <1>8. o \in Order
    BY <1>1, <1>7 DEF StockInv, StockKnows
  <1>9. Finishing(w, o)
    BY <1>1, <1>7, <1>8 DEF StockInv, StockKnows, Finishes
  <1>10. p \in Product /\ p # makes[o]
    BY <1>1, <1>3, <1>8, <1>9, MoveNames DEF Finishing
  <1>11. live[OrderRow(o)].qty = committed[OrderRow(o)].qty /\ live[OrderRow(o)].qty \in Int
    BY <1>8, <1>9 DEF Finishing, Active, StockInv, Whole
  <1>12. -n \in Int /\ -n = -(committed[OrderRow(o)].qty * needs[makes[o]][p])
    <2>1. needs[makes[o]][p] \in Int
      BY <1>8, <1>10, ProductionAssumption
    <2>2. PICK k \in Int, m \in Int : k = committed[OrderRow(o)].qty /\ m = needs[makes[o]][p]
      BY <1>11, <2>1
    <2>3. k * m \in Int
      OBVIOUS
    <2>4. n = k * m
      BY <1>1, <1>11, <2>2
    <2> QED
      BY <2>2, <2>3, <2>4
  <1> QED
    BY <1>1, <1>3, <1>5, <1>6, <1>7, <1>8, <1>10, <1>12, FinishingMoves

\* The product comes in.
LEMMA ProduceStock ==
    ASSUME WorkInv, StockInv, NEW w \in Worker, ProduceFinished(w)
    PROVE  StockInv'
  <1>1. PICK old, n, o, p : /\ old = call[w] /\ o = old.order /\ n = live[OrderRow(o)].qty /\ p = makes[o]
    OBVIOUS
  <1>2. old.pc = "raw" /\ old.todo = {} /\ flow' = flow
    BY <1>1 DEF ProduceFinished, At, history
  <1>3. old.method = "done"
    BY <1>1, <1>2 DEF WorkInv, Knows
  <1>4. o \in Order
    BY <1>1, <1>3 DEF StockInv, StockKnows
  <1>5. Finishing(w, o)
    BY <1>1, <1>3, <1>4 DEF StockInv, StockKnows, Finishes
  <1>6. Visible(w, MoveRow(o, p)) = "confirmed"
    BY <1>1, <1>2, <1>5 DEF Finishing
  <1>7. PICK c : c = [old EXCEPT !.pc = "onhand", !.product = p, !.qty = n, !.cost = Quotient(old.worth, n)]
    OBVIOUS
  <1>8. Moved(w, p, n) /\ call' = [call EXCEPT ![w] = c]
    <2>1. p = makes[old.order] /\ n = live[OrderRow(old.order)].qty
      BY <1>1
    <2>2. Visible(w, MoveRow(old.order, p)) = "confirmed"
      BY <1>1, <1>6
    <2>3. /\ Moved(w, p, n)
          /\ call' = [call EXCEPT ![w] = WithProduct(call[w], p, n)]
      BY <1>1, <2>1, <2>2, ProduceStep
    <2>4. c = WithProduct(call[w], p, n)
      BY ONLY <1>1, <1>7 DEF WithProduct
    <2> QED
      BY ONLY <2>3, <2>4
  <1>9. IsCall(old)
    BY <1>1 DEF WorkInv, Shape
  <1>10. /\ c.pc = "onhand" /\ c.method = old.method /\ c.order = old.order /\ c.product = p
         /\ c.todo = old.todo
    BY ONLY <1>7, <1>9 DEF IsCall
  <1>11. call'[w] = c /\ \A v \in Worker \ {w} : call'[v] = call[v]
    BY <1>8 DEF WorkInv, Shape
  <1>12. p \in Product
    BY <1>1, <1>4, MoveNames
  <1>13. n = committed[OrderRow(o)].qty /\ n \in Int
    BY <1>1, <1>4, <1>5 DEF Finishing, Active, StockInv, Whole
  <1>14. c.todo = old.todo \ {p}
    BY <1>2, <1>10
  <1> QED
    BY <1>1, <1>2, <1>3, <1>4, <1>8, <1>10, <1>11, <1>12, <1>13, <1>14, FinishingMoves

-----------------------------------------------------------------------------
(* requests that begin *)

\* Who serves no request has moved nothing and holds nothing.
LEMMA IdleStock ==
    ASSUME WorkInv, NEW w \in Worker, call[w] = Idle
    PROVE  /\ \A p : Delta(w, p) = 0
           /\ \A r \in Row : lock[r] # w
           /\ \A o \in Order : ~Serves(call[w], o)
  BY IdleOK DEF WorkInv, Knows, Delta, Moves, Serves, Workflow

\* A request that begins, apart from the others for its order.
LEMMA StockBegun ==
    ASSUME WorkInv, StockInv, OneRequestPerOrder, NEW w \in Worker, Step(w), flow' = flow,
           NEW pc, NEW request, Begin(w, pc, request),
           NEW c, call'[w] = c, c.method = request.method, c.order = request.order,
           Allowed(c, w),
           Placed(w)',
           \A o \in Order : /\ Confirms(c, o) => Confirming(w, o)'
                            /\ Finishes(c, o) => Finishing(w, o)'
                            /\ Cancels(c, o) => Cancelling(w, o)',
           c.method = "done" => c.order \in Order,
           \A p \in Product : Visible(w, QuantRow(p))' = committed[QuantRow(p)] + Delta(w, p)'
    PROVE  StockInv'
  <1>1. /\ committed' = committed
        /\ \A v \in Worker \ {w} : call'[v] = call[v]
    BY DEF Step
  <1>2. call[w] = Idle
    BY DEF Begin
  <1>3. ASSUME NEW o \in Order
        PROVE  /\ live'[OrderRow(o)].qty \in Int
               /\ committed[OrderRow(o)].state # "none" => live'[OrderRow(o)].qty = committed[OrderRow(o)].qty
    BY DEF Allowed, Kept, StockInv, Whole
  <1>4. ASSUME NEW o \in Order
        PROVE  Owns(w, o)'
    <2>1. \A r \in Row : lock[r] # w
      BY <1>2, IdleStock
    <2>2. MoveRows(o)' = MoveRows(o) /\ OrderRow(o) \in Row /\ MoveRows(o) \subseteq Row
      BY RowsThere, MoveNames DEF MoveRows, RawRows, Components
    <2> QED
      BY <1>1, <2>1, <2>2 DEF Allowed, Kept, Owns, Cancels, Serves
  <1>5. OneEach'
    <2>1. ASSUME NEW v \in Worker \ {w}, NEW o \in Order
          PROVE  ~(Serves(c, o) /\ Serves(call[v], o))
      <3>1. ~Bars(request, call[v])
        BY DEF Begin
      <3>2. o # NoOrder
        BY ProductionAssumption
      <3> QED
        BY <3>1, <3>2 DEF Bars, Serves
    <2>2. \A v \in Worker \ {w}, o \in Order : Serves(call'[v], o) <=> Serves(call[v], o)
      BY <1>1
    <2> SUFFICES ASSUME NEW o \in Order, NEW u \in Worker, NEW v \in Worker, u # v
                 PROVE  ~(Serves(call'[u], o) /\ Serves(call'[v], o))
      BY Zenon DEF OneEach, Serves
    <2>3. CASE u = w
      BY <2>1, <2>2, <2>3
    <2>4. CASE v = w
      BY <2>1, <2>2, <2>4
    <2>5. CASE u # w /\ v # w
      BY <2>2, <2>5 DEF StockInv, OneEach
    <2> QED
      BY <2>3, <2>4, <2>5
  <1>6. StockKnows(w)'
    BY <1>1, <1>4 DEF StockKnows, Confirms, Finishes, Cancels
  <1> QED
    BY <1>3, <1>5, <1>6, StockStep

\* A receipt or a delivery begins by moving stock.
LEMMA TransferBegins ==
    ASSUME WorkInv, StockInv, OneRequestPerOrder, NEW w \in Worker, NEW p \in Product, NEW n \in Int,
           Moved(w, p, n), NEW request, Begin(w, "onhand", request), flow' = flow,
           NEW c, call'[w] = c, c.method = request.method, c.order = request.order,
           c.pc = "onhand", Moves(c), c.product = p, c.qty = n,
           c.out = [q \in Product |-> c.out[q]], c.out[p].qty = 0
    PROVE  StockInv'
  <1>1. call[w] = Idle /\ \A v \in Worker \ {w} : call'[v] = call[v]
    BY DEF Begin, WorkInv, Shape
  <1>2. Step(w) /\ committed' = committed
    <2>1. PICK new : new = [r \in {QuantRow(p)} |-> live[r] + n]
      OBVIOUS
    <2>2. Write(w, new)
      BY <2>1 DEF Moved
    <2> QED
      BY <1>1, <2>2, WriteStep DEF Step
  <1>3. Allowed(c, w)
    BY MovedAllowed
  <1>4. Placed(w)'
    BY DEF Placed, Moves
  <1>5. /\ \A o \in Order : ~Confirms(c, o) /\ ~Finishes(c, o) /\ ~Cancels(c, o)
        /\ c.method # "done"
    BY DEF Confirms, Finishes, Cancels, Moves
  <1>6. \A q : Delta(w, q) = 0
    BY <1>1, IdleStock
  <1>7. \A q : Delta(w, q)' = IF q = p THEN n ELSE 0
    BY DEF Delta, Moves
  <1>8. \A q \in Product : Visible(w, QuantRow(q))' = committed[QuantRow(q)] + Delta(w, q)'
    BY <1>6, <1>7, MovedSeen
  <1> QED
    BY <1>2, <1>3, <1>4, <1>5, <1>8, StockBegun

\* Validating a receipt or a delivery.
LEMMA TransferStock ==
    ASSUME WorkInv, StockInv, OneRequestPerOrder, NEW w \in Worker, NEW p \in Product, NEW n \in Batch, NEW cost,
           Receive(w, p, n, cost) \/ Deliver(w, p, n)
    PROVE  StockInv'
  <1>1. n \in Int /\ -n \in Int
    BY ProductionAssumption
  <1>2. PICK out : out = [q \in Product |-> Zero]
    OBVIOUS
  <1>3. Idle.out = out /\ out = [q \in Product |-> out[q]] /\ \A q \in Product : out[q].qty = 0
    BY <1>2 DEF Idle, Zero
  <1>4. CASE Receive(w, p, n, cost)
    <2>1. PICK request, c : /\ request = [[Idle EXCEPT !.qty = n, !.cost = cost] EXCEPT !.method = "receive", !.product = p]
                            /\ c = [request EXCEPT !.pc = "onhand"]
      OBVIOUS
    <2>2. Moved(w, p, n) /\ Begin(w, "onhand", request) /\ flow' = flow
      BY <1>4, <2>1 DEF Receive, Document
    <2>3. /\ c.method = "receive" /\ request.method = "receive" /\ c.order = request.order
          /\ c.pc = "onhand" /\ c.product = p /\ c.qty = n /\ c.out = Idle.out
      BY ONLY <2>1, IdleCall DEF IsCall
    <2>4. call'[w] = c
      BY <2>1, <2>2 DEF Begin, WorkInv, Shape
    <2> QED
      BY <1>1, <1>3, <2>2, <2>3, <2>4, TransferBegins DEF Moves
  <1>5. CASE Deliver(w, p, n)
    <2>1. PICK request, c : /\ request = [[Idle EXCEPT !.qty = -n] EXCEPT !.method = "deliver", !.product = p]
                            /\ c = [request EXCEPT !.pc = "onhand"]
      OBVIOUS
    <2>2. Moved(w, p, -n) /\ Begin(w, "onhand", request) /\ flow' = flow
      BY <1>5, <2>1 DEF Deliver, Document
    <2>3. /\ c.method = "deliver" /\ request.method = "deliver" /\ c.order = request.order
          /\ c.pc = "onhand" /\ c.product = p /\ c.qty = -n /\ c.out = Idle.out
      BY ONLY <2>1, IdleCall DEF IsCall
    <2>4. call'[w] = c
      BY <2>1, <2>2 DEF Begin, WorkInv, Shape
    <2> QED
      BY <1>1, <1>3, <2>2, <2>3, <2>4, TransferBegins DEF Moves
  <1> QED
    BY <1>4, <1>5

\* A request that begins without moving stock.
LEMMA QuietBegins ==
    ASSUME WorkInv, StockInv, OneRequestPerOrder, NEW w \in Worker, Step(w), flow' = flow,
           NEW pc, NEW request, Begin(w, pc, request),
           NEW c, call'[w] = c, c.method = request.method, c.order = request.order,
           Allowed(c, w), \A p \in Product : Kept(QuantRow(p)),
           Placed(w)', ~Moves(c), c.method # "done",
           \A o \in Order : /\ Confirms(c, o) => Confirming(w, o)'
                            /\ Cancels(c, o) => Cancelling(w, o)'
    PROVE  StockInv'
  <1>1. call[w] = Idle
    BY DEF Begin
  <1>2. (\A p : Delta(w, p) = 0) /\ \A p : Delta(w, p)' = 0
    BY <1>1, IdleStock DEF Delta
  <1>3. \A o \in Order : ~Finishes(c, o)
    BY DEF Finishes
  <1>4. committed' = committed
    BY DEF Step
  <1>5. \A p \in Product : Visible(w, QuantRow(p))' = committed[QuantRow(p)] + Delta(w, p)'
    BY <1>2, <1>4, SameStock
  <1> QED
    BY <1>3, <1>5, StockBegun

\* A landed cost or a run of the reorder scheduler begins.
LEMMA ReadingStock ==
    ASSUME WorkInv, StockInv, OneRequestPerOrder, NEW w \in Worker, NEW p \in Product, NEW v,
           Land(w, p, v) \/ Reorder(w, p)
    PROVE  StockInv'
  <1>1. PICK request, pc :
          /\ IsCall(request) /\ request.method \in {"land", "reorder"}
          /\ pc = IF request.method = "land" THEN "revalue" ELSE "forecast"
          /\ Begin(w, pc, request) /\ UNCHANGED dbVars /\ flow' = flow
    <2>1. CASE Land(w, p, v)
      <3>1. PICK copy, out : copy = Visible(w, ProductRow(p)) /\ out = [Idle.out EXCEPT ![p] = [qty |-> 0, value |-> v]]
        OBVIOUS
      <3>2. PICK request :
              request = [[Idle EXCEPT !.worth = v, !.copy = copy, !.out = out] EXCEPT !.method = "land", !.product = p]
        OBVIOUS
      <3>3. Begin(w, "revalue", request) /\ UNCHANGED dbVars /\ flow' = flow
        BY <2>1, <3>1, <3>2 DEF Land, Document
      <3>4. IsCall(request) /\ request.method = "land"
        BY ONLY <3>2, IdleCall DEF IsCall
      <3> QED
        BY <3>3, <3>4
    <2>2. CASE Reorder(w, p)
      <3>1. PICK q : q = Visible(w, QuantRow(p))
        OBVIOUS
      <3>2. PICK request : request = [Idle EXCEPT !.method = "reorder", !.product = p, !.qty = q]
        OBVIOUS
      <3>3. Begin(w, "forecast", request) /\ UNCHANGED dbVars /\ flow' = flow
        BY <2>2, <3>1, <3>2 DEF Reorder, history
      <3>4. IsCall(request) /\ request.method = "reorder"
        BY ONLY <3>2, IdleCall DEF IsCall
      <3> QED
        BY <3>3, <3>4
    <2> QED
      BY <2>1, <2>2
  <1>2. PICK c : c = [request EXCEPT !.pc = pc]
    OBVIOUS
  <1>3. c.pc = pc /\ c.method = request.method /\ c.order = request.order
    BY ONLY <1>1, <1>2 DEF IsCall
  <1>4. call'[w] = c /\ \A u \in Worker \ {w} : call'[u] = call[u]
    BY <1>1, <1>2 DEF Begin, WorkInv, Shape
  <1>5. Step(w)
    BY <1>1, <1>4, NothingWritten
  <1>6. Allowed(c, w) /\ \A q \in Product : Kept(QuantRow(q))
    BY <1>1 DEF dbVars, Allowed, Kept
  <1>7. \/ c.method = "land" /\ c.pc = "revalue"
        \/ c.method = "reorder" /\ c.pc = "forecast"
    BY <1>1, <1>3
  <1>8. /\ Placed(w)' /\ ~Moves(c) /\ c.method # "done"
        /\ \A o \in Order : ~Confirms(c, o) /\ ~Cancels(c, o)
    BY <1>4, <1>7 DEF Placed, Moves, Confirms, Cancels
  <1>9. Begin(w, pc, request) /\ flow' = flow
    BY <1>1
  <1> QED
    BY <1>3, <1>4, <1>5, <1>6, <1>8, <1>9, QuietBegins

\* action_confirm begins.
LEMMA ConfirmStock ==
    ASSUME WorkInv, StockInv, OneRequestPerOrder, NEW w \in Worker, NEW o \in Order, Confirm(w, o)
    PROVE  StockInv'
  <1>1. PICK request, c : request = For("confirm", o) /\ c = [request EXCEPT !.pc = "explode"]
    OBVIOUS
  <1>2. IsCall(request) /\ request.method = "confirm" /\ request.order = o
    BY <1>1, ForCall
  <1>3. c.pc = "explode" /\ c.method = "confirm" /\ c.order = o
    BY <1>1, <1>2, CallAt
  <1>4. Begin(w, "explode", request) /\ UNCHANGED dbVars /\ call[w] = Idle /\ flow' = flow
    BY <1>1 DEF Confirm, Begin, history
  <1>5. committed[OrderRow(o)].state = "draft"
    BY <1>4, RowsThere, IdleSees DEF Confirm
  <1>6. call'[w] = c /\ \A v \in Worker \ {w} : call'[v] = call[v]
    BY <1>1, <1>4 DEF Begin, WorkInv, Shape
  <1>7. Step(w) /\ committed' = committed
    BY <1>4, <1>6, NothingWritten DEF dbVars
  <1>8. Allowed(c, w) /\ \A q \in Product : Kept(QuantRow(q))
    BY <1>4 DEF dbVars, Allowed, Kept
  <1>9. Placed(w)' /\ ~Moves(c) /\ c.method # "done"
    BY <1>3, <1>6 DEF Placed, Moves
  <1>10. \A q \in Order : ~Cancels(c, q) /\ (Confirms(c, q) => Confirming(w, q)')
    BY <1>3, <1>5, <1>6, <1>7 DEF Cancels, Confirms, Confirming
  <1> QED
    BY <1>2, <1>3, <1>4, <1>6, <1>7, <1>8, <1>9, <1>10, QuietBegins

\* handleMarkDone begins, with all the moves of its order to do.
LEMMA MarkDoneStock ==
    ASSUME WorkInv, StockInv, OneRequestPerOrder, NEW w \in Worker, NEW o \in Order, MarkDone(w, o)
    PROVE  StockInv'
  <1>1. PICK todo : todo = {p \in Components(o) : Visible(w, MoveRow(o, p)) = "confirmed"}
    OBVIOUS
  <1>2. PICK d, request, c : /\ d = For("done", o) /\ request = [d EXCEPT !.todo = todo]
                             /\ c = [request EXCEPT !.pc = "raw"]
    OBVIOUS
  <1>3. /\ IsCall(d) /\ d.method = "done" /\ d.order = o
        /\ d.product = NoProduct
    <2>1. IsCall(d) /\ d.method = "done" /\ d.order = o
      BY <1>2, ForCall
    <2>2. d = [Idle EXCEPT !.method = "done", !.order = o]
      BY <1>2 DEF For
    <2>3. d.product = Idle.product
      BY ONLY <2>2, IdleCall DEF IsCall
    <2> QED
      BY <2>1, <2>3, IdleOK
  <1>4. /\ c.pc = "raw" /\ c.method = "done" /\ c.order = o /\ c.product = NoProduct /\ c.todo = todo
        /\ request.method = "done" /\ request.order = o
    BY ONLY <1>2, <1>3 DEF IsCall
  <1>5. Begin(w, "raw", request) /\ UNCHANGED dbVars /\ call[w] = Idle /\ flow' = flow
    BY <1>1, <1>2 DEF MarkDone, Begin, history
  <1>6. committed[OrderRow(o)].state \in Active
    BY <1>5, RowsThere, IdleSees DEF MarkDone, Active
  <1>7. \A r \in MoveRows(o) : r \in Row /\ Visible(w, r) = "confirmed"
    BY <1>5, <1>6, IdleSees, MoveNames DEF StockInv, MovesReady
  <1>8. todo = Components(o)
    BY <1>1, <1>7, MoveNames
  <1>9. call'[w] = c /\ \A v \in Worker \ {w} : call'[v] = call[v]
    BY <1>2, <1>5 DEF Begin, WorkInv, Shape
  <1>10. /\ Step(w) /\ committed' = committed
         /\ \A r : Visible(w, r)' = Visible(w, r)
    BY <1>5, <1>9, NothingWritten DEF dbVars, Visible
  <1>11. Allowed(c, w) /\ \A q \in Product : Kept(QuantRow(q))
    BY <1>5 DEF dbVars, Allowed, Kept
  <1>12. Placed(w)'
    BY <1>4, <1>9 DEF Placed, Moves
  <1>13. Finishing(w, o)'
    <2>1. Components(o)' = Components(o)
      BY DEF Components
    <2>2. NoProduct # makes[o]
      BY ProductionAssumption
    <2>3. Visible(w, MoveRow(o, makes[o]))' = "confirmed"
      BY <1>7, <1>10, MoveNames
    <2> QED
      BY <1>4, <1>6, <1>8, <1>9, <1>10, <2>1, <2>2, <2>3 DEF Finishing
  <1>14. \A q \in Order : /\ ~Cancels(c, q) /\ ~Confirms(c, q)
                          /\ Finishes(c, q) => Finishing(w, q)'
    BY <1>4, <1>13 DEF Cancels, Confirms, Finishes
  <1>15. \A p \in Product : Visible(w, QuantRow(p))' = committed[QuantRow(p)] + Delta(w, p)'
    <2>1. \A p \in Product : Delta(w, p)' = 0
      <3>1. NoProduct \notin Product
        BY ProductionAssumption
      <3> QED
        BY <1>4, <1>8, <1>9, <3>1 DEF Delta, Moves, Components
    <2>2. \A p \in Product : Delta(w, p) = 0
      BY <1>5, IdleStock
    <2> QED
      BY <1>10, <1>11, <2>1, <2>2, SameStock
  <1> QED
    BY <1>4, <1>5, <1>9, <1>10, <1>11, <1>12, <1>14, <1>15, StockBegun

\* A cancel, or the start or the finish of a work order, begins.
LEMMA StatesBegin ==
    ASSUME WorkInv, StockInv, OneRequestPerOrder, NEW w \in Worker, NEW o \in Order, NEW rows, NEW from, NEW to,
           NEW pc, NEW m, MoveStates(w, rows, from, to), Begin(w, pc, For(m, o)), flow' = flow,
           \/ m = "cancel" /\ pc = "cancel work" /\ rows = MoveRows(o)
           \/ /\ \/ m = "start" /\ pc = "start order"
                 \/ m = "finish" /\ pc = "close order"
              /\ \A r \in rows : \E k : r = WorkRow(o, k)
    PROVE  StockInv'
  <1>1. PICK request, c : request = For(m, o) /\ c = [request EXCEPT !.pc = pc]
    OBVIOUS
  <1>2. IsCall(request) /\ request.method = m /\ request.order = o
    BY <1>1, ForCall
  <1>3. c.pc = pc /\ c.method = m /\ c.order = o
    BY ONLY <1>1, <1>2 DEF IsCall
  <1>4. call'[w] = c /\ \A v \in Worker \ {w} : call'[v] = call[v]
    BY <1>1 DEF Begin, WorkInv, Shape
  <1>5. PICK new : new = [r \in {s \in rows : Visible(w, s) \in from} |-> to]
    OBVIOUS
  <1>6. Write(w, new) /\ DOMAIN new \subseteq rows
    BY <1>5 DEF MoveStates
  <1>7. Step(w) /\ committed' = committed
    BY <1>4, <1>6, WriteStep DEF Step
  <1>8. \A r \in Row : r \notin rows => Kept(r)
    BY <1>6, WriteEffect DEF Kept
  <1>9. /\ \A q \in Order : OrderRow(q) \notin rows
        /\ \A p \in Product : QuantRow(p) \notin rows
        /\ \A q \in Order : \A r \in MoveRows(q) : r \in rows => m = "cancel" /\ q = o
    <2>1. CASE m = "cancel" /\ rows = MoveRows(o)
      <3>1. \A r \in rows : /\ \A q : r # OrderRow(q)
                           /\ \A q : r # QuantRow(q)
        BY <2>1, MoveNames
      <3>2. \A q \in Order : \A r \in MoveRows(q) : r \in rows => q = o
        BY <2>1, MoveNames
      <3> QED
        BY <2>1, <3>1, <3>2
    <2>2. CASE \A r \in rows : \E k : r = WorkRow(o, k)
      BY <2>2, RowNames, MoveNames
    <2> QED
      BY <2>1, <2>2
  <1>10. /\ \A q \in Order : Kept(OrderRow(q))
         /\ \A p \in Product : Kept(QuantRow(p))
         /\ \A q \in Order : \A r \in MoveRows(q) : Kept(r) \/ Serves(c, q)
    BY <1>3, <1>8, <1>9, RowsThere, MoveNames DEF Serves, Workflow
  <1>11. Allowed(c, w)
    BY <1>10 DEF Allowed
  <1>12. \/ c.method = "cancel" /\ c.pc = "cancel work"
         \/ c.method = "start" /\ c.pc = "start order"
         \/ c.method = "finish" /\ c.pc = "close order"
    BY <1>3
  <1>13. Placed(w)' /\ ~Moves(c) /\ c.method # "done"
    BY <1>4, <1>12 DEF Placed, Moves
  <1>14. \A q \in Order : /\ ~Confirms(c, q)
                          /\ Cancels(c, q) => Cancelling(w, q)'
    BY <1>4, <1>12 DEF Confirms, Cancels, Cancelling
  <1>15. Begin(w, pc, request) /\ c.method = request.method /\ c.order = request.order
    BY <1>1, <1>2, <1>3
  <1> QED
    BY <1>4, <1>7, <1>10, <1>11, <1>13, <1>14, <1>15, QuietBegins

\* action_cancel, and the handlers of work orders, begin.
LEMMA StatesStock ==
    ASSUME WorkInv, StockInv, OneRequestPerOrder, NEW w \in Worker, NEW o \in Order, NEW k,
           Cancel(w, o) \/ StartWork(w, o, k) \/ FinishWork(w, o, k)
    PROVE  StockInv'
  <1>1. PICK rows, from, to, pc, m :
          /\ MoveStates(w, rows, from, to) /\ Begin(w, pc, For(m, o)) /\ flow' = flow
          /\ \/ m = "cancel" /\ pc = "cancel work" /\ rows = MoveRows(o)
             \/ /\ \/ m = "start" /\ pc = "start order"
                   \/ m = "finish" /\ pc = "close order"
                /\ \A r \in rows : \E j : r = WorkRow(o, j)
    <2>1. CASE Cancel(w, o)
      <3>1. /\ MoveStates(w, MoveRows(o), {"confirmed"}, "cancel")
            /\ Begin(w, "cancel work", For("cancel", o)) /\ flow' = flow
        BY <2>1 DEF Cancel, history
      <3> QED
        BY <3>1
    <2>2. \A r \in {WorkRow(o, k)} : \E j : r = WorkRow(o, j)
      OBVIOUS
    <2>3. CASE StartWork(w, o, k)
      <3>1. /\ MoveStates(w, {WorkRow(o, k)}, {"ready", "progress"}, "progress")
            /\ Begin(w, "start order", For("start", o)) /\ flow' = flow
        BY <2>3 DEF StartWork, history
      <3> QED
        BY <2>2, <3>1
    <2>4. CASE FinishWork(w, o, k)
      <3>1. /\ MoveStates(w, {WorkRow(o, k)}, {"ready", "progress"}, "done")
            /\ Begin(w, "close order", For("finish", o)) /\ flow' = flow
        BY <2>4 DEF FinishWork, history
      <3> QED
        BY <2>2, <3>1
    <2> QED
      BY <2>1, <2>3, <2>4
  <1> QED
    BY <1>1, StatesBegin

\* What a request has moved is a whole number of units, and so is what it sees.
LEMMA DeltaWhole ==
    ASSUME StockInv, NEW w \in Worker, NEW p \in Product
    PROVE  Delta(w, p) \in Int /\ Visible(w, QuantRow(p)) \in Int
  <1>1. StockKnows(w) /\ committed[QuantRow(p)] \in Int
    BY DEF StockInv, Whole
  <1>2. Delta(w, p) \in Int
    <2>1. CASE Moves(call[w])
      <3>1. call[w].qty \in Int
        BY <1>1, <2>1 DEF StockKnows, Placed, Moves
      <3>2. Delta(w, p) = IF call[w].product = p THEN call[w].qty ELSE 0
        BY <2>1 DEF Delta
      <3> QED
        BY <3>1, <3>2
    <2>2. CASE call[w].method = "done"
      <3>1. call[w].order \in Order
        BY <1>1, <2>2 DEF StockKnows
      <3>2. PICK n, k : n = committed[OrderRow(call[w].order)].qty /\ k = needs[makes[call[w].order]][p]
        OBVIOUS
      <3>3. n \in Int /\ k \in Int
        BY <3>1, <3>2, ProductionAssumption DEF StockInv, Whole
      <3>4. -(n * k) \in Int
        BY <3>3
      <3> QED
        BY <2>2, <3>2, <3>3, <3>4 DEF Delta, Moves
    <2>3. CASE call[w].method # "done" /\ ~Moves(call[w])
      BY <2>3 DEF Delta
    <2> QED
      BY <2>1, <2>2, <2>3
  <1>3. Visible(w, QuantRow(p)) = committed[QuantRow(p)] + Delta(w, p)
    BY <1>1 DEF StockKnows
  <1> QED
    BY <1>1, <1>2, <1>3

-----------------------------------------------------------------------------
(* the ends of requests, and new orders *)

\* What the end of a request does to the order another one serves.
LEMMA ServedReleased ==
    ASSUME WorkInv, StockInv, NEW w \in Worker, NEW v \in Worker \ {w}, Released(w),
           \A r \in Row : committed'[r] \in {committed[r], Visible(w, r)},
           NEW o \in Order, Serves(call[v], o)
    PROVE  /\ \A r \in MoveRows(o) : /\ lock[r] # w
                                     /\ Visible(v, r)' = Visible(v, r)
           /\ committed[OrderRow(o)].state # "none" => committed'[OrderRow(o)].qty = committed[OrderRow(o)].qty
           /\ \/ committed'[OrderRow(o)].state = committed[OrderRow(o)].state
              \/ committed[OrderRow(o)].state = "none" /\ committed'[OrderRow(o)].state = "draft"
              \/ committed[OrderRow(o)].state \in Active /\ committed'[OrderRow(o)].state \in Active
  <1>1. /\ OrderRow(o) \in Row /\ MoveRows(o) \subseteq Row
    BY RowsThere, MoveNames
  <1>2. ~Serves(call[w], o)
    BY DEF StockInv, OneEach
  <1>3. Owns(w, o)
    BY DEF StockInv, StockKnows
  <1>4. \A r \in Row : lock[r] # w => /\ lock'[r] = lock[r] /\ live'[r] = live[r]
                                      /\ committed'[r] = committed[r]
    BY DEF Released
  <1>5. \A r \in MoveRows(o) : lock[r] # w /\ Visible(v, r)' = Visible(v, r)
    BY <1>1, <1>2, <1>3, <1>4 DEF Owns, Visible
  <1>6. CASE committed'[OrderRow(o)] = committed[OrderRow(o)]
    BY <1>5, <1>6
  <1>7. CASE committed'[OrderRow(o)] # committed[OrderRow(o)]
    <2>1. lock[OrderRow(o)] = w /\ committed'[OrderRow(o)] = live[OrderRow(o)]
      BY <1>1, <1>7 DEF Visible
    <2>2. OrderHeld(w, o)
      BY <2>1 DEF WorkInv, Knows
    <2>3. /\ live[OrderRow(o)].state # "cancel"
          /\ ~Confirms(call[w], o) /\ ~Finishes(call[w], o)
      BY <1>2, <1>3, <2>1 DEF Owns, Cancels, Confirms, Finishes, Serves, Workflow
    <2>4. \/ live[OrderRow(o)].state = "progress" /\ committed[OrderRow(o)].state = "confirmed"
          \/ live[OrderRow(o)].state = "to_close" /\ committed[OrderRow(o)].state \in {"confirmed", "progress"}
          \/ live[OrderRow(o)].state = "draft" /\ committed[OrderRow(o)].state = "none"
      BY <2>2, <2>3 DEF OrderHeld
    <2>5. committed[OrderRow(o)].state # "none" => live[OrderRow(o)].qty = committed[OrderRow(o)].qty
      BY DEF StockInv, Whole
    <2> QED
      BY <1>5, <2>1, <2>4, <2>5 DEF Active
  <1> QED
    BY <1>6, <1>7

\* What the other requests know stays so.
LEMMA OthersReleased ==
    ASSUME WorkInv, StockInv, NEW w \in Worker, NEW v \in Worker \ {w}, Released(w),
           \A r \in Row : committed'[r] \in {committed[r], Visible(w, r)}
    PROVE  StockKnows(v)'
  <1>1. /\ call'[v] = call[v]
        /\ \A r \in Row : /\ lock'[r] = v <=> lock[r] = v
                          /\ lock[r] = v => live'[r] = live[r] /\ committed'[r] = committed[r]
                          /\ lock[r] # w => committed'[r] = committed[r]
    BY NoTxnAssumption DEF Released, WorkInv, Shape
  <1>2. StockKnows(v)
    BY DEF StockInv
  <1>3. Placed(v)'
    BY <1>1, <1>2 DEF StockKnows, Placed, Moves
  <1>4. ASSUME NEW o \in Order
        PROVE  /\ Owns(v, o)'
               /\ (Confirms(call[v], o) => Confirming(v, o))'
               /\ (Finishes(call[v], o) => Finishing(v, o))'
               /\ (Cancels(call[v], o) => Cancelling(v, o))'
    <2>1. OrderRow(o) \in Row /\ MoveRows(o) \subseteq Row /\ MoveRow(o, makes[o]) \in MoveRows(o)
      BY RowsThere, MoveNames
    <2>2. MoveRows(o)' = MoveRows(o) /\ Components(o)' = Components(o)
      BY DEF MoveRows, RawRows, Components
    <2>3. Owns(v, o)'
      BY <1>1, <1>2, <2>1, <2>2 DEF StockKnows, Owns, Cancels, Serves
    <2>4. CASE ~Serves(call[v], o)
      BY <1>1, <2>3, <2>4 DEF Serves, Confirms, Finishes, Cancels, Workflow
    <2>5. CASE Serves(call[v], o)
      <3>1. \A r \in MoveRows(o) : Visible(v, r)' = Visible(v, r)
        BY <2>5, ServedReleased
      <3>2. \/ committed'[OrderRow(o)].state = committed[OrderRow(o)].state
            \/ committed[OrderRow(o)].state = "none" /\ committed'[OrderRow(o)].state = "draft"
            \/ committed[OrderRow(o)].state \in Active /\ committed'[OrderRow(o)].state \in Active
        BY <2>5, ServedReleased
      <3>3. /\ committed[OrderRow(o)].state = "draft" => committed'[OrderRow(o)].state = "draft"
            /\ committed'[OrderRow(o)].state \in Active <=> committed[OrderRow(o)].state \in Active
        BY <3>2 DEF Active
      <3>4. (Confirms(call[v], o) => Confirming(v, o))'
        BY <1>1, <1>2, <2>1, <2>2, <3>3 DEF StockKnows, Confirming, Confirms
      <3>5. (Finishes(call[v], o) => Finishing(v, o))'
        BY <1>1, <1>2, <2>1, <2>2, <3>1, <3>3 DEF StockKnows, Finishing, Finishes
      <3>6. (Cancels(call[v], o) => Cancelling(v, o))'
        BY <1>1, <1>2, <2>1, <3>3 DEF StockKnows, Cancelling, Cancels
      <3> QED
        BY <2>3, <3>4, <3>5, <3>6
    <2> QED
      BY <2>4, <2>5
  <1>5. (call[v].method = "done" => call[v].order \in Order)'
    BY <1>1, <1>2 DEF StockKnows
  <1>6. \A p \in Product : Delta(v, p)' = Delta(v, p)
    <2>1. CASE call[v].method # "done"
      BY <1>1, <2>1 DEF Delta, Moves
    <2>2. CASE call[v].method = "done"
      <3>1. PICK o : o = call[v].order
        OBVIOUS
      <3>2. o \in Order /\ Serves(call[v], o) /\ Finishes(call[v], o)
        BY <1>2, <2>2, <3>1 DEF StockKnows, Serves, Finishes, Workflow
      <3>3. committed[OrderRow(o)].state # "none"
        BY <1>2, <3>2 DEF StockKnows, Finishing, Active
      <3>4. committed'[OrderRow(o)].qty = committed[OrderRow(o)].qty
        BY <3>2, <3>3, ServedReleased
      <3> QED
        BY <1>1, <2>2, <3>1, <3>4 DEF Delta, Moves, Components
    <2> QED
      BY <2>1, <2>2
  <1>7. ASSUME NEW p \in Product
        PROVE  Visible(v, QuantRow(p))' = committed'[QuantRow(p)] + Delta(v, p)'
    <2>1. QuantRow(p) \in Row
      BY RowsThere
    <2>2. /\ Visible(v, QuantRow(p)) = committed[QuantRow(p)] + Delta(v, p)
          /\ committed[QuantRow(p)] \in Int
      BY <1>2 DEF StockKnows, StockInv, Whole
    <2>3. CASE lock[QuantRow(p)] # w
      BY <1>1, <1>6, <2>1, <2>2, <2>3 DEF Visible
    <2>4. CASE lock[QuantRow(p)] = w
      <3>1. lock[QuantRow(p)] # v /\ lock'[QuantRow(p)] # v
        BY <1>1, <2>1, <2>4
      <3>2. committed[QuantRow(p)] = committed[QuantRow(p)] + Delta(v, p)
        BY <2>2, <3>1 DEF Visible
      <3>3. Delta(v, p) = 0
        <4>1. Delta(v, p) \in Int
          BY DeltaWhole
        <4> QED
          BY <2>2, <3>2, <4>1
      <3>4. committed'[QuantRow(p)] \in Int
        BY <2>1, <2>2, DeltaWhole
      <3> QED
        BY <1>6, <3>1, <3>3, <3>4 DEF Visible
    <2> QED
      BY <2>3, <2>4
  <1> QED
    BY <1>3, <1>4, <1>5, <1>7 DEF StockKnows

\* The end of a request, once the stock adds up and the moves are ready.
LEMMA ReleasedStock ==
    ASSUME WorkInv, StockInv, NEW w \in Worker, Released(w),
           \A r \in Row : committed'[r] \in {committed[r], Visible(w, r)},
           flow' \in [Product -> Int], MovesReady', StockFollowsOrders'
    PROVE  StockInv'
  <1>1. /\ call'[w] = Idle /\ \A v \in Worker \ {w} : call'[v] = call[v]
        /\ \A r \in Row : lock'[r] # w
        /\ \A r \in Row : lock[r] # w => live'[r] = live[r] /\ committed'[r] = committed[r]
        /\ \A r \in Row : lock[r] = w => live'[r] = committed'[r]
    BY NoTxnAssumption DEF Released, WorkInv, Shape
  <1>2. Idle.pc = "idle" /\ Idle.method = ""
    BY IdleOK
  <1>3. Whole'
    <2>1. ASSUME NEW p \in Product
          PROVE  committed'[QuantRow(p)] \in Int
      <3>1. committed[QuantRow(p)] \in Int /\ Visible(w, QuantRow(p)) \in Int
        BY DeltaWhole DEF StockInv, Whole
      <3> QED
        BY <3>1, RowsThere
    <2>2. ASSUME NEW o \in Order
          PROVE  /\ committed'[OrderRow(o)].qty \in Int /\ live'[OrderRow(o)].qty \in Int
                 /\ committed'[OrderRow(o)].state # "none" => live'[OrderRow(o)].qty = committed'[OrderRow(o)].qty
      <3>1. OrderRow(o) \in Row
        BY RowsThere
      <3>2. /\ committed[OrderRow(o)].qty \in Int /\ live[OrderRow(o)].qty \in Int
            /\ committed[OrderRow(o)].state # "none" => live[OrderRow(o)].qty = committed[OrderRow(o)].qty
        BY DEF StockInv, Whole
      <3>3. CASE lock[OrderRow(o)] = w
        <4>1. committed'[OrderRow(o)] \in {committed[OrderRow(o)], live[OrderRow(o)]}
          BY <3>1, <3>3 DEF Visible
        <4> QED
          BY <1>1, <3>1, <3>2, <3>3, <4>1
      <3>4. CASE lock[OrderRow(o)] # w
        BY <1>1, <3>1, <3>2, <3>4
      <3> QED
        BY <3>3, <3>4
    <2> QED
      BY <2>1, <2>2 DEF Whole
  <1>4. OneEach'
    <2>1. \A v \in Worker, o \in Order : Serves(call'[v], o) => v # w /\ Serves(call[v], o)
      BY <1>1, <1>2 DEF Serves, Workflow
    <2> QED
      BY <2>1 DEF StockInv, OneEach, Serves
  <1>5. StockKnows(w)'
    <2>1. Placed(w)'
      BY <1>1, <1>2 DEF Placed, Moves
    <2>2. ASSUME NEW o \in Order
          PROVE  /\ Owns(w, o)'
                 /\ (Confirms(call[w], o) => Confirming(w, o))'
                 /\ (Finishes(call[w], o) => Finishing(w, o))'
                 /\ (Cancels(call[w], o) => Cancelling(w, o))'
      <3>1. OrderRow(o) \in Row /\ MoveRows(o) \subseteq Row /\ MoveRows(o)' = MoveRows(o)
        BY RowsThere, MoveNames DEF MoveRows, RawRows, Components
      <3>2. Owns(w, o)'
        BY <1>1, <3>1 DEF Owns
      <3> QED
        BY <1>1, <1>2, <3>2 DEF Confirms, Finishes, Cancels
    <2>3. ASSUME NEW p \in Product
          PROVE  Visible(w, QuantRow(p))' = committed'[QuantRow(p)] + Delta(w, p)'
      <3>1. Delta(w, p)' = 0
        BY <1>1, <1>2 DEF Delta, Moves
      <3>2. Visible(w, QuantRow(p))' = committed'[QuantRow(p)]
        BY <1>1, RowsThere DEF Visible
      <3>3. committed'[QuantRow(p)] \in Int
        BY <1>3 DEF Whole
      <3> QED
        BY <3>1, <3>2, <3>3
    <2> QED
      BY <1>1, <1>2, <2>1, <2>2, <2>3 DEF StockKnows
  <1>6. \A v \in Worker : StockKnows(v)'
    BY <1>5, OthersReleased
  <1> QED
    BY <1>3, <1>4, <1>6 DEF StockInv

\* A request that fails leaves nothing behind.
LEMMA AbortStock ==
    ASSUME WorkInv, StockInv, NEW w \in Worker, Abort(w)
    PROVE  StockInv'
  <1>1. Released(w) /\ committed' = committed /\ flow' = flow
    BY DEF Abort, RollbackTxn, Released, WorkInv, Shape, history
  <1>2. MovesReady'
    BY <1>1 DEF StockInv, MovesReady, MoveRows, RawRows, Components
  <1>3. StockFollowsOrders'
    <2>1. \A p \in Product : Made(p)' = Made(p) /\ Used(p)' = Used(p)
      BY <1>1 DEF Made, Used, Built
    <2> QED
      BY <1>1, <2>1 DEF StockInv, StockFollowsOrders
  <1>4. flow' \in [Product -> Int]
    BY <1>1 DEF StockInv, Whole
  <1> QED
    BY <1>1, <1>2, <1>3, <1>4, ReleasedStock

\* What COMMIT publishes of an order.
LEMMA Published ==
    ASSUME WorkInv, StockInv, NEW w \in Worker, Commit(w)
    PROVE  /\ Released(w)
           /\ \A r \in Row : committed'[r] = Visible(w, r)
           /\ \A o \in Order : OrderRow(o) \in Row /\ MoveRows(o) \subseteq Row /\ MoveRow(o, makes[o]) \in MoveRows(o)
           /\ \A o \in Order : lock[OrderRow(o)] = w => OrderHeld(w, o) /\ Owns(w, o)
           /\ \A o \in Order : lock[OrderRow(o)] # w => committed'[OrderRow(o)] = committed[OrderRow(o)]
           /\ \A o \in Order : lock[OrderRow(o)] = w => committed'[OrderRow(o)] = live[OrderRow(o)]
  <1>1. /\ committed' = [r \in Row |-> Visible(w, r)]
        /\ live' = live
        /\ lock' = [r \in Row |-> IF lock[r] = w THEN NoTxn ELSE lock[r]]
        /\ call' = [call EXCEPT ![w] = Idle]
    BY DEF Commit, CommitTxn
  <1>2. Released(w)
    BY <1>1 DEF Released, Visible, WorkInv, Shape
  <1>3. \A o \in Order : OrderRow(o) \in Row /\ MoveRows(o) \subseteq Row /\ MoveRow(o, makes[o]) \in MoveRows(o)
    BY RowsThere, MoveNames
  <1>4. \A o \in Order : lock[OrderRow(o)] = w => OrderHeld(w, o) /\ Owns(w, o)
    BY DEF WorkInv, Knows, StockInv, StockKnows
  <1>5. \A o \in Order : committed'[OrderRow(o)] = IF lock[OrderRow(o)] = w THEN live[OrderRow(o)] ELSE committed[OrderRow(o)]
    BY <1>1, <1>3 DEF Visible
  <1> QED
    BY <1>1, <1>2, <1>3, <1>4, <1>5

\* COMMIT leaves every order in production with all its moves to do.
LEMMA CommitMoves ==
    ASSUME WorkInv, StockInv, NEW w \in Worker, Commit(w)
    PROVE  MovesReady'
  <1> SUFFICES ASSUME NEW o \in Order, committed'[OrderRow(o)].state \in Active
               PROVE  \A r \in MoveRows(o) : committed'[r] = "confirmed"
    BY DEF MovesReady, MoveRows, RawRows, Components
  <1>1. \A r \in MoveRows(o) : committed'[r] = Visible(w, r)
    BY Published
  <1>2. StockKnows(w)
    BY DEF StockInv
  <1>3. call[w].pc = "commit"
    BY DEF Commit, At
  <1>4. CASE Confirms(call[w], o)
    BY <1>1, <1>2, <1>3, <1>4 DEF StockKnows, Confirming, Visible
  <1>5. CASE ~Confirms(call[w], o)
    <2>1. committed[OrderRow(o)].state \in Active /\ ~Serves(call[w], o)
      <3>1. CASE lock[OrderRow(o)] = w
        <4>1. OrderHeld(w, o) /\ live[OrderRow(o)].state \in Active
          BY <3>1, Published
        <4>2. /\ committed[OrderRow(o)].state \in {"confirmed", "progress"}
              /\ live[OrderRow(o)].state \in {"progress", "to_close"}
          BY <1>5, <4>1 DEF OrderHeld, Active
        <4>3. ~Finishes(call[w], o)
          BY <1>2, <1>3, <4>2 DEF StockKnows, Finishing
        <4>4. ~Cancels(call[w], o)
          BY <1>2, <1>3, <4>2 DEF StockKnows, Cancelling, Active
        <4> QED
          BY <1>5, <4>2, <4>3, <4>4 DEF Active, Serves, Confirms, Finishes, Cancels, Workflow
      <3>2. CASE lock[OrderRow(o)] # w
        <4>1. committed[OrderRow(o)].state \in Active
          BY <3>2, Published
        <4>2. ~Finishes(call[w], o) /\ ~Cancels(call[w], o)
          BY <1>2, <1>3, <3>2, <4>1 DEF StockKnows, Finishing, Cancelling
        <4> QED
          BY <1>5, <4>1, <4>2 DEF Serves, Confirms, Finishes, Cancels, Workflow
      <3> QED
        BY <3>1, <3>2
    <2>2. \A r \in MoveRows(o) : lock[r] # w /\ committed[r] = "confirmed"
      BY <1>2, <2>1 DEF StockKnows, Owns, StockInv, MovesReady
    <2> QED
      BY <1>1, <2>2 DEF Visible
  <1> QED
    BY <1>4, <1>5

\* What orders have made and used of a product are sums of whole numbers.
LEMMA BuiltWhole ==
    ASSUME Whole, NEW p \in Product
    PROVE  /\ \A o \in Order : Built(o) \in Int
           /\ Made(p) \in [Order -> Int] /\ Used(p) \in [Order -> Int]
           /\ SumFunction(Made(p)) \in Int /\ SumFunction(Used(p)) \in Int
  <1>1. \A o \in Order : Built(o) \in Int
    BY DEF Whole, Built
  <1>2. \A o \in Order : needs[makes[o]][p] \in Int
    BY ProductionAssumption
  <1>3. Made(p) \in [Order -> Int]
    BY <1>1 DEF Made
  <1>4. \A o \in Order : Built(o) * needs[makes[o]][p] \in Int
    BY <1>1, <1>2
  <1>5. Used(p) \in [Order -> Int]
    BY <1>4 DEF Used
  <1>6. IsFiniteSet(Order)
    BY ProductionAssumption
  <1> QED
    BY <1>1, <1>3, <1>5, <1>6, SumFunctionType

\* Nobody but a mark done has an order built by its COMMIT.
LEMMA CommitBuilds ==
    ASSUME WorkInv, StockInv, NEW w \in Worker, Commit(w), NEW o \in Order
    PROVE  IF Finishes(call[w], o)
           THEN Built(o) = 0 /\ Built(o)' = committed[OrderRow(o)].qty
           ELSE Built(o)' = Built(o)
  <1>1. /\ lock[OrderRow(o)] # w => committed'[OrderRow(o)] = committed[OrderRow(o)]
        /\ lock[OrderRow(o)] = w => /\ committed'[OrderRow(o)] = live[OrderRow(o)]
                                    /\ OrderHeld(w, o) /\ Owns(w, o)
    BY Published
  <1>2. CASE Finishes(call[w], o)
    <2>1. Finishing(w, o) /\ call[w].pc = "commit"
      BY <1>2 DEF StockInv, StockKnows, Commit, At
    <2>2. lock[OrderRow(o)] = w /\ live[OrderRow(o)].state = "done" /\ committed[OrderRow(o)].state \in Active
      BY <2>1 DEF Finishing
    <2>3. live[OrderRow(o)].qty = committed[OrderRow(o)].qty
      BY <2>2 DEF StockInv, Whole, Active
    <2> QED
      BY <1>1, <1>2, <2>2, <2>3 DEF Built, Active
  <1>3. CASE ~Finishes(call[w], o)
    <2>1. CASE lock[OrderRow(o)] = w
      <3>1. committed[OrderRow(o)].state # "done" /\ live[OrderRow(o)].state # "done"
        BY <1>1, <1>3, <2>1 DEF Owns, OrderHeld
      <3> QED
        BY <1>1, <1>3, <2>1, <3>1 DEF Built
    <2>2. CASE lock[OrderRow(o)] # w
      BY <1>1, <1>3, <2>2 DEF Built
    <2> QED
      BY <2>1, <2>2
  <1> QED
    BY <1>2, <1>3

\* What an order that is done built is what its mark done moved.
LEMMA FinishedDelta ==
    ASSUME WorkInv, StockInv, NEW w \in Worker, Commit(w), NEW o \in Order, Finishes(call[w], o),
           NEW p \in Product, NEW n, n = committed[OrderRow(o)].qty
    PROVE  Delta(w, p) = (IF makes[o] = p THEN n ELSE 0) - n * needs[makes[o]][p]
  <1>1. Finishing(w, o) /\ call[w].pc = "commit"
    BY DEF StockInv, StockKnows, Commit, At
  <1>2. call[w].method = "done" /\ call[w].order = o /\ call[w].product = makes[o] /\ call[w].todo = {}
    BY <1>1 DEF Finishing, Finishes
  <1>3. n \in Int /\ needs[makes[o]][p] \in Nat /\ needs[makes[o]][makes[o]] = 0 /\ makes[o] \in Product
    BY ProductionAssumption DEF StockInv, Whole
  <1>4. Delta(w, p) = IF p = makes[o] THEN n
                      ELSE IF p \in Components(o) THEN -(n * needs[makes[o]][p]) ELSE 0
    BY <1>2 DEF Delta, Moves
  <1>5. CASE p = makes[o]
    BY <1>3, <1>4, <1>5
  <1>6. CASE p # makes[o]
    <2>1. PICK k : k = needs[makes[o]][p]
      OBVIOUS
    <2>2. Delta(w, p) = IF k > 0 THEN -(n * k) ELSE 0
      BY <1>4, <1>6, <2>1 DEF Components
    <2>3. k \in Nat
      BY <1>3, <2>1
    <2>4. -(n * k) = 0 - n * k /\ (k = 0 => n * k = 0)
      BY <1>3, <2>3
    <2> QED
      BY <1>6, <2>1, <2>2, <2>3, <2>4
  <1> QED
    BY <1>5, <1>6

\* What a request that finishes no order moved is what its transfer brings.
LEMMA TransferDelta ==
    ASSUME StockInv, NEW w \in Worker, Commit(w), call[w].method # "done", NEW p \in Product
    PROVE  flow'[p] = flow[p] + Delta(w, p)
  <1>1. call[w].pc = "commit" /\ Placed(w) /\ flow[p] \in Int
    BY DEF Commit, At, StockInv, StockKnows, Whole
  <1>2. flow'[p] = IF p = call[w].product /\ call[w].method \in {"receive", "deliver"}
                   THEN flow[p] + call[w].out[p].qty ELSE flow[p]
    BY DEF Commit
  <1>3. CASE Moves(call[w])
    <2>1. call[w].out[call[w].product].qty = call[w].qty
      BY <1>1, <1>3 DEF Placed
    <2>2. Delta(w, p) = IF call[w].product = p THEN call[w].qty ELSE 0
      BY <1>3 DEF Delta
    <2> QED
      BY <1>1, <1>2, <1>3, <2>1, <2>2 DEF Moves
  <1>4. CASE ~Moves(call[w])
    <2>1. Delta(w, p) = 0
      BY <1>4 DEF Delta
    <2> QED
      BY <1>1, <1>2, <1>4, <2>1 DEF Moves
  <1> QED
    BY <1>3, <1>4

\* COMMIT publishes what a request has moved together with what it stands for.
LEMMA CommitBalance ==
    ASSUME WorkInv, StockInv, NEW w \in Worker, Commit(w)
    PROVE  StockFollowsOrders'
  <1> SUFFICES ASSUME NEW p \in Product
               PROVE  committed'[QuantRow(p)] = flow'[p] + SumFunction(Made(p)') - SumFunction(Used(p)')
    BY DEF StockFollowsOrders
  <1>1. PICK made, used, newMade, newUsed :
          made = Made(p) /\ used = Used(p) /\ newMade = Made(p)' /\ newUsed = Used(p)'
    OBVIOUS
  <1>2. /\ made \in [Order -> Int] /\ used \in [Order -> Int]
        /\ SumFunction(made) \in Int /\ SumFunction(used) \in Int
        /\ \A o \in Order : Built(o) \in Int
    BY <1>1, BuiltWhole DEF StockInv
  <1>3. committed[QuantRow(p)] = flow[p] + SumFunction(made) - SumFunction(used)
    BY <1>1 DEF StockInv, StockFollowsOrders
  <1>4. committed'[QuantRow(p)] = committed[QuantRow(p)] + Delta(w, p)
    <2>1. QuantRow(p) \in Row
      BY RowsThere
    <2>2. committed'[QuantRow(p)] = Visible(w, QuantRow(p))
      BY <2>1, Published
    <2> QED
      BY <2>2 DEF StockInv, StockKnows
  <1>5. /\ committed[QuantRow(p)] \in Int /\ flow[p] \in Int /\ Delta(w, p) \in Int
    BY DeltaWhole DEF StockInv, Whole
  <1>6. \A o \in Order : Built(o)' \in Int
    BY <1>2, CommitBuilds DEF StockInv, Whole
  <1>7. \A o \in Order : needs[makes[o]][p] \in Int
    BY ProductionAssumption
  <1>8. /\ \A o \in Order : /\ made[o] = IF makes[o] = p THEN Built(o) ELSE 0
                            /\ newMade[o] = IF makes[o] = p THEN Built(o)' ELSE 0
                            /\ used[o] = Built(o) * needs[makes[o]][p]
                            /\ newUsed[o] = Built(o)' * needs[makes[o]][p]
        /\ newMade = [o \in Order |-> newMade[o]] /\ newUsed = [o \in Order |-> newUsed[o]]
    BY <1>1 DEF Made, Used
  <1>9. newMade \in [Order -> Int] /\ newUsed \in [Order -> Int]
    <2>1. \A o \in Order : newMade[o] \in Int /\ newUsed[o] \in Int
      BY <1>6, <1>7, <1>8
    <2> QED
      BY <1>8, <2>1
  <1>10. IsFiniteSet(Order)
    BY ProductionAssumption
  <1>11. CASE call[w].method = "done"
    <2>1. PICK o : o = call[w].order /\ o \in Order
      BY <1>11 DEF StockInv, StockKnows
    <2>2. PICK n, k : n = committed[OrderRow(o)].qty /\ k = needs[makes[o]][p]
      OBVIOUS
    <2>3. n \in Int /\ k \in Int
      BY <1>7, <2>1, <2>2 DEF StockInv, Whole
    <2>4. \A q \in Order : Finishes(call[w], q) <=> q = o
      BY <1>11, <2>1 DEF Finishes
    <2>5. Built(o) = 0 /\ Built(o)' = n /\ \A q \in Order : q # o => Built(q)' = Built(q)
      BY <2>1, <2>2, <2>4, CommitBuilds
    <2>6. SumFunction(newMade) = SumFunction(made) + newMade[o] - made[o]
      <3>1. \A q \in Order : q # o => newMade[q] = made[q]
        BY <1>8, <2>5
      <3> QED
        BY <1>2, <1>9, <1>10, <2>1, <3>1, SumFunctionUpdate
    <2>7. SumFunction(newUsed) = SumFunction(used) + newUsed[o] - used[o]
      <3>1. \A q \in Order : q # o => newUsed[q] = used[q]
        BY <1>8, <2>5
      <3> QED
        BY <1>2, <1>9, <1>10, <2>1, <3>1, SumFunctionUpdate
    <2>8. /\ newMade[o] = (IF makes[o] = p THEN n ELSE 0) /\ made[o] = 0
          /\ newUsed[o] = n * k /\ used[o] = 0
      BY <1>8, <2>1, <2>2, <2>3, <2>5
    <2>9. Delta(w, p) = (IF makes[o] = p THEN n ELSE 0) - n * k
      BY <2>1, <2>2, <2>4, FinishedDelta
    <2>10. flow'[p] = flow[p]
      BY <1>11 DEF Commit
    <2>11. n * k \in Int
      BY <2>3
    <2> QED
      BY <1>1, <1>2, <1>3, <1>4, <1>5, <2>3, <2>6, <2>7, <2>8, <2>9, <2>10, <2>11
  <1>12. CASE call[w].method # "done"
    <2>1. \A o \in Order : Built(o)' = Built(o)
      BY <1>12, CommitBuilds DEF Finishes
    <2>2. newMade = made /\ newUsed = used
      BY <1>2, <1>8, <2>1
    <2>3. flow'[p] = flow[p] + Delta(w, p)
      BY <1>12, TransferDelta
    <2> QED
      BY <1>1, <1>2, <1>3, <1>4, <1>5, <2>2, <2>3
  <1> QED
    BY <1>11, <1>12

\* COMMIT.
LEMMA CommitStock ==
    ASSUME WorkInv, StockInv, NEW w \in Worker, Commit(w)
    PROVE  StockInv'
  <1>1. Released(w) /\ \A r \in Row : committed'[r] \in {committed[r], Visible(w, r)}
    BY Published
  <1>2. flow' \in [Product -> Int]
    <2>1. flow' = [p \in Product |-> flow'[p]]
      BY DEF Commit
    <2>2. ASSUME NEW p \in Product
          PROVE  flow'[p] \in Int
      <3>1. CASE call[w].method = "done"
        BY <3>1 DEF Commit, StockInv, Whole
      <3>2. CASE call[w].method # "done"
        <4>1. flow'[p] = flow[p] + Delta(w, p)
          BY <3>2, TransferDelta
        <4>2. flow[p] \in Int /\ Delta(w, p) \in Int
          BY DeltaWhole DEF StockInv, Whole
        <4> QED
          BY <4>1, <4>2
      <3> QED
        BY <3>1, <3>2
    <2> QED
      BY <2>1, <2>2
  <1> QED
    BY <1>1, <1>2, CommitMoves, CommitBalance, ReleasedStock

\* A new order has built nothing, and nobody knows of it.
LEMMA PlanStock ==
    ASSUME WorkInv, StockInv, NEW w \in Worker, NEW o \in Order, NEW n \in Batch, Plan(w, o, n)
    PROVE  StockInv'
  <1>1. PICK row : row = [state |-> "draft", qty |-> n]
    OBVIOUS
  <1>2. /\ committed' = [committed EXCEPT ![OrderRow(o)] = row]
        /\ live' = [live EXCEPT ![OrderRow(o)] = row]
        /\ lock' = lock /\ call' = call /\ flow' = flow
        /\ lock[OrderRow(o)] = NoTxn /\ live[OrderRow(o)].state = "none"
    BY <1>1 DEF Plan, history
  <1>3. OrderRow(o) \in Row /\ committed[OrderRow(o)].state = "none"
    BY <1>2, RowsThere DEF WorkInv, Unlocked
  <1>4. committed'[OrderRow(o)] = row /\ live'[OrderRow(o)] = row
    BY <1>2, <1>3 DEF WorkInv, Shape
  <1>5. \A r \in Row : r # OrderRow(o) => committed'[r] = committed[r] /\ live'[r] = live[r]
    BY <1>2 DEF WorkInv, Shape
  <1>6. row.state = "draft" /\ row.qty = n /\ n \in Int
    BY <1>1, ProductionAssumption
  <1>7. /\ \A q \in Order : OrderRow(q) \in Row /\ MoveRows(q) \subseteq Row /\ MoveRow(q, makes[q]) \in MoveRows(q)
        /\ \A p \in Product : QuantRow(p) \in Row /\ QuantRow(p) # OrderRow(o)
        /\ \A q \in Order : \A r \in MoveRows(q) : r # OrderRow(o)
    BY RowsThere, RowNames, MoveNames
  <1>8. /\ \A q \in Order : q # o => /\ committed'[OrderRow(q)] = committed[OrderRow(q)]
                                     /\ live'[OrderRow(q)] = live[OrderRow(q)]
        /\ \A q \in Order : \A r \in MoveRows(q) : committed'[r] = committed[r] /\ live'[r] = live[r]
        /\ \A p \in Product : committed'[QuantRow(p)] = committed[QuantRow(p)] /\ live'[QuantRow(p)] = live[QuantRow(p)]
    BY <1>5, <1>7, RowNames
  <1>9. Whole'
    BY <1>2, <1>4, <1>6, <1>8 DEF StockInv, Whole
  <1>10. OneEach'
    BY <1>2 DEF StockInv, OneEach, Serves
  <1>11. MovesReady'
    <2>1. "draft" \notin Active
      BY DEF Active
    <2> QED
      BY <1>4, <1>6, <1>8, <2>1 DEF StockInv, MovesReady, MoveRows, RawRows, Components
  <1>12. StockFollowsOrders'
    <2>1. \A q \in Order : Built(q)' = Built(q)
      BY <1>3, <1>4, <1>6, <1>8 DEF Built
    <2>2. \A p \in Product : Made(p)' = Made(p) /\ Used(p)' = Used(p)
      BY <2>1 DEF Made, Used
    <2> QED
      BY <1>2, <1>8, <2>2 DEF StockInv, StockFollowsOrders
  <1>13. ASSUME NEW v \in Worker
         PROVE  StockKnows(v)'
    <2>1. StockKnows(v) /\ call'[v] = call[v]
      BY <1>2 DEF StockInv
    <2>2. Placed(v)'
      BY <2>1 DEF StockKnows, Placed, Moves
    <2>3. ASSUME NEW q \in Order
          PROVE  /\ Owns(v, q)'
                 /\ (Confirms(call[v], q) => Confirming(v, q))'
                 /\ (Finishes(call[v], q) => Finishing(v, q))'
                 /\ (Cancels(call[v], q) => Cancelling(v, q))'
      <3>1. MoveRows(q)' = MoveRows(q) /\ Components(q)' = Components(q)
        BY DEF MoveRows, RawRows, Components
      <3>2. lock[OrderRow(q)] = v => q # o
        BY <1>2, NoTxnAssumption
      <3>3. Owns(v, q)'
        BY <1>2, <1>8, <2>1, <3>1, <3>2 DEF StockKnows, Owns, Cancels, Serves
      <3>4. Visible(v, MoveRow(q, makes[q]))' = Visible(v, MoveRow(q, makes[q]))
        BY <1>2, <1>7, <1>8 DEF Visible
      <3>5. CASE q # o
        <4>1. (Confirms(call[v], q) => Confirming(v, q))'
          BY <1>2, <1>8, <2>1, <3>1, <3>5 DEF StockKnows, Confirming, Confirms
        <4>2. (Finishes(call[v], q) => Finishing(v, q))'
          BY <1>2, <1>8, <2>1, <3>1, <3>4, <3>5 DEF StockKnows, Finishing, Finishes
        <4>3. (Cancels(call[v], q) => Cancelling(v, q))'
          BY <1>2, <1>8, <2>1, <3>5 DEF StockKnows, Cancelling, Cancels
        <4> QED
          BY <3>3, <4>1, <4>2, <4>3
      <3>6. CASE q = o
        <4>1. ~Confirms(call[v], q) /\ ~Finishes(call[v], q)
          BY <1>3, <2>1, <3>6 DEF StockKnows, Confirming, Finishing, Active
        <4>2. Cancelling(v, q)'
          BY <1>4, <1>6, <3>6 DEF Cancelling, Active
        <4> QED
          BY <2>1, <3>3, <4>1, <4>2 DEF Confirms, Finishes
      <3> QED
        BY <3>5, <3>6
    <2>4. \A p \in Product : Delta(v, p)' = Delta(v, p)
      <3>1. call[v].method = "done" => call[v].order \in Order /\ call[v].order # o
        BY <1>3, <2>1 DEF StockKnows, Finishing, Finishes, Active
      <3> QED
        BY <1>8, <2>1, <3>1 DEF Delta, Moves, Components
    <2>5. \A p \in Product : Visible(v, QuantRow(p))' = committed'[QuantRow(p)] + Delta(v, p)'
      BY <1>2, <1>7, <1>8, <2>1, <2>4 DEF StockKnows, Visible
    <2> QED
      BY <2>1, <2>2, <2>3, <2>5 DEF StockKnows
  <1> QED
    BY <1>9, <1>10, <1>11, <1>12, <1>13 DEF StockInv

\* At the start there are no orders and there is no stock.
LEMMA InitStock ==
    ASSUME Init
    PROVE  StockInv
  <1>1. \A w \in Worker : call[w] = Idle
    BY DEF Init
  <1>2. \A p \in Product : committed[QuantRow(p)] = 0 /\ flow[p] = 0
    BY RowsThere DEF Init, QuantRow
  <1>3. \A o \in Order : committed[OrderRow(o)] = NoOrderRow /\ live[OrderRow(o)] = NoOrderRow
    BY RowsThere DEF Init, OrderRow
  <1>4. \A r \in Row : lock[r] = NoTxn
    BY DEF Init
  <1>5. NoOrderRow.state = "none" /\ NoOrderRow.qty = 0
    BY DEF NoOrderRow
  <1>6. /\ Idle.method = "" /\ Idle.pc = "idle"
    BY IdleOK
  <1>7. Whole
    <2>1. flow \in [Product -> Int]
      BY DEF Init
    <2>2. \A o \in Order : committed[OrderRow(o)].qty \in Int /\ live[OrderRow(o)].qty \in Int
      BY <1>3, <1>5
    <2>3. \A o \in Order : committed[OrderRow(o)].state = "none"
      BY <1>3, <1>5
    <2> QED
      BY <1>2, <2>1, <2>2, <2>3 DEF Whole
  <1>8. OneEach
    BY <1>1, <1>6 DEF OneEach, Serves, Workflow
  <1>9. MovesReady
    BY <1>3, <1>5 DEF MovesReady, Active
  <1>10. StockFollowsOrders
    <2> SUFFICES ASSUME NEW p \in Product
                 PROVE  committed[QuantRow(p)] = flow[p] + SumFunction(Made(p)) - SumFunction(Used(p))
      BY DEF StockFollowsOrders
    <2>1. \A o \in Order : Built(o) = 0
      BY <1>3, <1>5 DEF Built
    <2>2. Made(p) \in [Order -> Int] /\ Used(p) \in [Order -> Int]
      BY <1>7, BuiltWhole
    <2>3. \A o \in Order : Made(p)[o] = 0 /\ Used(p)[o] = 0
      BY <2>1, ProductionAssumption DEF Made, Used
    <2>4. SumFunction(Made(p)) = 0 /\ SumFunction(Used(p)) = 0
      BY <2>2, <2>3, ProductionAssumption, SumFunctionZero
    <2> QED
      BY <1>2, <2>4
  <1>11. ASSUME NEW w \in Worker
         PROVE  StockKnows(w)
    <2>1. call[w].method = "" /\ call[w].pc = "idle"
      BY <1>1, <1>6
    <2>2. Placed(w)
      BY <2>1 DEF Placed, Moves
    <2>3. \A o \in Order : Owns(w, o)
      BY <1>4, RowsThere, MoveNames, NoTxnAssumption DEF Owns
    <2>4. \A o \in Order : ~Confirms(call[w], o) /\ ~Finishes(call[w], o) /\ ~Cancels(call[w], o)
      BY <2>1 DEF Confirms, Finishes, Cancels
    <2>5. \A p \in Product : Delta(w, p) = 0
      BY <2>1 DEF Delta, Moves
    <2>6. \A p \in Product : Visible(w, QuantRow(p)) = committed[QuantRow(p)] + Delta(w, p)
      BY <1>2, <1>4, <2>5, RowsThere, NoTxnAssumption DEF Visible
    <2> QED
      BY <2>1, <2>2, <2>3, <2>4, <2>6 DEF StockKnows
  <1> QED
    BY <1>7, <1>8, <1>9, <1>10, <1>11 DEF StockInv

\* Every step keeps what is known of stock.
LEMMA NextStock ==
    ASSUME WorkInv, StockInv, OneRequestPerOrder, Next
    PROVE  StockInv'
  <1>1. ASSUME NEW w \in Worker, Moving(w)
        PROVE  StockInv'
    BY <1>1, RefreshStock, TakeStock, WriteCachesStock DEF Moving
  <1>2. ASSUME NEW w \in Worker, Documents(w)
        PROVE  StockInv'
    BY <1>2, TransferStock, ReadingStock, RowStock DEF Documents
  <1>3. ASSUME NEW w \in Worker, Producing(w)
        PROVE  StockInv'
    BY <1>3, ConfirmStock, MarkDoneStock, StatesStock, ExplodeStock, RowStock, SetStateStock, ConsumeStock,
       ProduceStock, MoveDoneStock, OrderStepStock DEF Producing
  <1>4. ASSUME NEW w \in Worker, Working(w)
        PROVE  StockInv'
    BY <1>4, StatesStock, OrderStepStock DEF Working
  <1>5. ASSUME NEW w \in Worker, Reordering(w)
        PROVE  StockInv'
    BY <1>5, ReplenishStock, ReadingStock DEF Reordering
  <1>6. ASSUME NEW w \in Worker, Commit(w) \/ Abort(w)
        PROVE  StockInv'
    BY <1>6, CommitStock, AbortStock
  <1>7. ASSUME NEW w \in Worker, NEW o \in Order, NEW n \in Batch, Plan(w, o, n)
        PROVE  StockInv'
    BY <1>7, PlanStock
  <1> QED
    BY <1>1, <1>2, <1>3, <1>4, <1>5, <1>6, <1>7 DEF Next

\* A step of something else leaves it alone.
LEMMA StutterStock ==
    ASSUME StockInv, UNCHANGED vars
    PROVE  StockInv'
  <1>1. committed' = committed /\ live' = live /\ lock' = lock /\ call' = call /\ flow' = flow
    BY DEF vars, dbVars, history
  <1>2. Whole' /\ OneEach' /\ MovesReady'
    BY <1>1 DEF StockInv, Whole, OneEach, MovesReady, Serves, MoveRows, RawRows, Components
  <1>3. StockFollowsOrders'
    <2>1. \A p \in Product : Made(p)' = Made(p) /\ Used(p)' = Used(p)
      BY <1>1 DEF Made, Used, Built
    <2> QED
      BY <1>1, <2>1 DEF StockInv, StockFollowsOrders
  <1>4. ASSUME NEW w \in Worker
        PROVE  StockKnows(w)'
    <2>1. StockKnows(w)
      BY DEF StockInv
    <2>2. Placed(w)'
      BY <1>1, <2>1 DEF StockKnows, Placed, Moves
    <2>3. ASSUME NEW o \in Order
          PROVE  /\ Owns(w, o)'
                 /\ (Confirms(call[w], o) => Confirming(w, o))'
                 /\ (Finishes(call[w], o) => Finishing(w, o))'
                 /\ (Cancels(call[w], o) => Cancelling(w, o))'
      BY <1>1, <2>1 DEF StockKnows, Owns, Confirms, Confirming, Finishes, Finishing, Cancels, Cancelling,
         Serves, Visible, MoveRows, RawRows, Components
    <2>4. \A p \in Product : Visible(w, QuantRow(p))' = committed'[QuantRow(p)] + Delta(w, p)'
      BY <1>1, <2>1 DEF StockKnows, Delta, Moves, Visible, Components
    <2> QED
      BY <1>1, <2>1, <2>2, <2>3, <2>4 DEF StockKnows
  <1> QED
    BY <1>2, <1>3, <1>4 DEF StockInv

\* "Stock only changes when the order is done": what WH/Stock holds of a product
\* is what receipts and deliveries moved, what done orders made of it and what
\* they used, each once.  Of callers it is assumed that the confirm, the mark
\* done and the cancel of one order never run at once; everything else may, and
\* may fail or stop between any two statements.
THEOREM StockFollowsDoneOrders ==
    ASSUME OneRequestPerOrder
    PROVE  Spec => []StockFollowsOrders
  <1>1. Init => WorkInv /\ StockInv
    BY InitWork, InitStock
  <1>2. (WorkInv /\ StockInv) /\ [Next]_vars => (WorkInv /\ StockInv)'
    BY NextWork, StutterWork, NextStock, StutterStock
  <1>3. WorkInv /\ StockInv => StockFollowsOrders
    BY DEF StockInv
  <1> QED
    BY <1>1, <1>2, <1>3, PTL DEF Spec
=============================================================================
