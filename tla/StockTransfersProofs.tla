------------------------ MODULE StockTransfersProofs ------------------------
(***************************************************************************)
(* Proofs about StockTransfers, for any products, locations, transfers,    *)
(* moves, orders and workers.                                              *)
(***************************************************************************)
EXTENDS StockTransfers, SumTheorems

-----------------------------------------------------------------------------
(* The rows, the transactions that write them and the types *)

\* The rows of the tables exist, and rows of different keys are different.
LEMMA RowsIn ==
    /\ \A p \in Product, l \in Location : QuantRow(p, l) \in Row
    /\ \A p \in Product : ProductRow(p) \in Row
    /\ \A m \in Move : MoveRow(m) \in Row
    /\ \A k \in Picking : PickingRow(k) \in Row
    /\ \A o \in Order, p \in Product : LineRow(o, p) \in Row
    /\ \A o \in Order : OrderRow(o) \in Row
  BY TransferAssumption DEF TransferRows

\* Rows of different tables, or of different keys, are different.
LEMMA RowsApart ==
    /\ \A p, l, q, k : QuantRow(p, l) = QuantRow(q, k) => p = q /\ l = k
    /\ \A m, n : MoveRow(m) = MoveRow(n) => m = n
    /\ \A k, j : PickingRow(k) = PickingRow(j) => k = j
    /\ \A o, p, n, q : LineRow(o, p) = LineRow(n, q) => o = n /\ p = q
    /\ \A p, l, m : QuantRow(p, l) # MoveRow(m)
    /\ \A p, l, k : QuantRow(p, l) # PickingRow(k)
    /\ \A p, l, q : QuantRow(p, l) # ProductRow(q)
    /\ \A p, l, o, q : QuantRow(p, l) # LineRow(o, q)
    /\ \A p, l, o : QuantRow(p, l) # OrderRow(o)
    /\ \A m, k : MoveRow(m) # PickingRow(k)
    /\ \A m, p : MoveRow(m) # ProductRow(p)
    /\ \A m, o, p : MoveRow(m) # LineRow(o, p)
    /\ \A m, o : MoveRow(m) # OrderRow(o)
    /\ \A k, p : PickingRow(k) # ProductRow(p)
    /\ \A k, o, p : PickingRow(k) # LineRow(o, p)
    /\ \A k, o : PickingRow(k) # OrderRow(o)
    /\ \A o, p, q : LineRow(o, p) # ProductRow(q)
    /\ \A o, p, n : LineRow(o, p) # OrderRow(n)
  BY DEF QuantRow, MoveRow, PickingRow, LineRow, ProductRow, OrderRow

MoveStates == {"absent", "draft", "confirmed", "partially_available", "assigned",
               "done", "cancel"}
PickingStates == {"draft", "confirmed", "partially_available", "assigned", "done", "cancel"}

QuantVersion == [qty : Int, res : Int]
MoveVersion == [state : MoveStates, reserved : Nat, dest : Location, quantity : Nat]

\* The rows the properties are about, in a version of the tables.
VersionOK(x) ==
    /\ \A p \in Product, l \in Location : x[QuantRow(p, l)] \in QuantVersion
    /\ \A m \in Move : x[MoveRow(m)] \in MoveVersion
    /\ \A k \in Picking : x[PickingRow(k)] \in [state : PickingStates]
    /\ \A o \in Order, p \in Product : x[LineRow(o, p)] \in [delivered : Int]

\* A transfer of a move, and the one of an inventory count.
Transfer(M) == [move : M, prod : Product, src : Location, dest : Location,
                qty : Nat, reserved : Nat]

Applying == {"out", "in", "refresh", "refreshed"}
OfMove   == {"reserve", "reserved", "putaway", "release", "moved"}
Billing  == {"bill", "status"}
OfPicking ==
    OfMove \cup Billing \cup
    {"confirm", "confirm_moves", "assign", "load", "validate", "backflush_select",
     "backflush", "cancel", "cancel_moves", "unreserve", "unreserve_picking", "reset",
     "reset_moves"}

TxnShape == [pc : OfPicking \cup Applying \cup {"idle", "commit"},
             pick : Picking \cup {NoPicking},
             todo : SUBSET Transfer(Move),
             cur : Transfer(Move \cup {NoMove}) \cup {NoTransfer},
             qty : Int,
             full : BOOLEAN]

TxnOK(t) ==
    /\ t \in TxnShape
    /\ t.pc \in OfPicking => t.pick \in Picking
    /\ t.pc \in OfMove => t.cur \in Transfer(Move)
    /\ t.pc \in Billing => order[t.pick] \in Order
    /\ t.pc = "reserve" => t.qty \in Nat
    /\ t.pc \in Applying =>
          /\ t.cur \in Transfer(Move \cup {NoMove})
          /\ t.cur.move \in Move => t.pick \in Picking

\* A row that nobody has locked has no uncommitted version.
LocksOK == \A r \in Row : lock[r] \in Worker \cup {NoTxn} /\ (lock[r] = NoTxn => live[r] = committed[r])

DbTyped == VersionOK(committed) /\ VersionOK(live) /\ LocksOK

TypeInv ==
    /\ DbTyped
    /\ txn \in [Worker -> TxnShape]
    /\ \A w \in Worker : TxnOK(txn[w])

-----------------------------------------------------------------------------
(* What a statement, a commit and a rollback do to the rows *)

\* A statement sets and locks the rows it touches, if they are free, and leaves
\* the others alone.
LEMMA WriteEffect ==
    ASSUME NEW w, NEW new, Write(w, new)
    PROVE  /\ committed' = committed
           /\ \A r \in Row : r \in DOMAIN new =>
                 Free(w, r) /\ live'[r] = new[r] /\ lock'[r] = w
           /\ \A r \in Row : r \notin DOMAIN new =>
                 live'[r] = live[r] /\ lock'[r] = lock[r]
  BY DEF Write

\* What a transaction sees of a row it can write is the newest version.
LEMMA VisibleIsLive ==
    ASSUME LocksOK, NEW w, NEW r \in Row, Free(w, r)
    PROVE  Visible(w, r) = live[r]
  BY DEF LocksOK, Free, Visible

\* A row seen is a row.
LEMMA VisibleTyped ==
    ASSUME TypeInv, NEW w
    PROVE  /\ \A p \in Product, l \in Location : Visible(w, QuantRow(p, l)) \in QuantVersion
           /\ \A m \in Move : Visible(w, MoveRow(m)) \in MoveVersion
           /\ \A k \in Picking : Visible(w, PickingRow(k)) \in [state : PickingStates]
           /\ \A o \in Order, p \in Product : Visible(w, LineRow(o, p)) \in [delivered : Int]
  BY DEF TypeInv, DbTyped, VersionOK, Visible

\* The steps of a worker that write its rows keep the rows typed.
RowsTyped(new) ==
    /\ DOMAIN new \subseteq Row
    /\ \A p \in Product, l \in Location :
          QuantRow(p, l) \in DOMAIN new => new[QuantRow(p, l)] \in QuantVersion
    /\ \A m \in Move : MoveRow(m) \in DOMAIN new => new[MoveRow(m)] \in MoveVersion
    /\ \A k \in Picking :
          PickingRow(k) \in DOMAIN new => new[PickingRow(k)] \in [state : PickingStates]
    /\ \A o \in Order, p \in Product :
          LineRow(o, p) \in DOMAIN new => new[LineRow(o, p)] \in [delivered : Int]

\* A statement, a COMMIT and a ROLLBACK keep the tables well typed.
LEMMA WriteKeepsTypes ==
    ASSUME DbTyped, NEW w \in Worker, NEW new, RowsTyped(new), Write(w, new)
    PROVE  DbTyped'
 <1>1. \A r \in Row : live'[r] = IF r \in DOMAIN new THEN new[r] ELSE live[r]
   BY WriteEffect
 <1>2. committed' = committed
   BY WriteEffect
 <1>3. LocksOK'
   BY WriteEffect, NoTxnAssumption DEF DbTyped, LocksOK
 <1>4. VersionOK(committed)'
   BY <1>2 DEF DbTyped, VersionOK
 <1>5. VersionOK(live)'
   BY <1>1, RowsIn DEF DbTyped, VersionOK, RowsTyped
 <1> QED
   BY <1>3, <1>4, <1>5 DEF DbTyped

LEMMA CommitKeepsTypes ==
    ASSUME DbTyped, NEW w \in Worker, CommitTxn(w)
    PROVE  DbTyped'
 <1>1. \A r \in Row : committed'[r] = (IF lock[r] = w THEN live[r] ELSE committed[r])
   BY DEF CommitTxn, Visible
 <1>2. LocksOK'
   BY <1>1, NoTxnAssumption DEF DbTyped, LocksOK, CommitTxn
 <1>3. VersionOK(live)'
   BY DEF DbTyped, VersionOK, CommitTxn
 <1>4. VersionOK(committed)'
   BY <1>1, RowsIn DEF DbTyped, VersionOK
 <1> QED
   BY <1>2, <1>3, <1>4 DEF DbTyped

LEMMA RollbackKeepsTypes ==
    ASSUME DbTyped, NEW w \in Worker, RollbackTxn(w)
    PROVE  DbTyped'
 <1>1. \A r \in Row : live'[r] = (IF lock[r] = w THEN committed[r] ELSE live[r])
   BY DEF RollbackTxn
 <1>2. LocksOK'
   BY <1>1, NoTxnAssumption DEF DbTyped, LocksOK, RollbackTxn
 <1>3. VersionOK(committed)'
   BY DEF DbTyped, VersionOK, RollbackTxn
 <1>4. VersionOK(live)'
   BY <1>1, RowsIn DEF DbTyped, VersionOK
 <1> QED
   BY <1>2, <1>3, <1>4 DEF DbTyped

\* A step that sets one transaction's place.
LEMMA SetTxn ==
    ASSUME txn \in [Worker -> TxnShape], NEW w \in Worker, NEW t, txn' = [txn EXCEPT ![w] = t]
    PROVE  txn'[w] = t /\ \A v \in Worker : v # w => txn'[v] = txn[v]
  OBVIOUS

LEMMA SetTxnKeepsTypes ==
    ASSUME txn \in [Worker -> TxnShape], \A v \in Worker : TxnOK(txn[v]),
           NEW w \in Worker, NEW t, TxnOK(t), txn' = [txn EXCEPT ![w] = t]
    PROVE  txn' \in [Worker -> TxnShape] /\ \A v \in Worker : TxnOK(txn'[v])
  BY SetTxn DEF TxnOK

-----------------------------------------------------------------------------
(* What the steps do to the transaction that takes them *)

\* A record that differs from a transaction's in some fields, all typed.
LEMMA TxnShaped ==
    ASSUME NEW c \in TxnShape, NEW d, d = [x \in DOMAIN c |-> d[x]],
           d.pc \in OfPicking \cup Applying \cup {"idle", "commit"},
           d.pick \in Picking \cup {NoPicking},
           d.todo \in SUBSET Transfer(Move),
           d.cur \in Transfer(Move \cup {NoMove}) \cup {NoTransfer},
           d.qty \in Int,
           d.full \in BOOLEAN
    PROVE  d \in TxnShape
  BY DEF TxnShape

OthersStay(w) == \A v \in Worker : v # w => txn'[v] = txn[v]

\* Goto changes the program counter and nothing else.
LEMMA GotoEffect ==
    ASSUME txn \in [Worker -> TxnShape], NEW w \in Worker, NEW pc, Goto(w, pc)
    PROVE  /\ txn' = [txn EXCEPT ![w] = [txn[w] EXCEPT !.pc = pc]]
           /\ txn'[w].pc = pc
           /\ txn'[w].pick = txn[w].pick /\ txn'[w].todo = txn[w].todo
           /\ txn'[w].cur = txn[w].cur /\ txn'[w].qty = txn[w].qty
           /\ txn'[w].full = txn[w].full
           /\ OthersStay(w)
 <1>1. txn' = [txn EXCEPT ![w] = [txn[w] EXCEPT !.pc = pc]]
   BY DEF Goto
 <1>2. PICK c : c = txn[w]
   OBVIOUS
 <1>3. PICK d : d = txn'[w]
   OBVIOUS
 <1>4. d = [c EXCEPT !.pc = pc] /\ c \in TxnShape
   BY <1>1, <1>2, <1>3
 <1>5. /\ d.pc = pc /\ d.pick = c.pick /\ d.todo = c.todo /\ d.cur = c.cur
       /\ d.qty = c.qty /\ d.full = c.full
   BY <1>4 DEF TxnShape
 <1> QED
   BY <1>1, <1>2, <1>3, <1>5 DEF OthersStay

\* A step that only moves a request on keeps its record typed.
LEMMA GotoTyped ==
    ASSUME TypeInv, NEW w \in Worker, NEW pc \in OfPicking \cup Applying \cup {"idle", "commit"},
           Goto(w, pc),
           pc \in OfPicking => txn[w].pick \in Picking,
           pc \in OfMove => txn[w].cur \in Transfer(Move),
           pc \in Billing => order[txn[w].pick] \in Order,
           pc = "reserve" => txn[w].qty \in Nat,
           pc \in Applying => /\ txn[w].cur \in Transfer(Move \cup {NoMove})
                              /\ txn[w].cur.move \in Move => txn[w].pick \in Picking
    PROVE  txn' \in [Worker -> TxnShape] /\ \A v \in Worker : TxnOK(txn'[v])
 <1>1. PICK c : c = txn[w]
   OBVIOUS
 <1>2. PICK d : d = [c EXCEPT !.pc = pc]
   OBVIOUS
 <1>3. txn' = [txn EXCEPT ![w] = d] /\ c \in TxnShape
   BY <1>1, <1>2, GotoEffect DEF TypeInv
 <1>4. d \in TxnShape /\ d.pc = pc /\ d.pick = c.pick /\ d.cur = c.cur /\ d.qty = c.qty
   BY <1>2, <1>3 DEF TxnShape
 <1>5. TxnOK(d)
   BY <1>1, <1>4 DEF TxnOK
 <1> QED
   BY <1>3, <1>5, SetTxnKeepsTypes DEF TypeInv

\* A new request has nothing but its transfer and its moves.
LEMMA BeginEffect ==
    ASSUME txn \in [Worker -> TxnShape], NEW w \in Worker, NEW k \in Picking,
           NEW pc \in OfPicking \ (OfMove \cup Billing), NEW todo \in SUBSET Transfer(Move), Begin(w, k, pc, todo)
    PROVE  /\ \E t : /\ TxnOK(t) /\ txn' = [txn EXCEPT ![w] = t]
           /\ txn[w].pc = "idle" /\ txn[w].pick = NoPicking
           /\ txn'[w].pc = pc /\ txn'[w].pick = k /\ txn'[w].todo = todo
           /\ txn'[w].full = (todo # {})
           /\ OthersStay(w) /\ UNCHANGED dbVars
           /\ OneRequestPerPicking => \A v \in Worker : txn[v].pick # k
 <1>1. PICK b \in BOOLEAN : b = (todo # {})
   OBVIOUS
 <1> DEFINE t == [Idle EXCEPT !.pc = pc, !.pick = k, !.todo = todo, !.full = b]
 <1>2. txn[w] = Idle /\ txn' = [txn EXCEPT ![w] = t] /\ UNCHANGED dbVars
   BY <1>1 DEF Begin
 <1>3. /\ t.pc = pc /\ t.pick = k /\ t.todo = todo /\ t.full = b
       /\ t \in TxnShape
  <2>1. PICK c : c = Idle
    OBVIOUS
  <2>2. c \in TxnShape
    BY <2>1 DEF Idle, TxnShape
  <2>3. t = [c EXCEPT !.pc = pc, !.pick = k, !.todo = todo, !.full = b]
    BY <2>1
  <2> HIDE DEF t
  <2> QED
    BY <2>2, <2>3 DEF TxnShape
 <1>4. TxnOK(t)
   BY <1>3 DEF TxnOK, OfPicking, OfMove, Billing, Applying
 <1>5. OneRequestPerPicking => \A v \in Worker : txn[v].pick # k
   BY TransferAssumption DEF Begin
 <1>6. Idle.pc = "idle" /\ Idle.pick = NoPicking
   BY DEF Idle
 <1> HIDE DEF t
 <1>7. txn'[w] = t /\ OthersStay(w)
   BY <1>2, SetTxn DEF OthersStay
 <1>8. txn'[w].full = (todo # {})
   BY <1>1, <1>3, <1>7
 <1> QED
   BY <1>2, <1>3, <1>4, <1>5, <1>6, <1>7, <1>8

-----------------------------------------------------------------------------
(* Every step keeps the types *)

\* The greater of two numbers.
LEMMA MaxOfTwo ==
    ASSUME NEW a \in Int, NEW b \in Int
    PROVE  Max({a, b}) = (IF a >= b THEN a ELSE b)
 <1>1. ASSUME NEW x \in {a, b}, \A y \in {a, b} : x >= y
       PROVE  x = (IF a >= b THEN a ELSE b)
   BY <1>1
 <1>2. \E x \in {a, b} : \A y \in {a, b} : x >= y
   BY a >= b \/ b >= a
 <1> QED
   BY <1>1, <1>2 DEF Max

LEMMA MinOfTwo ==
    ASSUME NEW a \in Int, NEW b \in Int
    PROVE  Min({a, b}) = (IF a <= b THEN a ELSE b)
 <1>1. ASSUME NEW x \in {a, b}, \A y \in {a, b} : x <= y
       PROVE  x = (IF a <= b THEN a ELSE b)
   BY <1>1
 <1>2. \E x \in {a, b} : \A y \in {a, b} : x <= y
   BY a <= b \/ b <= a
 <1> QED
   BY <1>1, <1>2 DEF Min

\* What reserve() takes is never negative, and never more than is missing.
LEMMA ToReserveType ==
    ASSUME TypeInv, NEW w, NEW t \in Transfer(Move), NEW n \in Int
    PROVE  ToReserve(w, t, n) \in Nat
 <1>1. t.prod \in Product /\ t.src \in Location
   BY DEF Transfer
 <1>2. Available(w, t.prod, t.src) \in Int
   BY <1>1, VisibleTyped DEF Available, QuantVersion
 <1>3. Min({n, Available(w, t.prod, t.src)}) \in Int
   BY <1>2, MinOfTwo
 <1> QED
   BY <1>3, MaxOfTwo DEF ToReserve

\* A row that is not written stays as it is.
LEMMA QuietDb ==
    ASSUME DbTyped, UNCHANGED dbVars
    PROVE  DbTyped'
  BY DEF DbTyped, VersionOK, LocksOK, dbVars

\* The moves a handler has selected.
LEMMA SelectedTyped ==
    ASSUME TypeInv, NEW w, NEW m \in Move
    PROVE  Selected(w, m) \in Transfer(Move)
 <1>1. PICK row : row = Visible(w, MoveRow(m))
   OBVIOUS
 <1>2. row \in MoveVersion
   BY <1>1, VisibleTyped
 <1>3. row.dest \in Location /\ row.reserved \in Nat
   BY <1>2 DEF MoveVersion
 <1>4. /\ product[m] \in Product /\ source[m] \in Location /\ DoneQty(m) \in Nat
   BY TransferAssumption DEF DoneQty
 <1> QED
   BY <1>1, <1>3, <1>4 DEF Selected, Transfer

\* SelectMoves and HeldMoves read each move as this session sees it.
LEMMA SelectMovesTyped ==
    ASSUME TypeInv, NEW w, NEW k, NEW states
    PROVE  SelectMoves(w, k, states) \in SUBSET Transfer(Move)
  BY SelectedTyped DEF SelectMoves, MovesOf

LEMMA HeldMovesTyped ==
    ASSUME TypeInv, NEW w, NEW k, NEW states
    PROVE  HeldMoves(w, k, states) \in SUBSET Transfer(Move)
  BY SelectMovesTyped DEF HeldMoves

\* Begin and Goto keep the types of the requests.
LEMMA BeginTyped ==
    ASSUME TypeInv, NEW w \in Worker, NEW k \in Picking,
           NEW pc \in OfPicking \ (OfMove \cup Billing), NEW todo \in SUBSET Transfer(Move), Begin(w, k, pc, todo)
    PROVE  TypeInv'
 <1>1. PICK t : TxnOK(t) /\ txn' = [txn EXCEPT ![w] = t]
   BY BeginEffect DEF TypeInv
 <1>2. UNCHANGED dbVars
   BY DEF Begin
 <1> QED
   BY <1>1, <1>2, QuietDb, SetTxnKeepsTypes DEF TypeInv

LEMMA BeginsTyped ==
    ASSUME TypeInv, NEW w \in Worker, NEW k \in Picking,
           \/ Confirm(w, k) \/ Validate(w, k) \/ Reset(w, k)
           \/ Assign(w, k) \/ Cancel(w, k) \/ Unreserve(w, k)
    PROVE  TypeInv'
 <1>1. {"confirm", "load", "reset", "assign", "cancel", "unreserve"}
          \subseteq OfPicking \ (OfMove \cup Billing)
   BY DEF OfPicking, OfMove, Billing
 <1>2. {} \in SUBSET Transfer(Move)
   OBVIOUS
 <1>3. CASE Confirm(w, k)
   BY <1>1, <1>2, <1>3, BeginTyped DEF Confirm
 <1>4. CASE Validate(w, k)
   BY <1>1, <1>2, <1>4, BeginTyped DEF Validate
 <1>5. CASE Reset(w, k)
   BY <1>1, <1>2, <1>5, BeginTyped DEF Reset
 <1>6. CASE Assign(w, k)
   BY <1>1, <1>6, BeginTyped, SelectMovesTyped DEF Assign
 <1>7. CASE Cancel(w, k)
   BY <1>1, <1>7, BeginTyped, HeldMovesTyped DEF Cancel
 <1>8. CASE Unreserve(w, k)
   BY <1>1, <1>8, BeginTyped, HeldMovesTyped DEF Unreserve
 <1> QED
   BY <1>3, <1>4, <1>5, <1>6, <1>7, <1>8

\* A statement that writes typed rows and moves the request on.
LEMMA StatementTyped ==
    ASSUME TypeInv, NEW w \in Worker, NEW new, RowsTyped(new), Write(w, new),
           txn' \in [Worker -> TxnShape] /\ \A v \in Worker : TxnOK(txn'[v])
    PROVE  TypeInv'
  BY WriteKeepsTypes DEF TypeInv

\* What a request on a transfer knows while it works on it.
LEMMA PickOf ==
    ASSUME TypeInv, NEW w \in Worker, txn[w].pc \in OfPicking
    PROVE  txn[w].pick \in Picking
  BY DEF TypeInv, TxnOK

\* The move in hand after validateMove is one of the transfer.
LEMMA CurOf ==
    ASSUME TypeInv, NEW w \in Worker, txn[w].pc \in OfMove \cup Applying
    PROVE  /\ txn[w].cur \in Transfer(Move \cup {NoMove})
           /\ txn[w].cur.prod \in Product /\ txn[w].cur.src \in Location
           /\ txn[w].cur.dest \in Location /\ txn[w].cur.qty \in Nat
           /\ txn[w].cur.reserved \in Nat
           /\ txn[w].pc \in OfMove => txn[w].cur \in Transfer(Move) /\ txn[w].cur.move \in Move
           /\ txn[w].cur.move \in Move => txn[w].pick \in Picking /\ txn[w].cur \in Transfer(Move)
 <1>1. PICK t : t = txn[w].cur
   OBVIOUS
 <1>2. /\ t \in Transfer(Move \cup {NoMove})
       /\ txn[w].pc \in OfMove => t \in Transfer(Move)
       /\ t.move \in Move => txn[w].pick \in Picking
  <2>1. Transfer(Move) \subseteq Transfer(Move \cup {NoMove})
    BY DEF Transfer
  <2> QED
    BY <1>1, <2>1 DEF TypeInv, TxnOK, OfPicking
 <1> QED
   BY ONLY <1>1, <1>2 DEF Transfer

\* An UPDATE of some transfers' state.
LEMMA UpdatePickingTyped ==
    ASSUME TypeInv, NEW w \in Worker, NEW k \in Picking, NEW from, NEW to \in PickingStates,
           NEW pc \in OfPicking \cup {"commit"}, pc \notin OfMove \cup Billing,
           UpdateState(w, {PickingRow(k)}, from, to), Goto(w, pc),
           txn[w].pick \in Picking
    PROVE  TypeInv'
 <1> DEFINE new == [r \in {s \in {PickingRow(k)} : Visible(w, s).state \in from} |->
                       [Visible(w, r) EXCEPT !.state = to]]
 <1>1. Write(w, new)
   BY DEF UpdateState
 <1>2. RowsTyped(new)
  <2>1. DOMAIN new \subseteq {PickingRow(k)}
    OBVIOUS
  <2>2. ASSUME PickingRow(k) \in DOMAIN new
        PROVE  new[PickingRow(k)] \in [state : PickingStates]
   <3>1. PICK v : v = Visible(w, PickingRow(k))
     OBVIOUS
   <3>2. v \in [state : PickingStates]
     BY <3>1, VisibleTyped
   <3>3. new[PickingRow(k)] = [v EXCEPT !.state = to]
     BY <2>2, <3>1
   <3> QED
     BY <3>2, <3>3
  <2> HIDE DEF new
  <2> QED
    BY <2>1, <2>2, RowsIn, RowsApart DEF RowsTyped
 <1> HIDE DEF new
 <1>3. txn' \in [Worker -> TxnShape] /\ \A v \in Worker : TxnOK(txn'[v])
   BY GotoTyped DEF OfMove, Billing, OfPicking, Applying
 <1> QED
   BY <1>1, <1>2, <1>3, StatementTyped

\* A statement that sets some rows of the moves.
LEMMA WriteMovesTyped ==
    ASSUME TypeInv, NEW w \in Worker, NEW new, Write(w, new),
           DOMAIN new \subseteq {MoveRow(m) : m \in Move},
           \A m \in Move : MoveRow(m) \in DOMAIN new => new[MoveRow(m)] \in MoveVersion,
           txn' \in [Worker -> TxnShape] /\ \A v \in Worker : TxnOK(txn'[v])
    PROVE  TypeInv'
 <1>1. RowsTyped(new)
   BY RowsIn, RowsApart DEF RowsTyped
 <1> QED
   BY <1>1, StatementTyped

\* The bulk UPDATEs and the releases of several moves keep the types.
LEMMA UpdateMovesTyped ==
    ASSUME TypeInv, NEW w \in Worker, NEW k, NEW from, NEW to \in MoveStates,
           NEW pc \in OfPicking \cup {"commit"}, pc \notin OfMove \cup Billing,
           UpdateState(w, MoveRows(k), from, to), Goto(w, pc), txn[w].pick \in Picking
    PROVE  TypeInv'
 <1> DEFINE new == [r \in {s \in MoveRows(k) : Visible(w, s).state \in from} |->
                       [Visible(w, r) EXCEPT !.state = to]]
 <1>1. Write(w, new)
   BY DEF UpdateState
 <1>2. DOMAIN new \subseteq {MoveRow(m) : m \in Move}
   BY DEF MoveRows, MovesOf
 <1>3. ASSUME NEW m \in Move, MoveRow(m) \in DOMAIN new
       PROVE  new[MoveRow(m)] \in MoveVersion
  <2>1. PICK v : v = Visible(w, MoveRow(m))
    OBVIOUS
  <2>2. v \in MoveVersion
    BY <2>1, VisibleTyped
  <2>3. new[MoveRow(m)] = [v EXCEPT !.state = to]
    BY <1>3, <2>1
  <2> QED
    BY <2>2, <2>3 DEF MoveVersion
 <1> HIDE DEF new
 <1>4. txn' \in [Worker -> TxnShape] /\ \A v \in Worker : TxnOK(txn'[v])
   BY GotoTyped DEF OfMove, Billing, OfPicking, Applying
 <1> QED
   BY <1>1, <1>2, <1>3, <1>4, WriteMovesTyped

LEMMA DropMovesTyped ==
    ASSUME TypeInv, NEW w \in Worker, NEW from, NEW to \in MoveStates,
           NEW pc \in OfPicking \cup {"commit"}, pc \notin OfMove \cup Billing,
           DropMoves(w, from, to), Goto(w, pc), txn[w].pick \in Picking
    PROVE  TypeInv'
 <1> DEFINE new == [r \in {s \in MoveRows(txn[w].pick) : Visible(w, s).state \in from} |->
                       [live[r] EXCEPT !.state = to, !.reserved = 0]]
 <1>1. Write(w, new)
   BY DEF DropMoves
 <1>2. DOMAIN new \subseteq {MoveRow(m) : m \in Move}
   BY DEF MoveRows, MovesOf
 <1>3. ASSUME NEW m \in Move, MoveRow(m) \in DOMAIN new
       PROVE  new[MoveRow(m)] \in MoveVersion
  <2>1. PICK v : v = live[MoveRow(m)]
    OBVIOUS
  <2>2. v \in MoveVersion
    BY <2>1 DEF TypeInv, DbTyped, VersionOK
  <2>3. PICK u : u = [v EXCEPT !.state = to]
    OBVIOUS
  <2>4. u \in MoveVersion
    BY <2>2, <2>3 DEF MoveVersion
  <2>5. new[MoveRow(m)] = [u EXCEPT !.reserved = 0]
    BY <1>3, <2>1, <2>3
  <2> HIDE DEF new
  <2> QED
    BY <2>4, <2>5 DEF MoveVersion
 <1> HIDE DEF new
 <1>4. txn' \in [Worker -> TxnShape] /\ \A v \in Worker : TxnOK(txn'[v])
   BY GotoTyped DEF OfMove, Billing, OfPicking, Applying
 <1> QED
   BY <1>1, <1>2, <1>3, <1>4, WriteMovesTyped

\* A statement that sets one quant.
LEMMA WriteQuantTyped ==
    ASSUME TypeInv, NEW w \in Worker, NEW p \in Product, NEW l \in Location,
           NEW v \in QuantVersion, Write(w, [r \in {QuantRow(p, l)} |-> v]),
           txn' \in [Worker -> TxnShape] /\ \A u \in Worker : TxnOK(txn'[u])
    PROVE  TypeInv'
 <1> DEFINE new == [r \in {QuantRow(p, l)} |-> v]
 <1>1. RowsTyped(new)
   BY RowsIn, RowsApart DEF RowsTyped
 <1> QED
   BY <1>1, StatementTyped

\* A statement that sets rows the properties are not about.
LEMMA WriteOtherTyped ==
    ASSUME TypeInv, NEW w \in Worker, NEW r0 \in Row, NEW v, Write(w, [r \in {r0} |-> v]),
           \/ \E p \in Product : r0 = ProductRow(p)
           \/ \E o \in Order : r0 = OrderRow(o),
           txn' \in [Worker -> TxnShape] /\ \A u \in Worker : TxnOK(txn'[u])
    PROVE  TypeInv'
 <1> DEFINE new == [r \in {r0} |-> v]
 <1>1. RowsTyped(new)
   BY RowsIn, RowsApart DEF RowsTyped
 <1> QED
   BY <1>1, StatementTyped

-----------------------------------------------------------------------------
(* The statements, one by one *)

\* XTyped: the statement X keeps the types; XEffect: what X does to txn.
LEMMA ConfirmPickingTyped ==
    ASSUME TypeInv, NEW w \in Worker, ConfirmPicking(w)
    PROVE  TypeInv'
 <1> DEFINE new == [r \in {PickingRow(txn[w].pick)} |-> [state |-> "confirmed"]]
 <1>1. txn[w].pick \in Picking
   BY PickOf DEF ConfirmPicking, At, OfPicking
 <1>2. RowsTyped(new)
   BY <1>1, RowsIn, RowsApart DEF RowsTyped, PickingStates
 <1>3. txn' \in [Worker -> TxnShape] /\ \A v \in Worker : TxnOK(txn'[v])
   BY <1>1, GotoTyped DEF ConfirmPicking, OfMove, Billing, OfPicking, Applying
 <1> QED
   BY <1>2, <1>3, StatementTyped DEF ConfirmPicking

LEMMA UpdatesTyped ==
    ASSUME TypeInv, NEW w \in Worker,
           \/ ConfirmMoves(w) \/ AssignPicking(w) \/ CancelPicking(w) \/ CancelMoves(w)
           \/ UnreserveMoves(w) \/ UnreservePicking(w) \/ ResetPicking(w) \/ ResetMoves(w)
    PROVE  TypeInv'
 <1>1. txn[w].pick \in Picking
   BY PickOf DEF ConfirmMoves, AssignPicking, CancelPicking, CancelMoves,
      UnreserveMoves, UnreservePicking, ResetPicking, ResetMoves, At, OfPicking
 <1>2. {"commit", "cancel_moves", "unreserve_picking", "reset_moves"}
          \subseteq (OfPicking \cup {"commit"}) \ (OfMove \cup Billing)
   BY DEF OfPicking, OfMove, Billing
 <1>3. PickingStates \subseteq MoveStates /\ {"confirmed", "assigned", "partially_available",
          "cancel", "draft"} \subseteq PickingStates
   BY DEF PickingStates, MoveStates
 <1>4. CASE ConfirmMoves(w)
   BY <1>1, <1>2, <1>3, <1>4, UpdateMovesTyped DEF ConfirmMoves
 <1>5. CASE AssignPicking(w)
   BY <1>1, <1>2, <1>3, <1>5, UpdatePickingTyped DEF AssignPicking
 <1>6. CASE CancelPicking(w)
   BY <1>1, <1>2, <1>3, <1>6, UpdatePickingTyped DEF CancelPicking
 <1>7. CASE CancelMoves(w)
   BY <1>1, <1>2, <1>3, <1>7, DropMovesTyped DEF CancelMoves
 <1>8. CASE UnreserveMoves(w)
   BY <1>1, <1>2, <1>3, <1>8, DropMovesTyped DEF UnreserveMoves
 <1>9. CASE UnreservePicking(w)
   BY <1>1, <1>2, <1>3, <1>9, UpdatePickingTyped DEF UnreservePicking
 <1>10. CASE ResetPicking(w)
   BY <1>1, <1>2, <1>3, <1>10, UpdatePickingTyped DEF ResetPicking
 <1>11. CASE ResetMoves(w)
   BY <1>1, <1>2, <1>3, <1>11, UpdateMovesTyped DEF ResetMoves
 <1> QED
   BY <1>4, <1>5, <1>6, <1>7, <1>8, <1>9, <1>10, <1>11

\* A step that keeps the rows and sets the request's record.
LEMMA SetTyped ==
    ASSUME TypeInv, NEW w \in Worker, NEW t, TxnOK(t), txn' = [txn EXCEPT ![w] = t],
           UNCHANGED dbVars
    PROVE  TypeInv'
  BY QuietDb, SetTxnKeepsTypes DEF TypeInv

\* The next move of action_assign.
LEMMA AssignMoveEffect ==
    ASSUME TypeInv, NEW w \in Worker, AssignMove(w)
    PROVE  \E d : \E t \in txn[w].todo, u \in Transfer(Move), got \in Nat :
             /\ t \in Transfer(Move) /\ u.move = t.move /\ u.prod = t.prod /\ u.src = t.src
             /\ got = ToReserve(w, t, demand[t.move] - Visible(w, MoveRow(t.move)).reserved)
             /\ u.reserved = Visible(w, MoveRow(t.move)).reserved + got
             /\ TxnOK(d) /\ txn' = [txn EXCEPT ![w] = d]
             /\ d.pc = (IF got > 0 THEN "reserve" ELSE "reserved")
             /\ d.pick = txn[w].pick /\ d.todo = txn[w].todo \ {t} /\ d.cur = u
             /\ d.qty = got /\ d.full = txn[w].full
 <1>1. PICK c : c = txn[w]
   OBVIOUS
 <1>2. c \in TxnShape /\ c.pick \in Picking /\ c.todo \in SUBSET Transfer(Move)
  <2>1. c \in TxnShape
    BY <1>1 DEF TypeInv
  <2> QED
    BY <1>1, <2>1, PickOf DEF AssignMove, At, OfPicking, TxnShape
 <1>3. PICK t \in c.todo :
         LET already == Visible(w, MoveRow(t.move)).reserved
             got == ToReserve(w, t, demand[t.move] - already)
         IN txn' = [txn EXCEPT ![w].todo = @ \ {t},
                               ![w].cur = [t EXCEPT !.reserved = already + got],
                               ![w].qty = got,
                               ![w].pc = IF got > 0 THEN "reserve" ELSE "reserved"]
   BY <1>1 DEF AssignMove
 <1>4. t \in Transfer(Move) /\ t.move \in Move
   BY <1>2, <1>3 DEF Transfer
 <1>5. PICK already : already = Visible(w, MoveRow(t.move)).reserved
   OBVIOUS
 <1>6. already \in Nat
   BY <1>4, <1>5, VisibleTyped DEF MoveVersion
 <1>7. PICK got : got = ToReserve(w, t, demand[t.move] - already)
   OBVIOUS
 <1>8. got \in Nat
  <2>1. demand[t.move] - already \in Int
    BY <1>4, <1>6, TransferAssumption
  <2> QED
    BY <1>4, <1>7, <2>1, ToReserveType
 <1>9. PICK u : u = [t EXCEPT !.reserved = already + got]
   OBVIOUS
 <1>10. /\ u \in Transfer(Move) /\ u.move = t.move /\ u.prod = t.prod /\ u.src = t.src
        /\ u.reserved = already + got
   BY <1>4, <1>6, <1>8, <1>9 DEF Transfer
 <1>11. PICK pc : pc = IF got > 0 THEN "reserve" ELSE "reserved"
   OBVIOUS
 <1>12. PICK d : d = [c EXCEPT !.todo = @ \ {t}, !.cur = u, !.qty = got, !.pc = pc]
   OBVIOUS
 <1>13. txn' = [txn EXCEPT ![w] = d]
  <2>1. txn' = [txn EXCEPT ![w].todo = @ \ {t}, ![w].cur = u, ![w].qty = got, ![w].pc = pc]
    BY <1>3, <1>5, <1>7, <1>9, <1>11
  <2>2. txn \in [Worker -> TxnShape]
    BY DEF TypeInv
  <2> QED
    BY ONLY <1>1, <1>12, <2>1, <2>2, w \in Worker
 <1>14. /\ d.pc = pc /\ d.pick = c.pick /\ d.todo = c.todo \ {t} /\ d.cur = u
        /\ d.qty = got /\ d.full = c.full /\ d = [x \in DOMAIN c |-> d[x]]
   BY ONLY <1>2, <1>12 DEF TxnShape
 <1>15. d \in TxnShape
  <2>1. u \in Transfer(Move \cup {NoMove}) /\ pc \in OfPicking
    BY <1>10, <1>11 DEF Transfer, OfPicking, OfMove
  <2>2. c.full \in BOOLEAN
    BY <1>2 DEF TxnShape
  <2>3. /\ d.pc \in OfPicking \cup Applying \cup {"idle", "commit"}
        /\ d.pick \in Picking \cup {NoPicking} /\ d.todo \in SUBSET Transfer(Move)
        /\ d.cur \in Transfer(Move \cup {NoMove}) \cup {NoTransfer} /\ d.qty \in Int
        /\ d.full \in BOOLEAN
    BY <1>2, <1>8, <1>14, <2>1, <2>2
  <2>4. c \in TxnShape /\ d = [x \in DOMAIN c |-> d[x]]
    BY <1>2, <1>14
  <2> QED
    BY ONLY <2>3, <2>4, TxnShaped
 <1>16. TxnOK(d)
   BY <1>2, <1>8, <1>10, <1>11, <1>14, <1>15 DEF TxnOK, OfPicking, OfMove, Billing, Applying
 <1>17. /\ got = ToReserve(w, t, demand[t.move] - Visible(w, MoveRow(t.move)).reserved)
        /\ u.reserved = Visible(w, MoveRow(t.move)).reserved + got
        /\ d.pc = (IF got > 0 THEN "reserve" ELSE "reserved")
   BY <1>5, <1>7, <1>10, <1>11, <1>14
 <1>18. t \in txn[w].todo /\ d.pick = txn[w].pick /\ d.todo = txn[w].todo \ {t}
        /\ d.full = txn[w].full
   BY <1>1, <1>3, <1>14
 <1>19. d.cur = u /\ d.qty = got
   BY <1>14
 <1> QED
   BY ONLY <1>4, <1>8, <1>10, <1>13, <1>16, <1>17, <1>18, <1>19

LEMMA ReserveTyped ==
    ASSUME TypeInv, NEW w \in Worker, Reserve(w)
    PROVE  TypeInv'
 <1>1. PICK t : t = txn[w].cur
   OBVIOUS
 <1>2. t.prod \in Product /\ t.src \in Location /\ txn[w].cur \in Transfer(Move)
   BY <1>1, CurOf DEF Reserve, At, OfMove
 <1>3. PICK q : q = live[QuantRow(t.prod, t.src)]
   OBVIOUS
 <1>4. q \in QuantVersion /\ txn[w].qty \in Nat
   BY <1>2, <1>3 DEF TypeInv, DbTyped, VersionOK, TxnOK, Reserve, At
 <1>5. [q EXCEPT !.res = @ + txn[w].qty] \in QuantVersion
   BY ONLY <1>4 DEF QuantVersion
 <1>6. Write(w, [r \in {QuantRow(t.prod, t.src)} |-> [q EXCEPT !.res = @ + txn[w].qty]])
   BY <1>1, <1>3 DEF Reserve
 <1>7. txn' \in [Worker -> TxnShape] /\ \A v \in Worker : TxnOK(txn'[v])
   BY <1>2, PickOf, GotoTyped DEF Reserve, At, OfMove, Billing, OfPicking, Applying
 <1> QED
   BY <1>2, <1>5, <1>6, <1>7, WriteQuantTyped

LEMMA AssignedMoveEffect ==
    ASSUME TypeInv, NEW w \in Worker, AssignedMove(w)
    PROVE  \E d : \E full \in BOOLEAN :
             /\ full = (txn[w].full /\ txn[w].cur.reserved >= demand[txn[w].cur.move])
             /\ TxnOK(d) /\ txn' = [txn EXCEPT ![w] = d]
             /\ d.pc = "assign" /\ d.pick = txn[w].pick /\ d.todo = txn[w].todo
             /\ d.cur = txn[w].cur /\ d.full = full
 <1>1. PICK c : c = txn[w]
   OBVIOUS
 <1>2. c \in TxnShape /\ c.pick \in Picking
  <2>1. c \in TxnShape
    BY <1>1 DEF TypeInv
  <2> QED
    BY <1>1, <2>1, PickOf DEF AssignedMove, At, OfPicking, OfMove
 <1>3. PICK full \in BOOLEAN : full = (c.full /\ c.cur.reserved >= demand[c.cur.move])
  <2>1. c.full \in BOOLEAN
    BY <1>2 DEF TxnShape
  <2> QED
    BY <2>1
 <1>4. PICK d : d = [c EXCEPT !.full = full, !.pc = "assign"]
   OBVIOUS
 <1>5. txn' = [txn EXCEPT ![w] = d]
  <2>1. txn' = [txn EXCEPT ![w].full = full, ![w].pc = "assign"]
    BY <1>1, <1>3 DEF AssignedMove
  <2>2. txn \in [Worker -> TxnShape]
    BY DEF TypeInv
  <2> QED
    BY ONLY <1>1, <1>4, <2>1, <2>2, w \in Worker
 <1>6. /\ d.pc = "assign" /\ d.pick = c.pick /\ d.todo = c.todo /\ d.cur = c.cur
       /\ d.full = full /\ d \in TxnShape
   BY ONLY <1>2, <1>3, <1>4 DEF TxnShape, OfPicking
 <1>7. TxnOK(d)
   BY <1>2, <1>6 DEF TxnOK, OfPicking, OfMove, Billing, Applying
 <1>8. full = (txn[w].full /\ txn[w].cur.reserved >= demand[txn[w].cur.move])
   BY <1>1, <1>3
 <1>9. /\ d.pick = txn[w].pick /\ d.todo = txn[w].todo /\ d.cur = txn[w].cur
   BY <1>1, <1>6
 <1>10. d.pc = "assign" /\ d.full = full
   BY <1>6
 <1> QED
   BY ONLY <1>3, <1>5, <1>7, <1>8, <1>9, <1>10, Zenon

LEMMA AssignedMoveTyped ==
    ASSUME TypeInv, NEW w \in Worker, AssignedMove(w)
    PROVE  TypeInv'
 <1>1. PICK t : t = txn[w].cur
   OBVIOUS
 <1>2. t.move \in Move /\ t.reserved \in Nat
   BY <1>1, CurOf DEF AssignedMove, At, OfMove
 <1>3. PICK state \in {"assigned", "partially_available"} :
          state = IF t.reserved >= demand[t.move] THEN "assigned" ELSE "partially_available"
   OBVIOUS
 <1>4. PICK v : v = live[MoveRow(t.move)]
   OBVIOUS
 <1>5. v \in MoveVersion
   BY <1>2, <1>4 DEF TypeInv, DbTyped, VersionOK
 <1>6. [v EXCEPT !.reserved = t.reserved, !.state = state] \in MoveVersion
   BY ONLY <1>2, <1>3, <1>5 DEF MoveVersion, MoveStates
 <1> DEFINE new == [r \in {MoveRow(t.move)} |->
                       [live[r] EXCEPT !.reserved = t.reserved, !.state = state]]
 <1>7. Write(w, new)
   BY <1>1, <1>3 DEF AssignedMove
 <1>8. txn' \in [Worker -> TxnShape] /\ \A u \in Worker : TxnOK(txn'[u])
   BY AssignedMoveEffect, SetTxnKeepsTypes DEF TypeInv
 <1>9. new[MoveRow(t.move)] \in MoveVersion
   BY <1>4, <1>6
 <1>10. DOMAIN new = {MoveRow(t.move)}
   OBVIOUS
 <1> HIDE DEF new
 <1> QED
   BY <1>2, <1>7, <1>8, <1>9, <1>10, RowsApart, WriteMovesTyped

LEMMA LoadMovesEffect ==
    ASSUME TypeInv, NEW w \in Worker, LoadMoves(w)
    PROVE  \E d :
             /\ TxnOK(d) /\ txn' = [txn EXCEPT ![w] = d]
             /\ d.pc = "validate" /\ d.pick = txn[w].pick
             /\ d.todo = SelectMoves(w, txn[w].pick, OpenStates)
 <1>1. PICK c : c = txn[w]
   OBVIOUS
 <1>2. c \in TxnShape /\ c.pick \in Picking
  <2>1. c \in TxnShape
    BY <1>1 DEF TypeInv
  <2> QED
    BY <1>1, <2>1, PickOf DEF LoadMoves, At, OfPicking, OfMove
 <1>3. PICK todo : todo = SelectMoves(w, c.pick, OpenStates)
   OBVIOUS
 <1>4. todo \in SUBSET Transfer(Move)
   BY <1>3, SelectMovesTyped
 <1>5. PICK d : d = [c EXCEPT !.todo = todo, !.pc = "validate"]
   OBVIOUS
 <1>6. txn' = [txn EXCEPT ![w] = d]
  <2>1. txn' = [txn EXCEPT ![w].todo = todo, ![w].pc = "validate"]
    BY <1>1, <1>3 DEF LoadMoves
  <2>2. txn \in [Worker -> TxnShape]
    BY DEF TypeInv
  <2> QED
    BY ONLY <1>1, <1>5, <2>1, <2>2, w \in Worker
 <1>7. d.pc = "validate" /\ d.pick = c.pick /\ d.todo = todo /\ d \in TxnShape
   BY ONLY <1>2, <1>4, <1>5 DEF TxnShape, OfPicking
 <1>8. TxnOK(d)
   BY <1>2, <1>7 DEF TxnOK, OfPicking, OfMove, Billing, Applying
 <1> QED
   BY ONLY <1>1, <1>3, <1>6, <1>7, <1>8

\* Where a transfer continues.
LEMMA PcsAfter ==
    ASSUME NEW t
    PROVE  /\ AppliedPc(t) \in {"commit", "backflush", "moved"}
           /\ AppliedPc(t) = "moved" => t.move # NoMove /\ ~IsComponent(t.move)
           /\ AppliedPc(t) = "backflush" => t.move # NoMove /\ IsComponent(t.move)
           /\ AppliedPc(t) = "commit" => t.move = NoMove
           /\ ApplyPc(t) \in {"out", AppliedPc(t)}
           /\ ReleasePc(t) \in {"release", ApplyPc(t)}
  BY DEF AppliedPc, ApplyPc, ReleasePc

LEMMA ValidateMoveEffect ==
    ASSUME TypeInv, NEW w \in Worker, ValidateMove(w)
    PROVE  \E d : \E t \in txn[w].todo, to \in Transfer(Move) :
             /\ t \in Transfer(Move)
             /\ to = [t EXCEPT !.dest = putaway[<<t.prod, t.dest>>]]
             /\ to.move = t.move /\ to.prod = t.prod /\ to.src = t.src /\ to.qty = t.qty
             /\ to.reserved = t.reserved
             /\ TxnOK(d) /\ txn' = [txn EXCEPT ![w] = d]
             /\ d.pc = (IF to.dest # t.dest THEN "putaway" ELSE ReleasePc(to))
             /\ d.pick = txn[w].pick /\ d.todo = txn[w].todo \ {t} /\ d.cur = to
 <1>1. PICK c : c = txn[w]
   OBVIOUS
 <1>2. c \in TxnShape /\ c.pick \in Picking /\ c.todo \in SUBSET Transfer(Move)
  <2>1. c \in TxnShape
    BY <1>1 DEF TypeInv
  <2> QED
    BY <1>1, <2>1, PickOf DEF ValidateMove, At, OfPicking, OfMove, TxnShape
 <1>3. PICK t \in c.todo :
         LET to == [t EXCEPT !.dest = putaway[<<t.prod, t.dest>>]] IN
         txn' = [txn EXCEPT ![w].todo = @ \ {t},
                            ![w].cur = to,
                            ![w].pc = IF to.dest # t.dest THEN "putaway" ELSE ReleasePc(to)]
   BY <1>1 DEF ValidateMove
 <1>4. t \in Transfer(Move) /\ t.move \in Move /\ t.prod \in Product /\ t.dest \in Location
   BY <1>2, <1>3 DEF Transfer
 <1>5. PICK to : to = [t EXCEPT !.dest = putaway[<<t.prod, t.dest>>]]
   OBVIOUS
 <1>6. /\ to \in Transfer(Move) /\ to.move = t.move /\ to.prod = t.prod /\ to.src = t.src
       /\ to.qty = t.qty /\ to.reserved = t.reserved
  <2>1. putaway[<<t.prod, t.dest>>] \in Location
    BY <1>4, TransferAssumption
  <2> QED
    BY ONLY <1>4, <1>5, <2>1 DEF Transfer
 <1>7. PICK pc : pc = IF to.dest # t.dest THEN "putaway" ELSE ReleasePc(to)
   OBVIOUS
 <1>8. to.move # NoMove
   BY <1>4, <1>6, TransferAssumption
 <1>9. pc \in {"putaway", "release", "out", "moved", "backflush"}
   BY <1>7, <1>8, PcsAfter
 <1>10. PICK d : d = [c EXCEPT !.todo = @ \ {t}, !.cur = to, !.pc = pc]
   OBVIOUS
 <1>11. txn' = [txn EXCEPT ![w] = d]
  <2>1. txn' = [txn EXCEPT ![w].todo = @ \ {t}, ![w].cur = to, ![w].pc = pc]
    BY <1>3, <1>5, <1>7
  <2>2. txn \in [Worker -> TxnShape]
    BY DEF TypeInv
  <2> QED
    BY ONLY <1>1, <1>10, <2>1, <2>2, w \in Worker
 <1>12. /\ d.pc = pc /\ d.pick = c.pick /\ d.todo = c.todo \ {t} /\ d.cur = to
        /\ d.qty = c.qty /\ d.full = c.full /\ d = [x \in DOMAIN c |-> d[x]]
   BY ONLY <1>2, <1>10 DEF TxnShape
 <1>13. d \in TxnShape
  <2>1. to \in Transfer(Move \cup {NoMove}) /\ pc \in OfPicking \cup Applying
    BY <1>6, <1>9 DEF Transfer, OfPicking, OfMove, Billing, Applying
  <2>2. c.full \in BOOLEAN /\ c.qty \in Int
    BY <1>2 DEF TxnShape
  <2>3. /\ d.pc \in OfPicking \cup Applying \cup {"idle", "commit"}
        /\ d.pick \in Picking \cup {NoPicking} /\ d.todo \in SUBSET Transfer(Move)
        /\ d.cur \in Transfer(Move \cup {NoMove}) \cup {NoTransfer} /\ d.qty \in Int
        /\ d.full \in BOOLEAN
    BY <1>2, <1>12, <2>1, <2>2
  <2> QED
    BY ONLY <1>2, <1>12, <2>3, TxnShaped
 <1>14. TxnOK(d)
  <2>1. to \in Transfer(Move \cup {NoMove})
    BY <1>6 DEF Transfer
  <2> QED
    BY <1>2, <1>6, <1>9, <1>12, <1>13, <2>1 DEF TxnOK, OfPicking, OfMove, Billing, Applying
 <1>15. /\ t \in txn[w].todo /\ d.pick = txn[w].pick /\ d.todo = txn[w].todo \ {t}
        /\ d.pc = (IF to.dest # t.dest THEN "putaway" ELSE ReleasePc(to)) /\ d.cur = to
   BY <1>1, <1>3, <1>7, <1>12
 <1> QED
   BY ONLY <1>4, <1>5, <1>6, <1>11, <1>14, <1>15

LEMMA PutawayTyped ==
    ASSUME TypeInv, NEW w \in Worker, Putaway(w)
    PROVE  TypeInv'
 <1>1. PICK t : t = txn[w].cur
   OBVIOUS
 <1>2. t.move \in Move /\ t.dest \in Location /\ txn[w].cur \in Transfer(Move)
   BY <1>1, CurOf DEF Putaway, At, OfMove
 <1>3. PICK v : v = live[MoveRow(t.move)]
   OBVIOUS
 <1>4. v \in MoveVersion
   BY <1>2, <1>3 DEF TypeInv, DbTyped, VersionOK
 <1>5. [v EXCEPT !.dest = t.dest] \in MoveVersion
   BY ONLY <1>2, <1>4 DEF MoveVersion
 <1> DEFINE new == [r \in {MoveRow(t.move)} |-> [live[r] EXCEPT !.dest = t.dest]]
 <1>6. Write(w, new)
   BY <1>1 DEF Putaway
 <1>7. txn' \in [Worker -> TxnShape] /\ \A u \in Worker : TxnOK(txn'[u])
  <2>1. t.move # NoMove
    BY <1>2, TransferAssumption
  <2>2. ReleasePc(t) \in {"release", "out", "moved", "backflush"}
    BY <2>1, PcsAfter
  <2>3. Goto(w, ReleasePc(t))
    BY <1>1 DEF Putaway
  <2>4. txn[w].pick \in Picking
    BY PickOf DEF Putaway, At, OfPicking, OfMove
  <2>5. txn[w].cur \in Transfer(Move \cup {NoMove})
    BY <1>2 DEF Transfer
  <2> QED
    BY <1>2, <2>2, <2>3, <2>4, <2>5, GotoTyped DEF OfMove, Billing, OfPicking, Applying
 <1>8. new[MoveRow(t.move)] \in MoveVersion
   BY <1>3, <1>5
 <1>9. DOMAIN new = {MoveRow(t.move)}
   OBVIOUS
 <1> HIDE DEF new
 <1> QED
   BY <1>2, <1>6, <1>7, <1>8, <1>9, RowsApart, WriteMovesTyped

\* StockQuant::release of a transfer.
LEMMA ReleasedTyped ==
    ASSUME TypeInv, NEW w \in Worker, NEW t \in Transfer(Move), ReleasedQuant(w, t),
           txn' \in [Worker -> TxnShape] /\ \A u \in Worker : TxnOK(txn'[u])
    PROVE  TypeInv'
 <1>1. t.prod \in Product /\ t.src \in Location /\ t.reserved \in Nat
   BY DEF Transfer
 <1>2. PICK q : q = live[QuantRow(t.prod, t.src)]
   OBVIOUS
 <1>3. q \in QuantVersion
   BY <1>1, <1>2 DEF TypeInv, DbTyped, VersionOK
 <1>4. PICK n : n = Max({q.res - t.reserved, 0})
   OBVIOUS
 <1>5. n \in Int
  <2>1. q.res - t.reserved \in Int
    BY <1>1, <1>3 DEF QuantVersion
  <2> QED
    BY <1>4, <2>1, MaxOfTwo
 <1>6. [q EXCEPT !.res = n] \in QuantVersion
   BY ONLY <1>3, <1>5 DEF QuantVersion
 <1>7. Write(w, [r \in {QuantRow(t.prod, t.src)} |-> [q EXCEPT !.res = n]])
   BY <1>2, <1>4 DEF ReleasedQuant
 <1> QED
   BY <1>1, <1>6, <1>7, WriteQuantTyped

LEMMA ReleaseMoveTyped ==
    ASSUME TypeInv, NEW w \in Worker, ReleaseMove(w)
    PROVE  TypeInv'
 <1>1. PICK t : t = txn[w].cur
   OBVIOUS
 <1>2. t.move \in Move /\ t \in Transfer(Move) /\ t.move # NoMove
   BY <1>1, CurOf, TransferAssumption DEF ReleaseMove, At, OfMove
 <1>3. txn' \in [Worker -> TxnShape] /\ \A u \in Worker : TxnOK(txn'[u])
  <2>1. ApplyPc(t) \in {"out", "moved", "backflush"}
    BY <1>2, PcsAfter
  <2>2. Goto(w, ApplyPc(t))
    BY <1>1 DEF ReleaseMove
  <2>3. txn[w].pick \in Picking
    BY PickOf DEF ReleaseMove, At, OfPicking, OfMove
  <2>4. txn[w].cur \in Transfer(Move \cup {NoMove})
    BY <1>1, <1>2 DEF Transfer
  <2> QED
    BY <1>1, <1>2, <2>1, <2>2, <2>3, <2>4, GotoTyped DEF OfMove, Billing, OfPicking, Applying
 <1> QED
   BY <1>1, <1>2, <1>3, ReleasedTyped DEF ReleaseMove

\* upsertDelta.
LEMMA AddToQuantTyped ==
    ASSUME TypeInv, NEW w \in Worker, NEW p \in Product, NEW l \in Location, NEW delta \in Int,
           AddToQuant(w, p, l, delta),
           txn' \in [Worker -> TxnShape] /\ \A u \in Worker : TxnOK(txn'[u])
    PROVE  TypeInv'
 <1>1. PICK q : q = live[QuantRow(p, l)]
   OBVIOUS
 <1>2. q \in QuantVersion
   BY <1>1 DEF TypeInv, DbTyped, VersionOK
 <1>3. [q EXCEPT !.qty = @ + delta] \in QuantVersion
   BY ONLY <1>2, delta \in Int DEF QuantVersion
 <1>4. Write(w, [r \in {QuantRow(p, l)} |-> [q EXCEPT !.qty = @ + delta]])
   BY <1>1 DEF AddToQuant
 <1> QED
   BY <1>3, <1>4, WriteQuantTyped

LEMMA ApplyTyped ==
    ASSUME TypeInv, NEW w \in Worker, ApplyOut(w) \/ ApplyIn(w)
    PROVE  TypeInv'
 <1>1. PICK t : t = txn[w].cur
   OBVIOUS
 <1>2. /\ t.prod \in Product /\ t.src \in Location /\ t.dest \in Location /\ t.qty \in Nat
       /\ t \in Transfer(Move \cup {NoMove})
       /\ t.move \in Move => txn[w].pick \in Picking
   BY <1>1, CurOf DEF ApplyOut, ApplyIn, At, Applying
 <1>3. ASSUME NEW pc \in Applying, Goto(w, pc)
       PROVE  txn' \in [Worker -> TxnShape] /\ \A u \in Worker : TxnOK(txn'[u])
   BY <1>1, <1>2, <1>3, GotoTyped DEF OfMove, Billing, OfPicking, Applying
 <1>4. CASE ApplyOut(w)
  <2>1. Goto(w, "in") /\ AddToQuant(w, t.prod, t.src, 0 - t.qty) /\ 0 - t.qty \in Int
    BY <1>1, <1>2, <1>4 DEF ApplyOut
  <2> QED
    BY <1>2, <1>3, <2>1, AddToQuantTyped DEF Applying
 <1>5. CASE ApplyIn(w)
  <2>1. Goto(w, "refresh") /\ AddToQuant(w, t.prod, t.dest, t.qty) /\ t.qty \in Int
    BY <1>1, <1>2, <1>5 DEF ApplyIn
  <2> QED
    BY <1>2, <1>3, <2>1, AddToQuantTyped DEF Applying
 <1> QED
   BY <1>4, <1>5

LEMMA RefreshSnapshotEffect ==
    ASSUME TypeInv, NEW w \in Worker, RefreshSnapshot(w)
    PROVE  \E d :
             /\ TxnOK(d) /\ txn' = [txn EXCEPT ![w] = d]
             /\ d.pc = "refreshed" /\ d.pick = txn[w].pick /\ d.todo = txn[w].todo
             /\ d.cur = txn[w].cur
 <1>1. PICK c : c = txn[w]
   OBVIOUS
 <1>2. /\ c \in TxnShape /\ c.cur \in Transfer(Move \cup {NoMove}) /\ c.cur.prod \in Product
       /\ c.cur.move \in Move => c.pick \in Picking
  <2>1. c \in TxnShape
    BY <1>1 DEF TypeInv
  <2> QED
    BY <1>1, <2>1, CurOf DEF RefreshSnapshot, At, Applying
 <1> DEFINE quantity == [l \in Internal |-> Visible(w, QuantRow(txn[w].cur.prod, l)).qty]
 <1>3. PICK n : n = SumFunction(quantity)
   OBVIOUS
 <1>4. n \in Int
  <2>1. IsFiniteSet(Internal) /\ Internal \subseteq Location
    BY FS_Subset, TransferAssumption
  <2>2. \A l \in Internal : quantity[l] \in Int
    BY <1>1, <1>2, <2>1, VisibleTyped DEF QuantVersion
  <2>3. SumFunction(quantity) = SumFunctionOnSet(quantity, Internal)
    BY DEF SumFunction
  <2> HIDE DEF quantity
  <2> QED
    BY <1>3, <2>1, <2>2, <2>3, SumType
 <1>5. PICK d : d = [c EXCEPT !.qty = n, !.pc = "refreshed"]
   OBVIOUS
 <1>6. txn' = [txn EXCEPT ![w] = d]
  <2>1. txn' = [txn EXCEPT ![w].qty = n, ![w].pc = "refreshed"]
    BY <1>3 DEF RefreshSnapshot
  <2>2. txn \in [Worker -> TxnShape]
    BY DEF TypeInv
  <2> QED
    BY ONLY <1>1, <1>5, <2>1, <2>2, w \in Worker
 <1>7. /\ d.pc = "refreshed" /\ d.pick = c.pick /\ d.todo = c.todo /\ d.cur = c.cur
       /\ d \in TxnShape
   BY ONLY <1>2, <1>4, <1>5 DEF TxnShape, Applying
 <1>8. TxnOK(d)
   BY <1>2, <1>7 DEF TxnOK, OfPicking, OfMove, Billing, Applying
 <1> QED
   BY ONLY <1>1, <1>6, <1>7, <1>8

LEMMA RefreshWriteTyped ==
    ASSUME TypeInv, NEW w \in Worker, RefreshWrite(w)
    PROVE  TypeInv'
 <1>1. PICK t : t = txn[w].cur
   OBVIOUS
 <1>2. t.prod \in Product /\ t \in Transfer(Move \cup {NoMove})
   BY <1>1, CurOf DEF RefreshWrite, At, Applying
 <1>3. t.move \in Move => txn[w].pick \in Picking /\ t \in Transfer(Move)
   BY <1>1, CurOf DEF RefreshWrite, At, Applying
 <1>4. txn' \in [Worker -> TxnShape] /\ \A u \in Worker : TxnOK(txn'[u])
  <2>1. AppliedPc(t) \in {"commit", "backflush", "moved"}
    BY PcsAfter
  <2>2. AppliedPc(t) # "commit" => t.move \in Move
   <3>1. t.move \in Move \cup {NoMove}
     BY <1>2 DEF Transfer
   <3> QED
     BY <3>1, PcsAfter
  <2>3. Goto(w, AppliedPc(t))
    BY <1>1 DEF RefreshWrite
  <2> QED
    BY <1>1, <1>3, <2>1, <2>2, <2>3, GotoTyped DEF OfMove, Billing, OfPicking, Applying
 <1>5. Write(w, [r \in {ProductRow(t.prod)} |-> [available |-> txn[w].qty]])
   BY <1>1 DEF RefreshWrite
 <1> QED
   BY <1>2, <1>4, <1>5, RowsIn, WriteOtherTyped

LEMMA MoveDoneTyped ==
    ASSUME TypeInv, NEW w \in Worker, MoveDone(w)
    PROVE  TypeInv'
 <1>1. PICK t : t = txn[w].cur
   OBVIOUS
 <1>2. t.move \in Move /\ t.qty \in Nat
   BY <1>1, CurOf DEF MoveDone, At, OfMove
 <1>3. PICK v : v = live[MoveRow(t.move)]
   OBVIOUS
 <1>4. v \in MoveVersion
   BY <1>2, <1>3 DEF TypeInv, DbTyped, VersionOK
 <1>5. [v EXCEPT !.quantity = t.qty, !.reserved = 0, !.state = "done"] \in MoveVersion
   BY ONLY <1>2, <1>4 DEF MoveVersion, MoveStates
 <1> DEFINE new == [r \in {MoveRow(t.move)} |->
                       [live[r] EXCEPT !.quantity = t.qty, !.reserved = 0, !.state = "done"]]
 <1>6. Write(w, new)
   BY <1>1 DEF MoveDone
 <1>7. txn' \in [Worker -> TxnShape] /\ \A u \in Worker : TxnOK(txn'[u])
   BY PickOf, GotoTyped DEF MoveDone, At, OfMove, Billing, OfPicking, Applying
 <1>8. new[MoveRow(t.move)] \in MoveVersion
   BY <1>3, <1>5
 <1>9. DOMAIN new = {MoveRow(t.move)}
   OBVIOUS
 <1> HIDE DEF new
 <1> QED
   BY <1>2, <1>6, <1>7, <1>8, <1>9, RowsApart, WriteMovesTyped

LEMMA PickingDoneTyped ==
    ASSUME TypeInv, NEW w \in Worker, PickingDone(w)
    PROVE  TypeInv'
 <1> DEFINE new == [r \in {PickingRow(txn[w].pick)} |-> [state |-> "done"]]
 <1>1. txn[w].pick \in Picking
   BY PickOf DEF PickingDone, At, OfPicking
 <1>2. RowsTyped(new)
   BY <1>1, RowsIn, RowsApart DEF RowsTyped, PickingStates
 <1>3. PICK pc : pc = IF Bills(txn[w].pick) THEN "bill" ELSE AfterOrder(txn[w].pick)
   OBVIOUS
 <1>4. /\ pc \in {"bill", "backflush_select", "commit"}
       /\ pc = "bill" => order[txn[w].pick] \in Order
   BY <1>1, <1>3, TransferAssumption DEF Bills, AfterOrder
 <1>5. Goto(w, pc)
   BY <1>3 DEF PickingDone
 <1>6. txn' \in [Worker -> TxnShape] /\ \A v \in Worker : TxnOK(txn'[v])
   BY <1>1, <1>4, <1>5, GotoTyped DEF OfMove, Billing, OfPicking, Applying
 <1> QED
   BY <1>2, <1>6, StatementTyped DEF PickingDone

\* The done moves of a transfer, and their units.
LEMMA DoneMovesFinite ==
    ASSUME NEW w, NEW k
    PROVE  DoneMoves(w, k) \subseteq Move /\ IsFiniteSet(DoneMoves(w, k))
  BY FS_Subset, TransferAssumption DEF DoneMoves, MovesOf

LEMMA DoneQuantityType ==
    ASSUME TypeInv, NEW w, NEW k, NEW p
    PROVE  DoneQuantity(w, k, p) \in Int
 <1> DEFINE S == {n \in DoneMoves(w, k) : product[n] = p}
            f == [m \in S |-> Visible(w, MoveRow(m)).quantity]
 <1>1. S \subseteq Move /\ IsFiniteSet(S)
   BY DoneMovesFinite, FS_Subset
 <1>2. \A m \in S : f[m] \in Int
   BY <1>1, VisibleTyped DEF MoveVersion
 <1>3. DoneQuantity(w, k, p) = SumFunctionOnSet(f, S)
   BY DEF DoneQuantity, SumFunction
 <1> HIDE DEF S, f
 <1> QED
   BY <1>1, <1>2, <1>3, SumType

LEMMA UpdateLinesTyped ==
    ASSUME TypeInv, NEW w \in Worker, UpdateLines(w)
    PROVE  TypeInv'
 <1>1. PICK k : k = txn[w].pick
   OBVIOUS
 <1>2. k \in Picking /\ order[k] \in Order
   BY <1>1, PickOf DEF UpdateLines, At, OfPicking, Billing, TypeInv, TxnOK
 <1> DEFINE lines == {LineRow(order[k], product[m]) : m \in DoneMoves(w, k)}
            new == [r \in lines |-> [live[r] EXCEPT !.delivered = @ + DoneQuantity(w, k, r[3])]]
 <1>3. Write(w, new) /\ Goto(w, "status")
   BY <1>1 DEF UpdateLines
 <1>4. \A m \in DoneMoves(w, k) : product[m] \in Product
   BY DoneMovesFinite, TransferAssumption
 <1>5. RowsTyped(new)
  <2>1. DOMAIN new \subseteq Row
    BY <1>2, <1>4, RowsIn
  <2>2. ASSUME NEW o \in Order, NEW p \in Product, LineRow(o, p) \in DOMAIN new
        PROVE  new[LineRow(o, p)] \in [delivered : Int]
   <3>1. PICK v : v = live[LineRow(o, p)]
     OBVIOUS
   <3>2. v \in [delivered : Int]
     BY <3>1 DEF TypeInv, DbTyped, VersionOK
   <3>3. PICK n : n = DoneQuantity(w, k, LineRow(o, p)[3])
     OBVIOUS
   <3>4. n \in Int
     BY <3>3, DoneQuantityType
   <3>5. new[LineRow(o, p)] = [v EXCEPT !.delivered = @ + n]
     BY <2>2, <3>1, <3>3
   <3> HIDE DEF new
   <3> QED
     BY <3>2, <3>4, <3>5
  <2>3. \A r \in DOMAIN new : \E o, p : r = LineRow(o, p)
    OBVIOUS
  <2> HIDE DEF new
  <2> QED
    BY <2>1, <2>2, <2>3, RowsApart DEF RowsTyped
 <1>6. txn' \in [Worker -> TxnShape] /\ \A v \in Worker : TxnOK(txn'[v])
   BY <1>1, <1>2, <1>3, GotoTyped DEF OfMove, Billing, OfPicking, Applying
 <1> HIDE DEF new
 <1> QED
   BY <1>3, <1>5, <1>6, StatementTyped

LEMMA UpdateOrderTyped ==
    ASSUME TypeInv, NEW w \in Worker, UpdateOrder(w)
    PROVE  TypeInv'
 <1>1. PICK k : k = txn[w].pick
   OBVIOUS
 <1>2. k \in Picking /\ order[k] \in Order
   BY <1>1, PickOf DEF UpdateOrder, At, OfPicking, Billing, TypeInv, TxnOK
 <1>3. \E v : Write(w, [r \in {OrderRow(order[k])} |-> v])
  <2> DEFINE complete == \A p \in Product :
                 Visible(w, LineRow(order[k], p)).delivered >= ordered[<<order[k], p>>]
  <2>1. Write(w, [r \in {OrderRow(order[k])} |->
                     [live[r] EXCEPT !.toInvoice = @ \/ complete]])
    BY <1>1 DEF UpdateOrder
  <2> HIDE DEF complete
  <2> DEFINE v == [live[OrderRow(order[k])] EXCEPT !.toInvoice = @ \/ complete]
  <2>2. [r \in {OrderRow(order[k])} |-> [live[r] EXCEPT !.toInvoice = @ \/ complete]]
          = [r \in {OrderRow(order[k])} |-> v]
    OBVIOUS
  <2> HIDE DEF v
  <2> QED
    BY <2>1, <2>2
 <1>4. Goto(w, AfterOrder(k))
   BY <1>1 DEF UpdateOrder
 <1>5. txn' \in [Worker -> TxnShape] /\ \A v \in Worker : TxnOK(txn'[v])
   BY <1>1, <1>2, <1>4, GotoTyped DEF AfterOrder, OfMove, Billing, OfPicking, Applying
 <1> QED
   BY <1>2, <1>3, <1>5, RowsIn, WriteOtherTyped

\* The components of what was received.
Consumed(w, m) ==
    [Selected(w, component[m]) EXCEPT
        !.qty = demand[component[m]] * Visible(w, MoveRow(m)).quantity]

LEMMA ConsumedTyped ==
    ASSUME TypeInv, NEW w, NEW m \in Move, component[m] # NoMove
    PROVE  /\ component[m] \in Move /\ Consumed(w, m) \in Transfer(Move)
           /\ Consumed(w, m).move = component[m]
           /\ Consumed(w, m).prod = product[component[m]]
           /\ Consumed(w, m).src = source[component[m]]
           /\ Consumed(w, m).dest = Visible(w, MoveRow(component[m])).dest
           /\ Consumed(w, m).reserved = Visible(w, MoveRow(component[m])).reserved
 <1>1. component[m] \in Move
   BY TransferAssumption
 <1>2. PICK s : s = Selected(w, component[m])
   OBVIOUS
 <1>3. s \in Transfer(Move)
   BY <1>1, <1>2, SelectedTyped
 <1>4. PICK n : n = demand[component[m]] * Visible(w, MoveRow(m)).quantity
   OBVIOUS
 <1>5. n \in Nat
  <2>1. PICK a : a = demand[component[m]]
    OBVIOUS
  <2>2. PICK b : b = Visible(w, MoveRow(m)).quantity
    OBVIOUS
  <2>3. a \in Nat /\ b \in Nat
    BY <1>1, <2>1, <2>2, VisibleTyped, TransferAssumption DEF MoveVersion
  <2>4. a * b \in Nat
    BY ONLY <2>3
  <2> QED
    BY <1>4, <2>1, <2>2, <2>4
 <1>6. PICK d : d = [s EXCEPT !.qty = n]
   OBVIOUS
 <1>7. d \in Transfer(Move) /\ d.move = s.move /\ d.prod = s.prod /\ d.src = s.src
       /\ d.dest = s.dest /\ d.reserved = s.reserved
   BY ONLY <1>3, <1>5, <1>6 DEF Transfer
 <1>8. Consumed(w, m) = d
   BY <1>2, <1>4, <1>6 DEF Consumed
 <1>9. /\ s.move = component[m] /\ s.prod = product[component[m]]
       /\ s.src = source[component[m]] /\ s.dest = Visible(w, MoveRow(component[m])).dest
       /\ s.reserved = Visible(w, MoveRow(component[m])).reserved
   BY <1>2 DEF Selected
 <1> QED
   BY <1>1, <1>7, <1>8, <1>9

LEMMA BackflushSelectEffect ==
    ASSUME TypeInv, NEW w \in Worker, BackflushSelect(w)
    PROVE  \E d :
             /\ TxnOK(d) /\ txn' = [txn EXCEPT ![w] = d]
             /\ d.pc = "backflush" /\ d.pick = txn[w].pick
             /\ \A t \in d.todo : \E m \in DoneMoves(w, txn[w].pick) :
                   component[m] # NoMove /\ t = Consumed(w, m)
 <1>1. PICK c : c = txn[w]
   OBVIOUS
 <1>2. c \in TxnShape /\ c.pick \in Picking
  <2>1. c \in TxnShape
    BY <1>1 DEF TypeInv
  <2> QED
    BY <1>1, <2>1, PickOf DEF BackflushSelect, At, OfPicking
 <1>3. PICK todo :
         todo = {Consumed(w, m) : m \in {n \in DoneMoves(w, c.pick) : component[n] # NoMove}}
   OBVIOUS
 <1>4. todo \in SUBSET Transfer(Move)
   BY <1>3, ConsumedTyped, DoneMovesFinite
 <1>5. PICK d : d = [c EXCEPT !.todo = todo, !.pc = "backflush"]
   OBVIOUS
 <1>6. txn' = [txn EXCEPT ![w] = d]
  <2>1. txn' = [txn EXCEPT ![w].todo = todo, ![w].pc = "backflush"]
    BY <1>1, <1>3, Zenon DEF BackflushSelect, Consumed
  <2>2. txn \in [Worker -> TxnShape]
    BY DEF TypeInv
  <2> QED
    BY ONLY <1>1, <1>5, <2>1, <2>2, w \in Worker
 <1>7. d.pc = "backflush" /\ d.pick = c.pick /\ d.todo = todo /\ d \in TxnShape
   BY ONLY <1>2, <1>4, <1>5 DEF TxnShape, OfPicking
 <1>8. TxnOK(d)
   BY <1>2, <1>7 DEF TxnOK, OfPicking, OfMove, Billing, Applying
 <1>9. \A t \in d.todo : \E m \in DoneMoves(w, c.pick) :
          component[m] # NoMove /\ t = Consumed(w, m)
   BY <1>3, <1>7
 <1> QED
   BY ONLY <1>1, <1>6, <1>7, <1>8, <1>9

LEMMA BackflushEffect ==
    ASSUME TypeInv, NEW w \in Worker, Backflush(w)
    PROVE  \E d : \E t \in txn[w].todo :
             /\ t \in Transfer(Move)
             /\ Write(w, [r \in {MoveRow(t.move)} |->
                   [live[r] EXCEPT !.quantity = @ + t.qty, !.state = "done"]])
             /\ TxnOK(d) /\ txn' = [txn EXCEPT ![w] = d]
             /\ d.pc = ApplyPc(t) /\ d.pick = txn[w].pick
             /\ d.todo = txn[w].todo \ {t} /\ d.cur = t
 <1>1. PICK c : c = txn[w]
   OBVIOUS
 <1>2. c \in TxnShape /\ c.pick \in Picking /\ c.todo \in SUBSET Transfer(Move)
  <2>1. c \in TxnShape
    BY <1>1 DEF TypeInv
  <2> QED
    BY <1>1, <2>1, PickOf DEF Backflush, At, OfPicking, TxnShape
 <1>3. PICK t \in c.todo :
         /\ Write(w, [r \in {MoveRow(t.move)} |->
               [live[r] EXCEPT !.quantity = @ + t.qty, !.state = "done"]])
         /\ txn' = [txn EXCEPT ![w].todo = @ \ {t}, ![w].cur = t, ![w].pc = ApplyPc(t)]
   BY <1>1 DEF Backflush
 <1>4. t \in Transfer(Move) /\ t.move \in Move /\ t.move # NoMove
   BY <1>2, <1>3, TransferAssumption DEF Transfer
 <1>5. PICK pc : pc = ApplyPc(t)
   OBVIOUS
 <1>6. pc \in {"out", "moved", "backflush"}
   BY <1>4, <1>5, PcsAfter
 <1>7. PICK d : d = [c EXCEPT !.todo = @ \ {t}, !.cur = t, !.pc = pc]
   OBVIOUS
 <1>8. txn' = [txn EXCEPT ![w] = d]
  <2>1. txn' = [txn EXCEPT ![w].todo = @ \ {t}, ![w].cur = t, ![w].pc = pc]
    BY <1>3, <1>5
  <2>2. txn \in [Worker -> TxnShape]
    BY DEF TypeInv
  <2> QED
    BY ONLY <1>1, <1>7, <2>1, <2>2, w \in Worker
 <1>9. /\ d.pc = pc /\ d.pick = c.pick /\ d.todo = c.todo \ {t} /\ d.cur = t
       /\ d.qty = c.qty /\ d.full = c.full /\ d = [x \in DOMAIN c |-> d[x]]
   BY ONLY <1>2, <1>7 DEF TxnShape
 <1>10. t \in Transfer(Move \cup {NoMove})
   BY <1>4 DEF Transfer
 <1>11. d \in TxnShape
  <2>1. pc \in OfPicking \cup Applying
    BY <1>6 DEF OfPicking, OfMove, Applying
  <2>2. c.full \in BOOLEAN /\ c.qty \in Int
    BY <1>2 DEF TxnShape
  <2>3. /\ d.pc \in OfPicking \cup Applying \cup {"idle", "commit"}
        /\ d.pick \in Picking \cup {NoPicking} /\ d.todo \in SUBSET Transfer(Move)
        /\ d.cur \in Transfer(Move \cup {NoMove}) \cup {NoTransfer} /\ d.qty \in Int
        /\ d.full \in BOOLEAN
    BY <1>2, <1>9, <1>10, <2>1, <2>2
  <2> QED
    BY ONLY <1>2, <1>9, <2>3, TxnShaped
 <1>12. TxnOK(d)
   BY <1>2, <1>4, <1>6, <1>9, <1>10, <1>11 DEF TxnOK, OfPicking, OfMove, Billing, Applying
 <1>13. t \in txn[w].todo /\ d.pick = txn[w].pick /\ d.todo = txn[w].todo \ {t}
        /\ d.pc = ApplyPc(t) /\ d.cur = t
   BY <1>1, <1>3, <1>5, <1>9
 <1>14. Write(w, [r \in {MoveRow(t.move)} |->
           [live[r] EXCEPT !.quantity = @ + t.qty, !.state = "done"]])
   BY <1>3
 <1> QED
   BY ONLY <1>4, <1>8, <1>12, <1>13, <1>14

LEMMA BackflushTyped ==
    ASSUME TypeInv, NEW w \in Worker, Backflush(w)
    PROVE  TypeInv'
 <1>1. PICK d : \E t \in txn[w].todo :
            /\ t \in Transfer(Move)
            /\ Write(w, [r \in {MoveRow(t.move)} |->
                  [live[r] EXCEPT !.quantity = @ + t.qty, !.state = "done"]])
            /\ TxnOK(d) /\ txn' = [txn EXCEPT ![w] = d]
   BY BackflushEffect
 <1>2. PICK t \in txn[w].todo :
            /\ t \in Transfer(Move)
            /\ Write(w, [r \in {MoveRow(t.move)} |->
                  [live[r] EXCEPT !.quantity = @ + t.qty, !.state = "done"]])
            /\ TxnOK(d) /\ txn' = [txn EXCEPT ![w] = d]
   BY <1>1
 <1>3. t.move \in Move /\ t.qty \in Nat
   BY <1>2 DEF Transfer
 <1>4. PICK v : v = live[MoveRow(t.move)]
   OBVIOUS
 <1>5. v \in MoveVersion
   BY <1>3, <1>4 DEF TypeInv, DbTyped, VersionOK
 <1>6. [v EXCEPT !.quantity = @ + t.qty, !.state = "done"] \in MoveVersion
  <2>1. PICK n : n = v.quantity + t.qty
    OBVIOUS
  <2>2. n \in Nat
    BY <1>3, <1>5, <2>1 DEF MoveVersion
  <2>3. [v EXCEPT !.quantity = n, !.state = "done"] \in MoveVersion
    BY ONLY <1>5, <2>2 DEF MoveVersion, MoveStates
  <2> QED
    BY <2>1, <2>3
 <1> DEFINE new == [r \in {MoveRow(t.move)} |->
                       [live[r] EXCEPT !.quantity = @ + t.qty, !.state = "done"]]
 <1>7. Write(w, new)
   BY <1>2
 <1>8. txn' \in [Worker -> TxnShape] /\ \A u \in Worker : TxnOK(txn'[u])
   BY <1>2, SetTxnKeepsTypes DEF TypeInv
 <1>9. new[MoveRow(t.move)] \in MoveVersion
   BY <1>4, <1>6
 <1>10. DOMAIN new = {MoveRow(t.move)}
   OBVIOUS
 <1> HIDE DEF new
 <1> QED
   BY <1>3, <1>7, <1>8, <1>9, <1>10, RowsApart, WriteMovesTyped

LEMMA ReleaseHeldEffect ==
    ASSUME TypeInv, NEW w \in Worker, ReleaseHeld(w)
    PROVE  \E d : \E t \in txn[w].todo :
             /\ t \in Transfer(Move) /\ ReleasedQuant(w, t)
             /\ TxnOK(d) /\ txn' = [txn EXCEPT ![w] = d]
             /\ d.pc = txn[w].pc /\ d.pick = txn[w].pick /\ d.todo = txn[w].todo \ {t}
 <1>1. PICK c : c = txn[w]
   OBVIOUS
 <1>2. /\ c \in TxnShape /\ c.pick \in Picking /\ c.todo \in SUBSET Transfer(Move)
       /\ c.pc \in {"cancel", "unreserve"}
  <2>1. c \in TxnShape
    BY <1>1 DEF TypeInv
  <2> QED
    BY <1>1, <2>1, PickOf DEF ReleaseHeld, At, OfPicking, TxnShape
 <1>3. PICK t \in c.todo : ReleasedQuant(w, t) /\ txn' = [txn EXCEPT ![w].todo = @ \ {t}]
   BY <1>1 DEF ReleaseHeld
 <1>4. PICK d : d = [c EXCEPT !.todo = @ \ {t}]
   OBVIOUS
 <1>5. txn' = [txn EXCEPT ![w] = d]
  <2>1. txn' = [txn EXCEPT ![w].todo = @ \ {t}] /\ txn \in [Worker -> TxnShape]
    BY <1>3 DEF TypeInv
  <2> QED
    BY ONLY <1>1, <1>4, <2>1, w \in Worker
 <1>6. /\ d.pc = c.pc /\ d.pick = c.pick /\ d.todo = c.todo \ {t} /\ d \in TxnShape
   BY ONLY <1>2, <1>4 DEF TxnShape
 <1>7. TxnOK(d)
   BY <1>2, <1>6 DEF TxnOK, OfPicking, OfMove, Billing, Applying
 <1>8. t \in Transfer(Move) /\ t \in txn[w].todo /\ ReleasedQuant(w, t)
   BY <1>1, <1>2, <1>3
 <1> QED
   BY ONLY <1>1, <1>5, <1>6, <1>7, <1>8

LEMMA SetOnHandEffect ==
    ASSUME TypeInv, NEW w \in Worker, NEW c \in Count, SetOnHand(w, c[1], c[2], c[3])
    PROVE  \E d : /\ TxnOK(d) /\ txn' = [txn EXCEPT ![w] = d] /\ UNCHANGED dbVars
                  /\ txn[w].pc = "idle" /\ txn[w].pick = NoPicking
                  /\ d.pc = "out" /\ d.pick = NoPicking /\ d.todo = {}
                  /\ d.cur.move = NoMove /\ d.cur.reserved = 0
                  /\ {d.cur.src, d.cur.dest} \subseteq Internal \cup {InventoryLoc}
 <1>1. PICK p, l, n : p = c[1] /\ l = c[2] /\ n = c[3]
   OBVIOUS
 <1>2. p \in Product /\ l \in Internal /\ l \in Location /\ n \in Nat /\ InventoryLoc \in Location
   BY <1>1, TransferAssumption
 <1>3. PICK delta : delta = n - Visible(w, QuantRow(p, l)).qty
   OBVIOUS
 <1>4. delta \in Int
   BY <1>2, <1>3, VisibleTyped DEF QuantVersion
 <1> DEFINE move(from, to, q) == [move |-> NoMove, prod |-> p, src |-> from, dest |-> to,
                                  qty |-> q, reserved |-> 0]
 <1>5. PICK cur : cur = IF delta > 0 THEN move(InventoryLoc, l, delta)
                                     ELSE move(l, InventoryLoc, 0 - delta)
   OBVIOUS
 <1>6. /\ cur \in Transfer(Move \cup {NoMove}) /\ cur.move = NoMove /\ cur.reserved = 0
       /\ {cur.src, cur.dest} \subseteq Internal \cup {InventoryLoc}
  <2>1. ASSUME delta > 0
        PROVE  cur = move(InventoryLoc, l, delta)
    BY <1>5, <2>1
  <2>2. ASSUME ~(delta > 0)
        PROVE  cur = move(l, InventoryLoc, 0 - delta)
    BY <1>5, <2>2
  <2>3. CASE delta > 0
    BY <1>2, <1>4, <2>1, <2>3 DEF Transfer
  <2>4. CASE ~(delta > 0)
   <3>1. 0 - delta \in Nat
     BY <1>4, <2>4
   <3> QED
     BY <1>2, <2>2, <2>4, <3>1 DEF Transfer
  <2> QED
    BY <2>3, <2>4
 <1>7. txn[w] = Idle /\ UNCHANGED dbVars
   BY DEF SetOnHand
 <1>8. PICK i : i = Idle
   OBVIOUS
 <1>9. i \in TxnShape /\ i.pc = "idle" /\ i.pick = NoPicking /\ i.todo = {}
   BY <1>8 DEF Idle, TxnShape
 <1>10. PICK d : d = [i EXCEPT !.pc = "out", !.cur = cur]
   OBVIOUS
 <1>11. txn' = [txn EXCEPT ![w] = d]
   BY <1>1, <1>3, <1>5, <1>8, <1>10 DEF SetOnHand
 <1>12. d.pc = "out" /\ d.pick = NoPicking /\ d.todo = {} /\ d.cur = cur /\ d \in TxnShape
   BY ONLY <1>6, <1>9, <1>10 DEF TxnShape, Applying
 <1>13. TxnOK(d)
   BY <1>6, <1>12, TransferAssumption DEF TxnOK, OfPicking, OfMove, Billing, Applying
 <1>14. txn[w].pc = "idle" /\ txn[w].pick = NoPicking
   BY <1>7, <1>8, <1>9
 <1> QED
   BY ONLY <1>6, <1>7, <1>11, <1>12, <1>13, <1>14

\* A request that has ended.
LEMMA IdleShape ==
    /\ TxnOK(Idle) /\ Idle.pc = "idle" /\ Idle.pick = NoPicking /\ Idle.todo = {}
 <1>1. Idle.pc = "idle" /\ Idle.pick = NoPicking /\ Idle.todo = {} /\ Idle \in TxnShape
   BY DEF Idle, TxnShape
 <1> QED
   BY <1>1 DEF TxnOK, OfPicking, OfMove, Billing, Applying

LEMMA EndTyped ==
    ASSUME TypeInv, NEW w \in Worker, Commit(w) \/ Abort(w)
    PROVE  TypeInv'
 <1>1. txn' = [txn EXCEPT ![w] = Idle]
   BY DEF Commit, Abort
 <1>2. DbTyped'
   BY CommitKeepsTypes, RollbackKeepsTypes DEF Commit, Abort, TypeInv
 <1> QED
   BY <1>1, <1>2, IdleShape, SetTxnKeepsTypes DEF TypeInv

\* The first rows, table by table.
LEMMA InitRows ==
    ASSUME Init
    PROVE  /\ \A p \in Product, l \in Location : committed[QuantRow(p, l)] =
                 [qty |-> IF l = StockLoc THEN onHand[p]
                          ELSE IF l = InventoryLoc THEN 0 - onHand[p] ELSE 0,
                  res |-> 0]
           /\ \A k \in Picking : committed[PickingRow(k)] = [state |-> "draft"]
           /\ \A m \in Move : committed[MoveRow(m)] =
                 [state |-> IF IsComponent(m) THEN "absent" ELSE "draft",
                  reserved |-> 0, dest |-> planned[m], quantity |-> 0]
           /\ \A o \in Order, p \in Product : committed[LineRow(o, p)] = [delivered |-> 0]
 <1>1. ASSUME NEW p \in Product, NEW l \in Location
       PROVE  committed[QuantRow(p, l)] =
                [qty |-> IF l = StockLoc THEN onHand[p]
                         ELSE IF l = InventoryLoc THEN 0 - onHand[p] ELSE 0,
                 res |-> 0]
  <2>1. PICK r : r = QuantRow(p, l)
    OBVIOUS
  <2>2. r \in Row /\ r[1] = "quant" /\ r[2] = p /\ r[3] = l
    BY <2>1, RowsIn DEF QuantRow
  <2> QED
    BY <2>1, <2>2 DEF Init
 <1>2. ASSUME NEW o \in Order, NEW p \in Product
       PROVE  committed[LineRow(o, p)] = [delivered |-> 0]
  <2>1. PICK r : r = LineRow(o, p)
    OBVIOUS
  <2>2. r \in Row /\ r[1] = "line"
    BY <2>1, RowsIn DEF LineRow
  <2> QED
    BY <2>1, <2>2 DEF Init
 <1>3. ASSUME NEW m \in Move
       PROVE  committed[MoveRow(m)] =
                [state |-> IF IsComponent(m) THEN "absent" ELSE "draft",
                 reserved |-> 0, dest |-> planned[m], quantity |-> 0]
  <2>1. PICK r : r = MoveRow(m)
    OBVIOUS
  <2>2. r \in Row /\ r[1] = "move" /\ r[2] = m
    BY <2>1, RowsIn DEF MoveRow
  <2> QED
    BY <2>1, <2>2 DEF Init
 <1>4. ASSUME NEW k \in Picking
       PROVE  committed[PickingRow(k)] = [state |-> "draft"]
  <2>1. PICK r : r = PickingRow(k)
    OBVIOUS
  <2>2. r \in Row /\ r[1] = "picking"
    BY <2>1, RowsIn DEF PickingRow
  <2> QED
    BY <2>1, <2>2 DEF Init
 <1> QED
   BY <1>1, <1>2, <1>3, <1>4

LEMMA InitTyped == Init => TypeInv
 <1> SUFFICES ASSUME Init
              PROVE  TypeInv
   OBVIOUS
 <1>1. \A p \in Product, l \in Location : committed[QuantRow(p, l)] \in QuantVersion
  <2> SUFFICES ASSUME NEW p \in Product, NEW l \in Location
               PROVE  committed[QuantRow(p, l)] \in QuantVersion
    OBVIOUS
  <2>1. PICK n : n = IF l = StockLoc THEN onHand[p]
                     ELSE IF l = InventoryLoc THEN 0 - onHand[p] ELSE 0
    OBVIOUS
  <2>2. n \in Int
    BY <2>1, TransferAssumption
  <2>3. committed[QuantRow(p, l)] = [qty |-> n, res |-> 0]
    BY <2>1, InitRows
  <2> QED
    BY <2>2, <2>3 DEF QuantVersion
 <1>2. \A m \in Move : committed[MoveRow(m)] \in MoveVersion
  <2> SUFFICES ASSUME NEW m \in Move
               PROVE  committed[MoveRow(m)] \in MoveVersion
    OBVIOUS
  <2>1. PICK state : state = IF IsComponent(m) THEN "absent" ELSE "draft"
    OBVIOUS
  <2>2. committed[MoveRow(m)] =
          [state |-> state, reserved |-> 0, dest |-> planned[m], quantity |-> 0]
    BY <2>1, InitRows
  <2>3. state \in MoveStates /\ planned[m] \in Location
    BY <2>1, TransferAssumption DEF MoveStates
  <2> QED
    BY <2>2, <2>3 DEF MoveVersion
 <1>3. \A k \in Picking : committed[PickingRow(k)] \in [state : PickingStates]
   BY InitRows DEF PickingStates
 <1>4. \A o \in Order, p \in Product : committed[LineRow(o, p)] \in [delivered : Int]
   BY InitRows
 <1>5. LocksOK
   BY DEF Init, LocksOK
 <1>6. VersionOK(committed) /\ VersionOK(live)
  <2>1. live = committed
    BY DEF Init
  <2> QED
    BY <1>1, <1>2, <1>3, <1>4, <2>1 DEF VersionOK
 <1>7. txn = [w \in Worker |-> Idle]
   BY DEF Init
 <1>8. Idle \in TxnShape
   BY IdleShape DEF TxnOK
 <1> QED
   BY <1>5, <1>6, <1>7, <1>8, IdleShape DEF TypeInv, DbTyped

\* The requests and statements that move a transaction along, with what each
\* does to it.
Steps(w) ==
    \/ \E k \in Picking :
          \/ Confirm(w, k) \/ Validate(w, k) \/ Reset(w, k)
          \/ Assign(w, k) \/ Cancel(w, k) \/ Unreserve(w, k)
    \/ \E c \in Count : SetOnHand(w, c[1], c[2], c[3])
    \/ Statement(w)
    \/ Commit(w)
    \/ Abort(w)

\* Every step is a statement of one request or a COMMIT or ROLLBACK.
LEMMA NextIsAStep ==
    ASSUME Next
    PROVE  \E w \in Worker : Steps(w)
  BY DEF Next, Steps, Request

LEMMA StatementKeepsTypes ==
    ASSUME TypeInv, NEW w \in Worker, Statement(w)
    PROVE  TypeInv'
 <1>1. CASE ConfirmPicking(w)
   BY <1>1, ConfirmPickingTyped
 <1>2. CASE \/ ConfirmMoves(w) \/ AssignPicking(w) \/ CancelPicking(w) \/ CancelMoves(w)
            \/ UnreserveMoves(w) \/ UnreservePicking(w) \/ ResetPicking(w) \/ ResetMoves(w)
   BY <1>2, UpdatesTyped
 <1>3. CASE AssignMove(w)
  <2>1. UNCHANGED dbVars
    BY <1>3 DEF AssignMove
  <2>2. PICK d : TxnOK(d) /\ txn' = [txn EXCEPT ![w] = d]
    BY <1>3, AssignMoveEffect
  <2> QED
    BY <2>1, <2>2, SetTyped
 <1>4. CASE Reserve(w)
   BY <1>4, ReserveTyped
 <1>5. CASE AssignedMove(w)
   BY <1>5, AssignedMoveTyped
 <1>6. CASE LoadMoves(w)
  <2>1. UNCHANGED dbVars
    BY <1>6 DEF LoadMoves
  <2>2. PICK d : TxnOK(d) /\ txn' = [txn EXCEPT ![w] = d]
    BY <1>6, LoadMovesEffect
  <2> QED
    BY <2>1, <2>2, SetTyped
 <1>7. CASE ValidateMove(w)
  <2>1. UNCHANGED dbVars
    BY <1>7 DEF ValidateMove
  <2>2. PICK d : TxnOK(d) /\ txn' = [txn EXCEPT ![w] = d]
    BY <1>7, ValidateMoveEffect
  <2> QED
    BY <2>1, <2>2, SetTyped
 <1>8. CASE Putaway(w)
   BY <1>8, PutawayTyped
 <1>9. CASE RefuseMove(w)
   BY <1>9, EndTyped DEF RefuseMove
 <1>10. CASE ReleaseMove(w)
   BY <1>10, ReleaseMoveTyped
 <1>11. CASE ApplyOut(w) \/ ApplyIn(w)
   BY <1>11, ApplyTyped
 <1>12. CASE RefreshSnapshot(w)
  <2>1. UNCHANGED dbVars
    BY <1>12 DEF RefreshSnapshot
  <2>2. PICK d : TxnOK(d) /\ txn' = [txn EXCEPT ![w] = d]
    BY <1>12, RefreshSnapshotEffect
  <2> QED
    BY <2>1, <2>2, SetTyped
 <1>13. CASE RefreshWrite(w)
   BY <1>13, RefreshWriteTyped
 <1>14. CASE MoveDone(w)
   BY <1>14, MoveDoneTyped
 <1>15. CASE PickingDone(w)
   BY <1>15, PickingDoneTyped
 <1>16. CASE UpdateLines(w)
   BY <1>16, UpdateLinesTyped
 <1>17. CASE UpdateOrder(w)
   BY <1>17, UpdateOrderTyped
 <1>18. CASE BackflushSelect(w)
  <2>1. UNCHANGED dbVars
    BY <1>18 DEF BackflushSelect
  <2>2. PICK d : TxnOK(d) /\ txn' = [txn EXCEPT ![w] = d]
    BY <1>18, BackflushSelectEffect
  <2> QED
    BY <2>1, <2>2, SetTyped
 <1>19. CASE Backflush(w)
   BY <1>19, BackflushTyped
 <1>20. CASE ReleaseHeld(w)
  <2>1. PICK d : \E t \in txn[w].todo : /\ t \in Transfer(Move) /\ ReleasedQuant(w, t)
                                        /\ TxnOK(d) /\ txn' = [txn EXCEPT ![w] = d]
    BY <1>20, ReleaseHeldEffect
  <2>2. txn' \in [Worker -> TxnShape] /\ \A u \in Worker : TxnOK(txn'[u])
    BY <2>1, SetTxnKeepsTypes DEF TypeInv
  <2> QED
    BY <2>1, <2>2, ReleasedTyped
 <1> QED
   BY <1>1, <1>2, <1>3, <1>4, <1>5, <1>6, <1>7, <1>8, <1>9, <1>10, <1>11, <1>12, <1>13,
 <1>14, <1>15, <1>16, <1>17, <1>18, <1>19, <1>20 DEF Statement

LEMMA StepKeepsTypes ==
    ASSUME TypeInv, NEW w \in Worker, Steps(w)
    PROVE  TypeInv'
 <1>1. ASSUME NEW k \in Picking,
              \/ Confirm(w, k) \/ Validate(w, k) \/ Reset(w, k)
              \/ Assign(w, k) \/ Cancel(w, k) \/ Unreserve(w, k)
       PROVE  TypeInv'
   BY <1>1, BeginsTyped
 <1>2. ASSUME NEW c \in Count, SetOnHand(w, c[1], c[2], c[3])
       PROVE  TypeInv'
  <2>1. PICK d : TxnOK(d) /\ txn' = [txn EXCEPT ![w] = d] /\ UNCHANGED dbVars
    BY <1>2, SetOnHandEffect
  <2> QED
    BY <2>1, SetTyped
 <1>3. CASE Statement(w)
   BY <1>3, StatementKeepsTypes
 <1>4. CASE Commit(w) \/ Abort(w)
   BY <1>4, EndTyped
 <1> QED
   BY <1>1, <1>2, <1>3, <1>4 DEF Steps

LEMMA QuietKeepsTypes ==
    ASSUME TypeInv, UNCHANGED vars
    PROVE  TypeInv'
  BY QuietDb DEF TypeInv, vars, TxnOK, dbVars

-----------------------------------------------------------------------------
(* Which rows a step writes, and what it leaves in them *)

\* Worker w writes rows of R at most, rows that were free for it.
WritesOnly(w, R) ==
    /\ committed' = committed
    /\ \A r \in Row : \/ live'[r] = live[r] /\ lock'[r] = lock[r]
                      \/ r \in R /\ Free(w, r) /\ lock'[r] = w

\* A step writes the rows it names and leaves the others.
LEMMA WriteWritesOnly ==
    ASSUME NEW w, NEW new, Write(w, new)
    PROVE  WritesOnly(w, DOMAIN new)
  BY WriteEffect DEF WritesOnly

LEMMA WritesMore ==
    ASSUME NEW w, NEW R, WritesOnly(w, R), NEW T, R \subseteq T
    PROVE  WritesOnly(w, T)
  BY DEF WritesOnly

LEMMA WritesNothing ==
    ASSUME NEW w, UNCHANGED dbVars
    PROVE  WritesOnly(w, {})
  BY DEF WritesOnly, dbVars

\* The rows of the tables, by table.
QuantRows == {QuantRow(p, l) : p \in Product, l \in Location}
AllMoveRows == {MoveRow(m) : m \in Move}
LineRows == {LineRow(o, p) : o \in Order, p \in Product}
PickingRows == {PickingRow(k) : k \in Picking}
OtherRows == {ProductRow(p) : p \in Product} \cup {OrderRow(o) : o \in Order}

\* An UPDATE of the state of a transfer.
LEMMA UpdatePickingEffect ==
    ASSUME TypeInv, NEW w \in Worker, NEW k \in Picking, NEW from, NEW to,
           UpdateState(w, {PickingRow(k)}, from, to)
    PROVE  /\ WritesOnly(w, {PickingRow(k)})
           /\ LET s == Visible(w, PickingRow(k)).state
              IN live'[PickingRow(k)].state =
                   (IF s \in from THEN to ELSE live[PickingRow(k)].state)
 <1> DEFINE new == [r \in {s \in {PickingRow(k)} : Visible(w, s).state \in from} |->
                       [Visible(w, r) EXCEPT !.state = to]]
 <1>1. Write(w, new)
   BY DEF UpdateState
 <1>2. WritesOnly(w, {PickingRow(k)})
  <2>1. DOMAIN new \subseteq {PickingRow(k)}
    OBVIOUS
  <2> HIDE DEF new
  <2> QED
    BY <1>1, <2>1, WriteWritesOnly, WritesMore
 <1>3. PICK v : v = Visible(w, PickingRow(k))
   OBVIOUS
 <1>4. v \in [state : PickingStates] /\ PickingRow(k) \in Row
   BY <1>3, VisibleTyped, RowsIn
 <1>5. CASE v.state \in from
  <2>1. PickingRow(k) \in DOMAIN new /\ new[PickingRow(k)] = [v EXCEPT !.state = to]
    BY <1>3, <1>5
  <2> HIDE DEF new
  <2>2. live'[PickingRow(k)] = [v EXCEPT !.state = to]
    BY <1>1, <1>4, <2>1, WriteEffect
  <2>3. [v EXCEPT !.state = to].state = to
    BY <1>4
  <2> QED
    BY <1>2, <1>3, <1>5, <2>2, <2>3
 <1>6. CASE v.state \notin from
  <2>1. PickingRow(k) \notin DOMAIN new
    BY <1>3, <1>6
  <2> HIDE DEF new
  <2>2. live'[PickingRow(k)] = live[PickingRow(k)]
    BY <1>1, <1>4, <2>1, WriteEffect
  <2> QED
    BY <1>2, <1>3, <1>6, <2>2
 <1> QED
   BY <1>5, <1>6

\* An UPDATE of the state of the moves of a transfer.
LEMMA UpdateMovesEffect ==
    ASSUME TypeInv, NEW w \in Worker, NEW k, NEW from, NEW to,
           UpdateState(w, MoveRows(k), from, to)
    PROVE  /\ WritesOnly(w, MoveRows(k))
           /\ \A m \in MovesOf(k) :
                 LET s == Visible(w, MoveRow(m)).state
                     r == MoveRow(m)
                 IN /\ live'[r].state = (IF s \in from THEN to ELSE live[r].state)
                    /\ live'[r].reserved = live[r].reserved /\ live'[r].dest = live[r].dest
                    /\ live'[r].quantity = live[r].quantity
 <1> DEFINE new == [r \in {s \in MoveRows(k) : Visible(w, s).state \in from} |->
                       [Visible(w, r) EXCEPT !.state = to]]
 <1>1. Write(w, new)
   BY DEF UpdateState
 <1>2. WritesOnly(w, MoveRows(k))
  <2>1. DOMAIN new \subseteq MoveRows(k)
    OBVIOUS
  <2> HIDE DEF new
  <2> QED
    BY <1>1, <2>1, WriteWritesOnly, WritesMore
 <1>3. ASSUME NEW m \in MovesOf(k)
       PROVE  LET s == Visible(w, MoveRow(m)).state
                  r == MoveRow(m)
              IN /\ live'[r].state = (IF s \in from THEN to ELSE live[r].state)
                 /\ live'[r].reserved = live[r].reserved /\ live'[r].dest = live[r].dest
                 /\ live'[r].quantity = live[r].quantity
  <2>1. m \in Move /\ MoveRow(m) \in Row /\ MoveRow(m) \in MoveRows(k)
    BY RowsIn DEF MovesOf, MoveRows
  <2>2. PICK v : v = Visible(w, MoveRow(m))
    OBVIOUS
  <2>3. v \in MoveVersion
    BY <2>1, <2>2, VisibleTyped
  <2>4. CASE v.state \in from
   <3>1. MoveRow(m) \in DOMAIN new /\ new[MoveRow(m)] = [v EXCEPT !.state = to]
     BY <2>1, <2>2, <2>4
   <3> HIDE DEF new
   <3>2. live'[MoveRow(m)] = [v EXCEPT !.state = to] /\ Free(w, MoveRow(m))
     BY <1>1, <2>1, <3>1, WriteEffect
   <3>3. v = live[MoveRow(m)]
     BY <2>1, <2>2, <3>2, VisibleIsLive DEF TypeInv, DbTyped
   <3>4. PICK u : u = [v EXCEPT !.state = to]
     OBVIOUS
   <3>5. /\ u.state = to /\ u.reserved = v.reserved /\ u.dest = v.dest
         /\ u.quantity = v.quantity
     BY ONLY <2>3, <3>4 DEF MoveVersion
   <3> QED
     BY <2>2, <2>4, <3>2, <3>3, <3>4, <3>5
  <2>5. CASE v.state \notin from
   <3>1. MoveRow(m) \notin DOMAIN new
     BY <2>2, <2>5
   <3> HIDE DEF new
   <3>2. live'[MoveRow(m)] = live[MoveRow(m)]
     BY <1>1, <2>1, <3>1, WriteEffect
   <3> QED
     BY <2>2, <2>5, <3>2
  <2> QED
    BY <2>4, <2>5
 <1> QED
   BY <1>2, <1>3

\* The UPDATE with which cancel and unreserve drop the reservations of moves.
LEMMA DropMovesEffect ==
    ASSUME TypeInv, NEW w \in Worker, NEW from, NEW to, DropMoves(w, from, to)
    PROVE  LET k == txn[w].pick IN
           /\ WritesOnly(w, MoveRows(k))
           /\ \A m \in MovesOf(k) :
                 LET s == Visible(w, MoveRow(m)).state
                     r == MoveRow(m)
                 IN /\ live'[r].state = (IF s \in from THEN to ELSE live[r].state)
                    /\ live'[r].reserved = (IF s \in from THEN 0 ELSE live[r].reserved)
                    /\ live'[r].dest = live[r].dest /\ live'[r].quantity = live[r].quantity
 <1>1. PICK k : k = txn[w].pick
   OBVIOUS
 <1> DEFINE new == [r \in {s \in MoveRows(k) : Visible(w, s).state \in from} |->
                       [live[r] EXCEPT !.state = to, !.reserved = 0]]
 <1>2. Write(w, new)
   BY <1>1 DEF DropMoves
 <1>3. WritesOnly(w, MoveRows(k))
  <2>1. DOMAIN new \subseteq MoveRows(k)
    OBVIOUS
  <2> HIDE DEF new
  <2> QED
    BY <1>2, <2>1, WriteWritesOnly, WritesMore
 <1>4. ASSUME NEW m \in MovesOf(k)
       PROVE  LET s == Visible(w, MoveRow(m)).state
                  r == MoveRow(m)
              IN /\ live'[r].state = (IF s \in from THEN to ELSE live[r].state)
                 /\ live'[r].reserved = (IF s \in from THEN 0 ELSE live[r].reserved)
                 /\ live'[r].dest = live[r].dest /\ live'[r].quantity = live[r].quantity
  <2>1. m \in Move /\ MoveRow(m) \in Row /\ MoveRow(m) \in MoveRows(k)
    BY RowsIn DEF MovesOf, MoveRows
  <2>2. PICK v : v = live[MoveRow(m)]
    OBVIOUS
  <2>3. v \in MoveVersion
    BY <2>1, <2>2 DEF TypeInv, DbTyped, VersionOK
  <2>4. CASE Visible(w, MoveRow(m)).state \in from
   <3>1. PICK u : u = [v EXCEPT !.state = to, !.reserved = 0]
     OBVIOUS
   <3>2. MoveRow(m) \in DOMAIN new /\ new[MoveRow(m)] = u
     BY <2>1, <2>2, <2>4, <3>1
   <3> HIDE DEF new
   <3>3. live'[MoveRow(m)] = u
     BY <1>2, <2>1, <3>2, WriteEffect
   <3>4. u.state = to /\ u.reserved = 0 /\ u.dest = v.dest /\ u.quantity = v.quantity
     BY ONLY <2>3, <3>1 DEF MoveVersion
   <3> QED
     BY <2>2, <2>4, <3>3, <3>4
  <2>5. CASE Visible(w, MoveRow(m)).state \notin from
   <3>1. MoveRow(m) \notin DOMAIN new
     BY <2>5
   <3> HIDE DEF new
   <3>2. live'[MoveRow(m)] = live[MoveRow(m)]
     BY <1>2, <2>1, <3>1, WriteEffect
   <3> QED
     BY <2>5, <3>2
  <2> QED
    BY <2>4, <2>5
 <1> HIDE DEF new
 <1> QED
   BY <1>1, <1>3, <1>4

\* A statement that sets one row.
LEMMA WriteOneEffect ==
    ASSUME NEW w, NEW r0 \in Row, NEW v, Write(w, [r \in {r0} |-> v])
    PROVE  WritesOnly(w, {r0}) /\ live'[r0] = v /\ Free(w, r0) /\ lock'[r0] = w
 <1> DEFINE new == [r \in {r0} |-> v]
 <1>1. DOMAIN new = {r0} /\ new[r0] = v
   OBVIOUS
 <1> HIDE DEF new
 <1> QED
   BY <1>1, WriteEffect, WriteWritesOnly

\* StockQuant::release changes one reservation, and never below zero.
LEMMA ReleasedEffect ==
    ASSUME TypeInv, NEW w \in Worker, NEW t \in Transfer(Move), ReleasedQuant(w, t)
    PROVE  LET q == QuantRow(t.prod, t.src) IN
           /\ WritesOnly(w, {q}) /\ Free(w, q) /\ lock'[q] = w
           /\ live'[q].qty = live[q].qty
           /\ live'[q].res = (IF live[q].res - t.reserved >= 0
                              THEN live[q].res - t.reserved ELSE 0)
 <1>1. t.prod \in Product /\ t.src \in Location /\ t.reserved \in Nat
   BY DEF Transfer
 <1>2. PICK r : r = QuantRow(t.prod, t.src)
   OBVIOUS
 <1>3. PICK q : q = live[r]
   OBVIOUS
 <1>4. q \in QuantVersion /\ r \in Row
   BY <1>1, <1>2, <1>3, RowsIn DEF TypeInv, DbTyped, VersionOK
 <1>5. PICK n : n = Max({q.res - t.reserved, 0})
   OBVIOUS
 <1>6. n = IF q.res - t.reserved >= 0 THEN q.res - t.reserved ELSE 0
  <2>1. q.res - t.reserved \in Int
    BY <1>1, <1>4 DEF QuantVersion
  <2> QED
    BY <1>5, <2>1, MaxOfTwo
 <1>7. PICK u : u = [q EXCEPT !.res = n]
   OBVIOUS
 <1>8. u.qty = q.qty /\ u.res = n
   BY ONLY <1>4, <1>7 DEF QuantVersion
 <1>9. Write(w, [s \in {r} |-> u])
   BY <1>2, <1>3, <1>5, <1>7 DEF ReleasedQuant
 <1>10. WritesOnly(w, {r}) /\ live'[r] = u /\ Free(w, r) /\ lock'[r] = w
   BY <1>4, <1>9, WriteOneEffect
 <1> QED
   BY <1>2, <1>3, <1>4, <1>6, <1>8, <1>10

\* What each statement leaves in the row it writes.
LEMMA ReserveEffect ==
    ASSUME TypeInv, NEW w \in Worker, Reserve(w)
    PROVE  LET q == QuantRow(txn[w].cur.prod, txn[w].cur.src) IN
           /\ WritesOnly(w, {q}) /\ Free(w, q) /\ lock'[q] = w
           /\ live'[q].qty = live[q].qty
           /\ live'[q].res = live[q].res + txn[w].qty
 <1>1. txn[w].cur.prod \in Product /\ txn[w].cur.src \in Location
   BY CurOf DEF Reserve, At, OfMove
 <1>2. PICK r : r = QuantRow(txn[w].cur.prod, txn[w].cur.src)
   OBVIOUS
 <1>3. PICK q : q = live[r]
   OBVIOUS
 <1>4. q \in QuantVersion /\ r \in Row
   BY <1>1, <1>2, <1>3, RowsIn DEF TypeInv, DbTyped, VersionOK
 <1>5. PICK n : n = q.res + txn[w].qty
   OBVIOUS
 <1>6. PICK u : u = [q EXCEPT !.res = n]
   OBVIOUS
 <1>7. u.qty = q.qty /\ u.res = n
   BY ONLY <1>4, <1>6 DEF QuantVersion
 <1>8. Write(w, [s \in {r} |-> u])
   BY <1>2, <1>3, <1>5, <1>6 DEF Reserve
 <1>9. WritesOnly(w, {r}) /\ live'[r] = u /\ Free(w, r) /\ lock'[r] = w
   BY <1>4, <1>8, WriteOneEffect
 <1> QED
   BY <1>2, <1>3, <1>4, <1>5, <1>7, <1>9

LEMMA AddToQuantEffect ==
    ASSUME TypeInv, NEW w \in Worker, NEW p \in Product, NEW l \in Location, NEW delta,
           AddToQuant(w, p, l, delta)
    PROVE  LET q == QuantRow(p, l) IN
           /\ WritesOnly(w, {q}) /\ Free(w, q) /\ lock'[q] = w
           /\ live'[q].qty = live[q].qty + delta
           /\ live'[q].res = live[q].res
 <1>1. PICK r : r = QuantRow(p, l)
   OBVIOUS
 <1>2. PICK q : q = live[r]
   OBVIOUS
 <1>3. q \in QuantVersion /\ r \in Row
   BY <1>1, <1>2, RowsIn DEF TypeInv, DbTyped, VersionOK
 <1>4. PICK n : n = q.qty + delta
   OBVIOUS
 <1>5. PICK u : u = [q EXCEPT !.qty = n]
   OBVIOUS
 <1>6. u.res = q.res /\ u.qty = n
   BY ONLY <1>3, <1>5 DEF QuantVersion
 <1>7. Write(w, [s \in {r} |-> u])
   BY <1>1, <1>2, <1>4, <1>5 DEF AddToQuant
 <1>8. WritesOnly(w, {r}) /\ live'[r] = u /\ Free(w, r) /\ lock'[r] = w
   BY <1>3, <1>7, WriteOneEffect
 <1> QED
   BY <1>1, <1>2, <1>3, <1>4, <1>6, <1>8

LEMMA AssignedMoveRow ==
    ASSUME TypeInv, NEW w \in Worker, AssignedMove(w)
    PROVE  LET t == txn[w].cur
               r == MoveRow(t.move)
           IN /\ WritesOnly(w, {r}) /\ Free(w, r) /\ lock'[r] = w
              /\ live'[r].state = (IF t.reserved >= demand[t.move]
                                   THEN "assigned" ELSE "partially_available")
              /\ live'[r].reserved = t.reserved
              /\ live'[r].dest = live[r].dest /\ live'[r].quantity = live[r].quantity
 <1>1. PICK t : t = txn[w].cur
   OBVIOUS
 <1>2. t.move \in Move
   BY <1>1, CurOf DEF AssignedMove, At, OfMove
 <1>3. PICK r : r = MoveRow(t.move)
   OBVIOUS
 <1>4. PICK v : v = live[r]
   OBVIOUS
 <1>5. v \in MoveVersion /\ r \in Row
   BY <1>2, <1>3, <1>4, RowsIn DEF TypeInv, DbTyped, VersionOK
 <1>6. PICK state : state = IF t.reserved >= demand[t.move]
                            THEN "assigned" ELSE "partially_available"
   OBVIOUS
 <1>7. PICK u : u = [v EXCEPT !.reserved = t.reserved, !.state = state]
   OBVIOUS
 <1>8. u.state = state /\ u.reserved = t.reserved /\ u.dest = v.dest /\ u.quantity = v.quantity
   BY ONLY <1>5, <1>7 DEF MoveVersion
 <1>9. Write(w, [s \in {r} |-> u])
  <2>1. Write(w, [s \in {r} |-> [live[s] EXCEPT !.reserved = t.reserved, !.state = state]])
    BY <1>1, <1>3, <1>6 DEF AssignedMove
  <2>2. [s \in {r} |-> [live[s] EXCEPT !.reserved = t.reserved, !.state = state]]
          = [s \in {r} |-> u]
    BY <1>4, <1>7
  <2> QED
    BY <2>1, <2>2
 <1>10. WritesOnly(w, {r}) /\ live'[r] = u /\ Free(w, r) /\ lock'[r] = w
   BY <1>5, <1>9, WriteOneEffect
 <1> QED
   BY <1>1, <1>3, <1>4, <1>5, <1>6, <1>8, <1>10

LEMMA PutawayRow ==
    ASSUME TypeInv, NEW w \in Worker, Putaway(w)
    PROVE  LET t == txn[w].cur
               r == MoveRow(t.move)
           IN /\ WritesOnly(w, {r}) /\ Free(w, r) /\ lock'[r] = w
              /\ live'[r].dest = t.dest
              /\ live'[r].state = live[r].state /\ live'[r].reserved = live[r].reserved
              /\ live'[r].quantity = live[r].quantity
 <1>1. PICK t : t = txn[w].cur
   OBVIOUS
 <1>2. t.move \in Move
   BY <1>1, CurOf DEF Putaway, At, OfMove
 <1>3. PICK r : r = MoveRow(t.move)
   OBVIOUS
 <1>4. PICK v : v = live[r]
   OBVIOUS
 <1>5. v \in MoveVersion /\ r \in Row
   BY <1>2, <1>3, <1>4, RowsIn DEF TypeInv, DbTyped, VersionOK
 <1>6. PICK u : u = [v EXCEPT !.dest = t.dest]
   OBVIOUS
 <1>7. /\ u.dest = t.dest /\ u.state = v.state /\ u.reserved = v.reserved
       /\ u.quantity = v.quantity
   BY ONLY <1>5, <1>6 DEF MoveVersion
 <1>8. Write(w, [s \in {r} |-> u])
  <2>1. Write(w, [s \in {r} |-> [live[s] EXCEPT !.dest = t.dest]])
    BY <1>1, <1>3 DEF Putaway
  <2>2. [s \in {r} |-> [live[s] EXCEPT !.dest = t.dest]] = [s \in {r} |-> u]
    BY <1>4, <1>6
  <2> QED
    BY <2>1, <2>2
 <1>9. WritesOnly(w, {r}) /\ live'[r] = u /\ Free(w, r) /\ lock'[r] = w
   BY <1>5, <1>8, WriteOneEffect
 <1> QED
   BY <1>1, <1>3, <1>4, <1>5, <1>7, <1>9

LEMMA MoveDoneRow ==
    ASSUME TypeInv, NEW w \in Worker, MoveDone(w)
    PROVE  LET t == txn[w].cur
               r == MoveRow(t.move)
           IN /\ WritesOnly(w, {r}) /\ Free(w, r) /\ lock'[r] = w
              /\ live'[r].state = "done" /\ live'[r].reserved = 0
              /\ live'[r].quantity = t.qty /\ live'[r].dest = live[r].dest
 <1>1. PICK t : t = txn[w].cur
   OBVIOUS
 <1>2. t.move \in Move
   BY <1>1, CurOf DEF MoveDone, At, OfMove
 <1>3. PICK r : r = MoveRow(t.move)
   OBVIOUS
 <1>4. PICK v : v = live[r]
   OBVIOUS
 <1>5. v \in MoveVersion /\ r \in Row
   BY <1>2, <1>3, <1>4, RowsIn DEF TypeInv, DbTyped, VersionOK
 <1>6. PICK u : u = [v EXCEPT !.quantity = t.qty, !.reserved = 0, !.state = "done"]
   OBVIOUS
 <1>7. u.state = "done" /\ u.reserved = 0 /\ u.quantity = t.qty /\ u.dest = v.dest
   BY ONLY <1>5, <1>6 DEF MoveVersion
 <1>8. Write(w, [s \in {r} |-> u])
  <2>1. Write(w, [s \in {r} |->
           [live[s] EXCEPT !.quantity = t.qty, !.reserved = 0, !.state = "done"]])
    BY <1>1, <1>3 DEF MoveDone
  <2>2. [s \in {r} |-> [live[s] EXCEPT !.quantity = t.qty, !.reserved = 0, !.state = "done"]]
          = [s \in {r} |-> u]
    BY <1>4, <1>6
  <2> QED
    BY <2>1, <2>2
 <1>9. WritesOnly(w, {r}) /\ live'[r] = u /\ Free(w, r) /\ lock'[r] = w
   BY <1>5, <1>8, WriteOneEffect
 <1> QED
   BY <1>1, <1>3, <1>4, <1>5, <1>7, <1>9

LEMMA BackflushRow ==
    ASSUME TypeInv, NEW w \in Worker, NEW t \in Transfer(Move),
           Write(w, [r \in {MoveRow(t.move)} |->
                        [live[r] EXCEPT !.quantity = @ + t.qty, !.state = "done"]])
    PROVE  LET r == MoveRow(t.move) IN
           /\ WritesOnly(w, {r}) /\ Free(w, r) /\ lock'[r] = w
           /\ live'[r].state = "done" /\ live'[r].quantity = live[r].quantity + t.qty
           /\ live'[r].reserved = live[r].reserved /\ live'[r].dest = live[r].dest
 <1>1. t.move \in Move
   BY DEF Transfer
 <1>2. PICK r : r = MoveRow(t.move)
   OBVIOUS
 <1>3. PICK v : v = live[r]
   OBVIOUS
 <1>4. v \in MoveVersion /\ r \in Row
   BY <1>1, <1>2, <1>3, RowsIn DEF TypeInv, DbTyped, VersionOK
 <1>5. PICK n : n = v.quantity + t.qty
   OBVIOUS
 <1>6. PICK u : u = [v EXCEPT !.quantity = n, !.state = "done"]
   OBVIOUS
 <1>7. u.state = "done" /\ u.quantity = n /\ u.reserved = v.reserved /\ u.dest = v.dest
   BY ONLY <1>4, <1>6 DEF MoveVersion
 <1>8. Write(w, [s \in {r} |-> u])
  <2>1. [s \in {r} |-> [live[s] EXCEPT !.quantity = @ + t.qty, !.state = "done"]]
          = [s \in {r} |-> u]
    BY <1>3, <1>5, <1>6
  <2> QED
    BY <1>2, <2>1
 <1>9. WritesOnly(w, {r}) /\ live'[r] = u /\ Free(w, r) /\ lock'[r] = w
   BY <1>4, <1>8, WriteOneEffect
 <1> QED
   BY <1>2, <1>3, <1>4, <1>5, <1>7, <1>9

\* The transfer's own row.
LEMMA PickingDoneRow ==
    ASSUME TypeInv, NEW w \in Worker, PickingDone(w) \/ ConfirmPicking(w)
    PROVE  LET r == PickingRow(txn[w].pick) IN
           /\ txn[w].pick \in Picking /\ WritesOnly(w, {r}) /\ Free(w, r)
           /\ live'[r].state = (IF PickingDone(w) THEN "done" ELSE "confirmed")
 <1>1. PICK r : r = PickingRow(txn[w].pick)
   OBVIOUS
 <1>2. txn[w].pick \in Picking
   BY PickOf DEF PickingDone, ConfirmPicking, At, OfPicking
 <1>3. r \in Row
   BY <1>1, <1>2, RowsIn
 <1>4. CASE PickingDone(w)
  <2>3. PICK v : v = [state |-> "done"]
    OBVIOUS
  <2>1. Write(w, [s \in {r} |-> v])
    BY <1>1, <1>4, <2>3 DEF PickingDone
  <2>2. WritesOnly(w, {r}) /\ live'[r] = v /\ Free(w, r) /\ lock'[r] = w
    BY <1>3, <2>1, WriteOneEffect
  <2> QED
    BY <1>1, <1>2, <1>4, <2>2, <2>3
 <1>5. CASE ConfirmPicking(w) /\ ~PickingDone(w)
  <2>3. PICK v : v = [state |-> "confirmed"]
    OBVIOUS
  <2>1. Write(w, [s \in {r} |-> v])
    BY <1>1, <1>5, <2>3 DEF ConfirmPicking
  <2>2. WritesOnly(w, {r}) /\ live'[r] = v /\ Free(w, r) /\ lock'[r] = w
    BY <1>3, <2>1, WriteOneEffect
  <2> QED
    BY <1>1, <1>2, <1>5, <2>2, <2>3
 <1> QED
   BY <1>4, <1>5

\* The lines of the order.
LEMMA UpdateLinesRows ==
    ASSUME TypeInv, NEW w \in Worker, UpdateLines(w)
    PROVE  LET k == txn[w].pick
               lines == {LineRow(order[k], product[m]) : m \in DoneMoves(w, k)}
           IN /\ k \in Picking /\ order[k] \in Order /\ lines \subseteq LineRows
              /\ WritesOnly(w, lines)
              /\ \A p \in Product :
                    LET r == LineRow(order[k], p) IN
                    /\ r \in lines => live'[r].delivered = live[r].delivered + DoneQuantity(w, k, p)
                    /\ r \notin lines => live'[r] = live[r]
 <1>1. PICK k : k = txn[w].pick
   OBVIOUS
 <1>2. k \in Picking /\ order[k] \in Order
   BY <1>1, PickOf DEF UpdateLines, At, OfPicking, Billing, TypeInv, TxnOK
 <1> DEFINE lines == {LineRow(order[k], product[m]) : m \in DoneMoves(w, k)}
            new == [r \in lines |-> [live[r] EXCEPT !.delivered = @ + DoneQuantity(w, k, r[3])]]
 <1>3. Write(w, new) /\ DOMAIN new = lines
   BY <1>1 DEF UpdateLines
 <1>4. lines \subseteq LineRows
   BY <1>2, DoneMovesFinite, TransferAssumption DEF LineRows
 <1>5. ASSUME NEW p \in Product, LineRow(order[k], p) \in lines
       PROVE  live'[LineRow(order[k], p)].delivered =
                live[LineRow(order[k], p)].delivered + DoneQuantity(w, k, p)
  <2>1. PICK r : r = LineRow(order[k], p)
    OBVIOUS
  <2>2. r \in Row /\ r[3] = p
    BY <1>2, <2>1, RowsIn DEF LineRow
  <2>3. PICK v : v = live[r]
    OBVIOUS
  <2>4. v \in [delivered : Int]
    BY <1>2, <2>1, <2>3 DEF TypeInv, DbTyped, VersionOK
  <2>5. PICK n : n = DoneQuantity(w, k, p)
    OBVIOUS
  <2>6. new[r] = [v EXCEPT !.delivered = @ + n]
    BY <1>5, <2>1, <2>2, <2>3, <2>5
  <2> HIDE DEF new
  <2>7. live'[r] = [v EXCEPT !.delivered = @ + n]
    BY <1>3, <1>5, <2>1, <2>2, <2>6, WriteEffect
  <2>8. [v EXCEPT !.delivered = @ + n].delivered = v.delivered + n
    BY <2>4
  <2> QED
    BY <2>1, <2>3, <2>5, <2>7, <2>8
 <1>6. ASSUME NEW p \in Product, LineRow(order[k], p) \notin lines
       PROVE  live'[LineRow(order[k], p)] = live[LineRow(order[k], p)]
  <2> HIDE DEF new
  <2> QED
    BY <1>2, <1>3, <1>6, RowsIn, WriteEffect
 <1>7. WritesOnly(w, lines)
   BY <1>3, WriteWritesOnly
 <1> HIDE DEF new
 <1> QED
   BY <1>1, <1>2, <1>4, <1>5, <1>6, <1>7

\* Rows the properties are not about.
LEMMA OtherRowsWritten ==
    ASSUME TypeInv, NEW w \in Worker, UpdateOrder(w) \/ RefreshWrite(w)
    PROVE  WritesOnly(w, OtherRows)
 <1>1. CASE UpdateOrder(w)
  <2>1. PICK k : k = txn[w].pick
    OBVIOUS
  <2>2. k \in Picking /\ order[k] \in Order
    BY <1>1, <2>1, PickOf DEF UpdateOrder, At, OfPicking, Billing, TypeInv, TxnOK
  <2> DEFINE complete == \A p \in Product :
                 Visible(w, LineRow(order[k], p)).delivered >= ordered[<<order[k], p>>]
             new == [r \in {OrderRow(order[k])} |->
                        [live[r] EXCEPT !.toInvoice = @ \/ complete]]
  <2>3. Write(w, new)
    BY <1>1, <2>1 DEF UpdateOrder
  <2>4. DOMAIN new \subseteq OtherRows
    BY <2>2 DEF OtherRows
  <2> HIDE DEF new
  <2> QED
    BY <2>3, <2>4, WriteWritesOnly, WritesMore
 <1>2. CASE RefreshWrite(w)
  <2>1. txn[w].cur.prod \in Product
    BY <1>2, CurOf DEF RefreshWrite, At, Applying
  <2> DEFINE new == [r \in {ProductRow(txn[w].cur.prod)} |-> [available |-> txn[w].qty]]
  <2>2. Write(w, new)
    BY <1>2 DEF RefreshWrite
  <2>3. DOMAIN new \subseteq OtherRows
    BY <2>1 DEF OtherRows
  <2> HIDE DEF new
  <2> QED
    BY <2>2, <2>3, WriteWritesOnly, WritesMore
 <1> QED
   BY <1>1, <1>2

-----------------------------------------------------------------------------
(* What the steps do to the quants *)

\* A step that leaves the quantities alone, and takes no reservation below zero.
QtyKept(w) ==
    /\ committed' = committed
    /\ \A p \in Product, l \in Location :
          LET q == QuantRow(p, l) IN
          /\ live'[q].qty = live[q].qty
          /\ live[q].res >= 0 => live'[q].res >= 0
          /\ lock'[q] = lock[q] \/ (Free(w, q) /\ lock'[q] = w)
    /\ txn[w].pc # "in" /\ txn'[w].pc # "in" /\ OthersStay(w)

\* A step that writes no quant keeps every quantity.
LEMMA AwayFromQuants ==
    ASSUME NEW w, NEW R, WritesOnly(w, R), R \cap QuantRows = {}
    PROVE  \A p \in Product, l \in Location :
             LET q == QuantRow(p, l) IN live'[q] = live[q] /\ lock'[q] = lock[q]
  BY RowsIn DEF WritesOnly, QuantRows

\* The tables are apart.
LEMMA TablesApart ==
    /\ AllMoveRows \cap QuantRows = {} /\ PickingRows \cap QuantRows = {}
    /\ LineRows \cap QuantRows = {} /\ OtherRows \cap QuantRows = {}
    /\ AllMoveRows \cap PickingRows = {} /\ AllMoveRows \cap LineRows = {}
    /\ AllMoveRows \cap OtherRows = {} /\ PickingRows \cap LineRows = {}
    /\ PickingRows \cap OtherRows = {} /\ LineRows \cap OtherRows = {}
    /\ \A k : MoveRows(k) \subseteq AllMoveRows
 <1>1. AllMoveRows \cap QuantRows = {} /\ PickingRows \cap QuantRows = {}
   BY RowsApart DEF AllMoveRows, PickingRows, QuantRows
 <1>2. LineRows \cap QuantRows = {} /\ OtherRows \cap QuantRows = {}
   BY RowsApart DEF LineRows, OtherRows, QuantRows
 <1>3. AllMoveRows \cap PickingRows = {} /\ AllMoveRows \cap LineRows = {}
   BY RowsApart DEF AllMoveRows, PickingRows, LineRows
 <1>4. AllMoveRows \cap OtherRows = {} /\ PickingRows \cap LineRows = {}
   BY RowsApart DEF AllMoveRows, OtherRows, PickingRows, LineRows
 <1>5. PickingRows \cap OtherRows = {} /\ LineRows \cap OtherRows = {}
   BY RowsApart DEF PickingRows, LineRows, OtherRows
 <1>6. \A k : MoveRows(k) \subseteq AllMoveRows
   BY DEF MoveRows, MovesOf, AllMoveRows
 <1> QED
   BY <1>1, <1>2, <1>3, <1>4, <1>5, <1>6

\* A statement on other tables than the quants.
LEMMA QtyKeptElsewhere ==
    ASSUME NEW w, NEW R, WritesOnly(w, R), R \cap QuantRows = {},
           txn[w].pc # "in" /\ txn'[w].pc # "in" /\ OthersStay(w)
    PROVE  QtyKept(w)
 <1>1. \A p \in Product, l \in Location :
            LET q == QuantRow(p, l) IN live'[q] = live[q] /\ lock'[q] = lock[q]
   BY AwayFromQuants
 <1> QED
   BY <1>1 DEF QtyKept, WritesOnly

LEMMA QtyKeptReading ==
    ASSUME NEW w, UNCHANGED dbVars,
           txn[w].pc # "in" /\ txn'[w].pc # "in" /\ OthersStay(w)
    PROVE  QtyKept(w)
  BY QtyKeptElsewhere, WritesNothing

\* A statement on the reservation of one quant.
LEMMA QtyKeptReserving ==
    ASSUME NEW w, NEW q \in QuantRows, WritesOnly(w, {q}), Free(w, q), lock'[q] = w,
           live'[q].qty = live[q].qty, live[q].res >= 0 => live'[q].res >= 0,
           txn[w].pc # "in" /\ txn'[w].pc # "in" /\ OthersStay(w)
    PROVE  QtyKept(w)
  BY RowsIn DEF QtyKept, WritesOnly

\* The statements that set the states of transfers and moves.
StateUpdates(w) ==
    \/ ConfirmPicking(w) \/ ConfirmMoves(w) \/ AssignPicking(w) \/ CancelPicking(w)
    \/ CancelMoves(w) \/ UnreserveMoves(w) \/ UnreservePicking(w) \/ ResetPicking(w)
    \/ ResetMoves(w)

\* The statements that write states write no quant.
LEMMA StateUpdateRows ==
    ASSUME TypeInv, NEW w \in Worker, StateUpdates(w)
    PROVE  /\ WritesOnly(w, AllMoveRows \cup PickingRows)
           /\ txn[w].pick \in Picking /\ txn'[w].pick = txn[w].pick
           /\ txn[w].pc \in {"confirm", "confirm_moves", "assign", "cancel", "cancel_moves",
                             "unreserve", "unreserve_picking", "reset", "reset_moves"}
           /\ txn'[w].pc \in {"confirm_moves", "cancel_moves", "unreserve_picking",
                              "reset_moves", "commit"}
           /\ OthersStay(w)
 <1>1. /\ txn[w].pick \in Picking
       /\ txn[w].pc \in {"confirm", "confirm_moves", "assign", "cancel", "cancel_moves",
                         "unreserve", "unreserve_picking", "reset", "reset_moves"}
   BY PickOf DEF ConfirmPicking, ConfirmMoves, AssignPicking, CancelPicking, CancelMoves,
      UnreserveMoves, UnreservePicking, ResetPicking, ResetMoves, At, OfPicking, StateUpdates
 <1>2. PICK pc \in {"confirm_moves", "cancel_moves", "unreserve_picking", "reset_moves",
                    "commit"} : Goto(w, pc)
   BY DEF ConfirmPicking, ConfirmMoves, AssignPicking, CancelPicking, CancelMoves,
      UnreserveMoves, UnreservePicking, ResetPicking, ResetMoves, StateUpdates
 <1>3. txn'[w].pc = pc /\ txn'[w].pick = txn[w].pick /\ OthersStay(w)
   BY <1>2, GotoEffect DEF TypeInv
 <1>4. PickingRow(txn[w].pick) \in PickingRows /\ MoveRows(txn[w].pick) \subseteq AllMoveRows
   BY <1>1, TablesApart DEF PickingRows
 <1>5. \/ WritesOnly(w, {PickingRow(txn[w].pick)})
       \/ WritesOnly(w, MoveRows(txn[w].pick))
  <2>1. CASE ConfirmPicking(w)
    BY <2>1, PickingDoneRow
  <2>2. CASE ConfirmMoves(w) \/ ResetMoves(w)
    BY <2>2, UpdateMovesEffect DEF ConfirmMoves, ResetMoves
  <2>3. CASE AssignPicking(w) \/ CancelPicking(w) \/ UnreservePicking(w) \/ ResetPicking(w)
    BY <1>1, <2>3, UpdatePickingEffect
       DEF AssignPicking, CancelPicking, UnreservePicking, ResetPicking
  <2>4. CASE CancelMoves(w) \/ UnreserveMoves(w)
    BY <2>4, DropMovesEffect DEF CancelMoves, UnreserveMoves
  <2> QED
    BY <2>1, <2>2, <2>3, <2>4 DEF StateUpdates
 <1>6. WritesOnly(w, AllMoveRows \cup PickingRows)
   BY <1>4, <1>5, WritesMore
 <1> QED
   BY <1>1, <1>2, <1>3, <1>6

\* The requests begin by reading.
Requests(w, k) ==
    \/ Confirm(w, k) \/ Validate(w, k) \/ Reset(w, k)
    \/ Assign(w, k) \/ Cancel(w, k) \/ Unreserve(w, k)

\* A new request writes nothing.
LEMMA RequestEffect ==
    ASSUME TypeInv, NEW w \in Worker, NEW k \in Picking, Requests(w, k)
    PROVE  /\ txn[w].pc = "idle" /\ txn[w].pick = NoPicking
           /\ txn'[w].pick = k
           /\ txn'[w].pc \in {"confirm", "load", "reset", "assign", "cancel", "unreserve"}
           /\ OthersStay(w) /\ UNCHANGED dbVars
           /\ OneRequestPerPicking => \A v \in Worker : txn[v].pick # k
 <1>1. {"confirm", "load", "reset", "assign", "cancel", "unreserve"}
          \subseteq OfPicking \ (OfMove \cup Billing)
   BY DEF OfPicking, OfMove, Billing
 <1>2. PICK pc \in {"confirm", "load", "reset", "assign", "cancel", "unreserve"} :
         \E todo \in SUBSET Transfer(Move) : Begin(w, k, pc, todo)
  <2>1. {} \in SUBSET Transfer(Move)
    OBVIOUS
  <2>2. CASE Confirm(w, k) \/ Validate(w, k) \/ Reset(w, k)
    BY <2>1, <2>2 DEF Confirm, Validate, Reset
  <2>3. CASE Assign(w, k) \/ Cancel(w, k) \/ Unreserve(w, k)
    BY <2>3, SelectMovesTyped, HeldMovesTyped DEF Assign, Cancel, Unreserve
  <2> QED
    BY <2>2, <2>3 DEF Requests
 <1>3. PICK todo \in SUBSET Transfer(Move) : Begin(w, k, pc, todo)
   BY <1>2
 <1> QED
   BY <1>1, <1>3, BeginEffect DEF TypeInv

\* A record set for a transaction is the transaction's from then on.
LEMMA SetTxnTo ==
    ASSUME TypeInv, NEW w \in Worker, NEW d, txn' = [txn EXCEPT ![w] = d]
    PROVE  txn'[w] = d /\ OthersStay(w)
  BY SetTxn DEF TypeInv, OthersStay

\* The end of a request, by COMMIT or by ROLLBACK.
Ends(w) ==
    /\ \/ CommitTxn(w) /\ txn[w].pc \in {"commit", "backflush"}
       \/ RollbackTxn(w)
    /\ txn' = [txn EXCEPT ![w] = Idle]

\* COMMIT publishes what the session saw, ROLLBACK restores what all saw.
LEMMA EndsEffect ==
    ASSUME TypeInv, NEW w \in Worker, Ends(w)
    PROVE  txn'[w] = Idle /\ txn'[w].pc = "idle" /\ txn'[w].pick = NoPicking /\ OthersStay(w)
  BY IdleShape, SetTxnTo DEF Ends

\* A step writes as itself, or ends the transaction.
LEMMA StepEnds ==
    ASSUME NEW w, Commit(w) \/ Abort(w) \/ RefuseMove(w)
    PROVE  Ends(w)
  BY DEF Commit, Abort, RefuseMove, Ends, At

\* What each step of a worker does to the quants: two of them move units, the
\* end of the request keeps or drops what it wrote, the others do neither.
LEMMA QuantStep ==
    ASSUME TypeInv, NEW w \in Worker, Steps(w)
    PROVE  QtyKept(w) \/ ApplyOut(w) \/ ApplyIn(w) \/ Ends(w)
 <1> DEFINE Goal == QtyKept(w) \/ ApplyOut(w) \/ ApplyIn(w) \/ Ends(w)
 <1>1. ASSUME NEW k \in Picking, Requests(w, k)
       PROVE  Goal
   BY <1>1, RequestEffect, QtyKeptReading
 <1>2. ASSUME NEW c \in Count, SetOnHand(w, c[1], c[2], c[3])
       PROVE  Goal
  <2>1. PICK d : /\ txn' = [txn EXCEPT ![w] = d] /\ UNCHANGED dbVars
                 /\ txn[w].pc = "idle" /\ d.pc = "out"
    BY <1>2, SetOnHandEffect
  <2> QED
    BY <2>1, SetTxnTo, QtyKeptReading
 <1>3. ASSUME StateUpdates(w)
       PROVE  Goal
  <2>1. (AllMoveRows \cup PickingRows) \cap QuantRows = {}
    BY TablesApart
  <2> QED
    BY <1>3, <2>1, StateUpdateRows, QtyKeptElsewhere
 <1>4. ASSUME AssignMove(w)
       PROVE  Goal
  <2>1. UNCHANGED dbVars /\ txn[w].pc = "assign"
    BY <1>4 DEF AssignMove, At
  <2>2. PICK d : txn' = [txn EXCEPT ![w] = d] /\ d.pc \in {"reserve", "reserved"}
    BY <1>4, AssignMoveEffect
  <2> QED
    BY <2>1, <2>2, SetTxnTo, QtyKeptReading
 <1>5. ASSUME Reserve(w)
       PROVE  Goal
  <2>1. PICK q : q = QuantRow(txn[w].cur.prod, txn[w].cur.src)
    OBVIOUS
  <2>2. /\ WritesOnly(w, {q}) /\ Free(w, q) /\ lock'[q] = w
        /\ live'[q].qty = live[q].qty /\ live'[q].res = live[q].res + txn[w].qty
    BY <1>5, <2>1, ReserveEffect
  <2>3. txn[w].cur.prod \in Product /\ txn[w].cur.src \in Location /\ txn[w].qty \in Nat
    BY <1>5, CurOf DEF Reserve, At, OfMove, TypeInv, TxnOK
  <2>4. q \in QuantRows /\ live[q].res \in Int
    BY <2>1, <2>3 DEF QuantRows, TypeInv, DbTyped, VersionOK, QuantVersion
  <2>5. txn[w].pc = "reserve" /\ txn'[w].pc = "reserved" /\ OthersStay(w)
    BY <1>5, GotoEffect DEF Reserve, At, TypeInv
  <2>6. live[q].res >= 0 => live'[q].res >= 0
    BY <2>2, <2>3, <2>4
  <2>7. txn[w].pc # "in" /\ txn'[w].pc # "in" /\ OthersStay(w)
    BY <2>5
  <2> QED
    BY <2>2, <2>4, <2>6, <2>7, QtyKeptReserving
 <1>6. ASSUME AssignedMove(w) \/ Putaway(w) \/ MoveDone(w)
       PROVE  Goal
  <2>1. txn[w].cur.move \in Move /\ txn[w].pc \in {"reserved", "putaway", "moved"}
    BY <1>6, CurOf DEF AssignedMove, Putaway, MoveDone, At, OfMove
  <2>2. WritesOnly(w, {MoveRow(txn[w].cur.move)})
    BY <1>6, AssignedMoveRow, PutawayRow, MoveDoneRow
  <2>3. {MoveRow(txn[w].cur.move)} \cap QuantRows = {}
    BY <2>1, TablesApart DEF AllMoveRows
  <2>4. txn'[w].pc # "in" /\ OthersStay(w)
   <3>1. CASE AssignedMove(w)
    <4>1. PICK d : txn' = [txn EXCEPT ![w] = d] /\ d.pc = "assign"
      BY <3>1, AssignedMoveEffect
    <4> QED
      BY <4>1, SetTxnTo
   <3>2. CASE Putaway(w)
     BY <3>2, GotoEffect, PcsAfter DEF Putaway, TypeInv
   <3>3. CASE MoveDone(w)
     BY <3>3, GotoEffect DEF MoveDone, TypeInv
   <3> QED
     BY <1>6, <3>1, <3>2, <3>3
  <2> QED
    BY <2>1, <2>2, <2>3, <2>4, QtyKeptElsewhere
 <1>7. ASSUME LoadMoves(w) \/ ValidateMove(w) \/ RefreshSnapshot(w) \/ BackflushSelect(w)
       PROVE  Goal
  <2>1. /\ UNCHANGED dbVars
        /\ txn[w].pc \in {"load", "validate", "refresh", "backflush_select"}
    BY <1>7 DEF LoadMoves, ValidateMove, RefreshSnapshot, BackflushSelect, At
  <2>2. txn'[w].pc # "in" /\ OthersStay(w)
   <3>1. CASE LoadMoves(w)
    <4>1. PICK d : txn' = [txn EXCEPT ![w] = d] /\ d.pc = "validate"
      BY <3>1, LoadMovesEffect
    <4> QED
      BY <4>1, SetTxnTo
   <3>2. CASE ValidateMove(w)
    <4>1. PICK d : \E t \in txn[w].todo, to \in Transfer(Move) :
         /\ t \in Transfer(Move)
         /\ to = [t EXCEPT !.dest = putaway[<<t.prod, t.dest>>]]
         /\ to.move = t.move /\ to.prod = t.prod /\ to.src = t.src /\ to.qty = t.qty
         /\ to.reserved = t.reserved
         /\ TxnOK(d) /\ txn' = [txn EXCEPT ![w] = d]
         /\ d.pc = (IF to.dest # t.dest THEN "putaway" ELSE ReleasePc(to))
         /\ d.pick = txn[w].pick /\ d.todo = txn[w].todo \ {t} /\ d.cur = to
      BY <3>2, ValidateMoveEffect
    <4>2. d.pc # "in"
      BY <4>1, PcsAfter
    <4> QED
      BY <4>1, <4>2, SetTxnTo
   <3>3. CASE RefreshSnapshot(w)
    <4>1. PICK d : txn' = [txn EXCEPT ![w] = d] /\ d.pc = "refreshed"
      BY <3>3, RefreshSnapshotEffect
    <4> QED
      BY <4>1, SetTxnTo
   <3>4. CASE BackflushSelect(w)
    <4>1. PICK d : txn' = [txn EXCEPT ![w] = d] /\ d.pc = "backflush"
      BY <3>4, BackflushSelectEffect
    <4> QED
      BY <4>1, SetTxnTo
   <3> QED
     BY <1>7, <3>1, <3>2, <3>3, <3>4
  <2> QED
    BY <2>1, <2>2, QtyKeptReading
 <1>8. ASSUME ReleaseMove(w) \/ ReleaseHeld(w)
       PROVE  Goal
  <2>1. PICK t : t \in Transfer(Move) /\ ReleasedQuant(w, t)
    BY <1>8, CurOf, ReleaseHeldEffect DEF ReleaseMove, At, OfMove
  <2>2. PICK q : q = QuantRow(t.prod, t.src)
    OBVIOUS
  <2>3. q \in QuantRows /\ live[q].res \in Int /\ t.reserved \in Nat
   <3>1. t.prod \in Product /\ t.src \in Location /\ t.reserved \in Nat
     BY <2>1 DEF Transfer
   <3> QED
     BY <2>2, <3>1 DEF QuantRows, TypeInv, DbTyped, VersionOK, QuantVersion
  <2>4. /\ WritesOnly(w, {q}) /\ Free(w, q) /\ lock'[q] = w
        /\ live'[q].qty = live[q].qty
        /\ live'[q].res = (IF live[q].res - t.reserved >= 0
                            THEN live[q].res - t.reserved ELSE 0)
    BY <2>1, <2>2, ReleasedEffect
  <2>5. live'[q].res >= 0
    BY <2>3, <2>4
  <2>6. txn[w].pc # "in" /\ txn'[w].pc # "in" /\ OthersStay(w)
   <3>1. CASE ReleaseMove(w)
     BY <3>1, GotoEffect, PcsAfter DEF ReleaseMove, At, TypeInv
   <3>2. CASE ReleaseHeld(w)
    <4>1. PICK d : txn' = [txn EXCEPT ![w] = d] /\ d.pc = txn[w].pc
      BY <3>2, ReleaseHeldEffect
    <4>2. txn[w].pc \in {"cancel", "unreserve"}
      BY <3>2 DEF ReleaseHeld, At
    <4> QED
      BY <4>1, <4>2, SetTxnTo
   <3> QED
     BY <1>8, <3>1, <3>2
  <2> QED
    BY <2>3, <2>4, <2>5, <2>6, QtyKeptReserving
 <1>9. ASSUME RefreshWrite(w) \/ UpdateOrder(w)
       PROVE  Goal
  <2>1. WritesOnly(w, OtherRows) /\ txn[w].pc # "in"
    BY <1>9, OtherRowsWritten DEF RefreshWrite, UpdateOrder, At
  <2>2. txn'[w].pc # "in" /\ OthersStay(w)
    BY <1>9, GotoEffect, PcsAfter DEF RefreshWrite, UpdateOrder, AfterOrder, TypeInv
  <2> QED
    BY <2>1, <2>2, TablesApart, QtyKeptElsewhere
 <1>10. ASSUME PickingDone(w)
        PROVE  Goal
  <2>1. WritesOnly(w, {PickingRow(txn[w].pick)}) /\ txn[w].pick \in Picking
    BY <1>10, PickingDoneRow
  <2>2. {PickingRow(txn[w].pick)} \cap QuantRows = {}
    BY <2>1, TablesApart DEF PickingRows
  <2>3. txn[w].pc # "in" /\ txn'[w].pc # "in" /\ OthersStay(w)
    BY <1>10, GotoEffect DEF PickingDone, At, AfterOrder, TypeInv
  <2> QED
    BY <2>1, <2>2, <2>3, QtyKeptElsewhere
 <1>11. ASSUME UpdateLines(w)
        PROVE  Goal
  <2>1. WritesOnly(w, LineRows)
    BY <1>11, UpdateLinesRows, WritesMore
  <2>2. txn[w].pc # "in" /\ txn'[w].pc # "in" /\ OthersStay(w)
    BY <1>11, GotoEffect DEF UpdateLines, At, TypeInv
  <2> QED
    BY <2>1, <2>2, TablesApart, QtyKeptElsewhere
 <1>12. ASSUME Backflush(w)
        PROVE  Goal
  <2>1. PICK d : \E t \in txn[w].todo :
           /\ t \in Transfer(Move)
           /\ Write(w, [r \in {MoveRow(t.move)} |->
                 [live[r] EXCEPT !.quantity = @ + t.qty, !.state = "done"]])
           /\ txn' = [txn EXCEPT ![w] = d]
           /\ d.pc = ApplyPc(t)
    BY <1>12, BackflushEffect
  <2>2. PICK t \in txn[w].todo :
           /\ t \in Transfer(Move)
           /\ Write(w, [r \in {MoveRow(t.move)} |->
                 [live[r] EXCEPT !.quantity = @ + t.qty, !.state = "done"]])
           /\ txn' = [txn EXCEPT ![w] = d]
           /\ d.pc = ApplyPc(t)
    BY <2>1
  <2>3. t.move \in Move /\ txn[w].pc # "in" /\ d.pc # "in"
    BY <1>12, <2>2, PcsAfter DEF Transfer, Backflush, At
  <2>4. WritesOnly(w, {MoveRow(t.move)})
    BY <2>2, BackflushRow
  <2>5. {MoveRow(t.move)} \cap QuantRows = {}
    BY <2>3, TablesApart DEF AllMoveRows
  <2> QED
    BY <2>2, <2>3, <2>4, <2>5, SetTxnTo, QtyKeptElsewhere
 <1>13. ASSUME Commit(w) \/ Abort(w) \/ RefuseMove(w)
        PROVE  Goal
   BY <1>13, StepEnds
 <1>14. ASSUME ApplyOut(w) \/ ApplyIn(w)
        PROVE  Goal
   BY <1>14
 <1> HIDE DEF Goal
 <1>15. ASSUME Statement(w)
        PROVE  Goal
   BY <1>3, <1>4, <1>5, <1>6, <1>7, <1>8, <1>9, <1>10, <1>11, <1>12, <1>13, <1>14, <1>15
      DEF Statement, StateUpdates
 <1>16. Goal
   BY <1>1, <1>2, <1>13, <1>15 DEF Steps, Requests
 <1> QED
   BY <1>16 DEF Goal

-----------------------------------------------------------------------------
(* Reservations are never negative *)

ReservedInv ==
    \A p \in Product, l \in Location :
       live[QuantRow(p, l)].res >= 0 /\ committed[QuantRow(p, l)].res >= 0

\* ReservedInv at the start and after every step.
LEMMA InitReserved ==
    ASSUME Init
    PROVE  ReservedInv
 <1> SUFFICES ASSUME NEW p \in Product, NEW l \in Location
              PROVE  live[QuantRow(p, l)].res >= 0 /\ committed[QuantRow(p, l)].res >= 0
   BY DEF ReservedInv
 <1>1. PICK n : n = IF l = StockLoc THEN onHand[p]
                    ELSE IF l = InventoryLoc THEN 0 - onHand[p] ELSE 0
   OBVIOUS
 <1>2. committed[QuantRow(p, l)] = [qty |-> n, res |-> 0] /\ live = committed
   BY <1>1, InitRows DEF Init
 <1> QED
   BY <1>2

LEMMA StepReserved ==
    ASSUME TypeInv, ReservedInv, NEW w \in Worker, Steps(w)
    PROVE  ReservedInv'
 <1> SUFFICES ASSUME NEW p \in Product, NEW l \in Location
              PROVE  live'[QuantRow(p, l)].res >= 0 /\ committed'[QuantRow(p, l)].res >= 0
   BY DEF ReservedInv
 <1>1. PICK r : r = QuantRow(p, l)
   OBVIOUS
 <1>2. r \in Row /\ live[r].res >= 0 /\ committed[r].res >= 0
   BY <1>1, RowsIn DEF ReservedInv
 <1>3. CASE QtyKept(w)
   BY <1>1, <1>2, <1>3 DEF QtyKept
 <1>4. CASE ApplyOut(w) \/ ApplyIn(w)
  <2>1. PICK q, d : /\ committed' = committed
                    /\ q \in QuantRows /\ WritesOnly(w, {q})
                    /\ live'[q].res = live[q].res
   <3>1. PICK t : t = txn[w].cur
     OBVIOUS
   <3>2. t.prod \in Product /\ t.src \in Location /\ t.dest \in Location
     BY <1>4, <3>1, CurOf DEF ApplyOut, ApplyIn, At, Applying
   <3>3. CASE ApplyOut(w)
     BY <3>1, <3>2, <3>3, AddToQuantEffect DEF ApplyOut, WritesOnly, QuantRows
   <3>4. CASE ApplyIn(w)
     BY <3>1, <3>2, <3>4, AddToQuantEffect DEF ApplyIn, WritesOnly, QuantRows
   <3> QED
     BY <1>4, <3>3, <3>4
  <2> QED
    BY <1>1, <1>2, <2>1 DEF WritesOnly
 <1>5. CASE Ends(w)
   BY <1>1, <1>2, <1>5 DEF Ends, CommitTxn, RollbackTxn, Visible
 <1> QED
   BY <1>3, <1>4, <1>5, QuantStep

\* Every state is well typed.
THEOREM TypesHold == Spec => []TypeInv
 <1>1. Init => TypeInv
   BY InitTyped
 <1>2. TypeInv /\ [Next]_vars => TypeInv'
   BY NextIsAStep, StepKeepsTypes, QuietKeepsTypes
 <1> QED
   BY <1>1, <1>2, PTL DEF Spec

\* However the requests interleave, abort and retry, reserve() only adds and
\* release() stops at zero: no session ever reads a negative reserved_quantity.
THEOREM ReservationsNonNegative == Spec => []ReservedNonNegative
 <1>1. Init => ReservedInv
   BY InitReserved
 <1>2. TypeInv /\ ReservedInv /\ [Next]_vars => ReservedInv'
  <2>1. ReservedInv /\ UNCHANGED vars => ReservedInv'
    BY DEF ReservedInv, vars, dbVars
  <2> QED
    BY <2>1, NextIsAStep, StepReserved
 <1>3. ReservedInv => ReservedNonNegative
   BY DEF ReservedInv, ReservedNonNegative, Quant
 <1>4. Spec => []TypeInv
   BY TypesHold
 <1> QED
   BY <1>1, <1>2, <1>3, <1>4, PTL DEF Spec

-----------------------------------------------------------------------------
(* Units are conserved *)

\* What worker w has added to a quant and not committed.
PendingQty(w, p, l) ==
    LET r == QuantRow(p, l) IN
    IF lock[r] = w THEN live[r].qty - committed[r].qty ELSE 0

\* The units applyMove has taken from a location and not yet put anywhere.
Owed(w, p) == IF txn[w].pc = "in" /\ txn[w].cur.prod = p THEN txn[w].cur.qty ELSE 0

\* What is on record of a product balances, and what a transaction has changed
\* of it balances but for the units on their way.
Balanced ==
    \A p \in Product :
       /\ SumFunction([l \in Location |-> committed[QuantRow(p, l)].qty]) = 0
       /\ \A w \in Worker :
             SumFunction([l \in Location |-> PendingQty(w, p, l)]) = 0 - Owed(w, p)

\* What a transaction has changed and not committed is a number.
LEMMA PendingQtyType ==
    ASSUME TypeInv, NEW w, NEW p \in Product
    PROVE  /\ [l \in Location |-> PendingQty(w, p, l)] \in [Location -> Int]
           /\ [l \in Location |-> committed[QuantRow(p, l)].qty] \in [Location -> Int]
  BY DEF PendingQty, TypeInv, DbTyped, VersionOK, QuantVersion

\* A statement of w that adds d to one quant, at most, adds it to what w has
\* pending there, and to nothing else that anyone has pending.
LEMMA PendingQtyWritten ==
    ASSUME TypeInv, NEW w \in Worker, NEW p \in Product, NEW l \in Location, NEW d \in Int,
           committed' = committed, live'[QuantRow(p, l)].qty = live[QuantRow(p, l)].qty + d,
           \/ d = 0 /\ lock'[QuantRow(p, l)] = lock[QuantRow(p, l)]
           \/ Free(w, QuantRow(p, l)) /\ lock'[QuantRow(p, l)] = w,
           NEW v \in Worker
    PROVE  PendingQty(v, p, l)' = PendingQty(v, p, l) + (IF v = w THEN d ELSE 0)
 <1>1. PICK r : r = QuantRow(p, l)
   OBVIOUS
 <1>2. r \in Row /\ live[r].qty \in Int /\ committed[r].qty \in Int
   BY <1>1, RowsIn DEF TypeInv, DbTyped, VersionOK, QuantVersion
 <1>3. lock[r] = NoTxn => live[r] = committed[r]
   BY <1>2 DEF TypeInv, DbTyped, LocksOK
 <1>4. PendingQty(v, p, l) = IF lock[r] = v THEN live[r].qty - committed[r].qty ELSE 0
   BY <1>1 DEF PendingQty
 <1>5. PendingQty(v, p, l)' = IF lock'[r] = v THEN live'[r].qty - committed[r].qty ELSE 0
   BY <1>1 DEF PendingQty
 <1> QED
   BY <1>1, <1>2, <1>3, <1>4, <1>5, NoTxnAssumption DEF Free

\* The stock counted at the start has its counterpart in virtual locations.
LEMMA InitBalanced ==
    ASSUME Init
    PROVE  Balanced
 <1> SUFFICES ASSUME NEW p \in Product
              PROVE  /\ SumFunction([l \in Location |-> committed[QuantRow(p, l)].qty]) = 0
                     /\ \A w \in Worker :
                          SumFunction([l \in Location |-> PendingQty(w, p, l)]) = 0 - Owed(w, p)
   BY DEF Balanced
 <1>1. PICK f : f = [l \in Location |-> committed[QuantRow(p, l)].qty]
   OBVIOUS
 <1>2. onHand[p] \in Int /\ StockLoc \in Location /\ InventoryLoc \in Location
       /\ StockLoc # InventoryLoc
   BY TransferAssumption
 <1>3. ASSUME NEW l \in Location
       PROVE  f[l] = IF l = StockLoc THEN onHand[p]
                     ELSE IF l = InventoryLoc THEN 0 - onHand[p] ELSE 0
  <2>1. PICK n : n = IF l = StockLoc THEN onHand[p]
                     ELSE IF l = InventoryLoc THEN 0 - onHand[p] ELSE 0
    OBVIOUS
  <2>2. committed[QuantRow(p, l)] = [qty |-> n, res |-> 0]
    BY <2>1, InitRows
  <2> QED
    BY <1>1, <2>1, <2>2
 <1>4. PICK z : z = [l \in Location |-> 0]
   OBVIOUS
 <1>5. PICK g : g = [z EXCEPT ![StockLoc] = onHand[p]]
   OBVIOUS
 <1>6. /\ z \in [Location -> Int] /\ g \in [Location -> Int] /\ f \in [Location -> Int]
       /\ IsFiniteSet(Location)
   BY <1>1, <1>2, <1>3, <1>4, <1>5, TransferAssumption
 <1>7. SumFunction(z) = 0
   BY <1>4, <1>6, SumFunctionZero
 <1>8. SumFunction(g) = onHand[p]
  <2>1. \A y \in Location : y # StockLoc => g[y] = z[y]
    BY <1>4, <1>5
  <2>2. SumFunction(g) = SumFunction(z) + g[StockLoc] - z[StockLoc]
    BY <1>2, <1>6, <2>1, SumFunctionUpdate
  <2> QED
    BY <1>2, <1>4, <1>5, <1>7, <2>2
 <1>9. SumFunction(f) = 0
  <2>1. \A l \in Location : l # InventoryLoc => f[l] = g[l]
    BY <1>2, <1>3, <1>4, <1>5
  <2>2. SumFunction(f) = SumFunction(g) + f[InventoryLoc] - g[InventoryLoc]
    BY <1>2, <1>6, <2>1, SumFunctionUpdate
  <2>3. f[InventoryLoc] = 0 - onHand[p] /\ g[InventoryLoc] = 0
    BY <1>2, <1>3, <1>4, <1>5
  <2> QED
    BY <1>2, <1>8, <2>2, <2>3
 <1>10. ASSUME NEW w \in Worker
        PROVE  SumFunction([l \in Location |-> PendingQty(w, p, l)]) = 0 - Owed(w, p)
  <2>1. \A l \in Location : PendingQty(w, p, l) = 0
    BY RowsIn, NoTxnAssumption DEF Init, PendingQty
  <2>2. [l \in Location |-> PendingQty(w, p, l)] = z
    BY <1>4, <2>1
  <2>3. Owed(w, p) = 0
    BY IdleShape DEF Init, Owed
  <2> QED
    BY <1>7, <2>2, <2>3
 <1> QED
   BY <1>1, <1>9, <1>10

\* Statements that move no unit.
LEMMA KeptBalanced ==
    ASSUME TypeInv, Balanced, NEW w \in Worker, QtyKept(w)
    PROVE  Balanced'
 <1> SUFFICES ASSUME NEW p \in Product
              PROVE  /\ SumFunction([l \in Location |-> committed'[QuantRow(p, l)].qty]) = 0
                     /\ \A v \in Worker :
                          SumFunction([l \in Location |-> PendingQty(v, p, l)'])
                            = 0 - Owed(v, p)'
   BY DEF Balanced
 <1>1. committed' = committed
   BY DEF QtyKept
 <1>2. ASSUME NEW v \in Worker
       PROVE  SumFunction([l \in Location |-> PendingQty(v, p, l)']) = 0 - Owed(v, p)'
  <2>1. ASSUME NEW l \in Location
        PROVE  PendingQty(v, p, l)' = PendingQty(v, p, l)
   <3>1. PICK r : r = QuantRow(p, l)
     OBVIOUS
   <3>2. /\ live'[r].qty = live[r].qty + 0 /\ live[r].qty \in Int
         /\ lock'[r] = lock[r] \/ (Free(w, r) /\ lock'[r] = w)
     BY <3>1 DEF QtyKept, TypeInv, DbTyped, VersionOK, QuantVersion
   <3>3. PendingQty(v, p, l)' = PendingQty(v, p, l) + (IF v = w THEN 0 ELSE 0)
     BY <1>1, <3>1, <3>2, PendingQtyWritten
   <3>4. PendingQty(v, p, l) \in Int
     BY PendingQtyType
   <3> QED
     BY <3>3, <3>4
  <2>2. [l \in Location |-> PendingQty(v, p, l)'] = [l \in Location |-> PendingQty(v, p, l)]
    BY <2>1
  <2>3. Owed(v, p)' = Owed(v, p)
    BY DEF QtyKept, OthersStay, Owed
  <2>4. SumFunction([l \in Location |-> PendingQty(v, p, l)]) = 0 - Owed(v, p)
    BY DEF Balanced
  <2> QED
    BY <2>2, <2>3, <2>4
 <1> QED
   BY <1>1, <1>2 DEF Balanced

\* A statement that adds units to one quant, and what is owed changes with it.
LEMMA AddedBalanced ==
    ASSUME TypeInv, Balanced, NEW w \in Worker, NEW p0 \in Product, NEW l0 \in Location,
           NEW d \in Int, AddToQuant(w, p0, l0, d), OthersStay(w),
           \A p \in Product : Owed(w, p) \in Int,
           \A p \in Product : Owed(w, p)' = (IF p = p0 THEN Owed(w, p) - d ELSE Owed(w, p))
    PROVE  Balanced'
 <1> SUFFICES ASSUME NEW p \in Product
              PROVE  /\ SumFunction([l \in Location |-> committed'[QuantRow(p, l)].qty]) = 0
                     /\ \A v \in Worker :
                          SumFunction([l \in Location |-> PendingQty(v, p, l)'])
                            = 0 - Owed(v, p)'
   BY DEF Balanced
 <1>1. PICK q0 : q0 = QuantRow(p0, l0)
   OBVIOUS
 <1>2. /\ WritesOnly(w, {q0}) /\ Free(w, q0) /\ lock'[q0] = w
       /\ live'[q0].qty = live[q0].qty + d
  <2>1. LET q == QuantRow(p0, l0) IN
         /\ WritesOnly(w, {q}) /\ Free(w, q) /\ lock'[q] = w
         /\ live'[q].qty = live[q].qty + d
         /\ live'[q].res = live[q].res
    BY AddToQuantEffect
  <2> QED
    BY <1>1, <2>1
 <1>3. committed' = committed
   BY <1>2 DEF WritesOnly
 <1>4. ASSUME NEW v \in Worker
       PROVE  SumFunction([l \in Location |-> PendingQty(v, p, l)']) = 0 - Owed(v, p)'
  <2>1. ASSUME NEW l \in Location
        PROVE  PendingQty(v, p, l)' = PendingQty(v, p, l)
                  + (IF v = w /\ p = p0 /\ l = l0 THEN d ELSE 0)
   <3>1. PICK r : r = QuantRow(p, l)
     OBVIOUS
   <3>2. r \in Row /\ live[r].qty \in Int
     BY <3>1, RowsIn DEF TypeInv, DbTyped, VersionOK, QuantVersion
   <3>3. CASE p = p0 /\ l = l0
    <4>1. PendingQty(v, p, l)' = PendingQty(v, p, l) + (IF v = w THEN d ELSE 0)
      BY <1>1, <1>2, <1>3, <3>3, PendingQtyWritten
    <4> QED
      BY <3>3, <4>1
   <3>4. CASE ~(p = p0 /\ l = l0)
    <4>1. r # q0
      BY <1>1, <3>1, <3>4, RowsApart
    <4>2. live'[r].qty = live[r].qty + 0 /\ lock'[r] = lock[r]
      BY <1>2, <3>2, <4>1 DEF WritesOnly
    <4>3. PendingQty(v, p, l)' = PendingQty(v, p, l) + (IF v = w THEN 0 ELSE 0)
      BY <1>3, <3>1, <4>2, PendingQtyWritten
    <4> QED
      BY <3>4, <4>3
   <3> QED
     BY <3>3, <3>4
  <2>2. PICK f : f = [l \in Location |-> PendingQty(v, p, l)]
    OBVIOUS
  <2>3. PICK g : g = [l \in Location |-> PendingQty(v, p, l)']
    OBVIOUS
  <2>4. f \in [Location -> Int] /\ g \in [Location -> Int] /\ IsFiniteSet(Location)
   <3>1. \A l \in Location : PendingQty(v, p, l) \in Int
     BY PendingQtyType
   <3>2. \A l \in Location : PendingQty(v, p, l)' \in Int
     BY <2>1, <3>1
   <3> QED
     BY <2>2, <2>3, <3>1, <3>2, TransferAssumption
  <2>5. SumFunction(f) = 0 - Owed(v, p)
    BY <2>2 DEF Balanced
  <2>6. \A l \in Location : l # l0 => g[l] = f[l]
    BY <2>1, <2>2, <2>3, <2>4
  <2>7. SumFunction(g) = SumFunction(f) + g[l0] - f[l0]
    BY <2>4, <2>6, SumFunctionUpdate
  <2>8. g[l0] = f[l0] + (IF v = w /\ p = p0 THEN d ELSE 0)
    BY <2>1, <2>2, <2>3
  <2>9. SumFunction(f) \in Int /\ f[l0] \in Int
    BY <2>4, SumFunctionType
  <2>10. CASE v = w
   <3>1. Owed(v, p) \in Int /\ Owed(v, p)' = IF p = p0 THEN Owed(v, p) - d ELSE Owed(v, p)
     BY <2>10
   <3> QED
     BY <2>3, <2>5, <2>7, <2>8, <2>9, <2>10, <3>1
  <2>11. CASE v # w
   <3>1. Owed(v, p)' = Owed(v, p)
     BY <2>11 DEF OthersStay, Owed
   <3> QED
     BY <2>3, <2>5, <2>7, <2>8, <2>9, <2>11, <3>1
  <2> QED
    BY <2>10, <2>11
 <1> QED
   BY <1>3, <1>4 DEF Balanced

\* Balanced after each kind of step: applyMove first owes, then settles.
LEMMA OwedType ==
    ASSUME TypeInv, NEW w \in Worker, NEW p
    PROVE  Owed(w, p) \in Nat
 <1>1. CASE txn[w].pc = "in"
   BY <1>1, CurOf DEF Owed, Applying
 <1>2. CASE txn[w].pc # "in"
   BY <1>2 DEF Owed
 <1> QED
   BY <1>1, <1>2

LEMMA AppliedBalanced ==
    ASSUME TypeInv, Balanced, NEW w \in Worker, ApplyOut(w) \/ ApplyIn(w)
    PROVE  Balanced'
 <1>1. PICK t : t = txn[w].cur
   OBVIOUS
 <1>2. t.prod \in Product /\ t.src \in Location /\ t.dest \in Location /\ t.qty \in Nat
   BY <1>1, CurOf DEF ApplyOut, ApplyIn, At, Applying
 <1>3. \A p \in Product : Owed(w, p) \in Int
   BY OwedType
 <1>4. CASE ApplyOut(w)
  <2>1. AddToQuant(w, t.prod, t.src, 0 - t.qty) /\ 0 - t.qty \in Int
    BY <1>1, <1>2, <1>4 DEF ApplyOut
  <2>2. txn[w].pc = "out" /\ txn'[w].pc = "in" /\ txn'[w].cur = t /\ OthersStay(w)
    BY <1>1, <1>4, GotoEffect DEF ApplyOut, At, TypeInv
  <2>3. \A p \in Product :
          Owed(w, p)' = IF p = t.prod THEN Owed(w, p) - (0 - t.qty) ELSE Owed(w, p)
    BY <1>1, <1>2, <2>2 DEF Owed
  <2> QED
    BY <1>2, <1>3, <2>1, <2>2, <2>3, AddedBalanced
 <1>5. CASE ApplyIn(w)
  <2>1. AddToQuant(w, t.prod, t.dest, t.qty) /\ t.qty \in Int
    BY <1>1, <1>2, <1>5 DEF ApplyIn
  <2>2. txn[w].pc = "in" /\ txn'[w].pc = "refresh" /\ OthersStay(w)
    BY <1>1, <1>5, GotoEffect DEF ApplyIn, At, TypeInv
  <2>3. \A p \in Product :
          Owed(w, p)' = IF p = t.prod THEN Owed(w, p) - t.qty ELSE Owed(w, p)
    BY <1>1, <1>2, <2>2 DEF Owed
  <2> QED
    BY <1>2, <1>3, <2>1, <2>2, <2>3, AddedBalanced
 <1> QED
   BY <1>4, <1>5

\* COMMIT keeps what a transaction has pending, ROLLBACK drops it.
LEMMA EndedBalanced ==
    ASSUME TypeInv, Balanced, NEW w \in Worker, Ends(w)
    PROVE  Balanced'
 <1> SUFFICES ASSUME NEW p \in Product
              PROVE  /\ SumFunction([l \in Location |-> committed'[QuantRow(p, l)].qty]) = 0
                     /\ \A v \in Worker :
                          SumFunction([l \in Location |-> PendingQty(v, p, l)'])
                            = 0 - Owed(v, p)'
   BY DEF Balanced
 <1>1. /\ txn'[w].pc = "idle" /\ OthersStay(w)
       /\ \A r \in Row : lock'[r] = (IF lock[r] = w THEN NoTxn ELSE lock[r])
       /\ \/ CommitTxn(w) /\ txn[w].pc \in {"commit", "backflush"}
          \/ RollbackTxn(w)
   BY EndsEffect DEF Ends, CommitTxn, RollbackTxn
 <1>2. PICK f : f = [l \in Location |-> committed[QuantRow(p, l)].qty]
   OBVIOUS
 <1>3. PICK h : h = [l \in Location |-> PendingQty(w, p, l)]
   OBVIOUS
 <1>4. /\ f \in [Location -> Int] /\ h \in [Location -> Int] /\ IsFiniteSet(Location)
       /\ SumFunction(f) = 0 /\ SumFunction(h) = 0 - Owed(w, p)
   BY <1>2, <1>3, PendingQtyType, TransferAssumption DEF Balanced
 <1>5. SumFunction([l \in Location |-> committed'[QuantRow(p, l)].qty]) = 0
  <2>1. PICK g : g = [l \in Location |-> committed'[QuantRow(p, l)].qty]
    OBVIOUS
  <2>2. CASE CommitTxn(w) /\ txn[w].pc \in {"commit", "backflush"}
   <3>1. \A l \in Location : g[l] = f[l] + h[l]
    <4> SUFFICES ASSUME NEW l \in Location
                 PROVE  g[l] = f[l] + h[l]
      OBVIOUS
    <4>1. PICK r : r = QuantRow(p, l)
      OBVIOUS
    <4>2. r \in Row /\ live[r].qty \in Int /\ committed[r].qty \in Int
      BY <4>1, RowsIn DEF TypeInv, DbTyped, VersionOK, QuantVersion
    <4>3. committed'[r] = IF lock[r] = w THEN live[r] ELSE committed[r]
      BY <2>2, <4>2 DEF CommitTxn, Visible
    <4>4. h[l] = IF lock[r] = w THEN live[r].qty - committed[r].qty ELSE 0
      BY <1>3, <4>1 DEF PendingQty
    <4>5. f[l] = committed[r].qty /\ g[l] = committed'[r].qty
      BY <1>2, <2>1, <4>1
    <4> QED
      BY <4>2, <4>3, <4>4, <4>5
   <3>2. g \in [Location -> Int]
     BY <1>4, <2>1, <3>1
   <3>3. SumFunction(g) = SumFunction(f) + SumFunction(h)
     BY <1>4, <3>1, <3>2, SumFunctionPlus
   <3>4. Owed(w, p) = 0
     BY <2>2 DEF Owed
   <3> QED
     BY <1>4, <2>1, <3>3, <3>4
  <2>3. CASE RollbackTxn(w)
   <3>1. g = f
     BY <1>2, <2>1, <2>3 DEF RollbackTxn
   <3> QED
     BY <1>4, <2>1, <3>1
  <2> QED
    BY <1>1, <2>2, <2>3
 <1>6. ASSUME NEW v \in Worker
       PROVE  SumFunction([l \in Location |-> PendingQty(v, p, l)']) = 0 - Owed(v, p)'
  <2>1. CASE v = w
   <3>1. \A l \in Location : PendingQty(v, p, l)' = 0
     BY <1>1, <2>1, RowsIn, NoTxnAssumption DEF PendingQty
   <3>2. PICK z : z = [l \in Location |-> PendingQty(v, p, l)']
     OBVIOUS
   <3>3. z \in [Location -> Int] /\ \A l \in Location : z[l] = 0
     BY <3>1, <3>2
   <3>4. SumFunction(z) = 0
     BY <1>4, <3>3, SumFunctionZero
   <3>5. Owed(v, p)' = 0
     BY <1>1, <2>1 DEF Owed
   <3> QED
     BY <3>2, <3>4, <3>5
  <2>2. CASE v # w
   <3>1. ASSUME NEW l \in Location
         PROVE  PendingQty(v, p, l)' = PendingQty(v, p, l)
    <4>1. PICK r : r = QuantRow(p, l)
      OBVIOUS
    <4>2. r \in Row
      BY <4>1, RowsIn
    <4>3. (lock'[r] = v) = (lock[r] = v)
      BY <1>1, <2>2, <4>2, NoTxnAssumption
    <4>4. lock[r] = v => live'[r] = live[r] /\ committed'[r] = committed[r]
      BY <1>1, <2>2, <4>2 DEF CommitTxn, RollbackTxn, Visible
    <4> QED
      BY <4>1, <4>3, <4>4 DEF PendingQty
   <3>2. Owed(v, p)' = Owed(v, p)
     BY <1>1, <2>2 DEF OthersStay, Owed
   <3>3. [l \in Location |-> PendingQty(v, p, l)'] = [l \in Location |-> PendingQty(v, p, l)]
     BY <3>1
   <3>4. SumFunction([l \in Location |-> PendingQty(v, p, l)]) = 0 - Owed(v, p)
     BY DEF Balanced
   <3> QED
     BY <3>2, <3>3, <3>4
  <2> QED
    BY <2>1, <2>2
 <1> QED
   BY <1>5, <1>6

\* Balanced after every step.
LEMMA StepBalanced ==
    ASSUME TypeInv, Balanced, NEW w \in Worker, Steps(w)
    PROVE  Balanced'
  BY QuantStep, KeptBalanced, AppliedBalanced, EndedBalanced

LEMMA QuietBalanced ==
    ASSUME Balanced, UNCHANGED vars
    PROVE  Balanced'
  BY DEF Balanced, PendingQty, Owed, vars, dbVars

\* applyMove takes from one quant what it adds to another, in the caller's
\* transaction: no session ever sees a product whose quants do not balance,
\* whatever interleaves, waits, fails or is aborted in between.
THEOREM UnitsConserved == Spec => []Conserved
 <1>1. Init => Balanced
   BY InitBalanced
 <1>2. TypeInv /\ Balanced /\ [Next]_vars => Balanced'
   BY NextIsAStep, StepBalanced, QuietBalanced
 <1>3. Balanced => Conserved
   BY DEF Balanced, Conserved, OnRecord, Quant
 <1>4. Spec => []TypeInv
   BY TypesHold
 <1> QED
   BY <1>1, <1>2, <1>3, <1>4, PTL DEF Spec

-----------------------------------------------------------------------------
(* One request per transfer at a time: what a request knows about the       *)
(* transfer it works on, and what it has made of it so far                   *)

Assigning == {"assign", "reserve", "reserved"}

\* A transfer of a move is in hand; an inventory count has no move.
AtWork(t) == t.pc \in OfMove \/ (t.pc \in Applying /\ t.cur.move \in Move)

\* The moves a request has still to work on.
Todo(t) == {u.move : u \in t.todo}
Pending(t) == Todo(t) \cup (IF AtWork(t) THEN {t.cur.move} ELSE {})

Validating(t) ==
    \/ t.pc \in {"validate", "putaway", "release", "moved"}
    \/ t.pc \in Applying /\ t.cur.move \in Move /\ ~IsComponent(t.cur.move)

Backflushing(t) ==
    \/ t.pc = "backflush"
    \/ t.pc \in Applying /\ t.cur.move \in Move /\ IsComponent(t.cur.move)

\* Where a request has no selected moves left, or none yet.
Plain == {"confirm", "confirm_moves", "load", "bill", "status", "backflush_select",
          "cancel_moves", "unreserve_picking", "reset", "reset_moves", "commit"}

\* The moves a request has selected are still what it has selected: x holds
\* the newest versions of the moves of its transfer.
KnowsTodo(t, x) ==
    /\ \A u \in t.todo :
          /\ u.move \in MovesOf(t.pick) /\ u.prod = product[u.move] /\ u.src = source[u.move]
          /\ u.dest = x[u.move].dest /\ u.reserved = x[u.move].reserved
    /\ ~Backflushing(t) => \A u, v \in t.todo : u.move = v.move => u = v
    /\ Backflushing(t) => \A u \in t.todo : IsComponent(u.move)
    /\ t.pc \in Plain => t.todo = {}

KnowsCur(t, x) ==
    /\ t.pc \in Applying => AtWork(t)
    /\ AtWork(t) =>
         LET u == t.cur IN
         /\ u.move \in MovesOf(t.pick) /\ u.prod = product[u.move] /\ u.src = source[u.move]
         /\ ~Backflushing(t) => u.move \notin Todo(t)
         /\ t.pc = "reserve" => u.reserved = x[u.move].reserved + t.qty
         /\ t.pc \notin {"reserve", "reserved"} => u.reserved = x[u.move].reserved
         /\ t.pc \notin {"reserve", "reserved", "putaway"} => u.dest = x[u.move].dest

\* A move that is not reserved is not assigned, one that is not done has done
\* nothing, and a component exists only once it is consumed.
RowOK(m, v) ==
    /\ v.reserved > 0 => v.state \in {"assigned", "partially_available"}
    /\ v.state # "done" => v.quantity = 0
    /\ IsComponent(m) => v.state \in {"absent", "done"}
    /\ ~IsComponent(m) => v.state # "absent"

RowsOK(x) == \A m \in DOMAIN x : RowOK(m, x[m])

\* HeaderMatchesMoves, for the moves of one transfer in state p.
Agree(x, p) ==
    \A m \in DOMAIN x :
       \/ IsComponent(m) /\ (x[m].state = "done" => p = "done")
       \/ p = "partially_available" /\ x[m].state \in {"assigned", "partially_available"}
       \/ p # "partially_available" /\ x[m].state = p

\* The moves the transfer was created with are in a state of S, and no
\* component is consumed.
AllIn(x, S) ==
    \A m \in DOMAIN x : IF IsComponent(m) THEN x[m].state # "done" ELSE x[m].state \in S

AllDone(x) == \A m \in DOMAIN x : ~IsComponent(m) => x[m].state = "done"

\* Where the moves x and the header p of a transfer are while request t works
\* on it; b holds the versions of the moves at the last commit.
Phase(t, x, p, b) ==
    /\ t.pc = "confirm" => p = "draft" /\ Agree(x, p)
    /\ t.pc = "confirm_moves" => p = "confirmed" /\ AllIn(x, {"draft"})
    /\ t.pc \in Assigning =>
          /\ \A m \in Pending(t) : x[m].state \in {"confirmed", "partially_available"}
          /\ p \notin {"confirmed", "partially_available"} => Agree(x, p) /\ Pending(t) = {}
          /\ p \in {"confirmed", "partially_available"} =>
                \A m \in DOMAIN x :
                   IF IsComponent(m) THEN x[m].state # "done"
                   ELSE m \notin Pending(t) =>
                           /\ x[m].state \in {"assigned", "partially_available"}
                           /\ t.full => x[m].state = "assigned"
    /\ t.pc = "load" => p \notin {"done", "cancel"} /\ Agree(x, p)
    /\ Validating(t) =>
          /\ p \notin {"done", "cancel"}
          /\ \A m \in DOMAIN x :
                IF m \in Pending(t) THEN x[m].state \in OpenStates
                ELSE IF IsComponent(m) THEN x[m].state # "done" ELSE x[m].state = "done"
    /\ t.pc = "bill" => \A m \in DOMAIN x : IsComponent(m) => x[m].state # "done"
    /\ t.pc = "load" \/ Validating(t) \/ t.pc = "bill" =>
          \A m \in DOMAIN b : b[m].state # "done"
    /\ Backflushing(t) \/ t.pc \in Billing \cup {"backflush_select"} =>
          p = "done" /\ AllDone(x)
    /\ t.pc \in {"cancel", "unreserve", "reset", "commit"} => Agree(x, p)
    /\ t.pc = "cancel_moves" =>
          \/ p = "done" /\ AllDone(x)
          \/ p = "cancel" /\ \A m \in DOMAIN x : x[m].state # "done"
    /\ t.pc = "unreserve_picking" =>
          IF p \in {"assigned", "partially_available"} THEN AllIn(x, {"confirmed"})
          ELSE Agree(x, p)
    /\ t.pc = "reset_moves" =>
          \/ p = "draft" /\ AllIn(x, {"draft", "cancel"})
          \/ p \notin {"draft", "cancel"} /\ Agree(x, p)

\* The moves and the state of the transfer request w works on, newest and last
\* committed.
Mine(w) == [m \in MovesOf(txn[w].pick) |-> live[MoveRow(m)]]
Head(w) == live[PickingRow(txn[w].pick)].state
Base(w) == [m \in MovesOf(txn[w].pick) |-> committed[MoveRow(m)]]

WorkOK(t, x, p, b) == KnowsTodo(t, x) /\ KnowsCur(t, x) /\ RowsOK(x) /\ Phase(t, x, p, b)

\* A request that is on no transfer is an inventory count, or none.
Elsewhere(t) ==
    /\ t.todo = {}
    /\ t.pc \in {"idle", "commit"} \cup Applying
    /\ t.pc \in Applying =>
          t.cur.move = NoMove /\ {t.cur.src, t.cur.dest} \subseteq Internal \cup {InventoryLoc}

Saved(k) == [m \in MovesOf(k) |-> committed[MoveRow(m)]]

WorkInv ==
    /\ \A v, w \in Worker : txn[v].pick = txn[w].pick /\ txn[w].pick \in Picking => v = w
    /\ \A m \in Move, w \in Worker : lock[MoveRow(m)] = w => picking[m] = txn[w].pick
    /\ \A k \in Picking, w \in Worker : lock[PickingRow(k)] = w => k = txn[w].pick
    /\ \A r \in Row, w \in Worker : lock[r] = w => txn[w].pc # "idle"
    /\ \A k \in Picking : RowsOK(Saved(k)) /\ Agree(Saved(k), committed[PickingRow(k)].state)
    /\ \A w \in Worker :
          IF txn[w].pick \in Picking
          THEN txn[w].pc # "idle" /\ WorkOK(txn[w], Mine(w), Head(w), Base(w))
          ELSE Elsewhere(txn[w])

-----------------------------------------------------------------------------
(* Frames: a request writes the rows of its own transfer only *)

\* Worker w works on its own transfer, or begins to work on one.
StepFrame(w) ==
    /\ committed' = committed /\ OthersStay(w) /\ txn'[w].pc # "idle"
    /\ \A m \in Move :
          LET r == MoveRow(m) IN
          \/ live'[r] = live[r] /\ lock'[r] = lock[r]
          \/ picking[m] = txn[w].pick /\ lock'[r] = w
    /\ \A k \in Picking :
          LET r == PickingRow(k) IN
          \/ live'[r] = live[r] /\ lock'[r] = lock[r]
          \/ k = txn[w].pick /\ lock'[r] = w
    /\ \A r \in Row : lock'[r] \in {lock[r], w}
    /\ \/ txn'[w].pick = txn[w].pick
       \/ /\ txn[w].pick = NoPicking /\ UNCHANGED dbVars
          /\ OneRequestPerPicking => \A v \in Worker : txn[v].pick # txn'[w].pick

\* What a request writes belongs to its own transfer, or to no transfer.
LEMMA WritesFrame ==
    ASSUME NEW w, NEW R, WritesOnly(w, R), OthersStay(w), txn'[w].pc # "idle",
           txn'[w].pick = txn[w].pick,
           R \cap AllMoveRows \subseteq MoveRows(txn[w].pick),
           R \cap PickingRows \subseteq {PickingRow(txn[w].pick)}
    PROVE  StepFrame(w)
 <1>1. committed' = committed /\ \A r \in Row : lock'[r] \in {lock[r], w}
   BY DEF WritesOnly
 <1>2. ASSUME NEW m \in Move
       PROVE  LET r == MoveRow(m) IN
              \/ live'[r] = live[r] /\ lock'[r] = lock[r]
              \/ picking[m] = txn[w].pick /\ lock'[r] = w
  <2>1. MoveRow(m) \in MoveRows(txn[w].pick) => picking[m] = txn[w].pick
    BY RowsApart DEF MoveRows, MovesOf
  <2>2. MoveRow(m) \in AllMoveRows /\ MoveRow(m) \in Row
    BY RowsIn DEF AllMoveRows
  <2> QED
    BY <2>1, <2>2 DEF WritesOnly
 <1>3. ASSUME NEW k \in Picking
       PROVE  LET r == PickingRow(k) IN
              \/ live'[r] = live[r] /\ lock'[r] = lock[r]
              \/ k = txn[w].pick /\ lock'[r] = w
  <2>1. PickingRow(k) = PickingRow(txn[w].pick) => k = txn[w].pick
    BY RowsApart
  <2>2. PickingRow(k) \in PickingRows /\ PickingRow(k) \in Row
    BY RowsIn DEF PickingRows
  <2> QED
    BY <2>1, <2>2 DEF WritesOnly
 <1> QED
   BY <1>1, <1>2, <1>3 DEF StepFrame

\* A statement on a table that is neither the transfers' nor the moves'.
LEMMA WritesElsewhereFrame ==
    ASSUME NEW w, NEW R, WritesOnly(w, R), OthersStay(w), txn'[w].pc # "idle",
           txn'[w].pick = txn[w].pick, R \subseteq QuantRows \cup LineRows \cup OtherRows
    PROVE  StepFrame(w)
  BY TablesApart, WritesFrame

LEMMA ReadsFrame ==
    ASSUME NEW w, UNCHANGED dbVars, OthersStay(w), txn'[w].pc # "idle",
           txn'[w].pick = txn[w].pick
    PROVE  StepFrame(w)
  BY WritesNothing, WritesElsewhereFrame

\* Nobody else writes the rows of the transfer a request works on.
LEMMA MineFacts ==
    ASSUME TypeInv, WorkInv, NEW w \in Worker, txn[w].pick \in Picking
    PROVE  /\ \A m \in MovesOf(txn[w].pick) :
                 /\ m \in Move /\ Free(w, MoveRow(m))
                 /\ Visible(w, MoveRow(m)) = Mine(w)[m]
                 /\ live[MoveRow(m)] = Mine(w)[m] /\ Mine(w)[m] \in MoveVersion
                 /\ committed[MoveRow(m)] = Base(w)[m] /\ Base(w)[m] \in MoveVersion
           /\ DOMAIN Mine(w) = MovesOf(txn[w].pick) /\ DOMAIN Base(w) = MovesOf(txn[w].pick)
           /\ Free(w, PickingRow(txn[w].pick))
           /\ Visible(w, PickingRow(txn[w].pick)).state = Head(w)
           /\ Head(w) \in PickingStates
           /\ WorkOK(txn[w], Mine(w), Head(w), Base(w)) /\ txn[w].pc # "idle"
 <1>1. PICK k : k = txn[w].pick
   OBVIOUS
 <1>2. ASSUME NEW m \in MovesOf(k)
       PROVE  /\ m \in Move /\ Free(w, MoveRow(m))
              /\ Visible(w, MoveRow(m)) = Mine(w)[m]
              /\ live[MoveRow(m)] = Mine(w)[m] /\ Mine(w)[m] \in MoveVersion
              /\ committed[MoveRow(m)] = Base(w)[m] /\ Base(w)[m] \in MoveVersion
  <2>1. m \in Move /\ picking[m] = k /\ MoveRow(m) \in Row
    BY RowsIn DEF MovesOf
  <2>2. lock[MoveRow(m)] \in Worker \cup {NoTxn}
    BY <2>1 DEF TypeInv, DbTyped, LocksOK
  <2>3. Free(w, MoveRow(m))
    BY <1>1, <2>1, <2>2 DEF WorkInv, Free
  <2>4. Visible(w, MoveRow(m)) = live[MoveRow(m)]
    BY <2>1, <2>3, VisibleIsLive DEF TypeInv, DbTyped
  <2> QED
    BY <1>1, <2>1, <2>3, <2>4 DEF Mine, Base, TypeInv, DbTyped, VersionOK
 <1>3. Free(w, PickingRow(k)) /\ PickingRow(k) \in Row /\ k \in Picking
  <2>1. PickingRow(k) \in Row /\ k \in Picking
    BY <1>1, RowsIn
  <2>2. lock[PickingRow(k)] \in Worker \cup {NoTxn}
    BY <2>1 DEF TypeInv, DbTyped, LocksOK
  <2> QED
    BY <1>1, <2>1, <2>2 DEF WorkInv, Free
 <1>4. Visible(w, PickingRow(k)) = live[PickingRow(k)]
   BY <1>3, VisibleIsLive DEF TypeInv, DbTyped
 <1>5. Head(w) \in PickingStates
   BY <1>1, <1>3 DEF Head, TypeInv, DbTyped, VersionOK
 <1>6. WorkOK(txn[w], Mine(w), Head(w), Base(w)) /\ txn[w].pc # "idle"
   BY DEF WorkInv
 <1>7. DOMAIN Mine(w) = MovesOf(k) /\ DOMAIN Base(w) = MovesOf(k)
   BY <1>1 DEF Mine, Base
 <1> QED
   BY <1>1, <1>2, <1>3, <1>4, <1>5, <1>6, <1>7 DEF Head

\* A request leaves the transfers of the others as they are.
LEMMA OthersFramed ==
    ASSUME TypeInv, WorkInv, NEW w \in Worker, StepFrame(w), OneRequestPerPicking,
           NEW v \in Worker, v # w
    PROVE  /\ txn'[v] = txn[v]
           /\ txn[v].pick \in Picking =>
                Mine(v)' = Mine(v) /\ Head(v)' = Head(v) /\ Base(v)' = Base(v)
 <1>1. txn'[v] = txn[v]
   BY DEF StepFrame, OthersStay
 <1>2. ASSUME txn[v].pick \in Picking
       PROVE  Mine(v)' = Mine(v) /\ Head(v)' = Head(v) /\ Base(v)' = Base(v)
  <2>1. txn[w].pick # txn[v].pick
    BY <1>2 DEF WorkInv
  <2>2. \A m \in MovesOf(txn[v].pick) : live'[MoveRow(m)] = live[MoveRow(m)]
    BY <2>1 DEF StepFrame, MovesOf
  <2>3. live'[PickingRow(txn[v].pick)] = live[PickingRow(txn[v].pick)]
    BY <1>2, <2>1 DEF StepFrame
  <2>4. committed' = committed
    BY DEF StepFrame
  <2> QED
    BY <1>1, <2>2, <2>3, <2>4 DEF Mine, Head, Base
 <1> QED
   BY <1>1, <1>2

\* The invariant follows, once the step is right about its own transfer.
LEMMA FramedStep ==
    ASSUME TypeInv, WorkInv, NEW w \in Worker, StepFrame(w), OneRequestPerPicking,
           IF txn'[w].pick \in Picking THEN WorkOK(txn[w], Mine(w), Head(w), Base(w))'
           ELSE Elsewhere(txn'[w])
    PROVE  WorkInv'
 <1>1. ASSUME NEW u \in Worker, NEW v \in Worker,
              txn'[u].pick = txn'[v].pick, txn'[v].pick \in Picking
       PROVE  u = v
  <2>1. CASE txn'[w].pick = txn[w].pick
   <3>1. txn'[u].pick = txn[u].pick /\ txn'[v].pick = txn[v].pick
     BY <2>1 DEF StepFrame, OthersStay
   <3> QED
     BY <1>1, <3>1 DEF WorkInv
  <2>2. CASE txn'[w].pick # txn[w].pick
   <3>1. \A z \in Worker : txn[z].pick # txn'[w].pick
     BY <2>2 DEF StepFrame
   <3>2. \A z \in Worker : z # w => txn'[z].pick = txn[z].pick
     BY DEF StepFrame, OthersStay
   <3> QED
     BY <1>1, <3>1, <3>2 DEF WorkInv
  <2> QED
    BY <2>1, <2>2
 <1>2. \A r \in Row : NoTxn \notin Worker /\ lock'[r] \in {lock[r], w}
   BY NoTxnAssumption DEF StepFrame
 <1>3. ASSUME NEW m \in Move, NEW v \in Worker, lock'[MoveRow(m)] = v
       PROVE  picking[m] = txn'[v].pick
  <2>0. picking[m] \in Picking /\ picking[m] # NoPicking
    BY TransferAssumption
  <2>1. CASE lock[MoveRow(m)] = v
   <3>1. picking[m] = txn[v].pick
     BY <2>1 DEF WorkInv
   <3> QED
     BY <2>0, <3>1 DEF StepFrame, OthersStay
  <2>2. CASE lock[MoveRow(m)] # v
   <3>1. v = w /\ picking[m] = txn[w].pick
     BY <1>3, <2>2 DEF StepFrame
   <3> QED
     BY <2>0, <3>1 DEF StepFrame
  <2> QED
    BY <2>1, <2>2
 <1>4. ASSUME NEW k \in Picking, NEW v \in Worker, lock'[PickingRow(k)] = v
       PROVE  k = txn'[v].pick
  <2>0. k # NoPicking
    BY TransferAssumption
  <2>1. CASE lock[PickingRow(k)] = v
   <3>1. k = txn[v].pick
     BY <2>1 DEF WorkInv
   <3> QED
     BY <2>0, <3>1 DEF StepFrame, OthersStay
  <2>2. CASE lock[PickingRow(k)] # v
   <3>1. v = w /\ k = txn[w].pick
     BY <1>4, <2>2 DEF StepFrame
   <3> QED
     BY <2>0, <3>1 DEF StepFrame
  <2> QED
    BY <2>1, <2>2
 <1>5. ASSUME NEW r \in Row, NEW v \in Worker, lock'[r] = v
       PROVE  txn'[v].pc # "idle"
  <2>1. CASE v = w
    BY <2>1 DEF StepFrame
  <2>2. CASE v # w
   <3>1. lock[r] = v
     BY <1>2, <1>5, <2>2
   <3> QED
     BY <2>2, <3>1 DEF StepFrame, OthersStay, WorkInv
  <2> QED
    BY <2>1, <2>2
 <1>6. ASSUME NEW k \in Picking
       PROVE  RowsOK(Saved(k))' /\ Agree(Saved(k), committed[PickingRow(k)].state)'
  <2>1. Saved(k)' = Saved(k) /\ committed' = committed
    BY DEF StepFrame, Saved
  <2>2. RowsOK(Saved(k)) /\ Agree(Saved(k), committed[PickingRow(k)].state)
    BY DEF WorkInv
  <2> QED
    BY <2>1, <2>2 DEF RowsOK, Agree
 <1>7. ASSUME NEW v \in Worker
       PROVE  IF txn'[v].pick \in Picking
              THEN txn'[v].pc # "idle" /\ WorkOK(txn[v], Mine(v), Head(v), Base(v))'
              ELSE Elsewhere(txn'[v])
  <2>1. CASE v = w
    BY <2>1 DEF StepFrame
  <2>2. CASE v # w
   <3>1. /\ txn'[v] = txn[v]
         /\ txn[v].pick \in Picking =>
              Mine(v)' = Mine(v) /\ Head(v)' = Head(v) /\ Base(v)' = Base(v)
     BY <2>2, OthersFramed
   <3>2. IF txn[v].pick \in Picking
         THEN txn[v].pc # "idle" /\ WorkOK(txn[v], Mine(v), Head(v), Base(v))
         ELSE Elsewhere(txn[v])
     BY DEF WorkInv
   <3>3. CASE txn[v].pick \in Picking
    <4>1. WorkOK(txn[v], Mine(v), Head(v), Base(v))'
      BY <3>1, <3>2, <3>3
    <4> QED
      BY <3>1, <3>2, <3>3, <4>1
   <3>4. CASE txn[v].pick \notin Picking
     BY <3>1, <3>2, <3>4
   <3> QED
     BY <3>3, <3>4
  <2> QED
    BY <2>1, <2>2
 <1> QED
   BY <1>1, <1>3, <1>4, <1>5, <1>6, <1>7 DEF WorkInv

\* The rows of a request's transfer after one of its statements.
LEMMA RowsAfter ==
    ASSUME TypeInv, WorkInv, NEW w \in Worker, NEW R, WritesOnly(w, R),
           txn[w].pick \in Picking, txn'[w].pick = txn[w].pick
    PROVE  /\ DOMAIN Mine(w)' = MovesOf(txn[w].pick)
           /\ \A m \in MovesOf(txn[w].pick) :
                 /\ Mine(w)'[m] = live'[MoveRow(m)]
                 /\ MoveRow(m) \notin R => Mine(w)'[m] = Mine(w)[m]
           /\ R \cap AllMoveRows = {} => Mine(w)' = Mine(w)
           /\ Head(w)' = live'[PickingRow(txn[w].pick)].state
           /\ R \cap PickingRows = {} => Head(w)' = Head(w)
           /\ Base(w)' = Base(w)
 <1>1. \A m \in MovesOf(txn[w].pick) :
         /\ MoveRow(m) \in Row /\ MoveRow(m) \in AllMoveRows
         /\ MoveRow(m) \notin R => live'[MoveRow(m)] = live[MoveRow(m)]
   BY RowsIn DEF MovesOf, AllMoveRows, WritesOnly
 <1>2. /\ PickingRow(txn[w].pick) \in PickingRows
       /\ R \cap PickingRows = {} => live'[PickingRow(txn[w].pick)] = live[PickingRow(txn[w].pick)]
   BY RowsIn DEF PickingRows, WritesOnly
 <1>3. committed' = committed
   BY DEF WritesOnly
 <1>4. Base(w)' = Base(w)
   BY <1>3 DEF Base
 <1>5. R \cap AllMoveRows = {} => Mine(w)' = Mine(w)
   BY <1>1 DEF Mine
 <1>6. DOMAIN Mine(w)' = MovesOf(txn[w].pick)
   BY DEF Mine
 <1>7. \A m \in MovesOf(txn[w].pick) :
                /\ Mine(w)'[m] = live'[MoveRow(m)]
                /\ MoveRow(m) \notin R => Mine(w)'[m] = Mine(w)[m]
   BY <1>1 DEF Mine
 <1>8. /\ Head(w)' = live'[PickingRow(txn[w].pick)].state
       /\ R \cap PickingRows = {} => Head(w)' = Head(w)
   BY <1>2 DEF Head
 <1> QED
   BY <1>4, <1>5, <1>6, <1>7, <1>8

\* Steps of other requests keep the rows a request knows.
LEMMA RowsKept ==
    ASSUME TypeInv, WorkInv, NEW w \in Worker, NEW R, WritesOnly(w, R),
           txn[w].pick \in Picking, txn'[w].pick = txn[w].pick,
           R \subseteq QuantRows \cup LineRows \cup OtherRows
    PROVE  Mine(w)' = Mine(w) /\ Head(w)' = Head(w) /\ Base(w)' = Base(w)
  BY TablesApart, RowsAfter

\* A transfer that nobody works on is as it was last committed.
LEMMA Unowned ==
    ASSUME TypeInv, WorkInv, NEW k \in Picking, \A v \in Worker : txn[v].pick # k
    PROVE  /\ \A m \in MovesOf(k) :
                 /\ m \in Move /\ lock[MoveRow(m)] = NoTxn
                 /\ live[MoveRow(m)] = Saved(k)[m] /\ committed[MoveRow(m)] = Saved(k)[m]
                 /\ \A w : Visible(w, MoveRow(m)) = Saved(k)[m]
                 /\ Saved(k)[m] \in MoveVersion
           /\ live[PickingRow(k)] = committed[PickingRow(k)]
           /\ \A w : Visible(w, PickingRow(k)) = committed[PickingRow(k)]
           /\ RowsOK(Saved(k)) /\ Agree(Saved(k), committed[PickingRow(k)].state)
 <1>1. ASSUME NEW m \in MovesOf(k)
       PROVE  /\ m \in Move /\ lock[MoveRow(m)] = NoTxn
              /\ live[MoveRow(m)] = Saved(k)[m] /\ committed[MoveRow(m)] = Saved(k)[m]
              /\ \A w : Visible(w, MoveRow(m)) = Saved(k)[m]
              /\ Saved(k)[m] \in MoveVersion
  <2>1. m \in Move /\ picking[m] = k /\ MoveRow(m) \in Row
    BY RowsIn DEF MovesOf
  <2>2. lock[MoveRow(m)] = NoTxn
    BY <2>1 DEF WorkInv, TypeInv, DbTyped, LocksOK
  <2>3. live[MoveRow(m)] = committed[MoveRow(m)]
    BY <2>1, <2>2 DEF TypeInv, DbTyped, LocksOK
  <2> QED
    BY <2>1, <2>2, <2>3 DEF Saved, Visible, TypeInv, DbTyped, VersionOK
 <1>2. live[PickingRow(k)] = committed[PickingRow(k)]
  <2>1. PickingRow(k) \in Row
    BY RowsIn
  <2>2. lock[PickingRow(k)] = NoTxn
    BY <2>1 DEF WorkInv, TypeInv, DbTyped, LocksOK
  <2> QED
    BY <2>1, <2>2 DEF TypeInv, DbTyped, LocksOK
 <1>3. RowsOK(Saved(k)) /\ Agree(Saved(k), committed[PickingRow(k)].state)
   BY DEF WorkInv
 <1> QED
   BY <1>1, <1>2, <1>3 DEF Visible

\* Request w reads the moves of transfer k as x has them.
Reads(w, k, x) == \A m \in MovesOf(k) : Visible(w, MoveRow(m)) = x[m]

\* The rows S that it has selected by their states are rows of the transfer.
Selects(S, k, x, states) ==
    /\ \A u \in S :
          /\ u.move \in MovesOf(k) /\ u.prod = product[u.move] /\ u.src = source[u.move]
          /\ u.dest = x[u.move].dest /\ u.reserved = x[u.move].reserved
          /\ x[u.move].state \in states
    /\ \A u, v \in S : u.move = v.move => u = v
    /\ \A m \in MovesOf(k) : x[m].state \in states => \E u \in S : u.move = m

\* What SelectMoves returns agrees with the rows of the transfer.
LEMMA SelectMovesFacts ==
    ASSUME NEW w, NEW k, NEW x, Reads(w, k, x), NEW states
    PROVE  Selects(SelectMoves(w, k, states), k, x, states)
 <1>1. ASSUME NEW m \in MovesOf(k)
       PROVE  /\ Selected(w, m).move = m /\ Selected(w, m).prod = product[m]
              /\ Selected(w, m).src = source[m] /\ Selected(w, m).dest = x[m].dest
              /\ Selected(w, m).reserved = x[m].reserved
   BY DEF Selected, Reads
 <1>2. PICK S : S = SelectMoves(w, k, states)
   OBVIOUS
 <1>3. \A u : u \in S <=>
                \E m \in MovesOf(k) : x[m].state \in states /\ u = Selected(w, m)
   BY <1>2 DEF SelectMoves, Reads
 <1>4. \A u, v \in S : u.move = v.move => u = v
   BY <1>1, <1>3
 <1>5. \A m \in MovesOf(k) : x[m].state \in states => \E u \in S : u.move = m
   BY <1>1, <1>3
 <1>6. \A u \in S :
                /\ u.move \in MovesOf(k) /\ u.prod = product[u.move] /\ u.src = source[u.move]
                /\ u.dest = x[u.move].dest /\ u.reserved = x[u.move].reserved
                /\ x[u.move].state \in states
   BY <1>1, <1>3
 <1> QED
   BY <1>2, <1>4, <1>5, <1>6 DEF Selects

\* What an invariant step of worker w has to show.
OwnOK(w) ==
    /\ StepFrame(w)
    /\ IF txn'[w].pick \in Picking THEN WorkOK(txn[w], Mine(w), Head(w), Base(w))'
       ELSE Elsewhere(txn'[w])

\* A request that has just selected some moves of a transfer.
LEMMA FreshKnows ==
    ASSUME NEW t, NEW x, t.pick \in Picking,
           t.pc \in {"confirm", "reset", "load", "assign", "cancel", "unreserve"},
           \A u \in t.todo :
                 /\ u.move \in MovesOf(t.pick) /\ u.prod = product[u.move] /\ u.src = source[u.move]
                 /\ u.dest = x[u.move].dest /\ u.reserved = x[u.move].reserved,
           \A u, v \in t.todo : u.move = v.move => u = v,
           t.pc \in {"assign", "cancel", "unreserve"} \/ t.todo = {}
    PROVE  /\ KnowsTodo(t, x) /\ KnowsCur(t, x) /\ ~AtWork(t) /\ Pending(t) = Todo(t)
           /\ ~Validating(t) /\ ~Backflushing(t)
 <1>1. ~AtWork(t) /\ ~Validating(t) /\ ~Backflushing(t)
   BY DEF AtWork, Validating, Backflushing, OfMove, Applying
 <1> QED
   BY <1>1 DEF KnowsTodo, KnowsCur, Applying, Pending, Plain

\* A request that has selected nothing has nothing to be stale.
LEMMA PlainKnows ==
    ASSUME NEW t, NEW x, t.pc \in Plain, t.todo = {}
    PROVE  /\ KnowsTodo(t, x) /\ KnowsCur(t, x) /\ ~AtWork(t) /\ Pending(t) = {}
           /\ ~Validating(t) /\ ~Backflushing(t) /\ t.pc \notin Assigning
 <1>1. /\ ~AtWork(t) /\ ~Validating(t) /\ ~Backflushing(t) /\ t.pc \notin Assigning
       /\ t.pc \notin Applying
   BY DEF AtWork, Validating, Backflushing, OfMove, Applying, Plain, Assigning
 <1> QED
   BY <1>1 DEF KnowsTodo, KnowsCur, Pending, Todo

-----------------------------------------------------------------------------
(* The requests *)

\* What a request finds when it begins on transfer k.
LEMMA BeginRows ==
    ASSUME TypeInv, WorkInv, OneRequestPerPicking, NEW w \in Worker, NEW k \in Picking,
           NEW pc \in {"confirm", "load", "reset", "assign", "cancel", "unreserve"},
           NEW todo \in SUBSET Transfer(Move), Begin(w, k, pc, todo)
    PROVE  /\ StepFrame(w)
           /\ txn'[w].pc = pc /\ txn'[w].pick = k /\ txn'[w].todo = todo
           /\ txn'[w].full = (todo # {})
           /\ Mine(w)' = Saved(k) /\ Base(w)' = Saved(k)
           /\ Head(w)' = committed[PickingRow(k)].state
           /\ RowsOK(Saved(k)) /\ Agree(Saved(k), committed[PickingRow(k)].state)
           /\ \A m \in MovesOf(k) : Visible(w, MoveRow(m)) = Saved(k)[m]
           /\ Visible(w, PickingRow(k)) = committed[PickingRow(k)]
           /\ Saved(k) \in [MovesOf(k) -> MoveVersion]
           /\ committed[PickingRow(k)].state \in PickingStates
 <1>1. pc \in OfPicking \ (OfMove \cup Billing) /\ pc # "idle"
   BY DEF OfPicking, OfMove, Billing
 <1>2. /\ txn[w].pick = NoPicking
       /\ txn'[w].pc = pc /\ txn'[w].pick = k /\ txn'[w].todo = todo
       /\ txn'[w].full = (todo # {})
       /\ OthersStay(w) /\ UNCHANGED dbVars
       /\ \A v \in Worker : txn[v].pick # k
   BY <1>1, BeginEffect DEF TypeInv
 <1>3. /\ \A m \in MovesOf(k) :
             /\ live[MoveRow(m)] = Saved(k)[m] /\ committed[MoveRow(m)] = Saved(k)[m]
             /\ Visible(w, MoveRow(m)) = Saved(k)[m]
             /\ Saved(k)[m] \in MoveVersion
       /\ live[PickingRow(k)] = committed[PickingRow(k)]
       /\ Visible(w, PickingRow(k)) = committed[PickingRow(k)]
       /\ RowsOK(Saved(k)) /\ Agree(Saved(k), committed[PickingRow(k)].state)
   BY <1>2, Unowned
 <1>4. Saved(k) = [m \in MovesOf(k) |-> live[MoveRow(m)]]
   BY <1>3 DEF Saved
 <1>5. Mine(w)' = Saved(k) /\ Base(w)' = Saved(k)
   BY <1>2, <1>4 DEF Mine, Base, Saved, dbVars
 <1>6. Head(w)' = committed[PickingRow(k)].state
   BY <1>2, <1>3 DEF Head, dbVars
 <1>7. StepFrame(w)
   BY <1>1, <1>2 DEF StepFrame, dbVars
 <1>8. Saved(k) \in [MovesOf(k) -> MoveVersion]
   BY <1>3 DEF Saved
 <1>9. committed[PickingRow(k)].state \in PickingStates
   BY DEF TypeInv, DbTyped, VersionOK
 <1> QED
   BY <1>2, <1>3, <1>5, <1>6, <1>7, <1>8, <1>9

\* XOK: what a request knows of its transfer is still so after the step X.
LEMMA SimpleRequestsOK ==
    ASSUME TypeInv, WorkInv, OneRequestPerPicking, NEW w \in Worker, NEW k \in Picking,
           Confirm(w, k) \/ Validate(w, k) \/ Reset(w, k)
    PROVE  OwnOK(w)
 <1>1. PICK pc \in {"confirm", "load", "reset"} :
         /\ Begin(w, k, pc, {})
         /\ pc = "confirm" => Visible(w, PickingRow(k)).state = "draft"
         /\ pc = "load" => Visible(w, PickingRow(k)).state \notin {"done", "cancel"}
   BY DEF Confirm, Validate, Reset
 <1>2. {} \in SUBSET Transfer(Move)
   OBVIOUS
 <1>3. /\ StepFrame(w)
       /\ txn'[w].pc = pc /\ txn'[w].pick = k /\ txn'[w].todo = {}
       /\ Mine(w)' = Saved(k) /\ Base(w)' = Saved(k)
       /\ Head(w)' = committed[PickingRow(k)].state
       /\ RowsOK(Saved(k)) /\ Agree(Saved(k), committed[PickingRow(k)].state)
       /\ Visible(w, PickingRow(k)) = committed[PickingRow(k)]
       /\ Saved(k) \in [MovesOf(k) -> MoveVersion]
       /\ committed[PickingRow(k)].state \in PickingStates
   BY <1>1, <1>2, BeginRows
 <1>4. PICK t, x, p : t = txn'[w] /\ x = Saved(k) /\ p = committed[PickingRow(k)].state
   OBVIOUS
 <1>5. /\ t.pc = pc /\ t.pick = k /\ t.todo = {}
       /\ RowsOK(x) /\ Agree(x, p) /\ x \in [MovesOf(k) -> MoveVersion]
       /\ pc = "confirm" => p = "draft"
       /\ pc = "load" => p \notin {"done", "cancel"}
   BY <1>1, <1>3, <1>4
 <1>6. /\ KnowsTodo(t, x) /\ KnowsCur(t, x) /\ ~AtWork(t) /\ ~Validating(t) /\ ~Backflushing(t)
       /\ t.pc \notin Assigning \cup Billing
   BY <1>5, FreshKnows DEF Assigning, Billing
 <1>7. p \notin {"done", "cancel"} => \A m \in DOMAIN x : x[m].state # "done"
   BY <1>5 DEF Agree, RowsOK, RowOK
 <1>8. Phase(t, x, p, x)
   BY <1>1, <1>5, <1>6, <1>7 DEF Phase
 <1>9. WorkOK(t, x, p, x)
   BY <1>5, <1>6, <1>8 DEF WorkOK
 <1> QED
   BY <1>3, <1>4, <1>9 DEF OwnOK

LEMMA AssignOK ==
    ASSUME TypeInv, WorkInv, OneRequestPerPicking, NEW w \in Worker, NEW k \in Picking,
           Assign(w, k)
    PROVE  OwnOK(w)
 <1>1. PICK todo : todo = SelectMoves(w, k, {"confirmed", "partially_available"})
   OBVIOUS
 <1>2. Begin(w, k, "assign", todo) /\ todo \in SUBSET Transfer(Move)
   BY <1>1, SelectMovesTyped DEF Assign
 <1>3. /\ StepFrame(w)
       /\ txn'[w].pc = "assign" /\ txn'[w].pick = k /\ txn'[w].todo = todo
       /\ txn'[w].full = (todo # {})
       /\ Mine(w)' = Saved(k) /\ Base(w)' = Saved(k)
       /\ Head(w)' = committed[PickingRow(k)].state
       /\ RowsOK(Saved(k)) /\ Agree(Saved(k), committed[PickingRow(k)].state)
       /\ \A m \in MovesOf(k) : Visible(w, MoveRow(m)) = Saved(k)[m]
       /\ Saved(k) \in [MovesOf(k) -> MoveVersion]
       /\ committed[PickingRow(k)].state \in PickingStates
   BY <1>2, BeginRows
 <1>4. PICK t, x, p : t = txn'[w] /\ x = Saved(k) /\ p = committed[PickingRow(k)].state
   OBVIOUS
 <1>5. /\ t.pc = "assign" /\ t.pick = k /\ t.todo = todo /\ t.full = (todo # {})
       /\ RowsOK(x) /\ Agree(x, p) /\ x \in [MovesOf(k) -> MoveVersion]
   BY <1>3, <1>4
 <1>6. /\ \A u \in todo :
             /\ u.move \in MovesOf(k) /\ u.prod = product[u.move] /\ u.src = source[u.move]
             /\ u.dest = x[u.move].dest /\ u.reserved = x[u.move].reserved
             /\ x[u.move].state \in {"confirmed", "partially_available"}
       /\ \A u, v \in todo : u.move = v.move => u = v
       /\ \A m \in MovesOf(k) : x[m].state \in {"confirmed", "partially_available"} =>
             \E u \in todo : u.move = m
  <2>1. Reads(w, k, x)
    BY <1>3, <1>4 DEF Reads
  <2>2. Selects(todo, k, x, {"confirmed", "partially_available"})
    BY <1>1, <2>1, SelectMovesFacts
  <2> QED
    BY <2>2 DEF Selects
 <1>7. /\ KnowsTodo(t, x) /\ KnowsCur(t, x) /\ ~AtWork(t) /\ ~Validating(t) /\ ~Backflushing(t)
       /\ Pending(t) = Todo(t)
   BY <1>5, <1>6, FreshKnows
 <1>8. \A m \in MovesOf(k) : m \in Todo(t) <=>
                                x[m].state \in {"confirmed", "partially_available"}
   BY <1>5, <1>6 DEF Todo
 <1>9. Todo(t) \subseteq MovesOf(k) /\ DOMAIN x = MovesOf(k)
   BY <1>5, <1>6 DEF Todo
 <1>10. ASSUME p \notin {"confirmed", "partially_available"}
        PROVE  Todo(t) = {}
  <2>1. \A m \in MovesOf(k) : x[m].state \notin {"confirmed", "partially_available"}
    BY <1>5, <1>9, <1>10 DEF Agree, RowsOK, RowOK
  <2> QED
    BY <1>8, <1>9, <2>1
 <1>11. ASSUME p \in {"confirmed", "partially_available"}, NEW m \in DOMAIN x
        PROVE  IF IsComponent(m) THEN x[m].state # "done"
               ELSE m \notin Todo(t) => x[m].state = "assigned"
   BY <1>5, <1>8, <1>9, <1>11 DEF Agree, RowsOK, RowOK
 <1>12. Phase(t, x, p, x)
  <2>1. \A m \in Todo(t) : x[m].state \in {"confirmed", "partially_available"}
    BY <1>8, <1>9
  <2> QED
    BY <1>5, <1>7, <1>10, <1>11, <2>1 DEF Phase, Assigning, Billing
 <1> QED
   BY <1>3, <1>4, <1>5, <1>7, <1>12 DEF OwnOK, WorkOK

LEMMA HoldersOK ==
    ASSUME TypeInv, WorkInv, OneRequestPerPicking, NEW w \in Worker, NEW k \in Picking,
           Cancel(w, k) \/ Unreserve(w, k)
    PROVE  OwnOK(w)
 <1>1. PICK pc \in {"cancel", "unreserve"} :
         \E states : Begin(w, k, pc, HeldMoves(w, k, states))
   BY DEF Cancel, Unreserve
 <1>2. PICK states : Begin(w, k, pc, HeldMoves(w, k, states))
   BY <1>1
 <1>3. PICK todo : todo = HeldMoves(w, k, states)
   OBVIOUS
 <1>4. todo \in SUBSET Transfer(Move) /\ Begin(w, k, pc, todo)
   BY <1>2, <1>3, HeldMovesTyped
 <1>5. /\ StepFrame(w)
       /\ txn'[w].pc = pc /\ txn'[w].pick = k /\ txn'[w].todo = todo
       /\ Mine(w)' = Saved(k) /\ Base(w)' = Saved(k)
       /\ Head(w)' = committed[PickingRow(k)].state
       /\ RowsOK(Saved(k)) /\ Agree(Saved(k), committed[PickingRow(k)].state)
       /\ \A m \in MovesOf(k) : Visible(w, MoveRow(m)) = Saved(k)[m]
       /\ Saved(k) \in [MovesOf(k) -> MoveVersion]
   BY <1>4, BeginRows
 <1>6. PICK t, x, p : t = txn'[w] /\ x = Saved(k) /\ p = committed[PickingRow(k)].state
   OBVIOUS
 <1>7. /\ t.pc = pc /\ t.pick = k /\ t.todo = todo /\ RowsOK(x) /\ Agree(x, p)
   BY <1>5, <1>6
 <1>8. /\ \A u \in todo :
             /\ u.move \in MovesOf(k) /\ u.prod = product[u.move] /\ u.src = source[u.move]
             /\ u.dest = x[u.move].dest /\ u.reserved = x[u.move].reserved
       /\ \A u, v \in todo : u.move = v.move => u = v
  <2>1. Reads(w, k, x)
    BY <1>5, <1>6 DEF Reads
  <2>2. Selects(SelectMoves(w, k, states), k, x, states)
    BY <2>1, SelectMovesFacts
  <2>3. todo \subseteq SelectMoves(w, k, states)
    BY <1>3 DEF HeldMoves
  <2> QED
    BY <2>2, <2>3 DEF Selects
 <1>9. /\ KnowsTodo(t, x) /\ KnowsCur(t, x) /\ ~AtWork(t) /\ ~Validating(t) /\ ~Backflushing(t)
   BY <1>7, <1>8, FreshKnows
 <1>10. Phase(t, x, p, x)
   BY <1>7, <1>9 DEF Phase, Assigning, Billing
 <1> QED
   BY <1>5, <1>6, <1>7, <1>9, <1>10 DEF OwnOK, WorkOK

-----------------------------------------------------------------------------
(* The statements on the states of a transfer and its moves *)

\* What the work of worker w on a transfer starts from.
LEMMA WorkOn ==
    ASSUME TypeInv, WorkInv, NEW w \in Worker, txn[w].pick \in Picking
    PROVE  /\ WorkOK(txn[w], Mine(w), Head(w), Base(w))
           /\ Mine(w) \in [MovesOf(txn[w].pick) -> MoveVersion]
           /\ Base(w) \in [MovesOf(txn[w].pick) -> MoveVersion]
           /\ Head(w) \in PickingStates
           /\ Reads(w, txn[w].pick, Mine(w))
           /\ Visible(w, PickingRow(txn[w].pick)).state = Head(w)
           /\ live[PickingRow(txn[w].pick)].state = Head(w)
           /\ \A m \in MovesOf(txn[w].pick) : live[MoveRow(m)] = Mine(w)[m] /\ m \in Move
 <1>1. \A m \in MovesOf(txn[w].pick) :
                /\ m \in Move /\ Visible(w, MoveRow(m)) = Mine(w)[m]
                /\ live[MoveRow(m)] = Mine(w)[m] /\ Mine(w)[m] \in MoveVersion
                /\ Base(w)[m] \in MoveVersion
   BY MineFacts
 <1>2. /\ Visible(w, PickingRow(txn[w].pick)).state = Head(w)
       /\ Head(w) \in PickingStates
       /\ WorkOK(txn[w], Mine(w), Head(w), Base(w))
   BY MineFacts
 <1>3. /\ Mine(w) \in [MovesOf(txn[w].pick) -> MoveVersion]
       /\ Base(w) \in [MovesOf(txn[w].pick) -> MoveVersion]
   BY <1>1 DEF Mine, Base
 <1> QED
   BY <1>1, <1>2, <1>3 DEF Reads, Head

\* A statement that only a request on a transfer gets to.
LEMMA WorkAt ==
    ASSUME TypeInv, WorkInv, NEW w \in Worker, txn[w].pc \in OfPicking
    PROVE  /\ txn[w].pick \in Picking
           /\ WorkOK(txn[w], Mine(w), Head(w), Base(w))
           /\ Mine(w) \in [MovesOf(txn[w].pick) -> MoveVersion]
           /\ Base(w) \in [MovesOf(txn[w].pick) -> MoveVersion]
           /\ Head(w) \in PickingStates
           /\ Reads(w, txn[w].pick, Mine(w))
           /\ Visible(w, PickingRow(txn[w].pick)).state = Head(w)
           /\ live[PickingRow(txn[w].pick)].state = Head(w)
           /\ \A m \in MovesOf(txn[w].pick) : live[MoveRow(m)] = Mine(w)[m] /\ m \in Move
  BY PickOf, WorkOn

\* A statement on the header alone.
LEMMA HeaderWritten ==
    ASSUME TypeInv, WorkInv, NEW w \in Worker, txn[w].pc \in OfPicking,
           WritesOnly(w, {PickingRow(txn[w].pick)}),
           NEW pc \in Plain, Goto(w, pc), txn[w].todo = {},
           NEW q, q = live'[PickingRow(txn[w].pick)].state,
           \A u : u.pc = pc /\ u.pick = txn[w].pick /\ u.todo = {} =>
                    Phase(u, Mine(w), q, Base(w))
    PROVE  OwnOK(w)
 <1>1. txn[w].pick \in Picking /\ RowsOK(Mine(w))
   BY WorkAt DEF WorkOK
 <1>2. /\ txn'[w].pc = pc /\ txn'[w].pick = txn[w].pick /\ txn'[w].todo = {}
       /\ OthersStay(w) /\ pc # "idle"
   BY GotoEffect DEF TypeInv, Plain
 <1>3. {PickingRow(txn[w].pick)} \cap AllMoveRows = {}
   BY <1>1, TablesApart DEF PickingRows
 <1>4. StepFrame(w)
   BY <1>2, <1>3, WritesFrame
 <1>5. Mine(w)' = Mine(w) /\ Head(w)' = q /\ Base(w)' = Base(w)
   BY <1>1, <1>2, <1>3, RowsAfter
 <1>6. PICK u : u = txn'[w]
   OBVIOUS
 <1>7. KnowsTodo(u, Mine(w)) /\ KnowsCur(u, Mine(w))
   BY <1>2, <1>6, PlainKnows
 <1>8. Phase(u, Mine(w), q, Base(w))
   BY <1>2, <1>6
 <1>9. WorkOK(txn[w], Mine(w), Head(w), Base(w))'
   BY <1>1, <1>5, <1>6, <1>7, <1>8 DEF WorkOK
 <1> QED
   BY <1>1, <1>2, <1>4, <1>9 DEF OwnOK

\* A statement on the moves alone.
LEMMA MovesWritten ==
    ASSUME TypeInv, WorkInv, NEW w \in Worker, txn[w].pc \in OfPicking,
           WritesOnly(w, MoveRows(txn[w].pick)),
           NEW pc \in Plain, Goto(w, pc), txn[w].todo = {},
           NEW y, DOMAIN y = MovesOf(txn[w].pick),
           \A m \in MovesOf(txn[w].pick) : y[m] = live'[MoveRow(m)],
           y = [m \in DOMAIN y |-> y[m]],
           RowsOK(y),
           \A u : u.pc = pc /\ u.pick = txn[w].pick /\ u.todo = {} =>
                    Phase(u, y, Head(w), Base(w))
    PROVE  OwnOK(w)
 <1>1. txn[w].pick \in Picking
   BY WorkAt
 <1>2. /\ txn'[w].pc = pc /\ txn'[w].pick = txn[w].pick /\ txn'[w].todo = {}
       /\ OthersStay(w) /\ pc # "idle"
   BY GotoEffect DEF TypeInv, Plain
 <1>3. MoveRows(txn[w].pick) \subseteq AllMoveRows
   BY TablesApart
 <1>4. MoveRows(txn[w].pick) \cap PickingRows = {}
   BY <1>3, TablesApart
 <1>5. StepFrame(w)
   BY <1>2, <1>4, WritesFrame
 <1>6. Mine(w)' = y
   BY <1>2 DEF Mine
 <1>7. Head(w)' = Head(w) /\ Base(w)' = Base(w)
   BY <1>1, <1>2, <1>4, RowsAfter
 <1>8. PICK u : u = txn'[w]
   OBVIOUS
 <1>9. KnowsTodo(u, y) /\ KnowsCur(u, y)
   BY <1>2, <1>8, PlainKnows
 <1>10. Phase(u, y, Head(w), Base(w))
   BY <1>2, <1>8
 <1>11. WorkOK(txn[w], Mine(w), Head(w), Base(w))'
   BY <1>6, <1>7, <1>8, <1>9, <1>10 DEF WorkOK
 <1> QED
   BY <1>1, <1>2, <1>5, <1>11 DEF OwnOK

\* The handlers that set the state of a transfer.
LEMMA ConfirmPickingOK ==
    ASSUME TypeInv, WorkInv, NEW w \in Worker, ConfirmPicking(w)
    PROVE  OwnOK(w)
 <1>1. PICK t, x, p, b : t = txn[w] /\ x = Mine(w) /\ p = Head(w) /\ b = Base(w)
   OBVIOUS
 <1>2. t.pc = "confirm" /\ Goto(w, "confirm_moves")
   BY <1>1 DEF ConfirmPicking, At
 <1>3. WorkOK(t, x, p, b) /\ t.pc \in OfPicking /\ t.pick \in Picking
   BY <1>1, <1>2, WorkAt DEF OfPicking
 <1>4. t.todo = {} /\ RowsOK(x) /\ p = "draft" /\ Agree(x, p)
   BY <1>2, <1>3 DEF WorkOK, Phase, KnowsTodo, Plain
 <1>5. PICK q : q = live'[PickingRow(txn[w].pick)].state
   OBVIOUS
 <1>6. q = "confirmed" /\ WritesOnly(w, {PickingRow(txn[w].pick)})
  <2>1. ~PickingDone(w)
    BY <1>1, <1>2 DEF PickingDone, At
  <2> QED
    BY <1>1, <1>5, <2>1, PickingDoneRow
 <1>7. ASSUME NEW u, u.pc = "confirm_moves", u.todo = {}
       PROVE  Phase(u, x, q, b)
  <2>1. ~Validating(u) /\ ~Backflushing(u) /\ u.pc \notin Assigning
    BY <1>7, PlainKnows DEF Plain
  <2>2. AllIn(x, {"draft"})
    BY <1>4 DEF Agree, AllIn, RowsOK, RowOK
  <2> QED
    BY <1>6, <1>7, <2>1, <2>2 DEF Phase, Billing
 <1>8. "confirm_moves" \in Plain
   BY DEF Plain
 <1> QED
   BY <1>1, <1>2, <1>3, <1>4, <1>5, <1>6, <1>7, <1>8, HeaderWritten

LEMMA AssignPickingOK ==
    ASSUME TypeInv, WorkInv, NEW w \in Worker, AssignPicking(w)
    PROVE  OwnOK(w)
 <1>1. PICK t, x, p, b : t = txn[w] /\ x = Mine(w) /\ p = Head(w) /\ b = Base(w)
   OBVIOUS
 <1>2. PICK to : to = IF t.full THEN "assigned" ELSE "partially_available"
   OBVIOUS
 <1>3. /\ t.pc = "assign" /\ t.todo = {} /\ Goto(w, "commit")
       /\ UpdateState(w, {PickingRow(t.pick)}, {"confirmed", "partially_available"}, to)
   BY <1>1, <1>2 DEF AssignPicking, At
 <1>4. /\ WorkOK(t, x, p, b) /\ t.pc \in OfPicking /\ t.pick \in Picking
       /\ Visible(w, PickingRow(t.pick)).state = p
       /\ live[PickingRow(t.pick)].state = p
   BY <1>1, <1>3, WorkAt DEF OfPicking
 <1>5. PICK q : q = live'[PickingRow(txn[w].pick)].state
   OBVIOUS
 <1>6. /\ q = IF p \in {"confirmed", "partially_available"} THEN to ELSE p
       /\ WritesOnly(w, {PickingRow(txn[w].pick)})
   BY <1>1, <1>3, <1>4, <1>5, UpdatePickingEffect
 <1>7. Pending(t) = {}
   BY <1>3 DEF Pending, Todo, AtWork, OfMove, Applying
 <1>8. Agree(x, q)
  <2>1. CASE p \notin {"confirmed", "partially_available"}
    BY <1>3, <1>4, <1>6, <2>1 DEF WorkOK, Phase, Assigning
  <2>2. CASE p \in {"confirmed", "partially_available"}
   <3>1. \A m \in DOMAIN x :
            IF IsComponent(m) THEN x[m].state # "done"
            ELSE /\ x[m].state \in {"assigned", "partially_available"}
                 /\ t.full => x[m].state = "assigned"
     BY <1>3, <1>4, <1>7, <2>2 DEF WorkOK, Phase, Assigning
   <3>2. q = IF t.full THEN "assigned" ELSE "partially_available"
     BY <1>2, <1>6, <2>2
   <3>3. CASE t.full
     BY <3>1, <3>2, <3>3 DEF Agree
   <3>4. CASE ~t.full
     BY <3>1, <3>2, <3>4 DEF Agree
   <3> QED
     BY <3>3, <3>4
  <2> QED
    BY <2>1, <2>2
 <1>9. ASSUME NEW u, u.pc = "commit", u.todo = {}
       PROVE  Phase(u, x, q, b)
  <2>1. ~Validating(u) /\ ~Backflushing(u) /\ u.pc \notin Assigning
    BY <1>9, PlainKnows DEF Plain
  <2> QED
    BY <1>8, <1>9, <2>1 DEF Phase, Billing
 <1>10. "commit" \in Plain
   BY DEF Plain
 <1> QED
   BY <1>1, <1>3, <1>4, <1>5, <1>6, <1>9, <1>10, HeaderWritten

LEMMA CancelPickingOK ==
    ASSUME TypeInv, WorkInv, NEW w \in Worker, CancelPicking(w)
    PROVE  OwnOK(w)
 <1>1. PICK t, x, p, b : t = txn[w] /\ x = Mine(w) /\ p = Head(w) /\ b = Base(w)
   OBVIOUS
 <1>2. /\ t.pc = "cancel" /\ t.todo = {} /\ Goto(w, "cancel_moves")
       /\ UpdateState(w, {PickingRow(t.pick)}, AllStates \ {"done"}, "cancel")
   BY <1>1 DEF CancelPicking, At
 <1>3. /\ WorkOK(t, x, p, b) /\ t.pc \in OfPicking /\ t.pick \in Picking
       /\ Visible(w, PickingRow(t.pick)).state = p
       /\ live[PickingRow(t.pick)].state = p /\ p \in PickingStates
   BY <1>1, <1>2, WorkAt DEF OfPicking
 <1>4. RowsOK(x) /\ Agree(x, p)
   BY <1>2, <1>3 DEF WorkOK, Phase
 <1>5. PICK q : q = live'[PickingRow(txn[w].pick)].state
   OBVIOUS
 <1>6. /\ q = IF p = "done" THEN "done" ELSE "cancel"
       /\ WritesOnly(w, {PickingRow(txn[w].pick)})
  <2>1. p \in AllStates \ {"done"} <=> p # "done"
    BY <1>3 DEF PickingStates, AllStates, OpenStates
  <2> QED
    BY <1>1, <1>2, <1>3, <1>5, <2>1, UpdatePickingEffect
 <1>7. \/ q = "done" /\ AllDone(x)
       \/ q = "cancel" /\ \A m \in DOMAIN x : x[m].state # "done"
   BY <1>4, <1>6 DEF Agree, AllDone, RowsOK, RowOK
 <1>8. ASSUME NEW u, u.pc = "cancel_moves", u.todo = {}
       PROVE  Phase(u, x, q, b)
  <2>1. ~Validating(u) /\ ~Backflushing(u) /\ u.pc \notin Assigning
    BY <1>8, PlainKnows DEF Plain
  <2> QED
    BY <1>7, <1>8, <2>1 DEF Phase, Billing
 <1>9. "cancel_moves" \in Plain
   BY DEF Plain
 <1> QED
   BY <1>1, <1>2, <1>3, <1>5, <1>6, <1>8, <1>9, HeaderWritten

LEMMA UnreservePickingOK ==
    ASSUME TypeInv, WorkInv, NEW w \in Worker, UnreservePicking(w)
    PROVE  OwnOK(w)
 <1>1. PICK t, x, p, b : t = txn[w] /\ x = Mine(w) /\ p = Head(w) /\ b = Base(w)
   OBVIOUS
 <1>2. /\ t.pc = "unreserve_picking" /\ Goto(w, "commit")
       /\ UpdateState(w, {PickingRow(t.pick)}, {"assigned", "partially_available"}, "confirmed")
   BY <1>1 DEF UnreservePicking, At
 <1>3. /\ WorkOK(t, x, p, b) /\ t.pc \in OfPicking /\ t.pick \in Picking
       /\ Visible(w, PickingRow(t.pick)).state = p
       /\ live[PickingRow(t.pick)].state = p
   BY <1>1, <1>2, WorkAt DEF OfPicking
 <1>4. t.todo = {} /\ (IF p \in {"assigned", "partially_available"} THEN AllIn(x, {"confirmed"})
                       ELSE Agree(x, p))
   BY <1>2, <1>3 DEF WorkOK, Phase, KnowsTodo, Plain
 <1>5. PICK q : q = live'[PickingRow(txn[w].pick)].state
   OBVIOUS
 <1>6. /\ q = IF p \in {"assigned", "partially_available"} THEN "confirmed" ELSE p
       /\ WritesOnly(w, {PickingRow(txn[w].pick)})
   BY <1>1, <1>2, <1>3, <1>5, UpdatePickingEffect
 <1>7. Agree(x, q)
   BY <1>4, <1>6 DEF Agree, AllIn
 <1>8. ASSUME NEW u, u.pc = "commit", u.todo = {}
       PROVE  Phase(u, x, q, b)
  <2>1. ~Validating(u) /\ ~Backflushing(u) /\ u.pc \notin Assigning
    BY <1>8, PlainKnows DEF Plain
  <2> QED
    BY <1>7, <1>8, <2>1 DEF Phase, Billing
 <1>9. "commit" \in Plain
   BY DEF Plain
 <1> QED
   BY <1>1, <1>2, <1>3, <1>4, <1>5, <1>6, <1>8, <1>9, HeaderWritten

LEMMA ResetPickingOK ==
    ASSUME TypeInv, WorkInv, NEW w \in Worker, ResetPicking(w)
    PROVE  OwnOK(w)
 <1>1. PICK t, x, p, b : t = txn[w] /\ x = Mine(w) /\ p = Head(w) /\ b = Base(w)
   OBVIOUS
 <1>2. /\ t.pc = "reset" /\ Goto(w, "reset_moves")
       /\ UpdateState(w, {PickingRow(t.pick)}, {"cancel"}, "draft")
   BY <1>1 DEF ResetPicking, At
 <1>3. /\ WorkOK(t, x, p, b) /\ t.pc \in OfPicking /\ t.pick \in Picking
       /\ Visible(w, PickingRow(t.pick)).state = p
       /\ live[PickingRow(t.pick)].state = p
   BY <1>1, <1>2, WorkAt DEF OfPicking
 <1>4. t.todo = {} /\ RowsOK(x) /\ Agree(x, p)
   BY <1>2, <1>3 DEF WorkOK, Phase, KnowsTodo, Plain
 <1>5. PICK q : q = live'[PickingRow(txn[w].pick)].state
   OBVIOUS
 <1>6. /\ q = IF p = "cancel" THEN "draft" ELSE p
       /\ WritesOnly(w, {PickingRow(txn[w].pick)})
   BY <1>1, <1>2, <1>3, <1>5, UpdatePickingEffect
 <1>7. \/ q = "draft" /\ AllIn(x, {"draft", "cancel"})
       \/ q \notin {"draft", "cancel"} /\ Agree(x, q)
   BY <1>4, <1>6 DEF Agree, AllIn, RowsOK, RowOK
 <1>8. ASSUME NEW u, u.pc = "reset_moves", u.todo = {}
       PROVE  Phase(u, x, q, b)
  <2>1. ~Validating(u) /\ ~Backflushing(u) /\ u.pc \notin Assigning
    BY <1>8, PlainKnows DEF Plain
  <2> QED
    BY <1>7, <1>8, <2>1 DEF Phase, Billing
 <1>9. "reset_moves" \in Plain
   BY DEF Plain
 <1> QED
   BY <1>1, <1>2, <1>3, <1>4, <1>5, <1>6, <1>8, <1>9, HeaderWritten

-----------------------------------------------------------------------------
(* The statements on the moves of a transfer *)

\* y is x with the states of from turned into to, and perhaps unreserved.
Turned(x, y, from, to) ==
    /\ DOMAIN y = DOMAIN x
    /\ \A m \in DOMAIN x :
          /\ y[m].state = IF x[m].state \in from THEN to ELSE x[m].state
          /\ y[m].reserved = x[m].reserved \/ y[m].reserved = 0
          /\ to \notin {"assigned", "partially_available"} /\ x[m].state \in from
               /\ x[m].state \in {"assigned", "partially_available"} => y[m].reserved = 0
          /\ y[m].quantity = x[m].quantity /\ y[m].dest = x[m].dest

\* The rows stay sound.
LEMMA TurnedRowsOK ==
    ASSUME NEW x, NEW y, NEW from, NEW to, Turned(x, y, from, to), RowsOK(x),
           \A m \in DOMAIN x : x[m].reserved \in Nat,
           from \in {AllStates \ {"done"}, {"assigned", "partially_available"}, {"draft"}, {"cancel"}},
           to \in {"draft", "confirmed", "cancel"}
    PROVE  RowsOK(y)
 <1>1. "done" \notin from /\ "absent" \notin from
   BY DEF AllStates, OpenStates
 <1>2. ASSUME NEW m \in DOMAIN x
       PROVE  RowOK(m, y[m])
  <2>1. /\ y[m].state = IF x[m].state \in from THEN to ELSE x[m].state
        /\ y[m].reserved = x[m].reserved \/ y[m].reserved = 0
        /\ x[m].state \in from /\ x[m].state \in {"assigned", "partially_available"}
              => y[m].reserved = 0
        /\ y[m].quantity = x[m].quantity
    BY DEF Turned
  <2>2. RowOK(m, x[m]) /\ x[m].reserved \in Nat
    BY DEF RowsOK
  <2>3. CASE x[m].state \in from
   <3>1. y[m].state = to /\ x[m].state # "done" /\ x[m].state # "absent"
     BY <1>1, <2>1, <2>3
   <3>2. ~IsComponent(m) /\ y[m].quantity = 0
     BY <2>1, <2>2, <3>1 DEF RowOK
   <3>3. ~(y[m].reserved > 0)
     BY <2>1, <2>2, <2>3 DEF RowOK
   <3> QED
     BY <3>1, <3>2, <3>3 DEF RowOK
  <2>4. CASE x[m].state \notin from
    BY <2>1, <2>2, <2>4 DEF RowOK
  <2> QED
    BY <2>3, <2>4
 <1> QED
   BY <1>2 DEF RowsOK, Turned

\* What such a statement on the transfer of w makes of its moves.
LEMMA TurnedMoves ==
    ASSUME TypeInv, WorkInv, NEW w \in Worker, txn[w].pc \in OfPicking, NEW from, NEW to,
           \/ DropMoves(w, from, to)
           \/ /\ UpdateState(w, MoveRows(txn[w].pick), from, to)
              /\ from \cap {"assigned", "partially_available"} = {}
    PROVE  /\ WritesOnly(w, MoveRows(txn[w].pick))
           /\ \E y : /\ y = [m \in MovesOf(txn[w].pick) |-> live'[MoveRow(m)]]
                     /\ Turned(Mine(w), y, from, to)
 <1>1. /\ \A m \in MovesOf(txn[w].pick) : live[MoveRow(m)] = Mine(w)[m]
                                           /\ Visible(w, MoveRow(m)) = Mine(w)[m]
       /\ DOMAIN Mine(w) = MovesOf(txn[w].pick)
   BY WorkAt DEF Reads
 <1>2. PICK y : y = [m \in MovesOf(txn[w].pick) |-> live'[MoveRow(m)]]
   OBVIOUS
 <1>3. \A m \in MovesOf(txn[w].pick) : y[m] = live'[MoveRow(m)]
   BY <1>2
 <1>4. CASE DropMoves(w, from, to)
  <2>1. /\ WritesOnly(w, MoveRows(txn[w].pick))
        /\ \A m \in MovesOf(txn[w].pick) :
               LET s == Visible(w, MoveRow(m)).state
                   r == MoveRow(m)
               IN /\ live'[r].state = (IF s \in from THEN to ELSE live[r].state)
                  /\ live'[r].reserved = (IF s \in from THEN 0 ELSE live[r].reserved)
                  /\ live'[r].dest = live[r].dest /\ live'[r].quantity = live[r].quantity
    BY <1>4, DropMovesEffect
  <2>2. Turned(Mine(w), y, from, to)
    BY <1>1, <1>2, <1>3, <2>1 DEF Turned
  <2> QED
    BY <1>2, <2>1, <2>2
 <1>5. CASE ~DropMoves(w, from, to)
  <2>1. /\ WritesOnly(w, MoveRows(txn[w].pick))
        /\ \A m \in MovesOf(txn[w].pick) :
               LET s == Visible(w, MoveRow(m)).state
                   r == MoveRow(m)
               IN /\ live'[r].state = (IF s \in from THEN to ELSE live[r].state)
                  /\ live'[r].reserved = live[r].reserved /\ live'[r].dest = live[r].dest
                  /\ live'[r].quantity = live[r].quantity
    BY <1>5, UpdateMovesEffect
  <2>2. Turned(Mine(w), y, from, to)
    BY <1>1, <1>2, <1>3, <1>5, <2>1 DEF Turned
  <2> QED
    BY <1>2, <2>1, <2>2
 <1> QED
   BY <1>4, <1>5

\* The statement is right when it leaves the transfer ready for what follows.
LEMMA TurnedOK ==
    ASSUME TypeInv, WorkInv, NEW w \in Worker, txn[w].pc \in OfPicking,
           NEW from, NEW to \in {"draft", "confirmed", "cancel"},
           from \in {AllStates \ {"done"}, {"assigned", "partially_available"}, {"draft"}, {"cancel"}},
           \/ DropMoves(w, from, to)
           \/ /\ UpdateState(w, MoveRows(txn[w].pick), from, to)
              /\ from \cap {"assigned", "partially_available"} = {},
           NEW pc \in {"commit", "unreserve_picking"}, Goto(w, pc), txn[w].todo = {},
           \A y : Turned(Mine(w), y, from, to) =>
                    IF pc = "unreserve_picking" /\ Head(w) \in {"assigned", "partially_available"}
                    THEN AllIn(y, {"confirmed"}) ELSE Agree(y, Head(w))
    PROVE  OwnOK(w)
 <1>1. /\ WritesOnly(w, MoveRows(txn[w].pick))
       /\ \E y : /\ y = [m \in MovesOf(txn[w].pick) |-> live'[MoveRow(m)]]
                 /\ Turned(Mine(w), y, from, to)
   BY TurnedMoves
 <1>2. PICK y : /\ y = [m \in MovesOf(txn[w].pick) |-> live'[MoveRow(m)]]
                /\ Turned(Mine(w), y, from, to)
   BY <1>1
 <1>3. /\ RowsOK(Mine(w)) /\ DOMAIN Mine(w) = MovesOf(txn[w].pick)
       /\ \A m \in DOMAIN Mine(w) : Mine(w)[m].reserved \in Nat
   BY WorkAt DEF WorkOK, MoveVersion
 <1>4. RowsOK(y)
   BY <1>2, <1>3, TurnedRowsOK
 <1>5. ASSUME NEW u, u.pc = pc, u.todo = {}
       PROVE  Phase(u, y, Head(w), Base(w))
  <2>1. ~Validating(u) /\ ~Backflushing(u) /\ u.pc \notin Assigning
    BY <1>5, PlainKnows DEF Plain
  <2>2. IF pc = "unreserve_picking" /\ Head(w) \in {"assigned", "partially_available"}
        THEN AllIn(y, {"confirmed"}) ELSE Agree(y, Head(w))
    BY <1>2
  <2> QED
    BY <1>5, <2>1, <2>2 DEF Phase, Billing
 <1>6. pc \in Plain
   BY DEF Plain
 <1>7. /\ DOMAIN y = MovesOf(txn[w].pick) /\ y = [m \in DOMAIN y |-> y[m]]
       /\ \A m \in MovesOf(txn[w].pick) : y[m] = live'[MoveRow(m)]
   BY <1>2
 <1> QED
   BY <1>1, <1>4, <1>5, <1>6, <1>7, MovesWritten

\* The handlers that set the state of its moves.
LEMMA ConfirmMovesOK ==
    ASSUME TypeInv, WorkInv, NEW w \in Worker, ConfirmMoves(w)
    PROVE  OwnOK(w)
 <1>1. PICK t, x, p, b : t = txn[w] /\ x = Mine(w) /\ p = Head(w) /\ b = Base(w)
   OBVIOUS
 <1>2. /\ t.pc = "confirm_moves" /\ Goto(w, "commit") /\ t.pc \in OfPicking
       /\ UpdateState(w, MoveRows(txn[w].pick), {"draft"}, "confirmed")
   BY <1>1 DEF ConfirmMoves, At, OfPicking
 <1>3. WorkOK(t, x, p, b)
   BY <1>1, <1>2, WorkAt
 <1>4. t.todo = {} /\ p = "confirmed" /\ AllIn(x, {"draft"})
   BY <1>2, <1>3 DEF WorkOK, Phase, KnowsTodo, Plain
 <1>5. \A y : Turned(x, y, {"draft"}, "confirmed") => Agree(y, p)
   BY <1>4 DEF Turned, AllIn, Agree
 <1> QED
   BY <1>1, <1>2, <1>4, <1>5, TurnedOK

LEMMA ResetMovesOK ==
    ASSUME TypeInv, WorkInv, NEW w \in Worker, ResetMoves(w)
    PROVE  OwnOK(w)
 <1>1. PICK t, x, p, b : t = txn[w] /\ x = Mine(w) /\ p = Head(w) /\ b = Base(w)
   OBVIOUS
 <1>2. /\ t.pc = "reset_moves" /\ Goto(w, "commit") /\ t.pc \in OfPicking
       /\ UpdateState(w, MoveRows(txn[w].pick), {"cancel"}, "draft")
   BY <1>1 DEF ResetMoves, At, OfPicking
 <1>3. WorkOK(t, x, p, b)
   BY <1>1, <1>2, WorkAt
 <1>4. /\ t.todo = {}
       /\ RowsOK(x)
       /\ \/ p = "draft" /\ AllIn(x, {"draft", "cancel"})
          \/ p \notin {"draft", "cancel"} /\ Agree(x, p)
   BY <1>2, <1>3 DEF WorkOK, Phase, KnowsTodo, Plain
 <1>5. ASSUME NEW y, Turned(x, y, {"cancel"}, "draft") PROVE Agree(y, p)
  <2>1. CASE p = "draft" /\ AllIn(x, {"draft", "cancel"})
    BY <1>4, <1>5, <2>1 DEF Turned, AllIn, Agree, RowsOK, RowOK
  <2>2. CASE p \notin {"draft", "cancel"} /\ Agree(x, p)
    BY <1>4, <1>5, <2>2 DEF Turned, Agree, RowsOK, RowOK
  <2> QED
    BY <1>4, <2>1, <2>2
 <1> QED
   BY <1>1, <1>2, <1>4, <1>5, TurnedOK

LEMMA UnreserveMovesOK ==
    ASSUME TypeInv, WorkInv, NEW w \in Worker, UnreserveMoves(w)
    PROVE  OwnOK(w)
 <1>1. PICK t, x, p, b : t = txn[w] /\ x = Mine(w) /\ p = Head(w) /\ b = Base(w)
   OBVIOUS
 <1>2. /\ t.pc = "unreserve" /\ Goto(w, "unreserve_picking") /\ t.pc \in OfPicking
       /\ t.todo = {}
       /\ DropMoves(w, {"assigned", "partially_available"}, "confirmed")
   BY <1>1 DEF UnreserveMoves, At, OfPicking
 <1>3. WorkOK(t, x, p, b)
   BY <1>1, <1>2, WorkAt
 <1>4. RowsOK(x) /\ Agree(x, p)
   BY <1>2, <1>3 DEF WorkOK, Phase
 <1>5. ASSUME NEW y, Turned(x, y, {"assigned", "partially_available"}, "confirmed")
       PROVE  IF p \in {"assigned", "partially_available"} THEN AllIn(y, {"confirmed"})
              ELSE Agree(y, p)
  <2>1. CASE p \in {"assigned", "partially_available"}
    BY <1>4, <1>5, <2>1 DEF Turned, AllIn, Agree, RowsOK, RowOK
  <2>2. CASE p \notin {"assigned", "partially_available"}
    BY <1>4, <1>5, <2>2 DEF Turned, Agree, RowsOK, RowOK
  <2> QED
    BY <2>1, <2>2
 <1> QED
   BY <1>1, <1>2, <1>5, TurnedOK

LEMMA CancelMovesOK ==
    ASSUME TypeInv, WorkInv, NEW w \in Worker, CancelMoves(w)
    PROVE  OwnOK(w)
 <1>1. PICK t, x, p, b : t = txn[w] /\ x = Mine(w) /\ p = Head(w) /\ b = Base(w)
   OBVIOUS
 <1>2. /\ t.pc = "cancel_moves" /\ Goto(w, "commit") /\ t.pc \in OfPicking
       /\ DropMoves(w, AllStates \ {"done"}, "cancel")
   BY <1>1 DEF CancelMoves, At, OfPicking
 <1>3. WorkOK(t, x, p, b) /\ \A m \in DOMAIN x : x[m].state \in MoveStates
   BY <1>1, <1>2, WorkAt DEF MoveVersion
 <1>4. /\ t.todo = {}
       /\ RowsOK(x)
       /\ \/ p = "done" /\ AllDone(x)
          \/ p = "cancel" /\ \A m \in DOMAIN x : x[m].state # "done"
   BY <1>2, <1>3 DEF WorkOK, Phase, KnowsTodo, Plain
 <1>5. ASSUME NEW y, Turned(x, y, AllStates \ {"done"}, "cancel") PROVE Agree(y, p)
  <2>1. CASE p = "done" /\ AllDone(x)
    BY <1>4, <1>5, <2>1 DEF Turned, AllDone, Agree
  <2>2. CASE p = "cancel" /\ \A m \in DOMAIN x : x[m].state # "done"
   <3>1. ASSUME NEW m \in DOMAIN x
         PROVE  IF IsComponent(m) THEN y[m].state # "done" ELSE y[m].state = "cancel"
    <4>1. RowOK(m, x[m]) /\ x[m].state \in MoveStates /\ x[m].state # "done"
      BY <1>3, <1>4, <2>2 DEF RowsOK
    <4>2. y[m].state = IF x[m].state \in AllStates \ {"done"} THEN "cancel" ELSE x[m].state
      BY <1>5 DEF Turned
    <4>3. ~IsComponent(m) => x[m].state \in AllStates \ {"done"}
      BY <4>1 DEF RowOK, MoveStates, AllStates, OpenStates
    <4> QED
      BY <4>1, <4>2, <4>3
   <3>2. DOMAIN y = DOMAIN x
     BY <1>5 DEF Turned
   <3> QED
     BY <2>2, <3>1, <3>2 DEF Agree
  <2> QED
    BY <1>4, <2>1, <2>2
 <1>6. \A y : Turned(Mine(w), y, AllStates \ {"done"}, "cancel") => Agree(y, Head(w))
   BY <1>1, <1>5
 <1> QED
   BY <1>1, <1>2, <1>4, <1>6, TurnedOK

-----------------------------------------------------------------------------
(* Steps that leave the request on its transfer *)

\* Request w continues as d, on the transfer it is on.
Continues(w, d) ==
    /\ txn' = [txn EXCEPT ![w] = d]
    /\ d.pick = txn[w].pick /\ txn[w].pick \in Picking /\ d.pc # "idle"

\* A step that writes no move and no transfer keeps what its request knows.
LEMMA ReadOK ==
    ASSUME TypeInv, WorkInv, NEW w \in Worker, NEW d, Continues(w, d), UNCHANGED dbVars,
           WorkOK(d, Mine(w), Head(w), Base(w))
    PROVE  OwnOK(w)
 <1>1. txn'[w] = d /\ OthersStay(w)
   BY SetTxnTo DEF Continues
 <1>2. StepFrame(w)
   BY <1>1, ReadsFrame DEF Continues
 <1>3. WritesOnly(w, {})
   BY WritesNothing
 <1>4. Mine(w)' = Mine(w) /\ Head(w)' = Head(w) /\ Base(w)' = Base(w)
   BY <1>1, <1>3, RowsKept DEF Continues
 <1>5. WorkOK(txn[w], Mine(w), Head(w), Base(w))'
   BY <1>1, <1>4
 <1> QED
   BY <1>1, <1>2, <1>5 DEF OwnOK, Continues

LEMMA ElsewhereWrittenOK ==
    ASSUME TypeInv, WorkInv, NEW w \in Worker, NEW d, Continues(w, d), NEW R, WritesOnly(w, R),
           R \subseteq QuantRows \cup LineRows \cup OtherRows,
           WorkOK(d, Mine(w), Head(w), Base(w))
    PROVE  OwnOK(w)
 <1>1. txn'[w] = d /\ OthersStay(w)
   BY SetTxnTo DEF Continues
 <1>2. StepFrame(w)
   BY <1>1, WritesElsewhereFrame DEF Continues
 <1>3. Mine(w)' = Mine(w) /\ Head(w)' = Head(w) /\ Base(w)' = Base(w)
   BY <1>1, RowsKept DEF Continues
 <1>4. WorkOK(txn[w], Mine(w), Head(w), Base(w))'
   BY <1>1, <1>3
 <1> QED
   BY <1>1, <1>2, <1>4 DEF OwnOK, Continues

\* y is x but for the version v of the move m.
Rewritten(x, y, m, v) ==
    /\ DOMAIN y = DOMAIN x /\ m \in DOMAIN x /\ y[m] = v
    /\ \A n \in DOMAIN x : n # m => y[n] = x[n]

\* One move is written, in the phase its transfer is in.
LEMMA MoveWrittenOK ==
    ASSUME TypeInv, WorkInv, NEW w \in Worker, NEW d, Continues(w, d),
           NEW m \in MovesOf(txn[w].pick), WritesOnly(w, {MoveRow(m)}),
           \A y : Rewritten(Mine(w), y, m, live'[MoveRow(m)]) => WorkOK(d, y, Head(w), Base(w))
    PROVE  OwnOK(w)
 <1>1. txn'[w] = d /\ OthersStay(w)
   BY SetTxnTo DEF Continues
 <1>2. /\ {MoveRow(m)} \subseteq MoveRows(txn[w].pick) /\ {MoveRow(m)} \cap PickingRows = {}
       /\ \A n : n # m => MoveRow(n) \notin {MoveRow(m)}
   BY TablesApart, RowsApart DEF MoveRows
 <1>3. StepFrame(w)
   BY <1>1, <1>2, WritesFrame DEF Continues
 <1>4. /\ DOMAIN Mine(w)' = MovesOf(txn[w].pick)
       /\ \A n \in MovesOf(txn[w].pick) :
                /\ Mine(w)'[n] = live'[MoveRow(n)]
                /\ MoveRow(n) \notin {MoveRow(m)} => Mine(w)'[n] = Mine(w)[n]
       /\ Head(w)' = Head(w) /\ Base(w)' = Base(w)
   BY <1>1, <1>2, RowsAfter DEF Continues
 <1>5. DOMAIN Mine(w) = MovesOf(txn[w].pick)
   BY DEF Mine
 <1>6. PICK y : y = Mine(w)'
   OBVIOUS
 <1>7. Rewritten(Mine(w), y, m, live'[MoveRow(m)])
   BY <1>2, <1>4, <1>5, <1>6 DEF Rewritten
 <1>8. WorkOK(d, y, Head(w), Base(w))
   BY <1>7
 <1>9. WorkOK(txn[w], Mine(w), Head(w), Base(w))'
   BY <1>1, <1>4, <1>6, <1>8
 <1> QED
   BY <1>1, <1>3, <1>9 DEF OwnOK, Continues

\* Request t goes on as d with the selected move of c in hand.
Takes(t, d, c, u) ==
    /\ c \in t.todo /\ d.todo = t.todo \ {c} /\ d.cur = u /\ d.pick = t.pick
    /\ u.move = c.move /\ u.prod = c.prod /\ u.src = c.src

\* One move is taken from those to do.
LEMMA TakenTodo ==
    ASSUME NEW t, NEW d, NEW c, NEW u, NEW x, Takes(t, d, c, u), KnowsTodo(t, x),
           ~Backflushing(t)
    PROVE  /\ Todo(d) = Todo(t) \ {c.move} /\ c.move \in Todo(t)
           /\ \A v \in d.todo :
                 /\ v.move \in MovesOf(t.pick) /\ v.prod = product[v.move] /\ v.src = source[v.move]
                 /\ v.dest = x[v.move].dest /\ v.reserved = x[v.move].reserved
           /\ \A v, z \in d.todo : v.move = z.move => v = z
           /\ u.move \in MovesOf(t.pick) /\ u.prod = product[u.move] /\ u.src = source[u.move]
           /\ c.dest = x[c.move].dest /\ c.reserved = x[c.move].reserved
 <1>1. \A v, z \in t.todo : v.move = z.move => v = z
   BY DEF KnowsTodo
 <1>2. Todo(d) = Todo(t) \ {c.move} /\ c.move \in Todo(t)
   BY <1>1 DEF Takes, Todo
 <1> QED
   BY <1>1, <1>2 DEF Takes, KnowsTodo

\* The part of Phase that the assignment of a transfer goes through.
AssignPhase(S, full, x, p) ==
    /\ \A m \in S : x[m].state \in {"confirmed", "partially_available"}
    /\ p \notin {"confirmed", "partially_available"} => Agree(x, p) /\ S = {}
    /\ p \in {"confirmed", "partially_available"} =>
          \A m \in DOMAIN x :
             IF IsComponent(m) THEN x[m].state # "done"
             ELSE m \notin S =>
                     /\ x[m].state \in {"assigned", "partially_available"}
                     /\ full => x[m].state = "assigned"

LEMMA AssigningPhase ==
    ASSUME NEW t, NEW x, NEW p, NEW b, t.pc \in Assigning
    PROVE  /\ Phase(t, x, p, b) <=> AssignPhase(Pending(t), t.full, x, p)
           /\ ~Validating(t) /\ ~Backflushing(t)
           /\ AtWork(t) <=> t.pc \in {"reserve", "reserved"}
           /\ t.pc \notin Plain
 <1>1. /\ ~Validating(t) /\ ~Backflushing(t)
       /\ AtWork(t) <=> t.pc \in {"reserve", "reserved"}
   BY DEF Assigning, Validating, Backflushing, AtWork, OfMove, Applying
 <1>2. t.pc \notin Billing \cup {"backflush_select"} /\ t.pc \notin Plain
   BY DEF Assigning, Billing, Plain
 <1> QED
   BY <1>1, <1>2 DEF Phase, AssignPhase, Assigning

LEMMA AssignMoveOK ==
    ASSUME TypeInv, WorkInv, NEW w \in Worker, AssignMove(w)
    PROVE  OwnOK(w)
 <1>1. PICK t, x, p, b : t = txn[w] /\ x = Mine(w) /\ p = Head(w) /\ b = Base(w)
   OBVIOUS
 <1>2. t.pc = "assign" /\ UNCHANGED dbVars
   BY <1>1 DEF AssignMove, At
 <1>3. /\ WorkOK(t, x, p, b) /\ t.pick \in Picking /\ t.pc \in OfPicking
       /\ Reads(w, t.pick, x)
       /\ x \in [MovesOf(t.pick) -> MoveVersion]
   BY <1>1, <1>2, WorkAt DEF OfPicking
 <1>4. PICK d : \E c \in txn[w].todo, u \in Transfer(Move), got \in Nat :
            /\ c \in Transfer(Move) /\ u.move = c.move /\ u.prod = c.prod /\ u.src = c.src
            /\ got = ToReserve(w, c, demand[c.move] - Visible(w, MoveRow(c.move)).reserved)
            /\ u.reserved = Visible(w, MoveRow(c.move)).reserved + got
            /\ TxnOK(d) /\ txn' = [txn EXCEPT ![w] = d]
            /\ d.pc = (IF got > 0 THEN "reserve" ELSE "reserved")
            /\ d.pick = txn[w].pick /\ d.todo = txn[w].todo \ {c} /\ d.cur = u
            /\ d.qty = got /\ d.full = txn[w].full
   BY AssignMoveEffect
 <1>5. PICK c \in txn[w].todo, u \in Transfer(Move), got \in Nat :
            /\ c \in Transfer(Move) /\ u.move = c.move /\ u.prod = c.prod /\ u.src = c.src
            /\ got = ToReserve(w, c, demand[c.move] - Visible(w, MoveRow(c.move)).reserved)
            /\ u.reserved = Visible(w, MoveRow(c.move)).reserved + got
            /\ TxnOK(d) /\ txn' = [txn EXCEPT ![w] = d]
            /\ d.pc = (IF got > 0 THEN "reserve" ELSE "reserved")
            /\ d.pick = txn[w].pick /\ d.todo = txn[w].todo \ {c} /\ d.cur = u
            /\ d.qty = got /\ d.full = txn[w].full
   BY <1>4
 <1>6. /\ c \in t.todo
            /\ c \in Transfer(Move) /\ u.move = c.move /\ u.prod = c.prod /\ u.src = c.src
            /\ u.reserved = Visible(w, MoveRow(c.move)).reserved + got
            /\ txn' = [txn EXCEPT ![w] = d]
            /\ d.pc = (IF got > 0 THEN "reserve" ELSE "reserved")
            /\ d.pick = t.pick /\ d.todo = t.todo \ {c} /\ d.cur = u
            /\ d.qty = got /\ d.full = t.full
   BY <1>1, <1>5
 <1>7. Takes(t, d, c, u) /\ d.pc \in Assigning /\ t.pc \in Assigning
       /\ d.pc \in {"reserve", "reserved"}
   BY <1>2, <1>6 DEF Takes, Assigning
 <1>8. /\ ~Validating(t) /\ ~Backflushing(t) /\ ~AtWork(t)
       /\ ~Validating(d) /\ ~Backflushing(d) /\ AtWork(d) /\ d.pc \notin Plain
       /\ Phase(t, x, p, b) <=> AssignPhase(Pending(t), t.full, x, p)
       /\ Phase(d, x, p, b) <=> AssignPhase(Pending(d), d.full, x, p)
   BY <1>2, <1>7, AssigningPhase
 <1>9. KnowsTodo(t, x)
   BY <1>3 DEF WorkOK
 <1>10. /\ Todo(d) = Todo(t) \ {c.move} /\ c.move \in Todo(t)
        /\ \A v \in d.todo :
              /\ v.move \in MovesOf(t.pick) /\ v.prod = product[v.move] /\ v.src = source[v.move]
              /\ v.dest = x[v.move].dest /\ v.reserved = x[v.move].reserved
        /\ \A v, z \in d.todo : v.move = z.move => v = z
        /\ u.move \in MovesOf(t.pick) /\ u.prod = product[u.move] /\ u.src = source[u.move]
        /\ c.dest = x[c.move].dest /\ c.reserved = x[c.move].reserved
   BY <1>7, <1>8, <1>9, TakenTodo
 <1>11. KnowsTodo(d, x)
   BY <1>6, <1>8, <1>10 DEF KnowsTodo
 <1>12. Pending(d) = Pending(t)
   BY <1>6, <1>8, <1>10 DEF Pending
 <1>13. u.reserved = x[u.move].reserved + got
   BY <1>3, <1>6, <1>10 DEF Reads
 <1>14. KnowsCur(d, x)
   BY <1>6, <1>7, <1>8, <1>10, <1>13 DEF KnowsCur
 <1>15. Phase(d, x, p, b)
   BY <1>3, <1>6, <1>8, <1>12 DEF WorkOK
 <1>16. WorkOK(d, x, p, b)
   BY <1>3, <1>11, <1>14, <1>15 DEF WorkOK
 <1>17. Continues(w, d)
   BY <1>1, <1>3, <1>6, <1>7 DEF Continues
 <1> QED
   BY <1>1, <1>2, <1>16, <1>17, ReadOK

LEMMA ReserveOK ==
    ASSUME TypeInv, WorkInv, NEW w \in Worker, Reserve(w)
    PROVE  OwnOK(w)
 <1>1. PICK t, x, p, b : t = txn[w] /\ x = Mine(w) /\ p = Head(w) /\ b = Base(w)
   OBVIOUS
 <1>2. t.pc = "reserve" /\ Goto(w, "reserved")
   BY <1>1 DEF Reserve, At
 <1>3. WorkOK(t, x, p, b) /\ t.pick \in Picking
   BY <1>1, <1>2, WorkAt DEF OfPicking, OfMove
 <1>4. WritesOnly(w, {QuantRow(t.cur.prod, t.cur.src)})
   BY <1>1, ReserveEffect
 <1>5. {QuantRow(t.cur.prod, t.cur.src)} \subseteq QuantRows
   BY <1>1, <1>2, CurOf DEF OfMove, QuantRows
 <1>6. PICK d : d = [txn[w] EXCEPT !.pc = "reserved"]
   OBVIOUS
 <1>7. /\ txn' = [txn EXCEPT ![w] = d] /\ txn'[w] = d
       /\ d.pc = "reserved" /\ d.pick = t.pick /\ d.todo = t.todo /\ d.cur = t.cur
       /\ d.full = t.full
  <2>1. /\ txn' = [txn EXCEPT ![w] = d]
        /\ txn'[w].pc = "reserved"
        /\ txn'[w].pick = t.pick /\ txn'[w].todo = t.todo /\ txn'[w].cur = t.cur
        /\ txn'[w].full = t.full
    BY <1>1, <1>2, <1>6, GotoEffect DEF TypeInv
  <2>2. txn'[w] = d
    BY <2>1, SetTxnTo
  <2> QED
    BY <2>1, <2>2
 <1>8. t.pc \in Assigning /\ d.pc \in Assigning
   BY <1>2, <1>7 DEF Assigning
 <1>9. /\ ~Validating(t) /\ ~Backflushing(t) /\ AtWork(t)
       /\ ~Validating(d) /\ ~Backflushing(d) /\ AtWork(d) /\ d.pc \notin Plain
       /\ Phase(t, x, p, b) <=> AssignPhase(Pending(t), t.full, x, p)
       /\ Phase(d, x, p, b) <=> AssignPhase(Pending(d), d.full, x, p)
   BY <1>2, <1>7, <1>8, AssigningPhase
 <1>10. Pending(d) = Pending(t) /\ Todo(d) = Todo(t)
   BY <1>7, <1>9 DEF Pending, Todo
 <1>11. KnowsTodo(d, x)
   BY <1>3, <1>7, <1>9 DEF WorkOK, KnowsTodo
 <1>12. KnowsCur(d, x)
   BY <1>3, <1>7, <1>9, <1>10 DEF WorkOK, KnowsCur
 <1>13. WorkOK(d, x, p, b)
   BY <1>3, <1>7, <1>9, <1>10, <1>11, <1>12 DEF WorkOK
 <1>14. Continues(w, d)
   BY <1>1, <1>3, <1>7 DEF Continues
 <1> QED
   BY <1>1, <1>4, <1>5, <1>13, <1>14, ElsewhereWrittenOK

LEMMA AssignedMoveOK ==
    ASSUME TypeInv, WorkInv, NEW w \in Worker, AssignedMove(w)
    PROVE  OwnOK(w)
 <1>1. PICK t, x, p, b : t = txn[w] /\ x = Mine(w) /\ p = Head(w) /\ b = Base(w)
   OBVIOUS
 <1>2. t.pc = "reserved"
   BY <1>1 DEF AssignedMove, At
 <1>3. /\ WorkOK(t, x, p, b) /\ t.pick \in Picking
       /\ x \in [MovesOf(t.pick) -> MoveVersion]
       /\ \A m \in MovesOf(t.pick) : live[MoveRow(m)] = x[m] /\ m \in Move
   BY <1>1, <1>2, WorkAt DEF OfPicking, OfMove
 <1>4. PICK m, v : m = t.cur.move /\ v = live'[MoveRow(m)]
   OBVIOUS
 <1>5. \E d : \E full \in BOOLEAN :
            /\ full = (txn[w].full /\ txn[w].cur.reserved >= demand[txn[w].cur.move])
            /\ TxnOK(d) /\ txn' = [txn EXCEPT ![w] = d]
            /\ d.pc = "assign" /\ d.pick = txn[w].pick /\ d.todo = txn[w].todo
            /\ d.cur = txn[w].cur /\ d.full = full
   BY AssignedMoveEffect
 <1>6. PICK d : \E full \in BOOLEAN :
            /\ full = (t.full /\ t.cur.reserved >= demand[m])
            /\ txn' = [txn EXCEPT ![w] = d]
            /\ d.pc = "assign" /\ d.pick = t.pick /\ d.todo = t.todo
            /\ d.cur = t.cur /\ d.full = full
   BY <1>1, <1>4, <1>5
 <1>7. /\ WritesOnly(w, {MoveRow(m)})
       /\ v.state = (IF t.cur.reserved >= demand[m] THEN "assigned" ELSE "partially_available")
       /\ v.dest = live[MoveRow(m)].dest /\ v.quantity = live[MoveRow(m)].quantity
       /\ v.reserved = t.cur.reserved
   BY <1>1, <1>4, AssignedMoveRow
 <1>8. t.pc \in Assigning /\ d.pc \in Assigning
   BY <1>2, <1>6 DEF Assigning
 <1>9. /\ ~Validating(t) /\ ~Backflushing(t) /\ AtWork(t)
       /\ ~Validating(d) /\ ~Backflushing(d) /\ ~AtWork(d) /\ d.pc \notin Plain
       /\ Phase(t, x, p, b) <=> AssignPhase(Pending(t), t.full, x, p)
   BY <1>2, <1>6, <1>8, AssigningPhase
 <1>10. /\ m \in MovesOf(t.pick) /\ m \notin Todo(t)
        /\ Pending(t) = Todo(t) \cup {m} /\ Pending(d) = Todo(t) /\ Todo(d) = Todo(t)
   BY <1>3, <1>4, <1>6, <1>9 DEF WorkOK, KnowsCur, Pending, Todo
 <1>11. AssignPhase(Pending(t), t.full, x, p) /\ RowsOK(x)
   BY <1>3, <1>9 DEF WorkOK
 <1>12. /\ x[m].state \in {"confirmed", "partially_available"} /\ RowOK(m, x[m])
        /\ p \in {"confirmed", "partially_available"} /\ ~IsComponent(m)
   BY <1>3, <1>10, <1>11 DEF AssignPhase, RowsOK, RowOK
 <1>13. RowOK(m, v) /\ v.state \in {"assigned", "partially_available"}
   BY <1>3, <1>7, <1>10, <1>12 DEF RowOK
 <1>14. ASSUME NEW y, Rewritten(x, y, m, v)
        PROVE  WorkOK(d, y, p, b)
  <2>1. DOMAIN y = DOMAIN x /\ y[m] = v /\ \A n \in DOMAIN x : n # m => y[n] = x[n]
    BY <1>14 DEF Rewritten
  <2>2. RowsOK(y)
    BY <1>11, <1>13, <2>1 DEF RowsOK
  <2>3. \A c \in t.todo : c.move \in MovesOf(t.pick) /\ c.move # m
    BY <1>3, <1>10 DEF WorkOK, KnowsTodo, Todo
  <2>4. \A c \in t.todo : y[c.move] = x[c.move]
    BY <1>3, <2>1, <2>3
  <2>5. KnowsTodo(d, y)
    BY <1>3, <1>6, <1>9, <2>4 DEF WorkOK, KnowsTodo
  <2>6. KnowsCur(d, y)
    BY <1>6, <1>9 DEF KnowsCur, Applying
  <2>7. AssignPhase(Todo(t), d.full, y, p)
   <3>1. \A n \in Todo(t) : n \in DOMAIN x /\ n # m
     BY <1>3, <2>3 DEF Todo
   <3>2. \A n \in Todo(t) : y[n].state \in {"confirmed", "partially_available"}
     BY <1>10, <1>11, <2>1, <3>1 DEF AssignPhase
   <3>3. ASSUME NEW n \in DOMAIN y
         PROVE  IF IsComponent(n) THEN y[n].state # "done"
                ELSE n \notin Todo(t) =>
                        /\ y[n].state \in {"assigned", "partially_available"}
                        /\ d.full => y[n].state = "assigned"
    <4>1. CASE n = m
     <5>1. y[n] = v /\ v.state \in {"assigned", "partially_available"}
       BY <1>13, <2>1, <4>1
     <5>2. d.full => v.state = "assigned"
       BY <1>6, <1>7
     <5> QED
       BY <5>1, <5>2
    <4>2. CASE n # m
     <5>1. y[n] = x[n] /\ n \in DOMAIN x /\ (n \notin Todo(t) => n \notin Pending(t))
       BY <1>10, <2>1, <4>2
     <5>2. d.full => t.full
       BY <1>6
     <5> QED
       BY <1>11, <1>12, <5>1, <5>2 DEF AssignPhase
    <4> QED
      BY <4>1, <4>2
   <3> QED
     BY <1>12, <3>2, <3>3 DEF AssignPhase
  <2>8. Phase(d, y, p, b)
    BY <1>8, <1>10, <2>7, AssigningPhase
  <2> QED
    BY <2>2, <2>5, <2>6, <2>8 DEF WorkOK
 <1>15. Continues(w, d)
   BY <1>1, <1>3, <1>6 DEF Continues
 <1>16. \A y : Rewritten(Mine(w), y, m, live'[MoveRow(m)]) => WorkOK(d, y, Head(w), Base(w))
   BY <1>1, <1>4, <1>14
 <1>17. m \in MovesOf(txn[w].pick)
   BY <1>1, <1>10
 <1> QED
   BY <1>7, <1>15, <1>16, <1>17, MoveWrittenOK

-----------------------------------------------------------------------------
(* button_validate *)

\* The part of Phase that the validation of a transfer goes through.
ValidPhase(S, x, p, b) ==
    /\ p \notin {"done", "cancel"}
    /\ \A m \in DOMAIN x :
          IF m \in S THEN x[m].state \in OpenStates
          ELSE IF IsComponent(m) THEN x[m].state # "done" ELSE x[m].state = "done"
    /\ \A m \in DOMAIN b : b[m].state # "done"

\* The phases of button_validate.
LEMMA ValidatingPhase ==
    ASSUME NEW t, NEW x, NEW p, NEW b, Validating(t)
    PROVE  /\ Phase(t, x, p, b) <=> ValidPhase(Pending(t), x, p, b)
           /\ ~Backflushing(t) /\ t.pc \notin Plain /\ t.pc \notin Assigning
           /\ AtWork(t) <=> t.pc # "validate"
           /\ t.pc \in Applying \cup {"validate", "putaway", "release", "moved"}
 <1>1. t.pc \in Applying \cup {"validate", "putaway", "release", "moved"}
   BY DEF Validating
 <1>2. ~Backflushing(t) /\ (AtWork(t) <=> t.pc # "validate")
   BY DEF Validating, Backflushing, AtWork, OfMove, Applying
 <1>3. t.pc \notin Plain /\ t.pc \notin Assigning
   BY <1>1 DEF Plain, Assigning, Applying
 <1>4. /\ t.pc \notin {"confirm", "confirm_moves", "load", "bill", "cancel", "unreserve", "reset",
                       "commit", "cancel_moves", "unreserve_picking", "reset_moves"}
       /\ t.pc \notin Billing \cup {"backflush_select"}
   BY <1>1 DEF Applying, Billing
 <1>5. Phase(t, x, p, b) => ValidPhase(Pending(t), x, p, b)
   BY DEF Phase, ValidPhase
 <1>6. ValidPhase(Pending(t), x, p, b) => Phase(t, x, p, b)
   BY <1>2, <1>3, <1>4 DEF Phase, ValidPhase
 <1> QED
   BY <1>1, <1>2, <1>3, <1>5, <1>6

LEMMA BackflushPhase ==
    ASSUME NEW t, NEW x, NEW p, NEW b, Backflushing(t)
    PROVE  /\ Phase(t, x, p, b) <=> (p = "done" /\ AllDone(x))
           /\ ~Validating(t) /\ t.pc \notin Plain /\ t.pc \notin Assigning
           /\ AtWork(t) <=> t.pc # "backflush"
           /\ t.pc \in Applying \cup {"backflush"}
 <1>1. t.pc \in Applying \cup {"backflush"}
   BY DEF Backflushing
 <1>2. ~Validating(t) /\ (AtWork(t) <=> t.pc # "backflush")
   BY DEF Validating, Backflushing, AtWork, OfMove, Applying
 <1>3. t.pc \notin Plain /\ t.pc \notin Assigning
   BY <1>1 DEF Plain, Assigning, Applying
 <1>4. t.pc \notin {"confirm", "confirm_moves", "load", "bill", "cancel", "unreserve", "reset",
                    "commit", "cancel_moves", "unreserve_picking", "reset_moves"}
   BY <1>1 DEF Applying
 <1> QED
   BY <1>1, <1>2, <1>3, <1>4 DEF Phase

\* Where a move in hand goes on to.
LEMMA GoesOn ==
    ASSUME NEW t, t.move \in Move
    PROVE  /\ ~IsComponent(t.move) =>
                /\ AppliedPc(t) = "moved" /\ ApplyPc(t) \in {"out", "moved"}
                /\ ReleasePc(t) \in {"release", "out", "moved"}
           /\ IsComponent(t.move) => AppliedPc(t) = "backflush" /\ ApplyPc(t) \in {"out", "backflush"}
 <1>1. t.move # NoMove
   BY TransferAssumption
 <1> QED
   BY <1>1 DEF AppliedPc, ApplyPc, ReleasePc

LEMMA LoadMovesOK ==
    ASSUME TypeInv, WorkInv, NEW w \in Worker, LoadMoves(w)
    PROVE  OwnOK(w)
 <1>1. PICK t, x, p, b : t = txn[w] /\ x = Mine(w) /\ p = Head(w) /\ b = Base(w)
   OBVIOUS
 <1>2. t.pc = "load" /\ UNCHANGED dbVars
   BY <1>1 DEF LoadMoves, At
 <1>3. /\ WorkOK(t, x, p, b) /\ t.pick \in Picking /\ Reads(w, t.pick, x)
       /\ x \in [MovesOf(t.pick) -> MoveVersion] /\ p \in PickingStates
   BY <1>1, <1>2, WorkAt DEF OfPicking
 <1>4. PICK d : /\ txn' = [txn EXCEPT ![w] = d]
                /\ d.pc = "validate" /\ d.pick = t.pick
                /\ d.todo = SelectMoves(w, t.pick, OpenStates)
   BY <1>1, LoadMovesEffect
 <1>5. /\ Validating(d) /\ ~Backflushing(d) /\ d.pc \notin Plain /\ ~AtWork(d)
       /\ Phase(d, x, p, b) <=> ValidPhase(Pending(d), x, p, b)
  <2>1. Validating(d)
    BY <1>4 DEF Validating
  <2> QED
    BY <1>4, <2>1, ValidatingPhase
 <1>6. Selects(d.todo, t.pick, x, OpenStates)
   BY <1>3, <1>4, SelectMovesFacts
 <1>7. KnowsTodo(d, x) /\ KnowsCur(d, x)
   BY <1>4, <1>5, <1>6 DEF KnowsTodo, KnowsCur, Applying, Selects
 <1>8. \A m \in DOMAIN x : m \in Pending(d) <=> x[m].state \in OpenStates
  <2>1. \A m \in MovesOf(t.pick) : m \in Todo(d) <=> x[m].state \in OpenStates
    BY <1>6 DEF Selects, Todo
  <2> QED
    BY <1>3, <1>5, <2>1 DEF Pending
 <1>9. /\ p \notin {"done", "cancel"} /\ Agree(x, p)
       /\ \A m \in DOMAIN b : b[m].state # "done"
   BY <1>2, <1>3 DEF WorkOK, Phase
 <1>10. p \in OpenStates
   BY <1>3, <1>9 DEF PickingStates, OpenStates
 <1>11. ValidPhase(Pending(d), x, p, b)
  <2>1. ASSUME NEW m \in DOMAIN x, m \notin Pending(d)
        PROVE  IsComponent(m) /\ x[m].state # "done"
   <3>1. x[m].state \notin OpenStates
     BY <1>8, <2>1
   <3> QED
     BY <1>9, <1>10, <3>1 DEF Agree, OpenStates
  <2> QED
    BY <1>8, <1>9, <2>1 DEF ValidPhase
 <1>12. WorkOK(d, x, p, b)
   BY <1>3, <1>5, <1>7, <1>11 DEF WorkOK
 <1>13. Continues(w, d)
   BY <1>1, <1>3, <1>4 DEF Continues
 <1> QED
   BY <1>1, <1>2, <1>12, <1>13, ReadOK

LEMMA ValidateMoveOK ==
    ASSUME TypeInv, WorkInv, NEW w \in Worker, ValidateMove(w)
    PROVE  OwnOK(w)
 <1>1. PICK t, x, p, b : t = txn[w] /\ x = Mine(w) /\ p = Head(w) /\ b = Base(w)
   OBVIOUS
 <1>2. t.pc = "validate" /\ UNCHANGED dbVars
   BY <1>1 DEF ValidateMove, At
 <1>3. /\ WorkOK(t, x, p, b) /\ t.pick \in Picking
       /\ x \in [MovesOf(t.pick) -> MoveVersion]
       /\ \A m \in MovesOf(t.pick) : m \in Move
   BY <1>1, <1>2, WorkAt DEF OfPicking
 <1>4. PICK d : \E c \in txn[w].todo, to \in Transfer(Move) :
            /\ c \in Transfer(Move)
            /\ to = [c EXCEPT !.dest = putaway[<<c.prod, c.dest>>]]
            /\ to.move = c.move /\ to.prod = c.prod /\ to.src = c.src /\ to.qty = c.qty
            /\ to.reserved = c.reserved
            /\ TxnOK(d) /\ txn' = [txn EXCEPT ![w] = d]
            /\ d.pc = (IF to.dest # c.dest THEN "putaway" ELSE ReleasePc(to))
            /\ d.pick = txn[w].pick /\ d.todo = txn[w].todo \ {c} /\ d.cur = to
   BY ValidateMoveEffect
 <1>5. PICK c \in txn[w].todo, to \in Transfer(Move) :
            /\ c \in Transfer(Move)
            /\ to = [c EXCEPT !.dest = putaway[<<c.prod, c.dest>>]]
            /\ to.move = c.move /\ to.prod = c.prod /\ to.src = c.src /\ to.qty = c.qty
            /\ to.reserved = c.reserved
            /\ TxnOK(d) /\ txn' = [txn EXCEPT ![w] = d]
            /\ d.pc = (IF to.dest # c.dest THEN "putaway" ELSE ReleasePc(to))
            /\ d.pick = txn[w].pick /\ d.todo = txn[w].todo \ {c} /\ d.cur = to
   BY <1>4
 <1>6. /\ c \in t.todo
            /\ to.move = c.move /\ to.prod = c.prod /\ to.src = c.src
            /\ to.reserved = c.reserved
            /\ txn' = [txn EXCEPT ![w] = d]
            /\ d.pc = (IF to.dest # c.dest THEN "putaway" ELSE ReleasePc(to))
            /\ d.pick = t.pick /\ d.todo = t.todo \ {c} /\ d.cur = to
   BY <1>1, <1>5
 <1>7. Takes(t, d, c, to)
   BY <1>6 DEF Takes
 <1>8. /\ Validating(t) /\ ~Backflushing(t) /\ ~AtWork(t)
       /\ Phase(t, x, p, b) <=> ValidPhase(Pending(t), x, p, b)
  <2>1. Validating(t)
    BY <1>2 DEF Validating
  <2> QED
    BY <1>2, <2>1, ValidatingPhase
 <1>9. KnowsTodo(t, x) /\ RowsOK(x) /\ ValidPhase(Pending(t), x, p, b)
   BY <1>3, <1>8 DEF WorkOK
 <1>10. /\ Todo(d) = Todo(t) \ {c.move} /\ c.move \in Todo(t)
        /\ \A v \in d.todo :
              /\ v.move \in MovesOf(t.pick) /\ v.prod = product[v.move] /\ v.src = source[v.move]
              /\ v.dest = x[v.move].dest /\ v.reserved = x[v.move].reserved
        /\ \A v, z \in d.todo : v.move = z.move => v = z
        /\ to.move \in MovesOf(t.pick) /\ to.prod = product[to.move] /\ to.src = source[to.move]
        /\ c.dest = x[c.move].dest /\ c.reserved = x[c.move].reserved
   BY <1>7, <1>8, <1>9, TakenTodo
 <1>11. ~IsComponent(to.move) /\ to.move \in Move
  <2>1. x[to.move].state \in OpenStates /\ RowOK(to.move, x[to.move])
    BY <1>3, <1>6, <1>9, <1>10 DEF ValidPhase, Pending, RowsOK
  <2> QED
    BY <1>3, <1>10, <2>1 DEF RowOK, OpenStates
 <1>12. d.pc \in {"putaway", "release", "out", "moved"}
   BY <1>6, <1>11, GoesOn
 <1>13. /\ Validating(d) /\ ~Backflushing(d) /\ AtWork(d) /\ d.pc \notin Plain
        /\ Phase(d, x, p, b) <=> ValidPhase(Pending(d), x, p, b)
  <2>1. Validating(d)
    BY <1>6, <1>11, <1>12 DEF Validating, Applying
  <2> QED
    BY <1>12, <2>1, ValidatingPhase
 <1>14. Pending(d) = Pending(t)
   BY <1>6, <1>8, <1>10, <1>13 DEF Pending
 <1>15. KnowsTodo(d, x)
   BY <1>6, <1>10, <1>13 DEF KnowsTodo
 <1>16. d.pc # "putaway" => to.dest = c.dest
   BY <1>6
 <1>17. KnowsCur(d, x)
   BY <1>6, <1>10, <1>12, <1>13, <1>16 DEF KnowsCur
 <1>18. WorkOK(d, x, p, b)
   BY <1>9, <1>13, <1>14, <1>15, <1>17 DEF WorkOK
 <1>19. Continues(w, d)
   BY <1>1, <1>3, <1>6, <1>12 DEF Continues
 <1> QED
   BY <1>1, <1>2, <1>18, <1>19, ReadOK

\* A step that changes nothing of what the request knows of its moves.
LEMMA SameWork ==
    ASSUME NEW t, NEW d, NEW x, NEW p, NEW b, WorkOK(t, x, p, b),
           d.todo = t.todo, d.cur = t.cur, d.pick = t.pick,
           \/ Validating(t) /\ Validating(d) /\ AtWork(t) /\ AtWork(d) /\ t.pc # "putaway"
           \/ Backflushing(t) /\ Backflushing(d) /\ AtWork(t)
    PROVE  WorkOK(d, x, p, b)
 <1>1. /\ ~(Validating(t) /\ Backflushing(t)) /\ t.pc \notin Assigning
       /\ d.pc \notin Plain /\ d.pc \notin Assigning
   BY ValidatingPhase, BackflushPhase
 <1>2. Backflushing(d) <=> Backflushing(t)
   BY ValidatingPhase, BackflushPhase
 <1>3. Todo(d) = Todo(t)
   BY DEF Todo
 <1>4. KnowsTodo(d, x)
   BY <1>1, <1>2 DEF WorkOK, KnowsTodo
 <1>5. KnowsCur(d, x)
  <2>1. t.pc \notin {"reserve", "reserved", "putaway"} /\ d.pc \notin {"reserve", "reserved"}
    BY <1>1, BackflushPhase DEF Assigning, Applying
  <2>2. AtWork(t) /\ (d.pc \in Applying => AtWork(d))
    BY BackflushPhase DEF Applying
  <2> QED
    BY <1>2, <1>3, <2>1, <2>2 DEF WorkOK, KnowsCur
 <1>6. Phase(d, x, p, b)
  <2>1. CASE Validating(t) /\ Validating(d)
   <3>1. Pending(d) = Pending(t)
     BY <1>1, <1>2, <1>3, <2>1 DEF Pending
   <3>2. ValidPhase(Pending(t), x, p, b)
     BY <2>1, ValidatingPhase DEF WorkOK
   <3> QED
     BY <2>1, <3>1, <3>2, ValidatingPhase
  <2>2. CASE Backflushing(t) /\ Backflushing(d)
    BY <2>2, BackflushPhase DEF WorkOK
  <2> QED
    BY <2>1, <2>2
 <1> QED
   BY <1>4, <1>5, <1>6 DEF WorkOK

\* A request goes on with its move at another statement.
LEMMA GotoIs ==
    ASSUME TypeInv, NEW w \in Worker, NEW pc, Goto(w, pc)
    PROVE  \E d : /\ txn' = [txn EXCEPT ![w] = d] /\ txn'[w] = d
                  /\ d.pc = pc /\ d.pick = txn[w].pick /\ d.todo = txn[w].todo
                  /\ d.cur = txn[w].cur /\ d.qty = txn[w].qty /\ d.full = txn[w].full
 <1>1. PICK d : d = [txn[w] EXCEPT !.pc = pc]
   OBVIOUS
 <1>2. /\ txn' = [txn EXCEPT ![w] = d]
       /\ txn'[w].pc = pc
       /\ txn'[w].pick = txn[w].pick /\ txn'[w].todo = txn[w].todo
       /\ txn'[w].cur = txn[w].cur /\ txn'[w].qty = txn[w].qty
       /\ txn'[w].full = txn[w].full
   BY <1>1, GotoEffect DEF TypeInv
 <1>3. txn'[w] = d
   BY <1>2, SetTxnTo
 <1> QED
   BY <1>2, <1>3

\* The steps of release and applyMove on the move of a transfer.
LEMMA MovingOK ==
    ASSUME TypeInv, WorkInv, NEW w \in Worker, NEW d, txn' = [txn EXCEPT ![w] = d],
           d.todo = txn[w].todo, d.cur = txn[w].cur, d.pick = txn[w].pick,
           txn[w].pick \in Picking, txn[w].cur.move \in Move,
           txn[w].pc \in Applying \cup {"release"},
           txn[w].pc = "release" => Validating(d),
           txn[w].pc \in Applying =>
              d.pc \in Applying \cup
                       (IF IsComponent(txn[w].cur.move) THEN {"backflush"} ELSE {"moved"}),
           NEW R, WritesOnly(w, R), R \subseteq QuantRows \cup LineRows \cup OtherRows,
           d.pc # "validate"
    PROVE  OwnOK(w)
 <1>1. PICK t, x, p, b : t = txn[w] /\ x = Mine(w) /\ p = Head(w) /\ b = Base(w)
   OBVIOUS
 <1>2. WorkOK(t, x, p, b)
   BY <1>1, WorkOn
 <1>3. AtWork(t)
   BY <1>1 DEF AtWork, OfMove
 <1>4. \/ Validating(t) /\ Validating(d) /\ t.pc # "putaway"
       \/ Backflushing(t) /\ Backflushing(d)
   BY <1>1 DEF Validating, Backflushing, Applying
 <1>5. Validating(d) => AtWork(d)
   BY ValidatingPhase
 <1>6. WorkOK(d, x, p, b)
   BY <1>1, <1>2, <1>3, <1>4, <1>5, SameWork
 <1>7. Continues(w, d)
   BY <1>4 DEF Continues, Validating, Backflushing, Applying
 <1> QED
   BY <1>1, <1>6, <1>7, ElsewhereWrittenOK

LEMMA ReleaseMoveOK ==
    ASSUME TypeInv, WorkInv, NEW w \in Worker, ReleaseMove(w)
    PROVE  OwnOK(w)
 <1>1. PICK t : t = txn[w]
   OBVIOUS
 <1>2. t.pc = "release" /\ ReleasedQuant(w, t.cur) /\ Goto(w, ApplyPc(t.cur))
   BY <1>1 DEF ReleaseMove, At
 <1>3. t.pick \in Picking /\ t.cur \in Transfer(Move) /\ t.cur.move \in Move
   BY <1>1, <1>2, PickOf, CurOf DEF OfPicking, OfMove
 <1>4. t.cur.prod \in Product /\ t.cur.src \in Location
   BY <1>3 DEF Transfer
 <1>5. WritesOnly(w, {QuantRow(t.cur.prod, t.cur.src)})
   BY <1>2, <1>3, ReleasedEffect
 <1>6. {QuantRow(t.cur.prod, t.cur.src)} \subseteq QuantRows
   BY <1>4 DEF QuantRows
 <1>7. ~IsComponent(t.cur.move)
  <2>1. /\ WorkOK(t, Mine(w), Head(w), Base(w)) /\ DOMAIN Mine(w) = MovesOf(t.pick)
    BY <1>1, <1>3, WorkOn
  <2>2. Validating(t) /\ AtWork(t)
    BY <1>2 DEF Validating, AtWork, OfMove
  <2>3. t.cur.move \in MovesOf(t.pick) /\ t.cur.move \in Pending(t)
    BY <2>1, <2>2 DEF WorkOK, KnowsCur, Pending
  <2>4. ValidPhase(Pending(t), Mine(w), Head(w), Base(w)) /\ RowsOK(Mine(w))
    BY <2>1, <2>2, ValidatingPhase DEF WorkOK
  <2> QED
    BY <2>1, <2>3, <2>4 DEF ValidPhase, RowsOK, RowOK, OpenStates
 <1>8. ApplyPc(t.cur) \in {"out", "moved"}
   BY <1>3, <1>7, GoesOn
 <1>9. PICK d : /\ txn' = [txn EXCEPT ![w] = d] /\ txn'[w] = d
                /\ d.pc = ApplyPc(t.cur) /\ d.pick = t.pick /\ d.todo = t.todo
                /\ d.cur = t.cur
   BY <1>1, <1>2, GotoIs
 <1>10. Validating(d)
   BY <1>3, <1>7, <1>8, <1>9 DEF Validating, Applying
 <1> QED
   BY <1>1, <1>2, <1>3, <1>5, <1>6, <1>8, <1>9, <1>10, MovingOK DEF Applying

\* The steps of applyMove and refreshProductOnHand, whatever they move.
LEMMA ApplyingOK ==
    ASSUME TypeInv, WorkInv, NEW w \in Worker,
           ApplyOut(w) \/ ApplyIn(w) \/ RefreshSnapshot(w) \/ RefreshWrite(w)
    PROVE  OwnOK(w)
 <1>1. PICK t : t = txn[w]
   OBVIOUS
 <1>2. /\ t.pc \in Applying
       /\ t.cur \in Transfer(Move \cup {NoMove})
       /\ t.cur.prod \in Product /\ t.cur.src \in Location /\ t.cur.dest \in Location
       /\ t.cur.qty \in Nat
       /\ t.cur.move \in Move => t.pick \in Picking
  <2>1. t.pc \in Applying
    BY <1>1 DEF ApplyOut, ApplyIn, RefreshSnapshot, RefreshWrite, At, Applying
  <2> QED
    BY <1>1, <2>1, CurOf
 <1>3. \E d : /\ txn' = [txn EXCEPT ![w] = d]
              /\ d.pick = t.pick /\ d.todo = t.todo /\ d.cur = t.cur
              /\ d.pc \in Applying \/ d.pc = AppliedPc(t.cur)
  <2>1. CASE ApplyOut(w)
   <3>1. Goto(w, "in")
     BY <2>1 DEF ApplyOut
   <3> QED
     BY <1>1, <3>1, GotoIs DEF Applying
  <2>2. CASE ApplyIn(w)
   <3>1. Goto(w, "refresh")
     BY <2>2 DEF ApplyIn
   <3> QED
     BY <1>1, <3>1, GotoIs DEF Applying
  <2>3. CASE RefreshSnapshot(w)
    BY <1>1, <2>3, RefreshSnapshotEffect DEF Applying
  <2>4. CASE RefreshWrite(w)
   <3>1. Goto(w, AppliedPc(t.cur))
     BY <1>1, <2>4 DEF RefreshWrite
   <3> QED
     BY <1>1, <3>1, GotoIs
  <2> QED
    BY <2>1, <2>2, <2>3, <2>4
 <1>4. PICK d : /\ txn' = [txn EXCEPT ![w] = d]
                /\ d.pick = t.pick /\ d.todo = t.todo /\ d.cur = t.cur
                /\ d.pc \in Applying \/ d.pc = AppliedPc(t.cur)
   BY <1>3
 <1>5. PICK R : WritesOnly(w, R) /\ R \subseteq QuantRows \cup LineRows \cup OtherRows
  <2>1. CASE ApplyOut(w)
   <3>1. AddToQuant(w, t.cur.prod, t.cur.src, 0 - t.cur.qty)
     BY <1>1, <2>1 DEF ApplyOut
   <3>2. WritesOnly(w, {QuantRow(t.cur.prod, t.cur.src)})
     BY <1>2, <3>1, AddToQuantEffect
   <3> QED
     BY <1>2, <3>2 DEF QuantRows
  <2>2. CASE ApplyIn(w)
   <3>1. AddToQuant(w, t.cur.prod, t.cur.dest, t.cur.qty)
     BY <1>1, <2>2 DEF ApplyIn
   <3>2. WritesOnly(w, {QuantRow(t.cur.prod, t.cur.dest)})
     BY <1>2, <3>1, AddToQuantEffect
   <3> QED
     BY <1>2, <3>2 DEF QuantRows
  <2>3. CASE RefreshSnapshot(w)
    BY <2>3, WritesNothing DEF RefreshSnapshot
  <2>4. CASE RefreshWrite(w)
    BY <2>4, OtherRowsWritten
  <2> QED
    BY <2>1, <2>2, <2>3, <2>4
 <1>6. CASE t.cur.move \in Move
  <2>1. /\ d.pc \in Applying \cup (IF IsComponent(t.cur.move) THEN {"backflush"} ELSE {"moved"})
        /\ d.pc # "validate"
    BY <1>4, <1>6, GoesOn DEF Applying
  <2>2. t.pc # "release"
    BY <1>2 DEF Applying
  <2> QED
    BY <1>1, <1>2, <1>4, <1>5, <1>6, <2>1, <2>2, MovingOK
 <1>7. CASE t.cur.move \notin Move
  <2>1. t.cur.move = NoMove
    BY <1>2, <1>7 DEF Transfer
  <2>2. t.pick \notin Picking
   <3>1. SUFFICES ASSUME t.pick \in Picking PROVE FALSE
     OBVIOUS
   <3>2. WorkOK(t, Mine(w), Head(w), Base(w))
     BY <1>1, <3>1, WorkOn
   <3> QED
     BY <1>2, <1>7, <3>2 DEF WorkOK, KnowsCur, AtWork, OfMove, Applying
  <2>3. Elsewhere(t)
    BY <1>1, <2>2 DEF WorkInv
  <2>4. d.pc \in Applying \cup {"commit"}
    BY <1>4, <2>1 DEF AppliedPc
  <2>5. Elsewhere(d)
    BY <1>2, <1>4, <2>3, <2>4 DEF Elsewhere
  <2>6. txn'[w] = d /\ OthersStay(w)
    BY <1>4, SetTxnTo
  <2>7. d.pc # "idle"
    BY <2>4 DEF Applying
  <2>8. StepFrame(w)
    BY <1>1, <1>4, <1>5, <2>6, <2>7, WritesElsewhereFrame
  <2> QED
    BY <1>4, <2>2, <2>5, <2>6, <2>8 DEF OwnOK
 <1> QED
   BY <1>6, <1>7

\* Redirecting a move, or doing it, rewrites the row of the move in hand: what
\* the request knows of the others stays true.
LEMMA KnowsOthers ==
    ASSUME NEW t, NEW d, NEW x, NEW y, NEW v, KnowsTodo(t, x), KnowsCur(t, x), AtWork(t),
           ~Backflushing(t), ~Backflushing(d), d.pc \notin Plain,
           d.todo = t.todo, d.pick = t.pick, Rewritten(x, y, t.cur.move, v),
           DOMAIN x = MovesOf(t.pick)
    PROVE  KnowsTodo(d, y)
 <1>1. \A c \in t.todo : c.move # t.cur.move /\ c.move \in DOMAIN x
   BY DEF KnowsTodo, KnowsCur, Todo
 <1>2. \A c \in t.todo : y[c.move] = x[c.move]
   BY <1>1 DEF Rewritten
 <1> QED
   BY <1>2 DEF KnowsTodo

\* A move in hand during a validation.
LEMMA InHand ==
    ASSUME NEW t, NEW x, NEW p, NEW b, WorkOK(t, x, p, b), DOMAIN x = MovesOf(t.pick),
           t.pc \in {"putaway", "release", "moved"}
    PROVE  /\ Validating(t) /\ ~Backflushing(t) /\ AtWork(t)
           /\ t.cur.move \in DOMAIN x /\ t.cur.move \notin Todo(t)
           /\ Pending(t) = Todo(t) \cup {t.cur.move}
           /\ ValidPhase(Pending(t), x, p, b)
           /\ x[t.cur.move].state \in OpenStates /\ ~IsComponent(t.cur.move)
           /\ RowOK(t.cur.move, x[t.cur.move])
 <1>1. Validating(t)
   BY DEF Validating
 <1>2. /\ ~Backflushing(t) /\ AtWork(t)
       /\ Phase(t, x, p, b) <=> ValidPhase(Pending(t), x, p, b)
   BY <1>1, ValidatingPhase
 <1>3. /\ t.cur.move \in DOMAIN x /\ t.cur.move \notin Todo(t)
       /\ Pending(t) = Todo(t) \cup {t.cur.move}
   BY <1>2 DEF WorkOK, KnowsCur, Pending
 <1>4. ValidPhase(Pending(t), x, p, b)
   BY <1>2 DEF WorkOK
 <1>5. x[t.cur.move].state \in OpenStates /\ RowOK(t.cur.move, x[t.cur.move])
   BY <1>3, <1>4 DEF ValidPhase, WorkOK, RowsOK
 <1>6. ~IsComponent(t.cur.move)
   BY <1>5 DEF RowOK, OpenStates
 <1> QED
   BY <1>1, <1>2, <1>3, <1>4, <1>5, <1>6

LEMMA PutawayOK ==
    ASSUME TypeInv, WorkInv, NEW w \in Worker, Putaway(w)
    PROVE  OwnOK(w)
 <1>1. PICK t, x, p, b : t = txn[w] /\ x = Mine(w) /\ p = Head(w) /\ b = Base(w)
   OBVIOUS
 <1>2. t.pc = "putaway" /\ Goto(w, ReleasePc(t.cur))
   BY <1>1 DEF Putaway, At
 <1>3. /\ WorkOK(t, x, p, b) /\ t.pick \in Picking
       /\ x \in [MovesOf(t.pick) -> MoveVersion]
       /\ \A n \in MovesOf(t.pick) : live[MoveRow(n)] = x[n] /\ n \in Move
   BY <1>1, <1>2, WorkAt DEF OfPicking, OfMove
 <1>4. PICK m, v : m = t.cur.move /\ v = live'[MoveRow(m)]
   OBVIOUS
 <1>5. /\ Validating(t) /\ ~Backflushing(t) /\ AtWork(t)
       /\ m \in DOMAIN x /\ m \notin Todo(t)
       /\ Pending(t) = Todo(t) \cup {m}
       /\ ValidPhase(Pending(t), x, p, b)
       /\ x[m].state \in OpenStates /\ ~IsComponent(m) /\ RowOK(m, x[m])
   BY <1>2, <1>3, <1>4, InHand
 <1>6. /\ WritesOnly(w, {MoveRow(m)}) /\ v.dest = t.cur.dest
       /\ v.state = x[m].state /\ v.reserved = x[m].reserved /\ v.quantity = x[m].quantity
  <2>1. live[MoveRow(m)] = x[m]
    BY <1>3, <1>5
  <2> QED
    BY <1>1, <1>4, <2>1, PutawayRow
 <1>7. PICK d : /\ txn' = [txn EXCEPT ![w] = d] /\ txn'[w] = d
                /\ d.pc = ReleasePc(t.cur) /\ d.pick = t.pick /\ d.todo = t.todo
                /\ d.cur = t.cur
   BY <1>1, <1>2, GotoIs
 <1>8. d.pc \in {"release", "out", "moved"} /\ m \in Move
   BY <1>3, <1>4, <1>5, <1>7, GoesOn
 <1>9. /\ Validating(d) /\ ~Backflushing(d) /\ AtWork(d) /\ d.pc \notin Plain
  <2>1. Validating(d)
    BY <1>4, <1>5, <1>7, <1>8 DEF Validating, Applying
  <2> QED
    BY <1>8, <2>1, ValidatingPhase
 <1>10. Todo(d) = Todo(t) /\ Pending(d) = Pending(t)
   BY <1>4, <1>5, <1>7, <1>9 DEF Todo, Pending
 <1>11. ASSUME NEW y, Rewritten(x, y, m, v)
        PROVE  WorkOK(d, y, p, b)
  <2>1. DOMAIN y = DOMAIN x /\ y[m] = v /\ \A n \in DOMAIN x : n # m => y[n] = x[n]
    BY <1>11 DEF Rewritten
  <2>2. RowsOK(y)
   <3>1. RowOK(m, v)
     BY <1>5, <1>6 DEF RowOK
   <3> QED
     BY <1>3, <2>1, <3>1 DEF WorkOK, RowsOK
  <2>3. KnowsTodo(d, y)
    BY <1>3, <1>4, <1>5, <1>7, <1>9, <1>11, KnowsOthers DEF WorkOK
  <2>4. KnowsCur(d, y)
    BY <1>2, <1>3, <1>4, <1>5, <1>6, <1>7, <1>8, <1>9, <1>10, <2>1 DEF WorkOK, KnowsCur
  <2>5. ValidPhase(Pending(d), y, p, b)
    BY <1>5, <1>6, <1>10, <2>1 DEF ValidPhase
  <2>6. Phase(d, y, p, b)
    BY <1>9, <2>5, ValidatingPhase
  <2> QED
    BY <2>2, <2>3, <2>4, <2>6 DEF WorkOK
 <1>12. Continues(w, d)
   BY <1>1, <1>3, <1>7, <1>8 DEF Continues
 <1>13. \A y : Rewritten(Mine(w), y, m, live'[MoveRow(m)]) => WorkOK(d, y, Head(w), Base(w))
   BY <1>1, <1>4, <1>11
 <1>14. m \in MovesOf(txn[w].pick)
   BY <1>1, <1>3, <1>5
 <1> QED
   BY <1>6, <1>12, <1>13, <1>14, MoveWrittenOK

LEMMA MoveDoneOK ==
    ASSUME TypeInv, WorkInv, NEW w \in Worker, MoveDone(w)
    PROVE  OwnOK(w)
 <1>1. PICK t, x, p, b : t = txn[w] /\ x = Mine(w) /\ p = Head(w) /\ b = Base(w)
   OBVIOUS
 <1>2. t.pc = "moved" /\ Goto(w, "validate")
   BY <1>1 DEF MoveDone, At
 <1>3. /\ WorkOK(t, x, p, b) /\ t.pick \in Picking
       /\ x \in [MovesOf(t.pick) -> MoveVersion]
       /\ \A n \in MovesOf(t.pick) : live[MoveRow(n)] = x[n] /\ n \in Move
   BY <1>1, <1>2, WorkAt DEF OfPicking, OfMove
 <1>4. PICK m, v : m = t.cur.move /\ v = live'[MoveRow(m)]
   OBVIOUS
 <1>5. /\ Validating(t) /\ ~Backflushing(t) /\ AtWork(t)
       /\ m \in DOMAIN x /\ m \notin Todo(t)
       /\ Pending(t) = Todo(t) \cup {m}
       /\ ValidPhase(Pending(t), x, p, b)
       /\ ~IsComponent(m)
   BY <1>2, <1>3, <1>4, InHand
 <1>6. /\ WritesOnly(w, {MoveRow(m)}) /\ v.state = "done" /\ v.reserved = 0
   BY <1>1, <1>4, MoveDoneRow
 <1>7. PICK d : /\ txn' = [txn EXCEPT ![w] = d] /\ txn'[w] = d
                /\ d.pc = "validate" /\ d.pick = t.pick /\ d.todo = t.todo
                /\ d.cur = t.cur
   BY <1>1, <1>2, GotoIs
 <1>8. /\ Validating(d) /\ ~Backflushing(d) /\ ~AtWork(d) /\ d.pc \notin Plain
  <2>1. Validating(d)
    BY <1>7 DEF Validating
  <2> QED
    BY <1>7, <2>1, ValidatingPhase
 <1>9. Pending(d) = Todo(t)
   BY <1>7, <1>8 DEF Todo, Pending
 <1>10. ASSUME NEW y, Rewritten(x, y, m, v)
        PROVE  WorkOK(d, y, p, b)
  <2>1. DOMAIN y = DOMAIN x /\ y[m] = v /\ \A n \in DOMAIN x : n # m => y[n] = x[n]
    BY <1>10 DEF Rewritten
  <2>2. RowsOK(y)
   <3>1. RowOK(m, v)
     BY <1>5, <1>6 DEF RowOK
   <3> QED
     BY <1>3, <2>1, <3>1 DEF WorkOK, RowsOK
  <2>3. KnowsTodo(d, y)
    BY <1>3, <1>4, <1>5, <1>7, <1>8, <1>10, KnowsOthers DEF WorkOK
  <2>4. KnowsCur(d, y)
    BY <1>7, <1>8 DEF KnowsCur, Applying
  <2>5. ValidPhase(Pending(d), y, p, b)
   <3>1. ASSUME NEW n \in DOMAIN y
         PROVE  IF n \in Pending(d) THEN y[n].state \in OpenStates
                ELSE IF IsComponent(n) THEN y[n].state # "done" ELSE y[n].state = "done"
    <4>1. CASE n = m
      BY <1>5, <1>6, <1>9, <2>1, <4>1
    <4>2. CASE n # m
      BY <1>5, <1>9, <2>1, <4>2 DEF ValidPhase
    <4> QED
      BY <4>1, <4>2
   <3> QED
     BY <1>5, <3>1 DEF ValidPhase
  <2>6. Phase(d, y, p, b)
    BY <1>8, <2>5, ValidatingPhase
  <2> QED
    BY <2>2, <2>3, <2>4, <2>6 DEF WorkOK
 <1>11. Continues(w, d)
   BY <1>1, <1>3, <1>7 DEF Continues
 <1>12. \A y : Rewritten(Mine(w), y, m, live'[MoveRow(m)]) => WorkOK(d, y, Head(w), Base(w))
   BY <1>1, <1>4, <1>10
 <1>13. m \in MovesOf(txn[w].pick)
   BY <1>1, <1>3, <1>5
 <1> QED
   BY <1>6, <1>11, <1>12, <1>13, MoveWrittenOK

LEMMA PickingDoneOK ==
    ASSUME TypeInv, WorkInv, NEW w \in Worker, PickingDone(w)
    PROVE  OwnOK(w)
 <1>1. PICK t, x, p, b : t = txn[w] /\ x = Mine(w) /\ p = Head(w) /\ b = Base(w)
   OBVIOUS
 <1>2. PICK pc : pc = (IF Bills(t.pick) THEN "bill" ELSE AfterOrder(t.pick))
   OBVIOUS
 <1>3. t.pc = "validate" /\ t.todo = {} /\ Goto(w, pc)
   BY <1>1, <1>2 DEF PickingDone, At
 <1>4. pc \in {"bill", "backflush_select", "commit"} /\ pc \in Plain
   BY <1>2 DEF AfterOrder, Plain
 <1>5. WorkOK(t, x, p, b) /\ t.pick \in Picking /\ t.pc \in OfPicking
   BY <1>1, <1>3, WorkAt DEF OfPicking
 <1>6. Validating(t)
   BY <1>3 DEF Validating
 <1>7. ValidPhase(Pending(t), x, p, b) /\ ~AtWork(t)
   BY <1>3, <1>5, <1>6, ValidatingPhase DEF WorkOK
 <1>8. Pending(t) = {}
   BY <1>3, <1>7 DEF Pending, Todo
 <1>9. PICK q : q = live'[PickingRow(txn[w].pick)].state
   OBVIOUS
 <1>10. q = "done" /\ WritesOnly(w, {PickingRow(txn[w].pick)})
   BY <1>9, PickingDoneRow
 <1>11. /\ AllDone(x) /\ \A m \in DOMAIN x : IsComponent(m) => x[m].state # "done"
        /\ \A m \in DOMAIN b : b[m].state # "done"
   BY <1>7, <1>8 DEF ValidPhase, AllDone
 <1>12. Agree(x, "done")
   BY <1>11 DEF Agree, AllDone
 <1>13. ASSUME NEW u, u.pc = pc, u.todo = {}
        PROVE  Phase(u, x, q, b)
  <2>1. ~Validating(u) /\ ~Backflushing(u) /\ u.pc \notin Assigning
    BY <1>4, <1>13, PlainKnows
  <2> QED
    BY <1>4, <1>10, <1>11, <1>12, <1>13, <2>1 DEF Phase, Billing
 <1> QED
   BY <1>1, <1>3, <1>4, <1>5, <1>9, <1>10, <1>13, HeaderWritten

\* The lines of the order, and the order, after the transfer is done.
LEMMA BillingOK ==
    ASSUME TypeInv, WorkInv, NEW w \in Worker, UpdateLines(w) \/ UpdateOrder(w)
    PROVE  OwnOK(w)
 <1>1. PICK t, x, p, b : t = txn[w] /\ x = Mine(w) /\ p = Head(w) /\ b = Base(w)
   OBVIOUS
 <1>2. PICK pc \in {"status", "backflush_select", "commit"} : Goto(w, pc)
   BY DEF UpdateLines, UpdateOrder, AfterOrder
 <1>3. t.pc \in Billing
   BY <1>1 DEF UpdateLines, UpdateOrder, At, Billing
 <1>4. WorkOK(t, x, p, b) /\ t.pick \in Picking
   BY <1>1, <1>3, WorkAt DEF OfPicking
 <1>5. t.todo = {} /\ p = "done" /\ AllDone(x)
   BY <1>3, <1>4 DEF WorkOK, KnowsTodo, Plain, Phase, Billing
 <1>6. PICK d : /\ txn' = [txn EXCEPT ![w] = d] /\ txn'[w] = d
                /\ d.pc = pc /\ d.pick = t.pick /\ d.todo = t.todo
   BY <1>1, <1>2, GotoIs
 <1>7. d.pc \in Plain /\ d.todo = {} /\ d.pc # "idle"
   BY <1>5, <1>6 DEF Plain
 <1>8. KnowsTodo(d, x) /\ KnowsCur(d, x) /\ ~Validating(d) /\ ~Backflushing(d)
       /\ d.pc \notin Assigning
   BY <1>7, PlainKnows
 <1>9. Agree(x, p)
   BY <1>5 DEF Agree, AllDone
 <1>10. Phase(d, x, p, b)
   BY <1>5, <1>6, <1>8, <1>9 DEF Phase, Billing
 <1>11. WorkOK(d, x, p, b)
   BY <1>4, <1>8, <1>10 DEF WorkOK
 <1>12. PICK R : WritesOnly(w, R) /\ R \subseteq QuantRows \cup LineRows \cup OtherRows
  <2>1. CASE UpdateLines(w)
   <3>1. PICK R : R = {LineRow(order[t.pick], product[m]) : m \in DoneMoves(w, t.pick)}
     OBVIOUS
   <3>2. R \subseteq LineRows /\ WritesOnly(w, R)
     BY <1>1, <2>1, <3>1, UpdateLinesRows
   <3> QED
     BY <3>2
  <2>2. CASE UpdateOrder(w)
    BY <2>2, OtherRowsWritten
  <2> QED
    BY <2>1, <2>2
 <1>13. Continues(w, d)
   BY <1>1, <1>4, <1>6, <1>7 DEF Continues
 <1> QED
   BY <1>1, <1>11, <1>12, <1>13, ElsewhereWrittenOK

-----------------------------------------------------------------------------
(* Subcontracting, the end of a reservation, the inventory count *)

\* The components of a subcontracted receipt, and steps without a transfer.
LEMMA BackflushSelectOK ==
    ASSUME TypeInv, WorkInv, NEW w \in Worker, BackflushSelect(w)
    PROVE  OwnOK(w)
 <1>1. PICK t, x, p, b : t = txn[w] /\ x = Mine(w) /\ p = Head(w) /\ b = Base(w)
   OBVIOUS
 <1>2. t.pc = "backflush_select" /\ UNCHANGED dbVars
   BY <1>1 DEF BackflushSelect, At
 <1>3. WorkOK(t, x, p, b) /\ t.pick \in Picking /\ Reads(w, t.pick, x)
   BY <1>1, <1>2, WorkAt DEF OfPicking
 <1>4. PICK d :
            /\ TxnOK(d) /\ txn' = [txn EXCEPT ![w] = d]
            /\ d.pc = "backflush" /\ d.pick = t.pick
            /\ \A c \in d.todo : \E m \in DoneMoves(w, t.pick) :
                  component[m] # NoMove /\ c = Consumed(w, m)
   BY <1>1, BackflushSelectEffect
 <1>5. p = "done" /\ AllDone(x)
   BY <1>2, <1>3 DEF WorkOK, Phase
 <1>6. Backflushing(d) /\ ~AtWork(d) /\ d.pc \notin Plain
       /\ (Phase(d, x, p, b) <=> p = "done" /\ AllDone(x))
  <2>1. Backflushing(d)
    BY <1>4 DEF Backflushing
  <2> QED
    BY <1>4, <2>1, BackflushPhase
 <1>7. ASSUME NEW c \in d.todo
       PROVE  /\ c.move \in MovesOf(t.pick) /\ c.prod = product[c.move] /\ c.src = source[c.move]
              /\ c.dest = x[c.move].dest /\ c.reserved = x[c.move].reserved
              /\ IsComponent(c.move)
  <2>1. PICK m \in DoneMoves(w, t.pick) : component[m] # NoMove /\ c = Consumed(w, m)
    BY <1>4
  <2>2. m \in Move /\ picking[m] = t.pick
    BY DEF DoneMoves, MovesOf
  <2>3. /\ component[m] \in Move
        /\ c.move = component[m]
        /\ c.prod = product[component[m]] /\ c.src = source[component[m]]
        /\ c.dest = Visible(w, MoveRow(component[m])).dest
        /\ c.reserved = Visible(w, MoveRow(component[m])).reserved
    BY <2>1, <2>2, ConsumedTyped
  <2>4. component[m] \in MovesOf(t.pick)
    BY <2>2, <2>3, TransferAssumption DEF MovesOf
  <2> QED
    BY <1>3, <2>2, <2>3, <2>4 DEF Reads, IsComponent
 <1>8. KnowsTodo(d, x)
   BY <1>4, <1>6, <1>7 DEF KnowsTodo
 <1>9. KnowsCur(d, x)
   BY <1>4, <1>6 DEF KnowsCur, Applying
 <1>10. WorkOK(d, x, p, b)
   BY <1>3, <1>5, <1>6, <1>8, <1>9 DEF WorkOK
 <1>11. Continues(w, d)
   BY <1>1, <1>3, <1>4 DEF Continues
 <1> QED
   BY <1>1, <1>2, <1>10, <1>11, ReadOK

LEMMA BackflushOK ==
    ASSUME TypeInv, WorkInv, NEW w \in Worker, Backflush(w)
    PROVE  OwnOK(w)
 <1>1. PICK t, x, p, b : t = txn[w] /\ x = Mine(w) /\ p = Head(w) /\ b = Base(w)
   OBVIOUS
 <1>2. t.pc = "backflush"
   BY <1>1 DEF Backflush, At
 <1>3. /\ WorkOK(t, x, p, b) /\ t.pick \in Picking
       /\ x \in [MovesOf(t.pick) -> MoveVersion]
       /\ \A n \in MovesOf(t.pick) : live[MoveRow(n)] = x[n] /\ n \in Move
   BY <1>1, <1>2, WorkAt DEF OfPicking
 <1>4. \E d : \E c \in txn[w].todo :
            /\ c \in Transfer(Move)
            /\ Write(w, [r \in {MoveRow(c.move)} |->
                  [live[r] EXCEPT !.quantity = @ + c.qty, !.state = "done"]])
            /\ TxnOK(d) /\ txn' = [txn EXCEPT ![w] = d]
            /\ d.pc = ApplyPc(c) /\ d.pick = txn[w].pick
            /\ d.todo = txn[w].todo \ {c} /\ d.cur = c
   BY BackflushEffect
 <1>5. PICK d : \E c \in t.todo :
            /\ c \in Transfer(Move)
            /\ Write(w, [r \in {MoveRow(c.move)} |->
                  [live[r] EXCEPT !.quantity = @ + c.qty, !.state = "done"]])
            /\ txn' = [txn EXCEPT ![w] = d]
            /\ d.pc = ApplyPc(c) /\ d.pick = t.pick
            /\ d.todo = t.todo \ {c} /\ d.cur = c
   BY ONLY <1>1, <1>4
 <1>6. PICK c \in t.todo :
            /\ c \in Transfer(Move)
            /\ Write(w, [r \in {MoveRow(c.move)} |->
                  [live[r] EXCEPT !.quantity = @ + c.qty, !.state = "done"]])
            /\ txn' = [txn EXCEPT ![w] = d]
            /\ d.pc = ApplyPc(c) /\ d.pick = t.pick
            /\ d.todo = t.todo \ {c} /\ d.cur = c
   BY <1>5
 <1>7. Backflushing(t) /\ (Phase(t, x, p, b) <=> p = "done" /\ AllDone(x))
  <2>1. Backflushing(t)
    BY <1>2 DEF Backflushing
  <2> QED
    BY <2>1, BackflushPhase
 <1>8. PICK m, v : m = c.move /\ v = live'[MoveRow(m)]
   OBVIOUS
 <1>9. /\ m \in MovesOf(t.pick) /\ c.prod = product[m] /\ c.src = source[m]
       /\ c.dest = x[m].dest /\ c.reserved = x[m].reserved /\ IsComponent(m)
       /\ m \in Move /\ m \in DOMAIN x
   BY <1>3, <1>6, <1>7, <1>8 DEF WorkOK, KnowsTodo
 <1>10. /\ WritesOnly(w, {MoveRow(m)}) /\ v.state = "done"
        /\ v.reserved = x[m].reserved /\ v.dest = x[m].dest
  <2>1. live[MoveRow(m)] = x[m]
    BY <1>3, <1>9
  <2> QED
    BY <1>6, <1>8, <2>1, BackflushRow
 <1>11. d.pc \in {"out", "backflush"}
   BY <1>6, <1>8, <1>9, GoesOn
 <1>12. /\ Backflushing(d) /\ d.pc \notin Plain /\ (AtWork(d) <=> d.pc # "backflush")
  <2>1. Backflushing(d)
    BY <1>6, <1>8, <1>9, <1>11 DEF Backflushing, Applying
  <2> QED
    BY <2>1, BackflushPhase
 <1>13. ASSUME NEW y, Rewritten(x, y, m, v)
        PROVE  WorkOK(d, y, p, b)
  <2>1. DOMAIN y = DOMAIN x /\ y[m] = v /\ \A n \in DOMAIN x : n # m => y[n] = x[n]
    BY <1>13 DEF Rewritten
  <2>2. RowsOK(y)
   <3>1. RowOK(m, x[m]) /\ x[m].reserved \in Nat
     BY <1>3, <1>9 DEF WorkOK, RowsOK, MoveVersion
   <3>2. RowOK(m, v)
     BY <1>9, <1>10, <3>1 DEF RowOK
   <3> QED
     BY <1>3, <2>1, <3>2 DEF WorkOK, RowsOK
  <2>3. \A n \in DOMAIN x : y[n].dest = x[n].dest /\ y[n].reserved = x[n].reserved
    BY <1>10, <2>1
  <2>4. \A u \in t.todo : u.move \in DOMAIN x
    BY <1>3 DEF WorkOK, KnowsTodo
  <2>5. KnowsTodo(d, y)
    BY <1>3, <1>6, <1>7, <1>12, <2>3, <2>4 DEF WorkOK, KnowsTodo
  <2>6. KnowsCur(d, y)
    BY <1>6, <1>8, <1>9, <1>11, <1>12, <2>3 DEF KnowsCur, Applying
  <2>7. p = "done" /\ AllDone(x)
    BY <1>3, <1>7 DEF WorkOK
  <2>8. AllDone(y)
    BY <1>9, <2>1, <2>7 DEF AllDone
  <2>9. Phase(d, y, p, b)
    BY <1>12, <2>7, <2>8, BackflushPhase
  <2> QED
    BY <2>2, <2>5, <2>6, <2>9 DEF WorkOK
 <1>14. Continues(w, d)
   BY <1>1, <1>3, <1>6, <1>11 DEF Continues
 <1>15. \A y : Rewritten(Mine(w), y, m, live'[MoveRow(m)]) => WorkOK(d, y, Head(w), Base(w))
   BY <1>1, <1>8, <1>13
 <1>16. m \in MovesOf(txn[w].pick)
   BY <1>1, <1>9
 <1> QED
   BY <1>10, <1>14, <1>15, <1>16, MoveWrittenOK

LEMMA ReleaseHeldOK ==
    ASSUME TypeInv, WorkInv, NEW w \in Worker, ReleaseHeld(w)
    PROVE  OwnOK(w)
 <1>1. PICK t, x, p, b : t = txn[w] /\ x = Mine(w) /\ p = Head(w) /\ b = Base(w)
   OBVIOUS
 <1>2. t.pc \in {"cancel", "unreserve"}
   BY <1>1 DEF ReleaseHeld, At
 <1>3. WorkOK(t, x, p, b) /\ t.pick \in Picking
   BY <1>1, <1>2, WorkAt DEF OfPicking
 <1>4. \E d : \E c \in txn[w].todo :
            /\ c \in Transfer(Move) /\ ReleasedQuant(w, c)
            /\ TxnOK(d) /\ txn' = [txn EXCEPT ![w] = d]
            /\ d.pc = txn[w].pc /\ d.pick = txn[w].pick /\ d.todo = txn[w].todo \ {c}
   BY ReleaseHeldEffect
 <1>5. PICK d : \E c \in t.todo :
            /\ c \in Transfer(Move) /\ ReleasedQuant(w, c)
            /\ txn' = [txn EXCEPT ![w] = d]
            /\ d.pc = t.pc /\ d.pick = t.pick /\ d.todo = t.todo \ {c}
   BY ONLY <1>1, <1>4
 <1>6. PICK c \in t.todo :
            /\ c \in Transfer(Move) /\ ReleasedQuant(w, c)
            /\ txn' = [txn EXCEPT ![w] = d]
            /\ d.pc = t.pc /\ d.pick = t.pick /\ d.todo = t.todo \ {c}
   BY <1>5
 <1>7. WritesOnly(w, {QuantRow(c.prod, c.src)})
   BY <1>6, ReleasedEffect
 <1>8. {QuantRow(c.prod, c.src)} \subseteq QuantRows
   BY <1>6 DEF Transfer, QuantRows
 <1>9. ~Backflushing(t) /\ RowsOK(x) /\ Agree(x, p)
   BY <1>2, <1>3 DEF WorkOK, Backflushing, Applying, Phase
 <1>10. /\ \A u \in d.todo :
             /\ u.move \in MovesOf(d.pick) /\ u.prod = product[u.move] /\ u.src = source[u.move]
             /\ u.dest = x[u.move].dest /\ u.reserved = x[u.move].reserved
        /\ \A u, v \in d.todo : u.move = v.move => u = v
   BY <1>3, <1>6, <1>9 DEF WorkOK, KnowsTodo
 <1>11. KnowsTodo(d, x) /\ KnowsCur(d, x) /\ ~Validating(d) /\ ~Backflushing(d)
   BY <1>2, <1>3, <1>6, <1>10, FreshKnows
 <1>12. Phase(d, x, p, b)
   BY <1>2, <1>6, <1>9, <1>11 DEF Phase, Assigning, Billing
 <1>13. WorkOK(d, x, p, b)
   BY <1>9, <1>11, <1>12 DEF WorkOK
 <1>14. Continues(w, d)
   BY <1>1, <1>2, <1>3, <1>6 DEF Continues
 <1> QED
   BY <1>1, <1>7, <1>8, <1>13, <1>14, ElsewhereWrittenOK

LEMMA SetOnHandOK ==
    ASSUME TypeInv, WorkInv, NEW w \in Worker, NEW c \in Count, SetOnHand(w, c[1], c[2], c[3])
    PROVE  OwnOK(w)
 <1>1. PICK d : /\ TxnOK(d) /\ txn' = [txn EXCEPT ![w] = d] /\ UNCHANGED dbVars
                /\ txn[w].pc = "idle" /\ txn[w].pick = NoPicking
                /\ d.pc = "out" /\ d.pick = NoPicking /\ d.todo = {}
                /\ d.cur.move = NoMove /\ d.cur.reserved = 0
                /\ {d.cur.src, d.cur.dest} \subseteq Internal \cup {InventoryLoc}
   BY SetOnHandEffect
 <1>2. txn'[w] = d /\ OthersStay(w)
   BY <1>1, SetTxnTo
 <1>3. StepFrame(w)
   BY <1>1, <1>2, ReadsFrame
 <1>4. Elsewhere(d)
   BY <1>1 DEF Elsewhere, Applying
 <1>5. NoPicking \notin Picking
   BY TransferAssumption
 <1> QED
   BY <1>1, <1>2, <1>3, <1>4, <1>5 DEF OwnOK

-----------------------------------------------------------------------------
(* The end of a request *)

\* Only the rows a transaction has locked change when it ends.
LEMMA EndedRow ==
    ASSUME TypeInv, NEW w \in Worker, Ends(w), NEW r \in Row
    PROVE  /\ lock[r] # w => /\ live'[r] = live[r] /\ lock'[r] = lock[r]
                             /\ committed'[r] = committed[r]
           /\ lock[r] = w => lock'[r] = NoTxn /\ live'[r] = committed'[r]
           /\ \/ committed'[r] = Visible(w, r) /\ CommitTxn(w) /\ live' = live
                 /\ txn[w].pc \in {"commit", "backflush"}
              \/ committed' = committed /\ RollbackTxn(w)
 <1>1. CASE CommitTxn(w) /\ txn[w].pc \in {"commit", "backflush"}
   BY <1>1 DEF CommitTxn, Visible
 <1>2. CASE RollbackTxn(w)
   BY <1>2 DEF RollbackTxn
 <1> QED
   BY <1>1, <1>2 DEF Ends

\* A request does not touch the transfer of another.
LEMMA NotMyTransfer ==
    ASSUME TypeInv, WorkInv, NEW w \in Worker, NEW k \in Picking, txn[w].pick # k
    PROVE  /\ PickingRow(k) \in Row /\ lock[PickingRow(k)] # w
           /\ \A m \in MovesOf(k) : MoveRow(m) \in Row /\ lock[MoveRow(m)] # w
 <1>1. lock[PickingRow(k)] # w
   BY DEF WorkInv
 <1>2. \A m \in MovesOf(k) : m \in Move /\ lock[MoveRow(m)] # w
   BY DEF WorkInv, MovesOf
 <1> QED
   BY <1>1, <1>2, RowsIn

\* The end of one request is nothing to the others.
LEMMA EndsOthers ==
    ASSUME TypeInv, WorkInv, NEW w \in Worker, Ends(w), NEW v \in Worker, v # w
    PROVE  /\ txn'[v] = txn[v]
           /\ txn[v].pick \in Picking =>
                 Mine(v)' = Mine(v) /\ Head(v)' = Head(v) /\ Base(v)' = Base(v)
 <1>1. txn'[v] = txn[v]
   BY EndsEffect DEF OthersStay
 <1>2. ASSUME txn[v].pick \in Picking
       PROVE  Mine(v)' = Mine(v) /\ Head(v)' = Head(v) /\ Base(v)' = Base(v)
  <2>1. txn[w].pick # txn[v].pick
    BY <1>2 DEF WorkInv
  <2>2. /\ PickingRow(txn[v].pick) \in Row /\ lock[PickingRow(txn[v].pick)] # w
        /\ \A m \in MovesOf(txn[v].pick) : MoveRow(m) \in Row /\ lock[MoveRow(m)] # w
    BY <1>2, <2>1, NotMyTransfer
  <2>3. live'[PickingRow(txn[v].pick)] = live[PickingRow(txn[v].pick)]
    BY <2>2, EndedRow
  <2>4. \A m \in MovesOf(txn[v].pick) :
           /\ live'[MoveRow(m)] = live[MoveRow(m)]
           /\ committed'[MoveRow(m)] = committed[MoveRow(m)]
    BY <2>2, EndedRow
  <2> QED
    BY <1>1, <2>3, <2>4 DEF Mine, Head, Base
 <1> QED
   BY <1>1, <1>2

\* What a request commits, header and moves, tells one story.
LEMMA SavedSound ==
    ASSUME TypeInv, WorkInv, NEW w \in Worker, Ends(w), NEW k \in Picking
    PROVE  (RowsOK(Saved(k)) /\ Agree(Saved(k), committed[PickingRow(k)].state))'
 <1>0. RowsOK(Saved(k)) /\ Agree(Saved(k), committed[PickingRow(k)].state)
   BY DEF WorkInv
 <1>1. CASE txn[w].pick # k
  <2>1. /\ PickingRow(k) \in Row /\ lock[PickingRow(k)] # w
        /\ \A m \in MovesOf(k) : MoveRow(m) \in Row /\ lock[MoveRow(m)] # w
    BY <1>1, NotMyTransfer
  <2>2. /\ committed'[PickingRow(k)] = committed[PickingRow(k)]
        /\ \A m \in MovesOf(k) : committed'[MoveRow(m)] = committed[MoveRow(m)]
    BY <2>1, EndedRow
  <2>3. Saved(k)' = Saved(k)
    BY <2>2 DEF Saved
  <2> QED
    BY <1>0, <2>2, <2>3
 <1>2. CASE RollbackTxn(w)
  <2>1. Saved(k)' = Saved(k) /\ committed' = committed
    BY <1>2 DEF RollbackTxn, Saved
  <2> QED
    BY <1>0, <2>1
 <1>3. CASE txn[w].pick = k /\ CommitTxn(w) /\ txn[w].pc \in {"commit", "backflush"}
  <2>1. /\ WorkOK(txn[w], Mine(w), Head(w), Base(w))
        /\ Reads(w, k, Mine(w)) /\ Visible(w, PickingRow(k)).state = Head(w)
    BY <1>3, WorkOn
  <2>2. /\ committed'[PickingRow(k)].state = Head(w)
        /\ \A m \in MovesOf(k) : committed'[MoveRow(m)] = Mine(w)[m]
   <3>1. PickingRow(k) \in Row /\ \A m \in MovesOf(k) : MoveRow(m) \in Row
     BY RowsIn DEF MovesOf
   <3> QED
     BY <1>3, <2>1, <3>1 DEF CommitTxn, Reads
  <2>3. Saved(k)' = Mine(w)
    BY <1>3, <2>2 DEF Saved, Mine
  <2>4. Agree(Mine(w), Head(w))
   <3>1. CASE txn[w].pc = "commit"
     BY <2>1, <3>1 DEF WorkOK, Phase
   <3>2. CASE txn[w].pc = "backflush"
    <4>1. Backflushing(txn[w])
      BY <3>2 DEF Backflushing
    <4>2. Head(w) = "done" /\ AllDone(Mine(w))
      BY <2>1, <4>1, BackflushPhase DEF WorkOK
    <4> QED
      BY <4>2 DEF Agree, AllDone
   <3> QED
     BY <1>3, <3>1, <3>2
  <2> QED
    BY <2>1, <2>2, <2>3, <2>4 DEF WorkOK
 <1> QED
   BY <1>1, <1>2, <1>3 DEF Ends

\* The end of a request leaves its transfer as sound as it must be.
LEMMA EndsWork ==
    ASSUME TypeInv, WorkInv, NEW w \in Worker, Ends(w)
    PROVE  WorkInv'
 <1>1. /\ txn'[w] = Idle /\ txn'[w].pc = "idle" /\ txn'[w].pick = NoPicking
       /\ OthersStay(w) /\ NoPicking \notin Picking
   BY EndsEffect, TransferAssumption
 <1>2. \A r \in Row, v \in Worker : lock'[r] = v => v # w /\ lock[r] = v
  <2>1. ASSUME NEW r \in Row, NEW v \in Worker, lock'[r] = v
        PROVE  v # w /\ lock[r] = v
    BY <2>1, EndedRow, NoTxnAssumption
  <2> QED
    BY <2>1
 <1>3. ASSUME NEW u \in Worker, NEW v \in Worker,
              txn'[u].pick = txn'[v].pick, txn'[v].pick \in Picking
       PROVE  u = v
  <2>1. u # w /\ v # w
    BY <1>1, <1>3
  <2>2. txn'[u] = txn[u] /\ txn'[v] = txn[v]
    BY <1>1, <2>1 DEF OthersStay
  <2> QED
    BY <1>3, <2>2 DEF WorkInv
 <1>4. ASSUME NEW v \in Worker, NEW r \in Row, lock'[r] = v
       PROVE  /\ lock[r] = v /\ txn'[v] = txn[v] /\ txn'[v].pc # "idle"
  <2>1. v # w /\ lock[r] = v
    BY <1>2, <1>4
  <2>2. txn'[v] = txn[v]
    BY <1>1, <2>1 DEF OthersStay
  <2> QED
    BY <2>1, <2>2 DEF WorkInv
 <1>5. /\ \A m \in Move, v \in Worker : lock'[MoveRow(m)] = v => picking[m] = txn'[v].pick
       /\ \A k \in Picking, v \in Worker : lock'[PickingRow(k)] = v => k = txn'[v].pick
       /\ \A r \in Row, v \in Worker : lock'[r] = v => txn'[v].pc # "idle"
  <2>1. /\ \A m \in Move, v \in Worker : lock[MoveRow(m)] = v => picking[m] = txn[v].pick
        /\ \A k \in Picking, v \in Worker : lock[PickingRow(k)] = v => k = txn[v].pick
    BY DEF WorkInv
  <2>2. ASSUME NEW m \in Move, NEW v \in Worker, lock'[MoveRow(m)] = v
        PROVE  picking[m] = txn'[v].pick
   <3>1. MoveRow(m) \in Row
     BY RowsIn
   <3>2. lock[MoveRow(m)] = v /\ txn'[v] = txn[v]
     BY <1>4, <2>2, <3>1
   <3> QED
     BY <2>1, <3>2
  <2>3. ASSUME NEW k \in Picking, NEW v \in Worker, lock'[PickingRow(k)] = v
        PROVE  k = txn'[v].pick
   <3>1. PickingRow(k) \in Row
     BY RowsIn
   <3>2. lock[PickingRow(k)] = v /\ txn'[v] = txn[v]
     BY <1>4, <2>3, <3>1
   <3> QED
     BY <2>1, <3>2
  <2> QED
    BY <1>4, <2>2, <2>3
 <1>6. \A k \in Picking : (RowsOK(Saved(k)) /\ Agree(Saved(k), committed[PickingRow(k)].state))'
   BY SavedSound
 <1>7. ASSUME NEW v \in Worker
       PROVE  IF txn'[v].pick \in Picking
              THEN txn'[v].pc # "idle" /\ WorkOK(txn[v], Mine(v), Head(v), Base(v))'
              ELSE Elsewhere(txn'[v])
  <2>1. CASE v = w
   <3>1. Elsewhere(Idle)
     BY IdleShape DEF Elsewhere, Applying
   <3> QED
     BY <1>1, <2>1, <3>1
  <2>2. CASE v # w
   <3>1. /\ txn'[v] = txn[v]
         /\ txn[v].pick \in Picking =>
              Mine(v)' = Mine(v) /\ Head(v)' = Head(v) /\ Base(v)' = Base(v)
     BY <2>2, EndsOthers
   <3>2. IF txn[v].pick \in Picking
         THEN txn[v].pc # "idle" /\ WorkOK(txn[v], Mine(v), Head(v), Base(v))
         ELSE Elsewhere(txn[v])
     BY DEF WorkInv
   <3>3. CASE txn[v].pick \in Picking
    <4>1. WorkOK(txn[v], Mine(v), Head(v), Base(v))'
      BY <3>1, <3>2, <3>3
    <4> QED
      BY <3>1, <3>2, <3>3, <4>1
   <3>4. CASE txn[v].pick \notin Picking
     BY <3>1, <3>2, <3>4
   <3> QED
     BY <3>3, <3>4
  <2> QED
    BY <2>1, <2>2
 <1> QED
   BY <1>3, <1>5, <1>6, <1>7 DEF WorkInv

-----------------------------------------------------------------------------
(* The header of a transfer and its moves *)

\* A step of worker w that does not end its request is right about its own
\* transfer, and touches no other.
LEMMA StepOwn ==
    ASSUME TypeInv, WorkInv, OneRequestPerPicking, NEW w \in Worker, Steps(w)
    PROVE  OwnOK(w) \/ Ends(w)
 <1>1. ASSUME NEW k \in Picking, Requests(w, k)
       PROVE  OwnOK(w)
   BY <1>1, SimpleRequestsOK, AssignOK, HoldersOK DEF Requests
 <1>2. ASSUME NEW c \in Count, SetOnHand(w, c[1], c[2], c[3])
       PROVE  OwnOK(w)
   BY <1>2, SetOnHandOK
 <1>3. ASSUME StateUpdates(w)
       PROVE  OwnOK(w)
   BY <1>3, ConfirmPickingOK, ConfirmMovesOK, AssignPickingOK, CancelPickingOK, CancelMovesOK,
      UnreserveMovesOK, UnreservePickingOK, ResetPickingOK, ResetMovesOK, Zenon DEF StateUpdates
 <1>4. ASSUME \/ AssignMove(w) \/ Reserve(w) \/ AssignedMove(w) \/ LoadMoves(w)
              \/ ValidateMove(w) \/ Putaway(w) \/ ReleaseMove(w)
       PROVE  OwnOK(w)
   BY <1>4, AssignMoveOK, ReserveOK, AssignedMoveOK, LoadMovesOK, ValidateMoveOK, PutawayOK,
      ReleaseMoveOK, Zenon
 <1>5. ASSUME \/ ApplyOut(w) \/ ApplyIn(w) \/ RefreshSnapshot(w) \/ RefreshWrite(w)
              \/ MoveDone(w) \/ PickingDone(w) \/ UpdateLines(w) \/ UpdateOrder(w)
              \/ BackflushSelect(w) \/ Backflush(w) \/ ReleaseHeld(w)
       PROVE  OwnOK(w)
   BY <1>5, ApplyingOK, MoveDoneOK, PickingDoneOK, BillingOK, BackflushSelectOK, BackflushOK,
      ReleaseHeldOK, Zenon
 <1>6. ASSUME Commit(w) \/ Abort(w) \/ RefuseMove(w)
       PROVE  Ends(w)
   BY <1>6, StepEnds
 <1>7. Statement(w) => OwnOK(w) \/ Ends(w)
   BY <1>3, <1>4, <1>5, <1>6, Zenon DEF Statement, StateUpdates
 <1> QED
   BY <1>1, <1>2, <1>6, <1>7 DEF Steps, Requests

\* WorkInv at the start and after every step.
LEMMA StepKeepsWork ==
    ASSUME TypeInv, WorkInv, OneRequestPerPicking, NEW w \in Worker, Steps(w)
    PROVE  WorkInv'
  BY StepOwn, FramedStep, EndsWork DEF OwnOK

LEMMA InitWork ==
    ASSUME Init
    PROVE  WorkInv
 <1>1. \A w \in Worker : txn[w] = Idle
   BY DEF Init
 <1>2. \A r \in Row, w \in Worker : lock[r] # w
   BY NoTxnAssumption DEF Init
 <1>3. NoPicking \notin Picking /\ \A w \in Worker : txn[w].pick = NoPicking /\ Elsewhere(txn[w])
   BY <1>1, IdleShape, TransferAssumption DEF Elsewhere, Applying
 <1>4. ASSUME NEW k \in Picking
       PROVE  RowsOK(Saved(k)) /\ Agree(Saved(k), committed[PickingRow(k)].state)
  <2>1. committed[PickingRow(k)].state = "draft"
    BY InitRows
  <2>2. \A m \in MovesOf(k) :
           /\ Saved(k)[m].state = (IF IsComponent(m) THEN "absent" ELSE "draft")
           /\ Saved(k)[m].reserved = 0 /\ Saved(k)[m].quantity = 0
   <3>1. ASSUME NEW m \in MovesOf(k)
         PROVE  /\ Saved(k)[m].state = (IF IsComponent(m) THEN "absent" ELSE "draft")
                /\ Saved(k)[m].reserved = 0 /\ Saved(k)[m].quantity = 0
    <4>1. m \in Move
      BY DEF MovesOf
    <4>2. committed[MoveRow(m)] =
            [state |-> IF IsComponent(m) THEN "absent" ELSE "draft",
             reserved |-> 0, dest |-> planned[m], quantity |-> 0]
      BY <4>1, InitRows
    <4>3. Saved(k)[m] = committed[MoveRow(m)]
      BY DEF Saved
    <4> QED
      BY <4>2, <4>3
   <3> QED
     BY <3>1
  <2>3. DOMAIN Saved(k) = MovesOf(k)
    BY DEF Saved
  <2> QED
    BY <2>1, <2>2, <2>3 DEF RowsOK, RowOK, Agree
 <1>5. \A m \in Move, w \in Worker : lock[MoveRow(m)] # w
   BY <1>2, RowsIn
 <1>6. \A k \in Picking, w \in Worker : lock[PickingRow(k)] # w
   BY <1>2, RowsIn
 <1> QED
   BY <1>2, <1>3, <1>4, <1>5, <1>6 DEF WorkInv

LEMMA QuietWork ==
    ASSUME WorkInv, UNCHANGED vars
    PROVE  WorkInv'
 <1>1. committed' = committed /\ live' = live /\ lock' = lock /\ txn' = txn
   BY DEF vars, dbVars
 <1>2. /\ \A w \in Worker : Mine(w)' = Mine(w) /\ Head(w)' = Head(w) /\ Base(w)' = Base(w)
       /\ \A k \in Picking : Saved(k)' = Saved(k)
   BY <1>1 DEF Mine, Head, Base, Saved
 <1>3. \A w \in Worker :
         WorkOK(txn[w], Mine(w), Head(w), Base(w))' = WorkOK(txn[w], Mine(w), Head(w), Base(w))
   BY <1>1, <1>2
 <1>4. \A k \in Picking :
          (RowsOK(Saved(k)) /\ Agree(Saved(k), committed[PickingRow(k)].state))' =
          (RowsOK(Saved(k)) /\ Agree(Saved(k), committed[PickingRow(k)].state))
   BY <1>1, <1>2
 <1> QED
   BY <1>1, <1>3, <1>4 DEF WorkInv

LEMMA WorkHolds ==
    ASSUME OneRequestPerPicking
    PROVE  Spec => []WorkInv
 <1>1. Init => WorkInv
   BY InitWork
 <1>2. TypeInv /\ WorkInv /\ [Next]_vars => WorkInv'
   BY NextIsAStep, StepKeepsWork, QuietWork
 <1> QED
   BY <1>1, <1>2, TypesHold, PTL DEF Spec

\* WorkInv implies the property: committed headers and moves agree.
LEMMA WorkShows ==
    ASSUME TypeInv, WorkInv
    PROVE  HeaderMatchesMoves
 <1>1. ASSUME NEW m \in Move
       PROVE  LET k == picking[m] IN
              \/ IsComponent(m) /\ (MoveState(m) = "done" => PickState(k) = "done")
              \/ PickState(k) = "partially_available"
                    /\ MoveState(m) \in {"assigned", "partially_available"}
              \/ PickState(k) \notin {"partially_available"} /\ MoveState(m) = PickState(k)
  <2>1. PICK k \in Picking : k = picking[m] /\ m \in MovesOf(k)
    BY TransferAssumption DEF MovesOf
  <2>2. Agree(Saved(k), committed[PickingRow(k)].state)
    BY DEF WorkInv
  <2>3. m \in DOMAIN Saved(k) /\ Saved(k)[m] = committed[MoveRow(m)]
    BY <2>1 DEF Saved
  <2> QED
    BY <2>1, <2>2, <2>3 DEF Agree, MoveState, PickState
 <1> QED
   BY <1>1 DEF HeaderMatchesMoves

\* The header of a transfer and its moves never tell different stories, in
\* whatever order the statements of the requests, their failures and their
\* commits come, as long as no two requests work on one transfer at a time,
\* which nothing in StockModule.cpp ensures.
THEOREM HeadersMatchMoves ==
    ASSUME OneRequestPerPicking
    PROVE  Spec => []HeaderMatchesMoves
 <1>1. TypeInv /\ WorkInv => HeaderMatchesMoves
   BY WorkShows
 <1> QED
   BY <1>1, TypesHold, WorkHolds, PTL

-----------------------------------------------------------------------------
(* The reservations of a quant are those of the moves that leave it         *)

Leaving(p, l) == {m \in Move : product[m] = p /\ source[m] = l}

\* What worker w has added to the reservation of a quant and not committed.
PendingRes(w, p, l) ==
    LET r == QuantRow(p, l) IN
    IF lock[r] = w THEN live[r].res - committed[r].res ELSE 0

\* The units the quants hold for move m of the transfer that request t works
\* on: its own reservation, unless t has just taken or given back some of it.
HeldFor(t, x, m) ==
    IF t.pc = "reserved" /\ t.cur.move = m THEN t.cur.reserved
    ELSE IF \/ t.pc \in Applying \cup {"moved"} /\ t.cur.move = m
            \/ t.pc \in {"cancel", "unreserve"} /\ m \notin Todo(t)
            \/ t.pc = "cancel_moves"
         THEN 0
    ELSE x[m].reserved

HeldBy(w, m) ==
    IF picking[m] = txn[w].pick THEN HeldFor(txn[w], Mine(w), m)
    ELSE committed[MoveRow(m)].reserved

Promised(p, l) == [m \in Leaving(p, l) |-> committed[MoveRow(m)].reserved]
PendingPromise(w, p, l) ==
    [m \in Leaving(p, l) |-> HeldBy(w, m) - committed[MoveRow(m)].reserved]

\* The reservations on record are those of the moves, and what a transaction
\* has changed of them is what it has changed of its own moves'.
PromisesKept ==
    \A p \in Product, l \in Location :
       /\ committed[QuantRow(p, l)].res = SumFunction(Promised(p, l))
       /\ \A w \in Worker : PendingRes(w, p, l) = SumFunction(PendingPromise(w, p, l))

\* The row of a quant after a step of w that adds e to its reservation.
ResAdds(w, p, l, e) ==
    LET r == QuantRow(p, l) IN
    /\ live'[r].res = live[r].res + e
    /\ \/ e = 0 /\ lock'[r] = lock[r]
       \/ Free(w, r) /\ lock'[r] = w

\* What a transaction has reserved and not committed, after a write.
LEMMA PendingResWritten ==
    ASSUME TypeInv, NEW w \in Worker, NEW p \in Product, NEW l \in Location, NEW e \in Int,
           committed' = committed, ResAdds(w, p, l, e), NEW v \in Worker
    PROVE  PendingRes(v, p, l)' = PendingRes(v, p, l) + (IF v = w THEN e ELSE 0)
 <1>1. PICK r : r = QuantRow(p, l)
   OBVIOUS
 <1>2. r \in Row /\ live[r].res \in Int /\ committed[r].res \in Int
   BY <1>1, RowsIn DEF TypeInv, DbTyped, VersionOK, QuantVersion
 <1>3. lock[r] = NoTxn => live[r] = committed[r]
   BY <1>2 DEF TypeInv, DbTyped, LocksOK
 <1>4. /\ live'[r].res = live[r].res + e
       /\ \/ e = 0 /\ lock'[r] = lock[r]
          \/ lock[r] \in {w, NoTxn} /\ lock'[r] = w
   BY <1>1 DEF ResAdds, Free
 <1>5. NoTxn # v /\ NoTxn # w
   BY NoTxnAssumption
 <1> QED
   BY <1>1, <1>2, <1>3, <1>4, <1>5 DEF PendingRes

LEMMA PendingResType ==
    ASSUME TypeInv, NEW w, NEW p \in Product, NEW l \in Location
    PROVE  PendingRes(w, p, l) \in Int /\ committed[QuantRow(p, l)].res \in Int
  BY DEF PendingRes, TypeInv, DbTyped, VersionOK, QuantVersion

\* What the quants hold for a move is a number of units.
LEMMA HeldType ==
    ASSUME TypeInv, WorkInv, NEW w \in Worker, NEW m \in Move
    PROVE  /\ HeldBy(w, m) \in Nat /\ committed[MoveRow(m)].reserved \in Nat
           /\ picking[m] # txn[w].pick => HeldBy(w, m) = committed[MoveRow(m)].reserved
           /\ picking[m] = txn[w].pick =>
                 /\ txn[w].pick \in Picking /\ m \in MovesOf(txn[w].pick)
                 /\ HeldBy(w, m) = HeldFor(txn[w], Mine(w), m)
 <1>1. committed[MoveRow(m)].reserved \in Nat
   BY DEF TypeInv, DbTyped, VersionOK, MoveVersion
 <1>2. CASE picking[m] # txn[w].pick
   BY <1>1, <1>2 DEF HeldBy
 <1>3. CASE picking[m] = txn[w].pick
  <2>1. txn[w].pick \in Picking /\ m \in MovesOf(txn[w].pick)
    BY <1>3, TransferAssumption DEF MovesOf
  <2>2. Mine(w)[m].reserved \in Nat
    BY <2>1, WorkOn DEF MoveVersion
  <2>3. txn[w].pc = "reserved" => txn[w].cur.reserved \in Nat
    BY CurOf DEF OfMove
  <2>4. HeldFor(txn[w], Mine(w), m) \in Nat
    BY <2>2, <2>3 DEF HeldFor
  <2> QED
    BY <1>1, <1>3, <2>1, <2>4 DEF HeldBy
 <1> QED
   BY <1>2, <1>3

LEMMA PromiseTypes ==
    ASSUME TypeInv, WorkInv, NEW p \in Product, NEW l \in Location
    PROVE  /\ IsFiniteSet(Leaving(p, l)) /\ Leaving(p, l) \subseteq Move
           /\ Promised(p, l) \in [Leaving(p, l) -> Int]
           /\ \A w \in Worker : PendingPromise(w, p, l) \in [Leaving(p, l) -> Int]
 <1>1. Leaving(p, l) \subseteq Move
   BY DEF Leaving
 <1>2. IsFiniteSet(Leaving(p, l))
   BY <1>1, FS_Subset, TransferAssumption
 <1>3. \A m \in Leaving(p, l) : committed[MoveRow(m)].reserved \in Int
   BY <1>1 DEF TypeInv, DbTyped, VersionOK, MoveVersion
 <1>4. \A w \in Worker : \A m \in Leaving(p, l) :
          HeldBy(w, m) - committed[MoveRow(m)].reserved \in Int
   BY <1>1, <1>3, HeldType
 <1> QED
   BY <1>1, <1>2, <1>3, <1>4 DEF Promised, PendingPromise

\* Request w has changed by e what the quants hold for move m0.
HeldAdds(w, m0, e) ==
    \A m \in Move : HeldBy(w, m)' = HeldBy(w, m) + (IF m = m0 THEN e ELSE 0)

\* The reservations of one quant and what is held change by the same number.
LEMMA PromiseStep ==
    ASSUME TypeInv, WorkInv, OneRequestPerPicking, PromisesKept,
           NEW w \in Worker, StepFrame(w), NEW m0, NEW e \in Int, HeldAdds(w, m0, e),
           \A p \in Product, l \in Location :
              ResAdds(w, p, l, IF m0 \in Leaving(p, l) THEN e ELSE 0)
    PROVE  PromisesKept'
 <1>0. committed' = committed
   BY DEF StepFrame
 <1>1. ASSUME NEW p \in Product, NEW l \in Location
       PROVE  committed'[QuantRow(p, l)].res = SumFunction(Promised(p, l)')
  <2>1. Promised(p, l)' = Promised(p, l)
    BY <1>0 DEF Promised, Leaving
  <2> QED
    BY <1>0, <2>1 DEF PromisesKept
 <1>2. ASSUME NEW p \in Product, NEW l \in Location, NEW v \in Worker
       PROVE  PendingRes(v, p, l)' = SumFunction(PendingPromise(v, p, l)')
  <2>1. PICK f, g, S : /\ f = PendingPromise(v, p, l) /\ g = PendingPromise(v, p, l)'
                       /\ S = Leaving(p, l)
    OBVIOUS
  <2>2. f \in [S -> Int] /\ IsFiniteSet(S) /\ S \subseteq Move
    BY <2>1, PromiseTypes
  <2>3. SumFunction(f) = PendingRes(v, p, l) /\ PendingRes(v, p, l) \in Int
    BY <2>1, PendingResType DEF PromisesKept
  <2>4. DOMAIN g = S /\ g = [m \in S |-> HeldBy(v, m)' - committed[MoveRow(m)].reserved]
    BY <1>0, <2>1 DEF PendingPromise, Leaving
  <2>5. f = [m \in S |-> HeldBy(v, m) - committed[MoveRow(m)].reserved]
    BY <2>1 DEF PendingPromise
  <2>6. \A m \in S : HeldBy(v, m) \in Nat /\ committed[MoveRow(m)].reserved \in Nat
    BY <2>2, HeldType
  <2>7. CASE v # w
   <3>1. \A m \in S : HeldBy(v, m)' = HeldBy(v, m)
    <4>1. /\ txn'[v] = txn[v]
          /\ txn[v].pick \in Picking => Mine(v)' = Mine(v)
      BY <2>7, OthersFramed
    <4>2. ASSUME NEW m \in S PROVE HeldBy(v, m)' = HeldBy(v, m)
     <5>1. m \in Move /\ picking[m] \in Picking
       BY <2>2, TransferAssumption
     <5> QED
       BY <1>0, <4>1, <5>1 DEF HeldBy
    <4> QED
      BY <4>2
   <3>2. g = f
     BY <2>4, <2>5, <3>1
   <3>3. PendingRes(v, p, l)' = PendingRes(v, p, l) + 0
    <4>1. PICK e1 \in Int : ResAdds(w, p, l, e1)
      OBVIOUS
    <4> QED
      BY <1>0, <2>7, <4>1, PendingResWritten
   <3> QED
     BY <2>1, <2>3, <3>2, <3>3
  <2>8. CASE v = w
   <3>1. \A m \in S : HeldBy(v, m)' = HeldBy(v, m) + (IF m = m0 THEN e ELSE 0)
     BY <2>2, <2>8 DEF HeldAdds
   <3>2. \A m \in S : g[m] = f[m] + (IF m = m0 THEN e ELSE 0)
     BY <2>4, <2>5, <2>6, <3>1
   <3>3. g \in [S -> Int]
     BY <2>2, <2>4, <3>2
   <3>4. CASE m0 \in S
    <4>1. \A m \in S : m # m0 => g[m] = f[m]
      BY <2>2, <3>2
    <4>2. SumFunction(g) = SumFunction(f) + g[m0] - f[m0]
      BY <2>2, <3>3, <3>4, <4>1, SumFunctionUpdate
    <4>3. g[m0] = f[m0] + e /\ f[m0] \in Int
      BY <2>2, <3>2, <3>4
    <4>4. ResAdds(w, p, l, e)
      BY <2>1, <3>4
    <4>5. PendingRes(v, p, l)' = PendingRes(v, p, l) + e
      BY <1>0, <2>8, <4>4, PendingResWritten
    <4> QED
      BY <2>1, <2>3, <4>2, <4>3, <4>5
   <3>5. CASE m0 \notin S
    <4>1. g = f
     <5>1. \A m \in S : g[m] = f[m]
       BY <2>2, <3>2, <3>5
     <5> QED
       BY <2>2, <3>3, <5>1
    <4>2. ResAdds(w, p, l, 0)
      BY <2>1, <3>5
    <4>3. PendingRes(v, p, l)' = PendingRes(v, p, l) + 0
      BY <1>0, <2>8, <4>2, PendingResWritten
    <4> QED
      BY <2>1, <2>3, <4>1, <4>3
   <3> QED
     BY <3>4, <3>5
  <2> QED
    BY <2>7, <2>8
 <1> QED
   BY <1>1, <1>2 DEF PromisesKept

\* The usual step: nothing of a reservation changes.
HeldStays(w) == \A m \in Move : HeldBy(w, m)' = HeldBy(w, m)

\* Steps that touch neither.
LEMMA PromiseStays ==
    ASSUME TypeInv, WorkInv, OneRequestPerPicking, PromisesKept,
           NEW w \in Worker, StepFrame(w), HeldStays(w),
           \A p \in Product, l \in Location : ResAdds(w, p, l, 0)
    PROVE  PromisesKept'
 <1>1. HeldAdds(w, NoMove, 0)
   BY HeldType DEF HeldStays, HeldAdds
 <1>2. \A p \in Product, l \in Location :
          ResAdds(w, p, l, IF NoMove \in Leaving(p, l) THEN 0 ELSE 0)
   OBVIOUS
 <1> QED
   BY <1>1, <1>2, PromiseStep

\* The reservation of a quant covers what it holds for any one move, also for
\* what the transaction that asks has done so far: GREATEST(..., 0) never bites.
LEMMA ReservationCovers ==
    ASSUME TypeInv, WorkInv, PromisesKept, NEW w \in Worker, NEW p \in Product,
           NEW l \in Location, Free(w, QuantRow(p, l)), NEW m \in Leaving(p, l)
    PROVE  HeldBy(w, m) <= live[QuantRow(p, l)].res
 <1>1. PICK r : r = QuantRow(p, l)
   OBVIOUS
 <1>2. PICK S, f, g : S = Leaving(p, l) /\ f = Promised(p, l) /\ g = PendingPromise(w, p, l)
   OBVIOUS
 <1>3. PICK h : h = [n \in S |-> HeldBy(w, n)]
   OBVIOUS
 <1>4. /\ IsFiniteSet(S) /\ S \subseteq Move /\ f \in [S -> Int] /\ g \in [S -> Int]
   BY <1>2, PromiseTypes
 <1>5. \A n \in S : HeldBy(w, n) \in Nat /\ committed[MoveRow(n)].reserved \in Nat
   BY <1>4, HeldType
 <1>6. h \in [S -> Nat] /\ h \in [S -> Int]
   BY <1>3, <1>5
 <1>7. \A n \in S : h[n] = f[n] + g[n]
   BY <1>2, <1>3, <1>5 DEF Promised, PendingPromise
 <1>8. SumFunction(h) = SumFunction(f) + SumFunction(g)
   BY <1>4, <1>6, <1>7, SumFunctionPlus
 <1>9. h[m] <= SumFunction(h)
   BY <1>2, <1>4, <1>6, SumFunctionCovers
 <1>10. live[r].res = committed[r].res + PendingRes(w, p, l)
  <2>1. r \in Row /\ live[r].res \in Int /\ committed[r].res \in Int
    BY <1>1, RowsIn DEF TypeInv, DbTyped, VersionOK, QuantVersion
  <2>2. lock[r] = NoTxn => live[r] = committed[r]
    BY <2>1 DEF TypeInv, DbTyped, LocksOK
  <2> QED
    BY <1>1, <2>1, <2>2 DEF PendingRes, Free
 <1>11. committed[r].res = SumFunction(f) /\ PendingRes(w, p, l) = SumFunction(g)
   BY <1>1, <1>2 DEF PromisesKept
 <1>12. h[m] = HeldBy(w, m)
   BY <1>2, <1>3
 <1> QED
   BY <1>1, <1>8, <1>9, <1>10, <1>11, <1>12

\* Where the units held for a move are its reservation, as recorded.
AsRecorded == {"confirm", "confirm_moves", "assign", "reserve", "load", "validate", "putaway",
               "release", "bill", "status", "backflush_select", "backflush",
               "unreserve_picking", "reset", "reset_moves", "commit"}

\* A move that no request works on holds what is committed.
LEMMA HeldAsRecorded ==
    ASSUME NEW t, t.pc \in AsRecorded, NEW x, NEW m
    PROVE  HeldFor(t, x, m) = x[m].reserved
 <1>1. /\ t.pc \notin {"reserved", "moved", "cancel", "unreserve", "cancel_moves"}
       /\ t.pc \notin Applying
   BY DEF AsRecorded, Applying
 <1> QED
   BY <1>1 DEF HeldFor

\* What a request has changed of the units held, from what it has changed of
\* those held for the moves of its own transfer.
LEMMA HeldOwn ==
    ASSUME TypeInv, WorkInv, NEW w \in Worker, txn[w].pick \in Picking,
           txn'[w].pick = txn[w].pick, committed' = committed,
           NEW d, d = txn'[w], NEW y, y = Mine(w)', NEW m0, NEW e \in Int,
           m0 \in MovesOf(txn[w].pick) \/ e = 0,
           \A m \in MovesOf(txn[w].pick) :
              HeldFor(d, y, m) = HeldFor(txn[w], Mine(w), m) + (IF m = m0 THEN e ELSE 0)
    PROVE  HeldAdds(w, m0, e)
 <1> SUFFICES ASSUME NEW m \in Move
              PROVE  HeldBy(w, m)' = HeldBy(w, m) + (IF m = m0 THEN e ELSE 0)
   BY DEF HeldAdds
 <1>1. HeldBy(w, m) \in Nat
   BY HeldType
 <1>2. HeldBy(w, m)' = IF picking[m] = txn[w].pick THEN HeldFor(d, y, m)
                       ELSE committed[MoveRow(m)].reserved
   BY DEF HeldBy
 <1>3. CASE picking[m] = txn[w].pick
  <2>1. m \in MovesOf(txn[w].pick) /\ HeldBy(w, m) = HeldFor(txn[w], Mine(w), m)
    BY <1>3 DEF MovesOf, HeldBy
  <2> QED
    BY <1>2, <1>3, <2>1
 <1>4. CASE picking[m] # txn[w].pick
  <2>1. m \notin MovesOf(txn[w].pick)
    BY <1>4 DEF MovesOf
  <2>2. HeldBy(w, m) = committed[MoveRow(m)].reserved
    BY <1>4 DEF HeldBy
  <2>3. m = m0 => e = 0
    BY <2>1
  <2> QED
    BY <1>1, <1>2, <1>4, <2>2, <2>3
 <1> QED
   BY <1>3, <1>4

\* A statement that writes no quant reserves nothing.
LEMMA ResQuiet ==
    ASSUME TypeInv, NEW w, NEW R, WritesOnly(w, R), R \cap QuantRows = {}
    PROVE  \A p \in Product, l \in Location : ResAdds(w, p, l, 0)
 <1>1. ASSUME NEW p \in Product, NEW l \in Location PROVE ResAdds(w, p, l, 0)
  <2>1. PICK r : r = QuantRow(p, l)
    OBVIOUS
  <2>2. live'[r] = live[r] /\ lock'[r] = lock[r]
    BY <2>1, AwayFromQuants
  <2>3. live[r].res \in Int
    BY <2>1 DEF TypeInv, DbTyped, VersionOK, QuantVersion
  <2> QED
    BY <2>1, <2>2, <2>3 DEF ResAdds
 <1> QED
   BY <1>1

\* A statement that adds e to the reservation of the quant that move m0 leaves.
LEMMA ResChanged ==
    ASSUME TypeInv, NEW w, NEW p0 \in Product, NEW l0 \in Location, NEW e \in Int,
           WritesOnly(w, {QuantRow(p0, l0)}), Free(w, QuantRow(p0, l0)),
           lock'[QuantRow(p0, l0)] = w,
           live'[QuantRow(p0, l0)].res = live[QuantRow(p0, l0)].res + e,
           NEW m0, m0 \in Leaving(p0, l0) \/ e = 0
    PROVE  \A p \in Product, l \in Location :
              ResAdds(w, p, l, IF m0 \in Leaving(p, l) THEN e ELSE 0)
 <1>1. ASSUME NEW p \in Product, NEW l \in Location
       PROVE  ResAdds(w, p, l, IF m0 \in Leaving(p, l) THEN e ELSE 0)
  <2>1. PICK r, q : r = QuantRow(p, l) /\ q = QuantRow(p0, l0)
    OBVIOUS
  <2>2. live[r].res \in Int /\ r \in Row
    BY <2>1, RowsIn DEF TypeInv, DbTyped, VersionOK, QuantVersion
  <2>3. CASE p = p0 /\ l = l0
   <3>1. r = q /\ (m0 \in Leaving(p, l) \/ e = 0)
     BY <2>1, <2>3
   <3>2. ResAdds(w, p, l, e)
     BY <2>1, <3>1 DEF ResAdds
   <3> QED
     BY <3>1, <3>2
  <2>4. CASE ~(p = p0 /\ l = l0)
   <3>1. r # q
     BY <2>1, <2>4, RowsApart
   <3>2. live'[r] = live[r] /\ lock'[r] = lock[r]
     BY <2>1, <2>2, <3>1 DEF WritesOnly
   <3>3. e # 0 => m0 \notin Leaving(p, l)
     BY <2>4 DEF Leaving
   <3>4. ResAdds(w, p, l, 0)
     BY <2>1, <2>2, <3>2 DEF ResAdds
   <3> QED
     BY <3>3, <3>4
  <2> QED
    BY <2>3, <2>4
 <1> QED
   BY <1>1

\* A statement that changes nothing of what is held.
LEMMA StillPromises ==
    ASSUME TypeInv, WorkInv, OneRequestPerPicking, PromisesKept, NEW w \in Worker, OwnOK(w),
           NEW R, WritesOnly(w, R), R \cap QuantRows = {},
           txn[w].pick \in Picking, txn'[w].pick = txn[w].pick,
           NEW d, d = txn'[w], NEW y, y = Mine(w)',
           \A m \in MovesOf(txn[w].pick) : HeldFor(d, y, m) = HeldFor(txn[w], Mine(w), m)
    PROVE  PromisesKept'
 <1>1. \A m \in MovesOf(txn[w].pick) : HeldFor(txn[w], Mine(w), m) \in Nat
  <2>1. ASSUME NEW m \in MovesOf(txn[w].pick) PROVE HeldFor(txn[w], Mine(w), m) \in Nat
   <3>1. m \in Move /\ picking[m] = txn[w].pick
     BY DEF MovesOf
   <3> QED
     BY <3>1, HeldType
  <2> QED
    BY <2>1
 <1>2. \A m \in MovesOf(txn[w].pick) :
          HeldFor(d, y, m) = HeldFor(txn[w], Mine(w), m) + (IF m = NoMove THEN 0 ELSE 0)
   BY <1>1
 <1>3. committed' = committed /\ StepFrame(w)
   BY DEF OwnOK, StepFrame
 <1>4. HeldAdds(w, NoMove, 0)
   BY <1>2, <1>3, HeldOwn
 <1>5. \A p \in Product, l \in Location :
          ResAdds(w, p, l, IF NoMove \in Leaving(p, l) THEN 0 ELSE 0)
   BY ResQuiet
 <1> QED
   BY <1>3, <1>4, <1>5, PromiseStep

\* The same where the request has its next statement to run, and the moves that
\* the statement writes keep their reservation.
LEMMA RecordedPromises ==
    ASSUME TypeInv, WorkInv, OneRequestPerPicking, PromisesKept, NEW w \in Worker, OwnOK(w),
           NEW R, WritesOnly(w, R), R \cap QuantRows = {},
           txn[w].pick \in Picking, txn'[w].pick = txn[w].pick,
           txn[w].pc \in AsRecorded, txn'[w].pc \in AsRecorded,
           \A m \in MovesOf(txn[w].pick) :
              live'[MoveRow(m)].reserved = live[MoveRow(m)].reserved
    PROVE  PromisesKept'
 <1>1. PICK d, y : d = txn'[w] /\ y = Mine(w)'
   OBVIOUS
 <1>2. ASSUME NEW m \in MovesOf(txn[w].pick)
       PROVE  HeldFor(d, y, m) = HeldFor(txn[w], Mine(w), m)
  <2>1. HeldFor(d, y, m) = y[m].reserved
    BY <1>1, HeldAsRecorded
  <2>2. HeldFor(txn[w], Mine(w), m) = Mine(w)[m].reserved
    BY HeldAsRecorded
  <2>3. y[m] = live'[MoveRow(m)]
    BY <1>1, RowsAfter
  <2>4. Mine(w)[m] = live[MoveRow(m)]
    BY DEF Mine
  <2> QED
    BY <2>1, <2>2, <2>3, <2>4
 <1> QED
   BY <1>1, <1>2, StillPromises

\* A request that begins has the reservations of its transfer as recorded: what
\* cancel and unreserve have selected to give back is all that is reserved.
LEMMA BeginPromises ==
    ASSUME TypeInv, WorkInv, OneRequestPerPicking, PromisesKept, NEW w \in Worker,
           NEW k \in Picking,
           NEW pc \in {"confirm", "load", "reset", "assign", "cancel", "unreserve"},
           NEW todo \in SUBSET Transfer(Move), Begin(w, k, pc, todo),
           pc \in {"cancel", "unreserve"} =>
              \E states : /\ todo = HeldMoves(w, k, states)
                          /\ {"assigned", "partially_available"} \subseteq states
    PROVE  PromisesKept'
 <1>1. /\ StepFrame(w)
       /\ txn'[w].pc = pc /\ txn'[w].pick = k /\ txn'[w].todo = todo
       /\ Mine(w)' = Saved(k) /\ RowsOK(Saved(k))
       /\ \A m \in MovesOf(k) : Visible(w, MoveRow(m)) = Saved(k)[m]
       /\ Saved(k) \in [MovesOf(k) -> MoveVersion]
   BY BeginRows
 <1>2. txn[w].pick = NoPicking /\ UNCHANGED dbVars
   BY DEF Begin, Idle
 <1>3. PICK t, x : t = txn'[w] /\ x = Saved(k)
   OBVIOUS
 <1>4. ASSUME NEW m \in MovesOf(k) PROVE HeldFor(t, x, m) = x[m].reserved
  <2>1. CASE pc \in {"confirm", "load", "reset", "assign"}
    BY <1>1, <1>3, <2>1, HeldAsRecorded DEF AsRecorded
  <2>2. CASE pc \in {"cancel", "unreserve"}
   <3>1. PICK states : /\ todo = HeldMoves(w, k, states)
                       /\ {"assigned", "partially_available"} \subseteq states
     BY <2>2
   <3>2. Reads(w, k, x)
     BY <1>1, <1>3 DEF Reads
   <3>3. Selects(SelectMoves(w, k, states), k, x, states)
     BY <3>2, SelectMovesFacts
   <3>4. x[m].reserved \in Nat
     BY <1>1, <1>3 DEF MoveVersion
   <3>5. CASE x[m].reserved = 0
     BY <1>1, <1>3, <2>2, <3>5 DEF HeldFor, Applying
   <3>6. CASE x[m].reserved > 0
    <4>1. x[m].state \in states
     <5>1. m \in DOMAIN x /\ RowsOK(x)
       BY <1>1, <1>3
     <5>2. RowOK(m, x[m])
       BY <5>1 DEF RowsOK
     <5> QED
       BY <3>1, <3>6, <5>2 DEF RowOK
    <4>2. PICK u \in SelectMoves(w, k, states) : u.move = m
      BY <3>3, <4>1 DEF Selects
    <4>3. u.reserved = x[m].reserved
      BY <3>3, <4>2 DEF Selects
    <4>4. u \in t.todo
      BY <1>1, <1>3, <3>1, <3>6, <4>3 DEF HeldMoves
    <4>5. m \in Todo(t)
      BY <4>2, <4>4 DEF Todo
    <4> QED
      BY <1>1, <1>3, <2>2, <4>5 DEF HeldFor, Applying
   <3> QED
     BY <3>4, <3>5, <3>6
  <2> QED
    BY <2>1, <2>2
 <1>5. ASSUME NEW m \in Move PROVE HeldBy(w, m)' = HeldBy(w, m)
  <2>1. HeldBy(w, m) = committed[MoveRow(m)].reserved
   <3>1. picking[m] # txn[w].pick
     BY <1>2, TransferAssumption
   <3> QED
     BY <3>1 DEF HeldBy
  <2>2. CASE picking[m] = k
   <3>1. m \in MovesOf(k)
     BY <2>2 DEF MovesOf
   <3>2. x[m] = committed[MoveRow(m)]
     BY <1>3, <3>1 DEF Saved
   <3>3. HeldBy(w, m)' = HeldFor(t, x, m)
     BY <1>1, <1>3, <2>2 DEF HeldBy
   <3> QED
     BY <1>4, <2>1, <3>1, <3>2, <3>3
  <2>3. CASE picking[m] # k
    BY <1>1, <1>2, <2>1, <2>3 DEF HeldBy, dbVars
  <2> QED
    BY <2>2, <2>3
 <1>6. HeldStays(w)
   BY <1>5 DEF HeldStays
 <1>7. \A p \in Product, l \in Location : ResAdds(w, p, l, 0)
   BY <1>2, WritesNothing, ResQuiet
 <1> QED
   BY <1>1, <1>6, <1>7, PromiseStays

\* XPromises: PromisesKept after the step X.
LEMMA RequestPromises ==
    ASSUME TypeInv, WorkInv, OneRequestPerPicking, PromisesKept, NEW w \in Worker,
           NEW k \in Picking, Requests(w, k)
    PROVE  PromisesKept'
 <1>1. CASE Confirm(w, k)
   BY <1>1, BeginPromises DEF Confirm
 <1>2. CASE Validate(w, k)
   BY <1>2, BeginPromises DEF Validate
 <1>3. CASE Reset(w, k)
   BY <1>3, BeginPromises DEF Reset
 <1>4. CASE Assign(w, k)
  <2>1. SelectMoves(w, k, {"confirmed", "partially_available"}) \in SUBSET Transfer(Move)
    BY SelectMovesTyped
  <2> QED
    BY <1>4, <2>1, BeginPromises DEF Assign
 <1>5. CASE Cancel(w, k)
  <2>1. PICK todo : todo = HeldMoves(w, k, OpenStates)
    OBVIOUS
  <2>2. todo \in SUBSET Transfer(Move) /\ Begin(w, k, "cancel", todo)
    BY <1>5, <2>1, HeldMovesTyped DEF Cancel
  <2>3. {"assigned", "partially_available"} \subseteq OpenStates
    BY DEF OpenStates
  <2> QED
    BY <2>1, <2>2, <2>3, BeginPromises
 <1>6. CASE Unreserve(w, k)
  <2>1. PICK todo : todo = HeldMoves(w, k, {"assigned", "partially_available"})
    OBVIOUS
  <2>2. todo \in SUBSET Transfer(Move) /\ Begin(w, k, "unreserve", todo)
    BY <1>6, <2>1, HeldMovesTyped DEF Unreserve
  <2> QED
    BY <2>1, <2>2, BeginPromises
 <1> QED
   BY <1>1, <1>2, <1>3, <1>4, <1>5, <1>6 DEF Requests

\* An inventory count concerns no transfer.
LEMMA CountPromises ==
    ASSUME TypeInv, WorkInv, OneRequestPerPicking, PromisesKept, NEW w \in Worker,
           OwnOK(w), NEW p0 \in Product, NEW l0 \in Location, NEW R, WritesOnly(w, R),
           \/ R \cap QuantRows = {}
           \/ /\ R = {QuantRow(p0, l0)} /\ Free(w, QuantRow(p0, l0))
              /\ lock'[QuantRow(p0, l0)] = w
              /\ live'[QuantRow(p0, l0)].res = live[QuantRow(p0, l0)].res,
           txn[w].pick = NoPicking, txn'[w].pick = NoPicking
    PROVE  PromisesKept'
 <1>1. StepFrame(w) /\ committed' = committed
   BY DEF OwnOK, StepFrame
 <1>2. \A m \in Move : picking[m] # NoPicking
   BY TransferAssumption
 <1>3. HeldStays(w)
   BY <1>1, <1>2 DEF HeldStays, HeldBy
 <1>4. \A p \in Product, l \in Location : ResAdds(w, p, l, 0)
  <2>1. CASE R \cap QuantRows = {}
    BY <2>1, ResQuiet
  <2>2. CASE /\ R = {QuantRow(p0, l0)} /\ Free(w, QuantRow(p0, l0))
             /\ lock'[QuantRow(p0, l0)] = w
             /\ live'[QuantRow(p0, l0)].res = live[QuantRow(p0, l0)].res
   <3>1. live[QuantRow(p0, l0)].res \in Int
     BY DEF TypeInv, DbTyped, VersionOK, QuantVersion
   <3>2. live'[QuantRow(p0, l0)].res = live[QuantRow(p0, l0)].res + 0
     BY <2>2, <3>1
   <3>3. WritesOnly(w, {QuantRow(p0, l0)})
     BY <2>2
   <3>4. PICK e \in Int : e = 0
     OBVIOUS
   <3>5. \A p \in Product, l \in Location :
            ResAdds(w, p, l, IF NoMove \in Leaving(p, l) THEN e ELSE 0)
     BY ONLY TypeInv, <2>2, <3>2, <3>3, <3>4, ResChanged
   <3> QED
     BY <3>4, <3>5
  <2> QED
    BY <2>1, <2>2
 <1> QED
   BY <1>1, <1>3, <1>4, PromiseStays

\* A statement that writes the header of a transfer only.
LEMMA HeaderPromises ==
    ASSUME TypeInv, WorkInv, OneRequestPerPicking, PromisesKept, NEW w \in Worker, OwnOK(w),
           txn[w].pick \in Picking, txn'[w].pick = txn[w].pick,
           txn[w].pc \in AsRecorded, txn'[w].pc \in AsRecorded,
           WritesOnly(w, {PickingRow(txn[w].pick)})
    PROVE  PromisesKept'
 <1>1. {PickingRow(txn[w].pick)} \subseteq PickingRows
   BY DEF PickingRows
 <1>2. {PickingRow(txn[w].pick)} \cap QuantRows = {}
   BY <1>1, TablesApart
 <1>3. \A m \in MovesOf(txn[w].pick) :
          live'[MoveRow(m)].reserved = live[MoveRow(m)].reserved
  <2>1. \A m \in MovesOf(txn[w].pick) :
           MoveRow(m) \in Row /\ MoveRow(m) \notin {PickingRow(txn[w].pick)}
    BY RowsIn, RowsApart DEF MovesOf
  <2> QED
    BY <2>1 DEF WritesOnly
 <1> QED
   BY <1>2, <1>3, RecordedPromises

LEMMA HeaderUpdatesPromises ==
    ASSUME TypeInv, WorkInv, OneRequestPerPicking, PromisesKept, NEW w \in Worker,
           ConfirmPicking(w) \/ AssignPicking(w) \/ UnreservePicking(w) \/ ResetPicking(w)
    PROVE  PromisesKept'
 <1>1. OwnOK(w)
   BY ConfirmPickingOK, AssignPickingOK, UnreservePickingOK, ResetPickingOK
 <1>2. \E pc \in {"confirm_moves", "commit", "reset_moves"} : Goto(w, pc)
   BY DEF ConfirmPicking, AssignPicking, UnreservePicking, ResetPicking
 <1>3. PICK pc \in {"confirm_moves", "commit", "reset_moves"} : Goto(w, pc)
   BY <1>2
 <1>4. txn[w].pc \in {"confirm", "assign", "unreserve_picking", "reset"}
   BY DEF ConfirmPicking, AssignPicking, UnreservePicking, ResetPicking, At
 <1>5. txn[w].pick \in Picking
   BY <1>4, PickOf DEF OfPicking
 <1>6. txn'[w].pick = txn[w].pick /\ txn'[w].pc = pc
   BY <1>3, GotoIs
 <1>7. WritesOnly(w, {PickingRow(txn[w].pick)})
  <2>1. CASE ConfirmPicking(w)
    BY <2>1, PickingDoneRow
  <2>2. CASE AssignPicking(w) \/ UnreservePicking(w) \/ ResetPicking(w)
   <3>1. PICK from, to : UpdateState(w, {PickingRow(txn[w].pick)}, from, to)
     BY <2>2 DEF AssignPicking, UnreservePicking, ResetPicking
   <3> QED
     BY <1>5, <3>1, UpdatePickingEffect
  <2> QED
    BY <2>1, <2>2
 <1>8. txn[w].pc \in AsRecorded /\ txn'[w].pc \in AsRecorded
   BY <1>3, <1>4, <1>6 DEF AsRecorded
 <1> QED
   BY <1>1, <1>5, <1>6, <1>7, <1>8, HeaderPromises

\* action_cancel has given everything back when it writes the header.
LEMMA CancelPickingPromises ==
    ASSUME TypeInv, WorkInv, OneRequestPerPicking, PromisesKept, NEW w \in Worker,
           CancelPicking(w)
    PROVE  PromisesKept'
 <1>1. /\ OwnOK(w) /\ Goto(w, "cancel_moves") /\ txn[w].pc = "cancel" /\ txn[w].todo = {}
   BY CancelPickingOK DEF CancelPicking, At
 <1>2. txn[w].pick \in Picking
   BY <1>1, PickOf DEF OfPicking
 <1>3. WritesOnly(w, {PickingRow(txn[w].pick)})
   BY <1>2, UpdatePickingEffect DEF CancelPicking
 <1>4. PICK d, y : d = txn'[w] /\ y = Mine(w)'
   OBVIOUS
 <1>5. d.pc = "cancel_moves" /\ d.pick = txn[w].pick
   BY <1>1, <1>4, GotoIs
 <1>6. {PickingRow(txn[w].pick)} \cap QuantRows = {}
   BY <1>2, TablesApart DEF PickingRows
 <1>7. ASSUME NEW m \in MovesOf(txn[w].pick)
       PROVE  HeldFor(d, y, m) = HeldFor(txn[w], Mine(w), m)
  <2>1. HeldFor(txn[w], Mine(w), m) = 0
    BY <1>1 DEF HeldFor, Todo
  <2>2. HeldFor(d, y, m) = 0
    BY <1>5 DEF HeldFor
  <2> QED
    BY <2>1, <2>2
 <1> QED
   BY <1>1, <1>2, <1>3, <1>4, <1>5, <1>6, <1>7, StillPromises

\* The states that change keep their reservations ...
LEMMA MoveUpdatesPromises ==
    ASSUME TypeInv, WorkInv, OneRequestPerPicking, PromisesKept, NEW w \in Worker,
           ConfirmMoves(w) \/ ResetMoves(w)
    PROVE  PromisesKept'
 <1>1. OwnOK(w)
   BY ConfirmMovesOK, ResetMovesOK
 <1>2. Goto(w, "commit") /\ txn[w].pc \in {"confirm_moves", "reset_moves"}
   BY DEF ConfirmMoves, ResetMoves, At
 <1>3. txn[w].pick \in Picking
   BY <1>2, PickOf DEF OfPicking
 <1>4. PICK from, to : UpdateState(w, MoveRows(txn[w].pick), from, to)
   BY DEF ConfirmMoves, ResetMoves
 <1>5. /\ WritesOnly(w, MoveRows(txn[w].pick))
       /\ \A m \in MovesOf(txn[w].pick) :
             live'[MoveRow(m)].reserved = live[MoveRow(m)].reserved
   BY <1>4, UpdateMovesEffect
 <1>6. MoveRows(txn[w].pick) \cap QuantRows = {}
   BY TablesApart
 <1>7. txn'[w].pick = txn[w].pick /\ txn'[w].pc = "commit"
   BY <1>2, GotoIs
 <1> QED
   BY <1>1, <1>2, <1>3, <1>5, <1>6, <1>7, RecordedPromises DEF AsRecorded

\* ... or have given them back.
LEMMA DropsPromises ==
    ASSUME TypeInv, WorkInv, OneRequestPerPicking, PromisesKept, NEW w \in Worker,
           CancelMoves(w) \/ UnreserveMoves(w)
    PROVE  PromisesKept'
 <1>1. OwnOK(w)
   BY CancelMovesOK, UnreserveMovesOK
 <1>2. \/ txn[w].pc = "cancel_moves"
       \/ txn[w].pc = "unreserve" /\ txn[w].todo = {}
   BY DEF CancelMoves, UnreserveMoves, At
 <1>3. \E pc \in {"commit", "unreserve_picking"} : Goto(w, pc)
   BY DEF CancelMoves, UnreserveMoves
 <1>4. PICK pc \in {"commit", "unreserve_picking"} : Goto(w, pc)
   BY <1>3
 <1>5. \E from, to : /\ DropMoves(w, from, to)
                     /\ {"assigned", "partially_available"} \subseteq from
  <2>1. {"assigned", "partially_available"} \subseteq AllStates \ {"done"}
    BY DEF AllStates, OpenStates
  <2>2. CASE CancelMoves(w)
    BY <2>1, <2>2 DEF CancelMoves
  <2>3. CASE UnreserveMoves(w)
    BY <2>3 DEF UnreserveMoves
  <2> QED
    BY <2>2, <2>3
 <1>6. PICK from, to : /\ DropMoves(w, from, to)
                       /\ {"assigned", "partially_available"} \subseteq from
   BY <1>5
 <1>7. /\ txn[w].pick \in Picking /\ WorkOK(txn[w], Mine(w), Head(w), Base(w))
       /\ Mine(w) \in [MovesOf(txn[w].pick) -> MoveVersion]
       /\ Reads(w, txn[w].pick, Mine(w))
   BY <1>2, WorkAt DEF OfPicking
 <1>8. PICK d, y : d = txn'[w] /\ y = Mine(w)'
   OBVIOUS
 <1>9. d.pc = pc /\ d.pick = txn[w].pick
   BY <1>4, <1>8, GotoIs
 <1>10. WritesOnly(w, MoveRows(txn[w].pick))
   BY <1>6, DropMovesEffect
 <1>11. ASSUME NEW m \in MovesOf(txn[w].pick)
        PROVE  HeldFor(d, y, m) = HeldFor(txn[w], Mine(w), m)
  <2>1. HeldFor(txn[w], Mine(w), m) = 0
    BY <1>2 DEF HeldFor, Todo
  <2>2. HeldFor(d, y, m) = y[m].reserved
    BY <1>9, HeldAsRecorded DEF AsRecorded
  <2>3. y[m] = live'[MoveRow(m)]
    BY <1>7, <1>8, <1>9, <1>10, RowsAfter
  <2>4. PICK x : x = Mine(w)
    OBVIOUS
  <2>5. Visible(w, MoveRow(m)) = x[m] /\ live[MoveRow(m)] = x[m] /\ x[m].reserved \in Nat
    BY <1>7, <2>4 DEF Reads, Mine, MoveVersion
  <2>6. live'[MoveRow(m)].reserved = IF x[m].state \in from THEN 0 ELSE x[m].reserved
    BY <1>6, <2>5, DropMovesEffect
  <2>7. RowOK(m, x[m])
    BY <1>7, <2>4 DEF WorkOK, RowsOK
  <2>8. x[m].state \notin from => x[m].reserved = 0
    BY <1>6, <2>5, <2>7 DEF RowOK
  <2> QED
    BY <2>1, <2>2, <2>3, <2>6, <2>8
 <1>12. MoveRows(txn[w].pick) \cap QuantRows = {}
   BY TablesApart
 <1> QED
   BY <1>1, <1>7, <1>8, <1>9, <1>10, <1>11, <1>12, StillPromises

\* AssignMove, LoadMoves, BackflushSelect: nothing is written yet.
LEMMA AssignMovePromises ==
    ASSUME TypeInv, WorkInv, OneRequestPerPicking, PromisesKept, NEW w \in Worker,
           AssignMove(w)
    PROVE  PromisesKept'
 <1>1. PICK d : \E t \in txn[w].todo, u \in Transfer(Move), got \in Nat :
            /\ t \in Transfer(Move) /\ u.move = t.move /\ u.prod = t.prod /\ u.src = t.src
            /\ got = ToReserve(w, t, demand[t.move] - Visible(w, MoveRow(t.move)).reserved)
            /\ u.reserved = Visible(w, MoveRow(t.move)).reserved + got
            /\ TxnOK(d) /\ txn' = [txn EXCEPT ![w] = d]
            /\ d.pc = (IF got > 0 THEN "reserve" ELSE "reserved")
            /\ d.pick = txn[w].pick /\ d.todo = txn[w].todo \ {t} /\ d.cur = u
            /\ d.qty = got /\ d.full = txn[w].full
   BY AssignMoveEffect
 <1>2. PICK t \in txn[w].todo, u \in Transfer(Move), got \in Nat :
            /\ t \in Transfer(Move) /\ u.move = t.move
            /\ u.reserved = Visible(w, MoveRow(t.move)).reserved + got
            /\ txn' = [txn EXCEPT ![w] = d]
            /\ d.pc = (IF got > 0 THEN "reserve" ELSE "reserved")
            /\ d.pick = txn[w].pick /\ d.cur = u
   BY <1>1
 <1>3. txn[w].pc = "assign" /\ UNCHANGED dbVars /\ OwnOK(w)
   BY AssignMoveOK DEF AssignMove, At
 <1>4. txn'[w] = d
   BY <1>2, SetTxnTo
 <1>5. /\ txn[w].pick \in Picking /\ Mine(w) \in [MovesOf(txn[w].pick) -> MoveVersion]
       /\ Reads(w, txn[w].pick, Mine(w))
   BY <1>3, WorkAt DEF OfPicking
 <1>6. WritesOnly(w, {})
   BY <1>3, WritesNothing
 <1>7. PICK y : y = Mine(w)'
   OBVIOUS
 <1>8. y = Mine(w)
   BY <1>2, <1>4, <1>5, <1>6, <1>7, RowsAfter
 <1>9. ASSUME NEW m \in MovesOf(txn[w].pick)
       PROVE  HeldFor(d, y, m) = HeldFor(txn[w], Mine(w), m)
  <2>1. HeldFor(txn[w], Mine(w), m) = y[m].reserved /\ y[m].reserved \in Nat
    BY <1>3, <1>5, <1>8, HeldAsRecorded DEF AsRecorded, MoveVersion
  <2>2. CASE d.pc = "reserve"
    BY <2>1, <2>2, HeldAsRecorded DEF AsRecorded
  <2>3. CASE d.pc = "reserved"
   <3>1. got = 0
     BY <1>2, <2>3
   <3>2. u.move = m => u.reserved = y[m].reserved
     BY <1>2, <1>5, <1>8, <2>1, <3>1 DEF Reads
   <3>3. HeldFor(d, y, m) = IF u.move = m THEN u.reserved ELSE y[m].reserved
     BY <1>2, <2>3 DEF HeldFor, Applying
   <3> QED
     BY <2>1, <3>2, <3>3
  <2> QED
    BY <1>2, <2>2, <2>3
 <1>10. {} \cap QuantRows = {}
   OBVIOUS
 <1> QED
   BY <1>2, <1>3, <1>4, <1>5, <1>6, <1>7, <1>9, <1>10, StillPromises

\* A request that reads, and has nothing in hand.
LEMMA ReadPromises ==
    ASSUME TypeInv, WorkInv, OneRequestPerPicking, PromisesKept, NEW w \in Worker, OwnOK(w),
           UNCHANGED dbVars, txn[w].pick \in Picking, txn'[w].pick = txn[w].pick,
           txn[w].pc \in AsRecorded, txn'[w].pc \in AsRecorded
    PROVE  PromisesKept'
 <1>1. WritesOnly(w, {})
   BY WritesNothing
 <1>2. {} \cap QuantRows = {} /\ live' = live
   BY DEF dbVars
 <1> QED
   BY <1>1, <1>2, RecordedPromises

LEMMA LoadMovesPromises ==
    ASSUME TypeInv, WorkInv, OneRequestPerPicking, PromisesKept, NEW w \in Worker,
           LoadMoves(w)
    PROVE  PromisesKept'
 <1>1. PICK d : /\ TxnOK(d) /\ txn' = [txn EXCEPT ![w] = d]
                /\ d.pc = "validate" /\ d.pick = txn[w].pick
   BY LoadMovesEffect
 <1>2. txn[w].pc = "load" /\ UNCHANGED dbVars /\ OwnOK(w)
   BY LoadMovesOK DEF LoadMoves, At
 <1>3. txn'[w] = d /\ txn[w].pick \in Picking
   BY <1>1, <1>2, SetTxnTo, PickOf DEF OfPicking
 <1> QED
   BY <1>1, <1>2, <1>3, ReadPromises DEF AsRecorded

\* What reserve() adds to the quant is what the move is about to record.
LEMMA ReservePromises ==
    ASSUME TypeInv, WorkInv, OneRequestPerPicking, PromisesKept, NEW w \in Worker,
           Reserve(w)
    PROVE  PromisesKept'
 <1>1. PICK t, x, u, m0, e : /\ t = txn[w] /\ x = Mine(w) /\ u = txn[w].cur
                             /\ m0 = txn[w].cur.move /\ e = txn[w].qty
   OBVIOUS
 <1>2. t.pc = "reserve" /\ Goto(w, "reserved") /\ OwnOK(w)
   BY <1>1, ReserveOK DEF Reserve, At
 <1>3. /\ t.pick \in Picking /\ x \in [MovesOf(t.pick) -> MoveVersion]
       /\ KnowsCur(t, x)
  <2>1. /\ t.pick \in Picking /\ x \in [MovesOf(t.pick) -> MoveVersion]
        /\ WorkOK(t, x, Head(w), Base(w))
    BY <1>1, <1>2, WorkAt DEF OfPicking, OfMove
  <2> QED
    BY <2>1 DEF WorkOK
 <1>4. AtWork(t) /\ ~Backflushing(t)
   BY <1>2 DEF AtWork, OfMove, Backflushing, Applying
 <1>5. /\ m0 \in MovesOf(t.pick) /\ u.prod = product[m0] /\ u.src = source[m0]
       /\ u.reserved = x[m0].reserved + e
   BY <1>1, <1>2, <1>3, <1>4 DEF KnowsCur
 <1>6. u.prod \in Product /\ u.src \in Location /\ e \in Nat
   BY <1>1, <1>2, CurOf DEF TypeInv, TxnOK, OfMove
 <1>7. /\ WritesOnly(w, {QuantRow(u.prod, u.src)}) /\ Free(w, QuantRow(u.prod, u.src))
       /\ lock'[QuantRow(u.prod, u.src)] = w
       /\ live'[QuantRow(u.prod, u.src)].res = live[QuantRow(u.prod, u.src)].res + e
   BY <1>1, ReserveEffect
 <1>8. m0 \in Leaving(u.prod, u.src)
   BY <1>5 DEF Leaving, MovesOf
 <1>9. PICK d, y : d = txn'[w] /\ y = Mine(w)'
   OBVIOUS
 <1>10. d.pc = "reserved" /\ d.pick = t.pick /\ d.cur = u
   BY <1>1, <1>2, <1>9, GotoIs
 <1>11. y = x
  <2>1. {QuantRow(u.prod, u.src)} \subseteq QuantRows \cup LineRows \cup OtherRows
    BY <1>6 DEF QuantRows
  <2> QED
    BY <1>1, <1>3, <1>7, <1>9, <1>10, <2>1, RowsKept
 <1>12. ASSUME NEW m \in MovesOf(t.pick)
        PROVE  HeldFor(d, y, m) = HeldFor(t, x, m) + (IF m = m0 THEN e ELSE 0)
  <2>1. HeldFor(t, x, m) = x[m].reserved /\ x[m].reserved \in Nat
    BY <1>2, <1>3, HeldAsRecorded DEF AsRecorded, MoveVersion
  <2>2. HeldFor(d, y, m) = IF m = m0 THEN u.reserved ELSE x[m].reserved
    BY <1>1, <1>10, <1>11 DEF HeldFor, Applying
  <2> QED
    BY <1>5, <1>6, <2>1, <2>2
 <1>13. committed' = committed /\ StepFrame(w) /\ e \in Int
   BY <1>2, <1>6 DEF OwnOK, StepFrame
 <1>14. HeldAdds(w, m0, e)
   BY <1>1, <1>3, <1>5, <1>9, <1>10, <1>12, <1>13, HeldOwn
 <1>15. \A p \in Product, l \in Location :
           ResAdds(w, p, l, IF m0 \in Leaving(p, l) THEN e ELSE 0)
   BY <1>6, <1>7, <1>8, <1>13, ResChanged
 <1> QED
   BY <1>13, <1>14, <1>15, PromiseStep

LEMMA AssignedMovePromises ==
    ASSUME TypeInv, WorkInv, OneRequestPerPicking, PromisesKept, NEW w \in Worker,
           AssignedMove(w)
    PROVE  PromisesKept'
 <1>1. PICK t, x, u : t = txn[w] /\ x = Mine(w) /\ u = txn[w].cur
   OBVIOUS
 <1>2. t.pc = "reserved" /\ OwnOK(w)
   BY <1>1, AssignedMoveOK DEF AssignedMove, At
 <1>3. PICK d : \E full \in BOOLEAN :
            /\ full = (txn[w].full /\ txn[w].cur.reserved >= demand[txn[w].cur.move])
            /\ TxnOK(d) /\ txn' = [txn EXCEPT ![w] = d]
            /\ d.pc = "assign" /\ d.pick = txn[w].pick /\ d.todo = txn[w].todo
            /\ d.cur = txn[w].cur /\ d.full = full
   BY AssignedMoveEffect
 <1>4. txn'[w] = d /\ d.pc = "assign" /\ d.pick = t.pick
   BY <1>1, <1>3, SetTxnTo
 <1>5. /\ t.pick \in Picking /\ x \in [MovesOf(t.pick) -> MoveVersion]
       /\ KnowsCur(t, x)
  <2>1. /\ t.pick \in Picking /\ x \in [MovesOf(t.pick) -> MoveVersion]
        /\ WorkOK(t, x, Head(w), Base(w))
    BY <1>1, <1>2, WorkAt DEF OfPicking, OfMove
  <2> QED
    BY <2>1 DEF WorkOK
 <1>6. u.move \in MovesOf(t.pick)
  <2>1. AtWork(t)
    BY <1>2 DEF AtWork, OfMove
  <2> QED
    BY <1>1, <1>5, <2>1 DEF KnowsCur
 <1>7. /\ WritesOnly(w, {MoveRow(u.move)}) /\ live'[MoveRow(u.move)].reserved = u.reserved
   BY <1>1, AssignedMoveRow
 <1>8. {MoveRow(u.move)} \cap QuantRows = {}
  <2>1. {MoveRow(u.move)} \subseteq AllMoveRows
    BY <1>6 DEF MovesOf, AllMoveRows
  <2> QED
    BY <2>1, TablesApart
 <1>9. PICK y : y = Mine(w)'
   OBVIOUS
 <1>10. ASSUME NEW m \in MovesOf(t.pick)
        PROVE  HeldFor(d, y, m) = HeldFor(t, x, m)
  <2>1. HeldFor(d, y, m) = y[m].reserved
    BY <1>4, HeldAsRecorded DEF AsRecorded
  <2>2. /\ y[m] = live'[MoveRow(m)]
        /\ MoveRow(m) \notin {MoveRow(u.move)} => y[m] = x[m]
    BY <1>1, <1>4, <1>5, <1>7, <1>9, RowsAfter
  <2>3. m # u.move => y[m] = x[m]
    BY <2>2, RowsApart
  <2>4. HeldFor(t, x, m) = IF u.move = m THEN u.reserved ELSE x[m].reserved
    BY <1>1, <1>2 DEF HeldFor, Applying
  <2> QED
    BY <1>7, <2>1, <2>2, <2>3, <2>4
 <1> QED
   BY <1>1, <1>2, <1>4, <1>5, <1>7, <1>8, <1>9, <1>10, StillPromises

\* A move whose reservation is zero goes past release().
LEMMA ReleasePcHolds ==
    ASSUME NEW d, NEW x, d.pc = ReleasePc(d.cur), d.pc \in {"release", "out", "moved"},
           d.cur.reserved \in Nat, d.cur.reserved = x[d.cur.move].reserved, NEW m
    PROVE  HeldFor(d, x, m) = x[m].reserved
 <1>1. CASE d.cur.reserved > 0
  <2>1. d.pc = "release"
    BY <1>1 DEF ReleasePc
  <2> QED
    BY <2>1, HeldAsRecorded DEF AsRecorded
 <1>2. CASE d.cur.reserved = 0
  <2>1. d.cur.move = m => x[m].reserved = 0
    BY <1>2
  <2>2. d.pc \notin {"reserved", "cancel", "unreserve", "cancel_moves"}
    OBVIOUS
  <2> QED
    BY <2>1, <2>2 DEF HeldFor
 <1> QED
   BY <1>1, <1>2

LEMMA ValidateMovePromises ==
    ASSUME TypeInv, WorkInv, OneRequestPerPicking, PromisesKept, NEW w \in Worker,
           ValidateMove(w)
    PROVE  PromisesKept'
 <1>1. PICK t, x : t = txn[w] /\ x = Mine(w)
   OBVIOUS
 <1>2. t.pc = "validate" /\ UNCHANGED dbVars /\ OwnOK(w)
   BY <1>1, ValidateMoveOK DEF ValidateMove, At
 <1>3. /\ WorkOK(t, x, Head(w), Base(w)) /\ t.pick \in Picking
       /\ x \in [MovesOf(t.pick) -> MoveVersion]
       /\ \A m \in MovesOf(t.pick) : m \in Move
   BY <1>1, <1>2, WorkAt DEF OfPicking
 <1>4. PICK d : \E c \in txn[w].todo, to \in Transfer(Move) :
            /\ c \in Transfer(Move)
            /\ to = [c EXCEPT !.dest = putaway[<<c.prod, c.dest>>]]
            /\ to.move = c.move /\ to.prod = c.prod /\ to.src = c.src /\ to.qty = c.qty
            /\ to.reserved = c.reserved
            /\ TxnOK(d) /\ txn' = [txn EXCEPT ![w] = d]
            /\ d.pc = (IF to.dest # c.dest THEN "putaway" ELSE ReleasePc(to))
            /\ d.pick = txn[w].pick /\ d.todo = txn[w].todo \ {c} /\ d.cur = to
   BY ValidateMoveEffect
 <1>5. PICK c \in txn[w].todo, to \in Transfer(Move) :
            /\ c \in Transfer(Move)
            /\ to = [c EXCEPT !.dest = putaway[<<c.prod, c.dest>>]]
            /\ to.move = c.move /\ to.prod = c.prod /\ to.src = c.src /\ to.qty = c.qty
            /\ to.reserved = c.reserved
            /\ TxnOK(d) /\ txn' = [txn EXCEPT ![w] = d]
            /\ d.pc = (IF to.dest # c.dest THEN "putaway" ELSE ReleasePc(to))
            /\ d.pick = txn[w].pick /\ d.todo = txn[w].todo \ {c} /\ d.cur = to
   BY <1>4
 <1>6. /\ c \in t.todo
            /\ to.move = c.move /\ to.prod = c.prod /\ to.src = c.src
            /\ to.reserved = c.reserved
            /\ txn' = [txn EXCEPT ![w] = d]
            /\ d.pc = (IF to.dest # c.dest THEN "putaway" ELSE ReleasePc(to))
            /\ d.pick = t.pick /\ d.todo = t.todo \ {c} /\ d.cur = to
   BY <1>1, <1>5
 <1>7. /\ c.move \in MovesOf(t.pick) /\ c.reserved = x[c.move].reserved
       /\ c.move \in Todo(t)
   BY <1>3, <1>6 DEF WorkOK, KnowsTodo, Todo
 <1>8. ~IsComponent(to.move) /\ to.move \in Move
  <2>1. Validating(t)
    BY <1>2 DEF Validating
  <2>2. ValidPhase(Pending(t), x, Head(w), Base(w))
    BY <1>3, <2>1, ValidatingPhase DEF WorkOK
  <2>3. x[to.move].state \in OpenStates /\ RowOK(to.move, x[to.move])
    BY <1>3, <1>6, <1>7, <2>2 DEF ValidPhase, Pending, WorkOK, RowsOK
  <2> QED
    BY <1>3, <1>6, <1>7, <2>3 DEF RowOK, OpenStates
 <1>9. txn'[w] = d
   BY <1>6, SetTxnTo
 <1>10. WritesOnly(w, {})
   BY <1>2, WritesNothing
 <1>11. PICK y : y = Mine(w)'
   OBVIOUS
 <1>12. y = x
   BY <1>1, <1>3, <1>6, <1>9, <1>10, <1>11, RowsAfter
 <1>13. ASSUME NEW m \in MovesOf(t.pick)
        PROVE  HeldFor(d, y, m) = HeldFor(t, x, m)
  <2>1. HeldFor(t, x, m) = x[m].reserved
    BY <1>2, HeldAsRecorded DEF AsRecorded
  <2>2. CASE d.pc = "putaway"
    BY <1>12, <2>1, <2>2, HeldAsRecorded DEF AsRecorded
  <2>3. CASE d.pc # "putaway"
   <3>1. d.pc = ReleasePc(d.cur)
     BY <1>6, <2>3
   <3>2. d.pc \in {"release", "out", "moved"}
     BY <1>6, <1>8, <3>1, GoesOn
   <3>3. d.cur.reserved \in Nat /\ d.cur.reserved = x[d.cur.move].reserved
     BY <1>6, <1>7 DEF Transfer
   <3>4. HeldFor(d, x, m) = x[m].reserved
     BY <3>1, <3>2, <3>3, ReleasePcHolds
   <3> QED
     BY <1>12, <2>1, <3>4
  <2> QED
    BY <2>2, <2>3
 <1>14. {} \cap QuantRows = {}
   OBVIOUS
 <1>15. txn[w].pick \in Picking /\ txn'[w].pick = txn[w].pick /\ d = txn'[w]
   BY <1>1, <1>3, <1>6, <1>9
 <1> QED
   BY <1>1, <1>2, <1>10, <1>11, <1>13, <1>14, <1>15, StillPromises

LEMMA PutawayPromises ==
    ASSUME TypeInv, WorkInv, OneRequestPerPicking, PromisesKept, NEW w \in Worker,
           Putaway(w)
    PROVE  PromisesKept'
 <1>1. PICK t, x, c : t = txn[w] /\ x = Mine(w) /\ c = txn[w].cur
   OBVIOUS
 <1>2. t.pc = "putaway" /\ Goto(w, ReleasePc(c)) /\ OwnOK(w)
   BY <1>1, PutawayOK DEF Putaway, At
 <1>3. /\ WorkOK(t, x, Head(w), Base(w)) /\ t.pick \in Picking
       /\ x \in [MovesOf(t.pick) -> MoveVersion] /\ DOMAIN x = MovesOf(t.pick)
       /\ \A m \in MovesOf(t.pick) : live[MoveRow(m)] = x[m]
   BY <1>1, <1>2, WorkAt DEF OfPicking, OfMove
 <1>4. /\ c.move \in MovesOf(t.pick) /\ ~IsComponent(c.move) /\ AtWork(t)
       /\ ~Backflushing(t)
   BY <1>1, <1>2, <1>3, InHand
 <1>5. c.reserved = x[c.move].reserved /\ c.reserved \in Nat
  <2>1. c.reserved \in Nat
    BY <1>1, <1>2, CurOf DEF OfMove
  <2> QED
    BY <1>1, <1>2, <1>3, <1>4, <2>1 DEF WorkOK, KnowsCur
 <1>6. /\ WritesOnly(w, {MoveRow(c.move)})
       /\ live'[MoveRow(c.move)].reserved = live[MoveRow(c.move)].reserved
   BY <1>1, PutawayRow
 <1>7. PICK d, y : d = txn'[w] /\ y = Mine(w)'
   OBVIOUS
 <1>8. d.pc = ReleasePc(d.cur) /\ d.pick = t.pick /\ d.cur = c
   BY <1>1, <1>2, <1>7, GotoIs
 <1>9. \A m \in MovesOf(t.pick) : y[m].reserved = x[m].reserved
  <2>1. ASSUME NEW m \in MovesOf(t.pick) PROVE y[m].reserved = x[m].reserved
   <3>1. /\ y[m] = live'[MoveRow(m)]
         /\ MoveRow(m) \notin {MoveRow(c.move)} => y[m] = x[m]
     BY <1>1, <1>3, <1>6, <1>7, <1>8, RowsAfter
   <3>2. live[MoveRow(m)] = x[m]
     BY <1>3
   <3> QED
     BY <1>6, <3>1, <3>2
  <2> QED
    BY <2>1
 <1>10. ASSUME NEW m \in MovesOf(t.pick)
        PROVE  HeldFor(d, y, m) = HeldFor(t, x, m)
  <2>1. HeldFor(t, x, m) = x[m].reserved
    BY <1>2, HeldAsRecorded DEF AsRecorded
  <2>2. d.pc \in {"release", "out", "moved"}
    BY <1>4, <1>8, GoesOn DEF MovesOf
  <2>3. d.cur.reserved \in Nat /\ d.cur.reserved = y[d.cur.move].reserved
    BY <1>4, <1>5, <1>8, <1>9
  <2>4. HeldFor(d, y, m) = y[m].reserved
    BY <1>8, <2>2, <2>3, ReleasePcHolds
  <2> QED
    BY <1>9, <2>1, <2>4
 <1>11. {MoveRow(c.move)} \cap QuantRows = {}
  <2>1. {MoveRow(c.move)} \subseteq AllMoveRows
    BY <1>4 DEF MovesOf, AllMoveRows
  <2> QED
    BY <2>1, TablesApart
 <1>12. txn[w].pick \in Picking /\ txn'[w].pick = txn[w].pick
   BY <1>1, <1>3, <1>7, <1>8
 <1> QED
   BY <1>1, <1>2, <1>6, <1>7, <1>10, <1>11, <1>12, StillPromises

\* release() gives a quant back what it holds for one move: its floor at zero
\* never bites, and the move is down to nothing held.
LEMMA GivenBack ==
    ASSUME TypeInv, WorkInv, OneRequestPerPicking, PromisesKept, NEW w \in Worker, OwnOK(w),
           NEW c \in Transfer(Move), ReleasedQuant(w, c), txn[w].pick \in Picking,
           txn'[w].pick = txn[w].pick,
           c.move \in MovesOf(txn[w].pick), c.prod = product[c.move], c.src = source[c.move],
           HeldFor(txn[w], Mine(w), c.move) = c.reserved,
           NEW d, d = txn'[w],
           \A m \in MovesOf(txn[w].pick) :
              HeldFor(d, Mine(w), m) =
                 IF m = c.move THEN 0 ELSE HeldFor(txn[w], Mine(w), m)
    PROVE  PromisesKept'
 <1>1. PICK q, m0 : q = QuantRow(c.prod, c.src) /\ m0 = c.move
   OBVIOUS
 <1>2. c.prod \in Product /\ c.src \in Location /\ c.reserved \in Nat /\ m0 \in Move
   BY <1>1 DEF Transfer
 <1>3. /\ WritesOnly(w, {q}) /\ Free(w, q) /\ lock'[q] = w
       /\ live'[q].res = (IF live[q].res - c.reserved >= 0
                          THEN live[q].res - c.reserved ELSE 0)
   BY <1>1, ReleasedEffect
 <1>4. m0 \in Leaving(c.prod, c.src)
   BY <1>1, <1>2 DEF Leaving
 <1>5. HeldBy(w, m0) = c.reserved
   BY <1>1 DEF HeldBy, MovesOf
 <1>6. c.reserved <= live[q].res /\ live[q].res \in Int
  <2>1. HeldBy(w, m0) <= live[QuantRow(c.prod, c.src)].res
    BY <1>1, <1>2, <1>3, <1>4, ReservationCovers
  <2>2. live[QuantRow(c.prod, c.src)].res \in Int
    BY <1>2 DEF TypeInv, DbTyped, VersionOK, QuantVersion
  <2> QED
    BY <1>1, <1>5, <2>1, <2>2
 <1>7. PICK e \in Int : e = 0 - c.reserved
   BY <1>2
 <1>8. live'[q].res = live[q].res + e
   BY <1>2, <1>3, <1>6, <1>7
 <1>9. \A p \in Product, l \in Location :
          ResAdds(w, p, l, IF m0 \in Leaving(p, l) THEN e ELSE 0)
   BY <1>1, <1>2, <1>3, <1>4, <1>8, ResChanged
 <1>10. PICK y : y = Mine(w)'
   OBVIOUS
 <1>11. y = Mine(w)
  <2>1. {q} \subseteq QuantRows \cup LineRows \cup OtherRows
    BY <1>1, <1>2 DEF QuantRows
  <2> QED
    BY <1>3, <1>10, <2>1, RowsKept
 <1>12. \A m \in MovesOf(txn[w].pick) :
           HeldFor(d, y, m) = HeldFor(txn[w], Mine(w), m) + (IF m = m0 THEN e ELSE 0)
  <2>1. ASSUME NEW m \in MovesOf(txn[w].pick)
        PROVE  HeldFor(d, y, m) = HeldFor(txn[w], Mine(w), m) + (IF m = m0 THEN e ELSE 0)
   <3>1. HeldFor(txn[w], Mine(w), m) \in Nat
    <4>1. m \in Move /\ picking[m] = txn[w].pick
      BY DEF MovesOf
    <4> QED
      BY <4>1, HeldType
   <3> QED
     BY <1>1, <1>2, <1>7, <1>11, <3>1
  <2> QED
    BY <2>1
 <1>13. committed' = committed /\ StepFrame(w)
   BY DEF OwnOK, StepFrame
 <1>14. HeldAdds(w, m0, e)
   BY <1>1, <1>7, <1>10, <1>12, <1>13, HeldOwn
 <1> QED
   BY <1>7, <1>9, <1>13, <1>14, PromiseStep

LEMMA ReleaseMovePromises ==
    ASSUME TypeInv, WorkInv, OneRequestPerPicking, PromisesKept, NEW w \in Worker,
           ReleaseMove(w)
    PROVE  PromisesKept'
 <1>1. PICK t, x, c : t = txn[w] /\ x = Mine(w) /\ c = txn[w].cur
   OBVIOUS
 <1>2. /\ t.pc = "release" /\ Goto(w, ApplyPc(c)) /\ OwnOK(w) /\ ReleasedQuant(w, c)
   BY <1>1, ReleaseMoveOK DEF ReleaseMove, At
 <1>3. /\ WorkOK(t, x, Head(w), Base(w)) /\ t.pick \in Picking
       /\ DOMAIN x = MovesOf(t.pick)
   BY <1>1, <1>2, WorkAt DEF OfPicking, OfMove
 <1>4. /\ c.move \in MovesOf(t.pick) /\ ~IsComponent(c.move) /\ AtWork(t)
       /\ ~Backflushing(t)
   BY <1>1, <1>2, <1>3, InHand
 <1>5. /\ c.reserved = x[c.move].reserved /\ c.prod = product[c.move]
       /\ c.src = source[c.move]
   BY <1>1, <1>2, <1>3, <1>4 DEF WorkOK, KnowsCur
 <1>6. c \in Transfer(Move)
   BY <1>1, <1>2, CurOf DEF OfMove
 <1>7. PICK d : d = txn'[w]
   OBVIOUS
 <1>8. d.pc = ApplyPc(c) /\ d.pick = t.pick /\ d.cur = c
   BY <1>1, <1>2, <1>7, GotoIs
 <1>9. d.pc \in {"out", "moved"}
   BY <1>4, <1>8, GoesOn DEF MovesOf
 <1>10. \A m : HeldFor(t, x, m) = x[m].reserved
   BY <1>2, HeldAsRecorded DEF AsRecorded
 <1>11. \A m : HeldFor(d, x, m) = IF m = c.move THEN 0 ELSE x[m].reserved
   BY <1>8, <1>9 DEF HeldFor, Applying
 <1> QED
   BY <1>1, <1>2, <1>3, <1>4, <1>5, <1>6, <1>7, <1>8, <1>10, <1>11, GivenBack

LEMMA ReleaseHeldPromises ==
    ASSUME TypeInv, WorkInv, OneRequestPerPicking, PromisesKept, NEW w \in Worker,
           ReleaseHeld(w)
    PROVE  PromisesKept'
 <1>1. PICK t, x : t = txn[w] /\ x = Mine(w)
   OBVIOUS
 <1>2. t.pc \in {"cancel", "unreserve"} /\ OwnOK(w)
   BY <1>1, ReleaseHeldOK DEF ReleaseHeld, At
 <1>3. WorkOK(t, x, Head(w), Base(w)) /\ t.pick \in Picking
   BY <1>1, <1>2, WorkAt DEF OfPicking
 <1>4. \E d : \E c \in txn[w].todo :
            /\ c \in Transfer(Move) /\ ReleasedQuant(w, c)
            /\ TxnOK(d) /\ txn' = [txn EXCEPT ![w] = d]
            /\ d.pc = txn[w].pc /\ d.pick = txn[w].pick /\ d.todo = txn[w].todo \ {c}
   BY ReleaseHeldEffect
 <1>5. PICK d : \E c \in t.todo :
            /\ c \in Transfer(Move) /\ ReleasedQuant(w, c)
            /\ txn' = [txn EXCEPT ![w] = d]
            /\ d.pc = t.pc /\ d.pick = t.pick /\ d.todo = t.todo \ {c}
   BY ONLY <1>1, <1>4
 <1>6. PICK c \in t.todo :
            /\ c \in Transfer(Move) /\ ReleasedQuant(w, c)
            /\ txn' = [txn EXCEPT ![w] = d]
            /\ d.pc = t.pc /\ d.pick = t.pick /\ d.todo = t.todo \ {c}
   BY <1>5
 <1>7. txn'[w] = d
   BY <1>6, SetTxnTo
 <1>8. ~Backflushing(t)
   BY <1>2 DEF Backflushing, Applying
 <1>9. /\ c.move \in MovesOf(t.pick) /\ c.prod = product[c.move] /\ c.src = source[c.move]
       /\ c.reserved = x[c.move].reserved
       /\ \A u, v \in t.todo : u.move = v.move => u = v
   BY <1>3, <1>6, <1>8 DEF WorkOK, KnowsTodo
 <1>10. Todo(d) = Todo(t) \ {c.move} /\ c.move \in Todo(t)
   BY <1>6, <1>9 DEF Todo
 <1>11. \A m : HeldFor(t, x, m) = IF m \in Todo(t) THEN x[m].reserved ELSE 0
   BY <1>2 DEF HeldFor, Applying
 <1>12. \A m : HeldFor(d, x, m) = IF m \in Todo(d) THEN x[m].reserved ELSE 0
   BY <1>2, <1>6 DEF HeldFor, Applying
 <1> QED
   BY <1>1, <1>2, <1>3, <1>6, <1>7, <1>9, <1>10, <1>11, <1>12, GivenBack

\* While a transfer is applied nothing is held for its move, and a component
\* has never been reserved.
LEMMA ApplyingHolds ==
    ASSUME NEW t, NEW d, NEW x, t.pc \in Applying, d.cur = t.cur, t.cur.move \in DOMAIN x,
           d.pc \in Applying \cup
                    (IF IsComponent(t.cur.move) THEN {"backflush"} ELSE {"moved"}),
           RowsOK(x), \A m \in DOMAIN x : x[m].reserved \in Nat, NEW m \in DOMAIN x
    PROVE  HeldFor(d, x, m) = HeldFor(t, x, m)
 <1>1. HeldFor(t, x, m) = IF t.cur.move = m THEN 0 ELSE x[m].reserved
   BY DEF HeldFor, Applying
 <1>2. CASE d.pc \in Applying \cup {"moved"}
   BY <1>1, <1>2 DEF HeldFor, Applying
 <1>3. CASE d.pc = "backflush" /\ IsComponent(t.cur.move)
  <2>1. RowOK(t.cur.move, x[t.cur.move]) /\ x[t.cur.move].reserved \in Nat
    BY DEF RowsOK
  <2>2. x[t.cur.move].reserved = 0
    BY <1>3, <2>1 DEF RowOK
  <2>3. HeldFor(d, x, m) = x[m].reserved
    BY <1>3, HeldAsRecorded DEF AsRecorded
  <2> QED
    BY <1>1, <2>2, <2>3
 <1> QED
   BY <1>2, <1>3

\* One statement of applyMove: what it writes and where the request goes on.
LEMMA ApplyTrace ==
    ASSUME TypeInv, NEW w \in Worker,
           ApplyOut(w) \/ ApplyIn(w) \/ RefreshSnapshot(w) \/ RefreshWrite(w)
    PROVE  \E d : \E R :
             /\ txn' = [txn EXCEPT ![w] = d] /\ txn'[w] = d
             /\ d.pick = txn[w].pick /\ d.todo = txn[w].todo /\ d.cur = txn[w].cur
             /\ d.pc = (IF ApplyOut(w) THEN "in" ELSE IF ApplyIn(w) THEN "refresh"
                        ELSE IF RefreshSnapshot(w) THEN "refreshed"
                        ELSE AppliedPc(txn[w].cur))
             /\ WritesOnly(w, R) /\ R \subseteq QuantRows \cup OtherRows
             /\ \A p \in Product, l \in Location :
                   live'[QuantRow(p, l)].res = live[QuantRow(p, l)].res
 <1>1. PICK t : t = txn[w]
   OBVIOUS
 <1>2. t.cur.prod \in Product /\ t.cur.src \in Location /\ t.cur.dest \in Location
  <2>1. t.pc \in Applying
    BY <1>1 DEF ApplyOut, ApplyIn, RefreshSnapshot, RefreshWrite, At, Applying
  <2> QED
    BY <1>1, <2>1, CurOf
 <1>3. PICK to : to = (IF ApplyOut(w) THEN "in" ELSE IF ApplyIn(w) THEN "refresh"
                       ELSE IF RefreshSnapshot(w) THEN "refreshed"
                       ELSE AppliedPc(txn[w].cur))
   OBVIOUS
 <1>4. /\ ApplyOut(w) => t.pc = "out"
       /\ ApplyIn(w) => t.pc = "in"
       /\ RefreshSnapshot(w) => t.pc = "refresh"
       /\ RefreshWrite(w) => t.pc = "refreshed"
   BY <1>1 DEF ApplyOut, ApplyIn, RefreshSnapshot, RefreshWrite, At
 <1>5. \E d : /\ txn' = [txn EXCEPT ![w] = d] /\ txn'[w] = d
              /\ d.pick = t.pick /\ d.todo = t.todo /\ d.cur = t.cur /\ d.pc = to
  <2>1. CASE RefreshSnapshot(w)
   <3>1. PICK d : /\ txn' = [txn EXCEPT ![w] = d]
                  /\ d.pc = "refreshed" /\ d.pick = txn[w].pick /\ d.todo = txn[w].todo
                  /\ d.cur = txn[w].cur
     BY <2>1, RefreshSnapshotEffect
   <3>2. txn'[w] = d
     BY <3>1, SetTxnTo
   <3>3. to = "refreshed"
     BY <1>3, <1>4, <2>1
   <3> QED
     BY <1>1, <3>1, <3>2, <3>3
  <2>2. CASE ~RefreshSnapshot(w)
   <3>1. Goto(w, to)
     BY <1>3, <2>2 DEF ApplyOut, ApplyIn, RefreshWrite
   <3> QED
     BY <1>1, <3>1, GotoIs
  <2> QED
    BY <2>1, <2>2
 <1>6. \E R : /\ WritesOnly(w, R) /\ R \subseteq QuantRows \cup OtherRows
              /\ \A p \in Product, l \in Location :
                    live'[QuantRow(p, l)].res = live[QuantRow(p, l)].res
  <2>1. CASE ApplyOut(w) \/ ApplyIn(w)
   <3>1. PICK l0 \in Location : \E e : AddToQuant(w, t.cur.prod, l0, e)
     BY <1>1, <1>2, <2>1 DEF ApplyOut, ApplyIn
   <3>2. PICK e : AddToQuant(w, t.cur.prod, l0, e)
     BY <3>1
   <3>3. PICK q : q = QuantRow(t.cur.prod, l0)
     OBVIOUS
   <3>4. WritesOnly(w, {q}) /\ live'[q].res = live[q].res
     BY <1>2, <3>2, <3>3, AddToQuantEffect
   <3>5. {q} \subseteq QuantRows \cup OtherRows
     BY <1>2, <3>3 DEF QuantRows
   <3>6. ASSUME NEW p \in Product, NEW l \in Location
         PROVE  live'[QuantRow(p, l)].res = live[QuantRow(p, l)].res
    <4>1. PICK r : r = QuantRow(p, l)
      OBVIOUS
    <4>2. r \in Row
      BY <4>1, RowsIn
    <4> QED
      BY <3>4, <4>1, <4>2 DEF WritesOnly
   <3> QED
     BY <3>4, <3>5, <3>6
  <2>2. CASE RefreshSnapshot(w)
   <3>1. WritesOnly(w, {}) /\ live' = live
     BY <2>2, WritesNothing DEF RefreshSnapshot, dbVars
   <3> QED
     BY <3>1
  <2>3. CASE RefreshWrite(w)
   <3>1. WritesOnly(w, OtherRows) /\ OtherRows \cap QuantRows = {}
     BY <2>3, OtherRowsWritten, TablesApart
   <3>2. \A p \in Product, l \in Location : live'[QuantRow(p, l)] = live[QuantRow(p, l)]
     BY <3>1, AwayFromQuants
   <3> QED
     BY <3>1, <3>2
  <2> QED
    BY <2>1, <2>2, <2>3
 <1> QED
   BY <1>1, <1>3, <1>5, <1>6

LEMMA ApplyingPromises ==
    ASSUME TypeInv, WorkInv, OneRequestPerPicking, PromisesKept, NEW w \in Worker,
           ApplyOut(w) \/ ApplyIn(w) \/ RefreshSnapshot(w) \/ RefreshWrite(w)
    PROVE  PromisesKept'
 <1>1. PICK t, x : t = txn[w] /\ x = Mine(w)
   OBVIOUS
 <1>2. t.pc \in Applying /\ OwnOK(w) /\ StepFrame(w)
  <2>1. t.pc \in Applying
    BY <1>1 DEF ApplyOut, ApplyIn, RefreshSnapshot, RefreshWrite, At, Applying
  <2> QED
    BY <2>1, ApplyingOK DEF OwnOK
 <1>3. \E d : \E R :
            /\ txn' = [txn EXCEPT ![w] = d] /\ txn'[w] = d
            /\ d.pick = txn[w].pick /\ d.todo = txn[w].todo /\ d.cur = txn[w].cur
            /\ d.pc = (IF ApplyOut(w) THEN "in" ELSE IF ApplyIn(w) THEN "refresh"
                       ELSE IF RefreshSnapshot(w) THEN "refreshed"
                       ELSE AppliedPc(txn[w].cur))
            /\ WritesOnly(w, R) /\ R \subseteq QuantRows \cup OtherRows
            /\ \A p \in Product, l \in Location :
                  live'[QuantRow(p, l)].res = live[QuantRow(p, l)].res
   BY ApplyTrace
 <1>4. PICK d, R :
            /\ txn'[w] = d /\ d.pick = t.pick /\ d.todo = t.todo /\ d.cur = t.cur
            /\ d.pc \in Applying \/ d.pc = AppliedPc(t.cur)
            /\ WritesOnly(w, R) /\ R \subseteq QuantRows \cup OtherRows
            /\ \A p \in Product, l \in Location :
                  live'[QuantRow(p, l)].res = live[QuantRow(p, l)].res
   BY <1>1, <1>3 DEF Applying
 <1>5. \A p \in Product, l \in Location : ResAdds(w, p, l, 0)
  <2>1. ASSUME NEW p \in Product, NEW l \in Location PROVE ResAdds(w, p, l, 0)
   <3>1. PICK r : r = QuantRow(p, l)
     OBVIOUS
   <3>2. r \in Row /\ live[r].res \in Int
     BY <3>1, RowsIn DEF TypeInv, DbTyped, VersionOK, QuantVersion
   <3>3. live'[r].res = live[r].res + 0
     BY <1>4, <3>1, <3>2
   <3>4. \/ lock'[r] = lock[r]
         \/ Free(w, r) /\ lock'[r] = w
     BY <1>4, <3>2 DEF WritesOnly
   <3> QED
     BY <3>1, <3>3, <3>4 DEF ResAdds
  <2> QED
    BY <2>1
 <1>6. HeldStays(w)
  <2>1. CASE t.pick \in Picking
   <3>1. /\ WorkOK(t, x, Head(w), Base(w)) /\ x \in [MovesOf(t.pick) -> MoveVersion]
     BY <1>1, <2>1, WorkOn
   <3>2. t.cur.move \in MovesOf(t.pick)
     BY <1>2, <3>1 DEF WorkOK, KnowsCur
   <3>3. d.pc \in Applying \cup
                 (IF IsComponent(t.cur.move) THEN {"backflush"} ELSE {"moved"})
     BY <1>4, <3>2, GoesOn DEF MovesOf
   <3>4. PICK y : y = Mine(w)'
     OBVIOUS
   <3>5. y = x
    <4>1. R \subseteq QuantRows \cup LineRows \cup OtherRows
      BY <1>4
    <4> QED
      BY <1>1, <1>4, <2>1, <3>4, <4>1, RowsKept
   <3>6. \A m \in MovesOf(t.pick) : HeldFor(d, y, m) = HeldFor(t, x, m)
    <4>1. RowsOK(x) /\ \A m \in DOMAIN x : x[m].reserved \in Nat
      BY <3>1 DEF WorkOK, MoveVersion
    <4> QED
      BY <1>2, <1>4, <3>1, <3>2, <3>3, <3>5, <4>1, ApplyingHolds
   <3> QED
    <4>1. ASSUME NEW m \in Move PROVE HeldBy(w, m)' = HeldBy(w, m)
     <5>1. committed' = committed
       BY <1>2 DEF StepFrame
     <5>2. CASE picking[m] = t.pick
      <6>1. m \in MovesOf(t.pick)
        BY <5>2 DEF MovesOf
      <6>2. HeldBy(w, m)' = HeldFor(d, y, m)
        BY <1>4, <3>4, <5>2 DEF HeldBy
      <6>3. HeldBy(w, m) = HeldFor(t, x, m)
        BY <1>1, <5>2 DEF HeldBy
      <6> QED
        BY <3>6, <6>1, <6>2, <6>3
     <5>3. CASE picking[m] # t.pick
       BY <1>1, <1>4, <5>1, <5>3 DEF HeldBy
     <5> QED
       BY <5>2, <5>3
    <4> QED
      BY <4>1 DEF HeldStays
  <2>2. CASE t.pick \notin Picking
   <3>1. \A m \in Move : picking[m] # t.pick
     BY <2>2, TransferAssumption
   <3>2. committed' = committed
     BY <1>2 DEF StepFrame
   <3> QED
     BY <1>1, <1>4, <3>1, <3>2 DEF HeldStays, HeldBy
  <2> QED
    BY <2>1, <2>2
 <1> QED
   BY <1>2, <1>5, <1>6, PromiseStays

LEMMA MoveDonePromises ==
    ASSUME TypeInv, WorkInv, OneRequestPerPicking, PromisesKept, NEW w \in Worker,
           MoveDone(w)
    PROVE  PromisesKept'
 <1>1. PICK t, x, c : t = txn[w] /\ x = Mine(w) /\ c = txn[w].cur
   OBVIOUS
 <1>2. t.pc = "moved" /\ Goto(w, "validate") /\ OwnOK(w)
   BY <1>1, MoveDoneOK DEF MoveDone, At
 <1>3. WorkOK(t, x, Head(w), Base(w)) /\ t.pick \in Picking /\ DOMAIN x = MovesOf(t.pick)
   BY <1>1, <1>2, WorkAt DEF OfPicking, OfMove
 <1>4. c.move \in MovesOf(t.pick)
   BY <1>1, <1>2, <1>3, InHand
 <1>5. WritesOnly(w, {MoveRow(c.move)}) /\ live'[MoveRow(c.move)].reserved = 0
   BY <1>1, MoveDoneRow
 <1>6. PICK d, y : d = txn'[w] /\ y = Mine(w)'
   OBVIOUS
 <1>7. d.pc = "validate" /\ d.pick = t.pick
   BY <1>1, <1>2, <1>6, GotoIs
 <1>8. ASSUME NEW m \in MovesOf(t.pick)
       PROVE  HeldFor(d, y, m) = HeldFor(t, x, m)
  <2>1. HeldFor(t, x, m) = IF c.move = m THEN 0 ELSE x[m].reserved
    BY <1>1, <1>2 DEF HeldFor
  <2>2. HeldFor(d, y, m) = y[m].reserved
    BY <1>7, HeldAsRecorded DEF AsRecorded
  <2>3. /\ y[m] = live'[MoveRow(m)]
        /\ MoveRow(m) \notin {MoveRow(c.move)} => y[m] = x[m]
    BY <1>1, <1>3, <1>5, <1>6, <1>7, RowsAfter
  <2>4. m # c.move => y[m] = x[m]
    BY <2>3, RowsApart
  <2> QED
    BY <1>5, <2>1, <2>2, <2>3, <2>4
 <1>9. {MoveRow(c.move)} \cap QuantRows = {}
  <2>1. {MoveRow(c.move)} \subseteq AllMoveRows
    BY <1>4 DEF MovesOf, AllMoveRows
  <2> QED
    BY <2>1, TablesApart
 <1>10. txn[w].pick \in Picking /\ txn'[w].pick = txn[w].pick
   BY <1>1, <1>3, <1>6, <1>7
 <1> QED
   BY <1>1, <1>2, <1>5, <1>6, <1>8, <1>9, <1>10, StillPromises

LEMMA PickingDonePromises ==
    ASSUME TypeInv, WorkInv, OneRequestPerPicking, PromisesKept, NEW w \in Worker,
           PickingDone(w)
    PROVE  PromisesKept'
 <1>1. PICK pc : /\ Goto(w, pc) /\ pc = IF Bills(txn[w].pick) THEN "bill"
                                         ELSE AfterOrder(txn[w].pick)
   BY DEF PickingDone
 <1>2. pc \in AsRecorded
   BY <1>1 DEF AfterOrder, AsRecorded
 <1>3. txn[w].pc = "validate" /\ OwnOK(w)
   BY PickingDoneOK DEF PickingDone, At
 <1>4. txn[w].pick \in Picking /\ WritesOnly(w, {PickingRow(txn[w].pick)})
   BY PickingDoneRow
 <1>5. txn'[w].pick = txn[w].pick /\ txn'[w].pc = pc
   BY <1>1, GotoIs
 <1>6. txn[w].pc \in AsRecorded
   BY <1>3 DEF AsRecorded
 <1> QED
   BY <1>2, <1>3, <1>4, <1>5, <1>6, HeaderPromises

LEMMA BillingPromises ==
    ASSUME TypeInv, WorkInv, OneRequestPerPicking, PromisesKept, NEW w \in Worker,
           UpdateLines(w) \/ UpdateOrder(w)
    PROVE  PromisesKept'
 <1>1. PICK pc \in {"status", "backflush_select", "commit"} : Goto(w, pc)
   BY DEF UpdateLines, UpdateOrder, AfterOrder
 <1>2. txn[w].pc \in Billing /\ OwnOK(w)
   BY BillingOK DEF UpdateLines, UpdateOrder, At, Billing
 <1>3. txn[w].pick \in Picking
   BY <1>2, PickOf DEF OfPicking
 <1>4. txn'[w].pick = txn[w].pick /\ txn'[w].pc = pc
   BY <1>1, GotoIs
 <1>5. PICK R : WritesOnly(w, R) /\ R \subseteq LineRows \cup OtherRows
  <2>1. CASE UpdateLines(w)
   <3>1. PICK R : R = {LineRow(order[txn[w].pick], product[m]) : m \in DoneMoves(w, txn[w].pick)}
     OBVIOUS
   <3>2. WritesOnly(w, R) /\ R \subseteq LineRows
     BY <2>1, <3>1, UpdateLinesRows
   <3> QED
     BY <3>2
  <2>2. CASE UpdateOrder(w)
    BY <2>2, OtherRowsWritten
  <2> QED
    BY <2>1, <2>2
 <1>6. R \cap QuantRows = {} /\ R \cap AllMoveRows = {}
   BY <1>5, TablesApart
 <1>7. \A m \in MovesOf(txn[w].pick) :
          live'[MoveRow(m)].reserved = live[MoveRow(m)].reserved
  <2>1. \A m \in MovesOf(txn[w].pick) : MoveRow(m) \in Row /\ MoveRow(m) \notin R
    BY <1>6, RowsIn DEF AllMoveRows, MovesOf
  <2> QED
    BY <1>5, <2>1 DEF WritesOnly
 <1>8. txn[w].pc \in AsRecorded /\ txn'[w].pc \in AsRecorded
   BY <1>1, <1>2, <1>4 DEF Billing, AsRecorded
 <1> QED
   BY <1>2, <1>3, <1>4, <1>5, <1>6, <1>7, <1>8, RecordedPromises

LEMMA BackflushSelectPromises ==
    ASSUME TypeInv, WorkInv, OneRequestPerPicking, PromisesKept, NEW w \in Worker,
           BackflushSelect(w)
    PROVE  PromisesKept'
 <1>1. PICK d : /\ txn' = [txn EXCEPT ![w] = d]
                /\ d.pc = "backflush" /\ d.pick = txn[w].pick
   BY BackflushSelectEffect
 <1>2. txn[w].pc = "backflush_select" /\ UNCHANGED dbVars /\ OwnOK(w)
   BY BackflushSelectOK DEF BackflushSelect, At
 <1>3. txn'[w] = d /\ txn[w].pick \in Picking
   BY <1>1, <1>2, SetTxnTo, PickOf DEF OfPicking
 <1> QED
   BY <1>1, <1>2, <1>3, ReadPromises DEF AsRecorded

\* A component is consumed without ever having been reserved.
LEMMA BackflushPromises ==
    ASSUME TypeInv, WorkInv, OneRequestPerPicking, PromisesKept, NEW w \in Worker,
           Backflush(w)
    PROVE  PromisesKept'
 <1>1. PICK t, x : t = txn[w] /\ x = Mine(w)
   OBVIOUS
 <1>2. t.pc = "backflush" /\ OwnOK(w)
   BY <1>1, BackflushOK DEF Backflush, At
 <1>3. /\ WorkOK(t, x, Head(w), Base(w)) /\ t.pick \in Picking
       /\ x \in [MovesOf(t.pick) -> MoveVersion]
       /\ \A n \in MovesOf(t.pick) : live[MoveRow(n)] = x[n] /\ n \in Move
   BY <1>1, <1>2, WorkAt DEF OfPicking
 <1>4. \E d : \E c \in txn[w].todo :
            /\ c \in Transfer(Move)
            /\ Write(w, [r \in {MoveRow(c.move)} |->
                  [live[r] EXCEPT !.quantity = @ + c.qty, !.state = "done"]])
            /\ TxnOK(d) /\ txn' = [txn EXCEPT ![w] = d]
            /\ d.pc = ApplyPc(c) /\ d.pick = txn[w].pick
            /\ d.todo = txn[w].todo \ {c} /\ d.cur = c
   BY BackflushEffect
 <1>5. PICK d : \E c \in t.todo :
            /\ c \in Transfer(Move)
            /\ Write(w, [r \in {MoveRow(c.move)} |->
                  [live[r] EXCEPT !.quantity = @ + c.qty, !.state = "done"]])
            /\ txn' = [txn EXCEPT ![w] = d]
            /\ d.pc = ApplyPc(c) /\ d.pick = t.pick /\ d.cur = c
   BY ONLY <1>1, <1>4
 <1>6. PICK c \in t.todo :
            /\ c \in Transfer(Move)
            /\ Write(w, [r \in {MoveRow(c.move)} |->
                  [live[r] EXCEPT !.quantity = @ + c.qty, !.state = "done"]])
            /\ txn' = [txn EXCEPT ![w] = d]
            /\ d.pc = ApplyPc(c) /\ d.pick = t.pick /\ d.cur = c
   BY <1>5
 <1>7. txn'[w] = d
   BY <1>6, SetTxnTo
 <1>8. /\ c.move \in MovesOf(t.pick) /\ IsComponent(c.move) /\ c.move \in Move
  <2>1. Backflushing(t)
    BY <1>2 DEF Backflushing
  <2> QED
    BY <1>3, <1>6, <2>1 DEF WorkOK, KnowsTodo
 <1>9. x[c.move].reserved = 0
  <2>1. RowOK(c.move, x[c.move]) /\ x[c.move].reserved \in Nat
    BY <1>3, <1>8 DEF WorkOK, RowsOK, MoveVersion
  <2> QED
    BY <1>8, <2>1 DEF RowOK
 <1>10. /\ WritesOnly(w, {MoveRow(c.move)}) /\ live'[MoveRow(c.move)].reserved = 0
  <2>1. live[MoveRow(c.move)] = x[c.move]
    BY <1>3, <1>8
  <2> QED
    BY <1>6, <1>9, <2>1, BackflushRow
 <1>11. PICK y : y = Mine(w)'
   OBVIOUS
 <1>12. d.pc \in {"out", "backflush"}
   BY <1>6, <1>8, GoesOn
 <1>13. ASSUME NEW m \in MovesOf(t.pick)
        PROVE  HeldFor(d, y, m) = HeldFor(t, x, m)
  <2>1. HeldFor(t, x, m) = x[m].reserved
    BY <1>2, HeldAsRecorded DEF AsRecorded
  <2>2. /\ y[m] = live'[MoveRow(m)]
        /\ MoveRow(m) \notin {MoveRow(c.move)} => y[m] = x[m]
    BY <1>1, <1>3, <1>6, <1>7, <1>10, <1>11, RowsAfter
  <2>3. m # c.move => y[m] = x[m]
    BY <2>2, RowsApart
  <2>4. HeldFor(d, y, m) = y[m].reserved \/ (m = c.move /\ HeldFor(d, y, m) = 0)
    BY <1>6, <1>12 DEF HeldFor, Applying
  <2>5. y[m].reserved = x[m].reserved
    BY <1>9, <1>10, <2>2, <2>3
  <2> QED
    BY <1>9, <2>1, <2>4, <2>5
 <1>14. {MoveRow(c.move)} \cap QuantRows = {}
  <2>1. {MoveRow(c.move)} \subseteq AllMoveRows
    BY <1>8 DEF AllMoveRows
  <2> QED
    BY <2>1, TablesApart
 <1>15. txn[w].pick \in Picking /\ txn'[w].pick = txn[w].pick /\ d = txn'[w]
   BY <1>1, <1>3, <1>6, <1>7
 <1> QED
   BY <1>1, <1>2, <1>10, <1>11, <1>13, <1>14, <1>15, StillPromises

\* PromisesKept after every statement.
LEMMA StatementPromises ==
    ASSUME TypeInv, WorkInv, OneRequestPerPicking, PromisesKept, NEW w \in Worker,
           Statement(w), ~RefuseMove(w)
    PROVE  PromisesKept'
 <1>1. \/ ConfirmPicking(w) \/ AssignPicking(w) \/ UnreservePicking(w) \/ ResetPicking(w)
       \/ CancelPicking(w) \/ ConfirmMoves(w) \/ ResetMoves(w) \/ CancelMoves(w)
       \/ UnreserveMoves(w) \/ AssignMove(w) \/ LoadMoves(w) \/ Reserve(w) \/ AssignedMove(w)
       \/ ValidateMove(w) \/ Putaway(w) \/ ReleaseMove(w) \/ ReleaseHeld(w)
       \/ ApplyOut(w) \/ ApplyIn(w) \/ RefreshSnapshot(w) \/ RefreshWrite(w)
       \/ MoveDone(w) \/ PickingDone(w) \/ UpdateLines(w) \/ UpdateOrder(w)
       \/ BackflushSelect(w) \/ Backflush(w)
   BY Zenon DEF Statement
 <1>2. CASE \/ ConfirmPicking(w) \/ AssignPicking(w) \/ UnreservePicking(w)
            \/ ResetPicking(w) \/ CancelPicking(w) \/ ConfirmMoves(w) \/ ResetMoves(w)
            \/ CancelMoves(w) \/ UnreserveMoves(w)
   BY <1>2, HeaderUpdatesPromises, CancelPickingPromises, MoveUpdatesPromises,
      DropsPromises
 <1>3. CASE \/ AssignMove(w) \/ LoadMoves(w) \/ Reserve(w) \/ AssignedMove(w)
   BY <1>3, AssignMovePromises, LoadMovesPromises, ReservePromises, AssignedMovePromises
 <1>4. CASE ValidateMove(w) \/ Putaway(w) \/ ReleaseMove(w) \/ ReleaseHeld(w)
   BY <1>4, ValidateMovePromises, PutawayPromises, ReleaseMovePromises,
      ReleaseHeldPromises
 <1>5. CASE \/ ApplyOut(w) \/ ApplyIn(w) \/ RefreshSnapshot(w) \/ RefreshWrite(w)
   BY <1>5, ApplyingPromises
 <1>6. CASE \/ MoveDone(w) \/ PickingDone(w) \/ UpdateLines(w) \/ UpdateOrder(w)
            \/ BackflushSelect(w) \/ Backflush(w)
   BY <1>6, MoveDonePromises, PickingDonePromises, BillingPromises,
      BackflushSelectPromises, BackflushPromises
 <1> QED
   BY Zenon, <1>1, <1>2, <1>3, <1>4, <1>5, <1>6

LEMMA SetOnHandPromises ==
    ASSUME TypeInv, WorkInv, OneRequestPerPicking, PromisesKept, NEW w \in Worker,
           NEW c \in Count, SetOnHand(w, c[1], c[2], c[3])
    PROVE  PromisesKept'
 <1>1. OwnOK(w)
   BY SetOnHandOK
 <1>2. PICK d : /\ txn' = [txn EXCEPT ![w] = d] /\ UNCHANGED dbVars
                /\ txn[w].pick = NoPicking /\ d.pick = NoPicking
   BY SetOnHandEffect
 <1>3. txn'[w].pick = NoPicking /\ WritesOnly(w, {}) /\ {} \cap QuantRows = {}
   BY <1>2, SetTxnTo, WritesNothing
 <1>4. c[1] \in Product /\ c[2] \in Location
   BY TransferAssumption
 <1> QED
   BY <1>1, <1>2, <1>3, <1>4, CountPromises

\* At the end of a transaction its own changes are on record, or undone; what
\* the others have changed is still theirs.
LEMMA EndsPromises ==
    ASSUME TypeInv, WorkInv, PromisesKept, NEW w \in Worker, Ends(w)
    PROVE  PromisesKept'
 <1>1. ASSUME NEW p \in Product, NEW l \in Location
       PROVE  committed'[QuantRow(p, l)].res = SumFunction(Promised(p, l)')
  <2>1. PICK r, S, f : r = QuantRow(p, l) /\ S = Leaving(p, l) /\ f = Promised(p, l)
    OBVIOUS
  <2>2. /\ r \in Row /\ IsFiniteSet(S) /\ S \subseteq Move /\ f \in [S -> Int]
        /\ committed[r].res = SumFunction(f)
    BY <2>1, RowsIn, PromiseTypes DEF PromisesKept
  <2>3. PICK h : h = Promised(p, l)'
    OBVIOUS
  <2>4. h = [m \in S |-> committed'[MoveRow(m)].reserved]
    BY <2>1, <2>3 DEF Promised, Leaving
  <2>5. CASE committed' = committed
   <3>1. h = f
     BY <2>1, <2>4, <2>5 DEF Promised
   <3> QED
     BY <2>1, <2>2, <2>3, <2>5, <3>1
  <2>6. CASE /\ \A s \in Row : committed'[s] = Visible(w, s)
             /\ txn[w].pc \in {"commit", "backflush"}
   <3>1. PICK g : g = PendingPromise(w, p, l)
     OBVIOUS
   <3>2. g \in [S -> Int] /\ PendingRes(w, p, l) = SumFunction(g)
     BY <2>1, <3>1, PromiseTypes DEF PromisesKept
   <3>3. \A m \in S : /\ committed'[MoveRow(m)].reserved = HeldBy(w, m)
                      /\ HeldBy(w, m) \in Nat /\ committed[MoveRow(m)].reserved \in Nat
    <4>1. ASSUME NEW m \in S
          PROVE  committed'[MoveRow(m)].reserved = HeldBy(w, m)
     <5>1. m \in Move /\ MoveRow(m) \in Row /\ picking[m] \in Picking
       BY <2>2, RowsIn, TransferAssumption
     <5>2. CASE picking[m] = txn[w].pick
      <6>1. m \in MovesOf(txn[w].pick) /\ txn[w].pick \in Picking
        BY <5>1, <5>2 DEF MovesOf
      <6>2. Visible(w, MoveRow(m)) = Mine(w)[m]
        BY <6>1, WorkOn DEF Reads
      <6>3. HeldBy(w, m) = Mine(w)[m].reserved
        BY <2>6, <5>2, HeldAsRecorded DEF HeldBy, AsRecorded
      <6> QED
        BY <2>6, <5>1, <6>2, <6>3
     <5>3. CASE picking[m] # txn[w].pick
      <6>1. lock[MoveRow(m)] # w
        BY <5>1, <5>3, NotMyTransfer DEF MovesOf
      <6> QED
        BY <2>6, <5>1, <5>3, <6>1 DEF HeldBy, Visible
     <5> QED
       BY <5>2, <5>3
    <4>2. \A m \in S : HeldBy(w, m) \in Nat /\ committed[MoveRow(m)].reserved \in Nat
      BY <2>2, HeldType
    <4> QED
      BY <4>1, <4>2
   <3>4. h \in [S -> Int]
     BY <2>4, <3>3
   <3>5. \A m \in S : h[m] = f[m] + g[m]
     BY <2>1, <2>4, <3>1, <3>3 DEF Promised, PendingPromise
   <3>6. SumFunction(h) = SumFunction(f) + SumFunction(g)
     BY <2>2, <3>2, <3>4, <3>5, SumFunctionPlus
   <3>7. committed'[r].res = committed[r].res + PendingRes(w, p, l)
    <4>1. live[r].res \in Int /\ committed[r].res \in Int
      BY <2>1 DEF TypeInv, DbTyped, VersionOK, QuantVersion
    <4> QED
      BY <2>1, <2>2, <2>6, <4>1 DEF PendingRes, Visible
   <3> QED
     BY <2>1, <2>2, <2>3, <3>2, <3>6, <3>7
  <2>7. \/ committed' = committed
        \/ /\ \A s \in Row : committed'[s] = Visible(w, s)
           /\ txn[w].pc \in {"commit", "backflush"}
    BY EndedRow, RowsIn DEF Ends, CommitTxn, RollbackTxn
  <2> QED
    BY <2>5, <2>6, <2>7
 <1>2. ASSUME NEW p \in Product, NEW l \in Location, NEW v \in Worker
       PROVE  PendingRes(v, p, l)' = SumFunction(PendingPromise(v, p, l)')
  <2>1. PICK r, S : r = QuantRow(p, l) /\ S = Leaving(p, l)
    OBVIOUS
  <2>2. r \in Row /\ IsFiniteSet(S) /\ S \subseteq Move
    BY <2>1, RowsIn, PromiseTypes
  <2>3. PICK h : h = PendingPromise(v, p, l)'
    OBVIOUS
  <2>4. h = [m \in S |-> HeldBy(v, m)' - committed'[MoveRow(m)].reserved]
    BY <2>1, <2>3 DEF PendingPromise, Leaving
  <2>5. \A s \in Row : s = r => lock[s] \in Worker \cup {NoTxn}
    BY DEF TypeInv, DbTyped, LocksOK
  <2>6. NoTxn # v
    BY NoTxnAssumption
  <2>7. CASE v = w
   <3>1. lock'[r] # v
     BY <2>2, <2>6, <2>7, EndedRow
   <3>2. PendingRes(v, p, l)' = 0
     BY <2>1, <3>1 DEF PendingRes
   <3>3. ASSUME NEW m \in S PROVE HeldBy(v, m)' - committed'[MoveRow(m)].reserved = 0
    <4>1. m \in Move /\ picking[m] # NoPicking /\ MoveRow(m) \in Row
      BY <2>2, RowsIn, TransferAssumption
    <4>2. txn'[v].pick = NoPicking
      BY <2>7, EndsEffect
    <4>3. HeldBy(v, m)' = committed'[MoveRow(m)].reserved
      BY <4>1, <4>2 DEF HeldBy
    <4>4. committed'[MoveRow(m)].reserved \in Nat
     <5>1. /\ committed[MoveRow(m)].reserved \in Nat /\ live[MoveRow(m)].reserved \in Nat
       BY <4>1 DEF TypeInv, DbTyped, VersionOK, MoveVersion
     <5>2. \/ committed'[MoveRow(m)] = Visible(w, MoveRow(m))
           \/ committed' = committed
       BY <4>1, EndedRow
     <5> QED
       BY <5>1, <5>2 DEF Visible
    <4> QED
      BY <4>3, <4>4
   <3>4. h = [m \in S |-> 0]
     BY <2>4, <3>3
   <3> QED
     BY <2>2, <2>3, <3>2, <3>4, SumFunctionZero
  <2>8. CASE v # w
   <3>1. PendingRes(v, p, l)' = PendingRes(v, p, l)
     BY <2>1, <2>2, <2>6, <2>8, EndedRow DEF PendingRes
   <3>2. ASSUME NEW m \in S
         PROVE  HeldBy(v, m)' - committed'[MoveRow(m)].reserved =
                  HeldBy(v, m) - committed[MoveRow(m)].reserved
    <4>1. m \in Move /\ picking[m] \in Picking /\ MoveRow(m) \in Row
      BY <2>2, RowsIn, TransferAssumption
    <4>2. /\ txn'[v] = txn[v]
          /\ txn[v].pick \in Picking => Mine(v)' = Mine(v)
      BY <2>8, EndsOthers
    <4>3. CASE picking[m] = txn[v].pick
     <5>1. txn[w].pick # picking[m]
       BY <2>8, <4>1, <4>3 DEF WorkInv
     <5>2. lock[MoveRow(m)] # w
       BY <4>1, <5>1, NotMyTransfer DEF MovesOf
     <5>3. committed'[MoveRow(m)] = committed[MoveRow(m)]
       BY <4>1, <5>2, EndedRow
     <5>4. HeldBy(v, m)' = HeldBy(v, m)
       BY <4>1, <4>2, <4>3 DEF HeldBy
     <5> QED
       BY <5>3, <5>4
    <4>4. CASE picking[m] # txn[v].pick
     <5>1. /\ HeldBy(v, m)' = committed'[MoveRow(m)].reserved
           /\ HeldBy(v, m) = committed[MoveRow(m)].reserved
       BY <4>2, <4>4 DEF HeldBy
     <5>2. /\ committed[MoveRow(m)].reserved \in Nat /\ live[MoveRow(m)].reserved \in Nat
       BY <4>1 DEF TypeInv, DbTyped, VersionOK, MoveVersion
     <5>3. \/ committed'[MoveRow(m)] = Visible(w, MoveRow(m))
           \/ committed' = committed
       BY <4>1, EndedRow
     <5>4. committed'[MoveRow(m)].reserved \in Nat
       BY <5>2, <5>3 DEF Visible
     <5> QED
       BY <5>1, <5>2, <5>4
    <4> QED
      BY <4>3, <4>4
   <3>3. h = PendingPromise(v, p, l)
     BY <2>1, <2>4, <3>2 DEF PendingPromise
   <3> QED
     BY <2>3, <3>1, <3>3 DEF PromisesKept
  <2> QED
    BY <2>7, <2>8
 <1> QED
   BY <1>1, <1>2 DEF PromisesKept

\* PromisesKept at the start and after every step.
LEMMA StepPromises ==
    ASSUME TypeInv, WorkInv, OneRequestPerPicking, PromisesKept, NEW w \in Worker, Steps(w)
    PROVE  PromisesKept'
 <1>1. CASE \E k \in Picking : Requests(w, k)
   BY <1>1, RequestPromises
 <1>2. CASE \E c \in Count : SetOnHand(w, c[1], c[2], c[3])
   BY <1>2, SetOnHandPromises
 <1>3. CASE Commit(w) \/ Abort(w) \/ RefuseMove(w)
   BY <1>3, StepEnds, EndsPromises
 <1>4. CASE Statement(w) /\ ~RefuseMove(w)
   BY <1>4, StatementPromises
 <1> QED
   BY Zenon, <1>1, <1>2, <1>3, <1>4 DEF Steps, Requests

LEMMA InitPromises ==
    ASSUME Init
    PROVE  PromisesKept
 <1>1. TypeInv /\ WorkInv
   BY InitTyped, InitWork
 <1>2. ASSUME NEW p \in Product, NEW l \in Location
       PROVE  /\ committed[QuantRow(p, l)].res = SumFunction(Promised(p, l))
              /\ \A w \in Worker : PendingRes(w, p, l) = SumFunction(PendingPromise(w, p, l))
  <2>1. PICK r, S : r = QuantRow(p, l) /\ S = Leaving(p, l)
    OBVIOUS
  <2>2. r \in Row /\ IsFiniteSet(S) /\ S \subseteq Move
    BY <1>1, <2>1, RowsIn, PromiseTypes
  <2>3. committed[r].res = 0 /\ \A m \in S : committed[MoveRow(m)].reserved = 0
   <3>1. committed[r].res = 0
    <4>1. committed[QuantRow(p, l)] =
             [qty |-> IF l = StockLoc THEN onHand[p]
                      ELSE IF l = InventoryLoc THEN 0 - onHand[p] ELSE 0,
              res |-> 0]
      BY InitRows
    <4> QED
      BY <2>1, <4>1
   <3>2. ASSUME NEW m \in S PROVE committed[MoveRow(m)].reserved = 0
    <4>1. m \in Move
      BY <2>2
    <4>2. committed[MoveRow(m)] =
            [state |-> IF IsComponent(m) THEN "absent" ELSE "draft",
             reserved |-> 0, dest |-> planned[m], quantity |-> 0]
      BY <4>1, InitRows
    <4> QED
      BY <4>2
   <3> QED
     BY <3>1, <3>2
  <2>4. Promised(p, l) = [m \in S |-> 0]
    BY <2>1, <2>3 DEF Promised
  <2>5. committed[QuantRow(p, l)].res = SumFunction(Promised(p, l))
    BY <2>1, <2>2, <2>3, <2>4, SumFunctionZero
  <2>6. ASSUME NEW w \in Worker
        PROVE  PendingRes(w, p, l) = SumFunction(PendingPromise(w, p, l))
   <3>1. txn[w].pick = NoPicking /\ lock[r] # w
     BY <2>2, NoTxnAssumption DEF Init, Idle
   <3>2. \A m \in S : HeldBy(w, m) - committed[MoveRow(m)].reserved = 0
    <4>1. \A m \in S : picking[m] # txn[w].pick
      BY <2>2, <3>1, TransferAssumption
    <4> QED
      BY <2>3, <4>1 DEF HeldBy
   <3>3. PendingPromise(w, p, l) = [m \in S |-> 0]
     BY <2>1, <3>2 DEF PendingPromise
   <3>4. PendingRes(w, p, l) = 0
     BY <2>1, <3>1 DEF PendingRes
   <3> QED
     BY <2>2, <3>3, <3>4, SumFunctionZero
  <2> QED
    BY <2>5, <2>6
 <1> QED
   BY <1>2 DEF PromisesKept

LEMMA QuietPromises ==
    ASSUME PromisesKept, UNCHANGED vars
    PROVE  PromisesKept'
 <1>1. committed' = committed /\ live' = live /\ lock' = lock /\ txn' = txn
   BY DEF vars, dbVars
 <1>2. /\ \A p, l : Promised(p, l)' = Promised(p, l)
       /\ \A w, p, l : PendingRes(w, p, l)' = PendingRes(w, p, l)
   BY <1>1 DEF Promised, Leaving, PendingRes
 <1>3. \A w, p, l : PendingPromise(w, p, l)' = PendingPromise(w, p, l)
   BY <1>1 DEF PendingPromise, Leaving, HeldBy, Mine
 <1> QED
   BY <1>1, <1>2, <1>3 DEF PromisesKept

\* What is reserved is what the open moves hold: with one request at a time on
\* a transfer, no interleaving of confirm, assign, validate, cancel, unreserve
\* and reset on different transfers, no abort and no floor in release() ever
\* leaks a reservation or gives one back twice.
THEOREM ReservationsMatchMoves ==
    ASSUME OneRequestPerPicking
    PROVE  Spec => []ReservedMatchesMoves
 <1>1. PromisesKept => ReservedMatchesMoves
   BY DEF PromisesKept, ReservedMatchesMoves, Promised, Leaving, Quant
 <1>2. Init => PromisesKept
   BY InitPromises
 <1>3. TypeInv /\ WorkInv /\ PromisesKept /\ [Next]_vars => PromisesKept'
   BY StepPromises, QuietPromises, NextIsAStep
 <1>4. Spec => []TypeInv
   BY TypesHold
 <1>5. Spec => []WorkInv
   BY WorkHolds
 <1> QED
   BY <1>1, <1>2, <1>3, <1>4, <1>5, PTL DEF Spec

-----------------------------------------------------------------------------
(* The quants are what the done moves have brought                          *)

\* What a transfer of q units from one location to another brings into L.
Units(L, from, to, q) == (IF to \in L THEN q ELSE 0) - (IF from \in L THEN q ELSE 0)

\* What the version v of move m has brought into L.
Net(m, v, L) == Units(L, source[m], v.dest, v.quantity)

\* What applyMove has brought into L that the move does not say yet, or, for a
\* component, that the move says already.
InFlight(t, p, L) ==
    LET u == t.cur
        all == Units(L, u.src, u.dest, u.qty)
        moved == IF t.pc = "out" THEN 0
                 ELSE IF t.pc = "in" THEN 0 - (IF u.src \in L THEN u.qty ELSE 0)
                 ELSE all
    IN IF t.pc \in Applying \cup {"moved"} /\ u.prod = p
       THEN moved - (IF Backflushing(t) THEN all ELSE 0)
       ELSE 0

\* An inventory count moves units within Own: only what enters or leaves all
\* of it is the moves'.
Own == Internal \cup {InventoryLoc}
Region == {L \in SUBSET Location : Own \subseteq L \/ Own \cap L = {}}
OfProduct(p) == {m \in Move : product[m] = p}

Brought(p, L) == [m \in OfProduct(p) |-> Net(m, committed[MoveRow(m)], L)]
PendingBrought(w, p, L) ==
    [m \in OfProduct(p) |-> Net(m, Visible(w, MoveRow(m)), L) - Net(m, committed[MoveRow(m)], L)]
QtyOf(p, L) == [l \in L |-> committed[QuantRow(p, l)].qty]
PendingQtyOf(w, p, L) == [l \in L |-> PendingQty(w, p, l)]

\* What is on record in a region is what the moves have brought there, since
\* the units onHand at the start are counted from Inventory Adjustments.
LedgerKept ==
    \A p \in Product, L \in Region :
       /\ SumFunction(QtyOf(p, L)) = SumFunction(Brought(p, L))
       /\ \A w \in Worker : SumFunction(PendingQtyOf(w, p, L)) =
                               SumFunction(PendingBrought(w, p, L)) + InFlight(txn[w], p, L)

\* Types of the sums.
LEMMA NetType ==
    ASSUME NEW m, NEW v \in MoveVersion, NEW L
    PROVE  Net(m, v, L) \in Int
  BY DEF Net, Units, MoveVersion

LEMMA FlightType ==
    ASSUME TypeInv, NEW w \in Worker, NEW p, NEW L
    PROVE  InFlight(txn[w], p, L) \in Int
 <1>1. CASE txn[w].pc \in Applying \cup {"moved"}
  <2>1. txn[w].cur.qty \in Nat
    BY <1>1, CurOf DEF OfMove
  <2> QED
    BY <2>1 DEF InFlight, Units
 <1>2. CASE txn[w].pc \notin Applying \cup {"moved"}
   BY <1>2 DEF InFlight
 <1> QED
   BY <1>1, <1>2

LEMMA LedgerTypes ==
    ASSUME TypeInv, NEW p \in Product, NEW L \in Region
    PROVE  /\ IsFiniteSet(OfProduct(p)) /\ OfProduct(p) \subseteq Move
           /\ IsFiniteSet(L) /\ L \subseteq Location
           /\ Brought(p, L) \in [OfProduct(p) -> Int] /\ QtyOf(p, L) \in [L -> Int]
           /\ \A w \in Worker : /\ PendingBrought(w, p, L) \in [OfProduct(p) -> Int]
                                /\ PendingQtyOf(w, p, L) \in [L -> Int]
 <1>1. OfProduct(p) \subseteq Move /\ L \subseteq Location
   BY DEF OfProduct, Region
 <1>2. IsFiniteSet(OfProduct(p)) /\ IsFiniteSet(L)
   BY <1>1, FS_Subset, TransferAssumption
 <1>3. \A m \in OfProduct(p) : Net(m, committed[MoveRow(m)], L) \in Int
   BY <1>1, NetType DEF TypeInv, DbTyped, VersionOK
 <1>4. \A w \in Worker : \A m \in OfProduct(p) : Net(m, Visible(w, MoveRow(m)), L) \in Int
   BY <1>1, NetType, VisibleTyped
 <1>5. \A l \in L : committed[QuantRow(p, l)].qty \in Int
   BY <1>1 DEF TypeInv, DbTyped, VersionOK, QuantVersion
 <1>6. \A w \in Worker : \A l \in L : PendingQty(w, p, l) \in Int
   BY <1>1 DEF PendingQty, TypeInv, DbTyped, VersionOK, QuantVersion
 <1> QED
   BY <1>1, <1>2, <1>3, <1>4, <1>5, <1>6 DEF Brought, QtyOf, PendingBrought, PendingQtyOf

\* What a statement of w changes of what the sessions see.
LEMMA ViewsAfter ==
    ASSUME TypeInv, NEW w \in Worker, NEW R, WritesOnly(w, R), NEW r \in Row
    PROVE  /\ \A v \in Worker : v # w => Visible(v, r)' = Visible(v, r)
           /\ r \notin R => Visible(w, r)' = Visible(w, r)
           /\ \/ Visible(w, r)' = Visible(w, r)
              \/ Visible(w, r) = live[r] /\ Visible(w, r)' = live'[r]
 <1>1. committed' = committed
   BY DEF WritesOnly
 <1>2. lock[r] = NoTxn => live[r] = committed[r]
   BY DEF TypeInv, DbTyped, LocksOK
 <1>3. \/ live'[r] = live[r] /\ lock'[r] = lock[r]
       \/ r \in R /\ lock[r] \in {w, NoTxn} /\ lock'[r] = w
   BY DEF WritesOnly, Free
 <1> QED
   BY <1>1, <1>2, <1>3, NoTxnAssumption DEF Visible

\* The statement changes no quantity of a move, and no destination but of one
\* that has moved nothing yet.
MovesRest(w) ==
    \A m \in Move :
       LET r == MoveRow(m) IN
       /\ Visible(w, r)'.quantity = Visible(w, r).quantity
       /\ Visible(w, r)'.dest = Visible(w, r).dest \/ Visible(w, r).quantity = 0

\* Rests: what a step leaves of the moves in flight and of their quants.
LEMMA RestsWritten ==
    ASSUME TypeInv, NEW w \in Worker, NEW R, WritesOnly(w, R),
           \A m \in Move :
              LET r == MoveRow(m) IN
              r \in R => /\ live'[r].quantity = live[r].quantity
                         /\ live'[r].dest = live[r].dest \/ live[r].quantity = 0
    PROVE  MovesRest(w)
 <1>1. ASSUME NEW m \in Move
       PROVE  LET r == MoveRow(m) IN
              /\ Visible(w, r)'.quantity = Visible(w, r).quantity
              /\ Visible(w, r)'.dest = Visible(w, r).dest \/ Visible(w, r).quantity = 0
  <2>1. PICK r : r = MoveRow(m) /\ r \in Row
    BY RowsIn
  <2>2. CASE r \in R
   <3>1. /\ live'[r].quantity = live[r].quantity
         /\ live'[r].dest = live[r].dest \/ live[r].quantity = 0
     BY <2>1, <2>2
   <3>2. \/ Visible(w, r)' = Visible(w, r)
         \/ Visible(w, r) = live[r] /\ Visible(w, r)' = live'[r]
     BY <2>1, ViewsAfter
   <3> QED
     BY <2>1, <3>1, <3>2
  <2>3. CASE r \notin R
   <3>1. Visible(w, r)' = Visible(w, r)
     BY <2>1, <2>3, ViewsAfter
   <3> QED
     BY <2>1, <3>1
  <2> QED
    BY <2>2, <2>3
 <1> QED
   BY <1>1 DEF MovesRest

LEMMA RestsElsewhere ==
    ASSUME TypeInv, NEW w \in Worker, NEW R, WritesOnly(w, R), R \cap AllMoveRows = {}
    PROVE  MovesRest(w)
  BY RestsWritten DEF AllMoveRows

LEMMA MoveStatesRest ==
    ASSUME TypeInv, NEW w \in Worker,
           ConfirmMoves(w) \/ ResetMoves(w) \/ CancelMoves(w) \/ UnreserveMoves(w)
    PROVE  \E R : WritesOnly(w, R) /\ MovesRest(w)
 <1>1. PICK R : R = MoveRows(txn[w].pick)
   OBVIOUS
 <1>2. /\ WritesOnly(w, R)
       /\ \A m \in MovesOf(txn[w].pick) :
             /\ live'[MoveRow(m)].quantity = live[MoveRow(m)].quantity
             /\ live'[MoveRow(m)].dest = live[MoveRow(m)].dest
  <2>1. CASE ConfirmMoves(w) \/ ResetMoves(w)
   <3>1. PICK from, to : UpdateState(w, MoveRows(txn[w].pick), from, to)
     BY <2>1 DEF ConfirmMoves, ResetMoves
   <3> QED
     BY <1>1, <3>1, UpdateMovesEffect
  <2>2. CASE CancelMoves(w) \/ UnreserveMoves(w)
   <3>1. PICK from, to : DropMoves(w, from, to)
     BY <2>2 DEF CancelMoves, UnreserveMoves
   <3> QED
     BY <1>1, <3>1, DropMovesEffect
  <2> QED
    BY <2>1, <2>2
 <1>3. ASSUME NEW m \in Move, MoveRow(m) \in R
       PROVE  /\ live'[MoveRow(m)].quantity = live[MoveRow(m)].quantity
              /\ live'[MoveRow(m)].dest = live[MoveRow(m)].dest
  <2>1. m \in MovesOf(txn[w].pick)
    BY <1>1, <1>3, RowsApart DEF MoveRows
  <2> QED
    BY <1>2, <2>1
 <1> QED
   BY <1>2, <1>3, RestsWritten

LEMMA MoveFieldsRest ==
    ASSUME TypeInv, WorkInv, NEW w \in Worker, AssignedMove(w) \/ Putaway(w)
    PROVE  \E R : WritesOnly(w, R) /\ MovesRest(w)
 <1>1. PICK c, r : c = txn[w].cur /\ r = MoveRow(c.move)
   OBVIOUS
 <1>2. /\ WritesOnly(w, {r}) /\ live'[r].quantity = live[r].quantity
       /\ live'[r].dest = live[r].dest \/ Putaway(w)
   BY <1>1, AssignedMoveRow, PutawayRow
 <1>3. Putaway(w) => live[r].quantity = 0
  <2>1. SUFFICES ASSUME Putaway(w) PROVE live[r].quantity = 0
    OBVIOUS
  <2>2. PICK t, x : t = txn[w] /\ x = Mine(w)
    OBVIOUS
  <2>3. t.pc = "putaway"
    BY <2>1, <2>2 DEF Putaway, At
  <2>4. /\ WorkOK(t, x, Head(w), Base(w)) /\ DOMAIN x = MovesOf(t.pick)
        /\ \A m \in MovesOf(t.pick) : live[MoveRow(m)] = x[m]
    BY <2>2, <2>3, WorkAt DEF OfPicking, OfMove
  <2>5. /\ t.cur.move \in DOMAIN x /\ x[t.cur.move].state \in OpenStates
        /\ RowOK(t.cur.move, x[t.cur.move])
    BY <2>3, <2>4, InHand
  <2>6. x[t.cur.move].quantity = 0
    BY <2>5 DEF RowOK, OpenStates
  <2> QED
    BY <1>1, <2>2, <2>4, <2>5, <2>6
 <1>4. \A m \in Move : MoveRow(m) \in {r} =>
          /\ live'[MoveRow(m)].quantity = live[MoveRow(m)].quantity
          /\ live'[MoveRow(m)].dest = live[MoveRow(m)].dest \/ live[MoveRow(m)].quantity = 0
   BY <1>2, <1>3
 <1> QED
   BY <1>2, <1>4, RestsWritten

\* Only a move that is done, or a component that is consumed, has moved units.
LEMMA StepMoves ==
    ASSUME TypeInv, WorkInv, NEW w \in Worker, Steps(w)
    PROVE  \/ \E R : WritesOnly(w, R) /\ MovesRest(w)
           \/ MoveDone(w) \/ Backflush(w) \/ Ends(w)
 <1> DEFINE Rests == \E R : WritesOnly(w, R) /\ MovesRest(w)
 <1>1. ASSUME UNCHANGED dbVars PROVE Rests
   BY <1>1, WritesNothing, RestsElsewhere
 <1>2. ASSUME NEW R, WritesOnly(w, R), R \cap AllMoveRows = {} PROVE Rests
   BY <1>2, RestsElsewhere
 <1> HIDE DEF Rests
 <1>3. ASSUME \E k \in Picking : Requests(w, k) PROVE Rests
   BY <1>1, <1>3, RequestEffect
 <1>4. ASSUME \E c \in Count : SetOnHand(w, c[1], c[2], c[3]) PROVE Rests
   BY <1>1, <1>4, SetOnHandEffect
 <1>5. ASSUME \/ AssignMove(w) \/ LoadMoves(w) \/ ValidateMove(w) \/ RefreshSnapshot(w)
              \/ BackflushSelect(w)
       PROVE  Rests
   BY <1>1, <1>5 DEF AssignMove, LoadMoves, ValidateMove, RefreshSnapshot, BackflushSelect
 <1>6. ASSUME Reserve(w) \/ ReleaseMove(w) \/ ReleaseHeld(w) \/ ApplyOut(w) \/ ApplyIn(w)
       PROVE  Rests
  <2>1. \E p \in Product, l \in Location : WritesOnly(w, {QuantRow(p, l)})
   <3>1. CASE Reserve(w)
    <4>1. txn[w].pc \in OfMove \cup Applying
      BY <3>1 DEF Reserve, At, OfMove
    <4> QED
      BY <3>1, <4>1, CurOf, ReserveEffect
   <3>2. CASE ReleaseMove(w)
    <4>1. txn[w].cur \in Transfer(Move) /\ ReleasedQuant(w, txn[w].cur)
      BY <3>2, CurOf DEF ReleaseMove, At, OfMove
    <4>2. txn[w].cur.prod \in Product /\ txn[w].cur.src \in Location
      BY <4>1 DEF Transfer
    <4> QED
      BY <4>1, <4>2, ReleasedEffect
   <3>3. CASE ReleaseHeld(w)
    <4>1. PICK c : c \in Transfer(Move) /\ ReleasedQuant(w, c)
      BY <3>3, ReleaseHeldEffect
    <4>2. c.prod \in Product /\ c.src \in Location
      BY <4>1 DEF Transfer
    <4> QED
      BY <4>1, <4>2, ReleasedEffect
   <3>4. CASE ApplyOut(w) \/ ApplyIn(w)
    <4>1. /\ txn[w].cur.prod \in Product /\ txn[w].cur.src \in Location
          /\ txn[w].cur.dest \in Location
     <5>1. txn[w].pc \in Applying
       BY <3>4 DEF ApplyOut, ApplyIn, At, Applying
     <5> QED
       BY <5>1, CurOf
    <4>2. PICK l \in Location : \E e : AddToQuant(w, txn[w].cur.prod, l, e)
      BY <3>4, <4>1 DEF ApplyOut, ApplyIn
    <4> QED
      BY <4>1, <4>2, AddToQuantEffect
   <3> QED
     BY <1>6, <3>1, <3>2, <3>3, <3>4
  <2>2. PICK p \in Product, l \in Location : WritesOnly(w, {QuantRow(p, l)})
    BY <2>1
  <2>3. {QuantRow(p, l)} \subseteq QuantRows
    BY DEF QuantRows
  <2> QED
    BY <1>2, <2>2, <2>3, TablesApart
 <1>7. ASSUME RefreshWrite(w) \/ UpdateOrder(w) \/ UpdateLines(w) PROVE Rests
  <2>1. PICK R : WritesOnly(w, R) /\ R \subseteq LineRows \cup OtherRows
   <3>1. CASE UpdateLines(w)
    <4>1. PICK R : R = {LineRow(order[txn[w].pick], product[m]) : m \in DoneMoves(w, txn[w].pick)}
      OBVIOUS
    <4>2. WritesOnly(w, R) /\ R \subseteq LineRows
      BY <3>1, <4>1, UpdateLinesRows
    <4> QED
      BY <4>2
   <3>2. CASE RefreshWrite(w) \/ UpdateOrder(w)
     BY <3>2, OtherRowsWritten
   <3> QED
     BY <1>7, <3>1, <3>2
  <2> QED
    BY <1>2, <2>1, TablesApart
 <1>8. ASSUME \/ ConfirmPicking(w) \/ AssignPicking(w) \/ CancelPicking(w)
              \/ UnreservePicking(w) \/ ResetPicking(w) \/ PickingDone(w)
       PROVE  Rests
  <2>1. txn[w].pick \in Picking /\ WritesOnly(w, {PickingRow(txn[w].pick)})
   <3>1. CASE ConfirmPicking(w) \/ PickingDone(w)
     BY <3>1, PickingDoneRow
   <3>2. CASE AssignPicking(w) \/ CancelPicking(w) \/ UnreservePicking(w) \/ ResetPicking(w)
    <4>1. PICK from, to : UpdateState(w, {PickingRow(txn[w].pick)}, from, to)
      BY <3>2 DEF AssignPicking, CancelPicking, UnreservePicking, ResetPicking
    <4>2. txn[w].pick \in Picking
      BY <3>2, StateUpdateRows DEF StateUpdates
    <4> QED
      BY <4>1, <4>2, UpdatePickingEffect
   <3> QED
     BY <1>8, <3>1, <3>2
  <2>2. {PickingRow(txn[w].pick)} \subseteq PickingRows
    BY <2>1 DEF PickingRows
  <2> QED
    BY <1>2, <2>1, <2>2, TablesApart
 <1>9. ASSUME ConfirmMoves(w) \/ ResetMoves(w) \/ CancelMoves(w) \/ UnreserveMoves(w)
       PROVE  Rests
   BY <1>9, MoveStatesRest DEF Rests
 <1>10. ASSUME AssignedMove(w) \/ Putaway(w) PROVE Rests
   BY <1>10, MoveFieldsRest DEF Rests
 <1>11. Commit(w) \/ Abort(w) \/ RefuseMove(w) => Ends(w)
   BY StepEnds
 <1>12. ASSUME Statement(w) PROVE Rests \/ MoveDone(w) \/ Backflush(w) \/ Ends(w)
   BY Zenon, <1>12, <1>5, <1>6, <1>7, <1>8, <1>9, <1>10, <1>11 DEF Statement
 <1>13. Rests \/ MoveDone(w) \/ Backflush(w) \/ Ends(w)
   BY Zenon, <1>3, <1>4, <1>11, <1>12 DEF Steps, Requests
 <1> QED
   BY <1>13 DEF Rests

Flying == Applying \cup {"moved"}

\* The statement brings no more units than the moves say already.
FlightsRest(w) ==
    \A p \in Product, L \in Region : InFlight(txn'[w], p, L) = InFlight(txn[w], p, L)

\* XFlights: the move in flight before and after the step X.
LEMMA NotFlying ==
    ASSUME NEW w, txn[w].pc \notin Flying, txn'[w].pc \notin Flying
    PROVE  FlightsRest(w)
  BY DEF FlightsRest, InFlight, Flying

\* A request that takes up a move it has not applied yet.
LEMMA TakenUp ==
    ASSUME NEW w, txn[w].pc \notin Flying, NEW d, txn'[w] = d, d.cur.qty \in Nat,
           d.pc \in {"putaway", "release", ApplyPc(d.cur)},
           d.cur.move \in Move, ~IsComponent(d.cur.move)
    PROVE  FlightsRest(w)
 <1>1. ~Backflushing(d)
  <2>1. AppliedPc(d.cur) = "moved"
    BY TransferAssumption DEF AppliedPc
  <2>2. d.pc # "backflush"
    BY <2>1 DEF ApplyPc
  <2> QED
    BY <2>2 DEF Backflushing
 <1>2. \A p, L : InFlight(txn[w], p, L) = 0
   BY DEF InFlight, Flying
 <1>3. ASSUME NEW p, NEW L PROVE InFlight(d, p, L) = 0
  <2>1. CASE d.pc \in {"putaway", "release", "out"}
    BY <1>1, <2>1 DEF InFlight, Applying
  <2>2. CASE d.pc = "moved" /\ (d.cur.qty = 0 \/ d.cur.src = d.cur.dest)
   <3>1. Units(L, d.cur.src, d.cur.dest, d.cur.qty) = 0
     BY <2>2 DEF Units
   <3> QED
     BY <1>1, <2>2, <3>1 DEF InFlight, Applying
  <2>3. AppliedPc(d.cur) = "moved"
    BY TransferAssumption DEF AppliedPc
  <2> QED
    BY <2>1, <2>2, <2>3 DEF ApplyPc
 <1> QED
   BY <1>2, <1>3 DEF FlightsRest

LEMMA ReleasingFlights ==
    ASSUME TypeInv, WorkInv, NEW w \in Worker, Putaway(w) \/ ReleaseMove(w)
    PROVE  FlightsRest(w)
 <1>1. PICK t : t = txn[w]
   OBVIOUS
 <1>2. t.pc \in {"putaway", "release"}
   BY <1>1 DEF Putaway, ReleaseMove, At
 <1>3. PICK pc : pc \in {ReleasePc(t.cur), ApplyPc(t.cur)} /\ Goto(w, pc)
   BY <1>1 DEF Putaway, ReleaseMove
 <1>4. PICK d : txn'[w] = d /\ d.pc = pc /\ d.cur = t.cur
   BY <1>1, <1>3, GotoIs
 <1>5. t.cur.move \in Move /\ ~IsComponent(t.cur.move) /\ t.cur.qty \in Nat
  <2>1. WorkOK(t, Mine(w), Head(w), Base(w)) /\ DOMAIN Mine(w) = MovesOf(t.pick)
    BY <1>1, <1>2, WorkAt DEF OfPicking, OfMove
  <2> QED
    BY <1>1, <1>2, <2>1, InHand, CurOf DEF OfMove
 <1>6. d.pc \in {"release", ApplyPc(d.cur)}
   BY <1>3, <1>4 DEF ReleasePc
 <1> QED
   BY <1>1, <1>2, <1>4, <1>5, <1>6, TakenUp DEF Flying, Applying

LEMMA ValidateMoveFlights ==
    ASSUME TypeInv, WorkInv, NEW w \in Worker, ValidateMove(w)
    PROVE  FlightsRest(w)
 <1>1. PICK c, x : c = txn[w] /\ x = Mine(w)
   OBVIOUS
 <1>2. \E d : \E t \in txn[w].todo, to \in Transfer(Move) :
            /\ t \in Transfer(Move)
            /\ to = [t EXCEPT !.dest = putaway[<<t.prod, t.dest>>]]
            /\ to.move = t.move /\ to.prod = t.prod /\ to.src = t.src /\ to.qty = t.qty
            /\ to.reserved = t.reserved
            /\ TxnOK(d) /\ txn' = [txn EXCEPT ![w] = d]
            /\ d.pc = (IF to.dest # t.dest THEN "putaway" ELSE ReleasePc(to))
            /\ d.pick = txn[w].pick /\ d.todo = txn[w].todo \ {t} /\ d.cur = to
   BY ValidateMoveEffect
 <1>3. PICK d : \E t \in txn[w].todo, to \in Transfer(Move) :
            /\ to.move = t.move /\ txn' = [txn EXCEPT ![w] = d]
            /\ d.pc = (IF to.dest # t.dest THEN "putaway" ELSE ReleasePc(to))
            /\ d.cur = to
   BY Zenon, <1>2
 <1>4. PICK t \in c.todo, to \in Transfer(Move) :
            /\ to.move = t.move /\ txn' = [txn EXCEPT ![w] = d]
            /\ d.pc \in {"putaway", ReleasePc(to)} /\ d.cur = to
   BY <1>1, <1>3
 <1>5. txn'[w] = d
   BY <1>4, SetTxnTo
 <1>6. c.pc = "validate"
   BY <1>1 DEF ValidateMove, At
 <1>7. WorkOK(c, x, Head(w), Base(w)) /\ DOMAIN x = MovesOf(c.pick)
   BY <1>1, <1>6, WorkAt DEF OfPicking
 <1>8. to.move \in Pending(c) /\ to.move \in DOMAIN x
   BY <1>4, <1>7 DEF Pending, Todo, WorkOK, KnowsTodo
 <1>9. x[to.move].state \in OpenStates /\ RowOK(to.move, x[to.move])
   BY <1>6, <1>7, <1>8 DEF WorkOK, Phase, Validating, RowsOK
 <1>10. to.move \in Move /\ to.qty \in Nat /\ ~IsComponent(to.move)
   BY <1>9 DEF RowOK, OpenStates, Transfer
 <1>11. d.pc \in {"putaway", "release", ApplyPc(d.cur)}
   BY <1>4 DEF ReleasePc
 <1> QED
   BY <1>1, <1>4, <1>5, <1>6, <1>10, <1>11, TakenUp DEF Flying, Applying

LEMMA RefreshFlights ==
    ASSUME TypeInv, WorkInv, NEW w \in Worker, RefreshSnapshot(w) \/ RefreshWrite(w)
    PROVE  FlightsRest(w)
 <1>1. PICK t, u : t = txn[w] /\ u = t.cur
   OBVIOUS
 <1>2. /\ RefreshSnapshot(w) => t.pc = "refresh"
       /\ RefreshWrite(w) => t.pc = "refreshed"
   BY <1>1 DEF RefreshSnapshot, RefreshWrite, At
 <1>3. u.qty \in Nat
   BY <1>1, <1>2, CurOf DEF Applying
 <1>4. PICK d : /\ txn'[w] = d /\ d.cur = u
                /\ \/ t.pc = "refresh" /\ d.pc = "refreshed"
                   \/ t.pc = "refreshed" /\ d.pc = AppliedPc(u)
  <2>1. CASE RefreshSnapshot(w)
   <3>1. PICK d : /\ txn' = [txn EXCEPT ![w] = d]
                  /\ d.pc = "refreshed" /\ d.cur = txn[w].cur
     BY <2>1, RefreshSnapshotEffect
   <3> QED
     BY <1>1, <1>2, <2>1, <3>1, SetTxnTo
  <2>2. CASE RefreshWrite(w)
   <3>1. Goto(w, AppliedPc(u))
     BY <1>1, <2>2 DEF RefreshWrite
   <3>2. PICK d : txn'[w] = d /\ d.pc = AppliedPc(u) /\ d.cur = txn[w].cur
     BY <3>1, GotoIs
   <3> QED
     BY <1>1, <1>2, <2>2, <3>2
  <2> QED
    BY <2>1, <2>2
 <1>5. ASSUME NEW p \in Product, NEW L \in Region
       PROVE  InFlight(d, p, L) = InFlight(t, p, L)
  <2>1. PICK all : all = Units(L, u.src, u.dest, u.qty) /\ all \in Int
    BY <1>3 DEF Units
  <2>2. InFlight(t, p, L) =
           (IF u.prod = p THEN all - (IF Backflushing(t) THEN all ELSE 0) ELSE 0)
    BY <1>1, <1>2, <2>1 DEF InFlight, Applying
  <2>3. CASE d.pc = "refreshed"
   <3>1. Backflushing(d) = Backflushing(t)
     BY <1>1, <1>2, <1>4, <2>3, PcsAfter DEF Backflushing, Applying
   <3> QED
     BY <1>4, <2>1, <2>2, <2>3, <3>1 DEF InFlight, Applying
  <2>4. CASE d.pc = "moved" /\ t.pc = "refreshed"
   <3>1. ~Backflushing(t) /\ ~Backflushing(d)
     BY <1>1, <1>4, <2>4, PcsAfter DEF Backflushing, Applying
   <3> QED
     BY <1>4, <2>1, <2>2, <2>4, <3>1 DEF InFlight, Applying
  <2>5. CASE d.pc = "backflush" /\ t.pc = "refreshed" /\ u.move \in Move
   <3>1. Backflushing(t)
     BY <1>1, <1>4, <2>5, PcsAfter DEF Backflushing, Applying
   <3> QED
     BY <2>1, <2>2, <2>5, <3>1 DEF InFlight, Applying
  <2>6. CASE d.pc \in {"commit", "backflush"} /\ t.pc = "refreshed" /\ u.move \notin Move
   <3>1. t.pick \notin Picking
    <4>1. SUFFICES ASSUME t.pick \in Picking PROVE FALSE
      OBVIOUS
    <4>2. WorkOK(t, Mine(w), Head(w), Base(w))
      BY <1>1, <4>1, WorkOn
    <4> QED
      BY <1>1, <2>6, <4>2 DEF WorkOK, KnowsCur, AtWork, Applying, OfMove
   <3>2. Elsewhere(t)
     BY <1>1, <3>1 DEF WorkInv
   <3>3. {u.src, u.dest} \subseteq Own
     BY <1>1, <2>6, <3>2 DEF Elsewhere, Applying, Own
   <3>4. all = 0
     BY <1>3, <2>1, <3>3 DEF Units, Region
   <3> QED
     BY <2>2, <2>6, <3>4 DEF InFlight, Applying
  <2>7. AppliedPc(u) \in {"commit", "backflush", "moved"}
    BY PcsAfter
  <2>8. AppliedPc(u) = "commit" => u.move \notin Move
    BY TransferAssumption, PcsAfter
  <2>9. CASE d.pc = AppliedPc(u) /\ t.pc = "refreshed"
    BY <2>4, <2>5, <2>6, <2>7, <2>8, <2>9
  <2> QED
    BY <1>4, <2>3, <2>9
 <1> QED
   BY <1>1, <1>4, <1>5 DEF FlightsRest

LEMMA SetOnHandFlights ==
    ASSUME TypeInv, NEW w \in Worker, NEW c \in Count, SetOnHand(w, c[1], c[2], c[3])
    PROVE  FlightsRest(w)
 <1>1. PICK d : /\ txn' = [txn EXCEPT ![w] = d] /\ txn[w].pc = "idle"
                /\ d.pc = "out" /\ d.cur.move = NoMove
   BY SetOnHandEffect
 <1>2. txn'[w] = d
   BY <1>1, SetTxnTo
 <1>3. ~Backflushing(d)
   BY <1>1, TransferAssumption DEF Backflushing
 <1> QED
   BY <1>1, <1>2, <1>3 DEF FlightsRest, InFlight, Applying

\* Only what applyMove writes, and what is written to the move it is for,
\* changes how many units are in flight.
LEMMA StepFlights ==
    ASSUME TypeInv, WorkInv, NEW w \in Worker, Steps(w)
    PROVE  FlightsRest(w) \/ ApplyOut(w) \/ ApplyIn(w) \/ MoveDone(w) \/ Backflush(w) \/ Ends(w)
 <1> DEFINE Rests == FlightsRest(w)
 <1>1. ASSUME txn[w].pc \notin Flying, NEW pc, pc \notin Flying, Goto(w, pc) PROVE Rests
  <2>1. txn'[w].pc = pc
    BY <1>1, GotoIs
  <2> QED
    BY <1>1, <2>1, NotFlying
 <1> HIDE DEF Rests
 <1>2. ASSUME \E k \in Picking : Requests(w, k) PROVE Rests
   BY <1>2, RequestEffect, NotFlying DEF Flying, Applying, Rests
 <1>3. ASSUME \E c \in Count : SetOnHand(w, c[1], c[2], c[3]) PROVE Rests
   BY <1>3, SetOnHandFlights DEF Rests
 <1>4. ASSUME StateUpdates(w) PROVE Rests
   BY <1>4, StateUpdateRows, NotFlying DEF Flying, Applying, Rests
 <1>5. ASSUME ValidateMove(w) \/ Putaway(w) \/ ReleaseMove(w) PROVE Rests
   BY <1>5, ValidateMoveFlights, ReleasingFlights DEF Rests
 <1>6. ASSUME RefreshSnapshot(w) \/ RefreshWrite(w) PROVE Rests
   BY <1>6, RefreshFlights DEF Rests
 <1>7. ASSUME AssignMove(w) \/ AssignedMove(w) \/ LoadMoves(w) \/ BackflushSelect(w)
              \/ ReleaseHeld(w)
       PROVE  Rests
  <2>1. txn[w].pc \in {"assign", "reserved", "load", "backflush_select", "cancel", "unreserve"}
    BY <1>7 DEF AssignMove, AssignedMove, LoadMoves, BackflushSelect, ReleaseHeld, At
  <2>2. PICK d : /\ txn' = [txn EXCEPT ![w] = d]
                 /\ d.pc \in {"assign", "reserve", "reserved", "validate", "backflush",
                              txn[w].pc}
   <3>1. ASSUME AssignMove(w)
         PROVE  \E d : /\ txn' = [txn EXCEPT ![w] = d] /\ d.pc \in {"reserve", "reserved"}
     BY <3>1, AssignMoveEffect
   <3>2. ASSUME AssignedMove(w)
         PROVE  \E d : /\ txn' = [txn EXCEPT ![w] = d] /\ d.pc = "assign"
     BY <3>2, AssignedMoveEffect
   <3>3. ASSUME LoadMoves(w)
         PROVE  \E d : /\ txn' = [txn EXCEPT ![w] = d] /\ d.pc = "validate"
     BY <3>3, LoadMovesEffect
   <3>4. ASSUME BackflushSelect(w)
         PROVE  \E d : /\ txn' = [txn EXCEPT ![w] = d] /\ d.pc = "backflush"
     BY Zenon, <3>4, BackflushSelectEffect
   <3>5. ASSUME ReleaseHeld(w)
         PROVE  \E d : /\ txn' = [txn EXCEPT ![w] = d] /\ d.pc = txn[w].pc
     BY Zenon, <3>5, ReleaseHeldEffect
   <3> QED
     BY <1>7, <3>1, <3>2, <3>3, <3>4, <3>5
  <2>3. txn'[w] = d
    BY <2>2, SetTxnTo
  <2> QED
    BY <2>1, <2>2, <2>3, NotFlying DEF Flying, Applying, Rests
 <1>8. ASSUME Reserve(w) PROVE Rests
   BY <1>1, <1>8 DEF Reserve, At, Flying, Applying
 <1>9. ASSUME PickingDone(w) \/ UpdateLines(w) \/ UpdateOrder(w) PROVE Rests
  <2>1. txn[w].pc \in {"validate", "bill", "status"}
    BY <1>9 DEF PickingDone, UpdateLines, UpdateOrder, At
  <2>2. PICK pc : pc \in {"bill", "status", "backflush_select", "commit"} /\ Goto(w, pc)
    BY <1>9 DEF PickingDone, UpdateLines, UpdateOrder, AfterOrder
  <2> QED
    BY <1>1, <2>1, <2>2 DEF Flying, Applying
 <1>10. Commit(w) \/ Abort(w) \/ RefuseMove(w) => Ends(w)
   BY StepEnds
 <1> DEFINE Goal == \/ Rests \/ ApplyOut(w) \/ ApplyIn(w) \/ MoveDone(w) \/ Backflush(w)
                    \/ Ends(w)
 <1>11. ASSUME Statement(w) PROVE Goal
   BY Zenon, <1>11, <1>4, <1>5, <1>6, <1>7, <1>8, <1>9, <1>10 DEF Statement, StateUpdates
 <1>12. Goal
   BY Zenon, <1>2, <1>3, <1>10, <1>11 DEF Steps, Requests
 <1> QED
   BY <1>12 DEF Rests

\* What w itself has changed of the quants is what it has changed of the moves.
OwnLedger(w) ==
    \A p \in Product, L \in Region :
       SumFunction(PendingQtyOf(w, p, L)) = SumFunction(PendingBrought(w, p, L)) + InFlight(txn[w], p, L)

\* The others' part of the ledger is not touched by a statement.
LEMMA OwnLedgerSuffices ==
    ASSUME TypeInv, LedgerKept, NEW w \in Worker, NEW R, WritesOnly(w, R), OthersStay(w),
           OwnLedger(w)'
    PROVE  LedgerKept'
 <1>1. committed' = committed
   BY DEF WritesOnly
 <1>2. ASSUME NEW p \in Product, NEW L \in Region, NEW v \in Worker, v # w
       PROVE  /\ PendingQtyOf(v, p, L)' = PendingQtyOf(v, p, L)
              /\ PendingBrought(v, p, L)' = PendingBrought(v, p, L)
  <2>1. ASSUME NEW l \in L PROVE PendingQty(v, p, l)' = PendingQty(v, p, l)
   <3>1. PICK r : r = QuantRow(p, l) /\ r \in Row
     BY RowsIn DEF Region
   <3>2. \/ live'[r] = live[r] /\ lock'[r] = lock[r]
         \/ lock[r] # v /\ lock'[r] # v
    <4>1. lock[r] \in {w, NoTxn} => lock[r] # v
      BY <1>2, NoTxnAssumption
    <4> QED
      BY <1>2, <3>1, <4>1 DEF WritesOnly, Free
   <3> QED
     BY <1>1, <3>1, <3>2 DEF PendingQty
  <2>2. ASSUME NEW m \in OfProduct(p)
        PROVE  Visible(v, MoveRow(m))' = Visible(v, MoveRow(m))
   <3>1. MoveRow(m) \in Row
     BY RowsIn DEF OfProduct
   <3> QED
     BY <1>2, <3>1, ViewsAfter
  <2>3. PendingQtyOf(v, p, L)' = PendingQtyOf(v, p, L)
    BY <2>1 DEF PendingQtyOf
  <2>4. OfProduct(p)' = OfProduct(p)
    BY DEF OfProduct
  <2>5. PICK f : f = PendingBrought(v, p, L)'
    OBVIOUS
  <2>6. f = [m \in OfProduct(p) |->
               Net(m, Visible(v, MoveRow(m))', L) - Net(m, committed[MoveRow(m)], L)]
    BY <1>1, <2>5 DEF PendingBrought, Net, OfProduct
  <2> QED
    BY <2>2, <2>3, <2>5, <2>6 DEF PendingBrought
 <1>3. ASSUME NEW p \in Product, NEW L \in Region
       PROVE  QtyOf(p, L)' = QtyOf(p, L) /\ Brought(p, L)' = Brought(p, L)
   BY <1>1 DEF QtyOf, Brought, Net, OfProduct
 <1>4. ASSUME NEW p \in Product, NEW L \in Region, NEW v \in Worker
       PROVE  SumFunction(PendingQtyOf(v, p, L)') =
                 SumFunction(PendingBrought(v, p, L)') + InFlight(txn'[v], p, L)
  <2>1. CASE v = w
    BY <2>1 DEF OwnLedger, InFlight, Backflushing
  <2>2. CASE v # w
   <3>1. txn'[v] = txn[v]
     BY <2>2 DEF OthersStay
   <3> QED
     BY <1>2, <2>2, <3>1 DEF LedgerKept
  <2> QED
    BY <2>1, <2>2
 <1>5. ASSUME NEW p \in Product, NEW L \in Region
       PROVE  SumFunction(QtyOf(p, L)') = SumFunction(Brought(p, L)')
   BY <1>3, <1>5 DEF LedgerKept
 <1>6. \A v \in Worker : \A p, L : InFlight(txn[v], p, L)' = InFlight(txn'[v], p, L)
   BY DEF InFlight, Backflushing, Applying, Units
 <1> QED
   BY <1>4, <1>5, <1>6 DEF LedgerKept, Region, Own

\* No quantity of a quant is written.
QuantsRest(w) ==
    \A p \in Product, L \in Region : PendingQtyOf(w, p, L)' = PendingQtyOf(w, p, L)

\* A step that changes neither quants nor done moves keeps the ledger.
LEMMA QuantsRestKept ==
    ASSUME TypeInv, NEW w \in Worker, QtyKept(w)
    PROVE  QuantsRest(w)
 <1>1. ASSUME NEW p \in Product, NEW l \in Location
       PROVE  PendingQty(w, p, l)' = PendingQty(w, p, l)
  <2>1. PICK e \in Int : e = 0
    OBVIOUS
  <2>2. PendingQty(w, p, l)' = PendingQty(w, p, l) + (IF w = w THEN e ELSE 0)
   <3>1. live[QuantRow(p, l)].qty \in Int
     BY DEF TypeInv, DbTyped, VersionOK, QuantVersion
   <3> QED
     BY <2>1, <3>1, PendingQtyWritten DEF QtyKept
  <2>3. PendingQty(w, p, l) \in Int
    BY DEF PendingQty, TypeInv, DbTyped, VersionOK, QuantVersion
  <2> QED
    BY <2>1, <2>2, <2>3
 <1> QED
   BY <1>1 DEF QuantsRest, PendingQtyOf, Region

\* No move brings more than before.
BroughtRests(w) ==
    \A p \in Product, L \in Region : PendingBrought(w, p, L)' = PendingBrought(w, p, L)

LEMMA BroughtRestsIf ==
    ASSUME TypeInv, NEW w \in Worker, committed' = committed, MovesRest(w)
    PROVE  BroughtRests(w)
 <1>1. ASSUME NEW p \in Product, NEW L \in Region, NEW m \in OfProduct(p)
       PROVE  Net(m, Visible(w, MoveRow(m))', L) = Net(m, Visible(w, MoveRow(m)), L)
   BY DEF MovesRest, Net, Units, OfProduct
 <1>2. ASSUME NEW p \in Product, NEW L \in Region
       PROVE  PendingBrought(w, p, L)' = PendingBrought(w, p, L)
  <2>1. PICK f : f = PendingBrought(w, p, L)'
    OBVIOUS
  <2>2. f = [m \in OfProduct(p) |->
               Net(m, Visible(w, MoveRow(m))', L) - Net(m, committed[MoveRow(m)], L)]
    BY <2>1 DEF PendingBrought, Net, OfProduct
  <2> QED
    BY <1>1, <2>1, <2>2 DEF PendingBrought
 <1> QED
   BY <1>2 DEF BroughtRests

LEMMA RestingLedger ==
    ASSUME TypeInv, LedgerKept, NEW w \in Worker, NEW R, WritesOnly(w, R), OthersStay(w),
           QuantsRest(w), BroughtRests(w), FlightsRest(w)
    PROVE  LedgerKept'
 <1>1. ASSUME NEW p \in Product, NEW L \in Region
       PROVE  SumFunction(PendingQtyOf(w, p, L)') =
                 SumFunction(PendingBrought(w, p, L)') + InFlight(txn'[w], p, L)
  <2>1. /\ PendingQtyOf(w, p, L)' = PendingQtyOf(w, p, L)
        /\ PendingBrought(w, p, L)' = PendingBrought(w, p, L)
        /\ InFlight(txn'[w], p, L) = InFlight(txn[w], p, L)
    BY DEF QuantsRest, BroughtRests, FlightsRest
  <2> QED
    BY <2>1 DEF LedgerKept
 <1>2. OwnLedger(w)'
   BY <1>1 DEF OwnLedger, Region, Own, InFlight, Backflushing, Applying, Units
 <1> QED
   BY <1>2, OwnLedgerSuffices

\* One side of applyMove.
LEMMA AppliedLedger ==
    ASSUME TypeInv, LedgerKept, NEW w \in Worker, ApplyOut(w) \/ ApplyIn(w)
    PROVE  LedgerKept'
 <1>1. PICK t, u : t = txn[w] /\ u = t.cur
   OBVIOUS
 <1>2. PICK out \in BOOLEAN : out = ApplyOut(w)
   BY DEF ApplyOut, At
 <1>3. t.pc = (IF out THEN "out" ELSE "in")
   BY <1>1, <1>2 DEF ApplyOut, ApplyIn, At
 <1>4. u.prod \in Product /\ u.src \in Location /\ u.dest \in Location /\ u.qty \in Nat
   BY <1>1, <1>3, CurOf DEF Applying
 <1>5. PICK l0 \in Location, e \in Int : /\ l0 = (IF out THEN u.src ELSE u.dest)
                                         /\ e = (IF out THEN 0 - u.qty ELSE u.qty)
   BY <1>4
 <1>6. AddToQuant(w, u.prod, l0, e)
   BY <1>1, <1>2, <1>5 DEF ApplyOut, ApplyIn
 <1>7. PICK q : q = QuantRow(u.prod, l0) /\ q \in Row
   BY <1>4, RowsIn
 <1>8. /\ WritesOnly(w, {q}) /\ Free(w, q) /\ lock'[q] = w
       /\ live'[q].qty = live[q].qty + e
   BY <1>4, <1>6, <1>7, AddToQuantEffect
 <1>9. PICK d : /\ txn'[w] = d /\ d.cur = u /\ d.pc = (IF out THEN "in" ELSE "refresh")
                /\ txn' = [txn EXCEPT ![w] = d]
  <2>1. PICK pc : pc = (IF out THEN "in" ELSE "refresh")
    OBVIOUS
  <2>2. Goto(w, pc)
    BY <1>2, <2>1 DEF ApplyOut, ApplyIn
  <2> QED
    BY <1>1, <2>1, <2>2, GotoIs
 <1>10. OthersStay(w)
   BY <1>9, SetTxnTo
 <1>11. BroughtRests(w)
  <2>1. {q} \cap AllMoveRows = {}
    BY <1>4, <1>7, TablesApart DEF QuantRows
  <2>2. MovesRest(w) /\ committed' = committed
    BY <1>8, <2>1, RestsElsewhere DEF WritesOnly
  <2> QED
    BY <2>2, BroughtRestsIf
 <1>12. ASSUME NEW p \in Product, NEW L \in Region
        PROVE  SumFunction(PendingQtyOf(w, p, L)') =
                 SumFunction(PendingBrought(w, p, L)') + InFlight(txn'[w], p, L)
  <2>1. PICK f, g : f = PendingQtyOf(w, p, L) /\ g = PendingQtyOf(w, p, L)'
    OBVIOUS
  <2>2. /\ f \in [L -> Int] /\ IsFiniteSet(L) /\ L \subseteq Location
        /\ PendingBrought(w, p, L) \in [OfProduct(p) -> Int] /\ IsFiniteSet(OfProduct(p))
    BY <2>1, LedgerTypes
  <2>3. \A l \in L : g[l] = f[l] + (IF p = u.prod /\ l = l0 THEN e ELSE 0)
   <3>1. ASSUME NEW l \in L
         PROVE  PendingQty(w, p, l)' =
                   PendingQty(w, p, l) + (IF p = u.prod /\ l = l0 THEN e ELSE 0)
    <4>1. PICK dd \in Int : dd = (IF p = u.prod /\ l = l0 THEN e ELSE 0)
      BY <1>5
    <4>2. PICK r : r = QuantRow(p, l) /\ r \in Row /\ live[r].qty \in Int
      BY <2>2, RowsIn DEF TypeInv, DbTyped, VersionOK, QuantVersion
    <4>3. p = u.prod /\ l = l0 <=> r = q
      BY <1>7, <4>2, RowsApart
    <4>4. /\ live'[r].qty = live[r].qty + dd
          /\ \/ dd = 0 /\ lock'[r] = lock[r]
             \/ Free(w, r) /\ lock'[r] = w
      BY <1>8, <4>1, <4>2, <4>3 DEF WritesOnly
    <4>5. PendingQty(w, p, l)' = PendingQty(w, p, l) + (IF w = w THEN dd ELSE 0)
      BY <1>8, <2>2, <4>2, <4>4, PendingQtyWritten DEF WritesOnly
    <4> QED
      BY <4>1, <4>5
   <3> QED
     BY <2>1, <3>1 DEF PendingQtyOf
  <2>4. g \in [L -> Int]
   <3>1. g = [l \in L |-> PendingQty(w, p, l)']
     BY <2>1 DEF PendingQtyOf
   <3>2. \A l \in L : g[l] \in Int
     BY <1>5, <2>2, <2>3
   <3> QED
     BY <3>1, <3>2
  <2>5. PICK c \in Int : c = (IF p = u.prod /\ l0 \in L THEN e ELSE 0)
    BY <1>5
  <2>6. SumFunction(f) \in Int
    BY <2>2, SumFunctionType
  <2>7. SumFunction(g) = SumFunction(f) + c
   <3>1. CASE p = u.prod /\ l0 \in L
    <4>1. \A l \in L : l # l0 => g[l] = f[l]
      BY <2>2, <2>3
    <4>2. SumFunction(g) = SumFunction(f) + g[l0] - f[l0]
      BY <2>2, <2>4, <3>1, <4>1, SumFunctionUpdate
    <4>3. g[l0] = f[l0] + e /\ f[l0] \in Int
      BY <2>2, <2>3, <3>1
    <4> QED
      BY <1>5, <2>5, <2>6, <3>1, <4>2, <4>3
   <3>2. CASE ~(p = u.prod /\ l0 \in L)
    <4>1. \A l \in L : g[l] = f[l]
      BY <2>2, <2>3, <3>2
    <4>2. g = f
      BY <2>2, <2>4, <4>1
    <4> QED
      BY <2>5, <2>6, <3>2, <4>2
   <3> QED
     BY <3>1, <3>2
  <2>8. InFlight(d, p, L) = InFlight(t, p, L) + c
   <3>1. Backflushing(d) = Backflushing(t)
     BY <1>1, <1>3, <1>9 DEF Backflushing, Applying
   <3>2. PICK all \in Int : all = Units(L, u.src, u.dest, u.qty)
     BY <1>4 DEF Units
   <3>3. /\ InFlight(t, p, L) = (IF u.prod = p
              THEN (IF out THEN 0 ELSE 0 - (IF u.src \in L THEN u.qty ELSE 0))
                   - (IF Backflushing(t) THEN all ELSE 0) ELSE 0)
     BY <1>1, <1>3, <3>2 DEF InFlight, Applying
   <3>4. /\ InFlight(d, p, L) = (IF u.prod = p
              THEN (IF out THEN 0 - (IF u.src \in L THEN u.qty ELSE 0) ELSE all)
                   - (IF Backflushing(t) THEN all ELSE 0) ELSE 0)
     BY <1>9, <3>1, <3>2 DEF InFlight, Applying
   <3>5. PICK a, b, z \in Int : /\ a = (IF u.src \in L THEN u.qty ELSE 0)
                                /\ b = (IF u.dest \in L THEN u.qty ELSE 0)
                                /\ z = (IF Backflushing(t) THEN all ELSE 0)
     BY <1>4
   <3>6. all = b - a
     BY <3>2, <3>5 DEF Units
   <3>7. CASE p # u.prod
     BY <2>5, <3>3, <3>4, <3>7
   <3>8. CASE p = u.prod /\ out
    <4>1. c = 0 - a
      BY <1>5, <2>5, <3>5, <3>8
    <4>2. InFlight(t, p, L) = 0 - z /\ InFlight(d, p, L) = (0 - a) - z
      BY <3>3, <3>4, <3>5, <3>8
    <4> QED
      BY <3>5, <4>1, <4>2
   <3>9. CASE p = u.prod /\ ~out
    <4>1. c = b
      BY <1>5, <2>5, <3>5, <3>9
    <4>2. InFlight(t, p, L) = (0 - a) - z /\ InFlight(d, p, L) = all - z
      BY <3>3, <3>4, <3>5, <3>9
    <4>3. InFlight(d, p, L) = (b - a) - z
      BY <3>6, <4>2
    <4>4. (b - a) - z = ((0 - a) - z) + b
      OBVIOUS
    <4> QED
      BY <4>1, <4>2, <4>3, <4>4
   <3> QED
     BY <3>7, <3>8, <3>9
  <2>9. SumFunction(f) = SumFunction(PendingBrought(w, p, L)) + InFlight(t, p, L)
    BY <1>1, <2>1 DEF LedgerKept
  <2>10. SumFunction(PendingBrought(w, p, L)) \in Int /\ InFlight(t, p, L) \in Int
    BY <1>1, <2>2, SumFunctionType, FlightType
  <2>11. PendingBrought(w, p, L)' = PendingBrought(w, p, L)
    BY <1>11 DEF BroughtRests
  <2> QED
    BY <1>9, <2>1, <2>5, <2>7, <2>8, <2>9, <2>10, <2>11
 <1>13. OwnLedger(w)'
   BY <1>12 DEF OwnLedger, Region, Own, InFlight, Backflushing, Applying, Units
 <1> QED
   BY <1>8, <1>10, <1>13, OwnLedgerSuffices

\* What move m0 says it has brought and what is in flight for it stay in step.
Settles(w, m0) ==
    /\ \A m \in Move : m # m0 => Visible(w, MoveRow(m))' = Visible(w, MoveRow(m))
    /\ \A p \in Product, L \in Region :
          IF p = product[m0]
          THEN Net(m0, Visible(w, MoveRow(m0))', L) + InFlight(txn'[w], p, L)
                 = Net(m0, Visible(w, MoveRow(m0)), L) + InFlight(txn[w], p, L)
          ELSE InFlight(txn'[w], p, L) = InFlight(txn[w], p, L)

\* MoveDone and the backflush record what applyMove has moved.
LEMMA SettlingLedger ==
    ASSUME TypeInv, TypeInv', LedgerKept, NEW w \in Worker, NEW R, WritesOnly(w, R),
           OthersStay(w), QuantsRest(w), NEW m0 \in Move, Settles(w, m0)
    PROVE  LedgerKept'
 <1>1. ASSUME NEW p \in Product, NEW L \in Region
       PROVE  SumFunction(PendingQtyOf(w, p, L)') =
                 SumFunction(PendingBrought(w, p, L)') + InFlight(txn'[w], p, L)
  <2>1. PICK f, g, S : /\ f = PendingBrought(w, p, L) /\ g = PendingBrought(w, p, L)'
                       /\ S = OfProduct(p)
    OBVIOUS
  <2>2. /\ f \in [S -> Int] /\ IsFiniteSet(S) /\ S \subseteq Move
        /\ PendingQtyOf(w, p, L) \in [L -> Int] /\ IsFiniteSet(L)
    BY <2>1, LedgerTypes
  <2>3. g = [m \in S |-> Net(m, Visible(w, MoveRow(m))', L) - Net(m, committed[MoveRow(m)], L)]
    BY <2>1 DEF PendingBrought, Net, OfProduct, WritesOnly
  <2>4. \A m \in S : /\ Net(m, Visible(w, MoveRow(m))', L) \in Int
                     /\ Net(m, Visible(w, MoveRow(m)), L) \in Int
                     /\ Net(m, committed[MoveRow(m)], L) \in Int
   <3>1. \A m \in S : Visible(w, MoveRow(m)) \in MoveVersion
     BY <2>2, VisibleTyped
   <3>2. \A m \in S : Visible(w, MoveRow(m))' \in MoveVersion
    <4>1. \A m \in Move : live'[MoveRow(m)] \in MoveVersion
                          /\ committed'[MoveRow(m)] \in MoveVersion
      BY DEF TypeInv, DbTyped, VersionOK
    <4> QED
      BY <2>2, <4>1 DEF Visible
   <3>3. \A m \in S : committed[MoveRow(m)] \in MoveVersion
     BY <2>2 DEF TypeInv, DbTyped, VersionOK
   <3> QED
     BY <3>1, <3>2, <3>3, NetType
  <2>5. g \in [S -> Int]
    BY <2>3, <2>4
  <2>6. \A m \in S : m # m0 => g[m] = f[m]
    BY <2>1, <2>2, <2>3 DEF Settles, PendingBrought
  <2>7. SumFunction(f) \in Int /\ InFlight(txn[w], p, L) \in Int
    BY <2>2, SumFunctionType, FlightType
  <2>8. PendingQtyOf(w, p, L)' = PendingQtyOf(w, p, L)
    BY DEF QuantsRest
  <2>9. SumFunction(PendingQtyOf(w, p, L)) = SumFunction(f) + InFlight(txn[w], p, L)
    BY <2>1 DEF LedgerKept
  <2>10. CASE m0 \in S
   <3>1. p = product[m0]
     BY <2>1, <2>10 DEF OfProduct
   <3>2. SumFunction(g) = SumFunction(f) + g[m0] - f[m0]
     BY <2>2, <2>5, <2>6, <2>10, SumFunctionUpdate
   <3>3. PICK a, b, c \in Int : /\ a = Net(m0, Visible(w, MoveRow(m0))', L)
                                /\ b = Net(m0, Visible(w, MoveRow(m0)), L)
                                /\ c = Net(m0, committed[MoveRow(m0)], L)
     BY <2>4, <2>10
   <3>4. g[m0] = a - c /\ f[m0] = b - c
     BY <2>1, <2>3, <2>10, <3>3 DEF PendingBrought
   <3>5. a + InFlight(txn'[w], p, L) = b + InFlight(txn[w], p, L)
     BY <3>1, <3>3 DEF Settles
   <3>6. InFlight(txn'[w], p, L) \in Int
    <4>1. txn'[w].pc \in Flying => txn'[w].cur.qty \in Int
      BY DEF TypeInv, TxnOK, Flying, Applying, OfMove, Transfer
    <4> QED
      BY <4>1 DEF InFlight, Units, Flying
   <3>7. PICK i, j, F \in Int : /\ i = InFlight(txn[w], p, L) /\ F = SumFunction(f)
                                /\ j = InFlight(txn'[w], p, L)
     BY <2>7, <3>6
   <3>8. SumFunction(g) = F + (a - c) - (b - c) /\ a + j = b + i
     BY <3>2, <3>4, <3>5, <3>7
   <3>9. F + i = (F + (a - c) - (b - c)) + j
     BY <3>8
   <3>10. SumFunction(PendingQtyOf(w, p, L)) = F + i
     BY <2>9, <3>7
   <3> QED
     BY <2>1, <2>8, <3>7, <3>8, <3>9, <3>10
  <2>11. CASE m0 \notin S
   <3>1. p # product[m0]
     BY <2>1, <2>11 DEF OfProduct
   <3>2. g = f
     BY <2>2, <2>5, <2>6, <2>11
   <3> QED
     BY <2>1, <2>8, <2>9, <3>1, <3>2 DEF Settles
  <2> QED
    BY <2>10, <2>11
 <1>2. OwnLedger(w)'
   BY <1>1 DEF OwnLedger, Region, Own, InFlight, Backflushing, Applying, Units
 <1> QED
   BY <1>2, OwnLedgerSuffices

\* A statement that writes one move of the transfer.
LEMMA OneMoveWritten ==
    ASSUME TypeInv, NEW w \in Worker, NEW m0 \in Move, WritesOnly(w, {MoveRow(m0)}),
           Free(w, MoveRow(m0)), lock'[MoveRow(m0)] = w, NEW d, txn' = [txn EXCEPT ![w] = d],
           txn[w].pc # "in", d.pc # "in"
    PROVE  /\ QuantsRest(w) /\ OthersStay(w)
           /\ \A m \in Move : m # m0 => Visible(w, MoveRow(m))' = Visible(w, MoveRow(m))
           /\ Visible(w, MoveRow(m0))' = live'[MoveRow(m0)]
           /\ Visible(w, MoveRow(m0)) = live[MoveRow(m0)]
 <1>1. txn'[w] = d /\ OthersStay(w)
   BY SetTxnTo
 <1>2. {MoveRow(m0)} \cap QuantRows = {}
   BY TablesApart DEF AllMoveRows
 <1>3. QuantsRest(w)
   BY <1>1, <1>2, QtyKeptElsewhere, QuantsRestKept
 <1>4. ASSUME NEW m \in Move, m # m0
       PROVE  Visible(w, MoveRow(m))' = Visible(w, MoveRow(m))
  <2>1. MoveRow(m) \in Row /\ MoveRow(m) \notin {MoveRow(m0)}
    BY <1>4, RowsIn, RowsApart
  <2> QED
    BY <2>1, ViewsAfter
 <1>5. Visible(w, MoveRow(m0)) = live[MoveRow(m0)]
   BY RowsIn, VisibleIsLive DEF TypeInv, DbTyped
 <1> QED
   BY <1>1, <1>3, <1>4, <1>5 DEF Visible

LEMMA MoveDoneLedger ==
    ASSUME TypeInv, TypeInv', WorkInv, LedgerKept, NEW w \in Worker, MoveDone(w)
    PROVE  LedgerKept'
 <1>1. PICK t, x, u, m0 : t = txn[w] /\ x = Mine(w) /\ u = t.cur /\ m0 = u.move
   OBVIOUS
 <1>2. t.pc = "moved" /\ Goto(w, "validate")
   BY <1>1 DEF MoveDone, At
 <1>3. /\ WorkOK(t, x, Head(w), Base(w)) /\ DOMAIN x = MovesOf(t.pick)
       /\ \A m \in MovesOf(t.pick) : live[MoveRow(m)] = x[m] /\ m \in Move
   BY <1>1, <1>2, WorkAt DEF OfPicking, OfMove
 <1>4. /\ ~Backflushing(t) /\ m0 \in DOMAIN x /\ x[m0].state \in OpenStates /\ RowOK(m0, x[m0])
       /\ AtWork(t)
   BY <1>1, <1>2, <1>3, InHand
 <1>5. /\ u.prod = product[m0] /\ u.src = source[m0] /\ u.dest = x[m0].dest
       /\ x[m0].quantity = 0 /\ m0 \in Move /\ u.qty \in Nat
   BY <1>1, <1>2, <1>3, <1>4, CurOf DEF WorkOK, KnowsCur, RowOK, OpenStates, OfMove
 <1>6. PICK r : r = MoveRow(m0)
   OBVIOUS
 <1>7. /\ WritesOnly(w, {r}) /\ Free(w, r) /\ lock'[r] = w
       /\ live'[r].quantity = u.qty /\ live'[r].dest = live[r].dest
   BY <1>1, <1>6, MoveDoneRow
 <1>8. PICK d : txn' = [txn EXCEPT ![w] = d] /\ txn'[w] = d /\ d.pc = "validate"
   BY <1>2, GotoIs
 <1>9. /\ QuantsRest(w) /\ OthersStay(w)
       /\ \A m \in Move : m # m0 => Visible(w, MoveRow(m))' = Visible(w, MoveRow(m))
       /\ Visible(w, MoveRow(m0))' = live'[r] /\ Visible(w, MoveRow(m0)) = live[r]
   BY <1>1, <1>2, <1>5, <1>6, <1>7, <1>8, OneMoveWritten
 <1>10. ASSUME NEW p \in Product, NEW L \in Region
        PROVE  IF p = product[m0]
               THEN Net(m0, Visible(w, MoveRow(m0))', L) + InFlight(txn'[w], p, L)
                      = Net(m0, Visible(w, MoveRow(m0)), L) + InFlight(txn[w], p, L)
               ELSE InFlight(txn'[w], p, L) = InFlight(txn[w], p, L)
  <2>1. PICK all \in Int : all = Units(L, u.src, u.dest, u.qty)
    BY <1>5 DEF Units
  <2>2. InFlight(d, p, L) = 0
    BY <1>8 DEF InFlight, Applying
  <2>3. InFlight(t, p, L) = (IF p = product[m0] THEN all ELSE 0)
    BY <1>1, <1>2, <1>4, <1>5, <2>1 DEF InFlight, Applying
  <2>4. live[r] = x[m0]
    BY <1>3, <1>4, <1>6
  <2>5. Net(m0, live[r], L) = 0
    BY <1>5, <2>4 DEF Net, Units
  <2>6. Net(m0, live'[r], L) = all
    BY <1>5, <1>7, <2>1, <2>4 DEF Net
  <2> QED
    BY <1>1, <1>8, <1>9, <2>1, <2>2, <2>3, <2>5, <2>6
 <1>11. Settles(w, m0)
   BY <1>9, <1>10 DEF Settles
 <1> QED
   BY <1>5, <1>7, <1>9, <1>11, SettlingLedger

LEMMA BackflushLedger ==
    ASSUME TypeInv, TypeInv', WorkInv, LedgerKept, NEW w \in Worker, Backflush(w)
    PROVE  LedgerKept'
 <1>1. PICK t, x : t = txn[w] /\ x = Mine(w)
   OBVIOUS
 <1>2. t.pc = "backflush"
   BY <1>1 DEF Backflush, At
 <1>3. /\ WorkOK(t, x, Head(w), Base(w)) /\ DOMAIN x = MovesOf(t.pick)
       /\ x \in [MovesOf(t.pick) -> MoveVersion]
       /\ \A m \in MovesOf(t.pick) : live[MoveRow(m)] = x[m] /\ m \in Move
   BY <1>1, <1>2, WorkAt DEF OfPicking
 <1>4. \E d : \E u \in txn[w].todo :
          /\ u \in Transfer(Move)
          /\ Write(w, [r \in {MoveRow(u.move)} |->
                 [live[r] EXCEPT !.quantity = @ + u.qty, !.state = "done"]])
          /\ TxnOK(d) /\ txn' = [txn EXCEPT ![w] = d]
          /\ d.pc = ApplyPc(u) /\ d.pick = txn[w].pick
          /\ d.todo = txn[w].todo \ {u} /\ d.cur = u
   BY BackflushEffect
 <1>5. PICK d : \E u \in txn[w].todo :
          /\ u \in Transfer(Move)
          /\ Write(w, [r \in {MoveRow(u.move)} |->
                 [live[r] EXCEPT !.quantity = @ + u.qty, !.state = "done"]])
          /\ txn' = [txn EXCEPT ![w] = d] /\ d.pc = ApplyPc(u) /\ d.cur = u
   BY Zenon, <1>4
 <1>6. PICK u \in t.todo :
          /\ u \in Transfer(Move)
          /\ Write(w, [r \in {MoveRow(u.move)} |->
                 [live[r] EXCEPT !.quantity = @ + u.qty, !.state = "done"]])
          /\ txn' = [txn EXCEPT ![w] = d] /\ d.pc = ApplyPc(u) /\ d.cur = u
   BY Zenon, <1>1, <1>5
 <1>7. PICK m0, r : m0 = u.move /\ r = MoveRow(m0)
   OBVIOUS
 <1>8. /\ u.prod = product[m0] /\ u.src = source[m0] /\ u.dest = x[m0].dest
       /\ m0 \in DOMAIN x /\ m0 \in Move /\ IsComponent(m0) /\ u.qty \in Nat
       /\ x[m0] \in MoveVersion
  <2>1. Backflushing(t)
    BY <1>2 DEF Backflushing
  <2> QED
    BY <1>3, <1>6, <1>7, <2>1 DEF WorkOK, KnowsTodo, Transfer
 <1>9. /\ WritesOnly(w, {r}) /\ Free(w, r) /\ lock'[r] = w
       /\ live'[r].quantity = live[r].quantity + u.qty /\ live'[r].dest = live[r].dest
   BY <1>6, <1>7, BackflushRow
 <1>10. txn'[w] = d
   BY <1>6, SetTxnTo
 <1>11. AppliedPc(u) = "backflush"
   BY <1>7, <1>8, TransferAssumption DEF AppliedPc
 <1>12. d.pc # "in"
   BY <1>6, <1>11, PcsAfter
 <1>13. /\ QuantsRest(w) /\ OthersStay(w)
        /\ \A m \in Move : m # m0 => Visible(w, MoveRow(m))' = Visible(w, MoveRow(m))
        /\ Visible(w, MoveRow(m0))' = live'[r] /\ Visible(w, MoveRow(m0)) = live[r]
  <2>1. txn' = [txn EXCEPT ![w] = d] /\ txn[w].pc # "in"
    BY <1>1, <1>2, <1>6
  <2>2. WritesOnly(w, {MoveRow(m0)}) /\ Free(w, MoveRow(m0)) /\ lock'[MoveRow(m0)] = w
    BY <1>7, <1>9
  <2>3. m0 \in Move
    BY <1>8
  <2> QED
    BY ONLY TypeInv, w \in Worker, <1>7, <1>12, <2>1, <2>2, <2>3, OneMoveWritten
 <1>14. ASSUME NEW p \in Product, NEW L \in Region
        PROVE  IF p = product[m0]
               THEN Net(m0, Visible(w, MoveRow(m0))', L) + InFlight(txn'[w], p, L)
                      = Net(m0, Visible(w, MoveRow(m0)), L) + InFlight(txn[w], p, L)
               ELSE InFlight(txn'[w], p, L) = InFlight(txn[w], p, L)
  <2>1. PICK all \in Int : all = Units(L, u.src, u.dest, u.qty)
    BY <1>8 DEF Units
  <2>2. InFlight(t, p, L) = 0
    BY <1>2 DEF InFlight, Applying
  <2>3. InFlight(d, p, L) = (IF p = product[m0] THEN 0 - all ELSE 0)
   <3>1. CASE d.pc = "out"
    <4>1. Backflushing(d)
      BY <1>6, <1>7, <1>8, <3>1 DEF Backflushing, Applying
    <4> QED
      BY <1>6, <1>8, <2>1, <3>1, <4>1 DEF InFlight, Applying
   <3>2. CASE d.pc = "backflush" /\ (u.qty = 0 \/ u.src = u.dest)
    <4>1. all = 0
      BY <1>8, <2>1, <3>2 DEF Units
    <4>2. InFlight(d, p, L) = 0
      BY <3>2 DEF InFlight, Applying
    <4> QED
      BY <4>1, <4>2
   <3> QED
     BY <1>6, <1>11, <3>1, <3>2 DEF ApplyPc
  <2>4. live[r] = x[m0]
    BY <1>3, <1>7, <1>8
  <2>5. PICK q, a, b \in Int : /\ q = x[m0].quantity
                               /\ a = Net(m0, live[r], L)
                               /\ b = Net(m0, live'[r], L)
   <3>1. x[m0].quantity \in Int /\ live'[r].quantity \in Int
     BY <1>8, <1>9, <2>4 DEF MoveVersion
   <3> QED
     BY <2>4, <3>1 DEF Net, Units
  <2>6. b = a + all
   <3>1. PICK n \in Int : n = u.qty
     BY <1>8
   <3>2. /\ a = (IF x[m0].dest \in L THEN q ELSE 0) - (IF source[m0] \in L THEN q ELSE 0)
         /\ all = (IF x[m0].dest \in L THEN n ELSE 0) - (IF source[m0] \in L THEN n ELSE 0)
         /\ b = (IF x[m0].dest \in L THEN q + n ELSE 0)
                  - (IF source[m0] \in L THEN q + n ELSE 0)
     BY <1>8, <1>9, <2>1, <2>4, <2>5, <3>1 DEF Net, Units
   <3> QED
     BY ONLY q \in Int, n \in Int, <3>2
  <2> QED
    BY <1>1, <1>10, <1>13, <2>1, <2>2, <2>3, <2>5, <2>6
 <1>15. Settles(w, m0)
   BY <1>13, <1>14 DEF Settles
 <1> QED
   BY <1>8, <1>9, <1>13, <1>15, SettlingLedger

\* What the others have changed stays theirs when w ends.
LEMMA EndsElsewhere ==
    ASSUME TypeInv, TypeInv', NEW w \in Worker, Ends(w), NEW v \in Worker, v # w,
           NEW p \in Product, NEW L \in Region
    PROVE  /\ PendingQtyOf(v, p, L)' = PendingQtyOf(v, p, L)
           /\ PendingBrought(v, p, L)' = PendingBrought(v, p, L)
 <1>1. NoTxn # v
   BY NoTxnAssumption
 <1>2. ASSUME NEW l \in L PROVE PendingQty(v, p, l)' = PendingQty(v, p, l)
  <2>1. PICK r : r = QuantRow(p, l) /\ r \in Row
    BY RowsIn DEF Region
  <2> QED
    BY <1>1, <2>1, EndedRow DEF PendingQty
 <1>3. ASSUME NEW m \in OfProduct(p)
       PROVE  Net(m, Visible(v, MoveRow(m))', L) - Net(m, committed'[MoveRow(m)], L)
                 = Net(m, Visible(v, MoveRow(m)), L) - Net(m, committed[MoveRow(m)], L)
  <2>1. PICK r : r = MoveRow(m) /\ r \in Row
    BY RowsIn DEF OfProduct
  <2>2. CASE lock[r] = v
   <3>1. live'[r] = live[r] /\ lock'[r] = lock[r] /\ committed'[r] = committed[r]
     BY <2>1, <2>2, EndedRow
   <3> QED
     BY <2>1, <2>2, <3>1 DEF Visible
  <2>3. CASE lock[r] # v
   <3>1. lock'[r] # v
     BY <1>1, <2>1, <2>3, EndedRow
   <3>2. committed[r] \in MoveVersion /\ committed'[r] \in MoveVersion
     BY <2>1 DEF TypeInv, DbTyped, VersionOK, OfProduct
   <3>3. Net(m, committed[r], L) \in Int /\ Net(m, committed'[r], L) \in Int
     BY <3>2, NetType
   <3> QED
     BY <2>1, <2>3, <3>1, <3>3 DEF Visible
  <2> QED
    BY <2>2, <2>3
 <1>4. PICK f : f = PendingBrought(v, p, L)'
   OBVIOUS
 <1>5. f = [m \in OfProduct(p) |->
              Net(m, Visible(v, MoveRow(m))', L) - Net(m, committed'[MoveRow(m)], L)]
   BY <1>4 DEF PendingBrought, Net, OfProduct
 <1> QED
   BY <1>2, <1>3, <1>4, <1>5 DEF PendingQtyOf, PendingBrought

\* Nothing of w is pending once it has ended.
LEMMA EndsSettled ==
    ASSUME TypeInv, TypeInv', NEW w \in Worker, Ends(w), NEW p \in Product, NEW L \in Region
    PROVE  /\ SumFunction(PendingQtyOf(w, p, L)') = 0
           /\ SumFunction(PendingBrought(w, p, L)') = 0
           /\ InFlight(txn'[w], p, L) = 0
 <1>1. NoTxn # w /\ IsFiniteSet(L) /\ IsFiniteSet(OfProduct(p))
   BY NoTxnAssumption, LedgerTypes
 <1>2. ASSUME NEW l \in L PROVE PendingQty(w, p, l)' = 0
  <2>1. PICK r : r = QuantRow(p, l) /\ r \in Row
    BY RowsIn DEF Region
  <2>2. lock'[r] # w
    BY <1>1, <2>1, EndedRow
  <2> QED
    BY <2>1, <2>2 DEF PendingQty
 <1>3. ASSUME NEW m \in OfProduct(p)
       PROVE  Net(m, Visible(w, MoveRow(m))', L) - Net(m, committed'[MoveRow(m)], L) = 0
  <2>1. PICK r : r = MoveRow(m) /\ r \in Row
    BY RowsIn DEF OfProduct
  <2>2. lock'[r] # w
    BY <1>1, <2>1, EndedRow
  <2>3. committed'[r] \in MoveVersion
    BY <2>1 DEF TypeInv, DbTyped, VersionOK, OfProduct
  <2>4. Net(m, committed'[r], L) \in Int
    BY <2>3, NetType
  <2> QED
    BY <2>1, <2>2, <2>4 DEF Visible
 <1>4. PICK f, g : f = PendingBrought(w, p, L)' /\ g = PendingQtyOf(w, p, L)'
   OBVIOUS
 <1>5. f = [m \in OfProduct(p) |-> 0]
  <2>1. f = [m \in OfProduct(p) |->
              Net(m, Visible(w, MoveRow(m))', L) - Net(m, committed'[MoveRow(m)], L)]
    BY <1>4 DEF PendingBrought, Net, OfProduct
  <2> QED
    BY <1>3, <2>1
 <1>6. g = [l \in L |-> 0]
   BY <1>2, <1>4 DEF PendingQtyOf
 <1>7. SumFunction(f) = 0 /\ SumFunction(g) = 0
   BY <1>1, <1>5, <1>6, SumFunctionZero
 <1>8. InFlight(txn'[w], p, L) = 0
   BY EndsEffect DEF InFlight, Applying
 <1> QED
   BY <1>4, <1>7, <1>8

\* A commit records what was pending, on both sides of the ledger.
LEMMA EndsRecorded ==
    ASSUME TypeInv, TypeInv', LedgerKept, NEW w \in Worker, Ends(w),
           NEW p \in Product, NEW L \in Region
    PROVE  SumFunction(QtyOf(p, L)') = SumFunction(Brought(p, L)')
 <1>1. PICK q, b, S : q = QtyOf(p, L)' /\ b = Brought(p, L)' /\ S = OfProduct(p)
   OBVIOUS
 <1>2. b = [m \in S |-> Net(m, committed'[MoveRow(m)], L)]
       /\ q = [l \in L |-> committed'[QuantRow(p, l)].qty]
   BY <1>1 DEF Brought, Net, OfProduct, QtyOf
 <1>3. /\ IsFiniteSet(S) /\ S \subseteq Move /\ IsFiniteSet(L) /\ L \subseteq Location
       /\ Brought(p, L) \in [S -> Int] /\ QtyOf(p, L) \in [L -> Int]
       /\ PendingBrought(w, p, L) \in [S -> Int] /\ PendingQtyOf(w, p, L) \in [L -> Int]
   BY <1>1, LedgerTypes
 <1>4. SumFunction(QtyOf(p, L)) = SumFunction(Brought(p, L))
   BY DEF LedgerKept
 <1>5. CASE committed' = committed
   BY <1>1, <1>2, <1>4, <1>5 DEF Brought, QtyOf
 <1>6. CASE /\ \A s \in Row : committed'[s] = Visible(w, s)
            /\ txn[w].pc \in {"commit", "backflush"}
  <2>1. \A l \in L : q[l] = QtyOf(p, L)[l] + PendingQtyOf(w, p, L)[l]
   <3>1. ASSUME NEW l \in L
         PROVE  committed'[QuantRow(p, l)].qty =
                   committed[QuantRow(p, l)].qty + PendingQty(w, p, l)
    <4>1. PICK r : r = QuantRow(p, l) /\ r \in Row
      BY <1>3, RowsIn
    <4>2. live[r].qty \in Int /\ committed[r].qty \in Int
      BY <1>3, <4>1 DEF TypeInv, DbTyped, VersionOK, QuantVersion
    <4> QED
      BY <1>6, <4>1, <4>2 DEF PendingQty, Visible
   <3> QED
     BY <1>2, <3>1 DEF QtyOf, PendingQtyOf
  <2>2. \A m \in S : b[m] = Brought(p, L)[m] + PendingBrought(w, p, L)[m]
   <3>1. ASSUME NEW m \in S
         PROVE  /\ Net(m, committed'[MoveRow(m)], L) = Net(m, Visible(w, MoveRow(m)), L)
                /\ Net(m, Visible(w, MoveRow(m)), L) \in Int
                /\ Net(m, committed[MoveRow(m)], L) \in Int
    <4>1. MoveRow(m) \in Row
      BY <1>3, RowsIn
    <4>2. Visible(w, MoveRow(m)) \in MoveVersion /\ committed[MoveRow(m)] \in MoveVersion
      BY <1>3, VisibleTyped DEF TypeInv, DbTyped, VersionOK
    <4> QED
      BY <1>6, <4>1, <4>2, NetType
   <3> QED
     BY <1>1, <1>2, <3>1 DEF Brought, PendingBrought
  <2>3. q \in [L -> Int] /\ b \in [S -> Int]
   <3>1. /\ \A l \in L : QtyOf(p, L)[l] \in Int /\ PendingQtyOf(w, p, L)[l] \in Int
         /\ \A m \in S : Brought(p, L)[m] \in Int /\ PendingBrought(w, p, L)[m] \in Int
     BY <1>3
   <3>2. /\ \A l \in L : q[l] \in Int
         /\ \A m \in S : b[m] \in Int
     BY <2>1, <2>2, <3>1
   <3> QED
     BY <1>2, <3>2
  <2>4. SumFunction(q) = SumFunction(QtyOf(p, L)) + SumFunction(PendingQtyOf(w, p, L))
    BY <1>3, <2>1, <2>3, SumFunctionPlus
  <2>5. SumFunction(b) = SumFunction(Brought(p, L)) + SumFunction(PendingBrought(w, p, L))
   <3>1. PICK f, g : f = Brought(p, L) /\ g = PendingBrought(w, p, L)
     OBVIOUS
   <3>2. /\ f \in [S -> Int] /\ g \in [S -> Int] /\ b \in [S -> Int] /\ IsFiniteSet(S)
         /\ \A m \in S : b[m] = f[m] + g[m]
     BY <1>3, <2>2, <2>3, <3>1
   <3>3. SumFunction(b) = SumFunction(f) + SumFunction(g)
     BY ONLY <3>2, SumFunctionPlus
   <3> QED
     BY <3>1, <3>3
  <2>6. InFlight(txn[w], p, L) = 0
    BY <1>6 DEF InFlight, Applying
  <2>7. SumFunction(PendingBrought(w, p, L)) \in Int
    BY <1>3, SumFunctionType
  <2>8. SumFunction(PendingQtyOf(w, p, L)) = SumFunction(PendingBrought(w, p, L))
    BY <2>6, <2>7 DEF LedgerKept
  <2> QED
    BY <1>1, <1>4, <2>4, <2>5, <2>8
 <1>7. \/ committed' = committed
       \/ /\ \A s \in Row : committed'[s] = Visible(w, s)
          /\ txn[w].pc \in {"commit", "backflush"}
   BY EndedRow, RowsIn DEF Ends, CommitTxn, RollbackTxn
 <1> QED
   BY <1>5, <1>6, <1>7

\* A COMMIT or ROLLBACK ends no request with a move in flight.
LEMMA EndsLedger ==
    ASSUME TypeInv, TypeInv', LedgerKept, NEW w \in Worker, Ends(w)
    PROVE  LedgerKept'
 <1>1. ASSUME NEW p \in Product, NEW L \in Region, NEW v \in Worker
       PROVE  SumFunction(PendingQtyOf(v, p, L)') =
                 SumFunction(PendingBrought(v, p, L)') + InFlight(txn'[v], p, L)
  <2>1. CASE v = w
   <3>1. PICK z \in Int : z = 0
     OBVIOUS
   <3> QED
     BY <2>1, <3>1, EndsSettled
  <2>2. CASE v # w
   <3>1. txn'[v] = txn[v]
     BY <2>2, EndsEffect DEF OthersStay
   <3>2. /\ PendingQtyOf(v, p, L)' = PendingQtyOf(v, p, L)
         /\ PendingBrought(v, p, L)' = PendingBrought(v, p, L)
     BY <2>2, EndsElsewhere
   <3> QED
     BY <3>1, <3>2 DEF LedgerKept
  <2> QED
    BY <2>1, <2>2
 <1>2. ASSUME NEW p \in Product, NEW L \in Region
       PROVE  SumFunction(QtyOf(p, L)') = SumFunction(Brought(p, L)')
   BY EndsRecorded
 <1>3. \A v \in Worker : \A p, L : InFlight(txn[v], p, L)' = InFlight(txn'[v], p, L)
   BY DEF InFlight, Backflushing, Applying, Units
 <1> QED
   BY <1>1, <1>2, <1>3 DEF LedgerKept, Region, Own

\* LedgerKept after every step.
LEMMA StepLedger ==
    ASSUME TypeInv, WorkInv, LedgerKept, NEW w \in Worker, Steps(w)
    PROVE  LedgerKept'
 <1>1. TypeInv'
   BY StepKeepsTypes
 <1>2. CASE Ends(w)
   BY <1>1, <1>2, EndsLedger
 <1>3. CASE ApplyOut(w) \/ ApplyIn(w)
   BY <1>3, AppliedLedger
 <1>4. CASE MoveDone(w) \/ Backflush(w)
   BY <1>1, <1>4, MoveDoneLedger, BackflushLedger
 <1>5. ASSUME NEW R, WritesOnly(w, R), MovesRest(w), FlightsRest(w), QtyKept(w)
       PROVE  LedgerKept'
  <2>1. BroughtRests(w)
    BY <1>5, BroughtRestsIf DEF WritesOnly
  <2>2. QuantsRest(w) /\ OthersStay(w)
    BY <1>5, QuantsRestKept DEF QtyKept
  <2> QED
    BY <1>5, <2>1, <2>2, RestingLedger
 <1>6. \/ \E R : WritesOnly(w, R) /\ MovesRest(w)
       \/ MoveDone(w) \/ Backflush(w) \/ Ends(w)
   BY StepMoves
 <1>7. \/ FlightsRest(w) \/ ApplyOut(w) \/ ApplyIn(w) \/ MoveDone(w) \/ Backflush(w)
       \/ Ends(w)
   BY StepFlights
 <1>8. QtyKept(w) \/ ApplyOut(w) \/ ApplyIn(w) \/ Ends(w)
   BY QuantStep
 <1> QED
   BY Zenon, <1>2, <1>3, <1>4, <1>5, <1>6, <1>7, <1>8

\* The stock counted at the start and its counterpart cancel out.
LEMMA CountedBalances ==
    ASSUME NEW S, IsFiniteSet(S), NEW a \in S, NEW b \in S, a # b, NEW n \in Int, NEW f,
           f = [x \in S |-> IF x = a THEN n ELSE IF x = b THEN 0 - n ELSE 0]
    PROVE  SumFunction(f) = 0
 <1>1. PICK z, g : z = [x \in S |-> 0] /\ g = [x \in S |-> IF x = a THEN n ELSE 0]
   OBVIOUS
 <1>2. z \in [S -> Int] /\ g \in [S -> Int] /\ f \in [S -> Int]
   BY <1>1
 <1>3. SumFunction(z) = 0
   BY <1>1, <1>2, SumFunctionZero
 <1>4. SumFunction(g) = SumFunction(z) + g[a] - z[a]
  <2>1. \A y \in S : y # a => g[y] = z[y]
    BY <1>1
  <2> QED
    BY <1>2, <2>1, SumFunctionUpdate
 <1>5. SumFunction(f) = SumFunction(g) + f[b] - g[b]
  <2>1. \A y \in S : y # b => f[y] = g[y]
    BY <1>1
  <2> QED
    BY <1>2, <2>1, SumFunctionUpdate
 <1>6. g[a] = n /\ z[a] = 0 /\ f[b] = 0 - n /\ g[b] = 0
   BY <1>1
 <1> QED
   BY <1>3, <1>4, <1>5, <1>6

\* LedgerKept at the start: nothing is done, nothing has moved.
LEMMA InitLedger ==
    ASSUME Init
    PROVE  LedgerKept
 <1>1. TypeInv
   BY InitTyped
 <1>2. /\ \A r \in Row : lock[r] = NoTxn /\ NoTxn \notin Worker
       /\ \A w \in Worker : txn[w].pc = "idle"
   BY NoTxnAssumption DEF Init, Idle
 <1>3. ASSUME NEW p \in Product, NEW L \in Region
       PROVE  /\ SumFunction(QtyOf(p, L)) = SumFunction(Brought(p, L))
              /\ \A w \in Worker : SumFunction(PendingQtyOf(w, p, L)) =
                                      SumFunction(PendingBrought(w, p, L)) + InFlight(txn[w], p, L)
  <2>1. IsFiniteSet(L) /\ L \subseteq Location /\ IsFiniteSet(OfProduct(p))
    BY <1>1, LedgerTypes
  <2>2. SumFunction(Brought(p, L)) = 0
   <3>1. ASSUME NEW m \in OfProduct(p) PROVE Net(m, committed[MoveRow(m)], L) = 0
    <4>1. committed[MoveRow(m)] =
            [state |-> IF IsComponent(m) THEN "absent" ELSE "draft",
             reserved |-> 0, dest |-> planned[m], quantity |-> 0]
      BY InitRows DEF OfProduct
    <4>2. committed[MoveRow(m)].quantity = 0
      BY <4>1
    <4> QED
      BY <4>2 DEF Net, Units
   <3>2. Brought(p, L) = [m \in OfProduct(p) |-> 0]
     BY <3>1 DEF Brought
   <3> QED
     BY <2>1, <3>2, SumFunctionZero
  <2>3. SumFunction(QtyOf(p, L)) = 0
   <3>1. PICK f : f = QtyOf(p, L)
     OBVIOUS
   <3>2. f = [l \in L |-> IF l = StockLoc THEN onHand[p]
                          ELSE IF l = InventoryLoc THEN 0 - onHand[p] ELSE 0]
    <4>1. ASSUME NEW l \in L
          PROVE  committed[QuantRow(p, l)].qty =
                    (IF l = StockLoc THEN onHand[p]
                     ELSE IF l = InventoryLoc THEN 0 - onHand[p] ELSE 0)
     <5>1. PICK n : n = IF l = StockLoc THEN onHand[p]
                        ELSE IF l = InventoryLoc THEN 0 - onHand[p] ELSE 0
       OBVIOUS
     <5>2. committed[QuantRow(p, l)] = [qty |-> n, res |-> 0]
       BY <2>1, <5>1, InitRows
     <5> QED
       BY <5>1, <5>2
    <4> QED
      BY <3>1, <4>1 DEF QtyOf
   <3>3. onHand[p] \in Int /\ StockLoc # InventoryLoc /\ {StockLoc, InventoryLoc} \subseteq Own
     BY TransferAssumption DEF Own
   <3>4. CASE Own \subseteq L
    <4>1. StockLoc \in L /\ InventoryLoc \in L
      BY <3>3, <3>4
    <4> QED
      BY <2>1, <3>1, <3>2, <3>3, <4>1, CountedBalances
   <3>5. CASE Own \cap L = {}
    <4>1. \A l \in L : l # StockLoc /\ l # InventoryLoc
      BY <3>3, <3>5
    <4>2. f = [l \in L |-> 0]
      BY <3>2, <4>1
    <4> QED
      BY <2>1, <3>1, <4>2, SumFunctionZero
   <3> QED
     BY <3>4, <3>5 DEF Region
  <2>4. ASSUME NEW w \in Worker
        PROVE  /\ SumFunction(PendingQtyOf(w, p, L)) = 0
               /\ SumFunction(PendingBrought(w, p, L)) = 0
               /\ InFlight(txn[w], p, L) = 0
   <3>1. PendingQtyOf(w, p, L) = [l \in L |-> 0]
     BY <1>2, <2>1, RowsIn DEF PendingQtyOf, PendingQty
   <3>2. ASSUME NEW m \in OfProduct(p)
         PROVE  Net(m, Visible(w, MoveRow(m)), L) - Net(m, committed[MoveRow(m)], L) = 0
    <4>1. PICK r : r = MoveRow(m) /\ r \in Row
      BY RowsIn DEF OfProduct
    <4>2. Visible(w, r) = committed[r]
      BY <1>2, <4>1 DEF Visible
    <4>3. Net(m, committed[r], L) \in Int
      BY <1>1, <4>1, NetType DEF TypeInv, DbTyped, VersionOK, OfProduct
    <4> QED
      BY <4>1, <4>2, <4>3
   <3>3. PendingBrought(w, p, L) = [m \in OfProduct(p) |-> 0]
     BY <3>2 DEF PendingBrought
   <3>4. InFlight(txn[w], p, L) = 0
     BY <1>2 DEF InFlight, Applying
   <3> QED
     BY <2>1, <3>1, <3>3, <3>4, SumFunctionZero
  <2>5. PICK z \in Int : z = 0
    OBVIOUS
  <2> QED
    BY <2>2, <2>3, <2>4, <2>5
 <1> QED
   BY <1>3 DEF LedgerKept

LEMMA QuietLedger ==
    ASSUME LedgerKept, UNCHANGED vars
    PROVE  LedgerKept'
 <1>1. committed' = committed /\ live' = live /\ lock' = lock /\ txn' = txn
   BY DEF vars, dbVars
 <1>2. \A p, L : /\ QtyOf(p, L)' = QtyOf(p, L) /\ Brought(p, L)' = Brought(p, L)
                 /\ \A w : /\ PendingQtyOf(w, p, L)' = PendingQtyOf(w, p, L)
                           /\ PendingBrought(w, p, L)' = PendingBrought(w, p, L)
                           /\ InFlight(txn[w], p, L)' = InFlight(txn[w], p, L)
   BY <1>1 DEF QtyOf, Brought, Net, OfProduct, PendingQtyOf, PendingQty, PendingBrought,
               Visible, InFlight, Backflushing
 <1> QED
   BY <1>2 DEF LedgerKept, Region, Own

\* What was done of the moves in X, over all the moves of the product.
LEMMA DoneOf ==
    ASSUME TypeInv, WorkInv, NEW p \in Product, NEW X \in SUBSET Move, NEW g,
           g = [m \in OfProduct(p) |-> IF m \in X THEN committed[MoveRow(m)].quantity ELSE 0]
    PROVE  /\ DoneUnits({m \in X : product[m] = p}) = SumFunction(g)
           /\ g \in [OfProduct(p) -> Int]
 <1>1. PICK T : T = {n \in {m \in X : product[m] = p} : MoveState(n) = "done"}
   OBVIOUS
 <1>2. PICK f : f = [m \in T |-> committed[MoveRow(m)].quantity]
   OBVIOUS
 <1>3. IsFiniteSet(OfProduct(p)) /\ T \in SUBSET OfProduct(p)
   BY <1>1, FS_Subset, TransferAssumption DEF OfProduct
 <1>4. ASSUME NEW m \in OfProduct(p)
       PROVE  /\ committed[MoveRow(m)].quantity \in Int
              /\ MoveState(m) # "done" => committed[MoveRow(m)].quantity = 0
  <2>1. m \in MovesOf(picking[m]) /\ picking[m] \in Picking
    BY TransferAssumption DEF MovesOf, OfProduct
  <2>2. RowOK(m, Saved(picking[m])[m])
    BY <2>1 DEF WorkInv, RowsOK, Saved
  <2>3. RowOK(m, committed[MoveRow(m)])
    BY <2>1, <2>2 DEF Saved
  <2> QED
    BY <2>3 DEF RowOK, MoveState, TypeInv, DbTyped, VersionOK, MoveVersion, OfProduct
 <1>5. \A m \in T : f[m] \in Int /\ f[m] = g[m]
   BY <1>1, <1>2, <1>3, <1>4
 <1>6. \A m \in OfProduct(p) : m \notin T => g[m] = 0
   BY <1>1, <1>4 DEF OfProduct
 <1>7. SumFunctionOnSet(f, T) = SumFunctionOnSet(g, OfProduct(p))
   BY <1>3, <1>5, <1>6, SumSupport
 <1> QED
   BY <1>1, <1>2, <1>4, <1>7 DEF DoneUnits, SumFunction

\* LedgerKept implies the property for each stock location.
LEMMA LedgerOf ==
    ASSUME TypeInv, WorkInv, LedgerKept, NEW p \in Product, NEW L \in Region
    PROVE  SumFunction(QtyOf(p, L)) =
              DoneUnits({m \in {n \in Move : committed[MoveRow(n)].dest \in L} : product[m] = p})
              - DoneUnits({m \in {n \in Move : source[n] \in L} : product[m] = p})
 <1>1. PICK X, Y : /\ X = {n \in Move : committed[MoveRow(n)].dest \in L}
                   /\ Y = {n \in Move : source[n] \in L}
   OBVIOUS
 <1>2. PICK S, b, f, g :
          /\ S = OfProduct(p) /\ b = Brought(p, L)
          /\ f = [m \in S |-> IF m \in X THEN committed[MoveRow(m)].quantity ELSE 0]
          /\ g = [m \in S |-> IF m \in Y THEN committed[MoveRow(m)].quantity ELSE 0]
   OBVIOUS
 <1>3. /\ DoneUnits({m \in X : product[m] = p}) = SumFunction(f) /\ f \in [S -> Int]
       /\ DoneUnits({m \in Y : product[m] = p}) = SumFunction(g) /\ g \in [S -> Int]
  <2>1. X \in SUBSET Move /\ Y \in SUBSET Move
    BY <1>1
  <2>2. /\ f = [m \in OfProduct(p) |-> IF m \in X THEN committed[MoveRow(m)].quantity ELSE 0]
        /\ g = [m \in OfProduct(p) |-> IF m \in Y THEN committed[MoveRow(m)].quantity ELSE 0]
    BY <1>2
  <2>3. DoneUnits({m \in X : product[m] = p}) = SumFunction(f) /\ f \in [OfProduct(p) -> Int]
    BY ONLY TypeInv, WorkInv, p \in Product, <2>1, <2>2, DoneOf
  <2>4. DoneUnits({m \in Y : product[m] = p}) = SumFunction(g) /\ g \in [OfProduct(p) -> Int]
    BY ONLY TypeInv, WorkInv, p \in Product, <2>1, <2>2, DoneOf
  <2> QED
    BY <1>2, <2>3, <2>4
 <1>4. IsFiniteSet(S) /\ S \subseteq Move /\ b \in [S -> Int]
   BY <1>2, LedgerTypes
 <1>5. \A m \in S : f[m] = b[m] + g[m]
  <2>1. ASSUME NEW m \in S PROVE f[m] = b[m] + g[m]
   <3>1. PICK q \in Int : q = committed[MoveRow(m)].quantity
     BY <1>4 DEF TypeInv, DbTyped, VersionOK, MoveVersion
   <3>2. /\ f[m] = (IF committed[MoveRow(m)].dest \in L THEN q ELSE 0)
         /\ g[m] = (IF source[m] \in L THEN q ELSE 0)
     BY <1>1, <1>2, <1>4, <3>1
   <3>3. b[m] = (IF committed[MoveRow(m)].dest \in L THEN q ELSE 0)
                - (IF source[m] \in L THEN q ELSE 0)
     BY <1>2, <3>1 DEF Brought, Net, Units
   <3> QED
     BY <3>1, <3>2, <3>3
  <2> QED
    BY <2>1
 <1>6. SumFunction(f) = SumFunction(b) + SumFunction(g)
   BY ONLY <1>3, <1>4, <1>5, SumFunctionPlus
 <1>7. SumFunction(b) \in Int /\ SumFunction(g) \in Int
   BY <1>3, <1>4, SumFunctionType
 <1>8. SumFunction(QtyOf(p, L)) = SumFunction(b)
   BY <1>2 DEF LedgerKept
 <1> QED
   BY <1>1, <1>3, <1>6, <1>7, <1>8

LEMMA LedgerShows ==
    ASSUME TypeInv, WorkInv, LedgerKept
    PROVE  LedgerMatchesMoves
 <1>1. ASSUME NEW p \in Product
       PROVE  OnRecord(p, Own) =
                DoneUnits({m \in {n \in Move : committed[MoveRow(n)].dest \in Own} : product[m] = p})
                - DoneUnits({m \in {n \in Move : source[n] \in Own} : product[m] = p})
  <2>1. Own \in Region
    BY TransferAssumption DEF Region, Own
  <2> QED
    BY <2>1, LedgerOf DEF OnRecord, QtyOf, Quant
 <1>2. ASSUME NEW p \in Product, NEW l \in Location \ Own
       PROVE  Quant(p, l).qty =
                DoneUnits({m \in {n \in Move : committed[MoveRow(n)].dest \in {l}} : product[m] = p})
                - DoneUnits({m \in {n \in Move : source[n] \in {l}} : product[m] = p})
  <2>1. {l} \in Region
    BY DEF Region
  <2>2. SumFunction(QtyOf(p, {l})) = Quant(p, l).qty
   <3>1. PICK f, z : f = QtyOf(p, {l}) /\ z = [x \in {l} |-> 0]
     OBVIOUS
   <3>2. /\ f \in [{l} -> Int] /\ z \in [{l} -> Int] /\ IsFiniteSet({l}) /\ l \in {l}
         /\ \A y \in {l} : y # l => f[y] = z[y]
     BY <2>1, <3>1, LedgerTypes
   <3>3. SumFunction(f) = SumFunction(z) + f[l] - z[l]
     BY ONLY <3>2, SumFunctionUpdate
   <3>4. SumFunction(z) = 0
     BY <3>1, <3>2, SumFunctionZero
   <3>5. f[l] = Quant(p, l).qty /\ f[l] \in Int /\ z[l] = 0
     BY <3>1, <3>2 DEF QtyOf, Quant
   <3> QED
     BY <3>1, <3>3, <3>4, <3>5
  <2> QED
    BY <2>1, <2>2, LedgerOf
 <1> QED
   BY <1>1, <1>2 DEF LedgerMatchesMoves, Own

\* The quants are the done moves, each applied exactly once: with one request
\* at a time on a transfer, no abort, putaway, backflush or inventory count ever
\* makes what the quants hold differ from what the done moves brought and took.
THEOREM LedgerMatches ==
    ASSUME OneRequestPerPicking
    PROVE  Spec => []LedgerMatchesMoves
 <1>1. TypeInv /\ WorkInv /\ LedgerKept => LedgerMatchesMoves
   BY LedgerShows
 <1>2. Init => LedgerKept
   BY InitLedger
 <1>3. TypeInv /\ WorkInv /\ LedgerKept /\ [Next]_vars => LedgerKept'
   BY StepLedger, QuietLedger, NextIsAStep
 <1>4. Spec => []TypeInv
   BY TypesHold
 <1>5. Spec => []WorkInv
   BY WorkHolds
 <1> QED
   BY <1>1, <1>2, <1>3, <1>4, <1>5, PTL DEF Spec
=============================================================================
