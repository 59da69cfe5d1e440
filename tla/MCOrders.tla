------------------------------ MODULE MCOrders ------------------------------
(* A sales order of two lines and a purchase order of one that one person   *)
(* works on at a time, a sales order of one line that two people edit at    *)
(* once, and one of no lines that two people confirm, cancel and bill.      *)
EXTENDS Orders, TLC

CONSTANTS so, po, shared, both, s1, s2, p1, x1, w1, w2

WorkerSymmetry == Permutations(Worker)

MCKind == [o \in Order |-> IF o = po THEN "purchase" ELSE "sale"]
MCOrderOf == [l \in Line |->
    CASE l \in {s1, s2} -> so [] l = p1 -> po [] l = x1 -> shared]

\* A new line holds one piece at a price of 1; a write changes one of the two,
\* or sends both as the forms do.
MCTyped == {[qty |-> 1, price |-> 1]}
Whole == {[qty |-> 2, price |-> 1]}
Partial == {[qty |-> 2, price |-> 0], [qty |-> 0, price |-> 2]}
MCSent == [o \in Order |-> IF o = shared THEN Partial ELSE Whole]

MCExclusive == {so, po}
MCMaxInvoices == [o \in Order |->
    CASE o = shared -> 0 [] o = both -> 1 [] OTHER -> 2]

\* The orders share no row but the sequence: a behaviour works on one of them.
Untouched(o) ==
    /\ committed[OrderRow(o)] = [state |-> "draft", status |-> "nothing", total |-> 0]
    /\ \A l \in Line : orderOf[l] = o => ~committed[LineRow(l)].present
    /\ \A w \in Worker : call[w].order # o
OneOrder == \E o \in Order : \A p \in Order \ {o} : Untouched(p)
=============================================================================
