---------------------------- MODULE MCProduction ----------------------------
(* Chairs, which a rule reorders and two operations make out of wood, crates *)
(* of wood ordered by hand, and the wood, which is bought.                   *)
EXTENDS Production, TLC

CONSTANTS c1, c2, k1, saw, glue, w1, w2

MCSymmetry == Permutations(Worker) \cup Permutations(Operation)

MCMakes == [o \in Order |-> IF o = k1 THEN "crate" ELSE "chair"]
MCNeeds == [p \in Product |-> [q \in Product |-> IF p # "wood" /\ q = "wood" THEN 1 ELSE 0]]
MCOperations == [p \in Product |-> IF p = "chair" THEN Operation ELSE {}]
MCMethod == [p \in Product |-> CASE p = "wood" -> "average" [] p = "chair" -> "standard" [] p = "crate" -> "fifo"]
FifoWood == [MCMethod EXCEPT !["wood"] = "fifo"]
MCPrice == [p \in Product |-> 1]
MCRule == [p \in Product |-> IF p = "chair" THEN [min |-> 1, max |-> 1, multiple |-> 1] ELSE NoRule]

\* Bound: two documents meet crates, two chairs are made without a crate, and a chair and a
\* crate without a document.
Ordered(o) == live[OrderRow(o)].state # "none"
Focus ==
    /\ documents = 2 => ~Ordered(c1)
    /\ Ordered(c2) => Ordered(c1) /\ ~Ordered(k1)
    /\ Ordered(c1) /\ Ordered(k1) => documents = 0
=============================================================================
