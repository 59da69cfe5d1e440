------------------------------- MODULE MCLeave -------------------------------
(* One employee with two requests of annual leave and one allocation.       *)
EXTENDS Leave, TLC

CONSTANTS l1, l2, a, ann, w1, w2

WorkerSymmetry == Permutations(Worker)

MCEmployee == [r \in Row |-> ann]
MCType == [r \in Row |-> "annual"]
MCRequires == {"annual"}

\* The third date is a holiday.  What l2 may ask for shares a date with l1 and
\* takes one working day, or takes too many beside it; a leave whose days were
\* not counted yet takes none.
MCWorkDays == {1, 2, 4, 5}
MCSpans == [l \in Request |-> IF l = l1 THEN {[from |-> 1, to |-> 2]}
                             ELSE {[from |-> 2, to |-> 3], [from |-> 4, to |-> 5]}]
MCGrants == {3}

\* Bound: a form shows l2, whose dates can change, or the allocation.  It is opened
\* beside one call at most, that of the allocation beside none.
FormsBetweenCalls ==
    form # Closed =>
        /\ form.id # l1
        /\ \E w \in Worker : call[w] = Idle
        /\ form.id = a => \A w \in Worker : call[w] = Idle

\* Bound: two calls meet while the allocation is approved or not there.
CallsMeet ==
    Approved(a) \/ ~committed[a].present \/ \E w \in Worker : call[w] = Idle

MCBatches == {<<l1>>, <<l2>>, <<l2, l1>>}
=============================================================================
