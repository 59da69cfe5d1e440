-------------------------------- MODULE Leave --------------------------------
(***************************************************************************)
(* Time off: leave requests and the allocations they are taken from,       *)
(* modules/hr/HrLeave.cpp, with the generic form of web/static/src/app.js, *)
(* which saves the whole record it has loaded, the state included.  One    *)
(* step is one UPDATE or the SELECTs before it; create and write of a      *)
(* leave recount its days in a transaction of their own.                   *)
(***************************************************************************)
EXTENDS ReadCommitted, Integers, Sequences, FiniteSets, Functions

CONSTANTS Request, Allocation, \* the ids of hr_leave and hr_leave_allocation
          employee, type,      \* of each leave and allocation
          RequiresAllocation,  \* the types with a ceiling
          Spans,               \* the dates a request may ask for: sets of [from, to]
          WorkDays,            \* the dates that are no weekend and no holiday
          Grants,              \* the numbers of days an allocation may grant
          Batches,             \* the lists of leaves one call may name
          ApprovalsAlone,      \* nothing else of an employee is handled during
                               \* an approval
          CarefulSaves,        \* nobody saves a form that shows an approved record
          Closed               \* the form is not open

ASSUME LeaveAssumption ==
    /\ Row = Request \cup Allocation /\ Request \cap Allocation = {} /\ IsFiniteSet(Row)
    /\ \A l \in Request : Spans[l] \subseteq [from : Nat, to : Nat] /\ \A s \in Spans[l] : s.from <= s.to
    /\ WorkDays \subseteq Nat /\ Grants \subseteq Nat \ {0}
    /\ Batches \subseteq Seq(Request) \ {<<>>}

VARIABLES form, \* the record a generic form shows, as it was read (its
                \* dates, which the user may change, are left out)
          call  \* per worker, the request it serves

vars == <<dbVars, form, call>>

-----------------------------------------------------------------------------
Idle == [pc |-> "idle", method |-> "", ids |-> <<>>, at |-> 1, sent |-> Closed, days |-> 0]
At(w, pc) == call[w].pc = pc
Goto(w, pc) == call' = [call EXCEPT ![w].pc = pc]
Subject(w) == call[w].ids[call[w].at]
Serves(w, e) == \E i \in DOMAIN call[w].ids : employee[call[w].ids[i]] = e

\* The rows of an employee are free for a new request.
Admitted(ids, method) ==
    ApprovalsAlone =>
        \A w \in Worker : \A r \in ids :
            Serves(w, employee[r]) => "approve" \notin {method, call[w].method}

\* HrLeave::workingDays
WorkingDays(span) == Cardinality({d \in WorkDays : span.from <= d /\ d <= span.to})
Overlap(s, t) == s.from <= t.to /\ t.from <= s.to

NoRecord(r) == IF r \in Request THEN [present |-> FALSE, state |-> "draft", days |-> 0, span |-> Closed]
                                ELSE [present |-> FALSE, state |-> "draft", days |-> 0]

\* The rows of an employee (and a type) in one state, as the transaction of w sees them.
Those(w, rows, e, state) ==
    {r \in rows : Visible(w, r).present /\ employee[r] = e /\ Visible(w, r).state = state}
Days(w, rows, e, t) ==
    SumFunctionOnSet([r \in rows |-> Visible(w, r).days],
                     {r \in Those(w, rows, e, "validate") : type[r] = t})

\* A transaction of one UPDATE, INSERT or DELETE, committed at once.
WriteAlone(r, version) ==
    /\ lock[r] = NoTxn
    /\ committed' = [committed EXCEPT ![r] = version]
    /\ live' = [live EXCEPT ![r] = version]
    /\ UNCHANGED lock

Init ==
    /\ committed = [r \in Row |-> NoRecord(r)]
    /\ live = committed
    /\ lock = [r \in Row |-> NoTxn]
    /\ form = Closed
    /\ call = [w \in Worker |-> Idle]

-----------------------------------------------------------------------------
(* the generic form: read, create, write, unlink *)

\* FormView.load
Open(r) ==
    /\ committed[r].present
    /\ form' = [id |-> r, state |-> committed[r].state, days |-> committed[r].days]
    /\ UNCHANGED <<dbVars, call>>

\* handleCreateLeave, its first transaction; state and days are not the client's.
CreateLeave(w, l, span) ==
    /\ call[w] = Idle /\ Admitted({l}, "create")
    /\ ~committed[l].present
    /\ WriteAlone(l, [present |-> TRUE, state |-> "draft", days |-> 0, span |-> span])
    /\ call' = [call EXCEPT ![w] = [Idle EXCEPT !.pc = "recount", !.method = "create", !.ids = <<l>>]]
    /\ UNCHANGED form

\* The states handleWriteLeave does not throw in.
Editable(state) == state \notin {"validate", "refuse"}

\* handleWriteLeave, its first transaction: a leave deleted meanwhile passes.
SaveLeave(w, l, span) ==
    /\ form # Closed /\ form.id = l
    /\ call[w] = Idle /\ Admitted({l}, "write")
    /\ CarefulSaves => form.state # "validate"
    /\ committed[l].present => Editable(committed[l].state)
    /\ call' = [call EXCEPT ![w] = [Idle EXCEPT !.pc = "write", !.method = "write", !.ids = <<l>>,
                                                !.sent = [state |-> form.state, span |-> span],
                                                !.days = form.days]]
    /\ form' = Closed
    /\ UNCHANGED dbVars

\* handleWrite: every field of the form, its state and its number of days among them.
WriteLeave(w) ==
    LET l == Subject(w) IN
    /\ At(w, "write")
    /\ IF committed[l].present
       THEN WriteAlone(l, [live[l] EXCEPT !.state = call[w].sent.state,
                                       !.span = call[w].sent.span, !.days = call[w].days])
       ELSE UNCHANGED dbVars
    /\ call' = [call EXCEPT ![w].pc = "recount", ![w].sent = Closed, ![w].days = 0]
    /\ UNCHANGED form

\* recount_: SELECT of the dates and of the working days, ...
Recount(w) ==
    LET row == committed[Subject(w)] IN
    /\ At(w, "recount")
    /\ call' = [call EXCEPT ![w] = IF row.present
                                   THEN [@ EXCEPT !.pc = "days", !.days = WorkingDays(row.span)]
                                   ELSE Idle]
    /\ UNCHANGED <<dbVars, form>>

\* ... then UPDATE of number_of_days alone.
WriteDays(w) ==
    LET l == Subject(w) IN
    /\ At(w, "days")
    /\ IF committed[l].present
       THEN WriteAlone(l, [live[l] EXCEPT !.days = call[w].days]) ELSE UNCHANGED dbVars
    /\ call' = [call EXCEPT ![w] = Idle]
    /\ UNCHANGED form

\* HrLeaveAllocation has the generic create and write: a new one is a draft, ...
CreateAllocation(a, days) ==
    /\ Admitted({a}, "create")
    /\ ~committed[a].present
    /\ WriteAlone(a, [present |-> TRUE, state |-> "draft", days |-> days])
    /\ UNCHANGED <<form, call>>

\* ... a saved one has the state the form was loaded with.
SaveAllocation(days) ==
    /\ form # Closed /\ form.id \in Allocation
    /\ Admitted({form.id}, "write")
    /\ CarefulSaves => form.state # "validate"
    /\ IF committed[form.id].present
       THEN WriteAlone(form.id, [present |-> TRUE, state |-> form.state, days |-> days])
       ELSE UNCHANGED dbVars
    /\ form' = Closed
    /\ UNCHANGED call

\* unlink asks for no state.
Unlink(r) ==
    /\ Admitted({r}, "unlink")
    /\ committed[r].present
    /\ WriteAlone(r, NoRecord(r))
    /\ UNCHANGED <<form, call>>

-----------------------------------------------------------------------------
(* the workflow: step_ of both view models, and handleApprove of leaves *)

From == [confirm |-> {"draft"}, approve |-> {"confirm"}, refuse |-> {"confirm", "validate"},
         cancel |-> {"draft", "confirm", "validate"}, reset |-> {"confirm", "refuse", "cancel"}]
To == [confirm |-> "confirm", approve |-> "validate", refuse |-> "refuse",
       cancel |-> "cancel", reset |-> "draft"]

\* Mutant: what the call itself has approved is not looked at.
ClashCommitted(w, l) ==
    \E k \in Those(NoTxn, Request \ {l}, employee[l], "validate") :
        Overlap(committed[l].span, committed[k].span)

\* Approved leave of the employee on one of the dates.
Clash(w, l) ==
    \E k \in Those(w, Request \ {l}, employee[l], "validate") :
        Overlap(Visible(w, l).span, Visible(w, k).span)

\* Mutant: an allocation counts before it is approved.
LeftUnapproved(w, e, t) ==
    SumFunctionOnSet([a \in Allocation |-> Visible(w, a).days],
                     {a \in Allocation : employee[a] = e /\ type[a] = t})
    - Days(w, Request, e, t)

\* balanceOf: allocated less taken
Left(w, e, t) == Days(w, Allocation, e, t) - Days(w, Request, e, t)

\* Mutant: leave of no working day can be approved.
ApprovableEmpty(w, l) ==
    /\ ~Clash(w, l)
    /\ type[l] \in RequiresAllocation => Visible(w, l).days <= Left(w, employee[l], type[l])

\* The checks of handleApprove.
Approvable(w, l) ==
    /\ Visible(w, l).days > 0
    /\ ~Clash(w, l)
    /\ type[l] \in RequiresAllocation => Visible(w, l).days <= Left(w, employee[l], type[l])

\* SELECT of a record and the checks; where they fail the call throws.
Passes(w, method, r) ==
    /\ Visible(w, r).present /\ Visible(w, r).state \in From[method]
    /\ method = "approve" /\ r \in Request => Approvable(w, r)

\* One call for several records, in one transaction.
Begin(w, method, ids) ==
    /\ call[w] = Idle /\ Admitted({ids[i] : i \in DOMAIN ids}, method)
    /\ Passes(w, method, Head(ids))
    /\ call' = [call EXCEPT ![w] = [Idle EXCEPT !.pc = "update", !.method = method, !.ids = ids]]
    /\ UNCHANGED <<dbVars, form>>

Check(w) ==
    /\ At(w, "check")
    /\ Passes(w, call[w].method, Subject(w))
    /\ Goto(w, "update")
    /\ UNCHANGED <<dbVars, form>>

\* UPDATE ... SET state WHERE id, whatever the state is by then.
UpdateState(w) ==
    LET c == call[w]
        r == Subject(w)
        hit == {s \in {r} : live[s].present}
    IN /\ At(w, "update")
       /\ Free(w, r)
       /\ Write(w, [s \in hit |-> [live[s] EXCEPT !.state = To[c.method]]])
       /\ call' = IF c.at = Len(c.ids) THEN [call EXCEPT ![w].pc = "commit"]
                                     ELSE [call EXCEPT ![w].pc = "check", ![w].at = @ + 1]
       /\ UNCHANGED form

Commit(w) ==
    /\ At(w, "commit")
    /\ CommitTxn(w)
    /\ call' = [call EXCEPT ![w] = Idle]
    /\ UNCHANGED form

\* An exception, a lost connection, a server that stops.
Abort(w) ==
    /\ call[w] # Idle
    /\ RollbackTxn(w)
    /\ call' = [call EXCEPT ![w] = Idle]
    /\ UNCHANGED form

-----------------------------------------------------------------------------
Editing(w) ==
    \/ \E l \in Request : \E s \in Spans[l] : CreateLeave(w, l, s)
    \/ \E l \in Request : \E s \in Spans[l] : SaveLeave(w, l, s)
    \/ WriteLeave(w) \/ Recount(w) \/ WriteDays(w)

Stepping(w) ==
    \/ \E m \in DOMAIN From, ids \in Batches : Begin(w, m, ids)
    \/ \E m \in {"confirm", "approve", "refuse"}, a \in Allocation : Begin(w, m, <<a>>)
    \/ Check(w) \/ UpdateState(w) \/ Commit(w)

Next ==
    \/ \E w \in Worker : Editing(w) \/ Stepping(w) \/ Abort(w)
    \/ \E r \in Row : Open(r) \/ Unlink(r)
    \/ \E a \in Allocation, n \in Grants : CreateAllocation(a, n)
    \/ \E n \in Grants : SaveAllocation(n)

Spec == Init /\ [][Next]_vars

-----------------------------------------------------------------------------
Approved(r) == committed[r].present /\ committed[r].state = "validate"

\* Rows keep their shape, a held lock belongs to a call in flight, and approved
\* leave takes at least one working day.
TypeOK ==
    /\ \A r \in Row : \A row \in {committed[r], live[r]} :
         row.present \in BOOLEAN /\ row.state \in {"draft", "confirm", "validate", "refuse", "cancel"}
    /\ \A l \in Request : committed[l].present => committed[l].span \in Spans[l]
    /\ \A r \in Row : lock[r] # NoTxn => call[lock[r]].pc \in {"check", "update", "commit"}
    /\ \A l \in Request : Approved(l) => committed[l].days > 0

\* "One person cannot hold two approved leaves over the same dates", whichever
\* calls approve them, one by one or several at once, and whatever is edited,
\* cancelled, reset or deleted in between (handleApprove).
ApprovedNeverOverlap ==
    \A k, l \in Request :
        k # l /\ employee[k] = employee[l] /\ Approved(k) /\ Approved(l)
        => ~Overlap(committed[k].span, committed[l].span)

ApprovedDays(rows, e, t) ==
    SumFunctionOnSet([r \in rows |-> committed[r].days],
                     {r \in rows : employee[r] = e /\ type[r] = t /\ Approved(r)})

\* No approval takes the balance below zero (handleApprove): what was approved
\* before it, with it and by it fits the approved allocations.  Afterwards an
\* allocation may still be refused, edited or deleted.
ApprovalsWithinBalance ==
    [][\A l \in Request :
         ~Approved(l) /\ Approved(l)' /\ type[l] \in RequiresAllocation
         => (ApprovedDays(Request, employee[l], type[l])
               <= ApprovedDays(Allocation, employee[l], type[l]))']_vars
=============================================================================
