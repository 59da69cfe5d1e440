--------------------------- MODULE RentalBilling ---------------------------
(***************************************************************************)
(* RentalBilling::run (modules/rental/RentalBilling.cpp) as the ir.cron    *)
(* thread, the "Generate invoices now" button and the "Create Invoice"     *)
(* button of a contract run it side by side, for one customer, company and *)
(* currency.  The due list is read in a transaction of its own; every      *)
(* group of lines with the same period start is then billed in another.    *)
(*                                                                         *)
(* UNIQUE (contract_line_id, period_start) makes an INSERT wait for a      *)
(* concurrent one of the same key and fail once that has committed.        *)
(***************************************************************************)
EXTENDS ReadCommitted, Integers, Sequences, FiniteSets, Functions

CONSTANTS Line, terms, monthLength, \* see RentalSchedule; terms also has the
                                    \* contract and the end date of a line
          id,          \* the serial id of a line
          Contract,    \* rental_contract rows
          Unscheduled, \* the contracts with billing_period oneoff or ondemand
          Cron,        \* the worker that is the ir.cron thread
          LeadDays,    \* billing_lead_days
          LastDay,     \* bound: the clock stops here
          MaxFailures, \* bound: groups that fail and crashes, together
          NoDate, NoContract

Dates == 0..LastDay

ASSUME BillingAssumption ==
    /\ Row = Line /\ id \in Injection(Line, Nat)
    /\ Cron \in Worker
    /\ LeadDays \in Nat /\ LastDay \in Nat /\ MaxFailures \in Nat
    /\ monthLength \in Nat \ {0}
    /\ NoDate \notin Nat
    /\ \A l \in Line :
          /\ terms[l].contract \in Contract
          /\ terms[l].start \in Nat /\ terms[l].end \in Nat \cup {NoDate}
          /\ terms[l].mode \in {"recurring", "oneoff", "ondemand", "manual"}
          /\ terms[l].unit \in {"day", "month"} /\ terms[l].interval \in Nat \ {0}
          /\ terms[l].anchor \in 1..31
          /\ terms[l].span \in {"month", "dates"}

VARIABLES today,     \* the date of the server
          invoices,  \* the committed draft invoices, one after the other: the
                     \* period start and the lines of each (an account_move
                     \* with its rental_invoice_link rows)
          call,      \* per worker, its run: the start of the group it is at, the
                     \* lines of the group still to do with the dates it read,
                     \* those linked, and the groups that come later
          failures   \* bounded by MaxFailures

vars == <<dbVars, today, invoices, call, failures>>

\* COALESCE(next_period_start, date_start) of a version of line l.
Current(l, version) == IF version.next = NoDate THEN terms[l].start ELSE version.next

\* What the tenancy lines and the invoices say of the schedule.
Schedule == INSTANCE RentalSchedule WITH
    due <- [l \in Line |-> Current(l, committed[l])]

Billed == Schedule!Billed

-----------------------------------------------------------------------------
Idle == [pc |-> "idle", start |-> NoDate, todo |-> <<>>, later |-> {}, lines |-> {}]

Absent == [state |-> "absent", next |-> NoDate]

Init ==
    /\ committed = [l \in Line |-> Absent]
    /\ live = committed
    /\ lock = [l \in Line |-> NoTxn]
    /\ today = 0
    /\ invoices = <<>>
    /\ call = [w \in Worker |-> Idle]
    /\ failures = 0

\* time passes.
Tick ==
    /\ today < LastDay
    /\ today' = today + 1
    /\ UNCHANGED <<dbVars, invoices, call, failures>>

\* One statement of a request of its own, committed at once.
SetRow(l, version) ==
    /\ lock[l] = NoTxn
    /\ committed' = [committed EXCEPT ![l] = version]
    /\ live' = [live EXCEPT ![l] = version]
    /\ UNCHANGED <<lock, today, invoices, call, failures>>

\* A booking or a line of the contract form; a trigger (migration 819) gives a
\* recurring line its first period.
Book(l) ==
    /\ committed[l] = Absent
    /\ SetRow(l, [state |-> IF terms[l].start <= today THEN "active" ELSE "pending",
                  next |-> IF terms[l].mode = "recurring" THEN terms[l].start ELSE NoDate])

\* The operator starts or ends a line on the contract form; nothing else does.
SetState(l, state) ==
    /\ committed[l] # Absent
    /\ committed[l].state # state
    /\ SetRow(l, [committed[l] EXCEPT !.state = state])

-----------------------------------------------------------------------------
(* The due list *)

\* Mutant: only lines that were never billed.
NeverBilled(l) ==
    /\ terms[l].mode = "recurring"
    /\ committed[l].next = terms[l].start
    /\ terms[l].contract \notin Unscheduled

\* What the cron may bill without being asked.
Scheduled(l) ==
    /\ terms[l].mode = "recurring"
    /\ committed[l].next # NoDate
    /\ terms[l].contract \notin Unscheduled

Due(l, contract, asOf) ==
    LET date == Current(l, committed[l]) IN
    /\ committed[l].state = "active"
    /\ IF contract = NoContract THEN Scheduled(l) ELSE terms[l].contract = contract
    /\ date - LeadDays <= asOf
    /\ terms[l].end # NoDate => date <= terms[l].end

\* The groups, one per period start; each line with the date that is read.
DueGroups(contract, asOf) ==
    LET dueLines == {l \in Line : Due(l, contract, asOf)}
        start(l) == Schedule!PeriodStart(l, Current(l, committed[l]))
        group(s) == [l \in {k \in dueLines : start(k) = s} |-> Current(l, committed[l])]
    IN {[start |-> s, todo |-> group(s)] : s \in {start(l) : l \in dueLines}}

\* The loop over a std::map of groups: the one with the first start is next.
FirstOf(groups) ==
    IF groups = {} THEN Idle
    ELSE LET g == CHOOSE g \in groups : \A h \in groups : g.start <= h.start
         IN [pc |-> "link", start |-> g.start, todo |-> g.todo, later |-> groups \ {g},
             lines |-> {}]

Run(w, contract, asOf) ==
    /\ call[w] = Idle
    /\ \E l \in Line : Due(l, contract, asOf)
    /\ call' = [call EXCEPT ![w] = FirstOf(DueGroups(contract, asOf))]
    /\ UNCHANGED <<dbVars, today, invoices, failures>>

\* The ir.cron job bills what is due today.
CronRun == Run(Cron, NoContract, today)

\* "Generate invoices now", with or without a date.
GenerateNow(w, asOf) == w # Cron /\ Run(w, NoContract, asOf)

\* "Create Invoice" on a contract.
CreateInvoice(w, contract) == w # Cron /\ Run(w, contract, today)

-----------------------------------------------------------------------------
(* One transaction per group *)

\* ORDER BY date, id of the due list: k is not before l.
Before(todo, l, k) == todo[l] < todo[k] \/ (todo[l] = todo[k] /\ id[l] <= id[k])

\* The line the loop over a group is at.
LineOf(w) ==
    LET todo == call[w].todo
    IN CHOOSE l \in DOMAIN todo : \A k \in DOMAIN todo : Before(todo, l, k)

At(w, pc) == call[w].pc = pc

\* The next group, whatever became of this one.
NextGroup(w) == call' = [call EXCEPT ![w] = FirstOf(@.later)]

\* Mutant: the link table has no UNIQUE constraint.
LinkAlways(w) ==
    /\ At(w, "link")
    /\ call' = [call EXCEPT ![w].pc = "advance", ![w].lines = @ \cup {LineOf(w)}]
    /\ UNCHANGED <<dbVars, today, invoices, failures>>

\* The draft invoice with its lines, and the link of each: INSERT waits while
\* another transaction has inserted the same key.
InsertLink(w) ==
    LET l == LineOf(w) IN
    /\ At(w, "link")
    /\ <<l, call[w].start>> \notin Billed
    /\ \A v \in Worker \ {w} : ~(l \in call[v].lines /\ call[v].start = call[w].start)
    /\ call' = [call EXCEPT ![w].pc = "advance", ![w].lines = @ \cup {l}]
    /\ UNCHANGED <<dbVars, today, invoices, failures>>

\* A duplicate key rolls the whole group back and counts as skipped.
Duplicate(w) ==
    /\ At(w, "link")
    /\ <<LineOf(w), call[w].start>> \in Billed
    /\ RollbackTxn(w)
    /\ NextGroup(w)
    /\ UNCHANGED <<today, invoices, failures>>

\* UPDATE rental_contract_line: only a one-off keeps its next_period_start.
AdvanceLine(w) ==
    LET l == LineOf(w)
        next == IF terms[l].mode = "oneoff" THEN live[l].next
                ELSE Schedule!NextPeriod(l, Current(l, live[l]))
        todo == Restrict(call[w].todo, DOMAIN call[w].todo \ {l})
    IN /\ At(w, "advance")
       /\ Write(w, [r \in {l} |-> [live[r] EXCEPT !.next = next]])
       /\ call' = [call EXCEPT ![w].todo = todo,
                               ![w].pc = IF DOMAIN todo = {} THEN "commit" ELSE "link"]
       /\ UNCHANGED <<today, invoices, failures>>

CommitGroup(w) ==
    /\ At(w, "commit")
    /\ CommitTxn(w)
    /\ invoices' = Append(invoices, [start |-> call[w].start, lines |-> call[w].lines])
    /\ NextGroup(w)
    /\ UNCHANGED <<today, failures>>

\* Mutant: what was done before the error is kept.
FailHalfway(w) ==
    /\ call[w] # Idle
    /\ failures < MaxFailures
    /\ failures' = failures + 1
    /\ CommitTxn(w)
    /\ NextGroup(w)
    /\ UNCHANGED <<today, invoices>>

\* Any other error (a lost connection, a missing account) rolls the group back
\* and the run goes on.
GroupFails(w) ==
    /\ call[w] # Idle
    /\ failures < MaxFailures
    /\ failures' = failures + 1
    /\ RollbackTxn(w)
    /\ NextGroup(w)
    /\ UNCHANGED <<today, invoices>>

\* The server stops: every run is gone and every transaction rolled back.
Crash ==
    /\ failures < MaxFailures
    /\ failures' = failures + 1
    /\ live' = committed
    /\ lock' = [l \in Line |-> NoTxn]
    /\ call' = [w \in Worker |-> Idle]
    /\ UNCHANGED <<committed, today, invoices>>

-----------------------------------------------------------------------------
RunStep(w) == InsertLink(w) \/ Duplicate(w) \/ AdvanceLine(w) \/ CommitGroup(w)

Next ==
    \/ Tick
    \/ \E l \in Line : Book(l)
    \/ \E l \in Line, state \in {"active", "ended"} : SetState(l, state)
    \/ CronRun
    \/ \E w \in Worker :
          \/ \E asOf \in Dates : GenerateNow(w, asOf)
          \/ \E contract \in Contract : CreateInvoice(w, contract)
          \/ RunStep(w)
          \/ GroupFails(w)
    \/ Crash

\* A run that has started goes on, however often others go first: a statement
\* that waits for a transaction is woken when that one ends.  The cron thread
\* comes round again: its job is rescheduled whether it succeeded or failed
\* (IrCron::markFailure_).
Fairness == WF_vars(CronRun) /\ \A w \in Worker : SF_vars(RunStep(w))

Spec == Init /\ [][Next]_vars /\ Fairness

\* Somebody also keeps pressing "Create Invoice" on every contract.
PressedSpec ==
    /\ Spec
    /\ \A w \in Worker, contract \in Contract : WF_vars(CreateInvoice(w, contract))

-----------------------------------------------------------------------------
\* "UNIQUE (contract_line_id, period_start) makes double-billing impossible even
\* if the cron fires twice, the process restarts mid-run, or someone clicks
\* 'Generate invoices now' twice" (migration 804): no period of a line is on two
\* invoices, not even on two that are alike.
BilledOnce ==
    \A i, j \in DOMAIN invoices :
        i # j /\ invoices[i].start = invoices[j].start
          => invoices[i].lines \cap invoices[j].lines = {}

\* Invoice and advance are one step: no crash, stale due list or failed group
\* skips a period, bills it twice or bills ahead of the line's turn.
ImplementsSchedule == Schedule!Spec

\* The lines the cron bills.
Recurring ==
    {l \in Line : terms[l].mode = "recurring" /\ terms[l].contract \notin Unscheduled}

\* Their period from date on is due.
Waiting(l, date) ==
    /\ terms[l].end # NoDate => date <= terms[l].end
    /\ committed[l] = [state |-> "active", next |-> date]
    /\ date - LeadDays <= today

\* "A failure on one customer must not half-bill another, and must not abort the
\* run": what is due is billed in the end, or its line was stopped, whatever
\* failed, raced or was skipped in between.
DueIsBilled ==
    \A l \in Recurring : \A date \in 0..(LastDay + LeadDays) :
        Waiting(l, date) ~> ~Waiting(l, date)

\* A dated booking that nobody has invoiced yet.
Unbilled(l) ==
    /\ terms[l].mode = "oneoff"
    /\ Due(l, terms[l].contract, today)
    /\ <<l, Schedule!PeriodStart(l, terms[l].start)>> \notin Billed

\* "A dated booking made on the Booking calendar ... Nothing else billed those":
\* Create Invoice, pressed again and again, bills every active booking.
BookingIsBilled == \A l \in Line : Unbilled(l) ~> ~Unbilled(l)
=============================================================================
