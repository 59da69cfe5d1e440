--------------------------- MODULE RentalSchedule ---------------------------
(***************************************************************************)
(* What rental billing promises (modules/rental/RentalBilling.hpp and the  *)
(* comments of migrations 804 and 815): every tenancy line is billed one   *)
(* period after the other, an invoice and the advance to the next period   *)
(* are one step, and a one-off line is billed once.  RentalBilling         *)
(* implements this specification.                                          *)
(*                                                                         *)
(* A date is a number of days; a month has monthLength of them.  An        *)
(* invoice is one of its own, also when another says the same.             *)
(***************************************************************************)
EXTENDS Integers, Sequences

CONSTANTS Line,        \* rental_contract_line rows
          terms,       \* what the operator agreed per line: start, mode, unit,
                       \* interval, anchor, span
          monthLength

VARIABLES due,      \* the date a line is billed from next
          invoices  \* the invoices, in the order they were made: the start of
                    \* the period and the lines of each

vars == <<due, invoices>>

\* The periods billed: the line and the start of every invoice line.
Billed == UNION {invoices[i].lines \X {invoices[i].start} : i \in DOMAIN invoices}

\* rental_next_period(from, anchor, interval, unit); a year is twelve months,
\* a week seven days.
NextPeriod(l, from) ==
    IF terms[l].unit = "day" THEN from + terms[l].interval
    ELSE LET start == ((from \div monthLength) + terms[l].interval) * monthLength
             day == IF terms[l].anchor < monthLength THEN terms[l].anchor ELSE monthLength
         IN start + day - 1

\* Whole-month lines are billed from the 1st of the month the date falls in.
PeriodStart(l, date) ==
    IF terms[l].span = "month" THEN (date \div monthLength) * monthLength ELSE date

-----------------------------------------------------------------------------
Init ==
    /\ due = [l \in Line |-> terms[l].start]
    /\ invoices = <<>>

\* One invoice for the period that starts on date, for the lines L.
Bill(L, date) ==
    /\ \A l \in L : PeriodStart(l, due[l]) = date /\ <<l, date>> \notin Billed
    /\ invoices' = Append(invoices, [start |-> date, lines |-> L])
    /\ due' = [l \in Line |->
          IF l \in L /\ terms[l].mode # "oneoff" THEN NextPeriod(l, due[l]) ELSE due[l]]

Next == \E first \in Line, L \in SUBSET Line :
            first \in L /\ Bill(L, PeriodStart(first, due[first]))

Spec == Init /\ [][Next]_vars
=============================================================================
