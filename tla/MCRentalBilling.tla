-------------------------- MODULE MCRentalBilling --------------------------
(* One customer with two contracts; months of two days.                     *)
EXTENDS RentalBilling, TLC

CONSTANTS locker, yard, hall, c1, c2, cron, desk

MCWorker == {cron, desk}

Terms(contract, start, mode, unit, anchor, span) ==
    [contract |-> contract, start |-> start, end |-> NoDate, mode |-> mode,
     unit |-> unit, interval |-> 1, anchor |-> anchor, span |-> span]

\* A locker billed every day, a yard by whole months that falls into its first group, and
\* a hall booked once, in its second group and on its contract.
MCId == (locker :> 1) @@ (yard :> 2) @@ (hall :> 3)
MCTerms ==
    (locker :> Terms(c1, 0, "recurring", "day", 1, "dates"))
    @@ (yard :> Terms(c2, 1, "recurring", "month", 3, "month"))
    @@ (hall :> [Terms(c1, 1, "oneoff", "day", 1, "dates") EXCEPT !.end = 3])

\* Two bookings of one day on one contract.
BookingId == (hall :> 1) @@ (yard :> 2)
BookingTerms ==
    [l \in {hall, yard} |-> [Terms(c1, 0, "oneoff", "day", 1, "dates") EXCEPT !.end = 1]]
=============================================================================
