----------------------------- MODULE IrSequence -----------------------------
(***************************************************************************)
(* Document numbering: core/IrSequence.cpp, drawn from by requests that    *)
(* put the number on a document in the same transaction (nextByCode(txn,   *)
(* code)) or take it in a short transaction of its own (nextByCode(code)). *)
(* A row of ReadCommitted is a row of ir_sequence.                         *)
(***************************************************************************)
EXTENDS ReadCommitted, Naturals

CONSTANTS Document,   \* the documents that ask for a number, each once
          ownRow,     \* the row of (code, company) of a document, or NoRow
          sharedRow,  \* the row of (code, NULL) of a document, or NoRow
          NoRow,
          Detached,   \* documents numbered through nextByCode(code)
          policy,     \* reset_policy of a row: "never" or "yearly"
          numberNext, \* number_next of a row before the first draw
          Step,       \* number_increment
          MaxPeriod,  \* bound: calendar years the run goes through
          MaxNumber,  \* bound: a number no request starts beyond
          NoDocument, NoNumber

ASSUME SequenceAssumption ==
    /\ NoRow \notin Row
    /\ NoDocument \notin Document
    /\ Detached \subseteq Document
    /\ ownRow \in [Document -> Row \cup {NoRow}]
    /\ sharedRow \in [Document -> Row \cup {NoRow}]
    /\ policy \in [Row -> {"never", "yearly"}]
    /\ numberNext \in [Row -> Nat \ {0}]
    /\ Step \in Nat \ {0}
    /\ MaxPeriod \in Nat \ {0}
    /\ MaxNumber \in Nat

\* period and year are 0 for a row that never resets: its period key is ""
\* and the seeded prefixes carry %(year)s exactly when the policy resets.
Number == [row : Row, period : Nat, number : Nat, year : Nat]

ASSUME NoNumberAssumption == NoNumber \notin Number

VARIABLES clock,   \* the current year, as std::time(nullptr) reads it
          pc,      \* where each worker's request is
          doc,     \* the document it is numbering
          drawing, \* the number next_() has computed but not yet formatted
          owner,   \* the worker whose open request holds a document
          drawn,   \* the number that request has given the document
          booked   \* the number a committed document carries

callVars == <<pc, doc, drawing>>
docVars  == <<owner, drawn, booked>>
vars     == <<dbVars, clock, callVars, docVars>>

-----------------------------------------------------------------------------
\* The row next_() selects: the company's own, else the company-agnostic one.
RowFor(d) == IF ownRow[d] # NoRow THEN ownRow[d] ELSE sharedRow[d]

\* periodKey_: "" (0 here) unless the sequence resets.
PeriodKey(r) == IF policy[r] = "yearly" THEN clock ELSE 0

\* The number next_() hands out, from the version of row r it selected.
NextNumber(w, r) ==
    IF PeriodKey(r) # 0 /\ PeriodKey(r) # Visible(w, r).last
    THEN 1
    ELSE Visible(w, r).next

-----------------------------------------------------------------------------
Init ==
    /\ committed = [r \in Row |-> [next |-> numberNext[r], last |-> 0]]
    /\ live = committed
    /\ lock = [r \in Row |-> NoTxn]
    /\ clock = 1
    /\ pc = [w \in Worker |-> "idle"]
    /\ doc = [w \in Worker |-> NoDocument]
    /\ drawing = [w \in Worker |-> NoNumber]
    /\ owner = [d \in Document |-> NoTxn]
    /\ drawn = [d \in Document |-> NoNumber]
    /\ booked = [d \in Document |-> NoNumber]

ClockTick ==
    /\ clock < MaxPeriod
    /\ clock' = clock + 1
    /\ UNCHANGED <<dbVars, callVars, docVars>>

\* A request opens its transaction (or, mid-batch, moves on to its next
\* document: action_post numbers every id in one transaction).
Begin(w, d) ==
    /\ pc[w] = "idle" \/ (pc[w] = "numbered" /\ d \notin Detached)
    /\ owner[d] = NoTxn
    /\ booked[d] = NoNumber
    /\ RowFor(d) # NoRow => committed[RowFor(d)].next <= MaxNumber
    /\ pc' = [pc EXCEPT ![w] = "select"]
    /\ doc' = [doc EXCEPT ![w] = d]
    /\ owner' = [owner EXCEPT ![d] = w]
    /\ UNCHANGED <<dbVars, clock, drawing, drawn, booked>>

\* Mutant: the SELECT has lost its FOR UPDATE.
SelectWithoutLock(w) ==
    /\ pc[w] = "select"
    /\ RowFor(doc[w]) # NoRow
    /\ pc' = [pc EXCEPT ![w] = "compute"]
    /\ UNCHANGED <<dbVars, clock, doc, drawing, docVars>>

\* SELECT ... FOR UPDATE, waiting for the row's lock.
SelectForUpdate(w) ==
    LET r == RowFor(doc[w]) IN
    /\ pc[w] = "select"
    /\ r # NoRow
    /\ Write(w, [s \in {r} |-> Visible(w, r)])
    /\ pc' = [pc EXCEPT ![w] = "compute"]
    /\ UNCHANGED <<clock, doc, drawing, docVars>>

\* The period key is read from the clock, the number from the locked row.
ComputeNumber(w) ==
    LET r == RowFor(doc[w]) IN
    /\ pc[w] = "compute"
    /\ drawing' = [drawing EXCEPT ![w] =
         [row |-> r, period |-> PeriodKey(r), number |-> NextNumber(w, r), year |-> 0]]
    /\ pc' = [pc EXCEPT ![w] = "format"]
    /\ UNCHANGED <<dbVars, clock, doc, docVars>>

\* Mutant: the step is subtracted.
FormatAndStepBack(w) ==
    LET n == drawing[w] IN
    /\ pc[w] = "format"
    /\ Write(w, [s \in {n.row} |-> [next |-> n.number - Step, last |-> n.period]])
    /\ drawn' = [drawn EXCEPT ![doc[w]] = [n EXCEPT !.year = PeriodKey(n.row)]]
    /\ drawing' = [drawing EXCEPT ![w] = NoNumber]
    /\ pc' = [pc EXCEPT ![w] = IF doc[w] \in Detached THEN "detach" ELSE "numbered"]
    /\ UNCHANGED <<clock, doc, owner, booked>>

\* format_ reads the clock a second time for the placeholders of the prefix,
\* then the row is advanced and the caller has its number.
FormatAndConsume(w) ==
    LET n == drawing[w] IN
    /\ pc[w] = "format"
    /\ Write(w, [s \in {n.row} |-> [next |-> n.number + Step, last |-> n.period]])
    /\ drawn' = [drawn EXCEPT ![doc[w]] = [n EXCEPT !.year = PeriodKey(n.row)]]
    /\ drawing' = [drawing EXCEPT ![w] = NoNumber]
    /\ pc' = [pc EXCEPT ![w] = IF doc[w] \in Detached THEN "detach" ELSE "numbered"]
    /\ UNCHANGED <<clock, doc, owner, booked>>

\* peek() runs the same statements in a transaction of its own and commits
\* without the UPDATE: nothing was drawn.
PeekDone(w) ==
    /\ pc[w] = "format"
    /\ \A d \in Document : owner[d] = w => d = doc[w]
    /\ CommitTxn(w)
    /\ pc' = [pc EXCEPT ![w] = "idle"]
    /\ doc' = [doc EXCEPT ![w] = NoDocument]
    /\ drawing' = [drawing EXCEPT ![w] = NoNumber]
    /\ owner' = [owner EXCEPT ![doc[w]] = NoTxn]
    /\ UNCHANGED <<clock, drawn, booked>>

\* nextByCode(code) commits the row before its caller has written anything.
CommitDetached(w) ==
    /\ pc[w] = "detach"
    /\ CommitTxn(w)
    /\ pc' = [pc EXCEPT ![w] = "numbered"]
    /\ UNCHANGED <<clock, doc, drawing, docVars>>

\* The caller commits: the documents it numbered exist from now on.
Commit(w) ==
    /\ pc[w] = "numbered"
    /\ CommitTxn(w)
    /\ booked' = [d \in Document |-> IF owner[d] = w THEN drawn[d] ELSE booked[d]]
    /\ owner' = [d \in Document |-> IF owner[d] = w THEN NoTxn ELSE owner[d]]
    /\ drawn' = [d \in Document |-> IF owner[d] = w THEN NoNumber ELSE drawn[d]]
    /\ pc' = [pc EXCEPT ![w] = "idle"]
    /\ doc' = [doc EXCEPT ![w] = NoDocument]
    /\ UNCHANGED <<clock, drawing>>

\* What a request that ends without committing leaves in the caller's hands.
DropRequest(w) ==
    /\ pc' = [pc EXCEPT ![w] = "idle"]
    /\ doc' = [doc EXCEPT ![w] = NoDocument]
    /\ drawing' = [drawing EXCEPT ![w] = NoNumber]
    /\ owner' = [d \in Document |-> IF owner[d] = w THEN NoTxn ELSE owner[d]]
    /\ drawn' = [d \in Document |-> IF owner[d] = w THEN NoNumber ELSE drawn[d]]
    /\ UNCHANGED <<clock, booked>>

\* Mutant: the number behaves like nextval(), which does not roll back.
RollbackBurnsNumber(w) == CommitTxn(w) /\ DropRequest(w)

\* Mutant: the connection goes back to the pool with its transaction open.
RollbackLeaksLocks(w) == UNCHANGED dbVars /\ DropRequest(w)

Rollback(w) == RollbackTxn(w) /\ DropRequest(w)

\* "No active sequence configured": the exception leaves the handler.
Throw(w) ==
    /\ pc[w] = "select"
    /\ RowFor(doc[w]) = NoRow
    /\ Rollback(w)

\* Any other statement of the caller may fail, and the connection may drop.
Abort(w) == pc[w] # "idle" /\ Rollback(w)

\* The worker whose lock w's SELECT ... FOR UPDATE is waiting for.
Blocks(v, w) ==
    /\ pc[w] = "select"
    /\ RowFor(doc[w]) # NoRow
    /\ v # w
    /\ lock[RowFor(doc[w])] = v

\* The server aborts one transaction of a waits-for cycle.
BreakDeadlock(w) ==
    /\ \E S \in SUBSET Worker :
          /\ w \in S
          /\ \A u \in S : \E v \in S : Blocks(v, u)
    /\ Rollback(w)

Next ==
    \/ ClockTick
    \/ \E w \in Worker :
          \/ \E d \in Document : Begin(w, d)
          \/ SelectForUpdate(w)
          \/ ComputeNumber(w)
          \/ FormatAndConsume(w)
          \/ PeekDone(w)
          \/ CommitDetached(w)
          \/ Commit(w)
          \/ Throw(w)
          \/ Abort(w)
          \/ BreakDeadlock(w)

\* A worker keeps executing its handler; a lock that is released over and over
\* is eventually granted (the server queues waiters); nobody owes an Abort.
Fairness ==
    \A w \in Worker :
       /\ SF_vars(SelectForUpdate(w))
       /\ WF_vars(ComputeNumber(w) \/ FormatAndConsume(w) \/ CommitDetached(w))
       /\ WF_vars(Commit(w))
       /\ WF_vars(Throw(w))
       /\ WF_vars(BreakDeadlock(w))

Spec == Init /\ [][Next]_vars
FairSpec == Spec /\ Fairness

-----------------------------------------------------------------------------
TypeOK ==
    /\ committed \in [Row -> [next : Nat \ {0}, last : Nat]]
    /\ live \in [Row -> [next : Nat \ {0}, last : Nat]]
    /\ lock \in [Row -> Worker \cup {NoTxn}]
    /\ clock \in 1..MaxPeriod
    /\ pc \in [Worker -> {"idle", "select", "compute", "format", "detach", "numbered"}]
    /\ doc \in [Worker -> Document \cup {NoDocument}]
    /\ drawing \in [Worker -> Number \cup {NoNumber}]
    /\ owner \in [Document -> Worker \cup {NoTxn}]
    /\ drawn \in [Document -> Number \cup {NoNumber}]
    /\ booked \in [Document -> Number \cup {NoNumber}]

SameSeries(m, n) == m.row = n.row /\ m.period = n.period

\* "it serialises concurrent allocators on this row, which is what makes the
\* series gapless and duplicate-free" (IrSequence.cpp): whatever the requests
\* do, abort or wait, no two committed documents carry the same number of the
\* same sequence and period.
NumbersUnique ==
    \A d, e \in Document :
        (/\ d # e
         /\ booked[d] # NoNumber /\ booked[e] # NoNumber
         /\ SameSeries(booked[d], booked[e]))
        => booked[d].number # booked[e].number

\* The first number of a period: a rollover restarts at 1, a sequence that
\* never resets starts at its number_next.
FirstNumber(n) == IF n.period = 0 THEN numberNext[n.row] ELSE 1

\* The sequences only documents in the caller's transaction draw from.
GaplessRows == {r \in Row : \A d \in Detached : RowFor(d) # r}

\* "GAPLESS: the increment commits or rolls back with the caller's work"
\* (IrSequence.hpp): every number on a committed document is the first of its
\* period or the successor of the number of another committed document.
GaplessSeries ==
    \A d \in Document :
        (booked[d] # NoNumber /\ booked[d].row \in GaplessRows)
        => \/ booked[d].number = FirstNumber(booked[d])
           \/ \E e \in Document :
                 /\ booked[e] # NoNumber
                 /\ SameSeries(booked[d], booked[e])
                 /\ booked[d].number = booked[e].number + Step

\* A request that has opened its transaction ends, whoever else is drawing from
\* the same sequences and in whatever order: waiting on row locks never hangs
\* the worker thread for good.
RequestsEnd == \A w \in Worker : pc[w] # "idle" ~> pc[w] = "idle"

\* "numbering continues rather than restarting at 1 and colliding with existing
\* documents" (MoneyMigrations.cpp, migration 980): numbers below the seeded
\* number_next belong to documents that already exist in the migration's year.
NumberingContinues ==
    \A d \in Document :
        (booked[d] # NoNumber /\ booked[d].year \in {0, 1})
        => booked[d].number >= numberNext[booked[d].row]
=============================================================================
