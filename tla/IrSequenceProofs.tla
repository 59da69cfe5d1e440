-------------------------- MODULE IrSequenceProofs --------------------------
(***************************************************************************)
(* Proofs about IrSequence, for any set of requests, documents and         *)
(* sequences, any increment and any number of years.                       *)
(***************************************************************************)
EXTENDS IrSequence, TLAPS

\* The number a document carries or is about to: the committed one, else the
\* one its open request has drawn.
NumberOf(d) == IF booked[d] # NoNumber THEN booked[d] ELSE drawn[d]

\* Number n was handed out before the row reached version v.
Below(n, v) == n.period < v.last \/ (n.period = v.last /\ n.number + Step <= v.next)

\* Number n is what the row's version v hands out next.
Fits(n, v) ==
    /\ policy[n.row] = "never" => n.period = 0
    /\ policy[n.row] = "yearly" => n.period # 0
    /\ n.period <= clock
    /\ \/ n.period = v.last /\ n.number = v.next
       \/ n.period > v.last /\ n.number = 1

\* A request owns the document it is at, holds the lock of the row it has
\* selected, and a detached one owns nothing else.
WorkerInv ==
    \A w \in Worker :
       /\ pc[w] = "idle" => \A d \in Document : owner[d] # w
       /\ pc[w] # "idle" => doc[w] \in Document /\ owner[doc[w]] = w
       /\ pc[w] \in {"select", "compute", "format"} => drawn[doc[w]] = NoNumber
       /\ pc[w] \in {"compute", "format"} =>
             RowFor(doc[w]) \in Row /\ lock[RowFor(doc[w])] = w
       /\ pc[w] = "format" =>
             /\ drawing[w] \in Number
             /\ drawing[w].row = RowFor(doc[w])
             /\ Fits(drawing[w], live[drawing[w].row])
       /\ (pc[w] # "idle" /\ pc[w] # "numbered" /\ doc[w] \in Detached) =>
             \A d \in Document : owner[d] = w => d = doc[w]
       /\ pc[w] = "detach" => doc[w] \in Detached

\* A number comes from the document's row; while it is not committed its
\* document is open and, unless detached, its row is locked by the same request.
DocInv ==
    \A d \in Document :
       /\ owner[d] # NoTxn => booked[d] = NoNumber
       /\ booked[d] # NoNumber => booked[d].row = RowFor(d)
       /\ drawn[d] # NoNumber =>
             /\ owner[d] # NoTxn
             /\ drawn[d].row = RowFor(d)
             /\ d \notin Detached => lock[drawn[d].row] = owner[d]

\* An unlocked row has no pending version, and no row is ahead of the clock.
RowInv ==
    \A r \in Row :
       /\ lock[r] = NoTxn => live[r] = committed[r]
       /\ live[r].last <= clock /\ committed[r].last <= clock
       /\ policy[r] = "never" => live[r].last = 0 /\ committed[r].last = 0

\* Everything handed out lies below what the row hands out next; for the
\* committed version, everything that will survive the lock holder's rollback.
BoundInv ==
    \A d \in Document :
       /\ NumberOf(d) # NoNumber => Below(NumberOf(d), live[NumberOf(d).row])
       /\ booked[d] # NoNumber => Below(booked[d], committed[booked[d].row])
       /\ (drawn[d] # NoNumber /\ lock[drawn[d].row] # owner[d]) =>
             Below(drawn[d], committed[drawn[d].row])

\* NumbersUnique, for the numbers of open requests as well.
UniqueInv ==
    \A d, e \in Document :
       (/\ d # e
        /\ NumberOf(d) # NoNumber /\ NumberOf(e) # NoNumber
        /\ SameSeries(NumberOf(d), NumberOf(e)))
       => NumberOf(d).number # NumberOf(e).number

\* GaplessSeries, for the numbers of open requests as well.
DrawnGapless ==
    \A d \in Document :
       (NumberOf(d) # NoNumber /\ NumberOf(d).row \in GaplessRows)
       => \/ NumberOf(d).number = FirstNumber(NumberOf(d))
          \/ \E e \in Document :
                /\ NumberOf(e) # NoNumber
                /\ SameSeries(NumberOf(d), NumberOf(e))
                /\ NumberOf(d).number = NumberOf(e).number + Step

\* What a row hands out next continues a number some document carries, and
\* what its committed version would hand out continues a committed one.
Fresh(r, v) == v.last = 0 /\ v.next = numberNext[r]
Last(n, r, v) == n.row = r /\ n.period = v.last /\ n.number + Step = v.next

FrontierInv ==
    \A r \in GaplessRows :
       /\ \/ Fresh(r, live[r])
          \/ \E e \in Document : NumberOf(e) # NoNumber /\ Last(NumberOf(e), r, live[r])
       /\ \/ Fresh(r, committed[r])
          \/ \E e \in Document : booked[e] # NoNumber /\ Last(booked[e], r, committed[r])

IInv ==
    /\ TypeOK
    /\ WorkerInv
    /\ DocInv
    /\ RowInv
    /\ BoundInv
    /\ UniqueInv
    /\ GaplessSeries
    /\ DrawnGapless
    /\ FrontierInv

-----------------------------------------------------------------------------
USE SequenceAssumption, NoNumberAssumption, NoTxnAssumption

\* The part of the invariant a step keeps when it changes no row and no document.
LEMMA FrameDocuments ==
    ASSUME UNCHANGED <<dbVars, docVars>>,
           DocInv, BoundInv, UniqueInv, GaplessSeries, DrawnGapless, FrontierInv
    PROVE  DocInv' /\ BoundInv' /\ UniqueInv' /\ GaplessSeries' /\ DrawnGapless' /\ FrontierInv'
  BY DEF dbVars, docVars, DocInv, BoundInv, UniqueInv, GaplessSeries, DrawnGapless,
         FrontierInv, NumberOf, Below, SameSeries, FirstNumber, GaplessRows, RowFor, Fresh, Last

\* The initial states satisfy the invariant: nothing is numbered yet.
LEMMA InitIInv == Init => IInv
  <1> SUFFICES ASSUME Init PROVE IInv
    OBVIOUS
  <1> USE DEF Init
  <1>1. TypeOK
    BY DEF TypeOK
  <1>2. WorkerInv
    BY DEF WorkerInv
  <1>3. DocInv /\ BoundInv /\ UniqueInv /\ GaplessSeries /\ DrawnGapless
    BY DEF DocInv, BoundInv, UniqueInv, GaplessSeries, DrawnGapless, NumberOf
  <1>4. RowInv
    <2> SUFFICES ASSUME NEW r \in Row
                 PROVE  /\ lock[r] = NoTxn => live[r] = committed[r]
                        /\ live[r].last <= clock /\ committed[r].last <= clock
                        /\ policy[r] = "never" => live[r].last = 0 /\ committed[r].last = 0
      BY DEF RowInv
    <2>1. live[r].last = 0 /\ committed[r].last = 0 /\ live[r] = committed[r]
      OBVIOUS
    <2> QED
      BY <2>1
  <1>5. FrontierInv
    BY DEF FrontierInv, Fresh, GaplessRows
  <1> QED
    BY <1>1, <1>2, <1>3, <1>4, <1>5 DEF IInv

\* The year turning over changes no row; it can only bring the clock forward.
LEMMA ClockTickIInv == IInv /\ ClockTick => IInv'
  <1> SUFFICES ASSUME IInv, ClockTick PROVE IInv'
    OBVIOUS
  <1> USE DEF IInv, ClockTick
  <1>1. TypeOK'
    BY DEF TypeOK, dbVars, callVars, docVars
  <1>2. WorkerInv'
    BY DEF TypeOK, WorkerInv, Fits, RowFor, Number, dbVars, callVars, docVars
  <1>3. RowInv'
    BY DEF TypeOK, RowInv, dbVars
  <1> QED
    BY <1>1, <1>2, <1>3, FrameDocuments

\* Opening a request takes a document nobody holds.
LEMMA BeginIInv ==
    ASSUME NEW w \in Worker, NEW d \in Document, IInv, Begin(w, d)
    PROVE  IInv'
  <1> USE DEF IInv, Begin
  <1>1. TypeOK'
    BY DEF TypeOK, dbVars
  <1>2. drawn[d] = NoNumber
    BY DEF DocInv
  <1>3. WorkerInv'
    BY <1>2 DEF TypeOK, WorkerInv, Fits, RowFor, dbVars
  <1>4. DocInv'
    BY <1>2 DEF TypeOK, DocInv, RowFor, dbVars
  <1>5. RowInv'
    BY DEF RowInv, dbVars
  <1>6. BoundInv' /\ UniqueInv' /\ GaplessSeries' /\ DrawnGapless' /\ FrontierInv'
    BY <1>2 DEF TypeOK, BoundInv, UniqueInv, GaplessSeries, DrawnGapless, FrontierInv,
         NumberOf, Below, SameSeries, FirstNumber, GaplessRows, RowFor, Fresh, Last, dbVars
  <1> QED
    BY <1>1, <1>3, <1>4, <1>5, <1>6

\* The row lock is granted only when the row has no pending version of others.
LEMMA SelectForUpdateIInv ==
    ASSUME NEW w \in Worker, IInv, SelectForUpdate(w)
    PROVE  IInv'
  <1> DEFINE r == RowFor(doc[w])
  <1> USE DEF IInv, SelectForUpdate
  <1>1. /\ doc[w] \in Document /\ owner[doc[w]] = w /\ drawn[doc[w]] = NoNumber
        /\ r \in Row
    BY DEF TypeOK, WorkerInv, RowFor
  <1>2. lock[r] \in {w, NoTxn} /\ lock' = [lock EXCEPT ![r] = w] /\ UNCHANGED committed
    BY <1>1 DEF Write, Free, TypeOK
  <1>3. UNCHANGED live
    BY <1>1, <1>2 DEF Write, Visible, TypeOK, RowInv
  <1>4. TypeOK'
    BY <1>1, <1>2, <1>3 DEF TypeOK, docVars
  <1>5. WorkerInv'
    BY <1>1, <1>2, <1>3 DEF TypeOK, WorkerInv, Fits, RowFor, docVars
  <1>6. DocInv'
    BY <1>1, <1>2, <1>3 DEF TypeOK, DocInv, RowFor, docVars
  <1>7. RowInv'
    BY <1>1, <1>2, <1>3 DEF TypeOK, RowInv
  <1>8. BoundInv'
    <2>1. booked' = booked /\ drawn' = drawn /\ owner' = owner
      BY DEF docVars
    <2>2. \A d \in Document : NumberOf(d)' = NumberOf(d)
      BY <2>1 DEF NumberOf
    <2>3. \A n, v : Below(n, v)' <=> Below(n, v)
      BY DEF Below
    <2>4. lock' = [lock EXCEPT ![r] = w] /\ lock[r] \in {w, NoTxn} /\ committed' = committed /\ live' = live
      BY <1>2, <1>3
    <2>5. ASSUME NEW d \in Document, drawn[d] # NoNumber, lock'[drawn[d].row] # owner[d]
          PROVE  lock[drawn[d].row] # owner[d]
      BY <1>1, <2>4, <2>5 DEF TypeOK, DocInv
    <2> QED
      BY <2>1, <2>2, <2>3, <2>4, <2>5 DEF BoundInv
  <1>9. UniqueInv' /\ GaplessSeries' /\ DrawnGapless' /\ FrontierInv'
    BY <1>1, <1>2, <1>3 DEF UniqueInv, GaplessSeries, DrawnGapless, FrontierInv,
         NumberOf, SameSeries, FirstNumber, GaplessRows, RowFor, Fresh, Last, docVars
  <1> QED
    BY <1>4, <1>5, <1>6, <1>7, <1>8, <1>9

\* What next_() computes from a locked row is what that row hands out next.
LEMMA ComputeNumberIInv ==
    ASSUME NEW w \in Worker, IInv, ComputeNumber(w)
    PROVE  IInv'
  <1> DEFINE r == RowFor(doc[w])
             n == [row |-> r, period |-> PeriodKey(r), number |-> NextNumber(w, r), year |-> 0]
  <1> USE DEF IInv, ComputeNumber
  <1>1. doc[w] \in Document /\ r \in Row /\ lock[r] = w /\ live[r].last <= clock
    BY DEF TypeOK, WorkerInv, RowInv
  <1>2. /\ live[r] \in [next : Nat \ {0}, last : Nat] /\ clock \in Nat \ {0}
        /\ policy[r] \in {"never", "yearly"}
    BY <1>1 DEF TypeOK
  <1>3. n \in Number /\ n.row = r
    BY <1>1, <1>2 DEF Number, PeriodKey, NextNumber, Visible
  <1>4. Fits(n, live[r])
    <2>1. n.period = PeriodKey(r) /\ n.number = NextNumber(w, r) /\ Visible(w, r) = live[r]
      BY <1>1 DEF Visible
    <2>2. CASE policy[r] = "never"
      <3>1. live[r].last = 0 /\ PeriodKey(r) = 0
        BY <1>1, <2>2 DEF RowInv, PeriodKey
      <3> QED
        BY <1>2, <1>3, <2>1, <2>2, <3>1 DEF Fits, NextNumber
    <2>3. CASE policy[r] = "yearly"
      <3>1. PeriodKey(r) = clock
        BY <2>3 DEF PeriodKey
      <3> QED
        BY <1>1, <1>2, <1>3, <2>1, <2>3, <3>1 DEF Fits, NextNumber
    <2> QED
      BY <1>2, <2>2, <2>3
  <1>5. drawing' = [drawing EXCEPT ![w] = n] /\ pc' = [pc EXCEPT ![w] = "format"]
    OBVIOUS
  <1> HIDE DEF n, r
  <1>6. TypeOK'
    BY <1>3, <1>5 DEF TypeOK, docVars, dbVars
  <1>7. WorkerInv'
    BY <1>1, <1>3, <1>4, <1>5 DEF TypeOK, WorkerInv, Fits, RowFor, docVars, dbVars, r
  <1>8. RowInv'
    BY DEF RowInv, dbVars
  <1> QED
    BY <1>6, <1>7, <1>8, FrameDocuments

\* The step that hands a number out: it fits the row, so it lies above every
\* number below the row, and it continues the one the row handed out last.
LEMMA FormatAndConsumeIInv ==
    ASSUME NEW w \in Worker, IInv, FormatAndConsume(w)
    PROVE  IInv'
  <1> USE DEF IInv
  <1>a. /\ doc[w] \in Document /\ drawing[w] \in Number /\ clock \in Nat
        /\ drawing[w].row = RowFor(doc[w])
    BY DEF FormatAndConsume, TypeOK, WorkerInv
  <1>b. PICK d \in Document, n \in Number, y \in Nat :
           d = doc[w] /\ n = drawing[w] /\ y = PeriodKey(drawing[w].row)
    BY <1>a DEF PeriodKey
  <1> DEFINE r == n.row
             m == [n EXCEPT !.year = y]
             v == [next |-> n.number + Step, last |-> n.period]
  <1>1. /\ owner[d] = w /\ drawn[d] = NoNumber /\ booked[d] = NoNumber
        /\ r = RowFor(d) /\ r \in Row /\ lock[r] = w
        /\ Fits(n, live[r])
    BY <1>a, <1>b DEF FormatAndConsume, TypeOK, WorkerInv, DocInv
  <1>2. /\ live' = [live EXCEPT ![r] = v] /\ UNCHANGED <<lock, committed, clock, doc, owner, booked>>
        /\ drawn' = [drawn EXCEPT ![d] = m]
        /\ drawing' = [drawing EXCEPT ![w] = NoNumber]
        /\ pc' = [pc EXCEPT ![w] = IF d \in Detached THEN "detach" ELSE "numbered"]
        /\ pc[w] = "format"
    BY <1>b, <1>1 DEF FormatAndConsume, Write, TypeOK
  <1>3. /\ m \in Number /\ m.row = r /\ m.period = n.period /\ m.number = n.number
        /\ n.number \in Nat /\ n.period \in Nat /\ n.period <= clock
        /\ policy[r] = "never" => n.period = 0
        /\ v \in [next : Nat \ {0}, last : Nat] /\ m # NoNumber
    <2>1. n = [row |-> n.row, period |-> n.period, number |-> n.number, year |-> n.year]
          /\ n.row \in Row /\ n.number \in Nat /\ n.period \in Nat
      BY DEF Number
    <2>2. m = [row |-> n.row, period |-> n.period, number |-> n.number, year |-> y]
      BY <2>1
    <2>3. m \in Number
      BY <2>1, <2>2 DEF Number
    <2>4. m.row = r /\ m.period = n.period /\ m.number = n.number
      BY <2>2
    <2>5. n.period <= clock /\ (policy[r] = "never" => n.period = 0)
      BY <1>1 DEF Fits
    <2> QED
      BY <2>1, <2>3, <2>4, <2>5
  <1>4. /\ live[r].last \in Nat /\ live[r].next \in Nat
        /\ \/ n.period = live[r].last /\ n.number = live[r].next
           \/ n.period > live[r].last /\ n.number = 1
    BY <1>1 DEF Fits, TypeOK
  <1>5. /\ NumberOf(d) = NoNumber /\ NumberOf(d)' = m
        /\ \A e \in Document \ {d} : NumberOf(e)' = NumberOf(e)
        /\ \A e \in Document : NumberOf(e) \in Number \cup {NoNumber}
    BY <1>1, <1>2, <1>3 DEF NumberOf, TypeOK
  <1>6. live'[r].last = n.period /\ live'[r].next = n.number + Step
    BY <1>1, <1>2 DEF TypeOK
  <1>7. \A s \in Row \ {r} : live'[s] = live[s]
    BY <1>1, <1>2 DEF TypeOK
  <1> HIDE DEF r, m, v
  <1>8. TypeOK'
    BY <1>1, <1>2, <1>3 DEF TypeOK
  <1>9. WorkerInv'
    BY <1>b, <1>1, <1>2, <1>7 DEF TypeOK, WorkerInv, Fits, RowFor
  <1>10. DocInv'
    BY <1>1, <1>2, <1>3 DEF TypeOK, DocInv, RowFor
  <1>11. RowInv'
    BY <1>1, <1>2, <1>3, <1>6, <1>7 DEF RowInv, TypeOK
  <1>12. \A e \in Document \ {d} : NumberOf(e) # NoNumber => Below(NumberOf(e), live'[NumberOf(e).row])
    BY <1>1, <1>3, <1>4, <1>5, <1>6, <1>7 DEF BoundInv, Below, Number, TypeOK
  <1>13. BoundInv'
    <2>1. Below(m, live'[r])
      BY <1>3, <1>6 DEF Below
    <2>2. \A e \in Document : NumberOf(e)' # NoNumber => Below(NumberOf(e)', live'[NumberOf(e)'.row])
      BY <1>3, <1>5, <1>12, <2>1
    <2>3. \A e \in Document : booked'[e] # NoNumber => Below(booked'[e], committed'[booked'[e].row])
      BY <1>2 DEF BoundInv
    <2>4. \A e \in Document :
             (drawn'[e] # NoNumber /\ lock'[drawn'[e].row] # owner'[e]) =>
                Below(drawn'[e], committed'[drawn'[e].row])
      BY <1>1, <1>2, <1>3 DEF BoundInv, TypeOK
    <2> QED
      BY <2>2, <2>3, <2>4 DEF BoundInv, Below
  <1>14. \A e \in Document \ {d} :
            (NumberOf(e) # NoNumber /\ SameSeries(NumberOf(e), m)) => NumberOf(e).number < m.number
    BY <1>1, <1>3, <1>4, <1>5 DEF BoundInv, Below, SameSeries, Number, TypeOK
  <1>15. UniqueInv'
    <2> SUFFICES ASSUME NEW e \in Document, NEW f \in Document, e # f,
                        NumberOf(e)' # NoNumber, NumberOf(f)' # NoNumber,
                        SameSeries(NumberOf(e)', NumberOf(f)')
                 PROVE  NumberOf(e)'.number # NumberOf(f)'.number
      BY DEF UniqueInv, SameSeries
    <2>1. CASE e # d /\ f # d
      BY <1>5, <2>1 DEF UniqueInv
    <2>2. CASE e = d
      BY <1>3, <1>5, <1>14, <2>2 DEF SameSeries, Number
    <2>3. CASE f = d
      BY <1>3, <1>5, <1>14, <2>3 DEF SameSeries, Number
    <2> QED
      BY <2>1, <2>2, <2>3
  <1>16. r \in GaplessRows =>
            \/ m.number = FirstNumber(m)
            \/ \E e \in Document \ {d} :
                  NumberOf(e) # NoNumber /\ SameSeries(m, NumberOf(e)) /\ m.number = NumberOf(e).number + Step
    BY <1>3, <1>4, <1>5 DEF FrontierInv, Fresh, Last, FirstNumber, SameSeries
  <1>17. DrawnGapless'
    <2> SUFFICES ASSUME NEW e \in Document, NumberOf(e)' # NoNumber, NumberOf(e)'.row \in GaplessRows
                 PROVE  \/ NumberOf(e)'.number = FirstNumber(NumberOf(e)')
                        \/ \E f \in Document :
                              /\ NumberOf(f)' # NoNumber
                              /\ SameSeries(NumberOf(e)', NumberOf(f)')
                              /\ NumberOf(e)'.number = NumberOf(f)'.number + Step
      BY DEF DrawnGapless, FirstNumber, SameSeries, GaplessRows, RowFor
    <2>1. CASE e = d
      BY <1>3, <1>5, <1>16, <2>1
    <2>2. CASE e # d
      BY <1>5, <2>2 DEF DrawnGapless
    <2> QED
      BY <2>1, <2>2
  <1>18. FrontierInv'
    <2> SUFFICES ASSUME NEW s \in GaplessRows
                 PROVE  /\ \/ Fresh(s, live'[s])
                           \/ \E e \in Document : NumberOf(e)' # NoNumber /\ Last(NumberOf(e)', s, live'[s])
                        /\ \/ Fresh(s, committed'[s])
                           \/ \E e \in Document : booked'[e] # NoNumber /\ Last(booked'[e], s, committed'[s])
      BY DEF FrontierInv, Fresh, Last, GaplessRows, RowFor
    <2>1. \/ Fresh(s, committed'[s])
          \/ \E e \in Document : booked'[e] # NoNumber /\ Last(booked'[e], s, committed'[s])
      BY <1>2 DEF FrontierInv
    <2>2. CASE s = r
      BY <1>1, <1>3, <1>5, <1>6, <2>1, <2>2 DEF Last
    <2>3. CASE s # r
      <3>1. live'[s] = live[s]
        BY <1>7, <2>3 DEF GaplessRows
      <3>2. CASE Fresh(s, live[s])
        BY <2>1, <3>1, <3>2
      <3>3. CASE \E e \in Document : NumberOf(e) # NoNumber /\ Last(NumberOf(e), s, live[s])
        <4>1. PICK e \in Document : NumberOf(e) # NoNumber /\ Last(NumberOf(e), s, live[s])
          BY <3>3
        <4>2. NumberOf(e)' = NumberOf(e)
          BY <1>5, <4>1
        <4> QED
          BY <2>1, <3>1, <4>1, <4>2
      <3> QED
        BY <3>2, <3>3 DEF FrontierInv
    <2> QED
      BY <2>2, <2>3
  <1>19. GaplessSeries'
    BY <1>2 DEF GaplessSeries, FirstNumber, SameSeries, GaplessRows, RowFor
  <1> QED
    BY <1>8, <1>9, <1>10, <1>11, <1>13, <1>15, <1>17, <1>18, <1>19

\* What COMMIT does to the rows: those the request has locked get their newest
\* version and are unlocked, the others stay as they are.
LEMMA CommitRows ==
    ASSUME NEW w \in Worker, TypeOK, CommitTxn(w)
    PROVE  /\ UNCHANGED live
           /\ \A r \in Row : lock[r] = w => committed'[r] = live[r] /\ lock'[r] = NoTxn
           /\ \A r \in Row : lock[r] # w => committed'[r] = committed[r] /\ lock'[r] = lock[r]
           /\ committed' \in [Row -> [next : Nat \ {0}, last : Nat]]
           /\ lock' \in [Row -> Worker \cup {NoTxn}]
  BY DEF TypeOK, CommitTxn, Visible

\* The row invariant survives any COMMIT.
LEMMA CommitRowInv ==
    ASSUME NEW w \in Worker, TypeOK, RowInv, CommitTxn(w), UNCHANGED clock
    PROVE  RowInv'
  BY CommitRows DEF RowInv

\* A number of a gapless row is committed or belongs to the request that holds
\* the row, which owns its document.
LEMMA DrawnUnderLock ==
    ASSUME DocInv, NEW e \in Document, NumberOf(e) # NoNumber, NumberOf(e).row \in GaplessRows
    PROVE  \/ booked[e] # NoNumber /\ NumberOf(e) = booked[e] /\ owner[e] = NoTxn
           \/ /\ booked[e] = NoNumber /\ NumberOf(e) = drawn[e] /\ drawn[e] # NoNumber
              /\ e \notin Detached /\ owner[e] # NoTxn /\ lock[drawn[e].row] = owner[e]
  BY DEF DocInv, NumberOf, GaplessRows

\* peek() commits a transaction that has drawn nothing.
LEMMA PeekDoneIInv ==
    ASSUME NEW w \in Worker, IInv, PeekDone(w)
    PROVE  IInv'
  <1> USE DEF IInv
  <1>1. PICK d \in Document : d = doc[w]
    BY DEF PeekDone, TypeOK, WorkerInv
  <1>2. /\ CommitTxn(w) /\ UNCHANGED <<clock, drawn, booked>>
        /\ pc' = [pc EXCEPT ![w] = "idle"] /\ doc' = [doc EXCEPT ![w] = NoDocument]
        /\ drawing' = [drawing EXCEPT ![w] = NoNumber]
        /\ owner' = [owner EXCEPT ![d] = NoTxn]
        /\ owner[d] = w /\ drawn[d] = NoNumber
        /\ \A e \in Document : owner[e] = w => e = d
    BY <1>1 DEF PeekDone, WorkerInv
  <1>3. /\ UNCHANGED live
        /\ \A r \in Row : lock[r] = w => committed'[r] = live[r] /\ lock'[r] = NoTxn
        /\ \A r \in Row : lock[r] # w => committed'[r] = committed[r] /\ lock'[r] = lock[r]
        /\ committed' \in [Row -> [next : Nat \ {0}, last : Nat]]
        /\ lock' \in [Row -> Worker \cup {NoTxn}]
    BY <1>2, CommitRows
  <1>4. TypeOK'
    BY <1>2, <1>3 DEF TypeOK
  <1>5. WorkerInv'
    BY <1>1, <1>2, <1>3 DEF TypeOK, WorkerInv, Fits, RowFor
  <1>6. DocInv'
    <2>1. \A e \in Document : drawn[e] # NoNumber =>
             /\ drawn[e].row \in Row /\ e # d /\ owner[e] # w /\ owner'[e] = owner[e]
             /\ owner[e] # NoTxn /\ drawn[e].row = RowFor(e)
             /\ e \notin Detached => lock[drawn[e].row] = owner[e]
      BY <1>2 DEF TypeOK, DocInv, Number
    <2>2. \A e \in Document : owner'[e] # NoTxn => booked[e] = NoNumber
      BY <1>2 DEF TypeOK, DocInv
    <2>3. \A e \in Document : (drawn[e] # NoNumber /\ e \notin Detached) => lock'[drawn[e].row] = owner'[e]
      BY <1>3, <2>1
    <2> QED
      BY <1>2, <2>1, <2>2, <2>3 DEF DocInv, RowFor
  <1>7. RowInv'
    BY <1>2, CommitRowInv
  <1>8. BoundInv'
    <2>1. \A e \in Document : drawn[e] # NoNumber =>
             /\ drawn[e].row \in Row /\ NumberOf(e) = drawn[e] /\ owner[e] # NoTxn
             /\ owner'[e] = owner[e]
      BY <1>2 DEF TypeOK, DocInv, NumberOf, Number
    <2>2. \A e \in Document : booked[e] # NoNumber => booked[e].row \in Row /\ NumberOf(e) = booked[e]
      BY DEF TypeOK, NumberOf, Number
    <2>3. \A e \in Document : NumberOf(e) # NoNumber => Below(NumberOf(e), live[NumberOf(e).row])
      BY DEF BoundInv
    <2>4. \A e \in Document : booked[e] # NoNumber => Below(booked[e], committed'[booked[e].row])
      BY <1>3, <2>2, <2>3 DEF BoundInv
    <2>5. \A e \in Document : (drawn[e] # NoNumber /\ lock'[drawn[e].row] # owner'[e]) =>
             Below(drawn[e], committed'[drawn[e].row])
      BY <1>3, <2>1, <2>3 DEF BoundInv
    <2> QED
      BY <1>2, <1>3, <2>3, <2>4, <2>5 DEF BoundInv, NumberOf, Below
  <1>9. UniqueInv' /\ GaplessSeries' /\ DrawnGapless'
    BY <1>2 DEF UniqueInv, GaplessSeries, DrawnGapless, NumberOf, SameSeries,
         FirstNumber, GaplessRows, RowFor
  <1>10. FrontierInv'
    <2> SUFFICES ASSUME NEW r \in GaplessRows, lock[r] = w
                 PROVE  \/ Fresh(r, live[r])
                        \/ \E e \in Document : booked[e] # NoNumber /\ Last(booked[e], r, live[r])
      BY <1>2, <1>3 DEF FrontierInv, Fresh, Last, GaplessRows, RowFor, NumberOf
    <2>1. ASSUME NEW e \in Document, NumberOf(e) # NoNumber, Last(NumberOf(e), r, live[r])
          PROVE  booked[e] # NoNumber /\ Last(booked[e], r, live[r])
      BY <1>2, <2>1, DrawnUnderLock DEF Last
    <2> QED
      BY <2>1 DEF FrontierInv
  <1> QED
    BY <1>4, <1>5, <1>6, <1>7, <1>8, <1>9, <1>10

\* nextByCode(code) commits one detached number; nothing else is pending.
LEMMA CommitDetachedIInv ==
    ASSUME NEW w \in Worker, IInv, CommitDetached(w)
    PROVE  IInv'
  <1> USE DEF IInv
  <1>1. PICK d \in Document : d = doc[w]
    BY DEF CommitDetached, TypeOK, WorkerInv
  <1>2. /\ CommitTxn(w) /\ UNCHANGED <<clock, doc, drawing, owner, drawn, booked>>
        /\ pc' = [pc EXCEPT ![w] = "numbered"]
        /\ owner[d] = w /\ d \in Detached
        /\ \A e \in Document : owner[e] = w => e = d
    BY <1>1 DEF CommitDetached, WorkerInv, docVars
  <1>3. /\ UNCHANGED live
        /\ \A r \in Row : lock[r] = w => committed'[r] = live[r] /\ lock'[r] = NoTxn
        /\ \A r \in Row : lock[r] # w => committed'[r] = committed[r] /\ lock'[r] = lock[r]
        /\ committed' \in [Row -> [next : Nat \ {0}, last : Nat]]
        /\ lock' \in [Row -> Worker \cup {NoTxn}]
    BY <1>2, CommitRows
  <1>4. TypeOK'
    BY <1>2, <1>3 DEF TypeOK
  <1>5. WorkerInv'
    BY <1>1, <1>2, <1>3 DEF TypeOK, WorkerInv, Fits, RowFor
  <1>6. DocInv'
    <2>1. \A e \in Document : drawn[e] # NoNumber =>
             /\ drawn[e].row \in Row
             /\ owner[e] # NoTxn /\ drawn[e].row = RowFor(e)
             /\ e \notin Detached => owner[e] # w /\ lock[drawn[e].row] = owner[e]
      BY <1>2 DEF TypeOK, DocInv, Number
    <2>2. \A e \in Document : (drawn[e] # NoNumber /\ e \notin Detached) => lock'[drawn[e].row] = owner[e]
      BY <1>3, <2>1
    <2> QED
      BY <1>2, <2>1, <2>2 DEF DocInv, RowFor
  <1>7. RowInv'
    BY <1>2, CommitRowInv
  <1>8. BoundInv'
    <2>1. \A e \in Document : drawn[e] # NoNumber =>
             drawn[e].row \in Row /\ NumberOf(e) = drawn[e] /\ owner[e] # NoTxn
      BY DEF TypeOK, DocInv, NumberOf, Number
    <2>2. \A e \in Document : booked[e] # NoNumber => booked[e].row \in Row /\ NumberOf(e) = booked[e]
      BY DEF TypeOK, NumberOf, Number
    <2>3. \A e \in Document : NumberOf(e) # NoNumber => Below(NumberOf(e), live[NumberOf(e).row])
      BY DEF BoundInv
    <2>4. \A e \in Document : booked[e] # NoNumber => Below(booked[e], committed'[booked[e].row])
      BY <1>3, <2>2, <2>3 DEF BoundInv
    <2>5. \A e \in Document : (drawn[e] # NoNumber /\ lock'[drawn[e].row] # owner[e]) =>
             Below(drawn[e], committed'[drawn[e].row])
      BY <1>3, <2>1, <2>3 DEF BoundInv
    <2> QED
      BY <1>2, <1>3, <2>3, <2>4, <2>5 DEF BoundInv, NumberOf, Below
  <1>9. UniqueInv' /\ GaplessSeries' /\ DrawnGapless'
    BY <1>2 DEF UniqueInv, GaplessSeries, DrawnGapless, NumberOf, SameSeries,
         FirstNumber, GaplessRows, RowFor
  <1>10. FrontierInv'
    <2> SUFFICES ASSUME NEW r \in GaplessRows, lock[r] = w
                 PROVE  \/ Fresh(r, live[r])
                        \/ \E e \in Document : booked[e] # NoNumber /\ Last(booked[e], r, live[r])
      BY <1>2, <1>3 DEF FrontierInv, Fresh, Last, GaplessRows, RowFor, NumberOf
    <2>1. ASSUME NEW e \in Document, NumberOf(e) # NoNumber, Last(NumberOf(e), r, live[r])
          PROVE  booked[e] # NoNumber /\ Last(booked[e], r, live[r])
      BY <1>2, <2>1, DrawnUnderLock DEF Last
    <2> QED
      BY <2>1 DEF FrontierInv
  <1> QED
    BY <1>4, <1>5, <1>6, <1>7, <1>8, <1>9, <1>10

\* The caller's COMMIT: its documents carry their numbers, and the row versions
\* those numbers lie below are committed in the same step.
LEMMA CommitIInv ==
    ASSUME NEW w \in Worker, IInv, Commit(w)
    PROVE  IInv'
  <1> USE DEF IInv
  <1>1. /\ CommitTxn(w) /\ UNCHANGED <<clock, drawing>>
        /\ pc' = [pc EXCEPT ![w] = "idle"] /\ doc' = [doc EXCEPT ![w] = NoDocument]
        /\ \A e \in Document :
              /\ owner'[e] = IF owner[e] = w THEN NoTxn ELSE owner[e]
              /\ drawn'[e] = IF owner[e] = w THEN NoNumber ELSE drawn[e]
              /\ booked'[e] = IF owner[e] = w THEN drawn[e] ELSE booked[e]
    BY DEF Commit
  <1>2. /\ UNCHANGED live
        /\ \A r \in Row : lock[r] = w => committed'[r] = live[r] /\ lock'[r] = NoTxn
        /\ \A r \in Row : lock[r] # w => committed'[r] = committed[r] /\ lock'[r] = lock[r]
        /\ committed' \in [Row -> [next : Nat \ {0}, last : Nat]]
        /\ lock' \in [Row -> Worker \cup {NoTxn}]
    BY <1>1, CommitRows
  <1>3. \A e \in Document :
           /\ NumberOf(e)' = NumberOf(e)
           /\ NumberOf(e) # NoNumber => NumberOf(e).row \in Row
           /\ drawn[e] # NoNumber => /\ drawn[e].row \in Row /\ NumberOf(e) = drawn[e]
                                     /\ owner[e] # NoTxn
           /\ booked[e] # NoNumber => booked[e].row \in Row /\ NumberOf(e) = booked[e] /\ owner[e] = NoTxn
    BY <1>1 DEF NumberOf, TypeOK, DocInv, Number
  <1>4. TypeOK'
    BY <1>1, <1>2 DEF TypeOK, Commit
  <1>5. WorkerInv'
    BY <1>1, <1>2 DEF TypeOK, WorkerInv, Fits, RowFor
  <1>6. DocInv'
    <2>1. \A e \in Document : (drawn'[e] # NoNumber) =>
             /\ drawn'[e] = drawn[e] /\ owner'[e] = owner[e] /\ owner[e] # w /\ owner[e] # NoTxn
             /\ drawn[e].row = RowFor(e)
             /\ e \notin Detached => lock'[drawn[e].row] = owner[e]
      BY <1>1, <1>2, <1>3 DEF DocInv
    <2>2. \A e \in Document : owner'[e] # NoTxn => booked'[e] = NoNumber
      BY <1>1 DEF DocInv
    <2>3. \A e \in Document : booked'[e] # NoNumber => booked'[e].row = RowFor(e)
      BY <1>1 DEF DocInv
    <2> QED
      BY <2>1, <2>2, <2>3 DEF DocInv, RowFor
  <1>7. RowInv'
    BY <1>1, CommitRowInv
  <1>8. BoundInv'
    <2>1. \A e \in Document : NumberOf(e) # NoNumber => Below(NumberOf(e), live[NumberOf(e).row])
      BY DEF BoundInv
    <2>2. \A e \in Document : booked'[e] # NoNumber => Below(booked'[e], committed'[booked'[e].row])
      BY <1>1, <1>2, <1>3, <2>1 DEF BoundInv
    <2>3. \A e \in Document : (drawn'[e] # NoNumber /\ lock'[drawn'[e].row] # owner'[e]) =>
             Below(drawn'[e], committed'[drawn'[e].row])
      BY <1>1, <1>2, <1>3, <2>1 DEF BoundInv
    <2>4. \A e \in Document : NumberOf(e)' # NoNumber => Below(NumberOf(e)', live'[NumberOf(e)'.row])
      BY <1>2, <1>3, <2>1
    <2> QED
      BY <2>2, <2>3, <2>4 DEF BoundInv, Below
  <1>9. UniqueInv' /\ DrawnGapless'
    BY <1>3 DEF UniqueInv, DrawnGapless, SameSeries, FirstNumber, GaplessRows, RowFor
  <1>10. \A e, f \in Document :
            (/\ booked'[e] # NoNumber /\ booked'[e].row \in GaplessRows
             /\ NumberOf(f) # NoNumber /\ NumberOf(f).row = booked'[e].row
             /\ owner[e] = w)
            => booked'[f] = NumberOf(f)
    <2> SUFFICES ASSUME NEW e \in Document, NEW f \in Document,
                        booked'[e] # NoNumber, booked'[e].row \in GaplessRows,
                        NumberOf(f) # NoNumber, NumberOf(f).row = booked'[e].row, owner[e] = w
                 PROVE  booked'[f] = NumberOf(f)
      OBVIOUS
    <2>1. booked'[e] = drawn[e] /\ NumberOf(e) = drawn[e] /\ owner[e] # NoTxn
      BY <1>1, <1>3
    <2>2. lock[drawn[e].row] = w
      BY <2>1, DrawnUnderLock
    <2> QED
      BY <1>1, <2>1, <2>2, DrawnUnderLock
  <1>11. GaplessSeries'
    <2> SUFFICES ASSUME NEW e \in Document, booked'[e] # NoNumber, booked'[e].row \in GaplessRows
                 PROVE  \/ booked'[e].number = FirstNumber(booked'[e])
                        \/ \E f \in Document :
                              /\ booked'[f] # NoNumber
                              /\ SameSeries(booked'[e], booked'[f])
                              /\ booked'[e].number = booked'[f].number + Step
      BY DEF GaplessSeries, FirstNumber, SameSeries, GaplessRows, RowFor
    <2>1. CASE owner[e] = w
      <3>1. booked'[e] = NumberOf(e)
        BY <1>1, <1>3, <2>1
      <3> QED
        BY <1>10, <2>1, <3>1 DEF DrawnGapless, SameSeries
    <2>2. CASE owner[e] # w
      <3>1. \A f \in Document : booked[f] # NoNumber => booked'[f] = booked[f]
        BY <1>1, <1>3, NoTxnAssumption
      <3> QED
        BY <1>1, <2>2, <3>1 DEF GaplessSeries
    <2> QED
      BY <2>1, <2>2
  <1>12. FrontierInv'
    <2> SUFFICES ASSUME NEW r \in GaplessRows
                 PROVE  /\ \/ Fresh(r, live'[r])
                           \/ \E e \in Document : NumberOf(e)' # NoNumber /\ Last(NumberOf(e)', r, live'[r])
                        /\ \/ Fresh(r, committed'[r])
                           \/ \E e \in Document : booked'[e] # NoNumber /\ Last(booked'[e], r, committed'[r])
      BY DEF FrontierInv, Fresh, Last, GaplessRows, RowFor
    <2>1. \/ Fresh(r, live'[r])
          \/ \E e \in Document : NumberOf(e)' # NoNumber /\ Last(NumberOf(e)', r, live'[r])
      BY <1>2, <1>3 DEF FrontierInv
    <2>2. CASE lock[r] = w
      <3>1. ASSUME NEW e \in Document, NumberOf(e) # NoNumber, Last(NumberOf(e), r, live[r])
            PROVE  booked'[e] # NoNumber /\ Last(booked'[e], r, live[r])
        BY <1>1, <2>2, <3>1, DrawnUnderLock, NoTxnAssumption DEF Last
      <3>2. committed'[r] = live[r]
        BY <1>2, <2>2 DEF GaplessRows
      <3> QED
        BY <2>1, <3>1, <3>2 DEF FrontierInv
    <2>3. CASE lock[r] # w
      <3>1. committed'[r] = committed[r]
        BY <1>2, <2>3 DEF GaplessRows
      <3>2. \A f \in Document : booked[f] # NoNumber => booked'[f] = booked[f]
        BY <1>1, <1>3, NoTxnAssumption
      <3>3. CASE Fresh(r, committed[r])
        BY <2>1, <3>1, <3>3
      <3>4. CASE \E e \in Document : booked[e] # NoNumber /\ Last(booked[e], r, committed[r])
        BY <2>1, <3>1, <3>2, <3>4
      <3> QED
        BY <3>3, <3>4 DEF FrontierInv
    <2> QED
      BY <2>2, <2>3
  <1> QED
    BY <1>4, <1>5, <1>6, <1>7, <1>8, <1>9, <1>11, <1>12

\* ROLLBACK, for whatever reason: the numbers of the request are gone, and the
\* rows it held are back at the version below which all others lie.
LEMMA RollbackIInv ==
    ASSUME NEW w \in Worker, IInv, Rollback(w)
    PROVE  IInv'
  <1> USE DEF IInv
  <1>1. /\ UNCHANGED <<committed, clock, booked>>
        /\ pc' = [pc EXCEPT ![w] = "idle"] /\ doc' = [doc EXCEPT ![w] = NoDocument]
        /\ drawing' = [drawing EXCEPT ![w] = NoNumber]
        /\ \A r \in Row : lock[r] = w => live'[r] = committed[r] /\ lock'[r] = NoTxn
        /\ \A r \in Row : lock[r] # w => live'[r] = live[r] /\ lock'[r] = lock[r]
        /\ \A e \in Document :
              /\ owner'[e] = IF owner[e] = w THEN NoTxn ELSE owner[e]
              /\ drawn'[e] = IF owner[e] = w THEN NoNumber ELSE drawn[e]
    BY DEF Rollback, RollbackTxn, DropRequest
  <1>2. \A e \in Document :
           /\ booked[e] # NoNumber => booked[e].row \in Row /\ NumberOf(e) = booked[e] /\ owner[e] = NoTxn
           /\ drawn[e] # NoNumber => /\ drawn[e].row \in Row /\ NumberOf(e) = drawn[e]
                                     /\ owner[e] # NoTxn
    BY DEF NumberOf, TypeOK, DocInv, Number
  <1>3. \A e \in Document :
           /\ owner[e] # w => NumberOf(e)' = NumberOf(e)
           /\ owner[e] = w => NumberOf(e)' = NoNumber
    BY <1>1 DEF NumberOf, DocInv
  <1>4. TypeOK'
    BY <1>1 DEF TypeOK, Rollback, RollbackTxn, DropRequest
  <1>5. WorkerInv'
    <2> SUFFICES ASSUME NEW v \in Worker
                 PROVE  WorkerInv!(v)'
      BY DEF WorkerInv
    <2> QED
      BY <1>1 DEF TypeOK, WorkerInv, Fits, RowFor
  <1>6. DocInv'
    <2>1. \A e \in Document : drawn'[e] # NoNumber =>
             /\ drawn'[e] = drawn[e] /\ owner'[e] = owner[e] /\ owner[e] # w /\ owner[e] # NoTxn
             /\ drawn[e].row = RowFor(e)
             /\ e \notin Detached => lock'[drawn[e].row] = owner[e]
      BY <1>1, <1>2 DEF DocInv
    <2> QED
      BY <1>1, <2>1 DEF DocInv, RowFor
  <1>7. RowInv'
    BY <1>1 DEF RowInv
  <1>8. BoundInv'
    <2>1. \A e \in Document : booked'[e] # NoNumber => Below(booked'[e], committed'[booked'[e].row])
      BY <1>1 DEF BoundInv
    <2>2. \A e \in Document : (drawn'[e] # NoNumber /\ lock'[drawn'[e].row] # owner'[e]) =>
             Below(drawn'[e], committed'[drawn'[e].row])
      BY <1>1, <1>2 DEF BoundInv
    <2>3. \A e \in Document : NumberOf(e)' # NoNumber => Below(NumberOf(e)', live'[NumberOf(e)'.row])
      <3> SUFFICES ASSUME NEW e \in Document, owner[e] # w, NumberOf(e) # NoNumber
                   PROVE  Below(NumberOf(e), live'[NumberOf(e).row])
        BY <1>3
      <3>1. NumberOf(e).row \in Row
        BY <1>2 DEF NumberOf
      <3>2. CASE lock[NumberOf(e).row] = w
        BY <1>1, <1>2, <3>1, <3>2 DEF BoundInv, NumberOf
      <3>3. CASE lock[NumberOf(e).row] # w
        BY <1>1, <3>1, <3>3 DEF BoundInv
      <3> QED
        BY <3>2, <3>3
    <2> QED
      BY <2>1, <2>2, <2>3 DEF BoundInv, Below
  <1>9. UniqueInv'
    BY <1>3 DEF UniqueInv, SameSeries
  <1>10. GaplessSeries'
    BY <1>1 DEF GaplessSeries, FirstNumber, SameSeries, GaplessRows, RowFor
  <1>11. DrawnGapless'
    <2> SUFFICES ASSUME NEW e \in Document, owner[e] # w, NumberOf(e) # NoNumber,
                        NumberOf(e).row \in GaplessRows,
                        NumberOf(e).number # FirstNumber(NumberOf(e))
                 PROVE  \E f \in Document :
                           /\ NumberOf(f)' # NoNumber
                           /\ SameSeries(NumberOf(e), NumberOf(f)')
                           /\ NumberOf(e).number = NumberOf(f)'.number + Step
      BY <1>3 DEF DrawnGapless, FirstNumber, SameSeries, GaplessRows, RowFor
    <2>1. CASE booked[e] # NoNumber
      <3>1. PICK f \in Document :
               booked[f] # NoNumber /\ SameSeries(booked[e], booked[f])
               /\ booked[e].number = booked[f].number + Step
        BY <1>2, <2>1 DEF GaplessSeries
      <3>2. NumberOf(f)' = booked[f]
        BY <1>2, <1>3, <3>1, NoTxnAssumption
      <3> QED
        BY <1>2, <2>1, <3>1, <3>2
    <2>2. CASE booked[e] = NoNumber
      <3>1. PICK f \in Document :
               NumberOf(f) # NoNumber /\ SameSeries(NumberOf(e), NumberOf(f))
               /\ NumberOf(e).number = NumberOf(f).number + Step
        BY DEF DrawnGapless
      <3>2. lock[NumberOf(e).row] # w
        BY <2>2, DrawnUnderLock
      <3>3. owner[f] # w
        BY <1>2, <3>1, <3>2, DrawnUnderLock, NoTxnAssumption DEF SameSeries
      <3> QED
        BY <1>3, <3>1, <3>3
    <2> QED
      BY <2>1, <2>2
  <1>12. FrontierInv'
    <2> SUFFICES ASSUME NEW r \in GaplessRows
                 PROVE  /\ \/ Fresh(r, live'[r])
                           \/ \E e \in Document : NumberOf(e)' # NoNumber /\ Last(NumberOf(e)', r, live'[r])
                        /\ \/ Fresh(r, committed[r])
                           \/ \E e \in Document : booked[e] # NoNumber /\ Last(booked[e], r, committed[r])
      BY <1>1 DEF FrontierInv, Fresh, Last, GaplessRows, RowFor
    <2>1. \/ Fresh(r, committed[r])
          \/ \E e \in Document : booked[e] # NoNumber /\ Last(booked[e], r, committed[r])
      BY DEF FrontierInv
    <2>2. CASE lock[r] = w
      <3>1. live'[r] = committed[r]
        BY <1>1, <2>2 DEF GaplessRows
      <3>2. \A e \in Document : booked[e] # NoNumber => NumberOf(e)' = booked[e]
        BY <1>2, <1>3, NoTxnAssumption
      <3>3. CASE Fresh(r, committed[r])
        BY <2>1, <3>1, <3>3
      <3>4. CASE \E e \in Document : booked[e] # NoNumber /\ Last(booked[e], r, committed[r])
        BY <2>1, <3>1, <3>2, <3>4
      <3> QED
        BY <2>1, <3>3, <3>4
    <2>3. CASE lock[r] # w
      <3>1. live'[r] = live[r]
        BY <1>1, <2>3 DEF GaplessRows
      <3>2. ASSUME NEW e \in Document, NumberOf(e) # NoNumber, Last(NumberOf(e), r, live[r])
            PROVE  NumberOf(e)' = NumberOf(e)
        BY <1>3, <2>3, <3>2, DrawnUnderLock, NoTxnAssumption DEF Last
      <3> QED
        BY <2>1, <3>1, <3>2 DEF FrontierInv
    <2> QED
      BY <2>2, <2>3
  <1> QED
    BY <1>4, <1>5, <1>6, <1>7, <1>8, <1>9, <1>10, <1>11, <1>12

\* The invariant is inductive: one step per action of the specification.
LEMMA NextIInv == IInv /\ [Next]_vars => IInv'
  <1> SUFFICES ASSUME IInv, [Next]_vars PROVE IInv'
    OBVIOUS
  <1>1. CASE ClockTick
    BY <1>1, ClockTickIInv
  <1>2. ASSUME NEW w \in Worker, NEW d \in Document, Begin(w, d) PROVE IInv'
    BY <1>2, BeginIInv
  <1>3. ASSUME NEW w \in Worker, SelectForUpdate(w) PROVE IInv'
    BY <1>3, SelectForUpdateIInv
  <1>4. ASSUME NEW w \in Worker, ComputeNumber(w) PROVE IInv'
    BY <1>4, ComputeNumberIInv
  <1>5. ASSUME NEW w \in Worker, FormatAndConsume(w) PROVE IInv'
    BY <1>5, FormatAndConsumeIInv
  <1>6. ASSUME NEW w \in Worker, PeekDone(w) PROVE IInv'
    BY <1>6, PeekDoneIInv
  <1>7. ASSUME NEW w \in Worker, CommitDetached(w) PROVE IInv'
    BY <1>7, CommitDetachedIInv
  <1>8. ASSUME NEW w \in Worker, Commit(w) PROVE IInv'
    BY <1>8, CommitIInv
  <1>9. ASSUME NEW w \in Worker, Throw(w) \/ Abort(w) \/ BreakDeadlock(w) PROVE IInv'
    BY <1>9, RollbackIInv DEF Throw, Abort, BreakDeadlock
  <1>10. CASE UNCHANGED vars
    <2> USE <1>10 DEF vars, callVars, IInv
    <2>1. TypeOK'
      BY DEF TypeOK, dbVars, docVars
    <2>2. WorkerInv'
      BY DEF WorkerInv, Fits, RowFor, dbVars, docVars
    <2>3. RowInv'
      BY DEF RowInv, dbVars
    <2> QED
      BY <2>1, <2>2, <2>3, FrameDocuments
  <1> QED
    BY <1>1, <1>2, <1>3, <1>4, <1>5, <1>6, <1>7, <1>8, <1>9, <1>10 DEF Next

-----------------------------------------------------------------------------
\* The invariant holds in every state of IrSequence::next_ and its callers.
LEMMA Invariance == Spec => []IInv
  BY InitIInv, NextIInv, PTL DEF Spec

\* Every variable of the specification of next_(), its row locks and its
\* callers keeps its type.
THEOREM TypeCorrect == Spec => []TypeOK
  <1>1. IInv => TypeOK
    BY DEF IInv
  <1> QED
    BY <1>1, Invariance, PTL

\* The FOR UPDATE of IrSequence::next_ makes the series duplicate-free: no two
\* committed documents carry the same number of a sequence and period, however
\* many requests draw at once, wait, abort or commit detached numbers.
THEOREM NeverTwice == Spec => []NumbersUnique
  <1>1. IInv => NumbersUnique
    BY DEF IInv, UniqueInv, NumbersUnique, NumberOf
  <1> QED
    BY <1>1, Invariance, PTL

\* nextByCode(txn, code) leaves no gap: whatever aborts, a committed number is
\* the first of its period or the successor of another committed one.
THEOREM Gapless == Spec => []GaplessSeries
  <1>1. IInv => GaplessSeries
    BY DEF IInv
  <1> QED
    BY <1>1, Invariance, PTL
=============================================================================
