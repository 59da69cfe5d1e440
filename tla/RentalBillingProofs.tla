------------------------ MODULE RentalBillingProofs ------------------------
(***************************************************************************)
(* Proofs about RentalBilling, for any lines, contracts, terms, workers    *)
(* and bounds.  What an uncommitted run has linked is disjoint, per period *)
(* start, from what every other run has linked and from every committed    *)
(* invoice; so a commit never adds a period that is already billed.  With  *)
(* that, every step of the code is a step of RentalSchedule or none.       *)
(***************************************************************************)
EXTENDS RentalBilling, TLAPS, WellFoundedInduction

\* The fields of a run; nothing is said of their values.
IsCall(c) == c \in [pc : {c.pc}, start : {c.start}, todo : {c.todo},
                    later : {c.later}, lines : {c.lines}]

CallShape ==
    /\ call = [w \in Worker |-> call[w]]
    /\ \A w \in Worker : IsCall(call[w])

\* Two runs in the middle of groups with one start have linked different lines.
PendingDisjoint ==
    \A w, v \in Worker :
        w # v /\ call[w].start = call[v].start => call[w].lines \cap call[v].lines = {}

\* A run has linked no line that is billed for the start of its group.
PendingUnbilled ==
    \A w \in Worker : \A i \in DOMAIN invoices :
        invoices[i].start = call[w].start => invoices[i].lines \cap call[w].lines = {}

\* One invoice after the other; nothing is said of what is on them.
InvoicesShape == \E S : invoices \in Seq(S)

IInv ==
    /\ InvoicesShape
    /\ CallShape
    /\ PendingDisjoint
    /\ PendingUnbilled
    /\ BilledOnce

-----------------------------------------------------------------------------
\* A new invoice is one more, and leaves the others where they are.
LEMMA AppendFacts ==
    ASSUME NEW S, NEW s \in Seq(S), NEW e
    PROVE  /\ Append(s, e) \in Seq(S \cup {e})
           /\ DOMAIN Append(s, e) = DOMAIN s \cup {Len(s) + 1}
           /\ Len(s) + 1 \notin DOMAIN s
           /\ \A i \in DOMAIN s : Append(s, e)[i] = s[i]
           /\ Append(s, e)[Len(s) + 1] = e
  <1>1. s \in Seq(S \cup {e})
    <2>1. /\ Len(s) \in Nat /\ DOMAIN s = 1..Len(s) /\ \A i \in 1..Len(s) : s[i] \in S
          /\ s = [i \in 1..Len(s) |-> s[i]]
      OBVIOUS
    <2> QED
      BY <2>1
  <1> QED
    BY <1>1

\* A line is billed for the start of an invoice it is on, and no other.
LEMMA BilledFact ==
    ASSUME NEW l, NEW start
    PROVE  <<l, start>> \in Billed
             <=> \E i \in DOMAIN invoices : l \in invoices[i].lines /\ start = invoices[i].start
  BY DEF Billed, Schedule!Billed

\* A run that comes to its next group, or to its end, has linked nothing yet.
LEMMA FirstOfLinksNothing ==
    ASSUME NEW groups
    PROVE  IsCall(FirstOf(groups)) /\ FirstOf(groups).lines = {}
  BY DEF FirstOf, Idle, IsCall

\* A step that sets one run to one that has linked nothing, and bills nothing,
\* keeps the invariant.
LEMMA RestartKeeps ==
    ASSUME IInv, NEW w \in Worker, NEW c, IsCall(c), c.lines = {},
           call' = [call EXCEPT ![w] = c], UNCHANGED invoices
    PROVE  IInv'
  <1>1. \A v \in Worker : call'[v] = IF v = w THEN c ELSE call[v]
    BY DEF IInv, CallShape
  <1>2. CallShape'
    BY <1>1 DEF IInv, CallShape
  <1>3. PendingDisjoint'
    BY <1>1 DEF IInv, PendingDisjoint
  <1>4. PendingUnbilled'
    BY <1>1 DEF IInv, PendingUnbilled
  <1>5. BilledOnce'
    BY DEF IInv, BilledOnce
  <1> QED
    BY <1>2, <1>3, <1>4, <1>5 DEF IInv, InvoicesShape

\* A step that touches neither the runs nor the invoices keeps the invariant.
LEMMA FrameKeeps ==
    ASSUME IInv, UNCHANGED <<call, invoices>>
    PROVE  IInv'
  BY DEF IInv, InvoicesShape, CallShape, PendingDisjoint, PendingUnbilled, BilledOnce

\* The next group of a run, whatever became of the last one.
LEMMA NextGroupKeeps ==
    ASSUME IInv, NEW w \in Worker, NextGroup(w), UNCHANGED invoices
    PROVE  IInv'
  BY FirstOfLinksNothing, RestartKeeps DEF NextGroup

\* A run that starts from a due list.
LEMMA RunKeeps ==
    ASSUME IInv, NEW w \in Worker, NEW contract, NEW asOf, Run(w, contract, asOf)
    PROVE  IInv'
  BY FirstOfLinksNothing, RestartKeeps DEF Run

-----------------------------------------------------------------------------
\* A key is inserted only where it is neither billed nor pending.
LEMMA InsertLinkKeeps ==
    ASSUME IInv, NEW w \in Worker, InsertLink(w)
    PROVE  IInv'
  <1> DEFINE l == LineOf(w)
  <1>1. /\ call'[w].start = call[w].start /\ IsCall(call'[w])
        /\ call'[w].lines = call[w].lines \cup {l}
    <2> SUFFICES ASSUME NEW c, c = call[w], NEW d, d = call'[w], NEW lines,
                        lines = call[w].lines \cup {l}
                 PROVE  d.start = c.start /\ IsCall(d) /\ d.lines = lines
      OBVIOUS
    <2>1. d = [c EXCEPT !.pc = "advance", !.lines = lines]
      BY DEF IInv, CallShape, InsertLink
    <2>2. IsCall(c)
      BY DEF IInv, CallShape
    <2> QED
      BY ONLY <2>1, <2>2 DEF IsCall
  <1>2. \A v \in Worker \ {w} : call'[v] = call[v]
    BY DEF IInv, CallShape, InsertLink
  <1>3. CallShape'
    <2>1. call' = [v \in Worker |-> call'[v]]
      BY DEF IInv, CallShape, InsertLink
    <2> QED
      BY <1>1, <1>2, <2>1 DEF IInv, CallShape
  <1>4. PendingDisjoint'
    <2>1. \A v \in Worker \ {w} : call[v].start = call[w].start => l \notin call[v].lines
      BY DEF InsertLink
    <2> QED
      BY <1>1, <1>2, <2>1 DEF IInv, PendingDisjoint
  <1>5. PendingUnbilled'
    <2>1. \A i \in DOMAIN invoices : invoices[i].start = call[w].start => l \notin invoices[i].lines
      BY BilledFact DEF InsertLink
    <2>2. invoices' = invoices
      BY DEF InsertLink
    <2> QED
      BY <1>1, <1>2, <2>1, <2>2 DEF IInv, PendingUnbilled
  <1>6. BilledOnce'
    BY DEF IInv, BilledOnce, InsertLink
  <1> QED
    BY <1>3, <1>4, <1>5, <1>6 DEF IInv, InvoicesShape, InsertLink

\* The UPDATE of a line leaves the links of its group alone.
LEMMA AdvanceLineKeeps ==
    ASSUME IInv, NEW w \in Worker, AdvanceLine(w)
    PROVE  IInv'
  <1>1. \A v \in Worker : /\ call'[v].start = call[v].start
                          /\ call'[v].lines = call[v].lines
                          /\ IsCall(call'[v])
    <2> SUFFICES ASSUME NEW v \in Worker
                 PROVE  /\ call'[v].start = call[v].start
                        /\ call'[v].lines = call[v].lines
                        /\ IsCall(call'[v])
      OBVIOUS
    <2>1. IsCall(call[v])
      BY DEF IInv, CallShape
    <2>2. CASE v = w
      <3> SUFFICES ASSUME NEW c, c = call[v], NEW d, d = call'[v]
                   PROVE  d.start = c.start /\ d.lines = c.lines /\ IsCall(d)
        OBVIOUS
      <3>1. \E todo, pc : d = [c EXCEPT !.todo = todo, !.pc = pc]
        BY <2>2 DEF IInv, CallShape, AdvanceLine
      <3>2. IsCall(c)
        BY <2>1
      <3> QED
        BY ONLY <3>1, <3>2 DEF IsCall
    <2>3. CASE v # w
      BY <2>1, <2>3 DEF IInv, CallShape, AdvanceLine
    <2> QED
      BY <2>2, <2>3
  <1>2. CallShape'
    <2>1. call' = [v \in Worker |-> call'[v]]
      BY DEF IInv, CallShape, AdvanceLine
    <2> QED
      BY <1>1, <2>1 DEF CallShape
  <1>3. invoices' = invoices
    BY DEF AdvanceLine
  <1> QED
    BY <1>1, <1>2, <1>3 DEF IInv, InvoicesShape, PendingDisjoint, PendingUnbilled, BilledOnce

\* The links of a group become visible with its invoice.
LEMMA CommitGroupKeeps ==
    ASSUME IInv, NEW w \in Worker, CommitGroup(w)
    PROVE  IInv'
  <1> DEFINE new == [start |-> call[w].start, lines |-> call[w].lines]
             c == FirstOf(call[w].later)
             last == Len(invoices) + 1
  <1>1. /\ InvoicesShape'
        /\ DOMAIN invoices' = DOMAIN invoices \cup {last}
        /\ \A i \in DOMAIN invoices : invoices'[i] = invoices[i] /\ i # last
        /\ invoices'[last] = new
    <2>1. PICK S : invoices \in Seq(S)
      BY DEF IInv, InvoicesShape
    <2>2. invoices' = Append(invoices, new)
      BY DEF CommitGroup
    <2> HIDE DEF new, last
    <2>3. /\ Append(invoices, new) \in Seq(S \cup {new})
          /\ DOMAIN Append(invoices, new) = DOMAIN invoices \cup {last}
          /\ last \notin DOMAIN invoices
          /\ \A i \in DOMAIN invoices : Append(invoices, new)[i] = invoices[i]
          /\ Append(invoices, new)[last] = new
      BY <2>1, AppendFacts DEF last
    <2> QED
      BY <2>2, <2>3, Zenon DEF InvoicesShape
  <1>2. call' = [call EXCEPT ![w] = c] /\ IsCall(c) /\ c.lines = {}
    BY FirstOfLinksNothing DEF CommitGroup, NextGroup
  <1>3. \A v \in Worker : call'[v] = IF v = w THEN c ELSE call[v]
    BY <1>2 DEF IInv, CallShape
  <1>4. CallShape'
    BY <1>2, <1>3 DEF IInv, CallShape
  <1>5. PendingDisjoint'
    BY <1>2, <1>3 DEF IInv, PendingDisjoint
  <1>6. PendingUnbilled'
    <2> SUFFICES ASSUME NEW v \in Worker, NEW i \in DOMAIN invoices',
                        invoices'[i].start = call'[v].start
                 PROVE  invoices'[i].lines \cap call'[v].lines = {}
      BY DEF PendingUnbilled
    <2>1. CASE v = w
      BY <1>2, <1>3, <2>1
    <2>2. CASE v # w /\ i = last
      BY <1>1, <1>3, <2>2 DEF IInv, PendingDisjoint
    <2>3. CASE v # w /\ i \in DOMAIN invoices
      BY <1>1, <1>3, <2>3 DEF IInv, PendingUnbilled
    <2> QED
      BY <1>1, <2>1, <2>2, <2>3
  <1>7. BilledOnce'
    <2>1. \A i \in DOMAIN invoices :
             invoices[i].start = new.start => invoices[i].lines \cap new.lines = {}
      BY DEF IInv, PendingUnbilled
    <2> HIDE DEF new, last
    <2> QED
      BY <1>1, <2>1 DEF IInv, BilledOnce
  <1> QED
    BY <1>1, <1>4, <1>5, <1>6, <1>7 DEF IInv

\* Every run is gone, every committed invoice stays.
LEMMA CrashKeeps ==
    ASSUME IInv, Crash
    PROVE  IInv'
  <1>1. \A w \in Worker : call'[w] = Idle
    BY DEF Crash
  <1>2. CallShape'
    BY DEF Crash, CallShape, IsCall, Idle
  <1>3. Idle.lines = {}
    BY DEF Idle
  <1> QED
    BY <1>1, <1>2, <1>3
       DEF IInv, InvoicesShape, PendingDisjoint, PendingUnbilled, BilledOnce, Crash

-----------------------------------------------------------------------------
\* The invariant holds at the start.
LEMMA InitIInv == Init => IInv
  <1> SUFFICES ASSUME Init
               PROVE  IInv
    OBVIOUS
  <1>1. \A w \in Worker : call[w] = Idle
    BY DEF Init
  <1>2. CallShape
    BY DEF Init, CallShape, IsCall, Idle
  <1>3. Idle.lines = {}
    BY DEF Idle
  <1> QED
    BY <1>1, <1>2, <1>3
       DEF IInv, InvoicesShape, PendingDisjoint, PendingUnbilled, BilledOnce, Init

\* Every step keeps it.
LEMMA NextIInv == IInv /\ [Next]_vars => IInv'
  <1> SUFFICES ASSUME IInv, [Next]_vars
               PROVE  IInv'
    OBVIOUS
  <1>1. CASE Tick
    BY <1>1, FrameKeeps DEF Tick
  <1>2. ASSUME NEW l \in Line, Book(l)
        PROVE  IInv'
    BY <1>2, FrameKeeps DEF Book, SetRow
  <1>3. ASSUME NEW l \in Line, NEW state, SetState(l, state)
        PROVE  IInv'
    BY <1>3, FrameKeeps DEF SetState, SetRow
  <1>4. CASE CronRun
    BY <1>4, BillingAssumption, RunKeeps DEF CronRun
  <1>5. ASSUME NEW w \in Worker, NEW asOf, GenerateNow(w, asOf)
        PROVE  IInv'
    BY <1>5, RunKeeps DEF GenerateNow
  <1>6. ASSUME NEW w \in Worker, NEW contract, CreateInvoice(w, contract)
        PROVE  IInv'
    BY <1>6, RunKeeps DEF CreateInvoice
  <1>7. ASSUME NEW w \in Worker, RunStep(w)
        PROVE  IInv'
    <2>1. CASE InsertLink(w)
      BY <2>1, InsertLinkKeeps
    <2>2. CASE Duplicate(w)
      BY <2>2, NextGroupKeeps DEF Duplicate
    <2>3. CASE AdvanceLine(w)
      BY <2>3, AdvanceLineKeeps
    <2>4. CASE CommitGroup(w)
      BY <2>4, CommitGroupKeeps
    <2> QED
      BY <1>7, <2>1, <2>2, <2>3, <2>4 DEF RunStep
  <1>8. ASSUME NEW w \in Worker, GroupFails(w)
        PROVE  IInv'
    BY <1>8, NextGroupKeeps DEF GroupFails
  <1>9. CASE Crash
    BY <1>9, CrashKeeps
  <1>10. CASE UNCHANGED vars
    BY <1>10, FrameKeeps DEF vars
  <1> QED
    BY <1>1, <1>2, <1>3, <1>4, <1>5, <1>6, <1>7, <1>8, <1>9, <1>10 DEF Next

\* "UNIQUE (contract_line_id, period_start) makes double-billing impossible even
\* if the cron fires twice, the process restarts mid-run, or someone clicks
\* 'Generate invoices now' twice": whatever RentalBilling::run interleaves with,
\* no period of a line is on two invoices, not even on two that are alike.
THEOREM NeverBilledTwice == Spec => []BilledOnce
  <1>1. IInv => BilledOnce
    BY DEF IInv
  <1> QED
    BY InitIInv, NextIInv, <1>1, PTL DEF Spec

-----------------------------------------------------------------------------
(* RentalBilling implements RentalSchedule.  What a run read of the due list *)
(* is stale by the time it bills; but of every line it still has to do, the  *)
(* period it read is the line's current one, or it is billed already.  The   *)
(* lines it has done are locked, so the period it linked is still current    *)
(* when the invoice and the advances are committed.                          *)

Date == Nat \cup {NoDate}
Version == [state : {"absent", "pending", "active", "ended"}, next : Date]

RowsOK ==
    /\ committed \in [Line -> Version]
    /\ live \in [Line -> Version]
    /\ lock \in [Line -> Worker \cup {NoTxn}]

\* The period of l that starts on start is current, or billed.
OfPeriod(l, start) ==
    \/ Schedule!PeriodStart(l, Current(l, committed[l])) = start
    \/ <<l, start>> \in Billed

\* Lines that were due, with their dates, for the period that starts on start.
GroupOK(start, todo) ==
    /\ DOMAIN todo \subseteq Line
    /\ \A l \in DOMAIN todo : todo[l] \in Nat /\ OfPeriod(l, start)

\* What a run does of a group, by its place in it.
PlaceOK(w) ==
    LET todo == DOMAIN call[w].todo
        lines == call[w].lines
    IN /\ call[w].pc \in {"idle", "link", "advance", "commit"}
       /\ At(w, "idle") => todo = {} /\ lines = {}
       /\ At(w, "link") => todo # {} /\ todo \cap lines = {}
       /\ At(w, "advance") => LineOf(w) \in todo /\ todo \cap lines = {LineOf(w)}
       /\ At(w, "commit") => todo = {} /\ lines # {}

RunOK(w) ==
    /\ PlaceOK(w)
    /\ GroupOK(call[w].start, call[w].todo)
    /\ call[w].lines \subseteq Line
    /\ \A l \in call[w].lines : OfPeriod(l, call[w].start)
    /\ \A g \in call[w].later :
          g.start \in Nat /\ GroupOK(g.start, g.todo) /\ DOMAIN g.todo # {}

\* The period after the one that version of line l is due for.
NextDue(l, version) ==
    IF terms[l].mode = "oneoff" THEN version.next
    ELSE Schedule!NextPeriod(l, Current(l, version))

\* A run holds the rows it has advanced, and no others.
LocksOK ==
    \A l \in Line :
        /\ lock[l] = NoTxn => live[l] = committed[l]
        /\ lock[l] # NoTxn => live[l].next = NextDue(l, committed[l])
        /\ \A w \in Worker :
              lock[l] = w <=> l \in call[w].lines /\ l \notin DOMAIN call[w].todo

RInv ==
    /\ RowsOK
    /\ \A w \in Worker : RunOK(w)
    /\ LocksOK

-----------------------------------------------------------------------------
\* A set of dates, or of ids, has a first one.
LEMMA LeastNat ==
    ASSUME NEW S \in SUBSET Nat, S # {}
    PROVE  \E x \in S : \A y \in S : x <= y
  <1>1. IsWellFoundedOn(OpToRel(<, Nat), Nat)
    BY NatLessThanWellFounded, Zenon
  <1>2. PICK x \in S : \A y \in S : <<y, x>> \notin OpToRel(<, Nat)
    BY <1>1, WFMin, Zenon
  <1>3. \A y \in S : ~(y < x)
    BY <1>2, Zenon DEF OpToRel
  <1> QED
    BY <1>3

\* Months and their days are natural numbers.
LEMMA MonthFacts ==
    ASSUME NEW a \in Nat, NEW m \in Nat \ {0}, NEW k \in Nat
    PROVE  a \div m \in Nat /\ k * m \in Nat
  OBVIOUS

\* Every date that is computed is one.
LEMMA DatesAreNat ==
    ASSUME NEW l \in Line
    PROVE  /\ \A v \in Version : Current(l, v) \in Nat
           /\ \A d \in Nat : Schedule!PeriodStart(l, d) \in Nat
           /\ \A d \in Nat : Schedule!NextPeriod(l, d) \in Nat
  <1>1. /\ terms[l].start \in Nat /\ terms[l].interval \in Nat /\ terms[l].anchor \in 1..31
        /\ monthLength \in Nat \ {0}
    BY BillingAssumption
  <1>2. \A v \in Version : Current(l, v) \in Nat
    BY <1>1 DEF Current, Version, Date
  <1>3. \A d \in Nat : d \div monthLength \in Nat
    BY <1>1, MonthFacts
  <1>4. \A d \in Nat : (d \div monthLength) * monthLength \in Nat
    BY <1>1, <1>3, MonthFacts
  <1>5. \A d \in Nat : ((d \div monthLength) + terms[l].interval) * monthLength \in Nat
    <2> SUFFICES ASSUME NEW d \in Nat
                 PROVE  ((d \div monthLength) + terms[l].interval) * monthLength \in Nat
      OBVIOUS
    <2>1. (d \div monthLength) + terms[l].interval \in Nat
      BY <1>1, <1>3
    <2> QED
      BY <1>1, <2>1, MonthFacts
  <1>6. \A d \in Nat : Schedule!PeriodStart(l, d) \in Nat
    BY <1>4 DEF Schedule!PeriodStart
  <1>7. \A d \in Nat : Schedule!NextPeriod(l, d) \in Nat
    <2> SUFFICES ASSUME NEW d \in Nat
                 PROVE  Schedule!NextPeriod(l, d) \in Nat
      OBVIOUS
    <2> DEFINE start == ((d \div monthLength) + terms[l].interval) * monthLength
               day == IF terms[l].anchor < monthLength THEN terms[l].anchor ELSE monthLength
    <2>1. start \in Nat
      BY <1>5
    <2>2. day \in Nat \ {0} /\ terms[l].interval \in Nat
      BY <1>1
    <2>3. start + day - 1 \in Nat /\ d + terms[l].interval \in Nat
      <3> HIDE DEF start, day
      <3> QED
        BY <2>1, <2>2
    <2> QED
      BY <2>3, Zenon DEF Schedule!NextPeriod
  <1> QED
    BY <1>2, <1>6, <1>7

\* The next version of a line is a version.
LEMMA NextDueIsDate ==
    ASSUME NEW l \in Line, NEW v \in Version
    PROVE  NextDue(l, v) \in Date
  BY DatesAreNat DEF NextDue, Version, Date

\* The loop over a group has a line to be at, as long as one is left.
LEMMA LineOfIsThere ==
    ASSUME NEW w \in Worker, GroupOK(call[w].start, call[w].todo), DOMAIN call[w].todo # {}
    PROVE  LineOf(w) \in DOMAIN call[w].todo
  <1> DEFINE todo == call[w].todo
             D == {todo[l] : l \in DOMAIN todo}
  <1>1. D \in SUBSET Nat /\ D # {}
    BY DEF GroupOK
  <1>2. PICK d \in D : \A e \in D : d <= e
    BY <1>1, LeastNat
  <1> DEFINE F == {l \in DOMAIN todo : todo[l] = d}
             I == {id[l] : l \in F}
  <1>3. \A l \in Line : id[l] \in Nat
    BY BillingAssumption DEF Injection
  <1>4. I \in SUBSET Nat /\ I # {}
    BY <1>2, <1>3 DEF GroupOK
  <1>5. PICK i \in I : \A j \in I : i <= j
    BY <1>4, LeastNat
  <1>6. PICK f \in F : id[f] = i
    BY <1>5
  <1>7. \A k \in DOMAIN todo : Before(todo, f, k)
    <2> SUFFICES ASSUME NEW k \in DOMAIN todo
                 PROVE  Before(todo, f, k)
      OBVIOUS
    <2>1. todo[k] \in D /\ d \in Nat /\ todo[k] \in Nat
      BY <1>1
    <2>2. d <= todo[k] /\ todo[f] = d
      BY <1>2, <1>6, <2>1
    <2>3. CASE todo[k] = d
      <3>1. id[k] \in I
        BY <2>3
      <3> QED
        BY <1>5, <1>6, <2>2, <2>3, <3>1 DEF Before
    <2>4. CASE todo[k] # d
      BY <2>1, <2>2, <2>4 DEF Before
    <2> QED
      BY <2>3, <2>4
  <1> QED
    BY <1>6, <1>7 DEF LineOf

-----------------------------------------------------------------------------
\* What is billed stays billed, so a line that is not advanced stays of its
\* period, or billed for it.
LEMMA OfPeriodStays ==
    ASSUME NEW l \in Line, NEW start, OfPeriod(l, start), Billed \subseteq Billed',
           committed[l].next = committed'[l].next
    PROVE  OfPeriod(l, start)'
  BY DEF OfPeriod, Current

\* A step that changes neither the runs nor any date keeps what is said of runs.
LEMMA RunsStay ==
    ASSUME NEW v \in Worker, RunOK(v), call'[v] = call[v], Billed \subseteq Billed',
           \A l \in Line : committed[l].next = committed'[l].next
    PROVE  RunOK(v)'
  <1>1. PlaceOK(v)'
    BY DEF RunOK, PlaceOK, At, LineOf, Before
  <1>2. \A start, todo : GroupOK(start, todo) => GroupOK(start, todo)'
    BY OfPeriodStays DEF GroupOK
  <1>3. \A l \in call[v].lines : OfPeriod(l, call[v].start)'
    BY OfPeriodStays DEF RunOK
  <1> QED
    BY <1>1, <1>2, <1>3 DEF RunOK

\* A run that comes to its next group, or to its end.
LEMMA FirstOfIsGroup ==
    ASSUME NEW groups, groups # {}, \A g \in groups : g.start \in Nat
    PROVE  \E g \in groups :
             FirstOf(groups) = [pc |-> "link", start |-> g.start, todo |-> g.todo,
                                later |-> groups \ {g}, lines |-> {}]
  <1> DEFINE D == {g.start : g \in groups}
  <1>1. PICK d \in D : \A e \in D : d <= e
    BY LeastNat
  <1>2. PICK f \in groups : f.start = d
    BY <1>1
  <1>3. \A h \in groups : f.start <= h.start
    BY <1>1, <1>2
  <1> DEFINE g == CHOOSE g \in groups : \A h \in groups : g.start <= h.start
  <1>4. g \in groups
    BY <1>3
  <1>5. FirstOf(groups) = [pc |-> "link", start |-> g.start, todo |-> g.todo,
                           later |-> groups \ {g}, lines |-> {}]
    BY DEF FirstOf
  <1> QED
    BY <1>4, <1>5

\* What it starts with is well-formed.
LEMMA RestartOK ==
    ASSUME NEW w \in Worker, NEW groups, call'[w] = FirstOf(groups),
           \A g \in groups :
              g.start \in Nat /\ GroupOK(g.start, g.todo)' /\ DOMAIN g.todo # {}
    PROVE  RunOK(w)' /\ call'[w].lines = {}
  <1>1. CASE groups = {}
    <2>1. FirstOf(groups) = Idle /\ DOMAIN Idle.todo = {}
      BY <1>1 DEF FirstOf, Idle
    <2>2. /\ Idle.pc = "idle" /\ Idle.lines = {} /\ Idle.later = {}
      BY DEF Idle
    <2> QED
      BY <2>1, <2>2 DEF RunOK, PlaceOK, GroupOK, At
  <1>2. CASE groups # {}
    <2>1. PICK g \in groups :
             FirstOf(groups) = [pc |-> "link", start |-> g.start, todo |-> g.todo,
                                later |-> groups \ {g}, lines |-> {}]
      BY <1>2, FirstOfIsGroup
    <2>2. /\ call'[w].pc = "link" /\ call'[w].start = g.start /\ call'[w].todo = g.todo
          /\ call'[w].later = groups \ {g} /\ call'[w].lines = {}
      BY <2>1
    <2> HIDE <2>1
    <2>3. PlaceOK(w)'
      BY <2>2 DEF PlaceOK, At
    <2>4. GroupOK(call[w].start, call[w].todo)'
      BY <2>2 DEF GroupOK, OfPeriod
    <2> QED
      BY <2>2, <2>3, <2>4 DEF RunOK
  <1> QED
    BY <1>1, <1>2

-----------------------------------------------------------------------------
\* What a commit makes of the rows.
LEMMA RollbackRows ==
    ASSUME RowsOK, NEW w \in Worker, RollbackTxn(w)
    PROVE  /\ RowsOK' /\ committed' = committed
           /\ \A l \in Line : /\ live'[l] = IF lock[l] = w THEN committed[l] ELSE live[l]
                              /\ lock'[l] = IF lock[l] = w THEN NoTxn ELSE lock[l]
  <1>1. Row = Line
    BY BillingAssumption
  <1> QED
    BY <1>1 DEF RollbackTxn, RowsOK

\* A run that drops its group and goes on with the next one.
LEMMA RollbackKeepsRInv ==
    ASSUME RInv, CallShape, NEW w \in Worker, RollbackTxn(w), NextGroup(w), UNCHANGED invoices
    PROVE  RInv'
  <1>1. /\ RowsOK' /\ committed' = committed
        /\ \A l \in Line : /\ live'[l] = IF lock[l] = w THEN committed[l] ELSE live[l]
                           /\ lock'[l] = IF lock[l] = w THEN NoTxn ELSE lock[l]
    BY RollbackRows DEF RInv
  <1>2. /\ call'[w] = FirstOf(call[w].later)
        /\ \A v \in Worker : v # w => call'[v] = call[v]
    BY DEF NextGroup, CallShape
  <1>3. Billed' = Billed
    BY DEF Billed, Schedule!Billed
  <1>4. \A start, todo : GroupOK(start, todo) => GroupOK(start, todo)'
    BY <1>1, <1>3 DEF GroupOK, OfPeriod
  <1>5. RunOK(w)' /\ call'[w].lines = {}
    BY <1>2, <1>4, RestartOK DEF RInv, RunOK
  <1>6. \A v \in Worker : v # w => RunOK(v)'
    BY <1>1, <1>2, <1>3, RunsStay DEF RInv
  <1>7. LocksOK'
    <2> SUFFICES ASSUME NEW l \in Line
                 PROVE  /\ lock'[l] = NoTxn => live'[l] = committed'[l]
                        /\ lock'[l] # NoTxn => live'[l].next = NextDue(l, committed'[l])
                        /\ \A v \in Worker :
                              lock'[l] = v <=> l \in call'[v].lines /\ l \notin DOMAIN call'[v].todo
      BY DEF LocksOK, NextDue, Current
    <2>1. /\ lock[l] = NoTxn => live[l] = committed[l]
          /\ lock[l] # NoTxn => live[l].next = NextDue(l, committed[l])
          /\ \A v \in Worker :
                lock[l] = v <=> l \in call[v].lines /\ l \notin DOMAIN call[v].todo
      BY DEF RInv, LocksOK
    <2>2. ASSUME NEW v \in Worker
          PROVE  lock'[l] = v <=> l \in call'[v].lines /\ l \notin DOMAIN call'[v].todo
      <3>1. CASE v = w
        BY <1>1, <1>5, <3>1, NoTxnAssumption
      <3>2. CASE v # w
        BY <1>1, <1>2, <2>1, <3>2, NoTxnAssumption
      <3> QED
        BY <3>1, <3>2
    <2> QED
      BY <1>1, <2>1, <2>2
  <1> QED
    BY <1>1, <1>5, <1>6, <1>7 DEF RInv

\* The due list that a run reads is of current periods.
LEMMA DueGroupsOK ==
    ASSUME RowsOK, NEW contract, NEW asOf
    PROVE  \A g \in DueGroups(contract, asOf) :
              g.start \in Nat /\ GroupOK(g.start, g.todo) /\ DOMAIN g.todo # {}
  <1> DEFINE dueLines == {l \in Line : Due(l, contract, asOf)}
             start(l) == Schedule!PeriodStart(l, Current(l, committed[l]))
             group(s) == [l \in {k \in dueLines : start(k) = s} |-> Current(l, committed[l])]
  <1>1. \A l \in Line : Current(l, committed[l]) \in Nat /\ start(l) \in Nat
    BY DatesAreNat DEF RowsOK
  <1> SUFFICES ASSUME NEW g \in DueGroups(contract, asOf)
               PROVE  g.start \in Nat /\ GroupOK(g.start, g.todo) /\ DOMAIN g.todo # {}
    OBVIOUS
  <1>2. PICK k \in dueLines : g = [start |-> start(k), todo |-> group(start(k))]
    BY DEF DueGroups
  <1>3. g.start = start(k) /\ g.todo = group(start(k))
    BY <1>2
  <1>4. DOMAIN g.todo = {l \in dueLines : start(l) = start(k)}
    BY <1>3
  <1>5. \A l \in DOMAIN g.todo : g.todo[l] \in Nat
    BY <1>1, <1>3, <1>4
  <1>6. \A l \in DOMAIN g.todo : OfPeriod(l, g.start)
    BY <1>3, <1>4 DEF OfPeriod
  <1> QED
    BY <1>1, <1>3, <1>4, <1>5, <1>6 DEF GroupOK

\* A run that starts.
LEMMA RunKeepsRInv ==
    ASSUME RInv, CallShape, NEW w \in Worker, NEW contract, NEW asOf, Run(w, contract, asOf)
    PROVE  RInv'
  <1>1. /\ call'[w] = FirstOf(DueGroups(contract, asOf))
        /\ \A v \in Worker : v # w => call'[v] = call[v]
    BY DEF Run, CallShape
  <1>2. UNCHANGED <<committed, live, lock>> /\ Billed' = Billed
    BY DEF Run, dbVars, Billed, Schedule!Billed
  <1>3. \A start, todo : GroupOK(start, todo) => GroupOK(start, todo)'
    BY <1>2 DEF GroupOK, OfPeriod
  <1>4. RunOK(w)' /\ call'[w].lines = {}
    BY <1>1, <1>3, DueGroupsOK, RestartOK DEF RInv
  <1>5. \A v \in Worker : v # w => RunOK(v)'
    BY <1>1, <1>2, RunsStay DEF RInv
  <1>6. call[w].lines = {}
    BY DEF Run, Idle
  <1>7. LocksOK'
    BY <1>1, <1>2, <1>4, <1>6 DEF RInv, LocksOK, NextDue, Current
  <1> QED
    BY <1>2, <1>4, <1>5, <1>7 DEF RInv, RowsOK

\* The key of the line the loop is at is inserted: it is not billed, so its
\* period is current.
LEMMA InsertLinkKeepsRInv ==
    ASSUME RInv, CallShape, NEW w \in Worker, InsertLink(w)
    PROVE  RInv'
  <1> DEFINE l == LineOf(w)
  <1>1. UNCHANGED <<committed, live, lock>> /\ Billed' = Billed
    BY DEF InsertLink, dbVars, Billed, Schedule!Billed
  <1>2. /\ call'[w].pc = "advance" /\ call'[w].start = call[w].start
        /\ call'[w].todo = call[w].todo /\ call'[w].later = call[w].later
        /\ call'[w].lines = call[w].lines \cup {l}
    <2> SUFFICES ASSUME NEW c, c = call[w], NEW d, d = call'[w], NEW lines,
                        lines = call[w].lines \cup {l}
                 PROVE  /\ d.pc = "advance" /\ d.start = c.start /\ d.todo = c.todo
                        /\ d.later = c.later /\ d.lines = lines
      OBVIOUS
    <2>1. d = [c EXCEPT !.pc = "advance", !.lines = lines]
      BY DEF CallShape, InsertLink
    <2>2. IsCall(c)
      BY DEF CallShape
    <2> QED
      BY ONLY <2>1, <2>2 DEF IsCall
  <1>3. \A v \in Worker : v # w => call'[v] = call[v]
    BY DEF CallShape, InsertLink
  <1>4. RunOK(w) /\ At(w, "link")
    BY DEF RInv, InsertLink
  <1>5. l \in DOMAIN call[w].todo
    BY <1>4, LineOfIsThere DEF RunOK, PlaceOK
  <1>6. \A start, todo : GroupOK(start, todo) => GroupOK(start, todo)'
    BY <1>1 DEF GroupOK, OfPeriod
  <1>7. RunOK(w)'
    <2>1. LineOf(w)' = l
      BY <1>2 DEF LineOf, Before
    <2>2. PlaceOK(w)'
      BY <1>2, <1>4, <1>5, <2>1 DEF RunOK, PlaceOK, At
    <2>3. OfPeriod(l, call[w].start) /\ l \in Line
      BY <1>4, <1>5 DEF RunOK, GroupOK
    <2>4. \A k \in call'[w].lines : OfPeriod(k, call[w].start)'
      BY <1>1, <1>2, <1>4, <2>3 DEF RunOK, OfPeriod
    <2> QED
      BY <1>2, <1>4, <1>6, <2>2, <2>3, <2>4 DEF RunOK
  <1>8. \A v \in Worker : v # w => RunOK(v)'
    BY <1>1, <1>3, RunsStay DEF RInv
  <1>9. LocksOK'
    <2>1. \A k \in Line : (k \in call'[w].lines /\ k \notin DOMAIN call'[w].todo)
                            <=> (k \in call[w].lines /\ k \notin DOMAIN call[w].todo)
      BY <1>2, <1>5
    <2> QED
      BY <1>1, <1>3, <2>1 DEF RInv, LocksOK, NextDue, Current
  <1> QED
    BY <1>1, <1>7, <1>8, <1>9 DEF RInv, RowsOK

\* The line that was just linked is locked and advanced from its current date.
LEMMA AdvanceLineKeepsRInv ==
    ASSUME RInv, CallShape, NEW w \in Worker, AdvanceLine(w)
    PROVE  RInv'
  <1> DEFINE l == LineOf(w)
             todo == Restrict(call[w].todo, DOMAIN call[w].todo \ {l})
             pc == IF DOMAIN todo = {} THEN "commit" ELSE "link"
             next == IF terms[l].mode = "oneoff" THEN live[l].next
                     ELSE Schedule!NextPeriod(l, Current(l, live[l]))
  <1>1. UNCHANGED committed /\ Billed' = Billed
    BY DEF AdvanceLine, Write, Billed, Schedule!Billed
  <1>2. /\ call'[w].pc = pc /\ call'[w].start = call[w].start
        /\ call'[w].todo = todo /\ call'[w].later = call[w].later
        /\ call'[w].lines = call[w].lines
    <2>1. call'[w] = [call[w] EXCEPT !.todo = todo, !.pc = pc]
      BY DEF CallShape, AdvanceLine
    <2>2. IsCall(call[w])
      BY DEF CallShape
    <2> HIDE DEF todo, pc
    <2>3. PICK c : c = call[w]
      OBVIOUS
    <2>4. PICK d : d = call'[w]
      OBVIOUS
    <2>5. d = [c EXCEPT !.todo = todo, !.pc = pc] /\ IsCall(c)
      BY <2>1, <2>2, <2>3, <2>4
    <2>6. /\ d.pc = pc /\ d.start = c.start /\ d.todo = todo
          /\ d.later = c.later /\ d.lines = c.lines
      BY ONLY <2>5 DEF IsCall
    <2> QED
      BY <2>3, <2>4, <2>6
  <1>3. \A v \in Worker : v # w => call'[v] = call[v]
    BY DEF CallShape, AdvanceLine
  <1>4. RunOK(w) /\ At(w, "advance")
    BY DEF RInv, AdvanceLine
  <1>5. /\ l \in DOMAIN call[w].todo /\ l \in Line /\ l \in call[w].lines
        /\ DOMAIN call[w].todo \cap call[w].lines = {l}
    BY <1>4 DEF RunOK, PlaceOK, GroupOK
  <1>6. DOMAIN todo = DOMAIN call[w].todo \ {l} /\ \A k \in DOMAIN todo : todo[k] = call[w].todo[k]
    BY DEF Restrict
  <1> HIDE DEF todo, pc
  <1>7. pc \in {"commit", "link"} /\ (pc = "commit" <=> DOMAIN todo = {})
    BY DEF pc
  <1>8. \A start, f : GroupOK(start, f) => GroupOK(start, f)'
    BY <1>1 DEF GroupOK, OfPeriod
  <1>9. RunOK(w)'
    <2>1. PlaceOK(w)'
      BY <1>2, <1>4, <1>5, <1>6, <1>7 DEF RunOK, PlaceOK, At
    <2>2. GroupOK(call[w].start, call[w].todo)'
      BY <1>1, <1>2, <1>4, <1>6 DEF RunOK, GroupOK, OfPeriod
    <2>3. \A k \in call'[w].lines : OfPeriod(k, call[w].start)'
      BY <1>1, <1>2, <1>4 DEF RunOK, OfPeriod
    <2> QED
      BY <1>2, <1>4, <1>8, <2>1, <2>2, <2>3 DEF RunOK
  <1>10. \A v \in Worker : v # w => RunOK(v)'
    BY <1>1, <1>3, RunsStay DEF RInv
  <1>11. lock[l] = NoTxn /\ live[l] = committed[l]
    <2>1. lock[l] \in {w, NoTxn}
      BY DEF AdvanceLine, Write, Free
    <2> QED
      BY <1>5, <2>1 DEF RInv, LocksOK
  <1>12. next = NextDue(l, committed[l])
    BY <1>11 DEF NextDue
  <1>13. \A k \in Line :
            /\ live'[k] = IF k = l THEN [live[l] EXCEPT !.next = next] ELSE live[k]
            /\ lock'[k] = IF k = l THEN w ELSE lock[k]
    BY BillingAssumption DEF AdvanceLine, Write
  <1>14. live'[l] \in Version /\ live'[l].next = next
    <2>1. live[l] \in Version /\ next \in Date
      BY <1>5, <1>11, <1>12, NextDueIsDate DEF RInv, RowsOK
    <2> HIDE DEF next
    <2>2. live'[l] = [live[l] EXCEPT !.next = next]
      BY <1>5, <1>13
    <2> QED
      BY <2>1, <2>2 DEF Version
  <1>15. RowsOK'
    <2>1. /\ live' = [k \in Line |-> live'[k]] /\ lock' = [k \in Line |-> lock'[k]]
      BY BillingAssumption DEF AdvanceLine, Write
    <2>2. \A k \in Line : live'[k] \in Version /\ lock'[k] \in Worker \cup {NoTxn}
      BY <1>13, <1>14 DEF RInv, RowsOK
    <2>3. committed' \in [Line -> Version]
      BY <1>1 DEF RInv, RowsOK
    <2> QED
      BY <2>1, <2>2, <2>3 DEF RowsOK
  <1>16. LocksOK'
    <2> HIDE DEF l, next
    <2>1. \A k \in Line : NextDue(k, committed[k])' = NextDue(k, committed[k])
      BY <1>1 DEF NextDue, Current
    <2>2. ASSUME NEW k \in Line
          PROVE  /\ lock'[k] = NoTxn => live'[k] = committed'[k]
                 /\ lock'[k] # NoTxn => live'[k].next = NextDue(k, committed[k])
      <3>1. CASE k = l
        BY <1>5, <1>12, <1>13, <1>14, <3>1, NoTxnAssumption
      <3>2. CASE k # l
        BY <1>1, <1>13, <3>2 DEF RInv, LocksOK
      <3> QED
        BY <3>1, <3>2
    <2>3. ASSUME NEW k \in Line, NEW v \in Worker
          PROVE  lock'[k] = v <=> k \in call'[v].lines /\ k \notin DOMAIN call'[v].todo
      <3>1. CASE k = l /\ v = w
        BY <1>2, <1>5, <1>6, <1>13, <3>1
      <3>2. CASE k = l /\ v # w
        <4>1. lock'[k] = w /\ lock[k] = NoTxn
          BY <1>11, <1>13, <3>2
        <4>2. ~(k \in call[v].lines /\ k \notin DOMAIN call[v].todo)
          BY <4>1, NoTxnAssumption DEF RInv, LocksOK
        <4> QED
          BY <1>3, <3>2, <4>1, <4>2
      <3>3. CASE k # l /\ v = w
        BY <1>2, <1>6, <1>13, <3>3 DEF RInv, LocksOK
      <3>4. CASE k # l /\ v # w
        BY <1>3, <1>13, <3>4 DEF RInv, LocksOK
      <3> QED
        BY <3>1, <3>2, <3>3, <3>4
    <2> QED
      BY <2>1, <2>2, <2>3 DEF LocksOK
  <1> QED
    BY <1>9, <1>10, <1>15, <1>16 DEF RInv

\* A commit bills its lines for the start of the group, and nothing else.
LEMMA CommitBilled ==
    ASSUME IInv, NEW w \in Worker, CommitGroup(w)
    PROVE  Billed' = Billed \cup (call[w].lines \X {call[w].start})
  <1> DEFINE L == call[w].lines
             start == call[w].start
             new == [start |-> start, lines |-> L]
             last == Len(invoices) + 1
  <1>1. /\ DOMAIN invoices' = DOMAIN invoices \cup {last}
        /\ \A i \in DOMAIN invoices : invoices'[i] = invoices[i]
        /\ invoices'[last] = new
    <2>1. PICK S : invoices \in Seq(S)
      BY DEF IInv, InvoicesShape
    <2>2. invoices' = Append(invoices, new)
      BY DEF CommitGroup
    <2> HIDE DEF new, last
    <2>3. /\ DOMAIN Append(invoices, new) = DOMAIN invoices \cup {last}
          /\ \A i \in DOMAIN invoices : Append(invoices, new)[i] = invoices[i]
          /\ Append(invoices, new)[last] = new
      BY <2>1, AppendFacts DEF last
    <2> QED
      BY <2>2, <2>3, Zenon
  <1>2. Billed' = UNION {invoices'[i].lines \X {invoices'[i].start} : i \in DOMAIN invoices'}
    BY DEF Billed, Schedule!Billed
  <1>3. \A x : x \in Billed' <=> x \in Billed \/ x \in new.lines \X {new.start}
    <2> HIDE DEF new, last
    <2> QED
      BY <1>1, <1>2, Zenon DEF Billed, Schedule!Billed
  <1>4. new.lines = L /\ new.start = start
    OBVIOUS
  <1>5. \A x : x \in Billed' <=> x \in Billed \cup (L \X {start})
    BY <1>3, <1>4
  <1> QED
    BY <1>5

\* The invoice and the advances of a group become visible together: what was
\* of the period that is billed now is billed, what was of another stays of it.
LEMMA CommitGroupKeepsRInv ==
    ASSUME RInv, IInv, NEW w \in Worker, CommitGroup(w)
    PROVE  RInv'
  <1> DEFINE L == call[w].lines
             start == call[w].start
  <1>1. RunOK(w) /\ At(w, "commit") /\ DOMAIN call[w].todo = {}
    BY DEF RInv, CommitGroup, RunOK, PlaceOK
  <1>2. \A l \in Line : lock[l] = w <=> l \in L
    BY <1>1 DEF RInv, LocksOK
  <1>3. \A l \in Line : /\ committed'[l] = IF l \in L THEN live[l] ELSE committed[l]
                        /\ lock'[l] = IF l \in L THEN NoTxn ELSE lock[l]
                        /\ live'[l] = live[l]
    BY <1>2, BillingAssumption DEF CommitGroup, CommitTxn, Visible
  <1>4. Billed' = Billed \cup (L \X {start})
    BY CommitBilled
  <1>5. \A l \in L : Schedule!PeriodStart(l, Current(l, committed[l])) = start
    <2>1. \A l \in L : <<l, start>> \notin Billed
      BY BilledFact DEF IInv, PendingUnbilled
    <2> QED
      BY <1>1, <2>1 DEF RunOK, OfPeriod
  <1>6. ASSUME NEW l \in Line, NEW s, OfPeriod(l, s)
        PROVE  OfPeriod(l, s)'
    <2>1. CASE l \in L
      BY <1>4, <1>5, <1>6, <2>1 DEF OfPeriod
    <2>2. CASE l \notin L
      BY <1>3, <1>4, <1>6, <2>2 DEF OfPeriod
    <2> QED
      BY <2>1, <2>2
  <1>7. \A s, todo : GroupOK(s, todo) => GroupOK(s, todo)'
    BY <1>6 DEF GroupOK
  <1>8. /\ call'[w] = FirstOf(call[w].later)
        /\ \A v \in Worker : v # w => call'[v] = call[v]
    BY DEF CommitGroup, NextGroup, IInv, CallShape
  <1>9. RunOK(w)' /\ call'[w].lines = {}
    BY <1>1, <1>7, <1>8, RestartOK DEF RunOK
  <1>10. ASSUME NEW v \in Worker, v # w
         PROVE  RunOK(v)'
    <2>1. RunOK(v) /\ call'[v] = call[v]
      BY <1>8, <1>10 DEF RInv
    <2>2. PlaceOK(v)'
      BY <2>1 DEF RunOK, PlaceOK, At, LineOf, Before
    <2>3. \A l \in call[v].lines : OfPeriod(l, call[v].start)'
      BY <1>6, <2>1 DEF RunOK
    <2> QED
      BY <1>7, <2>1, <2>2, <2>3 DEF RunOK
  <1>11. RowsOK'
    <2>1. /\ committed' = [l \in Line |-> committed'[l]] /\ lock' = [l \in Line |-> lock'[l]]
          /\ live' = live
      BY BillingAssumption DEF CommitGroup, CommitTxn
    <2>2. \A l \in Line : committed'[l] \in Version /\ lock'[l] \in Worker \cup {NoTxn}
      BY <1>3 DEF RInv, RowsOK
    <2> QED
      BY <2>1, <2>2 DEF RInv, RowsOK
  <1>12. LocksOK'
    <2>1. ASSUME NEW l \in Line
          PROVE  /\ lock'[l] = NoTxn => live'[l] = committed'[l]
                 /\ lock'[l] # NoTxn => live'[l].next = NextDue(l, committed'[l])
      BY <1>2, <1>3 DEF RInv, LocksOK
    <2>2. ASSUME NEW l \in Line, NEW v \in Worker
          PROVE  lock'[l] = v <=> l \in call'[v].lines /\ l \notin DOMAIN call'[v].todo
      <3>1. lock[l] = v <=> l \in call[v].lines /\ l \notin DOMAIN call[v].todo
        BY DEF RInv, LocksOK
      <3>2. CASE v = w
        BY <1>2, <1>3, <1>9, <3>2, NoTxnAssumption
      <3>3. CASE v # w
        BY <1>2, <1>3, <1>8, <3>1, <3>3, NoTxnAssumption
      <3> QED
        BY <3>2, <3>3
    <2>3. \A l \in Line : NextDue(l, committed[l])' = NextDue(l, committed'[l])
      BY DEF NextDue, Current
    <2> QED
      BY <2>1, <2>2, <2>3 DEF LocksOK
  <1> QED
    BY <1>9, <1>10, <1>11, <1>12 DEF RInv

\* The server stops.
LEMMA CrashKeepsRInv ==
    ASSUME RInv, Crash
    PROVE  RInv'
  <1>1. \A w \in Worker : call'[w] = Idle
    BY DEF Crash
  <1>2. /\ Idle.pc = "idle" /\ Idle.lines = {} /\ Idle.later = {} /\ DOMAIN Idle.todo = {}
    BY DEF Idle
  <1>3. \A w \in Worker : RunOK(w)'
    BY <1>1, <1>2 DEF RunOK, PlaceOK, GroupOK, At
  <1>4. RowsOK'
    BY DEF RInv, RowsOK, Crash
  <1>5. LocksOK'
    BY <1>1, <1>2, NoTxnAssumption DEF LocksOK, Crash
  <1> QED
    BY <1>3, <1>4, <1>5 DEF RInv

\* Bookings and operators write rows that no run holds, and no date.
LEMMA SetRowKeepsRInv ==
    ASSUME RInv, NEW l \in Line, NEW version \in Version, SetRow(l, version),
           \/ version.next = committed[l].next
           \/ committed[l].next = NoDate /\ version.next = terms[l].start
    PROVE  RInv' /\ \A k \in Line : Current(k, committed[k])' = Current(k, committed[k])
  <1>1. /\ \A k \in Line : committed'[k] = IF k = l THEN version ELSE committed[k]
        /\ \A k \in Line : live'[k] = IF k = l THEN version ELSE live[k]
        /\ UNCHANGED <<lock, invoices, call>> /\ lock[l] = NoTxn
    BY DEF SetRow, RInv, RowsOK
  <1>2. \A k \in Line : Current(k, committed[k])' = Current(k, committed[k])
    BY <1>1 DEF Current
  <1>3. \A k \in Line : \A s : OfPeriod(k, s) => OfPeriod(k, s)'
    BY <1>1, <1>2 DEF OfPeriod, Billed, Schedule!Billed
  <1>4. \A s, todo : GroupOK(s, todo) => GroupOK(s, todo)'
    BY <1>3 DEF GroupOK
  <1>5. ASSUME NEW v \in Worker
        PROVE  RunOK(v)'
    <2>1. RunOK(v) /\ call'[v] = call[v]
      BY <1>1 DEF RInv
    <2>2. PlaceOK(v)'
      BY <2>1 DEF RunOK, PlaceOK, At, LineOf, Before
    <2>3. \A k \in call[v].lines : OfPeriod(k, call[v].start)'
      BY <1>3, <2>1 DEF RunOK
    <2> QED
      BY <1>4, <2>1, <2>2, <2>3 DEF RunOK
  <1>6. RowsOK'
    BY <1>1 DEF SetRow, RInv, RowsOK
  <1>7. LocksOK'
    BY <1>1 DEF RInv, LocksOK, NextDue, Current
  <1> QED
    BY <1>2, <1>5, <1>6, <1>7 DEF RInv

-----------------------------------------------------------------------------
\* A commit bills the lines of the group for their current period, and sets
\* each to the period after it.
LEMMA CommitBills ==
    ASSUME RInv, IInv, NEW w \in Worker, CommitGroup(w)
    PROVE  Schedule!Next
  <1> DEFINE L == call[w].lines
             start == call[w].start
             due == [l \in Line |-> Current(l, committed[l])]
  <1>1. RunOK(w) /\ At(w, "commit") /\ DOMAIN call[w].todo = {} /\ L # {} /\ L \subseteq Line
    BY DEF RInv, CommitGroup, RunOK, PlaceOK
  <1>2. \A l \in Line : lock[l] = w <=> l \in L
    BY <1>1 DEF RInv, LocksOK
  <1>3. \A l \in L : <<l, start>> \notin Billed
    BY BilledFact DEF IInv, PendingUnbilled
  <1>4. \A l \in L : Schedule!PeriodStart(l, due[l]) = start
    BY <1>1, <1>3 DEF RunOK, OfPeriod
  <1>5. ASSUME NEW l \in Line
        PROVE  Current(l, committed'[l]) =
                 IF l \in L /\ terms[l].mode # "oneoff" THEN Schedule!NextPeriod(l, due[l]) ELSE due[l]
    <2>1. committed'[l] = IF l \in L THEN live[l] ELSE committed[l]
      BY <1>2, BillingAssumption DEF CommitGroup, CommitTxn, Visible
    <2>2. CASE l \notin L
      BY <2>1, <2>2
    <2>3. CASE l \in L
      <3>1. live[l].next = NextDue(l, committed[l])
        BY <1>1, <1>2, <2>3, NoTxnAssumption DEF RInv, LocksOK
      <3>2. CASE terms[l].mode = "oneoff"
        BY <2>1, <2>3, <3>1, <3>2 DEF NextDue, Current
      <3>3. CASE terms[l].mode # "oneoff"
        <4>1. live[l].next = Schedule!NextPeriod(l, due[l])
          BY <3>1, <3>3 DEF NextDue
        <4>2. due[l] \in Nat
          BY DatesAreNat DEF RInv, RowsOK
        <4>3. live[l].next \in Nat
          BY <4>1, <4>2, DatesAreNat
        <4>4. live[l].next # NoDate
          BY <4>3, BillingAssumption
        <4> QED
          BY <2>1, <2>3, <3>3, <4>1, <4>4 DEF Current
      <3> QED
        BY <3>2, <3>3
    <2> QED
      BY <2>2, <2>3
  <1>6. Schedule!Bill(L, start)
    <2>1. invoices' = Append(invoices, [start |-> start, lines |-> L])
      BY DEF CommitGroup
    <2> QED
      BY <1>3, <1>4, <1>5, <2>1 DEF Schedule!Bill, Billed
  <1>7. PICK first \in L : TRUE
    BY <1>1
  <1>8. first \in Line /\ start = Schedule!PeriodStart(first, due[first]) /\ L \in SUBSET Line
    BY <1>1, <1>4, <1>7
  <1> QED
    BY <1>6, <1>7, <1>8 DEF Schedule!Next

\* A step that bills nothing and moves no date is none of the schedule's.
LEMMA QuietStutters ==
    ASSUME UNCHANGED invoices, \A l \in Line : Current(l, committed'[l]) = Current(l, committed[l])
    PROVE  UNCHANGED Schedule!vars
  BY DEF Schedule!vars

\* The initial rows are the schedule's initial state.
LEMMA InitRefines == Init => RInv /\ Schedule!Init
  <1> SUFFICES ASSUME Init
               PROVE  RInv /\ Schedule!Init
    OBVIOUS
  <1>1. \A w \in Worker : call[w] = Idle
    BY DEF Init
  <1>2. /\ Idle.pc = "idle" /\ Idle.lines = {} /\ Idle.later = {} /\ DOMAIN Idle.todo = {}
    BY DEF Idle
  <1>3. \A w \in Worker : RunOK(w)
    BY <1>1, <1>2 DEF RunOK, PlaceOK, GroupOK, At
  <1>4. RowsOK
    BY DEF Init, RowsOK, Absent, Version, Date
  <1>5. LocksOK
    BY <1>1, <1>2, NoTxnAssumption DEF Init, LocksOK
  <1>6. Schedule!Init
    BY DEF Init, Schedule!Init, Current, Absent
  <1> QED
    BY <1>3, <1>4, <1>5, <1>6 DEF RInv

\* Every step keeps the invariant, and is a step of the schedule or none.
LEMMA NextRefines == RInv /\ IInv /\ [Next]_vars => RInv' /\ [Schedule!Next]_(Schedule!vars)
  <1> SUFFICES ASSUME RInv, IInv, [Next]_vars
               PROVE  RInv' /\ [Schedule!Next]_(Schedule!vars)
    OBVIOUS
  <1> DEFINE Goal == RInv' /\ [Schedule!Next]_(Schedule!vars)
  <1>1. CallShape
    BY DEF IInv
  <1>2. ASSUME UNCHANGED <<dbVars, invoices, call>>
        PROVE  Goal
    <2>1. RInv'
      BY <1>2 DEF RInv, RowsOK, RunOK, PlaceOK, GroupOK, OfPeriod, LocksOK, NextDue, Current,
                  LineOf, Before, At, Billed, Schedule!Billed, dbVars
    <2>2. UNCHANGED Schedule!vars
      BY <1>2, QuietStutters DEF dbVars
    <2> QED
      BY <2>1, <2>2
  <1>3. ASSUME NEW l \in Line, Book(l)
        PROVE  Goal
    <2> DEFINE version == [state |-> IF terms[l].start <= today THEN "active" ELSE "pending",
                           next |-> IF terms[l].mode = "recurring" THEN terms[l].start ELSE NoDate]
    <2>1. version \in Version
      BY BillingAssumption DEF Version, Date
    <2>2. committed[l].next = NoDate
      BY <1>3 DEF Book, Absent
    <2>3. SetRow(l, version)
      BY <1>3 DEF Book
    <2>4. version.next \in {NoDate, terms[l].start}
      OBVIOUS
    <2> HIDE DEF version
    <2>5. RInv' /\ \A k \in Line : Current(k, committed'[k]) = Current(k, committed[k])
      BY <2>1, <2>2, <2>3, <2>4, SetRowKeepsRInv DEF Current
    <2> QED
      BY <2>3, <2>5, QuietStutters DEF SetRow
  <1>4. ASSUME NEW l \in Line, NEW state \in {"active", "ended"}, SetState(l, state)
        PROVE  Goal
    <2>1. PICK old : old = committed[l]
      OBVIOUS
    <2>2. PICK version : version = [old EXCEPT !.state = state]
      OBVIOUS
    <2>3. old \in Version
      BY <2>1 DEF RInv, RowsOK
    <2>4. version \in Version /\ version.next = old.next
      BY <2>2, <2>3 DEF Version
    <2>5. SetRow(l, version)
      BY <1>4, <2>1, <2>2 DEF SetState
    <2>6. RInv' /\ \A k \in Line : Current(k, committed'[k]) = Current(k, committed[k])
      BY <2>1, <2>4, <2>5, SetRowKeepsRInv DEF Current
    <2> QED
      BY <2>5, <2>6, QuietStutters DEF SetRow
  <1>5. ASSUME NEW w \in Worker, NEW contract, NEW asOf, Run(w, contract, asOf)
        PROVE  Goal
    <2>1. RInv'
      BY <1>1, <1>5, RunKeepsRInv
    <2> QED
      BY <1>5, <2>1, QuietStutters DEF Run, dbVars
  <1>6. ASSUME NEW w \in Worker, RollbackTxn(w), NextGroup(w), UNCHANGED invoices
        PROVE  Goal
    <2>1. RInv'
      BY <1>1, <1>6, RollbackKeepsRInv
    <2> QED
      BY <1>6, <2>1, QuietStutters DEF RollbackTxn
  <1>7. ASSUME NEW w \in Worker, RunStep(w)
        PROVE  Goal
    <2>1. CASE InsertLink(w)
      BY <1>1, <2>1, InsertLinkKeepsRInv, QuietStutters DEF InsertLink, dbVars
    <2>2. CASE Duplicate(w)
      BY <1>6, <2>2 DEF Duplicate
    <2>3. CASE AdvanceLine(w)
      BY <1>1, <2>3, AdvanceLineKeepsRInv, QuietStutters DEF AdvanceLine, Write
    <2>4. CASE CommitGroup(w)
      BY <2>4, CommitGroupKeepsRInv, CommitBills
    <2> QED
      BY <1>7, <2>1, <2>2, <2>3, <2>4 DEF RunStep
  <1>8. ASSUME Crash
        PROVE  Goal
    BY <1>8, CrashKeepsRInv, QuietStutters DEF Crash
  <1>9. ASSUME Tick
        PROVE  Goal
    BY <1>2, <1>9 DEF Tick
  <1>10. ASSUME UNCHANGED vars
        PROVE  Goal
    BY <1>2, <1>10 DEF vars
  <1>11. ASSUME CronRun
        PROVE  Goal
    BY <1>5, <1>11, BillingAssumption DEF CronRun
  <1>12. ASSUME NEW w \in Worker, NEW asOf, GenerateNow(w, asOf)
         PROVE  Goal
    BY <1>5, <1>12 DEF GenerateNow
  <1>13. ASSUME NEW w \in Worker, NEW contract, CreateInvoice(w, contract)
         PROVE  Goal
    BY <1>5, <1>13 DEF CreateInvoice
  <1>14. ASSUME NEW w \in Worker, GroupFails(w)
         PROVE  Goal
    BY <1>6, <1>14 DEF GroupFails
  <1> HIDE DEF Goal
  <1>15. ASSUME NEW w \in Worker,
                \/ \E asOf \in Dates : GenerateNow(w, asOf)
                \/ \E contract \in Contract : CreateInvoice(w, contract)
                \/ RunStep(w)
                \/ GroupFails(w)
         PROVE  Goal
    BY <1>7, <1>12, <1>13, <1>14, <1>15, Zenon
  <1>16. Goal
    BY <1>3, <1>4, <1>8, <1>9, <1>10, <1>11, <1>15, Zenon DEF Next
  <1> QED
    BY <1>16 DEF Goal

\* RentalBilling::run bills as RentalSchedule says: every invoice is for the
\* current period of its lines and moves them on in the same step, so that no
\* crash, stale due list, failed group or concurrent run skips a period, bills
\* one twice or bills ahead of the line's turn.
THEOREM BillingFollowsSchedule == Spec => ImplementsSchedule
  BY InitIInv, NextIInv, InitRefines, NextRefines, PTL DEF Spec, ImplementsSchedule, Schedule!Spec
=============================================================================
