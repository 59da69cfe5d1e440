-------------------------- MODULE InvoicingProofs --------------------------
(***************************************************************************)
(* Proofs about Invoicing, for any invoices, payments, statement lines,    *)
(* journals, amounts and number of workers, as long as no two requests     *)
(* work on one document at once.                                           *)
(*                                                                         *)
(*  - A posted invoice keeps its number and shares it with no other: the   *)
(*    sequence row stays locked from the draw to the end of the            *)
(*    transaction that posts.                                              *)
(*  - A posted payment and a cleared statement line moved money in the     *)
(*    ledger exactly once, and nothing is applied of a payment that did    *)
(*    not: the entry and the document are written in one transaction, and  *)
(*    who begins on a document finds its state as committed.               *)
(*  - What an invoice owes is never less than its total without what was   *)
(*    applied to it or cleared on it, and no more than its total is        *)
(*    applied: the residual is stored beside the sum it is derived from    *)
(*    and written by five handlers, some from what they read earlier.      *)
(*                                                                         *)
(* The invariant has four parts: the types and the row locks, the numbers, *)
(* the entries, and, where no save of the form changes an invoice that     *)
(* money was applied to, the accounts.                                     *)
(***************************************************************************)
EXTENDS Invoicing, SumTheorems, TLAPS

\* The types.
InvoiceState == {"draft", "posted", "cancel"}
Paid == {"not_paid", "partial", "paid"}
Place == {"idle", "edited", "totals", "number", "post", "credit", "allocate", "residual", "refresh",
          "enter", "book", "clear", "mark", "commit"}

\* What the statements of a request that has written an invoice go on with.
Serving == {"credit", "allocate", "residual", "refresh", "mark", "commit"}

InvoiceVersion ==
    [state : InvoiceState, total : Nat \ {0}, residual : Int, paid : Paid, number : Nat]
PaymentVersion ==
    [state : {"absent"}] \cup [state : {"draft", "posted", "cancelled"}, amount : Int, journal : Journal]
LineVersion == [reconciled : Invoice \cup {NoInvoice}]
Counter == [next : Nat \ {0}]
Entry == [journal : Journal, number : Int, of : Payment \cup StatementLine]

RowOK(version) ==
    /\ \A i \in Invoice : version[InvoiceRow(i)] \in InvoiceVersion
    /\ \A p \in Payment : version[PaymentRow(p)] \in PaymentVersion
    /\ \A l \in StatementLine : version[LineRow(l)] \in LineVersion
    /\ \A j \in Journal : version[SequenceRow(j)] \in Counter
    /\ version[InvSequence] \in Counter

\* A free row is the committed one.
RowInv ==
    /\ committed = [r \in Row |-> committed[r]] /\ RowOK(committed)
    /\ live = [r \in Row |-> live[r]] /\ RowOK(live)
    /\ lock \in [Row -> Worker \cup {NoTxn}]
    /\ \A r \in Row : lock[r] = NoTxn => live[r] = committed[r]
    /\ lines \in [Invoice -> Nat \ {0}]
    /\ applied \in [Payment \X Invoice -> Int]
    /\ entries \in Seq(Entry)

IsCall(c) ==
    c = [pc |-> c.pc, docs |-> c.docs, inv |-> c.inv, doc |-> c.doc, queue |-> c.queue,
         amount |-> c.amount, status |-> c.status, applying |-> c.applying, entering |-> c.entering]

\* What a request carries, place by place.
CallOK(c) ==
    /\ IsCall(c)
    /\ c.pc \in Place
    /\ c.inv \in Invoice \cup {NoInvoice}
    /\ c.amount \in Int
    /\ c.applying \in [Payment \X Invoice -> Int]
    /\ c.entering \in Seq(Entry) /\ Len(c.entering) <= 1
    /\ c.inv \in Invoice => c.inv \in c.docs
    /\ c.pc = "idle" => c = Idle
    /\ c.pc \notin {"idle", "book", "commit"} => c.inv \in Invoice
    /\ c.pc = "book" => c.doc \in Payment \cap c.docs
    /\ c.pc = "enter" => c.doc \in Journal
    /\ c.pc \in {"clear", "mark"} => c.doc \in StatementLine \cap c.docs
    /\ c.pc = "totals" => c.amount > 0 /\ c.status \in Paid
    /\ c.pc = "post" => c.amount \in Nat
    /\ c.pc = "refresh" => c.status \in Paid
    /\ c.entering # <<>> => c.pc \in {"allocate", "residual", "refresh", "mark", "commit"}

CallInv ==
    /\ call = [w \in Worker |-> call[w]]
    /\ \A w \in Worker : CallOK(call[w])

\* No two requests work on one document.
Apart == \A v, w \in Worker : v # w => call[v].docs \cap call[w].docs = {}

\* Which rows a request has written when.
LockOK(w) ==
    /\ \A i \in Invoice : lock[InvoiceRow(i)] = w => call[w].inv = i /\ call[w].pc \in Serving
    /\ \A p \in Payment : lock[PaymentRow(p)] = w => call[w].pc \in {"allocate", "residual", "refresh", "commit"}
    /\ \A l \in StatementLine : lock[LineRow(l)] = w => call[w].pc = "commit"
    /\ lock[InvSequence] = w => call[w].pc \in {"post", "credit", "allocate", "residual", "refresh", "commit"}

TypeInv == RowInv /\ CallInv /\ Apart /\ \A w \in Worker : LockOK(w)

\* A posted invoice keeps its number.
Keeps(before, after) == before.state # "draft" /\ after.state # "draft" => after.number = before.number

\* Who posts found a draft; the number drawn is the next one, and goes to that
\* invoice only.
NumberOK(w) ==
    LET c == call[w]
        next == committed[InvSequence].next
    IN
    /\ c.pc \in {"number", "post"} => committed[InvoiceRow(c.inv)].state = "draft"
    /\ c.pc = "post" => lock[InvSequence] = w /\ c.amount = next
    /\ lock[InvSequence] = w => live[InvSequence].next = next + 1
    /\ \A i \in Invoice : lock[InvoiceRow(i)] = w =>
          /\ Keeps(committed[InvoiceRow(i)], live[InvoiceRow(i)])
          /\ \/ live[InvoiceRow(i)].number \in {0, committed[InvoiceRow(i)].number}
             \/ lock[InvSequence] = w /\ live[InvoiceRow(i)].number = next

\* Numbers lie below the counter, and no two invoices have the same.
Numbered ==
    \A i \in Invoice :
        LET number == committed[InvoiceRow(i)].number IN
        /\ number < committed[InvSequence].next
        /\ \A k \in Invoice \ {i} : number # 0 => committed[InvoiceRow(k)].number # number

NumberInv == Numbered /\ \A w \in Worker : NumberOK(w)

\* A document with an entry, committed or of a request.
Entered(d) == \E k \in DOMAIN entries : entries[k].of = d
EnteredOnce(d) == \A j, k \in DOMAIN entries : entries[j].of = d /\ entries[k].of = d => j = k
Enters(c, d) == c.entering # <<>> /\ c.entering[1].of = d

\* A request enters a payment when it posts it, which it does to a draft or a new
\* one, and applies only what has an entry.
PaymentOK(w, p) ==
    LET c == call[w]
        old == committed[PaymentRow(p)].state
        new == live[PaymentRow(p)].state
    IN
    /\ Enters(c, p) => lock[PaymentRow(p)] = w
    /\ lock[PaymentRow(p)] = w =>
         /\ p \in c.docs \/ old = "absent"
         /\ IF Enters(c, p) THEN new = "posted" /\ old \in {"absent", "draft"}
                            ELSE new = "cancelled" /\ old \in {"draft", "posted"}
    /\ c.pc = "book" /\ c.doc = p => old = "draft"
    /\ \A i \in Invoice : c.applying[<<p, i>>] # 0 => Entered(p) \/ Enters(c, p)

\* A request enters a line before it marks it, and nobody has marked it before.
LineOK(w, l) ==
    LET c == call[w]
        old == committed[LineRow(l)].reconciled
    IN
    /\ Enters(c, l) => c.doc = l /\ c.pc \in {"mark", "commit"}
    /\ Enters(c, l) /\ c.pc = "commit" => lock[LineRow(l)] = w
    /\ c.pc \in {"clear", "mark"} /\ c.doc = l => old = NoInvoice
    /\ c.pc = "mark" /\ c.doc = l => Enters(c, l)
    /\ lock[LineRow(l)] = w =>
         /\ Enters(c, l) /\ l \in c.docs /\ old = NoInvoice
         /\ c.inv \in Invoice /\ live[LineRow(l)].reconciled = c.inv

\* One entry for each posted payment and reconciled line.
EntriesOK ==
    /\ \A p \in Payment :
         LET state == committed[PaymentRow(p)].state IN
         /\ EnteredOnce(p)
         /\ state = "posted" => Entered(p)
         /\ state \in {"absent", "draft"} => ~Entered(p)
         /\ \A i \in Invoice : applied[<<p, i>>] # 0 => Entered(p)
    /\ \A l \in StatementLine : EnteredOnce(l) /\ (Entered(l) <=> committed[LineRow(l)].reconciled # NoInvoice)

EntryInv ==
    /\ EntriesOK
    /\ \A w \in Worker :
         (\A p \in Payment : PaymentOK(w, p)) /\ (\A l \in StatementLine : LineOK(w, l))

IInv == TypeInv /\ NumberInv /\ EntryInv

-----------------------------------------------------------------------------
(* rows and calls *)

\* Rows of different tables, or of different things, are different rows.
LEMMA RowNames ==
    /\ \A i, k : InvoiceRow(i) = InvoiceRow(k) => i = k
    /\ \A i, k : PaymentRow(i) = PaymentRow(k) => i = k
    /\ \A i, k : LineRow(i) = LineRow(k) => i = k
    /\ \A i, k : SequenceRow(i) = SequenceRow(k) => i = k
    /\ \A i, k : InvoiceRow(i) # PaymentRow(k) /\ InvoiceRow(i) # LineRow(k) /\ InvoiceRow(i) # SequenceRow(k)
    /\ \A i, k : PaymentRow(i) # LineRow(k) /\ PaymentRow(i) # SequenceRow(k) /\ LineRow(i) # SequenceRow(k)
    /\ InvSequence = SequenceRow("INV")
  BY DEF InvoiceRow, PaymentRow, LineRow, SequenceRow, InvSequence

\* Everything has its row.
LEMMA RowsThere ==
    /\ \A i \in Invoice : InvoiceRow(i) \in Row
    /\ \A p \in Payment : PaymentRow(p) \in Row
    /\ \A l \in StatementLine : LineRow(l) \in Row
    /\ \A j \in Journal : SequenceRow(j) \in Row /\ SequenceRow(j) # InvSequence
    /\ InvSequence \in Row
  <1>1. \A j \in Journal : SequenceRow(j) # InvSequence
    BY RowNames, InvoicingAssumption
  <1> QED
    BY <1>1, InvoicingAssumption DEF InvoicingRows

\* What a statement leaves of each row.
LEMMA WriteEffect ==
    ASSUME NEW w \in Worker, NEW new, Write(w, new)
    PROVE  /\ committed' = committed
           /\ \A r \in Row : /\ live'[r] = IF r \in DOMAIN new THEN new[r] ELSE live[r]
                             /\ lock'[r] = IF r \in DOMAIN new THEN w ELSE lock[r]
                             /\ r \in DOMAIN new => lock[r] \in {w, NoTxn}
  BY DEF Write, Free

\* A step that writes no row is a statement on no row.
Nothing == [r \in {} |-> 0]

\* No row written is a statement too.
LEMMA NoWrite ==
    ASSUME RowInv, NEW w \in Worker, UNCHANGED dbVars
    PROVE  Write(w, Nothing)
  <1>1. live = [r \in Row |-> live[r]] /\ lock = [r \in Row |-> lock[r]]
    BY DEF RowInv
  <1>2. DOMAIN Nothing = {}
    BY DEF Nothing
  <1> QED
    BY <1>1, <1>2 DEF Write, dbVars

\* The rows a statement may give new versions.
Fits(new) ==
    /\ \A i \in Invoice : InvoiceRow(i) \in DOMAIN new => new[InvoiceRow(i)] \in InvoiceVersion
    /\ \A p \in Payment : PaymentRow(p) \in DOMAIN new => new[PaymentRow(p)] \in PaymentVersion
    /\ \A l \in StatementLine : LineRow(l) \in DOMAIN new => new[LineRow(l)] \in LineVersion
    /\ \A j \in Journal : SequenceRow(j) \in DOMAIN new => new[SequenceRow(j)] \in Counter
    /\ InvSequence \in DOMAIN new => new[InvSequence] \in Counter

\* They keep their types.
LEMMA WriteKeepsRows ==
    ASSUME RowInv, NEW w \in Worker, NEW new, Write(w, new), Fits(new),
           lines' \in [Invoice -> Nat \ {0}], UNCHANGED <<applied, entries>>
    PROVE  RowInv'
  <1>1. committed' = committed
    BY DEF Write
  <1>2. live' = [r \in Row |-> IF r \in DOMAIN new THEN new[r] ELSE live[r]]
    BY DEF Write
  <1>3. lock' = [r \in Row |-> IF r \in DOMAIN new THEN w ELSE lock[r]]
    BY DEF Write
  <1>4. RowOK(live)'
    <2>1. \A i \in Invoice : live'[InvoiceRow(i)] \in InvoiceVersion
      BY <1>2, RowsThere DEF Fits, RowInv, RowOK
    <2>2. \A p \in Payment : live'[PaymentRow(p)] \in PaymentVersion
      BY <1>2, RowsThere DEF Fits, RowInv, RowOK
    <2>3. \A l \in StatementLine : live'[LineRow(l)] \in LineVersion
      BY <1>2, RowsThere DEF Fits, RowInv, RowOK
    <2>4. \A j \in Journal : live'[SequenceRow(j)] \in Counter
      BY <1>2, RowsThere DEF Fits, RowInv, RowOK
    <2>5. live'[InvSequence] \in Counter
      BY <1>2, RowsThere DEF Fits, RowInv, RowOK
    <2> QED
      BY <2>1, <2>2, <2>3, <2>4, <2>5 DEF RowOK
  <1>5. RowOK(committed)' <=> RowOK(committed)
    BY <1>1 DEF RowOK
  <1>6. \A r \in Row : lock'[r] = NoTxn => live'[r] = committed'[r]
    BY <1>1, <1>2, <1>3, NoTxnAssumption DEF RowInv
  <1>7. lock' \in [Row -> Worker \cup {NoTxn}]
    BY <1>3 DEF RowInv
  <1>8. live' = [r \in Row |-> live'[r]]
    BY <1>2
  <1> QED
    BY <1>1, <1>4, <1>5, <1>6, <1>7, <1>8 DEF RowInv

-----------------------------------------------------------------------------
(* the other requests *)

\* A statement of one request leaves what the others hold.
LEMMA OthersHold ==
    ASSUME RowInv, NEW w \in Worker, NEW new, Write(w, new), NEW v \in Worker, v # w
    PROVE  /\ committed' = committed
           /\ \A r \in Row : lock'[r] = v <=> lock[r] = v
           /\ \A r \in Row : lock[r] = v => live'[r] = live[r]
  BY NoTxnAssumption DEF Write, Free, RowInv

\* What is said of the locks of another request stays.
LEMMA OthersLocks ==
    ASSUME RowInv, NEW w \in Worker, NEW new, Write(w, new), NEW v \in Worker, v # w,
           call'[v] = call[v], LockOK(v)
    PROVE  LockOK(v)'
  BY OthersHold, RowsThere DEF LockOK

\* So does what is said of the numbers it holds.
LEMMA OthersNumber ==
    ASSUME RowInv, NEW w \in Worker, NEW new, Write(w, new), NEW v \in Worker, v # w,
           call'[v] = call[v], NumberOK(v)
    PROVE  NumberOK(v)'
  BY OthersHold, RowsThere DEF NumberOK, Keeps

\* So does what is said of the payments it works on.
LEMMA OthersPayment ==
    ASSUME RowInv, NEW w \in Worker, NEW new, Write(w, new), NEW v \in Worker, v # w,
           call'[v] = call[v], entries' = entries, NEW p \in Payment, PaymentOK(v, p)
    PROVE  PaymentOK(v, p)'
  <1>1. Entered(p)' <=> Entered(p)
    BY DEF Entered
  <1> QED
    BY <1>1, OthersHold, RowsThere DEF PaymentOK, Enters

\* So does what is said of the statement lines it works on.
LEMMA OthersLine ==
    ASSUME RowInv, NEW w \in Worker, NEW new, Write(w, new), NEW v \in Worker, v # w,
           call'[v] = call[v], NEW l \in StatementLine, LineOK(v, l)
    PROVE  LineOK(v, l)'
  BY OthersHold, RowsThere DEF LineOK, Enters

\* A statement of a request that keeps what is said of the request itself.
LEMMA ServesKeeps ==
    ASSUME IInv, NEW w \in Worker, NEW c, NEW new, Write(w, new), Fits(new),
           call' = [call EXCEPT ![w] = c],
           lines' \in [Invoice -> Nat \ {0}], UNCHANGED <<applied, entries>>,
           CallOK(c), \A v \in Worker : v # w => call[v].docs \cap c.docs = {},
           LockOK(w)', NumberOK(w)',
           \A p \in Payment : PaymentOK(w, p)',
           \A l \in StatementLine : LineOK(w, l)'
    PROVE  IInv'
  <1>1. RowInv /\ CallInv /\ Apart /\ Numbered /\ EntriesOK
    BY DEF IInv, TypeInv, NumberInv, EntryInv
  <1>2. call'[w] = c /\ \A v \in Worker : v # w => call'[v] = call[v]
    BY <1>1 DEF CallInv
  <1>3. committed' = committed
    BY DEF Write
  <1>4. RowInv'
    BY <1>1, WriteKeepsRows
  <1>5. CallInv'
    BY <1>1, <1>2 DEF CallInv
  <1>6. Apart'
    BY <1>1, <1>2 DEF Apart
  <1>7. \A v \in Worker : LockOK(v)'
    <2> SUFFICES ASSUME NEW v \in Worker, v # w PROVE LockOK(v)'
      OBVIOUS
    <2>1. LockOK(v)
      BY DEF IInv, TypeInv
    <2> QED
      BY <1>1, <1>2, <2>1, OthersLocks
  <1>8. \A v \in Worker : NumberOK(v)'
    <2> SUFFICES ASSUME NEW v \in Worker, v # w PROVE NumberOK(v)'
      OBVIOUS
    <2>1. NumberOK(v)
      BY DEF IInv, NumberInv
    <2> QED
      BY <1>1, <1>2, <2>1, OthersNumber
  <1>9. \A v \in Worker : \A p \in Payment : PaymentOK(v, p)'
    <2> SUFFICES ASSUME NEW v \in Worker, v # w, NEW p \in Payment PROVE PaymentOK(v, p)'
      OBVIOUS
    <2>1. PaymentOK(v, p)
      BY DEF IInv, EntryInv
    <2>2. entries' = entries
      OBVIOUS
    <2> QED
      BY <1>1, <1>2, <2>1, <2>2, OthersPayment
  <1>10. \A v \in Worker : \A l \in StatementLine : LineOK(v, l)'
    <2> SUFFICES ASSUME NEW v \in Worker, v # w, NEW l \in StatementLine PROVE LineOK(v, l)'
      OBVIOUS
    <2>1. LineOK(v, l)
      BY DEF IInv, EntryInv
    <2> QED
      BY <1>1, <1>2, <2>1, OthersLine
  <1>11. Numbered'
    BY <1>1, <1>3 DEF Numbered
  <1>12. EntriesOK'
    BY <1>1, <1>3 DEF EntriesOK, Entered, EnteredOnce
  <1> QED
    BY <1>4, <1>5, <1>6, <1>7, <1>8, <1>9, <1>10, <1>11, <1>12 DEF IInv, TypeInv, NumberInv, EntryInv

-----------------------------------------------------------------------------
(* what a statement leaves *)

Kept(r) == live'[r] = live[r] /\ lock'[r] = lock[r]

\* Rows that a statement does not write stay.
LEMMA KeptRows ==
    ASSUME NEW w \in Worker, NEW new, Write(w, new)
    PROVE  \A r \in Row : r \notin DOMAIN new => Kept(r)
  BY WriteEffect DEF Kept

\* A step that writes no row leaves every row.
LEMMA AllKept ==
    ASSUME UNCHANGED dbVars
    PROVE  committed' = committed /\ \A r : Kept(r)
  BY DEF dbVars, Kept

\* An UPDATE of an invoice leaves everything else.
LEMMA InvoiceUpdate ==
    ASSUME NEW w \in Worker, NEW i \in Invoice, NEW version, Update(w, InvoiceRow(i), version)
    PROVE  /\ committed' = committed
           /\ live'[InvoiceRow(i)] = version /\ lock'[InvoiceRow(i)] = w
           /\ lock[InvoiceRow(i)] \in {w, NoTxn}
           /\ \A k \in Invoice : k # i => Kept(InvoiceRow(k))
           /\ \A p \in Payment : Kept(PaymentRow(p))
           /\ \A l \in StatementLine : Kept(LineRow(l))
           /\ \A j \in Journal : Kept(SequenceRow(j))
           /\ Kept(InvSequence)
  <1>1. PICK new : new = [s \in {InvoiceRow(i)} |-> version]
    OBVIOUS
  <1>2. Write(w, new)
    BY <1>1 DEF Update
  <1>3. DOMAIN new = {InvoiceRow(i)} /\ new[InvoiceRow(i)] = version
    BY <1>1
  <1>4. \A r \in Row : r # InvoiceRow(i) => Kept(r)
    BY <1>2, <1>3, KeptRows
  <1>5. \A r \in Row : r = InvoiceRow(i) => live'[r] = version /\ lock'[r] = w /\ lock[r] \in {w, NoTxn}
    BY <1>2, <1>3, WriteEffect
  <1> QED
    BY <1>2, <1>4, <1>5, RowNames, RowsThere, WriteEffect

\* So does one of a payment.
LEMMA PaymentUpdate ==
    ASSUME NEW w \in Worker, NEW p \in Payment, NEW version, Update(w, PaymentRow(p), version)
    PROVE  /\ committed' = committed
           /\ live'[PaymentRow(p)] = version /\ lock'[PaymentRow(p)] = w
           /\ lock[PaymentRow(p)] \in {w, NoTxn}
           /\ \A i \in Invoice : Kept(InvoiceRow(i))
           /\ \A q \in Payment : q # p => Kept(PaymentRow(q))
           /\ \A l \in StatementLine : Kept(LineRow(l))
           /\ \A j \in Journal : Kept(SequenceRow(j))
           /\ Kept(InvSequence)
  <1>1. PICK new : new = [s \in {PaymentRow(p)} |-> version]
    OBVIOUS
  <1>2. Write(w, new)
    BY <1>1 DEF Update
  <1>3. DOMAIN new = {PaymentRow(p)} /\ new[PaymentRow(p)] = version
    BY <1>1
  <1>4. \A r \in Row : r # PaymentRow(p) => Kept(r)
    BY <1>2, <1>3, KeptRows
  <1>5. \A r \in Row : r = PaymentRow(p) => live'[r] = version /\ lock'[r] = w /\ lock[r] \in {w, NoTxn}
    BY <1>2, <1>3, WriteEffect
  <1> QED
    BY <1>2, <1>4, <1>5, RowNames, RowsThere, WriteEffect

\* And one of a statement line.
LEMMA LineUpdate ==
    ASSUME NEW w \in Worker, NEW l \in StatementLine, NEW version, Update(w, LineRow(l), version)
    PROVE  /\ committed' = committed
           /\ live'[LineRow(l)] = version /\ lock'[LineRow(l)] = w
           /\ lock[LineRow(l)] \in {w, NoTxn}
           /\ \A i \in Invoice : Kept(InvoiceRow(i))
           /\ \A p \in Payment : Kept(PaymentRow(p))
           /\ \A k \in StatementLine : k # l => Kept(LineRow(k))
           /\ \A j \in Journal : Kept(SequenceRow(j))
           /\ Kept(InvSequence)
  <1>1. PICK new : new = [s \in {LineRow(l)} |-> version]
    OBVIOUS
  <1>2. Write(w, new)
    BY <1>1 DEF Update
  <1>3. DOMAIN new = {LineRow(l)} /\ new[LineRow(l)] = version
    BY <1>1
  <1>4. \A r \in Row : r # LineRow(l) => Kept(r)
    BY <1>2, <1>3, KeptRows
  <1>5. \A r \in Row : r = LineRow(l) => live'[r] = version /\ lock'[r] = w /\ lock[r] \in {w, NoTxn}
    BY <1>2, <1>3, WriteEffect
  <1> QED
    BY <1>2, <1>4, <1>5, RowNames, RowsThere, WriteEffect

\* And one of the sequence of invoices.
LEMMA SequenceUpdate ==
    ASSUME NEW w \in Worker, NEW version, Update(w, InvSequence, version)
    PROVE  /\ committed' = committed
           /\ live'[InvSequence] = version /\ lock'[InvSequence] = w
           /\ lock[InvSequence] \in {w, NoTxn}
           /\ \A i \in Invoice : Kept(InvoiceRow(i))
           /\ \A p \in Payment : Kept(PaymentRow(p))
           /\ \A l \in StatementLine : Kept(LineRow(l))
           /\ \A j \in Journal : Kept(SequenceRow(j))
  <1>1. PICK new : new = [s \in {InvSequence} |-> version]
    OBVIOUS
  <1>2. Write(w, new)
    BY <1>1 DEF Update
  <1>3. DOMAIN new = {InvSequence} /\ new[InvSequence] = version
    BY <1>1
  <1>4. \A r \in Row : r # InvSequence => Kept(r)
    BY <1>2, <1>3, KeptRows
  <1>5. \A r \in Row : r = InvSequence => live'[r] = version /\ lock'[r] = w /\ lock[r] \in {w, NoTxn}
    BY <1>2, <1>3, WriteEffect
  <1> QED
    BY <1>2, <1>4, <1>5, RowNames, RowsThere, WriteEffect

\* A statement on one row, as ServesKeeps takes it.
LEMMA UpdateFits ==
    ASSUME NEW w \in Worker, NEW r, NEW version, Update(w, r, version),
           \/ \E i \in Invoice : r = InvoiceRow(i) /\ version \in InvoiceVersion
           \/ \E p \in Payment : r = PaymentRow(p) /\ version \in PaymentVersion
           \/ \E l \in StatementLine : r = LineRow(l) /\ version \in LineVersion
           \/ r = InvSequence /\ version \in Counter
    PROVE  \E new : Write(w, new) /\ Fits(new)
  <1>1. PICK new : new = [s \in {r} |-> version]
    OBVIOUS
  <1>2. Write(w, new)
    BY <1>1 DEF Update
  <1>3. DOMAIN new = {r} /\ new[r] = version
    BY <1>1
  <1>4. Fits(new)
    <2>1. CASE \E i \in Invoice : r = InvoiceRow(i) /\ version \in InvoiceVersion
      BY <1>3, <2>1, RowNames, RowsThere DEF Fits
    <2>2. CASE \E p \in Payment : r = PaymentRow(p) /\ version \in PaymentVersion
      BY <1>3, <2>2, RowNames, RowsThere DEF Fits
    <2>3. CASE \E l \in StatementLine : r = LineRow(l) /\ version \in LineVersion
      BY <1>3, <2>3, RowNames, RowsThere DEF Fits
    <2>4. CASE r = InvSequence /\ version \in Counter
      BY <1>3, <2>4, RowNames, RowsThere DEF Fits
    <2> QED
      BY <2>1, <2>2, <2>3, <2>4
  <1> QED
    BY <1>2, <1>4

\* So is a step that writes no row.
LEMMA NothingFits ==
    ASSUME RowInv, NEW w \in Worker, UNCHANGED dbVars
    PROVE  \E new : Write(w, new) /\ Fits(new)
  <1>1. Write(w, Nothing)
    BY NoWrite
  <1>2. DOMAIN Nothing = {}
    BY DEF Nothing
  <1>3. Fits(Nothing)
    BY <1>2 DEF Fits
  <1> QED
    BY <1>1, <1>3

\* What is said of a payment stays where its row and the entries do.
LEMMA PaymentStays ==
    ASSUME NEW w \in Worker, NEW p \in Payment, PaymentOK(w, p), Kept(PaymentRow(p)),
           committed' = committed, entries' = entries,
           call'[w].docs = call[w].docs, call'[w].entering = call[w].entering,
           \A i \in Invoice : call'[w].applying[<<p, i>>] # 0
                                => \/ call[w].applying[<<p, i>>] # 0
                                   \/ Entered(p) \/ Enters(call[w], p),
           call'[w].pc = "book" /\ call'[w].doc = p => committed[PaymentRow(p)].state = "draft"
    PROVE  PaymentOK(w, p)'
  <1>1. Entered(p)' <=> Entered(p)
    BY DEF Entered
  <1>2. Enters(call[w], p)' <=> Enters(call[w], p)
    BY DEF Enters
  <1> QED
    BY <1>1, <1>2 DEF PaymentOK, Kept

\* Nothing is said of a line before a request clears it.
LEMMA LineStays ==
    ASSUME NEW w \in Worker, NEW l \in StatementLine, LineOK(w, l), LockOK(w), Kept(LineRow(l)),
           call[w].pc \notin {"mark", "commit"}, call'[w].entering = call[w].entering,
           committed' = committed, call'[w].pc # "mark",
           call'[w].pc = "clear" /\ call'[w].doc = l => committed[LineRow(l)].reconciled = NoInvoice
    PROVE  LineOK(w, l)'
  <1>1. Enters(call[w], l)' <=> Enters(call[w], l)
    BY DEF Enters
  <1> QED
    BY <1>1 DEF LineOK, LockOK, Kept

\* Numbers stay where states and numbers do.
LEMMA NumberStays ==
    ASSUME RowInv, NEW w \in Worker, NumberOK(w), committed' = committed, Kept(InvSequence),
           \A i \in Invoice : lock'[InvoiceRow(i)] = w =>
              /\ lock[InvoiceRow(i)] \in {w, NoTxn}
              /\ live'[InvoiceRow(i)].state = live[InvoiceRow(i)].state
              /\ live'[InvoiceRow(i)].number = live[InvoiceRow(i)].number,
           call'[w].pc # "post",
           call'[w].pc = "number" => committed[InvoiceRow(call'[w].inv)].state = "draft"
    PROVE  NumberOK(w)'
  BY RowsThere, NoTxnAssumption DEF NumberOK, Kept, Keeps, RowInv

\* A request that has not written holds no row that matters.
LEMMA HoldsNothing ==
    ASSUME NEW w \in Worker, LockOK(w),
           call[w].pc \in {"idle", "edited", "totals", "number", "enter", "book", "clear"}
    PROVE  /\ \A i \in Invoice : lock[InvoiceRow(i)] # w
           /\ \A p \in Payment : lock[PaymentRow(p)] # w
           /\ \A l \in StatementLine : lock[LineRow(l)] # w
           /\ lock[InvSequence] # w
  BY DEF LockOK, Serving

-----------------------------------------------------------------------------
(* a request begins *)

\* A statement of a request, with everything it has to keep.
LEMMA ServeKeeps ==
    ASSUME IInv, NEW w \in Worker, NEW c, \E new : Write(w, new) /\ Fits(new),
           call' = [call EXCEPT ![w] = c],
           lines' \in [Invoice -> Nat \ {0}], UNCHANGED <<applied, entries>>,
           CallOK(c), \A v \in Worker : v # w => call[v].docs \cap c.docs = {},
           LockOK(w)', NumberOK(w)',
           \A p \in Payment : PaymentOK(w, p)',
           \A l \in StatementLine : LineOK(w, l)'
    PROVE  IInv'
  <1>1. PICK new : Write(w, new) /\ Fits(new)
    OBVIOUS
  <1>2. UNCHANGED <<applied, entries>>
    OBVIOUS
  <1> QED
    BY <1>1, <1>2, ServesKeeps

\* The values that stand for nothing are no documents.
LEMMA NoInvoiceIn == NoInvoice \notin Invoice
  BY InvoicingAssumption

\* A worker without a request.
LEMMA IdleOK ==
    /\ IsCall(Idle)
    /\ Idle.pc = "idle" /\ Idle.docs = {} /\ Idle.inv = NoInvoice /\ Idle.doc = NoDocument
    /\ Idle.queue = <<>> /\ Idle.amount = 0 /\ Idle.status = ""
    /\ Idle.applying = NothingApplied /\ Idle.entering = <<>>
    /\ NothingApplied \in [Payment \X Invoice -> Int]
    /\ \A p \in Payment, i \in Invoice : NothingApplied[<<p, i>>] = 0
    /\ CallOK(Idle)
  <1>1. /\ IsCall(Idle)
        /\ Idle.pc = "idle" /\ Idle.docs = {} /\ Idle.inv = NoInvoice /\ Idle.doc = NoDocument
        /\ Idle.queue = <<>> /\ Idle.amount = 0 /\ Idle.status = ""
        /\ Idle.applying = NothingApplied /\ Idle.entering = <<>>
    BY DEF Idle, IsCall
  <1>2. /\ NothingApplied \in [Payment \X Invoice -> Int]
        /\ \A p \in Payment, i \in Invoice : NothingApplied[<<p, i>>] = 0
    BY DEF NothingApplied
  <1>3. <<>> \in Seq(Entry) /\ Len(<<>>) <= 1
    OBVIOUS
  <1>4. Idle.pc \in Place /\ Idle.inv \notin Invoice /\ Idle.amount \in Int
    <2>1. Idle.pc \in Place
      BY <1>1 DEF Place
    <2>2. Idle.inv \notin Invoice
      BY ONLY <1>1, NoInvoiceIn
    <2>3. Idle.amount \in Int
      BY DEF Idle
    <2> QED
      BY <2>1, <2>2, <2>3
  <1>5. CallOK(Idle)
    BY <1>1, <1>2, <1>3, <1>4 DEF CallOK
  <1> QED
    BY <1>1, <1>2, <1>5

\* What a request starts with.
LEMMA StartOK ==
    ASSUME NEW c, IsCall(c), c.applying = NothingApplied, c.entering = <<>>, c.amount \in Int,
           (c.inv \in Invoice /\ c.inv \in c.docs) \/ (c.inv = NoInvoice /\ c.pc = "book"),
           c.pc \in {"edited", "totals", "number", "enter", "book", "clear"},
           c.pc = "book" => c.doc \in Payment \cap c.docs,
           c.pc = "enter" => c.doc \in Journal,
           c.pc = "clear" => c.doc \in StatementLine \cap c.docs,
           c.pc = "totals" => c.amount > 0 /\ c.status \in Paid
    PROVE  CallOK(c)
  <1>1. c.entering \in Seq(Entry) /\ Len(c.entering) <= 1
    OBVIOUS
  <1>2. c.applying \in [Payment \X Invoice -> Int]
    BY IdleOK
  <1>3. c.pc \in Place /\ c.pc \notin {"idle", "mark", "post", "refresh"}
    BY DEF Place
  <1> QED
    BY <1>1, <1>2, <1>3, NoInvoiceIn DEF CallOK

\* What a request that has just begun must bring.
Fresh(c) ==
    /\ CallOK(c)
    /\ c.applying = NothingApplied /\ c.entering = <<>>
    /\ c.pc \notin {"mark", "post"}
    /\ c.pc = "number" => committed[InvoiceRow(c.inv)].state = "draft"
    /\ c.pc = "book" => committed[PaymentRow(c.doc)].state = "draft"
    /\ c.pc = "clear" => committed[LineRow(c.doc)].reconciled = NoInvoice

\* A step of a worker that takes its first document.
LEMMA FreshKeeps ==
    ASSUME IInv, NEW w \in Worker, call[w].pc \in {"idle", "edited"}, NEW c, Fresh(c), UNCHANGED dbVars,
           lines' \in [Invoice -> Nat \ {0}], UNCHANGED <<applied, entries>>,
           call' = [call EXCEPT ![w] = c],
           \A v \in Worker : v # w => call[v].docs \cap c.docs = {}
    PROVE  IInv'
  <1>1. RowInv /\ CallInv /\ LockOK(w) /\ NumberOK(w)
    BY DEF IInv, TypeInv, NumberInv
  <1>2. call'[w] = c
    BY <1>1 DEF CallInv
  <1>3. \E new : Write(w, new) /\ Fits(new)
    BY <1>1, NothingFits
  <1>4. committed' = committed /\ \A r : Kept(r)
    BY AllKept
  <1>5. call[w].entering = <<>>
    BY <1>1 DEF CallInv, CallOK
  <1>6. /\ \A i \in Invoice : lock[InvoiceRow(i)] # w
        /\ \A p \in Payment : lock[PaymentRow(p)] # w
        /\ \A l \in StatementLine : lock[LineRow(l)] # w
        /\ lock[InvSequence] # w
    BY <1>1, HoldsNothing
  <1>7. LockOK(w)'
    BY <1>4, <1>6 DEF LockOK, Kept
  <1>8. NumberOK(w)'
    BY <1>1, <1>2, <1>4, <1>6, NumberStays DEF Fresh, Kept
  <1>9. \A p \in Payment : PaymentOK(w, p)'
    <2> SUFFICES ASSUME NEW p \in Payment PROVE PaymentOK(w, p)'
      OBVIOUS
    <2>1. \A i \in Invoice : c.applying[<<p, i>>] = 0
      BY IdleOK DEF Fresh
    <2>2. ~Enters(call[w], p)'
      BY <1>2 DEF Fresh, Enters
    <2>3. lock'[PaymentRow(p)] # w
      BY <1>4, <1>6 DEF Kept
    <2>4. c.pc = "book" /\ c.doc = p => committed[PaymentRow(p)].state = "draft"
      BY DEF Fresh
    <2> QED
      BY <1>2, <1>4, <2>1, <2>2, <2>3, <2>4 DEF PaymentOK
  <1>10. \A l \in StatementLine : LineOK(w, l)'
    <2> SUFFICES ASSUME NEW l \in StatementLine PROVE LineOK(w, l)'
      OBVIOUS
    <2>1. LineOK(w, l)
      BY DEF IInv, EntryInv
    <2> QED
      BY <1>1, <1>2, <1>4, <1>5, <2>1, LineStays DEF Fresh
  <1> QED
    BY <1>1, <1>2, <1>3, <1>7, <1>8, <1>9, <1>10, ServeKeeps DEF Fresh

\* A request that begins without writing.
LEMMA BeginKeeps ==
    ASSUME IInv, OneRequestPerDocument, NEW w \in Worker, NEW docs, NEW request,
           Begin(w, docs, request), Fresh([request EXCEPT !.docs = docs]),
           [request EXCEPT !.docs = docs].docs = docs
    PROVE  IInv'
  <1>1. PICK c : c = [request EXCEPT !.docs = docs]
    OBVIOUS
  <1>2. Fresh(c) /\ c.docs = docs
    BY <1>1
  <1>3. call[w].pc = "idle" /\ call[w].docs = {}
    BY IdleOK DEF Begin
  <1>4. /\ call' = [call EXCEPT ![w] = c] /\ UNCHANGED dbVars
        /\ UNCHANGED <<applied, entries>> /\ lines' = lines
    BY <1>1 DEF Begin
  <1>5. \A v \in Worker : v # w => call[v].docs \cap c.docs = {}
    BY <1>2 DEF Begin
  <1>6. lines' \in [Invoice -> Nat \ {0}]
    BY <1>4 DEF IInv, TypeInv, RowInv
  <1> QED
    BY <1>2, <1>3, <1>4, <1>5, <1>6, FreshKeeps

\* What a SELECT returns has the type of its row.
LEMMA SeenRows ==
    ASSUME RowInv, NEW w \in Worker
    PROVE  /\ \A i \in Invoice : Inv(w, i) \in InvoiceVersion
           /\ \A p \in Payment : Pay(w, p) \in PaymentVersion
           /\ \A l \in StatementLine : Visible(w, LineRow(l)) \in LineVersion
  BY DEF RowInv, RowOK, Inv, Pay, Visible

\* Who begins reads what is committed.
LEMMA FirstSight ==
    ASSUME IInv, NEW w \in Worker, call[w] = Idle
    PROVE  /\ \A i \in Invoice : Inv(w, i) = committed[InvoiceRow(i)]
           /\ \A p \in Payment : Pay(w, p) = committed[PaymentRow(p)]
           /\ \A l \in StatementLine : Visible(w, LineRow(l)) = committed[LineRow(l)]
  <1>1. LockOK(w) /\ call[w].pc = "idle"
    BY IdleOK DEF IInv, TypeInv
  <1> QED
    BY <1>1, HoldsNothing DEF Inv, Pay, Visible

\* recompute_totals begins.
LEMMA RecomputeKeeps ==
    ASSUME IInv, OneRequestPerDocument, NEW w \in Worker, NEW i \in Invoice, Recompute(w, i)
    PROVE  IInv'
  <1>1. PICK c : c = [ReadLines(w, i) EXCEPT !.docs = {i}]
    OBVIOUS
  <1>2. /\ IsCall(c) /\ c.pc = "totals" /\ c.docs = {i} /\ c.inv = i /\ c.amount = lines[i]
        /\ c.status = Inv(w, i).paid /\ c.applying = NothingApplied /\ c.entering = <<>>
    BY <1>1 DEF ReadLines, Idle, IsCall
  <1>3. lines[i] \in Nat \ {0} /\ Inv(w, i).paid \in Paid
    BY SeenRows DEF IInv, TypeInv, RowInv, InvoiceVersion
  <1>4. CallOK(c)
    <2>1. /\ c.pc \in {"edited", "totals", "number", "enter", "book", "clear"}
          /\ c.amount \in Int
          /\ (c.inv \in Invoice /\ c.inv \in c.docs) \/ (c.inv = NoInvoice /\ c.pc = "book")
          /\ c.pc = "book" => c.doc \in Payment \cap c.docs
          /\ c.pc = "enter" => c.doc \in Journal
          /\ c.pc = "clear" => c.doc \in StatementLine \cap c.docs
          /\ c.pc = "totals" => c.amount > 0 /\ c.status \in Paid
      BY <1>2, <1>3
    <2> QED
      BY <1>2, <1>3, <2>1, StartOK
  <1>5. Fresh(c)
    BY <1>2, <1>4 DEF Fresh
  <1> QED
    BY <1>1, <1>2, <1>5, BeginKeeps DEF Recompute

\* action_post of an invoice begins on a draft that is its own.
LEMMA PostKeeps ==
    ASSUME IInv, OneRequestPerDocument, NEW w \in Worker, NEW i \in Invoice, Post(w, i)
    PROVE  IInv'
  <1>1. PICK request : request = [Idle EXCEPT !.pc = "number", !.inv = i]
    OBVIOUS
  <1>2. PICK c : c = [request EXCEPT !.docs = {i}]
    OBVIOUS
  <1>3. /\ IsCall(c) /\ c.pc = "number" /\ c.docs = {i} /\ c.inv = i /\ c.amount = 0
        /\ c.applying = NothingApplied /\ c.entering = <<>>
    BY <1>1, <1>2 DEF Idle, IsCall
  <1>4. CallOK(c)
    <2>1. /\ c.pc \in {"edited", "totals", "number", "enter", "book", "clear"}
          /\ c.amount \in Int
          /\ (c.inv \in Invoice /\ c.inv \in c.docs) \/ (c.inv = NoInvoice /\ c.pc = "book")
          /\ c.pc = "book" => c.doc \in Payment \cap c.docs
          /\ c.pc = "enter" => c.doc \in Journal
          /\ c.pc = "clear" => c.doc \in StatementLine \cap c.docs
          /\ c.pc = "totals" => c.amount > 0 /\ c.status \in Paid
      BY <1>3
    <2> QED
      BY <1>3, <2>1, StartOK
  <1>5. Begin(w, {i}, request) /\ Inv(w, i).state = "draft"
    BY <1>1 DEF Post
  <1>6. committed[InvoiceRow(i)].state = "draft"
    BY <1>5, FirstSight DEF Begin
  <1>7. Fresh(c)
    BY <1>3, <1>4, <1>6 DEF Fresh
  <1> QED
    BY <1>2, <1>3, <1>5, <1>7, BeginKeeps

\* action_register_payment begins on a posted invoice.
LEMMA RegisterKeeps ==
    ASSUME IInv, OneRequestPerDocument, NEW w \in Worker, NEW i \in Invoice,
           NEW j \in Journal, NEW amount \in Amounts, RegisterPayment(w, i, j, amount)
    PROVE  IInv'
  <1>1. PICK request : request = [Idle EXCEPT !.pc = "enter", !.inv = i, !.doc = j,
                                      !.amount = PayAmount(amount, Inv(w, i).residual)]
    OBVIOUS
  <1>2. PICK c : c = [request EXCEPT !.docs = {i}]
    OBVIOUS
  <1>3. /\ IsCall(c) /\ c.pc = "enter" /\ c.docs = {i} /\ c.inv = i /\ c.doc = j
        /\ c.amount = PayAmount(amount, Inv(w, i).residual)
        /\ c.applying = NothingApplied /\ c.entering = <<>>
    BY <1>1, <1>2 DEF Idle, IsCall
  <1>4. Inv(w, i).residual \in Int /\ amount \in Int
    BY SeenRows, InvoicingAssumption DEF IInv, TypeInv, InvoiceVersion
  <1>5. c.amount \in Int
    BY <1>3, <1>4 DEF PayAmount
  <1>6. CallOK(c)
    <2>1. /\ c.pc \in {"edited", "totals", "number", "enter", "book", "clear"}
          /\ c.amount \in Int
          /\ (c.inv \in Invoice /\ c.inv \in c.docs) \/ (c.inv = NoInvoice /\ c.pc = "book")
          /\ c.pc = "book" => c.doc \in Payment \cap c.docs
          /\ c.pc = "enter" => c.doc \in Journal
          /\ c.pc = "clear" => c.doc \in StatementLine \cap c.docs
          /\ c.pc = "totals" => c.amount > 0 /\ c.status \in Paid
      BY <1>3, <1>5
    <2> QED
      BY <1>3, <1>5, <2>1, StartOK
  <1>7. Begin(w, {i}, request)
    BY <1>1 DEF RegisterPayment
  <1>8. Fresh(c)
    BY <1>3, <1>6 DEF Fresh
  <1> QED
    BY <1>2, <1>3, <1>7, <1>8, BeginKeeps

\* action_post of a payment begins on a draft that is its own.
LEMMA PostPaymentKeeps ==
    ASSUME IInv, OneRequestPerDocument, NEW w \in Worker, NEW p \in Payment, PostPayment(w, p)
    PROVE  IInv'
  <1>1. PICK request : request = [Idle EXCEPT !.pc = "book", !.doc = p,
                                      !.amount = CountedNumber(Pay(w, p).journal)]
    OBVIOUS
  <1>2. PICK c : c = [request EXCEPT !.docs = {p}]
    OBVIOUS
  <1>3. /\ IsCall(c) /\ c.pc = "book" /\ c.docs = {p} /\ c.inv = NoInvoice /\ c.doc = p
        /\ c.amount = CountedNumber(Pay(w, p).journal)
        /\ c.applying = NothingApplied /\ c.entering = <<>>
    BY <1>1, <1>2 DEF Idle, IsCall
  <1>4. \A j : CountedNumber(j) \in Int
    <2> SUFFICES ASSUME NEW j PROVE CountedNumber(j) \in Int
      OBVIOUS
    <2>1. entries \in Seq(Entry)
      BY DEF IInv, TypeInv, RowInv
    <2>2. IsFiniteSet(1..Len(entries))
      BY <2>1, FS_Interval
    <2>3. IsFiniteSet({k \in DOMAIN entries : entries[k].journal = j})
      BY <2>1, <2>2, FS_Subset
    <2> QED
      BY <2>3, FS_CardinalityType DEF CountedNumber
  <1>5. CallOK(c)
    <2>1. /\ c.pc \in {"edited", "totals", "number", "enter", "book", "clear"}
          /\ c.amount \in Int
          /\ (c.inv \in Invoice /\ c.inv \in c.docs) \/ (c.inv = NoInvoice /\ c.pc = "book")
          /\ c.pc = "book" => c.doc \in Payment \cap c.docs
          /\ c.pc = "enter" => c.doc \in Journal
          /\ c.pc = "clear" => c.doc \in StatementLine \cap c.docs
          /\ c.pc = "totals" => c.amount > 0 /\ c.status \in Paid
      BY <1>3, <1>4
    <2> QED
      BY <1>3, <1>4, <2>1, StartOK
  <1>6. Begin(w, {p}, request) /\ Pay(w, p).state = "draft"
    BY <1>1 DEF PostPayment
  <1>7. committed[PaymentRow(p)].state = "draft"
    BY <1>6, FirstSight DEF Begin
  <1>8. Fresh(c)
    BY <1>3, <1>5, <1>7 DEF Fresh
  <1> QED
    BY <1>2, <1>3, <1>6, <1>8, BeginKeeps

\* The bank reconciliation begins on a line that nothing has cleared.
LEMMA ReconcileKeeps ==
    ASSUME IInv, OneRequestPerDocument, NEW w \in Worker, NEW l \in StatementLine, NEW i \in Invoice,
           Reconcile(w, l, i)
    PROVE  IInv'
  <1>1. PICK request : request = [Idle EXCEPT !.pc = "clear", !.inv = i, !.doc = l]
    OBVIOUS
  <1>2. PICK c : c = [request EXCEPT !.docs = {l, i}]
    OBVIOUS
  <1>3. /\ IsCall(c) /\ c.pc = "clear" /\ c.docs = {l, i} /\ c.inv = i /\ c.doc = l /\ c.amount = 0
        /\ c.applying = NothingApplied /\ c.entering = <<>>
    BY <1>1, <1>2 DEF Idle, IsCall
  <1>4. CallOK(c)
    <2>1. /\ c.pc \in {"edited", "totals", "number", "enter", "book", "clear"}
          /\ c.amount \in Int
          /\ (c.inv \in Invoice /\ c.inv \in c.docs) \/ (c.inv = NoInvoice /\ c.pc = "book")
          /\ c.pc = "book" => c.doc \in Payment \cap c.docs
          /\ c.pc = "enter" => c.doc \in Journal
          /\ c.pc = "clear" => c.doc \in StatementLine \cap c.docs
          /\ c.pc = "totals" => c.amount > 0 /\ c.status \in Paid
      BY <1>3
    <2> QED
      BY <1>3, <2>1, StartOK
  <1>5. Begin(w, {l, i}, request) /\ Visible(w, LineRow(l)).reconciled = NoInvoice
    BY <1>1 DEF Reconcile
  <1>6. committed[LineRow(l)].reconciled = NoInvoice
    BY <1>5, FirstSight DEF Begin
  <1>7. Fresh(c)
    BY <1>3, <1>4, <1>6 DEF Fresh
  <1> QED
    BY <1>2, <1>3, <1>5, <1>7, BeginKeeps

\* The form saves the lines.
LEMMA EditKeeps ==
    ASSUME IInv, OneRequestPerDocument, NEW w \in Worker, NEW i \in Invoice, NEW total \in lineTotal[i],
           EditLines(w, i, total)
    PROVE  IInv'
  <1>1. PICK c : c = [Idle EXCEPT !.pc = "edited", !.docs = {i}, !.inv = i]
    OBVIOUS
  <1>2. /\ IsCall(c) /\ c.pc = "edited" /\ c.docs = {i} /\ c.inv = i /\ c.amount = 0
        /\ c.applying = NothingApplied /\ c.entering = <<>>
    BY <1>1 DEF Idle, IsCall
  <1>3. Fresh(c)
    <2>1. /\ c.pc \in {"edited", "totals", "number", "enter", "book", "clear"}
          /\ c.amount \in Int
          /\ (c.inv \in Invoice /\ c.inv \in c.docs) \/ (c.inv = NoInvoice /\ c.pc = "book")
          /\ c.pc = "book" => c.doc \in Payment \cap c.docs
          /\ c.pc = "enter" => c.doc \in Journal
          /\ c.pc = "clear" => c.doc \in StatementLine \cap c.docs
          /\ c.pc = "totals" => c.amount > 0 /\ c.status \in Paid
      BY <1>2
    <2> QED
      BY <1>2, <2>1, StartOK DEF Fresh
  <1>4. total \in Nat \ {0}
    BY InvoicingAssumption
  <1>5. lines' \in [Invoice -> Nat \ {0}]
    BY <1>4 DEF EditLines, IInv, TypeInv, RowInv
  <1>6. /\ call[w].pc = "idle" /\ call[w].docs = {}
        /\ call' = [call EXCEPT ![w] = c] /\ UNCHANGED dbVars /\ UNCHANGED <<applied, entries>>
    BY <1>1, IdleOK DEF EditLines
  <1>7. \A v \in Worker : v # w => call[v].docs \cap c.docs = {}
    BY <1>2 DEF EditLines
  <1> QED
    BY <1>3, <1>5, <1>6, <1>7, FreshKeeps

\* A saved form goes on to recompute_totals.
LEMMA SavedKeeps ==
    ASSUME IInv, NEW w \in Worker, RecomputeSaved(w)
    PROVE  IInv'
  <1> DEFINE i == call[w].inv
  <1>1. call[w].pc = "edited" /\ CallOK(call[w]) /\ RowInv /\ Apart
    BY DEF RecomputeSaved, At, IInv, TypeInv, CallInv
  <1>2. i \in Invoice /\ i \in call[w].docs
    BY <1>1 DEF CallOK
  <1>3. PICK c : c = ReadLines(w, i)
    OBVIOUS
  <1>4. /\ IsCall(c) /\ c.pc = "totals" /\ c.docs = {i} /\ c.inv = i /\ c.amount = lines[i]
        /\ c.status = Inv(w, i).paid /\ c.applying = NothingApplied /\ c.entering = <<>>
    BY <1>3 DEF ReadLines, Idle, IsCall
  <1>5. lines[i] \in Nat \ {0} /\ Inv(w, i).paid \in Paid
    BY <1>1, <1>2, SeenRows DEF RowInv, InvoiceVersion
  <1>6. Fresh(c)
    <2>1. /\ c.pc \in {"edited", "totals", "number", "enter", "book", "clear"}
          /\ c.amount \in Int
          /\ (c.inv \in Invoice /\ c.inv \in c.docs) \/ (c.inv = NoInvoice /\ c.pc = "book")
          /\ c.pc = "book" => c.doc \in Payment \cap c.docs
          /\ c.pc = "enter" => c.doc \in Journal
          /\ c.pc = "clear" => c.doc \in StatementLine \cap c.docs
          /\ c.pc = "totals" => c.amount > 0 /\ c.status \in Paid
      BY <1>2, <1>4, <1>5
    <2> QED
      BY <1>2, <1>4, <1>5, <2>1, StartOK DEF Fresh
  <1>7. \A v \in Worker : v # w => call[v].docs \cap c.docs = {}
    BY <1>1, <1>2, <1>4 DEF Apart
  <1>8. /\ call' = [call EXCEPT ![w] = c] /\ UNCHANGED dbVars
        /\ UNCHANGED <<applied, entries>> /\ lines' = lines
    BY <1>3 DEF RecomputeSaved
  <1>9. lines' \in [Invoice -> Nat \ {0}]
    BY <1>1, <1>8 DEF RowInv
  <1> QED
    BY <1>1, <1>6, <1>7, <1>8, <1>9, FreshKeeps

-----------------------------------------------------------------------------
(* the credits and payments an invoice is given *)

\* Who works on documents has them to itself, and knows what the invariant says.
LEMMA Mine ==
    ASSUME IInv, NEW w \in Worker
    PROVE  /\ CallOK(call[w]) /\ LockOK(w) /\ NumberOK(w) /\ RowInv /\ CallInv
           /\ \A p \in Payment : PaymentOK(w, p)
           /\ \A l \in StatementLine : LineOK(w, l)
           /\ \A v \in Worker : v # w => call[v].docs \cap call[w].docs = {}
           /\ lines \in [Invoice -> Nat \ {0}]
  BY DEF IInv, TypeInv, NumberInv, EntryInv, CallInv, Apart, RowInv

Chain == {"totals", "credit", "allocate", "residual", "refresh"}

\* A step between the statements on an invoice, which inserts nothing.
LEMMA ChainKeeps ==
    ASSUME IInv, NEW w \in Worker, call[w].pc \in Chain,
           NEW c, IsCall(c), c.docs = call[w].docs, c.inv = call[w].inv, c.entering = call[w].entering,
           c.pc \in {"allocate", "residual", "refresh", "commit"}, c.amount \in Int,
           c.pc = "refresh" => c.status \in Paid,
           c.applying \in [Payment \X Invoice -> Int],
           \A p \in Payment, i \in Invoice :
              c.applying[<<p, i>>] # 0 => \/ call[w].applying[<<p, i>>] # 0
                                          \/ Entered(p) \/ Enters(call[w], p),
           call' = [call EXCEPT ![w] = c], UNCHANGED <<lines, applied, entries>>,
           \/ UNCHANGED dbVars
           \/ \E version \in InvoiceVersion :
                 /\ Update(w, InvoiceRow(c.inv), version)
                 /\ version.state = live[InvoiceRow(c.inv)].state
                 /\ version.number = live[InvoiceRow(c.inv)].number
    PROVE  IInv'
  <1>1. /\ CallOK(call[w]) /\ LockOK(w) /\ NumberOK(w) /\ RowInv
        /\ \A p \in Payment : PaymentOK(w, p)
        /\ \A l \in StatementLine : LineOK(w, l)
        /\ \A v \in Worker : v # w => call[v].docs \cap c.docs = {}
        /\ lines \in [Invoice -> Nat \ {0}]
    BY Mine
  <1>2. call'[w] = c
    BY Mine DEF CallInv
  <1>3. c.inv \in Invoice /\ c.inv \in c.docs
    BY <1>1 DEF CallOK, Chain
  <1>4. CallOK(c)
    <2>1. c.pc \in Place /\ c.pc \notin {"idle", "book", "enter", "clear", "mark", "totals", "post"}
      BY DEF Place
    <2>2. c.entering \in Seq(Entry) /\ Len(c.entering) <= 1
      BY <1>1 DEF CallOK
    <2> QED
      BY <1>3, <2>1, <2>2 DEF CallOK
  <1>5. /\ \E new : Write(w, new) /\ Fits(new)
        /\ committed' = committed
        /\ \A k \in Invoice : k # c.inv => Kept(InvoiceRow(k))
        /\ \A p \in Payment : Kept(PaymentRow(p))
        /\ \A l \in StatementLine : Kept(LineRow(l))
        /\ Kept(InvSequence)
        /\ lock'[InvoiceRow(c.inv)] = w =>
              /\ lock[InvoiceRow(c.inv)] \in {w, NoTxn}
              /\ live'[InvoiceRow(c.inv)].state = live[InvoiceRow(c.inv)].state
              /\ live'[InvoiceRow(c.inv)].number = live[InvoiceRow(c.inv)].number
    <2>1. CASE UNCHANGED dbVars
      <3>1. \E new : Write(w, new) /\ Fits(new)
        BY <1>1, <2>1, NothingFits
      <3> QED
        BY <2>1, <3>1, AllKept DEF Kept
    <2>2. CASE \E version \in InvoiceVersion :
                 /\ Update(w, InvoiceRow(c.inv), version)
                 /\ version.state = live[InvoiceRow(c.inv)].state
                 /\ version.number = live[InvoiceRow(c.inv)].number
      <3>1. PICK version \in InvoiceVersion :
                 /\ Update(w, InvoiceRow(c.inv), version)
                 /\ version.state = live[InvoiceRow(c.inv)].state
                 /\ version.number = live[InvoiceRow(c.inv)].number
        BY <2>2
      <3>2. PICK i \in Invoice : i = c.inv
        BY <1>3
      <3>3. \E new : Write(w, new) /\ Fits(new)
        BY <3>1, <3>2, UpdateFits
      <3> QED
        BY <3>1, <3>2, <3>3, InvoiceUpdate
    <2> QED
      BY <2>1, <2>2
  <1>6. LockOK(w)'
    <2>1. \A i \in Invoice : lock'[InvoiceRow(i)] = w => c.inv = i
      BY <1>1, <1>5 DEF LockOK, Kept
    <2>2. \A l \in StatementLine : lock'[LineRow(l)] # w
      BY <1>1, <1>5 DEF LockOK, Kept, Chain
    <2> QED
      BY <1>2, <2>1, <2>2 DEF LockOK, Serving
  <1>7. NumberOK(w)'
    <2>1. \A i \in Invoice : lock'[InvoiceRow(i)] = w =>
              /\ lock[InvoiceRow(i)] \in {w, NoTxn}
              /\ live'[InvoiceRow(i)].state = live[InvoiceRow(i)].state
              /\ live'[InvoiceRow(i)].number = live[InvoiceRow(i)].number
      BY <1>5 DEF Kept
    <2> QED
      BY <1>1, <1>2, <1>5, <2>1, NumberStays
  <1>8. \A p \in Payment : PaymentOK(w, p)'
    BY <1>1, <1>2, <1>5, PaymentStays
  <1>9. \A l \in StatementLine : LineOK(w, l)'
    BY <1>1, <1>2, <1>5, LineStays DEF Chain
  <1> QED
    BY <1>1, <1>4, <1>5, <1>6, <1>7, <1>8, <1>9, ServeKeeps

\* The payments with something left are looked up.
LEMMA FindCreditKeeps ==
    ASSUME IInv, NEW w \in Worker, FindCredit(w)
    PROVE  IInv'
  <1>1. CallOK(call[w]) /\ call[w].pc = "credit"
    BY Mine DEF FindCredit, At
  <1>2. PICK queue : TryNext(w, queue)
    BY DEF FindCredit
  <1>3. PICK c : c = [call[w] EXCEPT !.queue = queue, !.pc = IF queue = <<>> THEN "commit" ELSE "allocate"]
    OBVIOUS
  <1>4. call' = [call EXCEPT ![w] = c]
    BY <1>2, <1>3, Mine DEF TryNext, CallInv
  <1>5. /\ IsCall(c) /\ c.docs = call[w].docs /\ c.inv = call[w].inv /\ c.entering = call[w].entering
        /\ c.pc \in {"allocate", "commit"} /\ c.amount = call[w].amount /\ c.applying = call[w].applying
    BY ONLY <1>1, <1>3 DEF CallOK, IsCall
  <1>6. UNCHANGED dbVars /\ UNCHANGED <<lines, applied, entries>>
    BY DEF FindCredit
  <1> QED
    BY <1>1, <1>4, <1>5, <1>6, ChainKeeps DEF CallOK, Chain

\* A payment that is not posted is refused.
LEMMA RefusedKeeps ==
    ASSUME IInv, NEW w \in Worker, AllocateRefused(w)
    PROVE  IInv'
  <1>1. CallOK(call[w]) /\ call[w].pc = "allocate"
    BY Mine DEF AllocateRefused, At
  <1>2. PICK c : c = [call[w] EXCEPT !.pc = "commit"]
    OBVIOUS
  <1>3. call' = [call EXCEPT ![w] = c]
    BY <1>2, Mine DEF AllocateRefused, Goto, CallInv
  <1>4. /\ IsCall(c) /\ c.docs = call[w].docs /\ c.inv = call[w].inv /\ c.entering = call[w].entering
        /\ c.pc = "commit" /\ c.amount = call[w].amount /\ c.applying = call[w].applying
    BY ONLY <1>1, <1>2 DEF CallOK, IsCall
  <1>5. UNCHANGED dbVars /\ UNCHANGED <<lines, applied, entries>>
    BY DEF AllocateRefused
  <1> QED
    BY <1>1, <1>3, <1>4, <1>5, ChainKeeps DEF CallOK, Chain

\* Nothing is open any more.
LEMMA NothingKeeps ==
    ASSUME IInv, NEW w \in Worker, AllocateNothing(w)
    PROVE  IInv'
  <1>1. CallOK(call[w]) /\ call[w].pc = "allocate"
    BY Mine DEF AllocateNothing, At
  <1>2. PICK queue : TryNext(w, queue)
    BY DEF AllocateNothing
  <1>3. PICK c : c = [call[w] EXCEPT !.queue = queue, !.pc = IF queue = <<>> THEN "commit" ELSE "allocate"]
    OBVIOUS
  <1>4. call' = [call EXCEPT ![w] = c]
    BY <1>2, <1>3, Mine DEF TryNext, CallInv
  <1>5. /\ IsCall(c) /\ c.docs = call[w].docs /\ c.inv = call[w].inv /\ c.entering = call[w].entering
        /\ c.pc \in {"allocate", "commit"} /\ c.amount = call[w].amount /\ c.applying = call[w].applying
    BY ONLY <1>1, <1>3 DEF CallOK, IsCall
  <1>6. UNCHANGED dbVars /\ UNCHANGED <<lines, applied, entries>>
    BY DEF AllocateNothing
  <1> QED
    BY <1>1, <1>4, <1>5, <1>6, ChainKeeps DEF CallOK, Chain

\* A payment that is seen as posted has its entry.
LEMMA PostedEntered ==
    ASSUME IInv, NEW w \in Worker, NEW p \in Payment, Pay(w, p).state = "posted"
    PROVE  Entered(p) \/ Enters(call[w], p)
  <1>1. PaymentOK(w, p)
    BY Mine
  <1>2. committed[PaymentRow(p)].state = "posted" => Entered(p)
    BY DEF IInv, EntryInv, EntriesOK
  <1> QED
    BY <1>1, <1>2 DEF Pay, Visible, PaymentOK

\* There are finitely many payments.
LEMMA PaymentsFinite ==
    /\ IsFiniteSet(Payment)
    /\ \A k \in DOMAIN paymentIds : k \in Nat /\ paymentIds[k] \in Payment
  <1>1. paymentIds \in Seq(Payment)
    BY InvoicingAssumption
  <1>2. DOMAIN paymentIds = 1..Len(paymentIds) /\ Len(paymentIds) \in Nat
    BY <1>1
  <1>3. IsFiniteSet(DOMAIN paymentIds)
    BY <1>2, FS_Interval
  <1>4. Payment = {paymentIds[k] : k \in DOMAIN paymentIds}
    BY DEF Payment, ToSet
  <1>5. IsFiniteSet(Payment)
    <2>1. PICK D : D = DOMAIN paymentIds /\ IsFiniteSet(D)
      BY <1>3
    <2>2. paymentIds \in [D -> Payment]
      BY <1>1, <1>2, <2>1
    <2>3. paymentIds \in Surjection(D, Payment)
      BY <1>4, <2>1, <2>2 DEF Surjection
    <2> QED
      BY <2>1, <2>3, FS_Surjection
  <1> QED
    BY <1>1, <1>2, <1>5

\* What a request applies is a whole number.
LEMMA AppliedType ==
    ASSUME IInv, NEW w \in Worker, NEW i \in Invoice
    PROVE  AppliedTo(w, i) \in Int
  <1>1. PICK f : f = [p \in Payment |-> Applied(w, p, i)]
    OBVIOUS
  <1>2. f \in [Payment -> Int]
    BY <1>1, Mine DEF Applied, RowInv, CallOK
  <1>3. SumFunction(f) \in Int
    BY <1>2, PaymentsFinite, SumFunctionType
  <1> QED
    BY <1>1, <1>3 DEF AppliedTo

\* A slice of a posted payment is applied.
LEMMA AllocateKeeps ==
    ASSUME IInv, NEW w \in Worker, Allocate(w)
    PROVE  IInv'
  <1> DEFINE p == Head(call[w].queue)
             i == call[w].inv
  <1>1. CallOK(call[w]) /\ call[w].pc = "allocate" /\ Pay(w, p).state = "posted"
    BY Mine DEF Allocate, At
  <1>2. i \in Invoice
    BY <1>1 DEF CallOK
  <1>3. PICK s : s = Slice(Pay(w, p).amount, Open(w, i))
    OBVIOUS
  <1>4. PICK a : a = [call[w].applying EXCEPT ![<<p, i>>] = @ + s]
    OBVIOUS
  <1>5. PICK c : c = [call[w] EXCEPT !.pc = "residual", !.applying = a]
    OBVIOUS
  <1>6. call' = [call EXCEPT ![w] = c]
    <2>1. call' = [call EXCEPT ![w].pc = "residual", ![w].applying[<<p, i>>] = @ + s]
      BY <1>3 DEF Allocate
    <2> QED
      BY ONLY <1>4, <1>5, <2>1
  <1>7. /\ IsCall(c) /\ c.docs = call[w].docs /\ c.inv = call[w].inv /\ c.entering = call[w].entering
        /\ c.pc = "residual" /\ c.amount = call[w].amount /\ c.applying = a
    BY ONLY <1>1, <1>5 DEF CallOK, IsCall
  <1>8. p \in Payment => s \in Int
    <2> SUFFICES ASSUME p \in Payment PROVE s \in Int
      OBVIOUS
    <2>1. Pay(w, p).amount \in Int
      BY <1>1, SeenRows, Mine DEF PaymentVersion
    <2>2. Open(w, i) \in Int
      BY <1>2, SeenRows, Mine, AppliedType DEF Open, InvoiceVersion
    <2> QED
      BY <1>3, <2>1, <2>2 DEF Slice
  <1>9. a \in [Payment \X Invoice -> Int]
    <2>1. PICK old \in [Payment \X Invoice -> Int] : old = call[w].applying
      BY <1>1 DEF CallOK
    <2>2. a = [q \in Payment \X Invoice |-> IF q = <<p, i>> THEN old[q] + s ELSE old[q]]
      BY <1>4, <2>1
    <2>3. <<p, i>> \in Payment \X Invoice => p \in Payment
      OBVIOUS
    <2>4. \A q \in Payment \X Invoice : q = <<p, i>> => s \in Int
      BY <1>8, <2>3
    <2>5. \A q \in Payment \X Invoice : (IF q = <<p, i>> THEN old[q] + s ELSE old[q]) \in Int
      BY <2>1, <2>4
    <2> QED
      BY <2>2, <2>5
  <1>10. \A q \in Payment, k \in Invoice :
            a[<<q, k>>] # 0 => \/ call[w].applying[<<q, k>>] # 0
                               \/ Entered(q) \/ Enters(call[w], q)
    <2> SUFFICES ASSUME NEW q \in Payment, NEW k \in Invoice,
                        a[<<q, k>>] # call[w].applying[<<q, k>>]
                 PROVE  Entered(q) \/ Enters(call[w], q)
      OBVIOUS
    <2>1. q = p
      BY <1>1, <1>4 DEF CallOK
    <2> QED
      BY <1>1, <2>1, PostedEntered
  <1>11. UNCHANGED dbVars /\ UNCHANGED <<lines, applied, entries>>
    BY DEF Allocate
  <1> QED
    BY <1>1, <1>6, <1>7, <1>9, <1>10, <1>11, ChainKeeps DEF CallOK, Chain

\* The residual is derived.
LEMMA DeriveKeeps ==
    ASSUME IInv, NEW w \in Worker, DeriveResidual(w)
    PROVE  IInv'
  <1> DEFINE i == call[w].inv
  <1>1. CallOK(call[w]) /\ call[w].pc = "residual"
    BY Mine DEF DeriveResidual, At
  <1>2. i \in Invoice
    BY <1>1 DEF CallOK
  <1>3. PICK residual : residual = Inv(w, i).total - AppliedTo(w, i)
    OBVIOUS
  <1>4. residual \in Int
    BY <1>2, <1>3, SeenRows, Mine, AppliedType DEF InvoiceVersion
  <1>5. PICK status : status = IF residual = 0 THEN "paid"
                               ELSE IF residual = Inv(w, i).total THEN "not_paid" ELSE "partial"
    OBVIOUS
  <1>6. PICK c : c = [call[w] EXCEPT !.pc = "refresh", !.amount = residual, !.status = status]
    OBVIOUS
  <1>7. call' = [call EXCEPT ![w] = c]
    BY <1>3, <1>5, <1>6, Mine DEF DeriveResidual, CallInv
  <1>8. /\ IsCall(c) /\ c.docs = call[w].docs /\ c.inv = call[w].inv /\ c.entering = call[w].entering
        /\ c.pc = "refresh" /\ c.amount = residual /\ c.status = status /\ c.applying = call[w].applying
    BY ONLY <1>1, <1>6 DEF CallOK, IsCall
  <1>9. status \in Paid
    BY <1>5 DEF Paid
  <1>10. UNCHANGED dbVars /\ UNCHANGED <<lines, applied, entries>>
    BY DEF DeriveResidual
  <1> QED
    BY <1>1, <1>4, <1>7, <1>8, <1>9, <1>10, ChainKeeps DEF CallOK, Chain

\* The residual is written.
LEMMA ResidualKeeps ==
    ASSUME IInv, NEW w \in Worker, WriteResidual(w)
    PROVE  IInv'
  <1> DEFINE r == InvoiceRow(call[w].inv)
  <1>1. CallOK(call[w]) /\ call[w].pc = "refresh"
    BY Mine DEF WriteResidual, At
  <1>2. call[w].inv \in Invoice /\ call[w].amount \in Int /\ call[w].status \in Paid
    BY <1>1 DEF CallOK
  <1>3. live[r] \in InvoiceVersion
    BY <1>2, Mine DEF RowInv, RowOK
  <1>4. PICK version : version = [live[r] EXCEPT !.residual = call[w].amount, !.paid = call[w].status]
    OBVIOUS
  <1>41. /\ version \in InvoiceVersion
         /\ version.state = live[r].state /\ version.number = live[r].number
    <2>1. PICK old \in InvoiceVersion : old = live[r]
      BY <1>3
    <2>2. PICK residual \in Int : residual = call[w].amount
      BY <1>2
    <2>3. PICK paid \in Paid : paid = call[w].status
      BY <1>2
    <2>4. version = [old EXCEPT !.residual = residual, !.paid = paid]
      BY ONLY <1>4, <2>1, <2>2, <2>3
    <2>5. /\ version \in InvoiceVersion
          /\ version.state = old.state /\ version.number = old.number
      BY ONLY <2>4, old \in InvoiceVersion, residual \in Int, paid \in Paid DEF InvoiceVersion
    <2> QED
      BY <2>1, <2>5
  <1>5. Update(w, r, version)
    BY <1>4 DEF WriteResidual
  <1>6. PICK queue : TryNext(w, queue)
    BY DEF WriteResidual
  <1>7. PICK c : c = [call[w] EXCEPT !.queue = queue, !.pc = IF queue = <<>> THEN "commit" ELSE "allocate"]
    OBVIOUS
  <1>8. call' = [call EXCEPT ![w] = c]
    BY <1>6, <1>7, Mine DEF TryNext, CallInv
  <1>9. /\ IsCall(c) /\ c.docs = call[w].docs /\ c.inv = call[w].inv /\ c.entering = call[w].entering
        /\ c.pc \in {"allocate", "commit"} /\ c.amount = call[w].amount /\ c.applying = call[w].applying
    BY ONLY <1>1, <1>7 DEF CallOK, IsCall
  <1>10. UNCHANGED <<lines, applied, entries>>
    BY DEF WriteResidual
  <1> QED
    BY <1>1, <1>5, <1>8, <1>9, <1>10, <1>41, ChainKeeps DEF CallOK, Chain

-----------------------------------------------------------------------------
(* totals, states and numbers *)

\* The total is written.
LEMMA TotalsKeeps ==
    ASSUME IInv, NEW w \in Worker, WriteTotals(w)
    PROVE  IInv'
  <1> DEFINE r == InvoiceRow(call[w].inv)
  <1>1. CallOK(call[w]) /\ call[w].pc = "totals"
    BY Mine DEF WriteTotals, At
  <1>2. call[w].inv \in Invoice /\ call[w].amount \in Nat \ {0}
    BY <1>1 DEF CallOK
  <1>3. live[r] \in InvoiceVersion
    BY <1>2, Mine DEF RowInv, RowOK
  <1>4. PICK residual : residual = RecomputedResidual(call[w].amount, call[w].status)
    OBVIOUS
  <1>5. residual \in Int
    BY <1>2, <1>4 DEF RecomputedResidual
  <1>6. PICK version : version = [live[r] EXCEPT !.total = call[w].amount, !.residual = residual]
    OBVIOUS
  <1>7. version \in InvoiceVersion /\ version.state = live[r].state /\ version.number = live[r].number
    <2>1. PICK old \in InvoiceVersion : old = live[r]
      BY <1>3
    <2>2. PICK total \in Nat \ {0} : total = call[w].amount
      BY <1>2
    <2>3. version = [old EXCEPT !.total = total, !.residual = residual]
      BY ONLY <1>6, <2>1, <2>2
    <2>4. version \in InvoiceVersion /\ version.state = old.state /\ version.number = old.number
      BY ONLY <2>3, <1>5, old \in InvoiceVersion, total \in Nat \ {0} DEF InvoiceVersion
    <2> QED
      BY <2>1, <2>4
  <1>8. Update(w, r, version)
    BY <1>4, <1>6 DEF WriteTotals
  <1>9. PICK c : c = [call[w] EXCEPT !.pc = "commit"]
    OBVIOUS
  <1>10. call' = [call EXCEPT ![w] = c]
    BY <1>9, Mine DEF WriteTotals, Goto, CallInv
  <1>11. /\ IsCall(c) /\ c.docs = call[w].docs /\ c.inv = call[w].inv /\ c.entering = call[w].entering
         /\ c.pc = "commit" /\ c.amount = call[w].amount /\ c.applying = call[w].applying
    BY ONLY <1>1, <1>9 DEF CallOK, IsCall
  <1>12. UNCHANGED <<lines, applied, entries>>
    BY DEF WriteTotals
  <1> QED
    BY <1>1, <1>7, <1>8, <1>10, <1>11, <1>12, ChainKeeps DEF CallOK, Chain

\* What is known of a request that writes in its first step.
LEMMA AtOnceOK ==
    ASSUME NEW c, IsCall(c), c.pc = "commit", c.applying = NothingApplied, c.entering = <<>>,
           c.amount = 0, (c.inv \in Invoice /\ c.inv \in c.docs) \/ c.inv = NoInvoice
    PROVE  CallOK(c)
  <1>1. c.entering \in Seq(Entry) /\ Len(c.entering) <= 1
    OBVIOUS
  <1>2. c.applying \in [Payment \X Invoice -> Int]
    BY IdleOK
  <1>3. c.pc \in Place /\ c.pc \notin {"idle", "book", "enter", "clear", "mark", "totals", "post", "refresh"}
    BY DEF Place
  <1> QED
    BY <1>1, <1>2, <1>3, NoInvoiceIn DEF CallOK

\* A row that nobody else has locked is the committed one.
LEMMA FreeRow ==
    ASSUME IInv, NEW w \in Worker, NEW r \in Row, lock[r] \in {w, NoTxn}, lock[r] # w
    PROVE  live[r] = committed[r]
  BY DEF IInv, TypeInv, RowInv

\* One UPDATE switches the state of an invoice.
LEMMA SwitchKeeps ==
    ASSUME IInv, OneRequestPerDocument, NEW w \in Worker, NEW i \in Invoice, NEW from, NEW version,
           SwitchState(w, i, from, version), version \in InvoiceVersion,
           Keeps(live[InvoiceRow(i)], version), version.number \in {0, live[InvoiceRow(i)].number}
    PROVE  IInv'
  <1>1. PICK c : c = [Idle EXCEPT !.pc = "commit", !.docs = {i}, !.inv = i]
    OBVIOUS
  <1>2. /\ IsCall(c) /\ c.pc = "commit" /\ c.docs = {i} /\ c.inv = i /\ c.amount = 0
        /\ c.applying = NothingApplied /\ c.entering = <<>>
    BY <1>1 DEF Idle, IsCall
  <1>3. CallOK(c)
    BY <1>2, AtOnceOK
  <1>4. /\ call[w] = Idle /\ Update(w, InvoiceRow(i), version) /\ call' = [call EXCEPT ![w] = c]
        /\ UNCHANGED <<lines, applied, entries>> /\ \A v \in Worker : i \notin call[v].docs
    BY <1>1 DEF SwitchState
  <1>5. /\ LockOK(w) /\ NumberOK(w) /\ RowInv /\ \A p \in Payment : PaymentOK(w, p)
        /\ \A l \in StatementLine : LineOK(w, l)
    BY Mine
  <1>6. call[w].pc = "idle" /\ call[w].entering = <<>> /\ call'[w] = c
    BY <1>4, IdleOK, Mine DEF CallInv
  <1>7. /\ \A k \in Invoice : lock[InvoiceRow(k)] # w
        /\ \A p \in Payment : lock[PaymentRow(p)] # w
        /\ \A l \in StatementLine : lock[LineRow(l)] # w
        /\ lock[InvSequence] # w
    BY <1>5, <1>6, HoldsNothing
  <1>8. /\ committed' = committed
        /\ live'[InvoiceRow(i)] = version /\ lock'[InvoiceRow(i)] = w
        /\ lock[InvoiceRow(i)] \in {w, NoTxn}
        /\ \A k \in Invoice : k # i => Kept(InvoiceRow(k))
        /\ \A p \in Payment : Kept(PaymentRow(p))
        /\ \A l \in StatementLine : Kept(LineRow(l))
        /\ Kept(InvSequence)
    BY <1>4, InvoiceUpdate
  <1>9. live[InvoiceRow(i)] = committed[InvoiceRow(i)]
    BY <1>7, <1>8, RowsThere, FreeRow
  <1>10. LockOK(w)'
    BY <1>2, <1>6, <1>7, <1>8 DEF LockOK, Kept, Serving
  <1>11. NumberOK(w)'
    BY <1>2, <1>6, <1>7, <1>8, <1>9 DEF NumberOK, Kept
  <1>12. \A p \in Payment : PaymentOK(w, p)'
    <2> SUFFICES ASSUME NEW p \in Payment PROVE PaymentOK(w, p)'
      OBVIOUS
    <2>1. \A k \in Invoice : c.applying[<<p, k>>] = 0
      BY <1>2, IdleOK
    <2>2. ~Enters(call[w], p)'
      BY <1>2, <1>6 DEF Enters
    <2> QED
      BY <1>2, <1>6, <1>7, <1>8, <2>1, <2>2 DEF PaymentOK, Kept
  <1>13. \A l \in StatementLine : LineOK(w, l)'
    BY <1>2, <1>5, <1>6, <1>8, LineStays
  <1>14. \E new : Write(w, new) /\ Fits(new)
    BY <1>4, UpdateFits
  <1>15. \A v \in Worker : v # w => call[v].docs \cap c.docs = {}
    BY <1>2, <1>4
  <1>16. lines' \in [Invoice -> Nat \ {0}]
    BY <1>4, <1>5 DEF RowInv
  <1> QED
    BY <1>3, <1>4, <1>10, <1>11, <1>12, <1>13, <1>14, <1>15, <1>16, ServeKeeps

\* An invoice is cancelled.
LEMMA CancelKeeps ==
    ASSUME IInv, OneRequestPerDocument, NEW w \in Worker, NEW i \in Invoice, Cancel(w, i)
    PROVE  IInv'
  <1>1. PICK old \in InvoiceVersion : old = live[InvoiceRow(i)]
    BY Mine DEF RowInv, RowOK
  <1>2. PICK version : version = [old EXCEPT !.state = "cancel"]
    OBVIOUS
  <1>3. SwitchState(w, i, "posted", version)
    BY <1>1, <1>2 DEF Cancel
  <1>4. version \in InvoiceVersion /\ version.number = old.number
    BY ONLY <1>2, old \in InvoiceVersion DEF InvoiceVersion, InvoiceState
  <1> QED
    BY <1>1, <1>3, <1>4, SwitchKeeps DEF Keeps

\* An invoice is reset to draft and gives up its number.
LEMMA ResetKeeps ==
    ASSUME IInv, OneRequestPerDocument, NEW w \in Worker, NEW i \in Invoice, ResetToDraft(w, i)
    PROVE  IInv'
  <1>1. PICK old \in InvoiceVersion : old = live[InvoiceRow(i)]
    BY Mine DEF RowInv, RowOK
  <1>2. PICK version : version = [old EXCEPT !.state = "draft", !.number = 0]
    OBVIOUS
  <1>3. SwitchState(w, i, "cancel", version)
    BY <1>1, <1>2 DEF ResetToDraft
  <1>4. version \in InvoiceVersion /\ version.number = 0 /\ version.state = "draft"
    BY ONLY <1>2, old \in InvoiceVersion DEF InvoiceVersion, InvoiceState
  <1> QED
    BY <1>1, <1>3, <1>4, SwitchKeeps DEF Keeps

\* The number is drawn from the sequence, which stays locked.
LEMMA DrawKeeps ==
    ASSUME IInv, NEW w \in Worker, DrawNumber(w)
    PROVE  IInv'
  <1>1. /\ CallOK(call[w]) /\ LockOK(w) /\ NumberOK(w) /\ RowInv
        /\ \A p \in Payment : PaymentOK(w, p)
        /\ \A l \in StatementLine : LineOK(w, l)
        /\ \A v \in Worker : v # w => call[v].docs \cap call[w].docs = {}
        /\ call[w].pc = "number"
    BY Mine DEF DrawNumber, At
  <1>2. PICK n : n = live[InvSequence].next
    OBVIOUS
  <1>3. n \in Nat \ {0}
    BY <1>1, <1>2 DEF RowInv, RowOK, Counter
  <1>4. PICK version : version = [next |-> n + 1]
    OBVIOUS
  <1>5. version \in Counter /\ version.next = n + 1
    BY <1>3, <1>4 DEF Counter
  <1>6. PICK c : c = [call[w] EXCEPT !.amount = n, !.pc = "post"]
    OBVIOUS
  <1>7. /\ Update(w, InvSequence, version) /\ call' = [call EXCEPT ![w] = c]
        /\ UNCHANGED <<lines, applied, entries>>
    BY <1>2, <1>4, <1>6, Mine DEF DrawNumber, CallInv
  <1>8. /\ IsCall(c) /\ c.docs = call[w].docs /\ c.inv = call[w].inv /\ c.entering = call[w].entering
        /\ c.pc = "post" /\ c.amount = n /\ c.applying = call[w].applying
    BY ONLY <1>1, <1>6 DEF CallOK, IsCall
  <1>9. c.inv \in Invoice /\ c.inv \in c.docs /\ c.entering = <<>>
    BY <1>1, <1>8 DEF CallOK
  <1>10. CallOK(c)
    <2>1. c.pc \in Place /\ c.pc \notin {"idle", "book", "enter", "clear", "mark", "totals", "refresh"}
      BY <1>8 DEF Place
    <2>2. c.entering \in Seq(Entry) /\ Len(c.entering) <= 1 /\ c.applying \in [Payment \X Invoice -> Int]
      BY <1>1, <1>8 DEF CallOK
    <2>3. c.amount \in Nat
      BY <1>3, <1>8
    <2> QED
      BY <1>8, <1>9, <2>1, <2>2, <2>3 DEF CallOK
  <1>11. call'[w] = c
    BY <1>7, Mine DEF CallInv
  <1>12. /\ \A k \in Invoice : lock[InvoiceRow(k)] # w
         /\ \A p \in Payment : lock[PaymentRow(p)] # w
         /\ \A l \in StatementLine : lock[LineRow(l)] # w
         /\ lock[InvSequence] # w
    BY <1>1, HoldsNothing
  <1>13. /\ committed' = committed
         /\ live'[InvSequence] = version /\ lock'[InvSequence] = w
         /\ lock[InvSequence] \in {w, NoTxn}
         /\ \A k \in Invoice : Kept(InvoiceRow(k))
         /\ \A p \in Payment : Kept(PaymentRow(p))
         /\ \A l \in StatementLine : Kept(LineRow(l))
    BY <1>7, SequenceUpdate
  <1>14. live[InvSequence] = committed[InvSequence]
    BY <1>12, <1>13, RowsThere, FreeRow
  <1>15. LockOK(w)'
    BY <1>8, <1>11, <1>12, <1>13 DEF LockOK, Kept
  <1>16. NumberOK(w)'
    <2>1. committed[InvoiceRow(c.inv)].state = "draft"
      BY <1>1, <1>8 DEF NumberOK
    <2> QED
      BY <1>2, <1>5, <1>8, <1>11, <1>12, <1>13, <1>14, <2>1 DEF NumberOK, Kept
  <1>17. \A p \in Payment : PaymentOK(w, p)'
    BY <1>1, <1>7, <1>8, <1>11, <1>13, PaymentStays
  <1>18. \A l \in StatementLine : LineOK(w, l)'
    BY <1>1, <1>7, <1>8, <1>11, <1>13, LineStays
  <1>19. \E new : Write(w, new) /\ Fits(new)
    BY <1>5, <1>7, UpdateFits
  <1>20. lines' \in [Invoice -> Nat \ {0}]
    BY <1>1, <1>7 DEF RowInv
  <1>21. \A v \in Worker : v # w => call[v].docs \cap c.docs = {}
    BY <1>1, <1>8
  <1> QED
    BY <1>7, <1>10, <1>15, <1>16, <1>17, <1>18, <1>19, <1>20, <1>21, ServeKeeps

\* The invoice is posted with the number drawn.
LEMMA PostedKeeps ==
    ASSUME IInv, NEW w \in Worker, WritePosted(w)
    PROVE  IInv'
  <1>1. /\ CallOK(call[w]) /\ LockOK(w) /\ NumberOK(w) /\ RowInv
        /\ \A p \in Payment : PaymentOK(w, p)
        /\ \A l \in StatementLine : LineOK(w, l)
        /\ \A v \in Worker : v # w => call[v].docs \cap call[w].docs = {}
        /\ call[w].pc = "post"
    BY Mine DEF WritePosted, At
  <1>2. PICK i \in Invoice : i = call[w].inv
    BY <1>1 DEF CallOK
  <1>3. PICK old \in InvoiceVersion : old = live[InvoiceRow(i)]
    BY <1>1, <1>2 DEF RowInv, RowOK
  <1>4. PICK n \in Nat : n = call[w].amount
    BY <1>1 DEF CallOK
  <1>5. PICK version : version = [old EXCEPT !.state = "posted", !.number = n]
    OBVIOUS
  <1>6. version \in InvoiceVersion /\ version.number = n /\ version.state = "posted"
    BY ONLY <1>5, old \in InvoiceVersion, n \in Nat DEF InvoiceVersion, InvoiceState
  <1>7. PICK c : c = [call[w] EXCEPT !.pc = "credit"]
    OBVIOUS
  <1>8. /\ Update(w, InvoiceRow(i), version) /\ call' = [call EXCEPT ![w] = c]
        /\ UNCHANGED <<lines, applied, entries>>
    BY <1>2, <1>3, <1>4, <1>5, <1>7, Mine DEF WritePosted, Goto, CallInv
  <1>9. /\ IsCall(c) /\ c.docs = call[w].docs /\ c.inv = call[w].inv /\ c.entering = call[w].entering
        /\ c.pc = "credit" /\ c.amount = n /\ c.applying = call[w].applying
    BY ONLY <1>1, <1>4, <1>7 DEF CallOK, IsCall
  <1>10. c.inv \in Invoice /\ c.inv \in c.docs /\ c.entering = <<>>
    BY <1>1, <1>2, <1>9 DEF CallOK
  <1>11. CallOK(c)
    <2>1. c.pc \in Place /\ c.pc \notin {"idle", "book", "enter", "clear", "mark", "totals", "refresh", "post"}
      BY <1>9 DEF Place
    <2>2. c.entering \in Seq(Entry) /\ Len(c.entering) <= 1 /\ c.applying \in [Payment \X Invoice -> Int]
      BY <1>1, <1>9 DEF CallOK
    <2> QED
      BY <1>9, <1>10, <2>1, <2>2 DEF CallOK
  <1>12. call'[w] = c
    BY <1>8, Mine DEF CallInv
  <1>13. /\ committed' = committed
         /\ live'[InvoiceRow(i)] = version /\ lock'[InvoiceRow(i)] = w
         /\ lock[InvoiceRow(i)] \in {w, NoTxn}
         /\ \A k \in Invoice : k # i => Kept(InvoiceRow(k))
         /\ \A p \in Payment : Kept(PaymentRow(p))
         /\ \A l \in StatementLine : Kept(LineRow(l))
         /\ Kept(InvSequence)
    BY <1>8, InvoiceUpdate
  <1>14. /\ \A k \in Invoice : lock[InvoiceRow(k)] # w
         /\ \A p \in Payment : lock[PaymentRow(p)] # w
         /\ \A l \in StatementLine : lock[LineRow(l)] # w
    BY <1>1 DEF LockOK, Serving
  <1>15. LockOK(w)'
    BY <1>2, <1>9, <1>12, <1>13, <1>14 DEF LockOK, Kept, Serving
  <1>16. NumberOK(w)'
    <2>1. /\ committed[InvoiceRow(i)].state = "draft" /\ lock[InvSequence] = w
          /\ n = committed[InvSequence].next /\ live[InvSequence].next = n + 1
      BY <1>1, <1>2, <1>4 DEF NumberOK
    <2> QED
      BY <1>6, <1>9, <1>12, <1>13, <1>14, <2>1 DEF NumberOK, Kept, Keeps
  <1>17. \A p \in Payment : PaymentOK(w, p)'
    BY <1>1, <1>8, <1>9, <1>12, <1>13, PaymentStays
  <1>18. \A l \in StatementLine : LineOK(w, l)'
    BY <1>1, <1>8, <1>9, <1>12, <1>13, LineStays
  <1>19. \E new : Write(w, new) /\ Fits(new)
    BY <1>6, <1>8, UpdateFits
  <1>20. lines' \in [Invoice -> Nat \ {0}]
    BY <1>1, <1>8 DEF RowInv
  <1>21. \A v \in Worker : v # w => call[v].docs \cap c.docs = {}
    BY <1>1, <1>9
  <1> QED
    BY <1>8, <1>11, <1>15, <1>16, <1>17, <1>18, <1>19, <1>20, <1>21, ServeKeeps

-----------------------------------------------------------------------------
(* payments and statement lines *)

\* One entry more.
LEMMA AppendEntry ==
    ASSUME NEW s, s = <<>>, NEW e \in Entry
    PROVE  /\ Append(s, e) \in Seq(Entry) /\ Len(Append(s, e)) <= 1 /\ Append(s, e)[1] = e
           /\ Append(s, e) # <<>>
  <1>1. s \in Seq(Entry)
    OBVIOUS
  <1>2. Append(s, e) \in Seq(Entry) /\ Len(Append(s, e)) = 1 /\ Append(s, e)[1] = e
    BY <1>1
  <1> QED
    BY <1>2

\* A payment is posted together with its entry.
LEMMA BookKeeps ==
    ASSUME IInv, NEW w \in Worker, BookPayment(w)
    PROVE  IInv'
  <1>1. /\ CallOK(call[w]) /\ LockOK(w) /\ NumberOK(w) /\ RowInv
        /\ \A p \in Payment : PaymentOK(w, p)
        /\ \A l \in StatementLine : LineOK(w, l)
        /\ \A v \in Worker : v # w => call[v].docs \cap call[w].docs = {}
        /\ call[w].pc = "book"
    BY Mine DEF BookPayment, At
  <1>2. PICK p \in Payment : p = call[w].doc
    BY <1>1 DEF CallOK
  <1>3. p \in call[w].docs /\ call[w].entering = <<>> /\ call[w].amount \in Int
    BY <1>1, <1>2 DEF CallOK
  <1>4. /\ \A k \in Invoice : lock[InvoiceRow(k)] # w
        /\ \A q \in Payment : lock[PaymentRow(q)] # w
        /\ \A l \in StatementLine : lock[LineRow(l)] # w
        /\ lock[InvSequence] # w
    BY <1>1, HoldsNothing
  <1>5. PICK old \in PaymentVersion : old = live[PaymentRow(p)]
    BY <1>1 DEF RowInv, RowOK
  <1>6. PICK version : version = [old EXCEPT !.state = "posted"]
    OBVIOUS
  <1>7. Update(w, PaymentRow(p), version) /\ UNCHANGED <<lines, applied, entries>>
    BY <1>2, <1>5, <1>6 DEF BookPayment
  <1>8. /\ committed' = committed
        /\ live'[PaymentRow(p)] = version /\ lock'[PaymentRow(p)] = w
        /\ lock[PaymentRow(p)] \in {w, NoTxn}
        /\ \A i \in Invoice : Kept(InvoiceRow(i))
        /\ \A q \in Payment : q # p => Kept(PaymentRow(q))
        /\ \A l \in StatementLine : Kept(LineRow(l))
        /\ Kept(InvSequence)
    BY <1>7, PaymentUpdate
  <1>9. old.state = "draft" /\ committed[PaymentRow(p)].state = "draft"
    <2>1. live[PaymentRow(p)] = committed[PaymentRow(p)]
      BY <1>4, <1>8, RowsThere, FreeRow
    <2> QED
      BY <1>1, <1>2, <1>5, <2>1 DEF PaymentOK
  <1>10. version \in PaymentVersion /\ version.state = "posted" /\ old.journal \in Journal
    <2>1. old \in [state : {"draft", "posted", "cancelled"}, amount : Int, journal : Journal]
      BY <1>9 DEF PaymentVersion
    <2> QED
      BY ONLY <1>6, <2>1 DEF PaymentVersion
  <1>11. PICK e : e = [journal |-> old.journal, number |-> call[w].amount, of |-> p]
    OBVIOUS
  <1>12. e \in Entry /\ e.of = p
    BY <1>3, <1>10, <1>11 DEF Entry
  <1>13. PICK s : s = Append(call[w].entering, e)
    OBVIOUS
  <1>14. s \in Seq(Entry) /\ Len(s) <= 1 /\ s[1] = e /\ s # <<>>
    BY <1>3, <1>12, <1>13, AppendEntry
  <1>15. PICK c : c = [call[w] EXCEPT !.pc = "commit", !.entering = s]
    OBVIOUS
  <1>16. call' = [call EXCEPT ![w] = c]
    BY <1>2, <1>5, <1>11, <1>13, <1>15, Mine DEF BookPayment, CallInv
  <1>17. /\ IsCall(c) /\ c.docs = call[w].docs /\ c.inv = call[w].inv /\ c.entering = s
         /\ c.pc = "commit" /\ c.amount = call[w].amount /\ c.applying = call[w].applying
    BY ONLY <1>1, <1>15 DEF CallOK, IsCall
  <1>18. CallOK(c)
    <2>1. c.pc \in Place /\ c.pc \notin {"idle", "book", "enter", "clear", "mark", "totals", "refresh", "post"}
      BY <1>17 DEF Place
    <2>2. c.inv \in Invoice \cup {NoInvoice} /\ (c.inv \in Invoice => c.inv \in c.docs)
          /\ c.applying \in [Payment \X Invoice -> Int]
      BY <1>1, <1>17 DEF CallOK
    <2>3. c.entering \in Seq(Entry) /\ Len(c.entering) <= 1 /\ c.amount \in Int
      BY ONLY <1>3, <1>14, <1>17
    <2> QED
      BY ONLY <1>17, <2>1, <2>2, <2>3 DEF CallOK
  <1>19. call'[w] = c
    BY <1>16, Mine DEF CallInv
  <1>20. LockOK(w)'
    BY <1>4, <1>8, <1>17, <1>19 DEF LockOK, Kept
  <1>21. NumberOK(w)'
    BY <1>1, <1>4, <1>8, <1>17, <1>19, NumberStays DEF Kept
  <1>22. \A q \in Payment : PaymentOK(w, q)'
    <2> SUFFICES ASSUME NEW q \in Payment PROVE PaymentOK(w, q)'
      OBVIOUS
    <2>1. Enters(call[w], q)' <=> q = p
      BY <1>12, <1>14, <1>17, <1>19 DEF Enters
    <2>2. q # p => lock'[PaymentRow(q)] # w
      BY <1>4, <1>8 DEF Kept
    <2>3. \A i \in Invoice : c.applying[<<q, i>>] # 0 => Entered(q)'
      BY <1>1, <1>3, <1>7, <1>17 DEF PaymentOK, Enters, Entered
    <2> QED
      BY <1>3, <1>8, <1>9, <1>10, <1>17, <1>19, <2>1, <2>2, <2>3 DEF PaymentOK
  <1>23. \A l \in StatementLine : LineOK(w, l)'
    <2> SUFFICES ASSUME NEW l \in StatementLine PROVE LineOK(w, l)'
      OBVIOUS
    <2>1. ~Enters(call[w], l)'
      BY <1>12, <1>14, <1>17, <1>19, InvoicingAssumption DEF Enters
    <2> QED
      BY <1>4, <1>8, <1>17, <1>19, <2>1 DEF LineOK, Kept
  <1>24. \E new : Write(w, new) /\ Fits(new)
    BY <1>7, <1>10, UpdateFits
  <1>25. lines' \in [Invoice -> Nat \ {0}]
    BY <1>1, <1>7 DEF RowInv
  <1>26. \A v \in Worker : v # w => call[v].docs \cap c.docs = {}
    BY <1>1, <1>17
  <1> QED
    BY <1>7, <1>16, <1>18, <1>20, <1>21, <1>22, <1>23, <1>24, <1>25, <1>26, ServeKeeps

\* A payment is cancelled.
LEMMA CancelPaymentKeeps ==
    ASSUME IInv, OneRequestPerDocument, NEW w \in Worker, NEW p \in Payment, CancelPayment(w, p)
    PROVE  IInv'
  <1>1. /\ LockOK(w) /\ NumberOK(w) /\ RowInv
        /\ \A q \in Payment : PaymentOK(w, q)
        /\ \A l \in StatementLine : LineOK(w, l)
        /\ call[w] = Idle
    BY Mine DEF CancelPayment
  <1>2. call[w].pc = "idle" /\ call[w].entering = <<>>
    BY <1>1, IdleOK
  <1>3. /\ \A k \in Invoice : lock[InvoiceRow(k)] # w
        /\ \A q \in Payment : lock[PaymentRow(q)] # w
        /\ \A l \in StatementLine : lock[LineRow(l)] # w
        /\ lock[InvSequence] # w
    BY <1>1, <1>2, HoldsNothing
  <1>4. PICK old \in PaymentVersion : old = live[PaymentRow(p)]
    BY <1>1 DEF RowInv, RowOK
  <1>5. PICK version : version = [old EXCEPT !.state = "cancelled"]
    OBVIOUS
  <1>6. PICK c : c = [Idle EXCEPT !.pc = "commit", !.docs = {p}]
    OBVIOUS
  <1>7. /\ IsCall(c) /\ c.pc = "commit" /\ c.docs = {p} /\ c.inv = NoInvoice /\ c.amount = 0
        /\ c.applying = NothingApplied /\ c.entering = <<>>
    BY <1>6 DEF Idle, IsCall
  <1>8. /\ Update(w, PaymentRow(p), version) /\ call' = [call EXCEPT ![w] = c]
        /\ UNCHANGED <<lines, applied, entries>> /\ \A v \in Worker : p \notin call[v].docs
        /\ old.state \in {"draft", "posted"}
    BY <1>4, <1>5, <1>6 DEF CancelPayment
  <1>9. version \in PaymentVersion /\ version.state = "cancelled"
    <2>1. old \in [state : {"draft", "posted", "cancelled"}, amount : Int, journal : Journal]
      BY <1>8 DEF PaymentVersion
    <2> QED
      BY ONLY <1>5, <2>1 DEF PaymentVersion
  <1>10. /\ committed' = committed
         /\ live'[PaymentRow(p)] = version /\ lock'[PaymentRow(p)] = w
         /\ lock[PaymentRow(p)] \in {w, NoTxn}
         /\ \A i \in Invoice : Kept(InvoiceRow(i))
         /\ \A q \in Payment : q # p => Kept(PaymentRow(q))
         /\ \A l \in StatementLine : Kept(LineRow(l))
         /\ Kept(InvSequence)
    BY <1>8, PaymentUpdate
  <1>11. committed[PaymentRow(p)] = old
    BY <1>3, <1>4, <1>10, RowsThere, FreeRow
  <1>12. CallOK(c)
    BY <1>7, AtOnceOK
  <1>13. call'[w] = c
    BY <1>8, Mine DEF CallInv
  <1>14. LockOK(w)'
    BY <1>3, <1>7, <1>10, <1>13 DEF LockOK, Kept
  <1>15. NumberOK(w)'
    BY <1>1, <1>3, <1>7, <1>10, <1>13, NumberStays DEF Kept
  <1>16. \A q \in Payment : PaymentOK(w, q)'
    <2> SUFFICES ASSUME NEW q \in Payment PROVE PaymentOK(w, q)'
      OBVIOUS
    <2>1. ~Enters(call[w], q)'
      BY <1>7, <1>13 DEF Enters
    <2>2. q # p => lock'[PaymentRow(q)] # w
      BY <1>3, <1>10 DEF Kept
    <2>3. \A i \in Invoice : c.applying[<<q, i>>] = 0
      BY <1>7, IdleOK
    <2> QED
      BY <1>7, <1>8, <1>9, <1>10, <1>11, <1>13, <2>1, <2>2, <2>3 DEF PaymentOK
  <1>17. \A l \in StatementLine : LineOK(w, l)'
    BY <1>1, <1>2, <1>7, <1>10, <1>13, LineStays
  <1>18. \E new : Write(w, new) /\ Fits(new)
    BY <1>8, <1>9, UpdateFits
  <1>19. lines' \in [Invoice -> Nat \ {0}]
    BY <1>1, <1>8 DEF RowInv
  <1>20. \A v \in Worker : v # w => call[v].docs \cap c.docs = {}
    BY <1>7, <1>8
  <1> QED
    BY <1>8, <1>12, <1>14, <1>15, <1>16, <1>17, <1>18, <1>19, <1>20, ServeKeeps

\* The next payment is one that nobody has entered.
LEMMA NextAbsent ==
    ASSUME Unused # {}
    PROVE  NextPayment \in Payment /\ live[PaymentRow(NextPayment)].state = "absent"
  <1>1. Unused \subseteq Nat
    BY PaymentsFinite DEF Unused
  <1>2. \E k \in Unused : \A m \in Unused : k <= m
    BY <1>1, LeastElement
  <1>3. PICK k \in Unused : k = CHOOSE x \in Unused : \A m \in Unused : x <= m
    BY <1>2
  <1> QED
    BY <1>3, PaymentsFinite DEF Unused, NextPayment

\* A registered payment and its entry are inserted.
LEMMA EnterKeeps ==
    ASSUME IInv, NEW w \in Worker, EnterPayment(w)
    PROVE  IInv'
  <1>1. /\ CallOK(call[w]) /\ LockOK(w) /\ NumberOK(w) /\ RowInv
        /\ \A p \in Payment : PaymentOK(w, p)
        /\ \A l \in StatementLine : LineOK(w, l)
        /\ \A v \in Worker : v # w => call[v].docs \cap call[w].docs = {}
        /\ call[w].pc = "enter"
    BY Mine DEF EnterPayment, At
  <1>2. PICK j \in Journal : j = call[w].doc
    BY <1>1 DEF CallOK
  <1>3. call[w].inv \in Invoice /\ call[w].entering = <<>> /\ call[w].amount \in Int
    BY <1>1 DEF CallOK
  <1>4. /\ \A k \in Invoice : lock[InvoiceRow(k)] # w
        /\ \A q \in Payment : lock[PaymentRow(q)] # w
        /\ \A l \in StatementLine : lock[LineRow(l)] # w
        /\ lock[InvSequence] # w
    BY <1>1, HoldsNothing
  <1>5. PICK p \in Payment : p = NextPayment /\ live[PaymentRow(p)].state = "absent"
    BY NextAbsent DEF EnterPayment
  <1>6. PICK n : n = live[SequenceRow(j)].next
    OBVIOUS
  <1>7. n \in Nat \ {0}
    BY <1>1, <1>6 DEF RowInv, RowOK, Counter
  <1>8. PICK version : version = [state |-> "posted", amount |-> call[w].amount, journal |-> j]
    OBVIOUS
  <1>9. version \in PaymentVersion /\ version.state = "posted"
    BY <1>3, <1>8 DEF PaymentVersion
  <1>10. PICK counter : counter = [next |-> n + 1]
    OBVIOUS
  <1>11. counter \in Counter
    BY <1>7, <1>10 DEF Counter
  <1>12. PICK new : new = [r \in {PaymentRow(p), SequenceRow(j)} |->
                             IF r = SequenceRow(j) THEN counter ELSE version]
    OBVIOUS
  <1>13. Write(w, new) /\ UNCHANGED <<lines, applied, entries>>
    BY <1>2, <1>5, <1>6, <1>8, <1>10, <1>12 DEF EnterPayment
  <1>14. /\ DOMAIN new = {PaymentRow(p), SequenceRow(j)}
         /\ new[PaymentRow(p)] = version /\ new[SequenceRow(j)] = counter
    BY <1>12, RowNames
  <1>15. Fits(new)
    <2>1. \A i \in Invoice : InvoiceRow(i) \notin DOMAIN new
      BY <1>14, RowNames
    <2>2. \A q \in Payment : PaymentRow(q) \in DOMAIN new => q = p
      BY <1>14, RowNames
    <2>3. \A l \in StatementLine : LineRow(l) \notin DOMAIN new
      BY <1>14, RowNames
    <2>4. \A k \in Journal : SequenceRow(k) \in DOMAIN new => k = j
      BY <1>14, RowNames
    <2>5. InvSequence \notin DOMAIN new
      BY <1>14, RowNames, RowsThere
    <2> QED
      BY <1>9, <1>11, <1>14, <2>1, <2>2, <2>3, <2>4, <2>5 DEF Fits
  <1>16. /\ committed' = committed
         /\ live'[PaymentRow(p)] = version /\ lock'[PaymentRow(p)] = w
         /\ lock[PaymentRow(p)] \in {w, NoTxn}
         /\ \A i \in Invoice : Kept(InvoiceRow(i))
         /\ \A q \in Payment : q # p => Kept(PaymentRow(q))
         /\ \A l \in StatementLine : Kept(LineRow(l))
         /\ Kept(InvSequence)
    <2>1. \A r \in Row : r \notin DOMAIN new => Kept(r)
      BY <1>13, KeptRows
    <2>2. \A r \in Row : r = PaymentRow(p) => live'[r] = version /\ lock'[r] = w /\ lock[r] \in {w, NoTxn}
      BY <1>13, <1>14, WriteEffect
    <2>3. committed' = committed
      BY <1>13, WriteEffect
    <2> QED
      BY <1>14, <2>1, <2>2, <2>3, RowNames, RowsThere
  <1>17. committed[PaymentRow(p)].state = "absent"
    BY <1>4, <1>5, <1>16, RowsThere, FreeRow
  <1>18. PICK e : e = [journal |-> j, number |-> n, of |-> p]
    OBVIOUS
  <1>19. e \in Entry /\ e.of = p
    BY <1>7, <1>18 DEF Entry
  <1>20. PICK s : s = Append(call[w].entering, e)
    OBVIOUS
  <1>21. s \in Seq(Entry) /\ Len(s) <= 1 /\ s[1] = e /\ s # <<>>
    BY <1>3, <1>19, <1>20, AppendEntry
  <1>22. PICK c : c = [call[w] EXCEPT !.entering = s, !.queue = <<p>>, !.pc = "allocate"]
    OBVIOUS
  <1>23. call' = [call EXCEPT ![w] = c]
    BY <1>2, <1>5, <1>6, <1>18, <1>20, <1>22, Mine DEF EnterPayment, CallInv
  <1>24. /\ IsCall(c) /\ c.docs = call[w].docs /\ c.inv = call[w].inv /\ c.entering = s
         /\ c.pc = "allocate" /\ c.amount = call[w].amount /\ c.applying = call[w].applying
    BY ONLY <1>1, <1>22 DEF CallOK, IsCall
  <1>25. CallOK(c)
    <2>1. c.pc \in Place /\ c.pc \notin {"idle", "book", "enter", "clear", "mark", "totals", "refresh", "post"}
      BY <1>24 DEF Place
    <2>2. c.inv \in Invoice /\ c.inv \in c.docs /\ c.applying \in [Payment \X Invoice -> Int]
      BY <1>1, <1>3, <1>24 DEF CallOK
    <2>3. c.entering \in Seq(Entry) /\ Len(c.entering) <= 1 /\ c.amount \in Int
      BY ONLY <1>3, <1>21, <1>24
    <2> QED
      BY ONLY <1>24, <2>1, <2>2, <2>3 DEF CallOK
  <1>26. call'[w] = c
    BY <1>23, Mine DEF CallInv
  <1>27. LockOK(w)'
    BY <1>4, <1>16, <1>24, <1>26 DEF LockOK, Kept
  <1>28. NumberOK(w)'
    BY <1>1, <1>4, <1>16, <1>24, <1>26, NumberStays DEF Kept
  <1>29. \A q \in Payment : PaymentOK(w, q)'
    <2> SUFFICES ASSUME NEW q \in Payment PROVE PaymentOK(w, q)'
      OBVIOUS
    <2>1. Enters(call[w], q)' <=> q = p
      BY <1>19, <1>21, <1>24, <1>26 DEF Enters
    <2>2. q # p => lock'[PaymentRow(q)] # w
      BY <1>4, <1>16 DEF Kept
    <2>3. \A i \in Invoice : c.applying[<<q, i>>] # 0 => Entered(q)'
      BY <1>1, <1>3, <1>13, <1>24 DEF PaymentOK, Enters, Entered
    <2> QED
      BY <1>9, <1>16, <1>17, <1>24, <1>26, <2>1, <2>2, <2>3 DEF PaymentOK
  <1>30. \A l \in StatementLine : LineOK(w, l)'
    <2> SUFFICES ASSUME NEW l \in StatementLine PROVE LineOK(w, l)'
      OBVIOUS
    <2>1. ~Enters(call[w], l)'
      BY <1>19, <1>21, <1>24, <1>26, InvoicingAssumption DEF Enters
    <2> QED
      BY <1>4, <1>16, <1>24, <1>26, <2>1 DEF LineOK, Kept
  <1>31. lines' \in [Invoice -> Nat \ {0}]
    BY <1>1, <1>13 DEF RowInv
  <1>32. \A v \in Worker : v # w => call[v].docs \cap c.docs = {}
    BY <1>1, <1>24
  <1> QED
    BY <1>13, <1>15, <1>23, <1>25, <1>27, <1>28, <1>29, <1>30, <1>31, <1>32, ServeKeeps

\* The statement line's entry is inserted and the invoice written.
LEMMA ClearKeeps ==
    ASSUME IInv, NEW w \in Worker, ClearInvoice(w)
    PROVE  IInv'
  <1>1. /\ CallOK(call[w]) /\ LockOK(w) /\ NumberOK(w) /\ RowInv
        /\ \A p \in Payment : PaymentOK(w, p)
        /\ \A l \in StatementLine : LineOK(w, l)
        /\ \A v \in Worker : v # w => call[v].docs \cap call[w].docs = {}
        /\ call[w].pc = "clear"
    BY Mine DEF ClearInvoice, At
  <1>2. PICK l \in StatementLine : l = call[w].doc
    BY <1>1 DEF CallOK
  <1>3. PICK i \in Invoice : i = call[w].inv
    BY <1>1 DEF CallOK
  <1>4. call[w].entering = <<>> /\ call[w].amount \in Int
    BY <1>1 DEF CallOK
  <1>5. /\ \A k \in Invoice : lock[InvoiceRow(k)] # w
        /\ \A q \in Payment : lock[PaymentRow(q)] # w
        /\ \A k \in StatementLine : lock[LineRow(k)] # w
        /\ lock[InvSequence] # w
    BY <1>1, HoldsNothing
  <1>6. amountOf[l] \in Int /\ journalOf[l] \in Journal
    BY InvoicingAssumption
  <1>7. PICK old \in InvoiceVersion : old = live[InvoiceRow(i)]
    BY <1>1 DEF RowInv, RowOK
  <1>8. old.residual \in Int
    BY DEF InvoiceVersion
  <1>9. PICK residual \in Int : residual = Cleared(old.residual, amountOf[l])
    BY <1>6, <1>8 DEF Cleared
  <1>10. PICK paid \in Paid : paid = IF old.residual - amountOf[l] <= 0 THEN "paid" ELSE "partial"
    BY DEF Paid
  <1>11. PICK version : version = [old EXCEPT !.residual = residual, !.paid = paid]
    OBVIOUS
  <1>12. version \in InvoiceVersion /\ version.state = old.state /\ version.number = old.number
    BY ONLY <1>11, old \in InvoiceVersion, residual \in Int, paid \in Paid DEF InvoiceVersion
  <1>13. Update(w, InvoiceRow(i), version) /\ UNCHANGED <<lines, applied, entries>>
    BY <1>2, <1>3, <1>7, <1>9, <1>10, <1>11 DEF ClearInvoice
  <1>14. /\ committed' = committed
         /\ live'[InvoiceRow(i)] = version /\ lock'[InvoiceRow(i)] = w
         /\ lock[InvoiceRow(i)] \in {w, NoTxn}
         /\ \A k \in Invoice : k # i => Kept(InvoiceRow(k))
         /\ \A q \in Payment : Kept(PaymentRow(q))
         /\ \A k \in StatementLine : Kept(LineRow(k))
         /\ Kept(InvSequence)
    BY <1>13, InvoiceUpdate
  <1>15. PICK e : e = [journal |-> journalOf[l], number |-> 0, of |-> l]
    OBVIOUS
  <1>16. e \in Entry /\ e.of = l
    BY <1>6, <1>15 DEF Entry
  <1>17. PICK s : s = Append(call[w].entering, e)
    OBVIOUS
  <1>18. s \in Seq(Entry) /\ Len(s) <= 1 /\ s[1] = e /\ s # <<>>
    BY <1>4, <1>16, <1>17, AppendEntry
  <1>19. PICK c : c = [call[w] EXCEPT !.pc = "mark", !.entering = s]
    OBVIOUS
  <1>20. call' = [call EXCEPT ![w] = c]
    BY <1>2, <1>15, <1>17, <1>19, Mine DEF ClearInvoice, CallInv
  <1>21. /\ IsCall(c) /\ c.docs = call[w].docs /\ c.inv = call[w].inv /\ c.entering = s
         /\ c.doc = call[w].doc
         /\ c.pc = "mark" /\ c.amount = call[w].amount /\ c.applying = call[w].applying
    BY ONLY <1>1, <1>19 DEF CallOK, IsCall
  <1>22. CallOK(c)
    <2>1. c.pc \in Place /\ c.pc \notin {"idle", "book", "enter", "clear", "totals", "refresh", "post"}
      BY <1>21 DEF Place
    <2>2. /\ c.inv \in Invoice /\ c.inv \in c.docs /\ c.applying \in [Payment \X Invoice -> Int]
          /\ c.doc \in StatementLine \cap c.docs
      BY <1>1, <1>3, <1>21 DEF CallOK
    <2>3. c.entering \in Seq(Entry) /\ Len(c.entering) <= 1 /\ c.amount \in Int
      BY ONLY <1>4, <1>18, <1>21
    <2> QED
      BY ONLY <1>21, <2>1, <2>2, <2>3 DEF CallOK
  <1>23. call'[w] = c
    BY <1>20, Mine DEF CallInv
  <1>24. LockOK(w)'
    BY <1>3, <1>5, <1>14, <1>21, <1>23 DEF LockOK, Kept, Serving
  <1>25. NumberOK(w)'
    <2>1. \A k \in Invoice : lock'[InvoiceRow(k)] = w =>
              /\ lock[InvoiceRow(k)] \in {w, NoTxn}
              /\ live'[InvoiceRow(k)].state = live[InvoiceRow(k)].state
              /\ live'[InvoiceRow(k)].number = live[InvoiceRow(k)].number
      BY <1>5, <1>7, <1>12, <1>14 DEF Kept
    <2> QED
      BY <1>1, <1>14, <1>21, <1>23, <2>1, NumberStays
  <1>26. \A q \in Payment : PaymentOK(w, q)'
    <2> SUFFICES ASSUME NEW q \in Payment PROVE PaymentOK(w, q)'
      OBVIOUS
    <2>1. ~Enters(call[w], q)'
      BY <1>16, <1>18, <1>21, <1>23, InvoicingAssumption DEF Enters
    <2>2. \A k \in Invoice : c.applying[<<q, k>>] # 0 => Entered(q)'
      BY <1>1, <1>4, <1>13, <1>21 DEF PaymentOK, Enters, Entered
    <2> QED
      BY <1>5, <1>14, <1>21, <1>23, <2>1, <2>2 DEF PaymentOK, Kept
  <1>27. \A k \in StatementLine : LineOK(w, k)'
    <2> SUFFICES ASSUME NEW k \in StatementLine PROVE LineOK(w, k)'
      OBVIOUS
    <2>1. Enters(call[w], k)' <=> k = l
      BY <1>16, <1>18, <1>21, <1>23 DEF Enters
    <2>2. committed[LineRow(l)].reconciled = NoInvoice
      BY <1>1, <1>2 DEF LineOK
    <2> QED
      BY <1>2, <1>5, <1>14, <1>21, <1>23, <2>1, <2>2 DEF LineOK, Kept
  <1>28. \E new : Write(w, new) /\ Fits(new)
    BY <1>12, <1>13, UpdateFits
  <1>29. lines' \in [Invoice -> Nat \ {0}]
    BY <1>1, <1>13 DEF RowInv
  <1>30. \A v \in Worker : v # w => call[v].docs \cap c.docs = {}
    BY <1>1, <1>21
  <1> QED
    BY <1>13, <1>20, <1>22, <1>24, <1>25, <1>26, <1>27, <1>28, <1>29, <1>30, ServeKeeps

\* The statement line is marked.
LEMMA MarkKeeps ==
    ASSUME IInv, NEW w \in Worker, MarkReconciled(w)
    PROVE  IInv'
  <1>1. /\ CallOK(call[w]) /\ LockOK(w) /\ NumberOK(w) /\ RowInv
        /\ \A p \in Payment : PaymentOK(w, p)
        /\ \A l \in StatementLine : LineOK(w, l)
        /\ \A v \in Worker : v # w => call[v].docs \cap call[w].docs = {}
        /\ call[w].pc = "mark"
    BY Mine DEF MarkReconciled, At
  <1>2. PICK l \in StatementLine : l = call[w].doc /\ l \in call[w].docs
    BY <1>1 DEF CallOK
  <1>3. PICK i \in Invoice : i = call[w].inv
    BY <1>1 DEF CallOK
  <1>4. PICK version : version = [reconciled |-> i]
    OBVIOUS
  <1>5. version \in LineVersion /\ version.reconciled = i
    BY <1>4 DEF LineVersion
  <1>6. PICK c : c = [call[w] EXCEPT !.pc = "commit"]
    OBVIOUS
  <1>7. /\ Update(w, LineRow(l), version) /\ call' = [call EXCEPT ![w] = c]
        /\ UNCHANGED <<lines, applied, entries>>
    BY <1>2, <1>3, <1>4, <1>6, Mine DEF MarkReconciled, Goto, CallInv
  <1>8. /\ IsCall(c) /\ c.docs = call[w].docs /\ c.inv = call[w].inv /\ c.entering = call[w].entering
        /\ c.doc = call[w].doc
        /\ c.pc = "commit" /\ c.amount = call[w].amount /\ c.applying = call[w].applying
    BY ONLY <1>1, <1>6 DEF CallOK, IsCall
  <1>9. CallOK(c)
    <2>1. c.pc \in Place /\ c.pc \notin {"idle", "book", "enter", "clear", "mark", "totals", "refresh", "post"}
      BY <1>8 DEF Place
    <2>2. /\ c.inv \in Invoice /\ c.inv \in c.docs /\ c.applying \in [Payment \X Invoice -> Int]
          /\ c.entering \in Seq(Entry) /\ Len(c.entering) <= 1 /\ c.amount \in Int
      BY <1>1, <1>3, <1>8 DEF CallOK
    <2> QED
      BY ONLY <1>8, <2>1, <2>2 DEF CallOK
  <1>10. call'[w] = c
    BY <1>7, Mine DEF CallInv
  <1>11. /\ committed' = committed
         /\ live'[LineRow(l)] = version /\ lock'[LineRow(l)] = w
         /\ \A k \in Invoice : Kept(InvoiceRow(k))
         /\ \A p \in Payment : Kept(PaymentRow(p))
         /\ \A k \in StatementLine : k # l => Kept(LineRow(k))
         /\ Kept(InvSequence)
    BY <1>7, LineUpdate
  <1>12. /\ \A k \in Invoice : lock[InvoiceRow(k)] = w => i = k
         /\ \A p \in Payment : lock[PaymentRow(p)] # w
         /\ \A k \in StatementLine : lock[LineRow(k)] # w
         /\ lock[InvSequence] # w
    BY <1>1, <1>3 DEF LockOK
  <1>13. LockOK(w)'
    BY <1>3, <1>8, <1>10, <1>11, <1>12 DEF LockOK, Kept, Serving
  <1>14. NumberOK(w)'
    BY <1>1, <1>8, <1>10, <1>11, NumberStays DEF Kept
  <1>15. \A p \in Payment : PaymentOK(w, p)'
    BY <1>1, <1>7, <1>8, <1>10, <1>11, PaymentStays
  <1>16. \A k \in StatementLine : LineOK(w, k)'
    <2> SUFFICES ASSUME NEW k \in StatementLine PROVE LineOK(w, k)'
      OBVIOUS
    <2>1. Enters(call[w], k)' <=> Enters(call[w], k)
      BY <1>8, <1>10 DEF Enters
    <2>2. committed[LineRow(l)].reconciled = NoInvoice /\ Enters(call[w], l)
      BY <1>1, <1>2 DEF LineOK
    <2>3. Enters(call[w], k) => k = l
      BY <2>2 DEF Enters
    <2>4. k # l => lock'[LineRow(k)] # w
      BY <1>11, <1>12 DEF Kept
    <2> QED
      BY <1>2, <1>3, <1>5, <1>8, <1>10, <1>11, <2>1, <2>2, <2>3, <2>4 DEF LineOK
  <1>17. \E new : Write(w, new) /\ Fits(new)
    BY <1>5, <1>7, UpdateFits
  <1>18. lines' \in [Invoice -> Nat \ {0}]
    BY <1>1, <1>7 DEF RowInv
  <1>19. \A v \in Worker : v # w => call[v].docs \cap c.docs = {}
    BY <1>1, <1>8
  <1> QED
    BY <1>7, <1>9, <1>13, <1>14, <1>15, <1>16, <1>17, <1>18, <1>19, ServeKeeps

-----------------------------------------------------------------------------
(* the end of a request *)

\* What COMMIT leaves of each row.
LEMMA CommitRows ==
    ASSUME RowInv, NEW w \in Worker, CommitTxn(w)
    PROVE  /\ live' = live
           /\ \A r \in Row : committed'[r] = IF lock[r] = w THEN live[r] ELSE committed[r]
           /\ \A r \in Row : lock'[r] = IF lock[r] = w THEN NoTxn ELSE lock[r]
           /\ committed' = [r \in Row |-> committed'[r]]
           /\ lock' \in [Row -> Worker \cup {NoTxn}]
  BY DEF CommitTxn, Visible, RowInv

\* What ROLLBACK leaves of each row.
LEMMA RollbackRows ==
    ASSUME RowInv, NEW w \in Worker, RollbackTxn(w)
    PROVE  /\ committed' = committed
           /\ \A r \in Row : live'[r] = IF lock[r] = w THEN committed[r] ELSE live[r]
           /\ \A r \in Row : lock'[r] = IF lock[r] = w THEN NoTxn ELSE lock[r]
           /\ live' = [r \in Row |-> live'[r]]
           /\ lock' \in [Row -> Worker \cup {NoTxn}]
  BY DEF RollbackTxn, RowInv

\* A worker that is done holds nothing and knows nothing.
LEMMA DoneOK ==
    ASSUME IInv, NEW w \in Worker, call' = [call EXCEPT ![w] = Idle],
           \A r \in Row : lock'[r] # w
    PROVE  /\ CallInv' /\ Apart' /\ LockOK(w)' /\ NumberOK(w)'
           /\ \A p \in Payment : PaymentOK(w, p)'
           /\ \A l \in StatementLine : LineOK(w, l)'
           /\ \A v \in Worker : v # w => call'[v] = call[v]
  <1>1. CallInv /\ Apart
    BY DEF IInv, TypeInv
  <1>2. call'[w] = Idle /\ \A v \in Worker : v # w => call'[v] = call[v]
    BY <1>1 DEF CallInv
  <1>3. CallInv'
    BY <1>1, <1>2, IdleOK DEF CallInv
  <1>4. Apart'
    BY <1>1, <1>2, IdleOK DEF Apart
  <1>5. LockOK(w)'
    BY RowsThere DEF LockOK
  <1>6. NumberOK(w)'
    BY <1>2, RowsThere, IdleOK DEF NumberOK
  <1>7. \A p \in Payment : PaymentOK(w, p)'
    <2> SUFFICES ASSUME NEW p \in Payment
                 PROVE  PaymentOK(w, p)'
      OBVIOUS
    <2>1. /\ call'[w].pc = "idle" /\ call'[w].entering = <<>>
          /\ \A i \in Invoice : call'[w].applying[<<p, i>>] = 0
      BY <1>2, IdleOK
    <2>2. lock'[PaymentRow(p)] # w
      BY RowsThere
    <2> QED
      BY <2>1, <2>2 DEF PaymentOK, Enters
  <1>8. \A l \in StatementLine : LineOK(w, l)'
    BY <1>2, RowsThere, IdleOK DEF LineOK, Enters
  <1> QED
    BY <1>2, <1>3, <1>4, <1>5, <1>6, <1>7, <1>8

\* Two sequences in a row.
LEMMA InARow ==
    ASSUME NEW S, NEW s \in Seq(S), NEW t \in Seq(S)
    PROVE  /\ s \o t \in Seq(S)
           /\ Len(s \o t) = Len(s) + Len(t)
           /\ \A k \in 1..Len(s) : (s \o t)[k] = s[k]
           /\ \A k \in 1..Len(t) : (s \o t)[Len(s) + k] = t[k]
  OBVIOUS

\* The entries of a request are at most one, and follow the others.
LEMMA EntriesGrow ==
    ASSUME RowInv, NEW c, CallOK(c), entries' = entries \o c.entering
    PROVE  /\ entries' \in Seq(Entry)
           /\ \A d : Entered(d)' <=> Entered(d) \/ Enters(c, d)
           /\ \A d : EnteredOnce(d) /\ ~(Entered(d) /\ Enters(c, d)) => EnteredOnce(d)'
  <1>1. PICK s \in Seq(Entry) : s = entries
    BY DEF RowInv
  <1>2. PICK t \in Seq(Entry) : t = c.entering /\ Len(t) <= 1
    BY DEF CallOK
  <1>3. /\ s \o t \in Seq(Entry) /\ Len(s \o t) = Len(s) + Len(t)
        /\ \A k \in 1..Len(s) : (s \o t)[k] = s[k]
        /\ \A k \in 1..Len(t) : (s \o t)[Len(s) + k] = t[k]
    BY InARow
  <1>4. PICK u \in Seq(Entry) : /\ u = entries' /\ Len(u) = Len(s) + Len(t)
                                /\ \A k \in 1..Len(s) : u[k] = s[k]
                                /\ \A k \in 1..Len(t) : u[Len(s) + k] = t[k]
    BY <1>1, <1>2, <1>3
  <1>5. CASE Len(t) = 0
    <2>1. t = <<>>
      BY <1>2, <1>5
    <2>2. DOMAIN u = DOMAIN s /\ \A k \in DOMAIN s : u[k] = s[k]
      <3>1. PICK n \in Nat : n = Len(s) /\ DOMAIN s = 1..n
        OBVIOUS
      <3>2. Len(u) = n
        BY <1>4, <1>5, <3>1
      <3>3. DOMAIN u = 1..Len(u)
        OBVIOUS
      <3>4. DOMAIN u = DOMAIN s
        BY <3>1, <3>2, <3>3
      <3> QED
        BY <1>4, <3>1, <3>4
    <2> QED
      BY <1>1, <1>2, <1>4, <2>1, <2>2 DEF Entered, EnteredOnce, Enters
  <1>6. CASE Len(t) = 1
    <2>1. PICK n \in Nat : n = Len(s)
      BY <1>1
    <2>2. DOMAIN s = 1..n /\ DOMAIN u = 1..(n + 1) /\ t # <<>>
      <3>1. Len(u) = n + 1
        BY <1>4, <1>6, <2>1
      <3>2. t # <<>>
        <4>1. t = <<>> => Len(t) = 0
          OBVIOUS
        <4> QED
          BY <1>6, <4>1
      <3> QED
        BY <2>1, <3>1, <3>2
    <2>3. \A k \in 1..n : u[k] = s[k]
      BY <1>4, <2>1
    <2>4. u[n + 1] = t[1]
      <3>1. 1 \in 1..Len(t)
        BY <1>6
      <3> QED
        BY <1>4, <2>1, <3>1
    <2>5. \A k \in 1..(n + 1) : k \in 1..n \/ k = n + 1
      BY <2>1
    <2>6. \A k \in 1..n : k \in 1..(n + 1) /\ k # n + 1
      BY <2>1
    <2>7. n + 1 \in 1..(n + 1)
      BY <2>1
    <2>8. \A d : Entered(d)' <=> Entered(d) \/ Enters(c, d)
      <3> SUFFICES ASSUME NEW d
                   PROVE  Entered(d)' <=> Entered(d) \/ Enters(c, d)
        OBVIOUS
      <3>1. Entered(d)' <=> \E k \in 1..(n + 1) : u[k].of = d
        BY <1>4, <2>2 DEF Entered
      <3>2. Entered(d) <=> \E k \in 1..n : s[k].of = d
        BY <1>1, <2>2 DEF Entered
      <3>3. Enters(c, d) <=> u[n + 1].of = d
        BY <1>2, <2>2, <2>4 DEF Enters
      <3> QED
        BY <2>3, <2>5, <2>6, <2>7, <3>1, <3>2, <3>3
    <2>9. \A d : EnteredOnce(d) /\ ~(Entered(d) /\ Enters(c, d)) => EnteredOnce(d)'
      BY <1>1, <1>2, <1>4, <2>2, <2>3, <2>4, <2>5 DEF Entered, Enters, EnteredOnce
    <2> QED
      BY <1>4, <2>8, <2>9
  <1>7. Len(t) \in Nat
    OBVIOUS
  <1>8. Len(t) = 0 \/ Len(t) = 1
    <2>1. PICK m \in Nat : m = Len(t)
      BY <1>7
    <2>2. m <= 1
      BY <1>2, <2>1
    <2>3. m = 0 \/ m = 1
      BY ONLY <2>2, m \in Nat
    <2> QED
      BY <2>1, <2>3
  <1> QED
    BY <1>5, <1>6, <1>8

\* A COMMIT leaves rows of their types.
LEMMA CommitKeepsRows ==
    ASSUME IInv, NEW w \in Worker, Commit(w)
    PROVE  RowInv'
  <1>1. RowInv /\ CallOK(call[w])
    BY Mine
  <1>2. /\ live' = live
        /\ \A r \in Row : committed'[r] = IF lock[r] = w THEN live[r] ELSE committed[r]
        /\ \A r \in Row : lock'[r] = IF lock[r] = w THEN NoTxn ELSE lock[r]
        /\ committed' = [r \in Row |-> committed'[r]]
        /\ lock' \in [Row -> Worker \cup {NoTxn}]
    BY <1>1, CommitRows DEF Commit
  <1>3. RowOK(live)'
    BY <1>1, <1>2 DEF RowInv, RowOK
  <1>4. RowOK(committed)'
    BY <1>1, <1>2, RowsThere DEF RowInv, RowOK
  <1>5. \A r \in Row : lock'[r] = NoTxn => live'[r] = committed'[r]
    BY <1>1, <1>2 DEF RowInv
  <1>6. applied' \in [Payment \X Invoice -> Int]
    <2>1. applied' = [q \in Payment \X Invoice |-> applied[q] + call[w].applying[q]]
      BY <1>1 DEF Commit, RowInv
    <2>2. \A q \in Payment \X Invoice : applied[q] + call[w].applying[q] \in Int
      BY <1>1 DEF RowInv, CallOK
    <2> QED
      BY <2>1, <2>2
  <1>7. entries' \in Seq(Entry)
    BY <1>1, EntriesGrow DEF Commit
  <1>8. lines' \in [Invoice -> Nat \ {0}]
    BY <1>1 DEF Commit, RowInv
  <1>9. live' = [r \in Row |-> live'[r]]
    BY <1>1, <1>2 DEF RowInv
  <1> QED
    BY <1>2, <1>3, <1>4, <1>5, <1>6, <1>7, <1>8, <1>9 DEF RowInv

\* Numbers go on.
LEMMA CommitNumbers ==
    ASSUME IInv, NEW w \in Worker, Commit(w)
    PROVE  /\ Numbered'
           /\ \A i \in Invoice : Keeps(committed[InvoiceRow(i)], committed'[InvoiceRow(i)])
  <1>1. RowInv /\ NumberOK(w) /\ LockOK(w) /\ Numbered
    BY Mine DEF IInv, NumberInv
  <1>2. \A r \in Row : committed'[r] = IF lock[r] = w THEN live[r] ELSE committed[r]
    BY <1>1, CommitRows DEF Commit
  <1>3. /\ committed[InvSequence].next \in Nat
        /\ \A i \in Invoice : committed[InvoiceRow(i)].number \in Nat
    BY <1>1 DEF RowInv, RowOK, Counter, InvoiceVersion
  <1>4. PICK n \in Nat : n = committed[InvSequence].next
    BY <1>3
  <1>5. /\ lock[InvSequence] = w => committed'[InvSequence].next = n + 1
        /\ lock[InvSequence] # w => committed'[InvSequence].next = n
    BY <1>1, <1>2, <1>4, RowsThere DEF NumberOK
  <1>6. \A i \in Invoice :
          /\ Keeps(committed[InvoiceRow(i)], committed'[InvoiceRow(i)])
          /\ \/ committed'[InvoiceRow(i)].number = committed[InvoiceRow(i)].number
             \/ lock[InvoiceRow(i)] = w /\ committed'[InvoiceRow(i)].number = 0
             \/ lock[InvoiceRow(i)] = w /\ lock[InvSequence] = w /\ committed'[InvoiceRow(i)].number = n
    BY <1>1, <1>2, <1>4, RowsThere DEF NumberOK, Keeps
  <1>7. \A i \in Invoice : committed[InvoiceRow(i)].number < n
    BY <1>1, <1>4 DEF Numbered
  <1>8. n > 0
    <2>1. committed[InvSequence].next \in Nat \ {0}
      BY <1>1 DEF RowInv, RowOK, Counter
    <2> QED
      BY <1>4, <2>1
  <1>9. \A i \in Invoice : committed'[InvoiceRow(i)].number < committed'[InvSequence].next
    <2> SUFFICES ASSUME NEW i \in Invoice
                 PROVE  committed'[InvoiceRow(i)].number < committed'[InvSequence].next
      OBVIOUS
    <2>1. PICK m \in Nat : m = committed[InvoiceRow(i)].number /\ m < n
      BY <1>3, <1>7
    <2> QED
      BY <1>5, <1>6, <1>8, <2>1
  <1>10. \A i, k \in Invoice :
            i # k /\ committed'[InvoiceRow(i)].number # 0
              => committed'[InvoiceRow(k)].number # committed'[InvoiceRow(i)].number
    <2> SUFFICES ASSUME NEW i \in Invoice, NEW k \in Invoice, i # k,
                        committed'[InvoiceRow(i)].number # 0
                 PROVE  committed'[InvoiceRow(k)].number # committed'[InvoiceRow(i)].number
      OBVIOUS
    <2>1. ~(lock[InvoiceRow(i)] = w /\ lock[InvoiceRow(k)] = w)
      BY <1>1 DEF LockOK
    <2>2. PICK a \in Nat : a = committed[InvoiceRow(i)].number /\ a < n
      BY <1>3, <1>7
    <2>3. PICK b \in Nat : b = committed[InvoiceRow(k)].number /\ b < n
      BY <1>3, <1>7
    <2>4. a # 0 => b # a
      BY <1>1, <2>2, <2>3 DEF Numbered
    <2> QED
      BY <1>6, <1>8, <2>1, <2>2, <2>3, <2>4
  <1> QED
    BY <1>6, <1>9, <1>10 DEF Numbered

\* The others are not disturbed.
LEMMA CommitOthers ==
    ASSUME IInv, NEW w \in Worker, Commit(w), NEW v \in Worker, v # w
    PROVE  /\ LockOK(v)' /\ NumberOK(v)'
           /\ \A p \in Payment : PaymentOK(v, p)'
           /\ \A l \in StatementLine : LineOK(v, l)'
  <1>1. RowInv /\ CallInv /\ LockOK(v) /\ NumberOK(v) /\ LockOK(w) /\ CallOK(call[v]) /\ CallOK(call[w])
    BY Mine
  <1>2. call[v].docs \cap call[w].docs = {}
    BY Mine
  <1>3. /\ live' = live
        /\ \A r \in Row : committed'[r] = IF lock[r] = w THEN live[r] ELSE committed[r]
        /\ \A r \in Row : lock'[r] = IF lock[r] = w THEN NoTxn ELSE lock[r]
    BY <1>1, CommitRows DEF Commit
  <1>4. call'[v] = call[v]
    BY <1>1 DEF Commit, CallInv
  <1>5. \A r \in Row : lock'[r] = v <=> lock[r] = v
    BY <1>3, NoTxnAssumption
  <1>6. \A r \in Row : lock[r] = v => committed'[r] = committed[r]
    BY <1>3
  <1>7. LockOK(v)'
    BY <1>1, <1>4, <1>5, RowsThere DEF LockOK
  <1>8. call[v].inv \in Invoice => committed'[InvoiceRow(call[v].inv)] = committed[InvoiceRow(call[v].inv)]
    <2> SUFFICES ASSUME NEW i \in Invoice, i = call[v].inv
                 PROVE  committed'[InvoiceRow(i)] = committed[InvoiceRow(i)]
      OBVIOUS
    <2>1. i \in call[v].docs
      BY <1>1 DEF CallOK
    <2>2. lock[InvoiceRow(i)] # w
      BY <1>1, <1>2, <2>1 DEF LockOK, CallOK
    <2> QED
      BY <1>3, <2>2, RowsThere
  <1>9. call[v].pc \in {"number", "post"} => call[v].inv \in Invoice
    BY <1>1 DEF CallOK
  <1>10. NumberOK(v)'
    BY <1>1, <1>3, <1>4, <1>5, <1>6, <1>8, <1>9, RowsThere DEF NumberOK
  <1>11. \A d : Entered(d) => Entered(d)'
    BY <1>1, EntriesGrow DEF Commit
  <1>12. \A p \in Payment : PaymentOK(v, p)'
    <2> SUFFICES ASSUME NEW p \in Payment PROVE PaymentOK(v, p)'
      OBVIOUS
    <2>1. PaymentOK(v, p) /\ PaymentOK(w, p)
      BY Mine
    <2>2. Enters(call[v], p)' <=> Enters(call[v], p)
      BY <1>4 DEF Enters
    <2>3. call[v].pc = "book" /\ call[v].doc = p => lock[PaymentRow(p)] # w
      BY <1>1, <1>2, <2>1 DEF PaymentOK, CallOK
    <2> QED
      BY <1>3, <1>4, <1>5, <1>6, <1>11, <2>1, <2>2, <2>3, RowsThere DEF PaymentOK
  <1>13. \A l \in StatementLine : LineOK(v, l)'
    <2> SUFFICES ASSUME NEW l \in StatementLine PROVE LineOK(v, l)'
      OBVIOUS
    <2>1. LineOK(v, l) /\ LineOK(w, l)
      BY Mine
    <2>2. Enters(call[v], l)' <=> Enters(call[v], l)
      BY <1>4 DEF Enters
    <2>3. call[v].pc \in {"clear", "mark"} /\ call[v].doc = l => lock[LineRow(l)] # w
      BY <1>1, <1>2, <2>1 DEF LineOK, CallOK
    <2> QED
      BY <1>3, <1>4, <1>5, <1>6, <2>1, <2>2, <2>3, RowsThere DEF LineOK
  <1> QED
    BY <1>7, <1>10, <1>12, <1>13

\* What is entered is entered once.
LEMMA CommitEntries ==
    ASSUME IInv, NEW w \in Worker, Commit(w)
    PROVE  EntriesOK'
  <1>1. RowInv /\ CallInv /\ CallOK(call[w]) /\ EntriesOK /\ call[w].pc = "commit"
    BY Mine DEF IInv, EntryInv, Commit, At
  <1>2. \A r \in Row : committed'[r] = IF lock[r] = w THEN live[r] ELSE committed[r]
    BY <1>1, CommitRows DEF Commit
  <1>3. /\ \A d : Entered(d)' <=> Entered(d) \/ Enters(call[w], d)
        /\ \A d : EnteredOnce(d) /\ ~(Entered(d) /\ Enters(call[w], d)) => EnteredOnce(d)'
    BY <1>1, EntriesGrow DEF Commit
  <1>4. \A p \in Payment :
          LET state == committed'[PaymentRow(p)].state IN
          /\ EnteredOnce(p)'
          /\ state = "posted" => Entered(p)'
          /\ state \in {"absent", "draft"} => ~Entered(p)'
          /\ \A i \in Invoice : applied'[<<p, i>>] # 0 => Entered(p)'
    <2> SUFFICES ASSUME NEW p \in Payment
                 PROVE  /\ EnteredOnce(p)'
                        /\ committed'[PaymentRow(p)].state = "posted" => Entered(p)'
                        /\ committed'[PaymentRow(p)].state \in {"absent", "draft"} => ~Entered(p)'
                        /\ \A i \in Invoice : applied'[<<p, i>>] # 0 => Entered(p)'
      OBVIOUS
    <2>1. PaymentOK(w, p)
      BY Mine
    <2>2. /\ EnteredOnce(p)
          /\ committed[PaymentRow(p)].state = "posted" => Entered(p)
          /\ committed[PaymentRow(p)].state \in {"absent", "draft"} => ~Entered(p)
          /\ \A i \in Invoice : applied[<<p, i>>] # 0 => Entered(p)
      BY <1>1 DEF EntriesOK
    <2>3. \A i \in Invoice : applied'[<<p, i>>] # 0 => Entered(p)'
      <3> SUFFICES ASSUME NEW i \in Invoice, applied'[<<p, i>>] # 0 PROVE Entered(p)'
        OBVIOUS
      <3>1. applied'[<<p, i>>] = applied[<<p, i>>] + call[w].applying[<<p, i>>]
        BY <1>1 DEF Commit, RowInv
      <3>2. applied[<<p, i>>] \in Int /\ call[w].applying[<<p, i>>] \in Int
        BY <1>1 DEF RowInv, CallOK
      <3>3. applied[<<p, i>>] # 0 \/ call[w].applying[<<p, i>>] # 0
        BY <3>1, <3>2
      <3> QED
        BY <1>3, <2>1, <2>2, <3>3 DEF PaymentOK
    <2> QED
      BY <1>2, <1>3, <2>1, <2>2, <2>3, RowsThere DEF PaymentOK
  <1>5. \A l \in StatementLine :
          EnteredOnce(l)' /\ (Entered(l)' <=> committed'[LineRow(l)].reconciled # NoInvoice)
    <2> SUFFICES ASSUME NEW l \in StatementLine
                 PROVE  EnteredOnce(l)' /\ (Entered(l)' <=> committed'[LineRow(l)].reconciled # NoInvoice)
      OBVIOUS
    <2>1. LineOK(w, l)
      BY Mine
    <2>2. EnteredOnce(l) /\ (Entered(l) <=> committed[LineRow(l)].reconciled # NoInvoice)
      BY <1>1 DEF EntriesOK
    <2> QED
      BY <1>1, <1>2, <1>3, <2>1, <2>2, RowsThere, NoInvoiceIn DEF LineOK
  <1> QED
    BY <1>4, <1>5 DEF EntriesOK

\* A COMMIT keeps the invariant.
LEMMA CommitKeeps ==
    ASSUME IInv, NEW w \in Worker, Commit(w)
    PROVE  IInv'
  <1>1. RowInv /\ call' = [call EXCEPT ![w] = Idle]
    BY Mine DEF Commit
  <1>2. \A r \in Row : lock'[r] = IF lock[r] = w THEN NoTxn ELSE lock[r]
    BY <1>1, CommitRows DEF Commit
  <1>3. \A r \in Row : lock'[r] # w
    BY <1>2, NoTxnAssumption
  <1>4. /\ CallInv' /\ Apart' /\ LockOK(w)' /\ NumberOK(w)'
        /\ \A p \in Payment : PaymentOK(w, p)'
        /\ \A l \in StatementLine : LineOK(w, l)'
    BY <1>1, <1>3, DoneOK
  <1>5. RowInv' /\ Numbered' /\ EntriesOK'
    BY CommitKeepsRows, CommitNumbers, CommitEntries
  <1>6. \A v \in Worker : LockOK(v)' /\ NumberOK(v)'
    BY <1>4, CommitOthers
  <1>7. \A v \in Worker : \A p \in Payment : PaymentOK(v, p)'
    BY <1>4, CommitOthers
  <1>8. \A v \in Worker : \A l \in StatementLine : LineOK(v, l)'
    BY <1>4, CommitOthers
  <1> QED
    BY <1>4, <1>5, <1>6, <1>7, <1>8 DEF IInv, TypeInv, NumberInv, EntryInv

\* So does a request that ends without one.
LEMMA AbortKeeps ==
    ASSUME IInv, NEW w \in Worker, Abort(w)
    PROVE  IInv'
  <1>1. RowInv /\ CallInv /\ call' = [call EXCEPT ![w] = Idle] /\ UNCHANGED <<lines, applied, entries>>
    BY Mine DEF Abort
  <1>2. /\ committed' = committed
        /\ \A r \in Row : live'[r] = IF lock[r] = w THEN committed[r] ELSE live[r]
        /\ \A r \in Row : lock'[r] = IF lock[r] = w THEN NoTxn ELSE lock[r]
        /\ live' = [r \in Row |-> live'[r]]
        /\ lock' \in [Row -> Worker \cup {NoTxn}]
    BY <1>1, RollbackRows DEF Abort
  <1>3. \A r \in Row : lock'[r] # w
    BY <1>2, NoTxnAssumption
  <1>4. /\ CallInv' /\ Apart' /\ LockOK(w)' /\ NumberOK(w)'
        /\ \A p \in Payment : PaymentOK(w, p)'
        /\ \A l \in StatementLine : LineOK(w, l)'
        /\ \A v \in Worker : v # w => call'[v] = call[v]
    BY <1>1, <1>3, DoneOK
  <1>5. RowInv'
    <2>1. RowOK(live)'
      BY <1>1, <1>2, RowsThere DEF RowInv, RowOK
    <2>2. RowOK(committed)'
      BY <1>1, <1>2 DEF RowInv, RowOK
    <2>3. \A r \in Row : lock'[r] = NoTxn => live'[r] = committed'[r]
      BY <1>1, <1>2 DEF RowInv
    <2> QED
      BY <1>1, <1>2, <2>1, <2>2, <2>3 DEF RowInv
  <1>6. Numbered' /\ EntriesOK'
    BY <1>1, <1>2 DEF IInv, NumberInv, EntryInv, Numbered, EntriesOK, Entered, EnteredOnce
  <1>7. ASSUME NEW v \in Worker, v # w
        PROVE  /\ LockOK(v)' /\ NumberOK(v)'
               /\ \A p \in Payment : PaymentOK(v, p)'
               /\ \A l \in StatementLine : LineOK(v, l)'
    <2>1. LockOK(v) /\ NumberOK(v) /\ call'[v] = call[v]
      BY <1>4, <1>7, Mine
    <2>2. /\ \A r \in Row : lock'[r] = v <=> lock[r] = v
          /\ \A r \in Row : lock[r] = v => live'[r] = live[r]
      BY <1>2, <1>7, NoTxnAssumption
    <2>3. LockOK(v)'
      BY <2>1, <2>2, RowsThere DEF LockOK
    <2>4. NumberOK(v)'
      BY <1>2, <2>1, <2>2, RowsThere DEF NumberOK, Keeps
    <2>5. \A p \in Payment : PaymentOK(v, p)'
      <3> SUFFICES ASSUME NEW p \in Payment PROVE PaymentOK(v, p)'
        OBVIOUS
      <3>1. PaymentOK(v, p)
        BY Mine
      <3>2. Entered(p)' <=> Entered(p)
        BY <1>1 DEF Entered
      <3> QED
        BY <1>2, <2>1, <2>2, <3>1, <3>2, RowsThere DEF PaymentOK, Enters
    <2>6. \A l \in StatementLine : LineOK(v, l)'
      <3> SUFFICES ASSUME NEW l \in StatementLine PROVE LineOK(v, l)'
        OBVIOUS
      <3>1. LineOK(v, l)
        BY Mine
      <3> QED
        BY <1>2, <2>1, <2>2, <3>1, RowsThere DEF LineOK, Enters
    <2> QED
      BY <2>3, <2>4, <2>5, <2>6
  <1>8. \A v \in Worker : LockOK(v)' /\ NumberOK(v)'
    BY <1>4, <1>7
  <1>9. \A v \in Worker : \A p \in Payment : PaymentOK(v, p)'
    BY <1>4, <1>7
  <1>10. \A v \in Worker : \A l \in StatementLine : LineOK(v, l)'
    BY <1>4, <1>7
  <1> QED
    BY <1>4, <1>5, <1>6, <1>8, <1>9, <1>10 DEF IInv, TypeInv, NumberInv, EntryInv

-----------------------------------------------------------------------------
(* the invariant and the theorems *)

\* What the rows start as.
LEMMA FirstRows ==
    ASSUME Init
    PROVE  /\ \A i \in Invoice : committed[InvoiceRow(i)] =
                 [state |-> "draft", total |-> lines[i], residual |-> lines[i],
                  paid |-> "not_paid", number |-> 0]
           /\ \A p \in Payment : committed[PaymentRow(p)] =
                 IF p \in Drafted
                 THEN [state |-> "draft", amount |-> amountOf[p], journal |-> journalOf[p]]
                 ELSE [state |-> "absent"]
           /\ \A l \in StatementLine : committed[LineRow(l)] = [reconciled |-> NoInvoice]
           /\ \A j \in Journal : committed[SequenceRow(j)] = [next |-> 1]
           /\ committed[InvSequence] = [next |-> 1]
           /\ committed = [r \in Row |-> committed[r]]
  <1>1. \A i \in Invoice : committed[InvoiceRow(i)] =
           [state |-> "draft", total |-> lines[i], residual |-> lines[i],
            paid |-> "not_paid", number |-> 0]
    <2> SUFFICES ASSUME NEW i \in Invoice
                 PROVE  committed[InvoiceRow(i)] =
                          [state |-> "draft", total |-> lines[i], residual |-> lines[i],
                           paid |-> "not_paid", number |-> 0]
      OBVIOUS
    <2>1. InvoiceRow(i) \in Row /\ InvoiceRow(i)[1] = "invoice" /\ InvoiceRow(i)[2] = i
      BY RowsThere DEF InvoiceRow
    <2> QED
      BY <2>1 DEF Init
  <1>2. \A p \in Payment : committed[PaymentRow(p)] =
           IF p \in Drafted
           THEN [state |-> "draft", amount |-> amountOf[p], journal |-> journalOf[p]]
           ELSE [state |-> "absent"]
    <2> SUFFICES ASSUME NEW p \in Payment
                 PROVE  committed[PaymentRow(p)] =
                          IF p \in Drafted
                          THEN [state |-> "draft", amount |-> amountOf[p], journal |-> journalOf[p]]
                          ELSE [state |-> "absent"]
      OBVIOUS
    <2>1. PaymentRow(p) \in Row /\ PaymentRow(p)[1] = "payment" /\ PaymentRow(p)[2] = p
      BY RowsThere DEF PaymentRow
    <2> QED
      BY <2>1 DEF Init
  <1>3. \A l \in StatementLine : committed[LineRow(l)] = [reconciled |-> NoInvoice]
    <2> SUFFICES ASSUME NEW l \in StatementLine
                 PROVE  committed[LineRow(l)] = [reconciled |-> NoInvoice]
      OBVIOUS
    <2>1. LineRow(l) \in Row /\ LineRow(l)[1] = "line"
      BY RowsThere DEF LineRow
    <2> QED
      BY <2>1 DEF Init
  <1>4. \A j : SequenceRow(j) \in Row => committed[SequenceRow(j)] = [next |-> 1]
    <2> SUFFICES ASSUME NEW j, SequenceRow(j) \in Row
                 PROVE  committed[SequenceRow(j)] = [next |-> 1]
      OBVIOUS
    <2>1. SequenceRow(j)[1] = "sequence"
      BY DEF SequenceRow
    <2> QED
      BY <2>1 DEF Init
  <1>5. committed = [r \in Row |-> committed[r]]
    <2> DEFINE First(r) == CASE r[1] = "invoice" ->
                              [state |-> "draft", total |-> lines[r[2]], residual |-> lines[r[2]],
                               paid |-> "not_paid", number |-> 0]
                         [] r[1] = "payment" ->
                              IF r[2] \in Drafted
                              THEN [state |-> "draft", amount |-> amountOf[r[2]], journal |-> journalOf[r[2]]]
                              ELSE [state |-> "absent"]
                         [] r[1] = "line" -> [reconciled |-> NoInvoice]
                         [] r[1] = "sequence" -> [next |-> 1]
    <2>1. committed = [r \in Row |-> First(r)]
      BY DEF Init
    <2> HIDE DEF First
    <2> QED
      BY ONLY <2>1
  <1> QED
    BY <1>1, <1>2, <1>3, <1>4, <1>5, RowsThere, RowNames

\* The invariant holds to start with.
LEMMA InitHolds ==
    ASSUME Init
    PROVE  IInv
  <1>1. \A i \in Invoice : lines[i] \in Nat \ {0}
    BY InvoicingAssumption DEF Init
  <1>2. lines \in [Invoice -> Nat \ {0}]
    BY <1>1 DEF Init
  <1>3. RowOK(committed)
    <2>1. \A i \in Invoice : committed[InvoiceRow(i)] \in InvoiceVersion
      <3> SUFFICES ASSUME NEW i \in Invoice PROVE committed[InvoiceRow(i)] \in InvoiceVersion
        OBVIOUS
      <3>1. PICK n \in Nat \ {0} : n = lines[i]
        BY <1>1
      <3>2. committed[InvoiceRow(i)] = [state |-> "draft", total |-> n, residual |-> n,
                                        paid |-> "not_paid", number |-> 0]
        BY <3>1, FirstRows
      <3> QED
        BY ONLY <3>2, n \in Nat \ {0} DEF InvoiceVersion, InvoiceState, Paid
    <2>2. \A p \in Payment : committed[PaymentRow(p)] \in PaymentVersion
      <3> SUFFICES ASSUME NEW p \in Payment PROVE committed[PaymentRow(p)] \in PaymentVersion
        OBVIOUS
      <3>1. CASE p \in Drafted
        <4>1. PICK n \in Nat, j \in Journal : n = amountOf[p] /\ j = journalOf[p]
          BY <3>1, InvoicingAssumption
        <4>2. committed[PaymentRow(p)] = [state |-> "draft", amount |-> n, journal |-> j]
          BY <3>1, <4>1, FirstRows
        <4> QED
          BY ONLY <4>2, n \in Nat, j \in Journal DEF PaymentVersion
      <3>2. CASE p \notin Drafted
        <4>1. committed[PaymentRow(p)] = [state |-> "absent"]
          BY <3>2, FirstRows
        <4> QED
          BY ONLY <4>1 DEF PaymentVersion
      <3> QED
        BY <3>1, <3>2
    <2>3. \A l \in StatementLine : committed[LineRow(l)] \in LineVersion
      BY FirstRows DEF LineVersion
    <2>4. /\ \A j \in Journal : committed[SequenceRow(j)] \in Counter
          /\ committed[InvSequence] \in Counter
      BY FirstRows DEF Counter
    <2> QED
      BY <2>1, <2>2, <2>3, <2>4 DEF RowOK
  <1>4. RowInv
    <2>1. live = committed /\ \A r \in Row : lock[r] = NoTxn
      BY DEF Init
    <2>2. lock \in [Row -> Worker \cup {NoTxn}]
      BY DEF Init
    <2>3. RowOK(live)
      BY <1>3, <2>1
    <2>4. applied \in [Payment \X Invoice -> Int]
      BY DEF Init, NothingApplied
    <2>5. entries \in Seq(Entry)
      BY DEF Init
    <2> QED
      BY <1>2, <1>3, <2>1, <2>2, <2>3, <2>4, <2>5, FirstRows DEF RowInv
  <1>5. /\ call = [w \in Worker |-> call[w]]
        /\ \A w \in Worker : call[w] = Idle
        /\ \A w \in Worker, r \in Row : lock[r] # w
    BY NoTxnAssumption DEF Init
  <1>6. Numbered
    <2>1. \A i \in Invoice : committed[InvoiceRow(i)].number = 0
      <3> SUFFICES ASSUME NEW i \in Invoice PROVE committed[InvoiceRow(i)].number = 0
        OBVIOUS
      <3>1. committed[InvoiceRow(i)] =
              [state |-> "draft", total |-> lines[i], residual |-> lines[i],
               paid |-> "not_paid", number |-> 0]
        BY FirstRows
      <3> QED
        BY ONLY <3>1
    <2>2. committed[InvSequence].next = 1
      <3>1. committed[InvSequence] = [next |-> 1]
        BY FirstRows
      <3> QED
        BY ONLY <3>1
    <2> QED
      BY <2>1, <2>2 DEF Numbered
  <1>7. \A d : ~Entered(d)
    BY DEF Init, Entered
  <1>8. EntriesOK
    <2>1. \A d : EnteredOnce(d)
      BY <1>7 DEF EnteredOnce, Entered
    <2>2. \A p \in Payment, i \in Invoice : applied[<<p, i>>] = 0
      BY DEF Init, NothingApplied
    <2>3. \A p \in Payment : committed[PaymentRow(p)].state # "posted"
      <3> SUFFICES ASSUME NEW p \in Payment PROVE committed[PaymentRow(p)].state # "posted"
        OBVIOUS
      <3>1. \/ committed[PaymentRow(p)] =
                 [state |-> "draft", amount |-> amountOf[p], journal |-> journalOf[p]]
            \/ committed[PaymentRow(p)] = [state |-> "absent"]
        BY FirstRows
      <3> QED
        BY ONLY <3>1
    <2>4. \A l \in StatementLine : committed[LineRow(l)].reconciled = NoInvoice
      BY FirstRows
    <2> QED
      BY <1>7, <2>1, <2>2, <2>3, <2>4 DEF EntriesOK
  <1>9. \A w \in Worker : CallOK(call[w]) /\ LockOK(w) /\ NumberOK(w)
    <2> SUFFICES ASSUME NEW w \in Worker PROVE CallOK(call[w]) /\ LockOK(w) /\ NumberOK(w)
      OBVIOUS
    <2>1. CallOK(call[w])
      BY <1>5, IdleOK
    <2>2. LockOK(w)
      BY <1>5, RowsThere DEF LockOK
    <2>3. NumberOK(w)
      BY <1>5, RowsThere, IdleOK DEF NumberOK
    <2> QED
      BY <2>1, <2>2, <2>3
  <1>10. \A w \in Worker : (\A p \in Payment : PaymentOK(w, p)) /\ (\A l \in StatementLine : LineOK(w, l))
    <2> SUFFICES ASSUME NEW w \in Worker
                 PROVE  (\A p \in Payment : PaymentOK(w, p)) /\ (\A l \in StatementLine : LineOK(w, l))
      OBVIOUS
    <2>1. \A d : ~Enters(call[w], d)
      BY <1>5, IdleOK DEF Enters
    <2>2. \A p \in Payment, i \in Invoice : call[w].applying[<<p, i>>] = 0
      BY <1>5, IdleOK DEF NothingApplied
    <2>3. \A p \in Payment : PaymentOK(w, p)
      BY <1>5, <2>1, <2>2, RowsThere, IdleOK DEF PaymentOK
    <2>4. \A l \in StatementLine : LineOK(w, l)
      BY <1>5, <2>1, RowsThere, IdleOK DEF LineOK
    <2> QED
      BY <2>3, <2>4
  <1>11. CallInv /\ Apart
    BY <1>5, <1>9, IdleOK DEF CallInv, Apart
  <1> QED
    BY <1>4, <1>6, <1>8, <1>9, <1>10, <1>11 DEF IInv, TypeInv, NumberInv, EntryInv

\* A step that changes nothing keeps everything.
LEMMA StutterKeeps ==
    ASSUME IInv, UNCHANGED vars
    PROVE  IInv'
  <1>1. RowInv' /\ CallInv' /\ Apart' /\ Numbered' /\ EntriesOK'
    BY DEF vars, dbVars, IInv, TypeInv, NumberInv, EntryInv, RowInv, RowOK, CallInv, Apart, Numbered,
           EntriesOK, Entered, EnteredOnce
  <1>2. \A w \in Worker : LockOK(w)' /\ NumberOK(w)'
    BY DEF vars, dbVars, IInv, TypeInv, NumberInv, LockOK, NumberOK
  <1>3. \A w \in Worker : (\A p \in Payment : PaymentOK(w, p)') /\ (\A l \in StatementLine : LineOK(w, l)')
    BY DEF vars, dbVars, IInv, EntryInv, PaymentOK, LineOK, Entered
  <1> QED
    BY <1>1, <1>2, <1>3 DEF IInv, TypeInv, NumberInv, EntryInv

\* So does every step, as long as no two requests work on one document.
LEMMA NextKeeps ==
    ASSUME IInv, OneRequestPerDocument, Next
    PROVE  IInv'
  <1>1. PICK w \in Worker :
           \/ \E i \in Invoice :
                 \/ \E total \in lineTotal[i] : EditLines(w, i, total)
                 \/ Recompute(w, i)
                 \/ Cancel(w, i)
                 \/ ResetToDraft(w, i)
                 \/ Post(w, i)
                 \/ \E j \in Journal, amount \in Amounts : RegisterPayment(w, i, j, amount)
                 \/ \E l \in StatementLine : Reconcile(w, l, i)
           \/ \E p \in Payment : PostPayment(w, p) \/ CancelPayment(w, p)
           \/ RecomputeSaved(w) \/ WriteTotals(w)
           \/ DrawNumber(w) \/ WritePosted(w) \/ FindCredit(w)
           \/ Allocate(w) \/ AllocateRefused(w) \/ AllocateNothing(w)
           \/ DeriveResidual(w) \/ WriteResidual(w)
           \/ EnterPayment(w) \/ BookPayment(w)
           \/ ClearInvoice(w) \/ MarkReconciled(w)
           \/ Commit(w) \/ Abort(w)
    BY DEF Next
  <1>2. ASSUME NEW i \in Invoice,
               \/ \E total \in lineTotal[i] : EditLines(w, i, total)
               \/ Recompute(w, i)
               \/ Cancel(w, i)
               \/ ResetToDraft(w, i)
               \/ Post(w, i)
               \/ \E j \in Journal, amount \in Amounts : RegisterPayment(w, i, j, amount)
               \/ \E l \in StatementLine : Reconcile(w, l, i)
        PROVE  IInv'
    BY <1>2, EditKeeps, RecomputeKeeps, CancelKeeps, ResetKeeps, PostKeeps, RegisterKeeps, ReconcileKeeps
  <1>3. ASSUME NEW p \in Payment, PostPayment(w, p) \/ CancelPayment(w, p)
        PROVE  IInv'
    BY <1>3, PostPaymentKeeps, CancelPaymentKeeps
  <1>4. CASE RecomputeSaved(w) \/ WriteTotals(w)
    BY <1>4, SavedKeeps, TotalsKeeps
  <1>5. CASE DrawNumber(w) \/ WritePosted(w) \/ FindCredit(w)
    BY <1>5, DrawKeeps, PostedKeeps, FindCreditKeeps
  <1>6. CASE Allocate(w) \/ AllocateRefused(w) \/ AllocateNothing(w)
    BY <1>6, AllocateKeeps, RefusedKeeps, NothingKeeps
  <1>7. CASE DeriveResidual(w) \/ WriteResidual(w)
    BY <1>7, DeriveKeeps, ResidualKeeps
  <1>8. CASE EnterPayment(w) \/ BookPayment(w)
    BY <1>8, EnterKeeps, BookKeeps
  <1>9. CASE ClearInvoice(w) \/ MarkReconciled(w)
    BY <1>9, ClearKeeps, MarkKeeps
  <1>10. CASE Commit(w) \/ Abort(w)
    BY <1>10, CommitKeeps, AbortKeeps
  <1> QED
    BY <1>1, <1>2, <1>3, <1>4, <1>5, <1>6, <1>7, <1>8, <1>9, <1>10

\* Only a COMMIT changes what every session sees.
LEMMA OnlyCommit ==
    ASSUME Next
    PROVE  UNCHANGED committed \/ \E w \in Worker : Commit(w)
  <1>1. PICK w \in Worker :
           \/ \E i \in Invoice :
                 \/ \E total \in lineTotal[i] : EditLines(w, i, total)
                 \/ Recompute(w, i)
                 \/ Cancel(w, i)
                 \/ ResetToDraft(w, i)
                 \/ Post(w, i)
                 \/ \E j \in Journal, amount \in Amounts : RegisterPayment(w, i, j, amount)
                 \/ \E l \in StatementLine : Reconcile(w, l, i)
           \/ \E p \in Payment : PostPayment(w, p) \/ CancelPayment(w, p)
           \/ RecomputeSaved(w) \/ WriteTotals(w)
           \/ DrawNumber(w) \/ WritePosted(w) \/ FindCredit(w)
           \/ Allocate(w) \/ AllocateRefused(w) \/ AllocateNothing(w)
           \/ DeriveResidual(w) \/ WriteResidual(w)
           \/ EnterPayment(w) \/ BookPayment(w)
           \/ ClearInvoice(w) \/ MarkReconciled(w)
           \/ Commit(w) \/ Abort(w)
    BY DEF Next
  <1>2. \A i \in Invoice :
           /\ \A total \in lineTotal[i] : EditLines(w, i, total) => UNCHANGED committed
           /\ Recompute(w, i) => UNCHANGED committed
           /\ Cancel(w, i) \/ ResetToDraft(w, i) => UNCHANGED committed
           /\ Post(w, i) => UNCHANGED committed
           /\ \A j \in Journal, amount \in Amounts : RegisterPayment(w, i, j, amount) => UNCHANGED committed
           /\ \A l \in StatementLine : Reconcile(w, l, i) => UNCHANGED committed
    <2> SUFFICES ASSUME NEW i \in Invoice
                 PROVE  /\ \A total \in lineTotal[i] : EditLines(w, i, total) => UNCHANGED committed
                        /\ Recompute(w, i) => UNCHANGED committed
                        /\ Cancel(w, i) \/ ResetToDraft(w, i) => UNCHANGED committed
                        /\ Post(w, i) => UNCHANGED committed
                        /\ \A j \in Journal, amount \in Amounts :
                              RegisterPayment(w, i, j, amount) => UNCHANGED committed
                        /\ \A l \in StatementLine : Reconcile(w, l, i) => UNCHANGED committed
      OBVIOUS
    <2>1. \A total \in lineTotal[i] : EditLines(w, i, total) => UNCHANGED committed
      BY DEF EditLines, dbVars
    <2>2. Recompute(w, i) => UNCHANGED committed
      BY DEF Recompute, Begin, dbVars
    <2>3. Cancel(w, i) \/ ResetToDraft(w, i) => UNCHANGED committed
      BY DEF Cancel, ResetToDraft, SwitchState, Update, Write
    <2>4. Post(w, i) => UNCHANGED committed
      BY DEF Post, Begin, dbVars
    <2>5. \A j \in Journal, amount \in Amounts : RegisterPayment(w, i, j, amount) => UNCHANGED committed
      BY DEF RegisterPayment, Begin, dbVars
    <2>6. \A l \in StatementLine : Reconcile(w, l, i) => UNCHANGED committed
      BY DEF Reconcile, Begin, dbVars
    <2> QED
      BY <2>1, <2>2, <2>3, <2>4, <2>5, <2>6
  <1>3. \A p \in Payment : PostPayment(w, p) \/ CancelPayment(w, p) => UNCHANGED committed
    BY DEF PostPayment, CancelPayment, Begin, Update, Write, dbVars
  <1>4. RecomputeSaved(w) \/ WriteTotals(w) \/ DrawNumber(w) \/ WritePosted(w) => UNCHANGED committed
    BY DEF RecomputeSaved, WriteTotals, DrawNumber, WritePosted, Update, Write, dbVars
  <1>5. (\/ FindCredit(w) \/ Allocate(w) \/ AllocateRefused(w) \/ AllocateNothing(w)
         \/ DeriveResidual(w) \/ WriteResidual(w)) => UNCHANGED committed
    BY DEF FindCredit, Allocate, AllocateRefused, AllocateNothing, DeriveResidual, WriteResidual,
           Update, Write, dbVars
  <1>6. EnterPayment(w) \/ BookPayment(w) \/ ClearInvoice(w) \/ MarkReconciled(w) => UNCHANGED committed
    BY DEF EnterPayment, BookPayment, ClearInvoice, MarkReconciled, Update, Write
  <1>7. Abort(w) => UNCHANGED committed
    BY DEF Abort, RollbackTxn
  <1> QED
    BY <1>1, <1>2, <1>3, <1>4, <1>5, <1>6, <1>7

\* Under the assumption the invariant is one of every behaviour.
LEMMA Invariance ==
    ASSUME OneRequestPerDocument
    PROVE  Spec => []IInv
  <1>1. Init => IInv
    BY InitHolds
  <1>2. IInv /\ [Next]_vars => IInv'
    BY NextKeeps, StutterKeeps
  <1> QED
    BY <1>1, <1>2, PTL DEF Spec

\* As long as no two requests work on one document at once, a posted invoice
\* keeps its number and shares it with no other: the number is drawn from the
\* locked sequence in the transaction that posts, and an abort gives it back
\* (IrSequence::nextByCode in action_post).
THEOREM NumbersStay ==
    ASSUME OneRequestPerDocument
    PROVE  Spec => NumbersKept
  <1> DEFINE Stays ==
                 \A i \in Invoice :
                        LET before == committed[InvoiceRow(i)]
                            after == committed'[InvoiceRow(i)]
                        IN /\ before.state # "draft" /\ after.state # "draft" => after.number = before.number
                           /\ \A k \in Invoice \ {i} :
                                 after.number # 0 => committed'[InvoiceRow(k)].number # after.number
  <1>1. IInv /\ [Next]_vars => [Stays]_vars
    <2> SUFFICES ASSUME IInv, Next PROVE Stays
      OBVIOUS
    <2>1. CASE UNCHANGED committed
      BY <2>1 DEF IInv, NumberInv, Numbered
    <2>2. ASSUME NEW w \in Worker, Commit(w) PROVE Stays
      <3>1. /\ Numbered'
            /\ \A i \in Invoice : Keeps(committed[InvoiceRow(i)], committed'[InvoiceRow(i)])
        BY <2>2, CommitNumbers
      <3> QED
        BY <3>1 DEF Numbered, Keeps
    <2> QED
      BY <2>1, <2>2, OnlyCommit
  <1>2. Spec => []IInv
    BY Invariance
  <1> QED
    BY <1>1, <1>2, PTL DEF Spec, NumbersKept

\* What MoneyMovesOnce says of the committed entries.
LEMMA EntriesCount ==
    ASSUME IInv
    PROVE  MoneyMovesOnce
  <1>1. EntriesOK /\ RowInv
    BY DEF IInv, EntryInv, TypeInv
  <1>2. ASSUME NEW d, EnteredOnce(d)
        PROVE  /\ ~Entered(d) => EntriesOf(d) = {} /\ Cardinality(EntriesOf(d)) = 0
               /\ Entered(d) => EntriesOf(d) # {} /\ Cardinality(EntriesOf(d)) = 1
    <2>1. CASE ~Entered(d)
      <3>1. EntriesOf(d) = {}
        BY <2>1 DEF Entered, EntriesOf
      <3> QED
        BY <2>1, <3>1, FS_EmptySet
    <2>2. CASE Entered(d)
      <3>1. PICK k : k \in DOMAIN entries /\ entries[k].of = d
        BY <2>2 DEF Entered
      <3>2. EntriesOf(d) = {k}
        BY <1>2, <3>1 DEF EnteredOnce, EntriesOf
      <3>3. Cardinality({k}) = 1
        BY FS_Singleton
      <3> QED
        BY <2>2, <3>2, <3>3
    <2> QED
      BY <2>1, <2>2
  <1>3. ASSUME NEW p \in Payment, SpentSum(p) # 0
        PROVE  Entered(p)
    <2> DEFINE spent == [i \in Invoice |-> applied[<<p, i>>]]
    <2>1. spent \in [Invoice -> Int]
      BY <1>1 DEF RowInv
    <2>2. CASE \A i \in Invoice : spent[i] = 0
      <3>1. IsFiniteSet(Invoice)
        BY InvoicingAssumption
      <3>2. PICK f \in [Invoice -> Int] : f = spent
        BY <2>1
      <3>3. \A i \in Invoice : f[i] = 0
        BY <2>2, <3>2
      <3>4. SumFunction(f) = 0
        BY <3>1, <3>3, SumFunctionZero
      <3> QED
        BY <1>3, <3>2, <3>4 DEF SpentSum
    <2>3. CASE \E i \in Invoice : spent[i] # 0
      BY <1>1, <2>3 DEF EntriesOK
    <2> QED
      BY <2>2, <2>3
  <1>4. ASSUME NEW p \in Payment
        PROVE  LET state == committed[PaymentRow(p)].state IN
               /\ Cardinality(EntriesOf(p)) <= 1
               /\ state = "posted" => EntriesOf(p) # {}
               /\ state \in {"absent", "draft"} => EntriesOf(p) = {}
               /\ SpentSum(p) # 0 => EntriesOf(p) # {}
    <2>1. /\ EnteredOnce(p)
          /\ committed[PaymentRow(p)].state = "posted" => Entered(p)
          /\ committed[PaymentRow(p)].state \in {"absent", "draft"} => ~Entered(p)
      BY <1>1 DEF EntriesOK
    <2>2. Cardinality(EntriesOf(p)) <= 1
      BY <1>2, <2>1
    <2> QED
      BY <1>2, <1>3, <2>1, <2>2
  <1>5. ASSUME NEW l \in StatementLine
        PROVE  Cardinality(EntriesOf(l)) = IF committed[LineRow(l)].reconciled = NoInvoice THEN 0 ELSE 1
    <2>1. EnteredOnce(l) /\ (Entered(l) <=> committed[LineRow(l)].reconciled # NoInvoice)
      BY <1>1 DEF EntriesOK
    <2> QED
      BY <1>2, <2>1
  <1> QED
    BY <1>4, <1>5 DEF MoneyMovesOnce

\* As long as no two requests work on one document at once, a posted payment and
\* a reconciled statement line are in the ledger exactly once, and nothing is
\* applied of a payment that is not: action_post of account.payment,
\* action_register_payment and the bank reconciliation (AccountModule.cpp) each
\* insert the entry in the transaction that changes the document.
THEOREM MoneyMovedOnce ==
    ASSUME OneRequestPerDocument
    PROVE  Spec => []MoneyMovesOnce
  <1>1. Spec => []IInv
    BY Invariance
  <1>2. IInv => MoneyMovesOnce
    BY EntriesCount
  <1> QED
    BY <1>1, <1>2, PTL

-----------------------------------------------------------------------------
(* the money: what the requests and the committed rows say of it, where no     *)
(* save of the form changes an invoice that money was applied to               *)

\* What is applied to an invoice, and with what a request has inserted.
SumTo(f, i) == SumFunction([p \in Payment |-> f[<<p, i>>]])
Both(f) == [q \in Payment \X Invoice |-> applied[q] + f[q]]

\* What a request has cleared of its invoice with a statement line.
Clearing(c) == IF \E l \in StatementLine : Enters(c, l) THEN amountOf[c.doc] ELSE 0

\* A version of an invoice next to what is applied to it and cleared on it.
Sound(v, a, b) ==
    /\ a <= v.total
    /\ v.residual >= 0
    /\ v.residual >= v.total - a - b
    /\ v.paid = "paid" => v.total <= a + b

Settled(v, a) == v.paid = "not_paid" => a = 0

\* A request on an invoice, next to what its lines add up to.
Handles(c, v, a, b, n) ==
    /\ Sound(v, a, b + Clearing(c))
    /\ c.pc \notin {"residual", "refresh"} => Settled(v, a)
    /\ IF c.pc \in {"edited", "totals"} THEN v.total = n \/ v.paid = "not_paid" ELSE v.total = n
    /\ c.pc = "totals" => c.amount = n /\ c.status = v.paid
    /\ c.pc = "refresh" =>
         /\ c.amount = v.total - a
         /\ c.status = (IF c.amount = 0 THEN "paid" ELSE IF c.amount = v.total THEN "not_paid" ELSE "partial")

Applies(c) ==
    /\ c.applying \in [Payment \X Invoice -> Nat]
    /\ \A p \in Payment, k \in Invoice :
          c.applying[<<p, k>>] # 0 => k = c.inv /\ c.pc \in {"allocate", "residual", "refresh", "commit"}
    /\ c.pc = "enter" => c.amount >= 0

MoneyOK(w) ==
    /\ Applies(call[w])
    /\ \A i \in Invoice : call[w].inv = i =>
          Handles(call[w], Inv(w, i), SumTo(Both(call[w].applying), i), ReconciledSum(i), lines[i])

Accounts ==
    /\ applied \in [Payment \X Invoice -> Nat]
    /\ \A p \in Payment : /\ committed[PaymentRow(p)].state # "absent" => committed[PaymentRow(p)].amount >= 0
                          /\ live[PaymentRow(p)].state # "absent" => live[PaymentRow(p)].amount >= 0
    /\ \A i \in Invoice :
         LET v == committed[InvoiceRow(i)] IN
         /\ Sound(v, SumTo(applied, i), ReconciledSum(i))
         /\ Settled(v, SumTo(applied, i))
         /\ (\A w \in Worker : call[w].inv # i) => lines[i] = v.total

MoneyInv == Accounts /\ \A w \in Worker : MoneyOK(w)

\* What is applied to an invoice is a natural number.
LEMMA SumToType ==
    ASSUME NEW f \in [Payment \X Invoice -> Nat], NEW i \in Invoice
    PROVE  SumTo(f, i) \in Nat
  <1>1. PICK g : g = [p \in Payment |-> f[<<p, i>>]]
    OBVIOUS
  <1>2. g \in [Payment -> Nat] /\ \A p \in Payment : g[p] \in Nat
    BY <1>1
  <1>3. SumFunctionOnSet(g, Payment) \in Nat
    BY <1>2, PaymentsFinite, SumNonNegative
  <1>4. DOMAIN g = Payment
    BY <1>1
  <1> QED
    BY <1>1, <1>3, <1>4 DEF SumTo, SumFunction

\* One insert adds its amount.
LEMMA SumToGrows ==
    ASSUME NEW f \in [Payment \X Invoice -> Nat], NEW g \in [Payment \X Invoice -> Nat],
           NEW i \in Invoice, NEW p \in Payment,
           \A q \in Payment : q # p => g[<<q, i>>] = f[<<q, i>>]
    PROVE  SumTo(g, i) = SumTo(f, i) + g[<<p, i>>] - f[<<p, i>>]
  <1>1. PICK ff : ff = [q \in Payment |-> f[<<q, i>>]]
    OBVIOUS
  <1>2. PICK gg : gg = [q \in Payment |-> g[<<q, i>>]]
    OBVIOUS
  <1>3. ff \in [Payment -> Int] /\ gg \in [Payment -> Int] /\ \A q \in Payment : q # p => gg[q] = ff[q]
    BY <1>1, <1>2
  <1>4. SumFunction(gg) = SumFunction(ff) + gg[p] - ff[p]
    BY <1>3, PaymentsFinite, SumFunctionUpdate
  <1> QED
    BY <1>1, <1>2, <1>4 DEF SumTo

\* The sums the properties are about.
LEMMA SumNames ==
    ASSUME NEW w \in Worker, NEW i \in Invoice, RowInv
    PROVE  /\ AppliedTo(w, i) = SumTo(Both(call[w].applying), i)
           /\ AppliedSum(i) = SumTo(applied, i)
  <1>1. \A p \in Payment : Both(call[w].applying)[<<p, i>>] = Applied(w, p, i)
    BY DEF Both, Applied
  <1>2. [p \in Payment |-> Applied(w, p, i)] = [p \in Payment |-> Both(call[w].applying)[<<p, i>>]]
    BY <1>1
  <1> QED
    BY <1>2 DEF AppliedTo, AppliedSum, SumTo

\* Sums that agree payment by payment are equal.
LEMMA SumToSame ==
    ASSUME NEW f, NEW g, NEW i, \A p \in Payment : f[<<p, i>>] = g[<<p, i>>]
    PROVE  SumTo(f, i) = SumTo(g, i)
  <1>1. [p \in Payment |-> f[<<p, i>>]] = [p \in Payment |-> g[<<p, i>>]]
    OBVIOUS
  <1> QED
    BY <1>1 DEF SumTo

\* What statement lines cleared is a natural number.
LEMMA ReconciledType ==
    ASSUME NEW i \in Invoice
    PROVE  ReconciledSum(i) \in Nat
  <1>1. PICK g : g = [l \in StatementLine |-> IF committed[LineRow(l)].reconciled = i THEN amountOf[l] ELSE 0]
    OBVIOUS
  <1>2. \A l \in StatementLine : g[l] \in Nat
    BY <1>1, InvoicingAssumption
  <1>3. SumFunctionOnSet(g, StatementLine) \in Nat
    BY <1>2, InvoicingAssumption, SumNonNegative
  <1>4. DOMAIN g = StatementLine
    BY <1>1
  <1> QED
    BY <1>1, <1>3, <1>4 DEF ReconciledSum, SumFunction

\* So is what a request has cleared.
LEMMA ClearingType ==
    ASSUME IInv, NEW w \in Worker
    PROVE  /\ Clearing(call[w]) \in Nat
           /\ call[w].entering = <<>> => Clearing(call[w]) = 0
  <1>1. CASE \E l \in StatementLine : Enters(call[w], l)
    <2>1. PICK l \in StatementLine : Enters(call[w], l)
      BY <1>1
    <2>2. call[w].doc = l
      BY <2>1, Mine DEF LineOK
    <2> QED
      BY <1>1, <2>1, <2>2, InvoicingAssumption DEF Clearing, Enters
  <1>2. CASE ~ \E l \in StatementLine : Enters(call[w], l)
    BY <1>2 DEF Clearing
  <1> QED
    BY <1>1, <1>2

\* What a request that writes nothing further on sees.
LEMMA BothType ==
    ASSUME Accounts, NEW f \in [Payment \X Invoice -> Nat]
    PROVE  Both(f) \in [Payment \X Invoice -> Nat]
  <1>1. \A q \in Payment \X Invoice : applied[q] \in Nat /\ f[q] \in Nat
    BY DEF Accounts
  <1>2. \A q \in Payment \X Invoice : applied[q] + f[q] \in Nat
    BY <1>1
  <1> QED
    BY <1>2 DEF Both

\* An idle worker applies nothing, and what it sees applied is what is committed.
LEMMA BothOfNothing ==
    ASSUME Accounts, NEW i \in Invoice, NEW f, \A p \in Payment : f[<<p, i>>] = 0
    PROVE  SumTo(Both(f), i) = SumTo(applied, i)
  <1>1. ASSUME NEW p \in Payment PROVE Both(f)[<<p, i>>] = applied[<<p, i>>]
    <2>1. applied[<<p, i>>] \in Nat
      BY DEF Accounts
    <2> QED
      BY <2>1 DEF Both
  <1> QED
    BY <1>1, SumToSame

\* A statement of one request: what the others see of the money stays.
LEMMA MoneyServes ==
    ASSUME IInv, MoneyInv, IInv', NEW w \in Worker, NEW c, NEW new, Write(w, new),
           call' = [call EXCEPT ![w] = c], applied' = applied,
           \A p \in Payment : PaymentRow(p) \in DOMAIN new /\ new[PaymentRow(p)].state # "absent"
                                => new[PaymentRow(p)].amount >= 0,
           \A k \in Invoice : k # c.inv => lines'[k] = lines[k],
           call[w].inv \in Invoice => c.inv = call[w].inv,
           Applies(c),
           \A i \in Invoice : c.inv = i =>
              Handles(c, Inv(w, i)', SumTo(Both(c.applying), i), ReconciledSum(i), lines'[i])
    PROVE  MoneyInv'
  <1>1. RowInv /\ CallInv /\ Accounts
    BY DEF MoneyInv, IInv, TypeInv
  <1>2. call'[w] = c /\ \A v \in Worker : v # w => call'[v] = call[v]
    BY <1>1 DEF CallInv
  <1>3. /\ committed' = committed
        /\ \A r \in Row : /\ live'[r] = IF r \in DOMAIN new THEN new[r] ELSE live[r]
                          /\ lock'[r] = IF r \in DOMAIN new THEN w ELSE lock[r]
    BY WriteEffect
  <1>4. /\ \A i : ReconciledSum(i)' = ReconciledSum(i)
        /\ \A f : Both(f)' = Both(f)
    BY <1>3 DEF ReconciledSum, Both
  <1>5. \A v \in Worker : v # w /\ call[v].inv \in Invoice => call[v].inv # c.inv
    <2> SUFFICES ASSUME NEW v \in Worker, v # w, call[v].inv \in Invoice, call[v].inv = c.inv
                 PROVE  FALSE
      OBVIOUS
    <2>1. CallOK(call[v])' /\ CallOK(call[w])' /\ call'[v].docs \cap call'[w].docs = {}
      BY DEF IInv, TypeInv, CallInv, Apart
    <2>2. call'[v] = call[v] /\ call'[w] = c
      BY <1>2
    <2>3. call[v].inv \in call[v].docs /\ c.inv \in c.docs /\ call[v].docs \cap c.docs = {}
      BY <2>1, <2>2 DEF CallOK
    <2> QED
      BY <2>3
  <1>6. Accounts'
    <2>1. applied' \in [Payment \X Invoice -> Nat]
      BY <1>1 DEF Accounts
    <2>2. \A p \in Payment :
            /\ committed'[PaymentRow(p)].state # "absent" => committed'[PaymentRow(p)].amount >= 0
            /\ live'[PaymentRow(p)].state # "absent" => live'[PaymentRow(p)].amount >= 0
      BY <1>1, <1>3, RowsThere DEF Accounts
    <2>3. ASSUME NEW i \in Invoice
          PROVE  /\ Sound(committed'[InvoiceRow(i)], SumTo(applied', i), ReconciledSum(i)')
                 /\ Settled(committed'[InvoiceRow(i)], SumTo(applied', i))
                 /\ (\A v \in Worker : call'[v].inv # i) => lines'[i] = committed'[InvoiceRow(i)].total
      <3>1. /\ Sound(committed[InvoiceRow(i)], SumTo(applied, i), ReconciledSum(i))
            /\ Settled(committed[InvoiceRow(i)], SumTo(applied, i))
            /\ (\A v \in Worker : call[v].inv # i) => lines[i] = committed[InvoiceRow(i)].total
        BY <1>1 DEF Accounts
      <3>2. (\A v \in Worker : call'[v].inv # i) => lines'[i] = committed'[InvoiceRow(i)].total
        <4> SUFFICES ASSUME \A v \in Worker : call'[v].inv # i
                     PROVE  lines'[i] = committed'[InvoiceRow(i)].total
          OBVIOUS
        <4>1. c.inv # i
          BY <1>2
        <4>2. \A v \in Worker : call[v].inv # i
          BY <1>2, <4>1
        <4> QED
          BY <1>3, <3>1, <4>1, <4>2
      <3> QED
        BY <1>3, <1>4, <3>1, <3>2
    <2> QED
      BY <2>1, <2>2, <2>3 DEF Accounts
  <1>7. MoneyOK(w)'
    <2>1. Applies(call[w])'
      BY <1>2 DEF Applies
    <2>2. ASSUME NEW i \in Invoice, call'[w].inv = i
          PROVE  Handles(call'[w], Inv(w, i)', SumTo(Both(call[w].applying)', i), ReconciledSum(i)', lines'[i])
      <3>1. Both(call[w].applying)' = Both(c.applying)
        BY <1>2 DEF Both
      <3> QED
        BY <1>2, <1>4, <2>2, <3>1
    <2> QED
      BY <2>1, <2>2 DEF MoneyOK
  <1>8. ASSUME NEW v \in Worker, v # w
        PROVE  MoneyOK(v)'
    <2>1. MoneyOK(v) /\ call'[v] = call[v]
      BY <1>2, <1>8 DEF MoneyInv
    <2>2. \A i \in Invoice : Inv(v, i)' = Inv(v, i)
      BY <1>1, <1>8, OthersHold, RowsThere DEF Inv, Visible
    <2>3. Applies(call[v])'
      BY <2>1 DEF MoneyOK, Applies
    <2>4. ASSUME NEW i \in Invoice, call[v].inv = i
          PROVE  Handles(call'[v], Inv(v, i)', SumTo(Both(call[v].applying)', i), ReconciledSum(i)', lines'[i])
      <3>1. Handles(call[v], Inv(v, i), SumTo(Both(call[v].applying), i), ReconciledSum(i), lines[i])
        BY <2>1, <2>4 DEF MoneyOK
      <3>2. lines'[i] = lines[i]
        BY <1>5, <1>8, <2>4
      <3>3. Both(call[v].applying)' = Both(call[v].applying)
        BY <2>1 DEF Both
      <3> QED
        BY <1>4, <2>1, <2>2, <3>1, <3>2, <3>3
    <2> QED
      BY <2>1, <2>3, <2>4 DEF MoneyOK
  <1> QED
    BY <1>6, <1>7, <1>8 DEF MoneyInv

\* Of a request on no invoice there is nothing more to say.
LEMMA OffInvoice ==
    ASSUME IInv, MoneyInv, IInv', NEW w \in Worker, NEW c, NEW new, Write(w, new),
           call' = [call EXCEPT ![w] = c], applied' = applied, lines' = lines,
           \A p \in Payment : PaymentRow(p) \in DOMAIN new /\ new[PaymentRow(p)].state # "absent"
                                => new[PaymentRow(p)].amount >= 0,
           call[w].inv \notin Invoice, c.inv \notin Invoice, Applies(c)
    PROVE  MoneyInv'
  BY MoneyServes

\* What a request sees of the rows after its statement.
LEMMA SeenAfter ==
    ASSUME RowInv, NEW w \in Worker, NEW new, Write(w, new), NEW i \in Invoice
    PROVE  /\ InvoiceRow(i) \in DOMAIN new => Inv(w, i)' = new[InvoiceRow(i)]
           /\ InvoiceRow(i) \notin DOMAIN new => Inv(w, i)' = Inv(w, i)
  BY WriteEffect, RowsThere DEF Inv, Visible

\* A request on an invoice that goes on in one of the places where nothing is
\* derived or read ahead.
Plain == Place \ {"edited", "totals", "residual", "refresh"}

\* What is known of its invoice stays when it goes on to another such place.
LEMMA StillHandles ==
    ASSUME NEW c, NEW v, NEW a, NEW b, NEW n, Handles(c, v, a, b, n), c.pc \in Plain,
           NEW d, d.pc \in Plain, Clearing(d) = Clearing(c),
           NEW u, u.total = v.total, u.residual = v.residual, u.paid = v.paid
    PROVE  Handles(d, u, a, b, n)
  BY DEF Handles, Plain, Sound, Settled

\* What is known of the invoice a request works on.
LEMMA MyMoney ==
    ASSUME IInv, MoneyInv, NEW w \in Worker, NEW i \in Invoice, call[w].inv = i
    PROVE  /\ Inv(w, i) \in InvoiceVersion
           /\ SumTo(Both(call[w].applying), i) \in Nat
           /\ ReconciledSum(i) \in Nat
           /\ Clearing(call[w]) \in Nat
           /\ lines[i] \in Nat \ {0}
           /\ Applies(call[w])
           /\ Handles(call[w], Inv(w, i), SumTo(Both(call[w].applying), i), ReconciledSum(i), lines[i])
  <1>1. MoneyOK(w) /\ Accounts
    BY DEF MoneyInv
  <1>2. call[w].applying \in [Payment \X Invoice -> Nat]
    BY <1>1 DEF MoneyOK, Applies
  <1>3. SumTo(Both(call[w].applying), i) \in Nat
    BY <1>1, <1>2, BothType, SumToType
  <1>4. Inv(w, i) \in InvoiceVersion /\ lines[i] \in Nat \ {0}
    BY Mine, SeenRows
  <1> QED
    BY <1>1, <1>3, <1>4, ReconciledType, ClearingType DEF MoneyOK

\* What is known of an invoice nobody works on.
LEMMA FreshMoney ==
    ASSUME IInv, MoneyInv, NEW w \in Worker, call[w] = Idle, NEW i \in Invoice,
           \A v \in Worker : call[v].inv # i
    PROVE  /\ Inv(w, i) = committed[InvoiceRow(i)]
           /\ Inv(w, i) \in InvoiceVersion
           /\ SumTo(Both(NothingApplied), i) \in Nat
           /\ ReconciledSum(i) \in Nat
           /\ Sound(Inv(w, i), SumTo(Both(NothingApplied), i), ReconciledSum(i))
           /\ Settled(Inv(w, i), SumTo(Both(NothingApplied), i))
           /\ lines[i] \in Nat \ {0}
           /\ Inv(w, i).total = lines[i]
  <1>1. Accounts
    BY DEF MoneyInv
  <1>2. SumTo(Both(NothingApplied), i) = SumTo(applied, i)
    BY <1>1, BothOfNothing DEF NothingApplied
  <1>3. applied \in [Payment \X Invoice -> Nat]
    BY <1>1 DEF Accounts
  <1>4. SumTo(applied, i) \in Nat
    BY <1>3, SumToType
  <1>5. Inv(w, i) \in InvoiceVersion /\ lines[i] \in Nat \ {0}
    BY Mine, SeenRows
  <1>6. Inv(w, i) = committed[InvoiceRow(i)]
    BY FirstSight
  <1>7. Sound(committed[InvoiceRow(i)], SumTo(applied, i), ReconciledSum(i))
        /\ Settled(committed[InvoiceRow(i)], SumTo(applied, i)) /\ lines[i] = committed[InvoiceRow(i)].total
    BY <1>1 DEF Accounts
  <1> QED
    BY <1>2, <1>4, <1>5, <1>6, <1>7, ReconciledType

\* What a request inserts, when it has inserted nothing.
LEMMA AppliesNothing ==
    ASSUME NEW c, c.applying = NothingApplied, c.pc = "enter" => c.amount >= 0
    PROVE  Applies(c)
  BY DEF Applies, NothingApplied

\* A request that begins on an invoice.
LEMMA BeginMoney ==
    ASSUME IInv, MoneyInv, IInv', NEW w \in Worker, call[w] = Idle, NEW i \in Invoice,
           \A v \in Worker : call[v].inv # i,
           NEW c, call' = [call EXCEPT ![w] = c], UNCHANGED dbVars, applied' = applied,
           \A k \in Invoice : k # i => lines'[k] = lines[k],
           c.inv = i, c.applying = NothingApplied, c.entering = <<>>,
           c.pc \notin {"residual", "refresh"},
           c.pc = "enter" => c.amount >= 0,
           c.pc = "totals" => c.amount = lines[i] /\ c.status = Inv(w, i).paid,
           lines'[i] = lines[i] \/ (c.pc = "edited" /\ Inv(w, i).paid = "not_paid")
    PROVE  MoneyInv'
  <1>1. Write(w, Nothing) /\ DOMAIN Nothing = {}
    BY Mine, NoWrite DEF Nothing
  <1>2. Applies(c)
    BY AppliesNothing
  <1>3. Clearing(c) = 0
    BY DEF Clearing, Enters
  <1>4. /\ ReconciledSum(i) \in Nat
        /\ Sound(Inv(w, i), SumTo(Both(NothingApplied), i), ReconciledSum(i))
        /\ Settled(Inv(w, i), SumTo(Both(NothingApplied), i))
        /\ lines[i] \in Nat \ {0}
        /\ Inv(w, i).total = lines[i]
    BY FreshMoney
  <1>5. Inv(w, i)' = Inv(w, i)
    BY Mine, <1>1, SeenAfter
  <1>6. ReconciledSum(i) + Clearing(c) = ReconciledSum(i)
    BY <1>3, <1>4
  <1>7. Handles(c, Inv(w, i)', SumTo(Both(c.applying), i), ReconciledSum(i), lines'[i])
    BY <1>4, <1>5, <1>6 DEF Handles
  <1>8. call[w].inv \notin Invoice
    BY IdleOK, NoInvoiceIn
  <1>9. \A k \in Invoice : c.inv = k =>
           Handles(c, Inv(w, k)', SumTo(Both(c.applying), k), ReconciledSum(k), lines'[k])
    BY <1>7
  <1>10. \A p \in Payment : PaymentRow(p) \notin DOMAIN Nothing
    BY <1>1
  <1> QED
    BY <1>1, <1>2, <1>8, <1>9, <1>10, MoneyServes

\* Begin, of the requests on an invoice.
Begins(w, i, c) ==
    /\ call[w] = Idle
    /\ call' = [call EXCEPT ![w] = c]
    /\ \A v \in Worker : i \notin call[v].docs
    /\ UNCHANGED <<dbVars, lines, applied>>

\* A request that begins on an invoice without writing.
LEMMA BegunMoney ==
    ASSUME IInv, MoneyInv, IInv', NEW w \in Worker, NEW i \in Invoice,
           NEW c, Begins(w, i, c),
           c.inv = i, c.applying = NothingApplied, c.entering = <<>>,
           c.pc \notin {"residual", "refresh", "edited"},
           c.pc = "enter" => c.amount >= 0,
           c.pc = "totals" => c.amount = lines[i] /\ c.status = Inv(w, i).paid
    PROVE  MoneyInv'
  <1>1. call[w] = Idle /\ call' = [call EXCEPT ![w] = c] /\ UNCHANGED dbVars /\ applied' = applied
    BY DEF Begins
  <1>2. lines'[i] = lines[i] /\ \A k \in Invoice : k # i => lines'[k] = lines[k]
    BY DEF Begins
  <1>3. \A v \in Worker : call[v].inv # i
    <2> SUFFICES ASSUME NEW v \in Worker, call[v].inv = i PROVE FALSE
      OBVIOUS
    <2>1. i \in call[v].docs
      BY Mine DEF CallOK
    <2> QED
      BY <2>1 DEF Begins
  <1>4. /\ c.pc \notin {"residual", "refresh"}
        /\ lines'[i] = lines[i] \/ (c.pc = "edited" /\ Inv(w, i).paid = "not_paid")
    BY <1>2
  <1> QED
    BY <1>1, <1>2, <1>3, <1>4, BeginMoney

\* recompute_totals starts from the lines as they are.
LEMMA RecomputeMoney ==
    ASSUME IInv, MoneyInv, OneRequestPerDocument, NEW w \in Worker, NEW i \in Invoice, Recompute(w, i)
    PROVE  MoneyInv'
  <1>1. PICK c : c = [ReadLines(w, i) EXCEPT !.docs = {i}]
    OBVIOUS
  <1>2. /\ c.pc = "totals" /\ c.inv = i /\ c.amount = lines[i]
        /\ c.status = Inv(w, i).paid /\ c.applying = NothingApplied /\ c.entering = <<>>
    BY <1>1 DEF ReadLines, Idle
  <1>3. IInv'
    BY RecomputeKeeps
  <1>4. Begins(w, i, c)
    BY <1>1 DEF Recompute, Begin, Begins
  <1> QED
    BY <1>2, <1>3, <1>4, BegunMoney

\* Posting an invoice starts from its committed money.
LEMMA PostMoney ==
    ASSUME IInv, MoneyInv, OneRequestPerDocument, NEW w \in Worker, NEW i \in Invoice, Post(w, i)
    PROVE  MoneyInv'
  <1>1. PICK request : request = [Idle EXCEPT !.pc = "number", !.inv = i]
    OBVIOUS
  <1>2. PICK c : c = [request EXCEPT !.docs = {i}]
    OBVIOUS
  <1>3. c.pc = "number" /\ c.inv = i /\ c.applying = NothingApplied /\ c.entering = <<>>
    BY <1>1, <1>2 DEF Idle
  <1>4. IInv'
    BY PostKeeps
  <1>5. Begins(w, i, c)
    BY <1>1, <1>2 DEF Post, Begin, Begins
  <1> QED
    BY <1>3, <1>4, <1>5, BegunMoney

\* The amount of a registered payment is not negative.
LEMMA RegisterMoney ==
    ASSUME IInv, MoneyInv, OneRequestPerDocument, NEW w \in Worker, NEW i \in Invoice,
           NEW j \in Journal, NEW amount \in Amounts, RegisterPayment(w, i, j, amount)
    PROVE  MoneyInv'
  <1>1. PICK request : request = [Idle EXCEPT !.pc = "enter", !.inv = i, !.doc = j,
                                      !.amount = PayAmount(amount, Inv(w, i).residual)]
    OBVIOUS
  <1>2. PICK c : c = [request EXCEPT !.docs = {i}]
    OBVIOUS
  <1>3. /\ c.pc = "enter" /\ c.inv = i /\ c.amount = PayAmount(amount, Inv(w, i).residual)
        /\ c.applying = NothingApplied /\ c.entering = <<>>
    BY <1>1, <1>2 DEF Idle
  <1>4. IInv'
    BY RegisterKeeps
  <1>5. Begins(w, i, c)
    BY <1>1, <1>2 DEF RegisterPayment, Begin, Begins
  <1>6. c.amount >= 0
    <2>1. call[w] = Idle /\ Inv(w, i) = committed[InvoiceRow(i)]
      BY <1>5, FirstSight DEF Begins
    <2>2. PICK residual \in Int : residual = Inv(w, i).residual
      BY Mine, SeenRows DEF InvoiceVersion
    <2>3. residual >= 0
      BY <2>1, <2>2 DEF MoneyInv, Accounts, Sound
    <2>4. amount \in Int
      BY InvoicingAssumption
    <2> QED
      BY <1>3, <2>2, <2>3, <2>4 DEF PayAmount
  <1> QED
    BY <1>3, <1>4, <1>5, <1>6, BegunMoney

\* Bank reconciliation starts from the committed money.
LEMMA ReconcileMoney ==
    ASSUME IInv, MoneyInv, OneRequestPerDocument, NEW w \in Worker, NEW l \in StatementLine,
           NEW i \in Invoice, Reconcile(w, l, i)
    PROVE  MoneyInv'
  <1>1. PICK request : request = [Idle EXCEPT !.pc = "clear", !.inv = i, !.doc = l]
    OBVIOUS
  <1>2. PICK c : c = [request EXCEPT !.docs = {l, i}]
    OBVIOUS
  <1>3. c.pc = "clear" /\ c.inv = i /\ c.applying = NothingApplied /\ c.entering = <<>>
    BY <1>1, <1>2 DEF Idle
  <1>4. IInv'
    BY ReconcileKeeps
  <1>5. Begins(w, i, c)
    BY <1>1, <1>2 DEF Reconcile, Begin, Begins
  <1> QED
    BY <1>3, <1>4, <1>5, BegunMoney

\* Posting a payment is about no invoice.
LEMMA PostPaymentMoney ==
    ASSUME IInv, MoneyInv, OneRequestPerDocument, NEW w \in Worker, NEW p \in Payment, PostPayment(w, p)
    PROVE  MoneyInv'
  <1>1. PICK request : request = [Idle EXCEPT !.pc = "book", !.doc = p,
                                      !.amount = CountedNumber(Pay(w, p).journal)]
    OBVIOUS
  <1>2. PICK c : c = [request EXCEPT !.docs = {p}]
    OBVIOUS
  <1>3. c.pc = "book" /\ c.inv = NoInvoice /\ c.applying = NothingApplied
    BY <1>1, <1>2 DEF Idle
  <1>4. IInv'
    BY PostPaymentKeeps
  <1>5. Begin(w, {p}, request)
    BY <1>1 DEF PostPayment
  <1>6. /\ call[w].inv = NoInvoice /\ call' = [call EXCEPT ![w] = c] /\ UNCHANGED dbVars
        /\ applied' = applied /\ lines' = lines
    BY <1>2, <1>5, IdleOK DEF Begin
  <1>7. Write(w, Nothing) /\ DOMAIN Nothing = {}
    BY <1>6, Mine, NoWrite DEF Nothing
  <1>8. Applies(c)
    BY <1>3, AppliesNothing
  <1>9. \A q \in Payment : PaymentRow(q) \notin DOMAIN Nothing
    BY <1>7
  <1> QED
    BY <1>3, <1>4, <1>6, <1>7, <1>8, <1>9, NoInvoiceIn, OffInvoice

\* Careful edits of the lines come before any money.
LEMMA EditMoney ==
    ASSUME IInv, MoneyInv, OneRequestPerDocument, CarefulEdits, NEW w \in Worker, NEW i \in Invoice,
           NEW total \in lineTotal[i], EditLines(w, i, total)
    PROVE  MoneyInv'
  <1>1. PICK c : c = [Idle EXCEPT !.pc = "edited", !.docs = {i}, !.inv = i]
    OBVIOUS
  <1>2. c.pc = "edited" /\ c.inv = i /\ c.applying = NothingApplied /\ c.entering = <<>>
    BY <1>1 DEF Idle
  <1>3. IInv'
    BY EditKeeps
  <1>4. /\ call[w] = Idle /\ call' = [call EXCEPT ![w] = c] /\ UNCHANGED dbVars /\ applied' = applied
        /\ Inv(w, i).paid = "not_paid"
    BY <1>1 DEF EditLines
  <1>5. \A v \in Worker : call[v].inv # i
    <2> SUFFICES ASSUME NEW v \in Worker, call[v].inv = i PROVE FALSE
      OBVIOUS
    <2>1. i \in call[v].docs
      BY Mine DEF CallOK
    <2> QED
      BY <2>1 DEF EditLines
  <1>6. \A k \in Invoice : k # i => lines'[k] = lines[k]
    BY Mine DEF EditLines
  <1> QED
    BY <1>2, <1>3, <1>4, <1>5, <1>6, BeginMoney

\* A request on an invoice that writes no row.
LEMMA GoesOnMoney ==
    ASSUME IInv, MoneyInv, IInv', NEW w \in Worker, NEW i \in Invoice, call[w].inv = i,
           NEW c, call' = [call EXCEPT ![w] = c], UNCHANGED dbVars, applied' = applied, lines' = lines,
           c.inv = i, Applies(c),
           Handles(c, Inv(w, i), SumTo(Both(c.applying), i), ReconciledSum(i), lines[i])
    PROVE  MoneyInv'
  <1>1. Write(w, Nothing) /\ DOMAIN Nothing = {}
    BY Mine, NoWrite DEF Nothing
  <1>2. Inv(w, i)' = Inv(w, i)
    BY Mine, <1>1, SeenAfter
  <1>3. \A k \in Invoice : c.inv = k =>
           Handles(c, Inv(w, k)', SumTo(Both(c.applying), k), ReconciledSum(k), lines'[k])
    BY <1>2
  <1>4. \A p \in Payment : PaymentRow(p) \notin DOMAIN Nothing
    BY <1>1
  <1> QED
    BY <1>1, <1>3, <1>4, MoneyServes

\* Nothing is inserted before the payments are tried.
LEMMA EarlyNothing ==
    ASSUME IInv, MoneyInv, NEW w \in Worker,
           call[w].pc \notin {"allocate", "residual", "refresh", "mark", "commit"}
    PROVE  /\ Clearing(call[w]) = 0
           /\ \A i \in Invoice : SumTo(Both(call[w].applying), i) = SumTo(Both(NothingApplied), i)
  <1>1. call[w].entering = <<>>
    BY Mine DEF CallOK
  <1>2. Accounts /\ Applies(call[w])
    BY DEF MoneyInv, MoneyOK
  <1>3. \A p \in Payment, k \in Invoice : call[w].applying[<<p, k>>] = 0
    BY <1>2 DEF Applies
  <1>4. \A i \in Invoice : SumTo(Both(call[w].applying), i) = SumTo(applied, i)
    BY <1>2, <1>3, BothOfNothing
  <1>5. \A i \in Invoice : SumTo(Both(NothingApplied), i) = SumTo(applied, i)
    BY <1>2, BothOfNothing DEF NothingApplied
  <1> QED
    BY <1>1, <1>4, <1>5, ClearingType

\* A save of the form goes on to recompute_totals.
LEMMA SavedMoney ==
    ASSUME IInv, MoneyInv, NEW w \in Worker, RecomputeSaved(w)
    PROVE  MoneyInv'
  <1>1. PICK i \in Invoice : i = call[w].inv
    BY Mine DEF RecomputeSaved, At, CallOK
  <1>2. PICK c : c = ReadLines(w, i)
    OBVIOUS
  <1>3. /\ c.pc = "totals" /\ c.inv = i /\ c.amount = lines[i]
        /\ c.status = Inv(w, i).paid /\ c.applying = NothingApplied /\ c.entering = <<>>
    BY <1>2 DEF ReadLines, Idle
  <1>4. IInv'
    BY SavedKeeps
  <1>5. /\ call[w].pc = "edited" /\ call' = [call EXCEPT ![w] = c] /\ UNCHANGED dbVars
        /\ applied' = applied /\ lines' = lines
    BY <1>1, <1>2 DEF RecomputeSaved, At
  <1>6. Applies(c)
    BY <1>3, AppliesNothing
  <1>7. Handles(call[w], Inv(w, i), SumTo(Both(call[w].applying), i), ReconciledSum(i), lines[i])
    BY <1>1, MyMoney
  <1>8. /\ Clearing(call[w]) = 0
        /\ SumTo(Both(call[w].applying), i) = SumTo(Both(NothingApplied), i)
    BY <1>5, EarlyNothing
  <1>9. Clearing(c) = 0
    BY <1>3 DEF Clearing, Enters
  <1>10. Handles(c, Inv(w, i), SumTo(Both(c.applying), i), ReconciledSum(i), lines[i])
    BY <1>3, <1>5, <1>7, <1>8, <1>9 DEF Handles
  <1> QED
    BY <1>1, <1>3, <1>4, <1>5, <1>6, <1>10, GoesOnMoney

\* A statement of a request on an invoice, and what it leaves of the invoice.
LEMMA WriteMoney ==
    ASSUME IInv, MoneyInv, IInv', NEW w \in Worker, NEW i \in Invoice,
           call[w].inv = i \/ call[w].inv \notin Invoice,
           NEW c, NEW new, Write(w, new),
           call' = [call EXCEPT ![w] = c], applied' = applied, lines' = lines,
           \A p \in Payment : PaymentRow(p) \in DOMAIN new /\ new[PaymentRow(p)].state # "absent"
                                => new[PaymentRow(p)].amount >= 0,
           NEW v, v = IF InvoiceRow(i) \in DOMAIN new THEN new[InvoiceRow(i)] ELSE Inv(w, i),
           c.inv = i, Applies(c),
           Handles(c, v, SumTo(Both(c.applying), i), ReconciledSum(i), lines[i])
    PROVE  MoneyInv'
  <1>1. Inv(w, i)' = v
    BY Mine, SeenAfter
  <1>2. \A k \in Invoice : c.inv = k =>
           Handles(c, Inv(w, k)', SumTo(Both(c.applying), k), ReconciledSum(k), lines'[k])
    BY <1>1
  <1>3. \A k \in Invoice : k # c.inv => lines'[k] = lines[k]
    OBVIOUS
  <1>4. call[w].inv \in Invoice => c.inv = call[w].inv
    OBVIOUS
  <1> QED
    BY <1>2, <1>3, <1>4, MoneyServes

\* The UPDATE of the invoice of a request.
LEMMA UpdateMoney ==
    ASSUME IInv, MoneyInv, IInv', NEW w \in Worker, NEW i \in Invoice,
           call[w].inv = i \/ call[w].inv \notin Invoice,
           NEW c, NEW version, Update(w, InvoiceRow(i), version),
           call' = [call EXCEPT ![w] = c], applied' = applied, lines' = lines,
           c.inv = i, Applies(c),
           Handles(c, version, SumTo(Both(c.applying), i), ReconciledSum(i), lines[i])
    PROVE  MoneyInv'
  <1>1. PICK new : new = [s \in {InvoiceRow(i)} |-> version]
    OBVIOUS
  <1>2. Write(w, new) /\ InvoiceRow(i) \in DOMAIN new /\ new[InvoiceRow(i)] = version
    BY <1>1 DEF Update
  <1>3. \A p \in Payment : PaymentRow(p) \notin DOMAIN new
    BY <1>1, RowNames
  <1>4. version = IF InvoiceRow(i) \in DOMAIN new THEN new[InvoiceRow(i)] ELSE Inv(w, i)
    BY <1>2
  <1> QED
    BY <1>2, <1>3, <1>4, WriteMoney

\* A version an UPDATE may replace is the one its request sees.
LEMMA LiveSeen ==
    ASSUME IInv, NEW w \in Worker, NEW i \in Invoice, NEW version, Update(w, InvoiceRow(i), version)
    PROVE  live[InvoiceRow(i)] = Inv(w, i)
  <1>1. lock[InvoiceRow(i)] \in {w, NoTxn}
    BY InvoiceUpdate, Mine
  <1> QED
    BY <1>1, Mine, RowsThere DEF RowInv, Inv, Visible

\* A request that goes on in a plain place without a statement.
LEMMA PlainMoney ==
    ASSUME IInv, MoneyInv, IInv', NEW w \in Worker, call[w].inv \in Invoice,
           call[w].pc \in Plain, NEW c, call' = [call EXCEPT ![w] = c],
           c.pc \in {"allocate", "commit"}, c.inv = call[w].inv, c.doc = call[w].doc,
           c.applying = call[w].applying, c.entering = call[w].entering,
           UNCHANGED <<dbVars, lines, applied>>
    PROVE  MoneyInv'
  <1>1. PICK i \in Invoice : i = call[w].inv
    OBVIOUS
  <1>2. /\ Applies(call[w])
        /\ Handles(call[w], Inv(w, i), SumTo(Both(call[w].applying), i), ReconciledSum(i), lines[i])
    BY <1>1, MyMoney
  <1>3. Clearing(c) = Clearing(call[w])
    BY DEF Clearing, Enters
  <1>4. Applies(c)
    BY <1>2 DEF Applies
  <1>5. c.pc \in Plain
    BY DEF Plain, Place
  <1>6. Handles(c, Inv(w, i), SumTo(Both(c.applying), i), ReconciledSum(i), lines[i])
    BY <1>2, <1>3, <1>5, StillHandles
  <1> QED
    BY <1>1, <1>4, <1>6, GoesOnMoney

\* Which credits there are does not touch the money.
LEMMA FindCreditMoney ==
    ASSUME IInv, MoneyInv, NEW w \in Worker, FindCredit(w)
    PROVE  MoneyInv'
  <1>1. CallOK(call[w]) /\ call[w].pc = "credit"
    BY Mine DEF FindCredit, At
  <1>2. PICK queue : TryNext(w, queue)
    BY DEF FindCredit
  <1>3. PICK c : c = [call[w] EXCEPT !.queue = queue, !.pc = IF queue = <<>> THEN "commit" ELSE "allocate"]
    OBVIOUS
  <1>4. call' = [call EXCEPT ![w] = c]
    BY <1>2, <1>3, Mine DEF TryNext, CallInv
  <1>5. /\ c.inv = call[w].inv /\ c.doc = call[w].doc /\ c.entering = call[w].entering
        /\ c.pc \in {"allocate", "commit"} /\ c.applying = call[w].applying
    BY ONLY <1>1, <1>3 DEF CallOK, IsCall
  <1>6. call[w].inv \in Invoice /\ call[w].pc \in Plain
    BY <1>1 DEF CallOK, Plain, Place
  <1>7. UNCHANGED <<dbVars, lines, applied>>
    BY DEF FindCredit
  <1>8. IInv'
    BY FindCreditKeeps
  <1> QED
    BY <1>4, <1>5, <1>6, <1>7, <1>8, PlainMoney

\* Neither does a payment that is refused.
LEMMA RefusedMoney ==
    ASSUME IInv, MoneyInv, NEW w \in Worker, AllocateRefused(w)
    PROVE  MoneyInv'
  <1>1. CallOK(call[w]) /\ call[w].pc = "allocate"
    BY Mine DEF AllocateRefused, At
  <1>2. PICK c : c = [call[w] EXCEPT !.pc = "commit"]
    OBVIOUS
  <1>3. call' = [call EXCEPT ![w] = c]
    BY <1>2, Mine DEF AllocateRefused, Goto, CallInv
  <1>4. /\ c.inv = call[w].inv /\ c.doc = call[w].doc /\ c.entering = call[w].entering
        /\ c.pc \in {"allocate", "commit"} /\ c.applying = call[w].applying
    BY ONLY <1>1, <1>2 DEF CallOK, IsCall
  <1>5. call[w].inv \in Invoice /\ call[w].pc \in Plain
    BY <1>1 DEF CallOK, Plain, Place
  <1>6. UNCHANGED <<dbVars, lines, applied>>
    BY DEF AllocateRefused
  <1>7. IInv'
    BY RefusedKeeps
  <1> QED
    BY <1>3, <1>4, <1>5, <1>6, <1>7, PlainMoney

\* Nor does one that finds nothing open.
LEMMA NothingMoney ==
    ASSUME IInv, MoneyInv, NEW w \in Worker, AllocateNothing(w)
    PROVE  MoneyInv'
  <1>1. CallOK(call[w]) /\ call[w].pc = "allocate"
    BY Mine DEF AllocateNothing, At
  <1>2. PICK queue : TryNext(w, queue)
    BY DEF AllocateNothing
  <1>3. PICK c : c = [call[w] EXCEPT !.queue = queue, !.pc = IF queue = <<>> THEN "commit" ELSE "allocate"]
    OBVIOUS
  <1>4. call' = [call EXCEPT ![w] = c]
    BY <1>2, <1>3, Mine DEF TryNext, CallInv
  <1>5. /\ c.inv = call[w].inv /\ c.doc = call[w].doc /\ c.entering = call[w].entering
        /\ c.pc \in {"allocate", "commit"} /\ c.applying = call[w].applying
    BY ONLY <1>1, <1>3 DEF CallOK, IsCall
  <1>6. call[w].inv \in Invoice /\ call[w].pc \in Plain
    BY <1>1 DEF CallOK, Plain, Place
  <1>7. UNCHANGED <<dbVars, lines, applied>>
    BY DEF AllocateNothing
  <1>8. IInv'
    BY NothingKeeps
  <1> QED
    BY <1>4, <1>5, <1>6, <1>7, <1>8, PlainMoney

\* What is applied is at most what is open.
LEMMA SliceFits ==
    ASSUME NEW amount \in Int, amount >= 0, NEW open \in Int, open >= 0
    PROVE  Slice(amount, open) \in Nat /\ Slice(amount, open) <= open
  BY DEF Slice

\* The slice of a payment goes to the invoice and covers no more than its total.
LEMMA AllocateMoney ==
    ASSUME IInv, MoneyInv, NEW w \in Worker, Allocate(w)
    PROVE  MoneyInv'
  <1> DEFINE p == Head(call[w].queue)
  <1>1. CallOK(call[w]) /\ call[w].pc = "allocate" /\ Pay(w, p).state = "posted"
    BY Mine DEF Allocate, At
  <1>2. PICK i \in Invoice : i = call[w].inv
    BY <1>1 DEF CallOK
  <1>3. PICK s : s = Slice(Pay(w, p).amount, Open(w, i))
    OBVIOUS
  <1>4. PICK a : a = [call[w].applying EXCEPT ![<<p, i>>] = @ + s]
    OBVIOUS
  <1>5. PICK c : c = [call[w] EXCEPT !.pc = "residual", !.applying = a]
    OBVIOUS
  <1>6. call' = [call EXCEPT ![w] = c]
    <2>1. call' = [call EXCEPT ![w].pc = "residual", ![w].applying[<<p, i>>] = @ + s]
      BY <1>2, <1>3 DEF Allocate
    <2> QED
      BY ONLY <1>4, <1>5, <2>1
  <1>7. /\ c.inv = call[w].inv /\ c.doc = call[w].doc /\ c.entering = call[w].entering
        /\ c.pc = "residual" /\ c.applying = a
    BY ONLY <1>1, <1>5 DEF CallOK, IsCall
  <1>8. /\ Inv(w, i) \in InvoiceVersion
        /\ SumTo(Both(call[w].applying), i) \in Nat
        /\ ReconciledSum(i) \in Nat
        /\ Clearing(call[w]) \in Nat
        /\ Applies(call[w])
        /\ Handles(call[w], Inv(w, i), SumTo(Both(call[w].applying), i), ReconciledSum(i), lines[i])
    BY <1>2, MyMoney
  <1>9. PICK old \in [Payment \X Invoice -> Nat] : old = call[w].applying
    BY <1>8 DEF Applies
  <1>10. PICK sum \in Nat : sum = SumTo(Both(old), i)
    BY <1>8, <1>9
  <1>11. PICK v \in InvoiceVersion : v = Inv(w, i)
    BY <1>8
  <1>12. PICK total \in Nat : total = v.total
    BY DEF InvoiceVersion
  <1>13. PICK residual \in Int : residual = v.residual
    BY DEF InvoiceVersion
  <1>14. PICK b \in Nat : b = ReconciledSum(i) + Clearing(call[w])
    BY <1>8
  <1>15. /\ sum <= total /\ residual >= 0 /\ residual >= total - sum - b
         /\ v.paid = "paid" => total <= sum + b
         /\ total = lines[i]
    BY <1>1, <1>8, <1>9, <1>10, <1>11, <1>12, <1>13, <1>14 DEF Handles, Sound
  <1>16. Open(w, i) \in Int /\ Open(w, i) >= 0 /\ Open(w, i) <= total - sum
    <2>1. AppliedTo(w, i) = sum
      BY Mine, <1>9, <1>10, SumNames
    <2>2. Open(w, i) = IF Inv(w, i).state = "posted" THEN total - sum ELSE 0
      BY <2>1, <1>11, <1>12 DEF Open
    <2> QED
      BY <1>15, <2>2
  <1>17. p \in Payment => s \in Nat /\ s <= total - sum
    <2> SUFFICES ASSUME p \in Payment PROVE s \in Nat /\ s <= total - sum
      OBVIOUS
    <2>1. PICK amount \in Int : amount = Pay(w, p).amount
      BY <1>1, SeenRows, Mine DEF PaymentVersion
    <2>2. amount >= 0
      BY <1>1, <2>1 DEF MoneyInv, Accounts, Pay, Visible
    <2>3. PICK open \in Int : open = Open(w, i) /\ open >= 0 /\ open <= total - sum
      BY <1>16
    <2>4. s = Slice(amount, open)
      BY <1>3, <2>1, <2>3
    <2>5. s \in Nat /\ s <= open
      BY <2>2, <2>3, <2>4, SliceFits
    <2> QED
      BY <2>3, <2>5
  <1>18. /\ a \in [Payment \X Invoice -> Nat]
         /\ \A q \in Payment, k \in Invoice :
               a[<<q, k>>] = IF q = p /\ k = i THEN old[<<q, k>>] + s ELSE old[<<q, k>>]
    <2>1. a = [q \in Payment \X Invoice |-> IF q = <<p, i>> THEN old[q] + s ELSE old[q]]
      BY <1>4, <1>9
    <2>2. <<p, i>> \in Payment \X Invoice => p \in Payment
      OBVIOUS
    <2>3. \A q \in Payment \X Invoice : q = <<p, i>> => s \in Nat
      BY <1>17, <2>2
    <2>4. \A q \in Payment \X Invoice : (IF q = <<p, i>> THEN old[q] + s ELSE old[q]) \in Nat
      BY <2>3
    <2>5. a \in [Payment \X Invoice -> Nat]
      BY <2>1, <2>4
    <2>6. \A q \in Payment, k \in Invoice :
             a[<<q, k>>] = IF q = p /\ k = i THEN old[<<q, k>>] + s ELSE old[<<q, k>>]
      BY <2>1
    <2> QED
      BY <2>5, <2>6
  <1>19. PICK after \in Nat : after = SumTo(Both(a), i) /\ sum <= after /\ after <= total
    <2>1. Accounts
      BY DEF MoneyInv
    <2>2. Both(a) \in [Payment \X Invoice -> Nat] /\ Both(old) \in [Payment \X Invoice -> Nat]
      BY <1>18, <2>1, BothType
    <2>3. SumTo(Both(a), i) \in Nat
      BY <2>2, SumToType
    <2>4. CASE p \in Payment
      <3>1. \A q \in Payment : q # p => Both(a)[<<q, i>>] = Both(old)[<<q, i>>]
        BY <1>18 DEF Both
      <3>2. SumTo(Both(a), i) = SumTo(Both(old), i) + Both(a)[<<p, i>>] - Both(old)[<<p, i>>]
        BY <2>2, <2>4, <3>1, SumToGrows
      <3>3. applied[<<p, i>>] \in Nat /\ old[<<p, i>>] \in Nat
        BY <2>1, <2>4 DEF Accounts
      <3>4. Both(a)[<<p, i>>] = applied[<<p, i>>] + (old[<<p, i>>] + s)
            /\ Both(old)[<<p, i>>] = applied[<<p, i>>] + old[<<p, i>>]
        BY <1>18, <2>4 DEF Both
      <3>5. s \in Nat /\ s <= total - sum
        BY <1>17, <2>4
      <3>6. SumTo(Both(a), i) = sum + s
        BY <1>10, <3>2, <3>3, <3>4, <3>5
      <3> QED
        BY <2>3, <3>5, <3>6
    <2>5. CASE p \notin Payment
      <3>1. \A q \in Payment : Both(a)[<<q, i>>] = Both(old)[<<q, i>>]
        BY <1>18, <2>5 DEF Both
      <3>2. SumTo(Both(a), i) = SumTo(Both(old), i)
        BY <3>1, SumToSame
      <3> QED
        BY <1>10, <1>15, <3>2
    <2> QED
      BY <2>4, <2>5
  <1>20. Applies(c)
    <2>1. \A q \in Payment, k \in Invoice : a[<<q, k>>] # 0 => k = i
      BY <1>2, <1>8, <1>9, <1>18 DEF Applies
    <2> QED
      BY <1>2, <1>7, <1>18, <2>1 DEF Applies
  <1>21. Clearing(c) = Clearing(call[w])
    BY <1>7 DEF Clearing, Enters
  <1>22. Sound(v, after, b)
    <2>1. residual >= total - after - b
      BY <1>15, <1>19
    <2>2. v.paid = "paid" => total <= after + b
      BY <1>15, <1>19
    <2> QED
      BY <1>12, <1>13, <1>15, <1>19, <2>1, <2>2 DEF Sound
  <1>23. Handles(c, v, after, ReconciledSum(i), lines[i])
    BY <1>7, <1>12, <1>14, <1>15, <1>21, <1>22 DEF Handles
  <1>24. UNCHANGED dbVars /\ applied' = applied /\ lines' = lines
    BY DEF Allocate
  <1>25. IInv'
    BY AllocateKeeps
  <1>26. Handles(c, Inv(w, i), SumTo(Both(c.applying), i), ReconciledSum(i), lines[i])
    BY <1>7, <1>11, <1>19, <1>23
  <1> QED
    BY <1>2, <1>6, <1>7, <1>20, <1>24, <1>25, <1>26, GoesOnMoney

\* The residual is derived from what is applied.
LEMMA DeriveMoney ==
    ASSUME IInv, MoneyInv, NEW w \in Worker, DeriveResidual(w)
    PROVE  MoneyInv'
  <1>1. CallOK(call[w]) /\ call[w].pc = "residual"
    BY Mine DEF DeriveResidual, At
  <1>2. PICK i \in Invoice : i = call[w].inv
    BY <1>1 DEF CallOK
  <1>3. PICK residual : residual = Inv(w, i).total - AppliedTo(w, i)
    OBVIOUS
  <1>4. PICK status : status = IF residual = 0 THEN "paid"
                               ELSE IF residual = Inv(w, i).total THEN "not_paid" ELSE "partial"
    OBVIOUS
  <1>5. PICK c : c = [call[w] EXCEPT !.pc = "refresh", !.amount = residual, !.status = status]
    OBVIOUS
  <1>6. call' = [call EXCEPT ![w] = c]
    BY <1>2, <1>3, <1>4, <1>5, Mine DEF DeriveResidual, CallInv
  <1>7. /\ c.inv = call[w].inv /\ c.doc = call[w].doc /\ c.entering = call[w].entering
        /\ c.pc = "refresh" /\ c.amount = residual /\ c.status = status /\ c.applying = call[w].applying
    BY ONLY <1>1, <1>5 DEF CallOK, IsCall
  <1>8. /\ Applies(call[w])
        /\ Handles(call[w], Inv(w, i), SumTo(Both(call[w].applying), i), ReconciledSum(i), lines[i])
    BY <1>2, MyMoney
  <1>9. Clearing(c) = Clearing(call[w])
    BY <1>7 DEF Clearing, Enters
  <1>10. Applies(c)
    BY <1>7, <1>8 DEF Applies
  <1>11. AppliedTo(w, i) = SumTo(Both(c.applying), i)
    BY <1>7, Mine, SumNames
  <1>12. Handles(c, Inv(w, i), SumTo(Both(c.applying), i), ReconciledSum(i), lines[i])
    BY <1>1, <1>3, <1>4, <1>7, <1>8, <1>9, <1>11 DEF Handles
  <1>13. UNCHANGED dbVars /\ applied' = applied /\ lines' = lines
    BY DEF DeriveResidual
  <1>14. IInv'
    BY DeriveKeeps
  <1> QED
    BY <1>2, <1>6, <1>7, <1>10, <1>12, <1>13, <1>14, GoesOnMoney

\* The derived residual is backed by what is applied.
LEMMA ResidualMoney ==
    ASSUME IInv, MoneyInv, NEW w \in Worker, WriteResidual(w)
    PROVE  MoneyInv'
  <1>1. CallOK(call[w]) /\ call[w].pc = "refresh"
    BY Mine DEF WriteResidual, At
  <1>2. PICK i \in Invoice : i = call[w].inv
    BY <1>1 DEF CallOK
  <1>3. PICK v \in InvoiceVersion : v = live[InvoiceRow(i)]
    BY Mine DEF RowInv, RowOK
  <1>4. PICK residual \in Int : residual = call[w].amount
    BY <1>1 DEF CallOK
  <1>5. PICK paid \in Paid : paid = call[w].status
    BY <1>1 DEF CallOK
  <1>6. PICK version : version = [v EXCEPT !.residual = residual, !.paid = paid]
    OBVIOUS
  <1>7. version.total = v.total /\ version.residual = residual /\ version.paid = paid
    BY ONLY <1>6, v \in InvoiceVersion, residual \in Int, paid \in Paid DEF InvoiceVersion
  <1>8. Update(w, InvoiceRow(i), version)
    BY <1>2, <1>3, <1>4, <1>5, <1>6 DEF WriteResidual
  <1>9. v = Inv(w, i)
    BY <1>3, <1>8, LiveSeen
  <1>10. PICK queue : TryNext(w, queue)
    BY DEF WriteResidual
  <1>11. PICK c : c = [call[w] EXCEPT !.queue = queue, !.pc = IF queue = <<>> THEN "commit" ELSE "allocate"]
    OBVIOUS
  <1>12. call' = [call EXCEPT ![w] = c]
    BY <1>10, <1>11, Mine DEF TryNext, CallInv
  <1>13. /\ c.inv = call[w].inv /\ c.doc = call[w].doc /\ c.entering = call[w].entering
         /\ c.pc \in {"allocate", "commit"} /\ c.applying = call[w].applying
    BY ONLY <1>1, <1>11 DEF CallOK, IsCall
  <1>14. /\ SumTo(Both(call[w].applying), i) \in Nat
         /\ ReconciledSum(i) \in Nat
         /\ Clearing(call[w]) \in Nat
         /\ Applies(call[w])
         /\ Handles(call[w], v, SumTo(Both(call[w].applying), i), ReconciledSum(i), lines[i])
    BY <1>2, <1>9, MyMoney
  <1>15. PICK a \in Nat : a = SumTo(Both(call[w].applying), i)
    BY <1>14
  <1>16. PICK b \in Nat : b = ReconciledSum(i) + Clearing(call[w])
    BY <1>14
  <1>17. PICK total \in Nat : total = v.total
    BY DEF InvoiceVersion
  <1>18. /\ a <= total /\ residual = total - a /\ total = lines[i]
         /\ paid = (IF residual = 0 THEN "paid" ELSE IF residual = total THEN "not_paid" ELSE "partial")
    BY <1>1, <1>4, <1>5, <1>14, <1>15, <1>16, <1>17 DEF Handles, Sound
  <1>19. Clearing(c) = Clearing(call[w])
    BY <1>13 DEF Clearing, Enters
  <1>20. Applies(c)
    BY <1>13, <1>14 DEF Applies
  <1>21. Sound(version, a, b) /\ Settled(version, a)
    <2>1. residual >= 0 /\ residual >= total - a - b
      BY <1>18
    <2>2. paid = "paid" => total <= a + b
      BY <1>18
    <2>3. paid = "not_paid" => a = 0
      BY <1>18
    <2> QED
      BY <1>7, <1>17, <1>18, <2>1, <2>2, <2>3 DEF Sound, Settled
  <1>22. Handles(c, version, SumTo(Both(c.applying), i), ReconciledSum(i), lines[i])
    BY <1>7, <1>13, <1>15, <1>16, <1>17, <1>18, <1>19, <1>21 DEF Handles
  <1>23. applied' = applied /\ lines' = lines
    BY DEF WriteResidual
  <1>24. IInv'
    BY ResidualKeeps
  <1> QED
    BY <1>2, <1>8, <1>12, <1>13, <1>20, <1>22, <1>23, <1>24, UpdateMoney

\* recompute_totals, of lines that changed only while nothing was applied.
LEMMA TotalsMoney ==
    ASSUME IInv, MoneyInv, NEW w \in Worker, WriteTotals(w)
    PROVE  MoneyInv'
  <1>1. CallOK(call[w]) /\ call[w].pc = "totals"
    BY Mine DEF WriteTotals, At
  <1>2. PICK i \in Invoice : i = call[w].inv
    BY <1>1 DEF CallOK
  <1>3. PICK v \in InvoiceVersion : v = live[InvoiceRow(i)]
    BY Mine DEF RowInv, RowOK
  <1>4. PICK n \in Nat \ {0} : n = call[w].amount
    BY <1>1 DEF CallOK
  <1>5. PICK residual : residual = RecomputedResidual(n, call[w].status)
    OBVIOUS
  <1>6. PICK version : version = [v EXCEPT !.total = n, !.residual = residual]
    OBVIOUS
  <1>7. version.total = n /\ version.residual = residual /\ version.paid = v.paid
    BY ONLY <1>6, v \in InvoiceVersion DEF InvoiceVersion
  <1>8. Update(w, InvoiceRow(i), version)
    BY <1>2, <1>3, <1>4, <1>5, <1>6 DEF WriteTotals
  <1>9. v = Inv(w, i)
    BY <1>3, <1>8, LiveSeen
  <1>10. PICK c : c = [call[w] EXCEPT !.pc = "commit"]
    OBVIOUS
  <1>11. call' = [call EXCEPT ![w] = c]
    BY <1>10, Mine DEF WriteTotals, Goto, CallInv
  <1>12. /\ c.inv = call[w].inv /\ c.doc = call[w].doc /\ c.entering = call[w].entering
         /\ c.pc = "commit" /\ c.applying = call[w].applying
    BY ONLY <1>1, <1>10 DEF CallOK, IsCall
  <1>13. /\ SumTo(Both(call[w].applying), i) \in Nat
         /\ ReconciledSum(i) \in Nat
         /\ Clearing(call[w]) \in Nat
         /\ Applies(call[w])
         /\ Handles(call[w], v, SumTo(Both(call[w].applying), i), ReconciledSum(i), lines[i])
    BY <1>2, <1>9, MyMoney
  <1>14. PICK a \in Nat : a = SumTo(Both(call[w].applying), i)
    BY <1>13
  <1>15. PICK b \in Nat : b = ReconciledSum(i) + Clearing(call[w])
    BY <1>13
  <1>16. PICK total \in Nat : total = v.total
    BY DEF InvoiceVersion
  <1>17. /\ a <= total
         /\ v.paid = "paid" => total <= a + b
         /\ v.paid = "not_paid" => a = 0
         /\ total = n \/ v.paid = "not_paid"
         /\ n = lines[i] /\ call[w].status = v.paid
    BY <1>1, <1>4, <1>13, <1>14, <1>15, <1>16 DEF Handles, Sound, Settled
  <1>18. residual = IF v.paid \in {"not_paid", "partial"} THEN n ELSE 0
    BY <1>5, <1>17 DEF RecomputedResidual
  <1>19. v.paid \in {"not_paid", "partial", "paid"}
    BY DEF InvoiceVersion, Paid
  <1>20. Clearing(c) = Clearing(call[w])
    BY <1>12 DEF Clearing, Enters
  <1>21. Applies(c)
    BY <1>12, <1>13 DEF Applies
  <1>22. Sound(version, a, b) /\ Settled(version, a)
    <2>1. CASE v.paid = "not_paid"
      <3>1. a = 0 /\ residual = n
        BY <1>17, <1>18, <2>1
      <3>2. a <= n /\ residual >= 0 /\ residual >= n - a - b
        BY ONLY <3>1, a \in Nat, b \in Nat, n \in Nat \ {0}
      <3> QED
        BY <1>7, <2>1, <3>1, <3>2 DEF Sound, Settled
    <2>2. CASE v.paid = "partial"
      <3>1. a <= n /\ residual = n
        BY <1>17, <1>18, <2>2
      <3>2. residual >= 0 /\ residual >= n - a - b
        BY ONLY <3>1, a \in Nat, b \in Nat, n \in Nat \ {0}
      <3> QED
        BY <1>7, <2>2, <3>1, <3>2 DEF Sound, Settled
    <2>3. CASE v.paid = "paid"
      <3>1. a <= n /\ residual = 0 /\ n <= a + b
        BY <1>17, <1>18, <2>3
      <3>2. residual >= 0 /\ residual >= n - a - b
        BY ONLY <3>1, a \in Nat, b \in Nat, n \in Nat \ {0}
      <3> QED
        BY <1>7, <2>3, <3>1, <3>2 DEF Sound, Settled
    <2> QED
      BY <1>19, <2>1, <2>2, <2>3
  <1>23. Handles(c, version, SumTo(Both(c.applying), i), ReconciledSum(i), lines[i])
    BY <1>7, <1>12, <1>14, <1>15, <1>17, <1>20, <1>22 DEF Handles
  <1>24. applied' = applied /\ lines' = lines
    BY DEF WriteTotals
  <1>25. IInv'
    BY TotalsKeeps
  <1> QED
    BY <1>2, <1>8, <1>11, <1>12, <1>21, <1>23, <1>24, <1>25, UpdateMoney

\* A state switch leaves the money of the invoice.
LEMMA SwitchMoney ==
    ASSUME IInv, MoneyInv, IInv', NEW w \in Worker, NEW i \in Invoice, NEW from, NEW version,
           SwitchState(w, i, from, version), OneRequestPerDocument,
           version.total = live[InvoiceRow(i)].total,
           version.residual = live[InvoiceRow(i)].residual,
           version.paid = live[InvoiceRow(i)].paid
    PROVE  MoneyInv'
  <1>1. PICK c : c = [Idle EXCEPT !.pc = "commit", !.docs = {i}, !.inv = i]
    OBVIOUS
  <1>2. c.pc = "commit" /\ c.inv = i /\ c.applying = NothingApplied /\ c.entering = <<>>
    BY <1>1 DEF Idle
  <1>3. /\ call[w] = Idle /\ Update(w, InvoiceRow(i), version) /\ call' = [call EXCEPT ![w] = c]
        /\ applied' = applied /\ lines' = lines /\ \A v \in Worker : i \notin call[v].docs
    BY <1>1 DEF SwitchState
  <1>4. \A v \in Worker : call[v].inv # i
    <2> SUFFICES ASSUME NEW v \in Worker, call[v].inv = i PROVE FALSE
      OBVIOUS
    <2>1. i \in call[v].docs
      BY Mine DEF CallOK
    <2> QED
      BY <1>3, <2>1
  <1>5. /\ ReconciledSum(i) \in Nat
        /\ Sound(Inv(w, i), SumTo(Both(NothingApplied), i), ReconciledSum(i))
        /\ Settled(Inv(w, i), SumTo(Both(NothingApplied), i))
        /\ Inv(w, i).total = lines[i]
    BY <1>3, <1>4, FreshMoney
  <1>6. live[InvoiceRow(i)] = Inv(w, i)
    BY <1>3, LiveSeen
  <1>7. Clearing(c) = 0
    BY <1>2 DEF Clearing, Enters
  <1>8. ReconciledSum(i) + Clearing(c) = ReconciledSum(i)
    BY <1>5, <1>7
  <1>9. Handles(c, version, SumTo(Both(c.applying), i), ReconciledSum(i), lines[i])
    BY <1>2, <1>5, <1>6, <1>8 DEF Handles, Sound, Settled
  <1>10. Applies(c)
    BY <1>2, AppliesNothing
  <1>11. call[w].inv \notin Invoice
    BY <1>3, IdleOK, NoInvoiceIn
  <1> QED
    BY <1>2, <1>3, <1>9, <1>10, <1>11, UpdateMoney

\* Cancelling leaves it.
LEMMA CancelMoney ==
    ASSUME IInv, MoneyInv, OneRequestPerDocument, NEW w \in Worker, NEW i \in Invoice, Cancel(w, i)
    PROVE  MoneyInv'
  <1>1. PICK old \in InvoiceVersion : old = live[InvoiceRow(i)]
    BY Mine DEF RowInv, RowOK
  <1>2. PICK version : version = [old EXCEPT !.state = "cancel"]
    OBVIOUS
  <1>3. SwitchState(w, i, "posted", version)
    BY <1>1, <1>2 DEF Cancel
  <1>4. version.total = old.total /\ version.residual = old.residual /\ version.paid = old.paid
    BY ONLY <1>2, old \in InvoiceVersion DEF InvoiceVersion
  <1>5. IInv'
    BY CancelKeeps
  <1> QED
    BY <1>1, <1>3, <1>4, <1>5, SwitchMoney

\* So does resetting to draft.
LEMMA ResetMoney ==
    ASSUME IInv, MoneyInv, OneRequestPerDocument, NEW w \in Worker, NEW i \in Invoice, ResetToDraft(w, i)
    PROVE  MoneyInv'
  <1>1. PICK old \in InvoiceVersion : old = live[InvoiceRow(i)]
    BY Mine DEF RowInv, RowOK
  <1>2. PICK version : version = [old EXCEPT !.state = "draft", !.number = 0]
    OBVIOUS
  <1>3. SwitchState(w, i, "cancel", version)
    BY <1>1, <1>2 DEF ResetToDraft
  <1>4. version.total = old.total /\ version.residual = old.residual /\ version.paid = old.paid
    BY ONLY <1>2, old \in InvoiceVersion DEF InvoiceVersion
  <1>5. IInv'
    BY ResetKeeps
  <1> QED
    BY <1>1, <1>3, <1>4, <1>5, SwitchMoney

\* Drawing the number touches no invoice.
LEMMA DrawMoney ==
    ASSUME IInv, MoneyInv, NEW w \in Worker, DrawNumber(w)
    PROVE  MoneyInv'
  <1>1. CallOK(call[w]) /\ call[w].pc = "number"
    BY Mine DEF DrawNumber, At
  <1>2. PICK i \in Invoice : i = call[w].inv
    BY <1>1 DEF CallOK
  <1>3. PICK n : n = live[InvSequence].next
    OBVIOUS
  <1>4. PICK new : new = [s \in {InvSequence} |-> [next |-> n + 1]]
    OBVIOUS
  <1>5. PICK c : c = [call[w] EXCEPT !.amount = n, !.pc = "post"]
    OBVIOUS
  <1>6. /\ Write(w, new) /\ call' = [call EXCEPT ![w] = c] /\ applied' = applied /\ lines' = lines
    BY <1>3, <1>4, <1>5, Mine DEF DrawNumber, Update, CallInv
  <1>7. /\ c.inv = call[w].inv /\ c.doc = call[w].doc /\ c.entering = call[w].entering
        /\ c.pc = "post" /\ c.applying = call[w].applying
    BY ONLY <1>1, <1>5 DEF CallOK, IsCall
  <1>8. /\ Applies(call[w])
        /\ Handles(call[w], Inv(w, i), SumTo(Both(call[w].applying), i), ReconciledSum(i), lines[i])
    BY <1>2, MyMoney
  <1>9. /\ InvoiceRow(i) \notin DOMAIN new
        /\ \A p \in Payment : PaymentRow(p) \notin DOMAIN new
    BY <1>4, RowNames
  <1>10. Clearing(c) = Clearing(call[w])
    BY <1>7 DEF Clearing, Enters
  <1>11. Applies(c)
    BY <1>1, <1>7, <1>8 DEF Applies
  <1>12. call[w].pc \in Plain /\ c.pc \in Plain
    BY <1>1, <1>7 DEF Plain, Place
  <1>13. Handles(c, Inv(w, i), SumTo(Both(c.applying), i), ReconciledSum(i), lines[i])
    BY <1>7, <1>8, <1>10, <1>12, StillHandles
  <1>14. IInv'
    BY DrawKeeps
  <1>15. Inv(w, i) = IF InvoiceRow(i) \in DOMAIN new THEN new[InvoiceRow(i)] ELSE Inv(w, i)
    BY <1>9
  <1> QED
    BY <1>2, <1>6, <1>7, <1>9, <1>11, <1>13, <1>14, <1>15, WriteMoney

\* Posting writes the state and the number.
LEMMA PostedMoney ==
    ASSUME IInv, MoneyInv, NEW w \in Worker, WritePosted(w)
    PROVE  MoneyInv'
  <1>1. CallOK(call[w]) /\ call[w].pc = "post"
    BY Mine DEF WritePosted, At
  <1>2. PICK i \in Invoice : i = call[w].inv
    BY <1>1 DEF CallOK
  <1>3. PICK old \in InvoiceVersion : old = live[InvoiceRow(i)]
    BY Mine DEF RowInv, RowOK
  <1>4. PICK version : version = [old EXCEPT !.state = "posted", !.number = call[w].amount]
    OBVIOUS
  <1>5. version.total = old.total /\ version.residual = old.residual /\ version.paid = old.paid
    BY ONLY <1>4, old \in InvoiceVersion DEF InvoiceVersion
  <1>6. PICK c : c = [call[w] EXCEPT !.pc = "credit"]
    OBVIOUS
  <1>7. /\ Update(w, InvoiceRow(i), version) /\ call' = [call EXCEPT ![w] = c]
        /\ applied' = applied /\ lines' = lines
    BY <1>2, <1>3, <1>4, <1>6, Mine DEF WritePosted, Goto, CallInv
  <1>8. /\ c.inv = call[w].inv /\ c.doc = call[w].doc /\ c.entering = call[w].entering
        /\ c.pc = "credit" /\ c.applying = call[w].applying
    BY ONLY <1>1, <1>6 DEF CallOK, IsCall
  <1>9. old = Inv(w, i)
    BY <1>3, <1>7, LiveSeen
  <1>10. /\ Applies(call[w])
         /\ Handles(call[w], old, SumTo(Both(call[w].applying), i), ReconciledSum(i), lines[i])
    BY <1>2, <1>9, MyMoney
  <1>11. Clearing(c) = Clearing(call[w])
    BY <1>8 DEF Clearing, Enters
  <1>12. Applies(c)
    BY <1>1, <1>8, <1>10 DEF Applies
  <1>13. call[w].pc \in Plain /\ c.pc \in Plain
    BY <1>1, <1>8 DEF Plain, Place
  <1>14. Handles(c, version, SumTo(Both(c.applying), i), ReconciledSum(i), lines[i])
    BY <1>5, <1>8, <1>10, <1>11, <1>13, StillHandles
  <1>15. IInv'
    BY PostedKeeps
  <1> QED
    BY <1>2, <1>7, <1>8, <1>12, <1>14, <1>15, UpdateMoney

\* Booking a payment changes its state, not its amount.
LEMMA BookMoney ==
    ASSUME IInv, MoneyInv, NEW w \in Worker, BookPayment(w)
    PROVE  MoneyInv'
  <1>1. CallOK(call[w]) /\ call[w].pc = "book" /\ LockOK(w) /\ PaymentOK(w, call[w].doc)
    BY Mine DEF BookPayment, At, CallOK
  <1>2. PICK p \in Payment : p = call[w].doc
    BY <1>1 DEF CallOK
  <1>3. call[w].entering = <<>>
    BY <1>1 DEF CallOK
  <1>4. PICK old \in PaymentVersion : old = live[PaymentRow(p)]
    BY Mine DEF RowInv, RowOK
  <1>5. PICK version : version = [old EXCEPT !.state = "posted"]
    OBVIOUS
  <1>6. PICK new : new = [s \in {PaymentRow(p)} |-> version]
    OBVIOUS
  <1>7. PICK e : e = [journal |-> old.journal, number |-> call[w].amount, of |-> p]
    OBVIOUS
  <1>8. PICK s : s = Append(call[w].entering, e)
    OBVIOUS
  <1>9. PICK c : c = [call[w] EXCEPT !.pc = "commit", !.entering = s]
    OBVIOUS
  <1>10. /\ Write(w, new) /\ Update(w, PaymentRow(p), version)
         /\ call' = [call EXCEPT ![w] = c] /\ applied' = applied /\ lines' = lines
    BY <1>2, <1>4, <1>5, <1>6, <1>7, <1>8, <1>9, Mine DEF BookPayment, Update, CallInv
  <1>11. /\ c.inv = call[w].inv /\ c.doc = call[w].doc /\ c.entering = s
         /\ c.pc = "commit" /\ c.applying = call[w].applying
    BY ONLY <1>1, <1>9 DEF CallOK, IsCall
  <1>12. old.state = "draft" /\ old.amount >= 0
    <2>1. lock[PaymentRow(p)] \in {w, NoTxn} /\ lock[PaymentRow(p)] # w
      BY <1>1, <1>10, PaymentUpdate, Mine, HoldsNothing
    <2>2. live[PaymentRow(p)] = committed[PaymentRow(p)]
      BY <2>1, RowsThere, FreeRow
    <2>3. old.state = "draft"
      BY <1>1, <1>2, <1>4, <2>2 DEF PaymentOK
    <2> QED
      BY <1>4, <2>3 DEF MoneyInv, Accounts
  <1>13. version.amount >= 0
    <2>1. old \in [state : {"draft", "posted", "cancelled"}, amount : Int, journal : Journal]
      BY <1>12 DEF PaymentVersion
    <2>2. version.amount = old.amount
      BY ONLY <1>5, <2>1
    <2> QED
      BY <1>12, <2>2
  <1>14. \A q \in Payment : PaymentRow(q) \in DOMAIN new /\ new[PaymentRow(q)].state # "absent"
                              => new[PaymentRow(q)].amount >= 0
    BY <1>6, <1>13
  <1>15. \A i \in Invoice : InvoiceRow(i) \notin DOMAIN new
    BY <1>6, RowNames
  <1>16. Applies(c)
    <2>1. Applies(call[w])
      BY DEF MoneyInv, MoneyOK
    <2>2. \A q \in Payment, k \in Invoice : call[w].applying[<<q, k>>] = 0
      BY <1>1, <2>1 DEF Applies
    <2> QED
      BY <1>11, <2>1, <2>2 DEF Applies
  <1>17. e.of = p /\ s[1] = e
    <2>1. Append(<<>>, e)[1] = e
      OBVIOUS
    <2> QED
      BY <1>3, <1>7, <1>8, <2>1
  <1>18. Clearing(c) = 0 /\ Clearing(call[w]) = 0
    BY <1>3, <1>11, <1>17, InvoicingAssumption DEF Clearing, Enters
  <1>19. IInv'
    BY BookKeeps
  <1>20. ASSUME NEW i \in Invoice, c.inv = i
         PROVE  Handles(c, Inv(w, i)', SumTo(Both(c.applying), i), ReconciledSum(i), lines'[i])
    <2>1. Handles(call[w], Inv(w, i), SumTo(Both(call[w].applying), i), ReconciledSum(i), lines[i])
      BY <1>11, <1>20, MyMoney
    <2>2. Inv(w, i)' = Inv(w, i)
      BY <1>10, <1>15, Mine, SeenAfter
    <2>3. call[w].pc \in Plain /\ c.pc \in Plain
      BY <1>1, <1>11 DEF Plain, Place
    <2>4. Handles(c, Inv(w, i), SumTo(Both(call[w].applying), i), ReconciledSum(i), lines[i])
      BY <1>18, <2>1, <2>3, StillHandles
    <2> QED
      BY <1>10, <1>11, <2>2, <2>4
  <1>21. /\ \A k \in Invoice : k # c.inv => lines'[k] = lines[k]
         /\ call[w].inv \in Invoice => c.inv = call[w].inv
    BY <1>10, <1>11
  <1> QED
    BY <1>10, <1>14, <1>16, <1>19, <1>20, <1>21, MoneyServes

\* Neither does cancelling one.
LEMMA CancelPaymentMoney ==
    ASSUME IInv, MoneyInv, OneRequestPerDocument, NEW w \in Worker, NEW p \in Payment, CancelPayment(w, p)
    PROVE  MoneyInv'
  <1>1. PICK old \in PaymentVersion : old = live[PaymentRow(p)]
    BY Mine DEF RowInv, RowOK
  <1>2. PICK version : version = [old EXCEPT !.state = "cancelled"]
    OBVIOUS
  <1>3. PICK new : new = [s \in {PaymentRow(p)} |-> version]
    OBVIOUS
  <1>4. PICK c : c = [Idle EXCEPT !.pc = "commit", !.docs = {p}]
    OBVIOUS
  <1>5. c.pc = "commit" /\ c.inv = NoInvoice /\ c.applying = NothingApplied
    BY <1>4 DEF Idle
  <1>6. /\ call[w] = Idle /\ Write(w, new) /\ call' = [call EXCEPT ![w] = c]
        /\ applied' = applied /\ lines' = lines /\ old.state \in {"draft", "posted"}
    BY <1>1, <1>2, <1>3, <1>4 DEF CancelPayment, Update
  <1>7. version.amount >= 0
    <2>1. old \in [state : {"draft", "posted", "cancelled"}, amount : Int, journal : Journal]
      BY <1>6 DEF PaymentVersion
    <2>2. version.amount = old.amount
      BY ONLY <1>2, <2>1
    <2>3. old.amount >= 0
      BY <1>1, <1>6 DEF MoneyInv, Accounts
    <2> QED
      BY <2>2, <2>3
  <1>8. \A q \in Payment : PaymentRow(q) \in DOMAIN new /\ new[PaymentRow(q)].state # "absent"
                             => new[PaymentRow(q)].amount >= 0
    BY <1>3, <1>7
  <1>9. Applies(c)
    BY <1>5, AppliesNothing
  <1>10. call[w].inv \notin Invoice /\ c.inv \notin Invoice
    BY <1>5, <1>6, IdleOK, NoInvoiceIn
  <1>11. IInv'
    BY CancelPaymentKeeps
  <1> QED
    BY <1>6, <1>8, <1>9, <1>10, <1>11, OffInvoice

\* A registered payment is posted with the amount the request computed.
LEMMA EnterMoney ==
    ASSUME IInv, MoneyInv, NEW w \in Worker, EnterPayment(w)
    PROVE  MoneyInv'
  <1>1. CallOK(call[w]) /\ call[w].pc = "enter"
    BY Mine DEF EnterPayment, At
  <1>2. PICK j \in Journal : j = call[w].doc
    BY <1>1 DEF CallOK
  <1>3. PICK i \in Invoice : i = call[w].inv
    BY <1>1 DEF CallOK
  <1>4. PICK p \in Payment : p = NextPayment
    BY NextAbsent DEF EnterPayment
  <1>5. PICK n : n = live[SequenceRow(j)].next
    OBVIOUS
  <1>6. PICK version : version = [state |-> "posted", amount |-> call[w].amount, journal |-> j]
    OBVIOUS
  <1>7. PICK new : new = [r \in {PaymentRow(p), SequenceRow(j)} |->
                            IF r = SequenceRow(j) THEN [next |-> n + 1] ELSE version]
    OBVIOUS
  <1>8. PICK e : e = [journal |-> j, number |-> n, of |-> p]
    OBVIOUS
  <1>9. PICK s : s = Append(call[w].entering, e)
    OBVIOUS
  <1>10. PICK c : c = [call[w] EXCEPT !.entering = s, !.queue = <<p>>, !.pc = "allocate"]
    OBVIOUS
  <1>11. Write(w, new) /\ applied' = applied /\ lines' = lines
    BY <1>2, <1>4, <1>5, <1>6, <1>7 DEF EnterPayment
  <1>12. call' = [call EXCEPT ![w] = c]
    BY <1>2, <1>4, <1>5, <1>8, <1>9, <1>10, Mine DEF EnterPayment, CallInv
  <1>13. /\ c.inv = call[w].inv /\ c.doc = call[w].doc /\ c.entering = s
         /\ c.pc = "allocate" /\ c.applying = call[w].applying
    BY ONLY <1>1, <1>10 DEF CallOK, IsCall
  <1>14. /\ Applies(call[w])
         /\ Handles(call[w], Inv(w, i), SumTo(Both(call[w].applying), i), ReconciledSum(i), lines[i])
    BY <1>3, MyMoney
  <1>15. version.amount >= 0
    BY <1>1, <1>6, <1>14 DEF Applies
  <1>16. \A q \in Payment : PaymentRow(q) \in DOMAIN new /\ new[PaymentRow(q)].state # "absent"
                              => new[PaymentRow(q)].amount >= 0
    <2> SUFFICES ASSUME NEW q \in Payment, PaymentRow(q) \in DOMAIN new
                 PROVE  new[PaymentRow(q)].amount >= 0
      OBVIOUS
    <2>1. PaymentRow(q) # SequenceRow(j)
      BY RowNames
    <2>2. new[PaymentRow(q)] = version
      BY <1>7, <2>1
    <2> QED
      BY <1>15, <2>2
  <1>17. InvoiceRow(i) \notin DOMAIN new
    BY <1>7, RowNames
  <1>18. call[w].entering = <<>> /\ e.of = p /\ s[1] = e
    <2>1. call[w].entering = <<>>
      BY <1>1 DEF CallOK
    <2>2. Append(<<>>, e)[1] = e
      OBVIOUS
    <2> QED
      BY <1>8, <1>9, <2>1, <2>2
  <1>19. Clearing(c) = 0 /\ Clearing(call[w]) = 0
    BY <1>13, <1>18, InvoicingAssumption DEF Clearing, Enters
  <1>20. Applies(c)
    BY <1>1, <1>13, <1>14 DEF Applies
  <1>21. call[w].pc \in Plain /\ c.pc \in Plain
    BY <1>1, <1>13 DEF Plain, Place
  <1>22. Handles(c, Inv(w, i), SumTo(Both(c.applying), i), ReconciledSum(i), lines[i])
    BY <1>13, <1>14, <1>19, <1>21, StillHandles
  <1>23. IInv'
    BY EnterKeeps
  <1>24. Inv(w, i) = IF InvoiceRow(i) \in DOMAIN new THEN new[InvoiceRow(i)] ELSE Inv(w, i)
    BY <1>17
  <1> QED
    BY <1>3, <1>11, <1>12, <1>13, <1>16, <1>20, <1>22, <1>23, <1>24, WriteMoney

\* Bank reconciliation lowers the residual by what the line clears.
LEMMA ClearMoney ==
    ASSUME IInv, MoneyInv, NEW w \in Worker, ClearInvoice(w)
    PROVE  MoneyInv'
  <1>1. CallOK(call[w]) /\ call[w].pc = "clear"
    BY Mine DEF ClearInvoice, At
  <1>2. PICK l \in StatementLine : l = call[w].doc
    BY <1>1 DEF CallOK
  <1>3. PICK i \in Invoice : i = call[w].inv
    BY <1>1 DEF CallOK
  <1>4. PICK amount \in Nat : amount = amountOf[l]
    BY InvoicingAssumption
  <1>5. PICK old \in InvoiceVersion : old = live[InvoiceRow(i)]
    BY Mine DEF RowInv, RowOK
  <1>6. PICK before \in Int : before = old.residual
    BY DEF InvoiceVersion
  <1>7. PICK residual \in Int : residual = Cleared(before, amount)
    <2>1. Cleared(before, amount) \in Int
      BY DEF Cleared
    <2> QED
      BY <2>1
  <1>8. PICK paid \in Paid : paid = IF before - amount <= 0 THEN "paid" ELSE "partial"
    BY DEF Paid
  <1>9. PICK version : version = [old EXCEPT !.residual = residual, !.paid = paid]
    OBVIOUS
  <1>10. version.total = old.total /\ version.residual = residual /\ version.paid = paid
    BY ONLY <1>9, old \in InvoiceVersion, residual \in Int, paid \in Paid DEF InvoiceVersion
  <1>11. PICK e : e = [journal |-> journalOf[l], number |-> 0, of |-> l]
    OBVIOUS
  <1>12. PICK s : s = Append(call[w].entering, e)
    OBVIOUS
  <1>13. PICK c : c = [call[w] EXCEPT !.pc = "mark", !.entering = s]
    OBVIOUS
  <1>14. Update(w, InvoiceRow(i), version) /\ applied' = applied /\ lines' = lines
    BY <1>2, <1>3, <1>4, <1>5, <1>6, <1>7, <1>8, <1>9 DEF ClearInvoice
  <1>15. call' = [call EXCEPT ![w] = c]
    BY <1>2, <1>11, <1>12, <1>13, Mine DEF ClearInvoice, CallInv
  <1>16. /\ c.inv = call[w].inv /\ c.doc = call[w].doc /\ c.entering = s
         /\ c.pc = "mark" /\ c.applying = call[w].applying
    BY ONLY <1>1, <1>13 DEF CallOK, IsCall
  <1>17. old = Inv(w, i)
    BY <1>5, <1>14, LiveSeen
  <1>18. /\ SumTo(Both(call[w].applying), i) \in Nat
         /\ ReconciledSum(i) \in Nat
         /\ Applies(call[w])
         /\ Handles(call[w], old, SumTo(Both(call[w].applying), i), ReconciledSum(i), lines[i])
    BY <1>3, <1>17, MyMoney
  <1>19. PICK a \in Nat : a = SumTo(Both(call[w].applying), i)
    BY <1>18
  <1>20. PICK b \in Nat : b = ReconciledSum(i)
    BY <1>18
  <1>21. PICK total \in Nat : total = old.total
    BY DEF InvoiceVersion
  <1>22. call[w].entering = <<>> /\ e.of = l /\ s # <<>> /\ s[1] = e
    <2>1. call[w].entering = <<>>
      BY <1>1 DEF CallOK
    <2>2. Append(<<>>, e)[1] = e /\ Append(<<>>, e) # <<>>
      OBVIOUS
    <2> QED
      BY <1>11, <1>12, <2>1, <2>2
  <1>23. Clearing(call[w]) = 0 /\ Clearing(c) = amount
    BY <1>2, <1>4, <1>16, <1>22 DEF Clearing, Enters
  <1>24. /\ a <= total /\ before >= 0 /\ before >= total - a - b /\ total = lines[i]
    BY <1>1, <1>6, <1>18, <1>19, <1>20, <1>21, <1>23 DEF Handles, Sound
  <1>25. /\ residual >= 0 /\ residual >= total - a - (b + amount)
         /\ paid = "paid" => total <= a + (b + amount)
         /\ paid # "not_paid"
    BY <1>7, <1>8, <1>24 DEF Cleared
  <1>26. Sound(version, a, b + Clearing(c)) /\ Settled(version, a)
    BY <1>10, <1>21, <1>23, <1>24, <1>25 DEF Sound, Settled
  <1>27. Handles(c, version, SumTo(Both(c.applying), i), ReconciledSum(i), lines[i])
    BY <1>10, <1>16, <1>19, <1>20, <1>21, <1>24, <1>26 DEF Handles
  <1>28. Applies(c)
    BY <1>1, <1>16, <1>18 DEF Applies
  <1>29. IInv'
    BY ClearKeeps
  <1> QED
    BY <1>3, <1>14, <1>15, <1>16, <1>27, <1>28, <1>29, UpdateMoney

\* Marking the line changes neither the invoice nor a payment.
LEMMA MarkMoney ==
    ASSUME IInv, MoneyInv, NEW w \in Worker, MarkReconciled(w)
    PROVE  MoneyInv'
  <1>1. CallOK(call[w]) /\ call[w].pc = "mark"
    BY Mine DEF MarkReconciled, At
  <1>2. PICK i \in Invoice : i = call[w].inv
    BY <1>1 DEF CallOK
  <1>3. PICK new : new = [s \in {LineRow(call[w].doc)} |-> [reconciled |-> i]]
    OBVIOUS
  <1>4. PICK c : c = [call[w] EXCEPT !.pc = "commit"]
    OBVIOUS
  <1>5. /\ Write(w, new) /\ call' = [call EXCEPT ![w] = c] /\ applied' = applied /\ lines' = lines
    BY <1>2, <1>3, <1>4, Mine DEF MarkReconciled, Update, Goto, CallInv
  <1>6. /\ c.inv = call[w].inv /\ c.doc = call[w].doc /\ c.entering = call[w].entering
        /\ c.pc = "commit" /\ c.applying = call[w].applying
    BY ONLY <1>1, <1>4 DEF CallOK, IsCall
  <1>7. /\ Applies(call[w])
        /\ Handles(call[w], Inv(w, i), SumTo(Both(call[w].applying), i), ReconciledSum(i), lines[i])
    BY <1>2, MyMoney
  <1>8. /\ InvoiceRow(i) \notin DOMAIN new
        /\ \A p \in Payment : PaymentRow(p) \notin DOMAIN new
    BY <1>3, RowNames
  <1>9. Clearing(c) = Clearing(call[w])
    BY <1>6 DEF Clearing, Enters
  <1>10. Applies(c)
    BY <1>1, <1>6, <1>7 DEF Applies
  <1>11. call[w].pc \in Plain /\ c.pc \in Plain
    BY <1>1, <1>6 DEF Plain, Place
  <1>12. Handles(c, Inv(w, i), SumTo(Both(c.applying), i), ReconciledSum(i), lines[i])
    BY <1>6, <1>7, <1>9, <1>11, StillHandles
  <1>13. IInv'
    BY MarkKeeps
  <1>14. Inv(w, i) = IF InvoiceRow(i) \in DOMAIN new THEN new[InvoiceRow(i)] ELSE Inv(w, i)
    BY <1>8
  <1> QED
    BY <1>2, <1>5, <1>6, <1>8, <1>10, <1>12, <1>13, <1>14, WriteMoney

\* What a COMMIT does to the rows and the inserts.
LEMMA CommitEffect ==
    ASSUME IInv, MoneyInv, NEW w \in Worker, Commit(w)
    PROVE  /\ call[w].pc = "commit"
           /\ call'[w] = Idle /\ \A v \in Worker : v # w => call'[v] = call[v]
           /\ applied' = Both(call[w].applying)
           /\ lines' = lines /\ live' = live
           /\ \A r \in Row : committed'[r] = IF lock[r] = w THEN live[r] ELSE committed[r]
           /\ \A r \in Row : \A v \in Worker : v # w => (lock'[r] = v <=> lock[r] = v)
  <1>1. RowInv /\ CallInv /\ applied \in [Payment \X Invoice -> Int]
    BY Mine DEF RowInv
  <1>2. /\ \A r \in Row : committed'[r] = IF lock[r] = w THEN live[r] ELSE committed[r]
        /\ \A r \in Row : lock'[r] = IF lock[r] = w THEN NoTxn ELSE lock[r]
        /\ live' = live
    BY <1>1, CommitRows DEF Commit
  <1>3. call'[w] = Idle /\ \A v \in Worker : v # w => call'[v] = call[v]
    BY <1>1 DEF Commit, CallInv
  <1>4. applied' = Both(call[w].applying)
    BY <1>1 DEF Commit, Both
  <1>5. \A r \in Row : \A v \in Worker : v # w => (lock'[r] = v <=> lock[r] = v)
    BY <1>2, NoTxnAssumption
  <1> QED
    BY <1>2, <1>3, <1>4, <1>5 DEF Commit, At

\* A COMMIT adds what its request has cleared of its invoice.
LEMMA CommitClears ==
    ASSUME IInv, MoneyInv, NEW w \in Worker, Commit(w), NEW k \in Invoice
    PROVE  ReconciledSum(k)' = IF call[w].inv = k THEN ReconciledSum(k) + Clearing(call[w])
                                                  ELSE ReconciledSum(k)
  <1>1. /\ call[w].pc = "commit"
        /\ \A l \in StatementLine : committed'[LineRow(l)] = IF lock[LineRow(l)] = w THEN live[LineRow(l)]
                                                                                  ELSE committed[LineRow(l)]
    BY CommitEffect, RowsThere
  <1>2. \A l \in StatementLine : LineOK(w, l)
    BY Mine
  <1>3. PICK f : f = [l \in StatementLine |-> IF committed[LineRow(l)].reconciled = k THEN amountOf[l] ELSE 0]
    OBVIOUS
  <1>4. PICK g : g = [l \in StatementLine |-> IF committed'[LineRow(l)].reconciled = k THEN amountOf[l] ELSE 0]
    OBVIOUS
  <1>5. ReconciledSum(k) = SumFunction(f) /\ ReconciledSum(k)' = SumFunction(g)
    BY <1>3, <1>4 DEF ReconciledSum
  <1>6. \A l \in StatementLine : amountOf[l] \in Int
    BY InvoicingAssumption
  <1>7. f \in [StatementLine -> Int] /\ g \in [StatementLine -> Int]
    BY <1>3, <1>4, <1>6
  <1>8. IsFiniteSet(StatementLine)
    BY InvoicingAssumption
  <1>9. SumFunction(f) \in Int
    BY <1>7, <1>8, SumFunctionType
  <1>10. CASE \E l \in StatementLine : lock[LineRow(l)] = w
    <2>1. PICK l \in StatementLine : lock[LineRow(l)] = w
      BY <1>10
    <2>2. /\ Enters(call[w], l) /\ call[w].doc = l
          /\ committed[LineRow(l)].reconciled = NoInvoice
          /\ call[w].inv \in Invoice /\ live[LineRow(l)].reconciled = call[w].inv
      BY <1>2, <2>1 DEF LineOK
    <2>3. \A m \in StatementLine : m # l => lock[LineRow(m)] # w
      BY <1>2, <2>2 DEF LineOK
    <2>4. \A m \in StatementLine : m # l => g[m] = f[m]
      BY <1>1, <1>3, <1>4, <2>3
    <2>5. f[l] = 0
      BY <1>3, <2>2, NoInvoiceIn
    <2>6. g[l] = IF call[w].inv = k THEN amountOf[l] ELSE 0
      BY <1>1, <1>4, <2>1, <2>2
    <2>7. Clearing(call[w]) = amountOf[l]
      BY <2>2 DEF Clearing
    <2>8. SumFunction(g) = SumFunction(f) + g[l] - f[l]
      BY <1>7, <1>8, <2>4, SumFunctionUpdate
    <2> QED
      BY <1>5, <1>6, <1>9, <2>5, <2>6, <2>7, <2>8
  <1>11. CASE \A l \in StatementLine : lock[LineRow(l)] # w
    <2>1. f = g
      BY <1>1, <1>3, <1>4, <1>11
    <2>2. \A l \in StatementLine : ~Enters(call[w], l)
      BY <1>1, <1>2, <1>11 DEF LineOK
    <2>3. Clearing(call[w]) = 0
      BY <2>2 DEF Clearing
    <2> QED
      BY <1>5, <1>9, <2>1, <2>3
  <1> QED
    BY <1>10, <1>11

\* A COMMIT makes what its request knows of its invoice known to all.
LEMMA CommitMoney ==
    ASSUME IInv, MoneyInv, NEW w \in Worker, Commit(w)
    PROVE  MoneyInv'
  <1>1. /\ call[w].pc = "commit"
        /\ call'[w] = Idle /\ \A v \in Worker : v # w => call'[v] = call[v]
        /\ applied' = Both(call[w].applying)
        /\ lines' = lines /\ live' = live
        /\ \A r \in Row : committed'[r] = IF lock[r] = w THEN live[r] ELSE committed[r]
        /\ \A r \in Row : \A v \in Worker : v # w => (lock'[r] = v <=> lock[r] = v)
    BY CommitEffect
  <1>2. Accounts /\ Applies(call[w]) /\ LockOK(w)
    BY Mine DEF MoneyInv, MoneyOK
  <1>3. applied' \in [Payment \X Invoice -> Nat]
    BY <1>1, <1>2, BothType DEF Applies
  <1>4. ASSUME NEW k \in Invoice, call[w].inv # k
        PROVE  /\ committed'[InvoiceRow(k)] = committed[InvoiceRow(k)]
               /\ \A p \in Payment : applied'[<<p, k>>] = applied[<<p, k>>]
               /\ ReconciledSum(k)' = ReconciledSum(k)
    <2>1. committed'[InvoiceRow(k)] = committed[InvoiceRow(k)]
      BY <1>1, <1>2, <1>4, RowsThere DEF LockOK
    <2>2. ASSUME NEW p \in Payment PROVE applied'[<<p, k>>] = applied[<<p, k>>]
      <3>1. call[w].applying[<<p, k>>] = 0
        BY <1>2, <1>4 DEF Applies
      <3>2. applied[<<p, k>>] \in Nat
        BY <1>2 DEF Accounts
      <3> QED
        BY <1>1, <3>1, <3>2 DEF Both
    <2> QED
      BY <1>4, <2>1, <2>2, CommitClears
  <1>5. ASSUME NEW k \in Invoice
        PROVE  /\ Sound(committed'[InvoiceRow(k)], SumTo(applied', k), ReconciledSum(k)')
               /\ Settled(committed'[InvoiceRow(k)], SumTo(applied', k))
               /\ (\A v \in Worker : call'[v].inv # k) => lines'[k] = committed'[InvoiceRow(k)].total
    <2>1. CASE call[w].inv = k
      <3>1. Handles(call[w], Inv(w, k), SumTo(Both(call[w].applying), k), ReconciledSum(k), lines[k])
        BY <2>1, MyMoney
      <3>2. committed'[InvoiceRow(k)] = Inv(w, k)
        BY <1>1, RowsThere DEF Inv, Visible
      <3>3. ReconciledSum(k)' = ReconciledSum(k) + Clearing(call[w])
        BY <2>1, CommitClears
      <3> QED
        BY <1>1, <3>1, <3>2, <3>3 DEF Handles
    <2>2. CASE call[w].inv # k
      <3>1. /\ Sound(committed[InvoiceRow(k)], SumTo(applied, k), ReconciledSum(k))
            /\ Settled(committed[InvoiceRow(k)], SumTo(applied, k))
            /\ (\A v \in Worker : call[v].inv # k) => lines[k] = committed[InvoiceRow(k)].total
        BY <1>2 DEF Accounts
      <3>2. SumTo(applied', k) = SumTo(applied, k)
        BY <1>4, <2>2, SumToSame
      <3>3. (\A v \in Worker : call'[v].inv # k) => (\A v \in Worker : call[v].inv # k)
        BY <1>1, <2>2
      <3> QED
        BY <1>1, <1>4, <2>2, <3>1, <3>2, <3>3
    <2> QED
      BY <2>1, <2>2
  <1>6. Accounts'
    <2>1. \A p \in Payment :
            /\ committed'[PaymentRow(p)].state # "absent" => committed'[PaymentRow(p)].amount >= 0
            /\ live'[PaymentRow(p)].state # "absent" => live'[PaymentRow(p)].amount >= 0
      BY <1>1, <1>2, RowsThere DEF Accounts
    <2> QED
      BY <1>3, <1>5, <2>1 DEF Accounts
  <1>7. MoneyOK(w)'
    <2>1. Applies(Idle)
      BY IdleOK, AppliesNothing
    <2>2. Applies(call[w])'
      BY <1>1, <2>1 DEF Applies
    <2>3. call'[w].inv \notin Invoice
      BY <1>1, IdleOK, NoInvoiceIn
    <2> QED
      BY <2>2, <2>3 DEF MoneyOK
  <1>8. ASSUME NEW v \in Worker, v # w
        PROVE  MoneyOK(v)'
    <2>1. MoneyOK(v) /\ call'[v] = call[v]
      BY <1>1, <1>8 DEF MoneyInv
    <2>2. Applies(call[v])'
      BY <2>1 DEF MoneyOK, Applies
    <2>3. ASSUME NEW k \in Invoice, call[v].inv = k
          PROVE  Handles(call'[v], Inv(v, k)', SumTo(Both(call[v].applying)', k), ReconciledSum(k)', lines'[k])
      <3>1. call[w].inv # k
        <4>1. k \in call[v].docs /\ (call[w].inv = k => k \in call[w].docs)
          BY <2>3, Mine DEF CallOK
        <4> QED
          BY <1>8, <4>1, Mine
      <3>2. Inv(v, k)' = Inv(v, k)
        BY <1>1, <1>4, <1>8, <3>1, RowsThere DEF Inv, Visible
      <3>3. SumTo(Both(call[v].applying)', k) = SumTo(Both(call[v].applying), k)
        <4>1. \A p \in Payment : Both(call[v].applying)'[<<p, k>>] = Both(call[v].applying)[<<p, k>>]
          BY <1>4, <2>1, <3>1 DEF Both
        <4> QED
          BY <4>1, SumToSame
      <3>4. Handles(call[v], Inv(v, k), SumTo(Both(call[v].applying), k), ReconciledSum(k), lines[k])
        BY <2>1, <2>3 DEF MoneyOK
      <3> QED
        BY <1>1, <1>4, <2>1, <3>1, <3>2, <3>3, <3>4
    <2> QED
      BY <2>1, <2>2, <2>3 DEF MoneyOK
  <1> QED
    BY <1>6, <1>7, <1>8 DEF MoneyInv

\* A request that ends without a COMMIT leaves what was committed; a save of the
\* form that is careful does not end between its two halves.
LEMMA AbortMoney ==
    ASSUME IInv, MoneyInv, CarefulEdits, NEW w \in Worker, Abort(w)
    PROVE  MoneyInv'
  <1>1. RowInv /\ CallInv /\ call' = [call EXCEPT ![w] = Idle] /\ applied' = applied /\ lines' = lines
    BY Mine DEF Abort
  <1>2. /\ committed' = committed
        /\ \A r \in Row : live'[r] = IF lock[r] = w THEN committed[r] ELSE live[r]
        /\ \A r \in Row : lock'[r] = IF lock[r] = w THEN NoTxn ELSE lock[r]
    BY <1>1, RollbackRows DEF Abort
  <1>3. call'[w] = Idle /\ \A v \in Worker : v # w => call'[v] = call[v]
    BY <1>1 DEF CallInv
  <1>4. Accounts
    BY DEF MoneyInv
  <1>5. /\ \A k : ReconciledSum(k)' = ReconciledSum(k)
        /\ \A f : Both(f)' = Both(f)
    BY <1>1, <1>2 DEF ReconciledSum, Both
  <1>6. ASSUME NEW k \in Invoice, \A v \in Worker : call'[v].inv # k
        PROVE  lines[k] = committed[InvoiceRow(k)].total
    <2>1. CASE call[w].inv = k
      <3>1. k \in call[w].docs
        BY <2>1, Mine DEF CallOK
      <3>2. Inv(NoTxn, k).total = lines[k]
        BY <3>1 DEF Abort
      <3>3. Inv(NoTxn, k) = committed[InvoiceRow(k)]
        BY <1>1, RowsThere DEF Inv, Visible, RowInv
      <3> QED
        BY <3>2, <3>3
    <2>2. CASE call[w].inv # k
      <3>1. \A v \in Worker : call[v].inv # k
        BY <1>3, <1>6, <2>2
      <3> QED
        BY <1>4, <3>1 DEF Accounts
    <2> QED
      BY <2>1, <2>2
  <1>7. Accounts'
    <2>1. \A p \in Payment :
            /\ committed'[PaymentRow(p)].state # "absent" => committed'[PaymentRow(p)].amount >= 0
            /\ live'[PaymentRow(p)].state # "absent" => live'[PaymentRow(p)].amount >= 0
      BY <1>2, <1>4, RowsThere DEF Accounts
    <2>2. ASSUME NEW k \in Invoice
          PROVE  /\ Sound(committed'[InvoiceRow(k)], SumTo(applied', k), ReconciledSum(k)')
                 /\ Settled(committed'[InvoiceRow(k)], SumTo(applied', k))
                 /\ (\A v \in Worker : call'[v].inv # k) => lines'[k] = committed'[InvoiceRow(k)].total
      BY <1>1, <1>2, <1>4, <1>5, <1>6 DEF Accounts
    <2>3. applied' \in [Payment \X Invoice -> Nat]
      BY <1>1, <1>4 DEF Accounts
    <2> QED
      BY <2>1, <2>2, <2>3 DEF Accounts
  <1>8. MoneyOK(w)'
    <2>1. Applies(Idle)
      BY IdleOK, AppliesNothing
    <2>2. Applies(call[w])'
      BY <1>3, <2>1 DEF Applies
    <2>3. call'[w].inv \notin Invoice
      BY <1>3, IdleOK, NoInvoiceIn
    <2> QED
      BY <2>2, <2>3 DEF MoneyOK
  <1>9. ASSUME NEW v \in Worker, v # w
        PROVE  MoneyOK(v)'
    <2>1. MoneyOK(v) /\ call'[v] = call[v]
      BY <1>3, <1>9 DEF MoneyInv
    <2>2. Applies(call[v])'
      BY <2>1 DEF MoneyOK, Applies
    <2>3. \A k \in Invoice : Inv(v, k)' = Inv(v, k)
      BY <1>2, <1>9, RowsThere, NoTxnAssumption DEF Inv, Visible
    <2>4. ASSUME NEW k \in Invoice, call[v].inv = k
          PROVE  Handles(call'[v], Inv(v, k)', SumTo(Both(call[v].applying)', k), ReconciledSum(k)', lines'[k])
      <3>1. Handles(call[v], Inv(v, k), SumTo(Both(call[v].applying), k), ReconciledSum(k), lines[k])
        BY <2>1, <2>4 DEF MoneyOK
      <3>2. Both(call[v].applying)' = Both(call[v].applying)
        BY <1>1, <2>1 DEF Both
      <3> QED
        BY <1>1, <1>5, <2>1, <2>3, <3>1, <3>2
    <2> QED
      BY <2>1, <2>2, <2>4 DEF MoneyOK
  <1> QED
    BY <1>7, <1>8, <1>9 DEF MoneyInv

\* Nobody has moved money to start with.
LEMMA InitMoney ==
    ASSUME Init
    PROVE  MoneyInv
  <1>1. /\ \A w \in Worker : call[w] = Idle
        /\ live = committed
        /\ applied = NothingApplied
        /\ \A i \in Invoice : lines[i] \in Nat \ {0}
    BY InvoicingAssumption DEF Init
  <1>2. applied \in [Payment \X Invoice -> Nat]
    BY <1>1 DEF NothingApplied
  <1>3. ASSUME NEW p \in Payment, committed[PaymentRow(p)].state # "absent"
        PROVE  committed[PaymentRow(p)].amount >= 0
    <2>1. CASE p \in Drafted
      <3>1. committed[PaymentRow(p)] =
              [state |-> "draft", amount |-> amountOf[p], journal |-> journalOf[p]]
        BY <2>1, FirstRows
      <3>2. PICK n \in Nat : n = amountOf[p]
        BY <2>1, InvoicingAssumption
      <3>3. committed[PaymentRow(p)].amount = n
        BY <3>1, <3>2
      <3> QED
        BY <3>3
    <2>2. CASE p \notin Drafted
      <3>1. committed[PaymentRow(p)] = [state |-> "absent"]
        BY <2>2, FirstRows
      <3> QED
        BY <1>3, <3>1
    <2> QED
      BY <2>1, <2>2
  <1>4. ASSUME NEW i \in Invoice
        PROVE  SumTo(applied, i) = 0
    <2>1. PICK f : f = [p \in Payment |-> applied[<<p, i>>]]
      OBVIOUS
    <2>2. f \in [Payment -> Int] /\ \A p \in Payment : f[p] = 0
      BY <1>1, <2>1 DEF NothingApplied
    <2>3. SumFunction(f) = 0
      BY <2>2, PaymentsFinite, SumFunctionZero
    <2> QED
      BY <2>1, <2>3 DEF SumTo
  <1>5. ASSUME NEW i \in Invoice
        PROVE  ReconciledSum(i) = 0
    <2>1. PICK f : f = [l \in StatementLine |->
                          IF committed[LineRow(l)].reconciled = i THEN amountOf[l] ELSE 0]
      OBVIOUS
    <2>2. \A l \in StatementLine : committed[LineRow(l)].reconciled = NoInvoice
      BY FirstRows
    <2>3. f \in [StatementLine -> Int] /\ \A l \in StatementLine : f[l] = 0
      BY <2>1, <2>2, NoInvoiceIn
    <2>4. IsFiniteSet(StatementLine)
      BY InvoicingAssumption
    <2>5. SumFunction(f) = 0
      BY <2>3, <2>4, SumFunctionZero
    <2> QED
      BY <2>1, <2>5 DEF ReconciledSum
  <1>6. ASSUME NEW i \in Invoice
        PROVE  /\ Sound(committed[InvoiceRow(i)], SumTo(applied, i), ReconciledSum(i))
               /\ Settled(committed[InvoiceRow(i)], SumTo(applied, i))
               /\ lines[i] = committed[InvoiceRow(i)].total
    <2>1. PICK n \in Nat \ {0} : n = lines[i]
      BY <1>1
    <2>2. PICK v : v = committed[InvoiceRow(i)]
      OBVIOUS
    <2>3. v = [state |-> "draft", total |-> n, residual |-> n, paid |-> "not_paid", number |-> 0]
      BY <2>1, <2>2, FirstRows
    <2>4. v.total = n /\ v.residual = n /\ v.paid = "not_paid"
      BY ONLY <2>3
    <2>5. Sound(v, 0, 0) /\ Settled(v, 0)
      BY <2>4 DEF Sound, Settled
    <2> QED
      BY <1>4, <1>5, <2>1, <2>2, <2>4, <2>5
  <1>7. Accounts
    BY <1>1, <1>2, <1>3, <1>6 DEF Accounts
  <1>8. ASSUME NEW w \in Worker
        PROVE  MoneyOK(w)
    <2>1. Applies(call[w])
      BY <1>1, IdleOK, AppliesNothing
    <2>2. call[w].inv \notin Invoice
      BY <1>1, IdleOK, NoInvoiceIn
    <2> QED
      BY <2>1, <2>2 DEF MoneyOK
  <1> QED
    BY <1>7, <1>8 DEF MoneyInv

\* A step that changes nothing keeps the accounts.
LEMMA StutterMoney ==
    ASSUME MoneyInv, UNCHANGED vars
    PROVE  MoneyInv'
  <1>1. /\ committed' = committed /\ live' = live /\ lock' = lock /\ call' = call
        /\ lines' = lines /\ applied' = applied
    BY DEF vars, dbVars
  <1>2. /\ \A i : ReconciledSum(i)' = ReconciledSum(i)
        /\ \A f : Both(f)' = Both(f)
        /\ \A w, i : Inv(w, i)' = Inv(w, i)
    BY <1>1 DEF ReconciledSum, Both, Inv, Visible
  <1>3. Accounts'
    BY <1>1, <1>2 DEF MoneyInv, Accounts
  <1>4. ASSUME NEW w \in Worker
        PROVE  MoneyOK(w)'
    <2>1. MoneyOK(w)
      BY DEF MoneyInv
    <2>2. Applies(call[w])'
      BY <1>1, <2>1 DEF MoneyOK, Applies
    <2>3. ASSUME NEW i \in Invoice, call[w].inv = i
          PROVE  Handles(call'[w], Inv(w, i)', SumTo(Both(call[w].applying)', i), ReconciledSum(i)', lines'[i])
      <3>1. Handles(call[w], Inv(w, i), SumTo(Both(call[w].applying), i), ReconciledSum(i), lines[i])
        BY <2>1, <2>3 DEF MoneyOK
      <3>2. Both(call[w].applying)' = Both(call[w].applying)
        BY <1>1 DEF Both
      <3> QED
        BY <1>1, <1>2, <3>1, <3>2
    <2> QED
      BY <1>1, <2>2, <2>3 DEF MoneyOK
  <1> QED
    BY <1>3, <1>4 DEF MoneyInv

\* So does every step, as long as no two requests work on one document and no
\* save of the form changes an invoice that money was applied to.
LEMMA NextMoney ==
    ASSUME IInv, MoneyInv, OneRequestPerDocument, CarefulEdits, Next
    PROVE  MoneyInv'
  <1>1. PICK w \in Worker :
           \/ \E i \in Invoice :
                 \/ \E total \in lineTotal[i] : EditLines(w, i, total)
                 \/ Recompute(w, i)
                 \/ Cancel(w, i)
                 \/ ResetToDraft(w, i)
                 \/ Post(w, i)
                 \/ \E j \in Journal, amount \in Amounts : RegisterPayment(w, i, j, amount)
                 \/ \E l \in StatementLine : Reconcile(w, l, i)
           \/ \E p \in Payment : PostPayment(w, p) \/ CancelPayment(w, p)
           \/ RecomputeSaved(w) \/ WriteTotals(w)
           \/ DrawNumber(w) \/ WritePosted(w) \/ FindCredit(w)
           \/ Allocate(w) \/ AllocateRefused(w) \/ AllocateNothing(w)
           \/ DeriveResidual(w) \/ WriteResidual(w)
           \/ EnterPayment(w) \/ BookPayment(w)
           \/ ClearInvoice(w) \/ MarkReconciled(w)
           \/ Commit(w) \/ Abort(w)
    BY DEF Next
  <1>2. ASSUME NEW i \in Invoice,
               \/ \E total \in lineTotal[i] : EditLines(w, i, total)
               \/ Recompute(w, i)
               \/ Cancel(w, i)
               \/ ResetToDraft(w, i)
               \/ Post(w, i)
               \/ \E j \in Journal, amount \in Amounts : RegisterPayment(w, i, j, amount)
               \/ \E l \in StatementLine : Reconcile(w, l, i)
        PROVE  MoneyInv'
    BY <1>2, EditMoney, RecomputeMoney, CancelMoney, ResetMoney, PostMoney, RegisterMoney, ReconcileMoney
  <1>3. ASSUME NEW p \in Payment, PostPayment(w, p) \/ CancelPayment(w, p)
        PROVE  MoneyInv'
    BY <1>3, PostPaymentMoney, CancelPaymentMoney
  <1>4. CASE RecomputeSaved(w) \/ WriteTotals(w)
    BY <1>4, SavedMoney, TotalsMoney
  <1>5. CASE DrawNumber(w) \/ WritePosted(w) \/ FindCredit(w)
    BY <1>5, DrawMoney, PostedMoney, FindCreditMoney
  <1>6. CASE Allocate(w) \/ AllocateRefused(w) \/ AllocateNothing(w)
    BY <1>6, AllocateMoney, RefusedMoney, NothingMoney
  <1>7. CASE DeriveResidual(w) \/ WriteResidual(w)
    BY <1>7, DeriveMoney, ResidualMoney
  <1>8. CASE EnterPayment(w) \/ BookPayment(w)
    BY <1>8, EnterMoney, BookMoney
  <1>9. CASE ClearInvoice(w) \/ MarkReconciled(w)
    BY <1>9, ClearMoney, MarkMoney
  <1>10. CASE Commit(w) \/ Abort(w)
    BY <1>10, CommitMoney, AbortMoney
  <1> QED
    BY <1>1, <1>2, <1>3, <1>4, <1>5, <1>6, <1>7, <1>8, <1>9, <1>10

\* The accounts hold in every reachable state.
LEMMA AccountsHold ==
    ASSUME OneRequestPerDocument, CarefulEdits
    PROVE  Spec => [](IInv /\ MoneyInv)
  <1>1. Init => IInv /\ MoneyInv
    BY InitHolds, InitMoney
  <1>2. (IInv /\ MoneyInv) /\ [Next]_vars => (IInv /\ MoneyInv)'
    <2> SUFFICES ASSUME IInv, MoneyInv, [Next]_vars
                 PROVE  IInv' /\ MoneyInv'
      OBVIOUS
    <2>1. CASE Next
      BY <2>1, NextKeeps, NextMoney
    <2>2. CASE UNCHANGED vars
      BY <2>2, StutterKeeps, StutterMoney
    <2> QED
      BY <2>1, <2>2
  <1> QED
    BY <1>1, <1>2, PTL DEF Spec

\* What the accounts say of the two properties.
LEMMA AccountsAgree ==
    ASSUME IInv, MoneyInv
    PROVE  DebtNeverUnderstated /\ NeverOverApplied
  <1>1. ASSUME NEW i \in Invoice
        PROVE  /\ committed[InvoiceRow(i)].residual
                    >= committed[InvoiceRow(i)].total - AppliedSum(i) - ReconciledSum(i)
               /\ AppliedSum(i) <= committed[InvoiceRow(i)].total
    <2>1. Sound(committed[InvoiceRow(i)], SumTo(applied, i), ReconciledSum(i))
      BY DEF MoneyInv, Accounts
    <2>2. AppliedSum(i) = SumTo(applied, i)
      BY DEF AppliedSum, SumTo
    <2> QED
      BY <2>1, <2>2 DEF Sound
  <1> QED
    BY <1>1 DEF DebtNeverUnderstated, NeverOverApplied

\* The residual of an invoice is never below its total less what payments were
\* allocated to it and statement lines cleared on it.  action_post and
\* action_register_payment derive it from the allocations
\* (PaymentAllocation::refreshResidual), the bank reconciliation subtracts what it
\* clears, and recompute_totals writes the whole new total, or 0 for an invoice
\* that is paid.  So it is, whatever else runs and fails, as long as no two
\* requests work on one document and the form changes the lines only of an
\* invoice that is not paid at all.
THEOREM DebtBacked ==
    ASSUME OneRequestPerDocument, CarefulEdits
    PROVE  Spec => []DebtNeverUnderstated
  <1>1. Spec => [](IInv /\ MoneyInv)
    BY AccountsHold
  <1>2. IInv /\ MoneyInv => DebtNeverUnderstated
    BY AccountsAgree
  <1> QED
    BY <1>1, <1>2, PTL

\* Under the same conditions no more is ever applied to an invoice than its total:
\* PaymentAllocation::allocate applies at most what it finds open, and nobody else
\* applies to the invoice or changes its total between that SELECT and the COMMIT.
THEOREM WithinTotal ==
    ASSUME OneRequestPerDocument, CarefulEdits
    PROVE  Spec => []NeverOverApplied
  <1>1. Spec => [](IInv /\ MoneyInv)
    BY AccountsHold
  <1>2. IInv /\ MoneyInv => NeverOverApplied
    BY AccountsAgree
  <1> QED
    BY <1>1, <1>2, PTL

=============================================================================
