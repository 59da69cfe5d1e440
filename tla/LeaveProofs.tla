----------------------------- MODULE LeaveProofs -----------------------------
(***************************************************************************)
(* Proofs about Leave, for any employees, requests, dates, batches and     *)
(* number of workers.  What an approving transaction has approved so far   *)
(* overlaps nothing it sees and fits the balance it sees, and nobody else  *)
(* touches what it sees; so its commit adds no overlap, and no approval    *)
(* that the allocations do not cover.                                      *)
(***************************************************************************)
EXTENDS Leave, SumTheorems, TLAPS

Workflow == {"check", "update", "commit"}

\* The fields of a call and of a leave; nothing is said of their values.
IsCall(c) == c \in [pc : {c.pc}, method : {c.method}, ids : {c.ids}, at : {c.at},
                    sent : {c.sent}, days : {c.days}]
IsLeave(v) == v \in [present : {v.present}, state : {v.state}, days : {v.days}, span : {v.span}]

CallOK(c) ==
    /\ IsCall(c)
    /\ c.pc \in {"idle", "write", "recount", "days"} \cup Workflow
    /\ c.ids \in Seq(Row)
    /\ c.at \in Nat \ {0}
    /\ c.pc = "idle" => c.ids = <<>>
    /\ c.pc \in {"idle", "write", "recount", "days"} => c.method # "approve"
    /\ c.pc \in {"write", "recount", "days"} => \E l \in Request : c.ids = <<l>> /\ c.at = 1
    /\ c.pc = "write" => c.sent.state # "validate"
    /\ c.pc \in {"check", "update"} => c.at <= Len(c.ids)
    /\ c.pc \in Workflow => c.method \in {"confirm", "approve", "refuse", "cancel", "reset"}

CallInv ==
    /\ call = [w \in Worker |-> call[w]]
    /\ \A w \in Worker : CallOK(call[w])

\* Only the state of a leave is written under a lock.
RowInv ==
    /\ committed = [r \in Row |-> committed[r]]
    /\ live = [r \in Row |-> live[r]]
    /\ lock \in [Row -> Worker \cup {NoTxn}]
    /\ \A r \in Row : lock[r] = NoTxn => live[r] = committed[r]
    /\ \A l \in Request : /\ IsLeave(committed[l]) /\ IsLeave(live[l])
                          /\ live[l].present = committed[l].present
                          /\ live[l].span = committed[l].span

\* A lock belongs to a workflow call for the employee; only an approval leaves
\* a leave approved under its lock.
LockInv ==
    \A r \in Row, w \in Worker :
       lock[r] = w =>
          /\ call[w].pc \in Workflow
          /\ Serves(w, employee[r])
          /\ r \in Request /\ call[w].method # "approve" => live[r].state # "validate"

\* An approval is the only call for its employees.
AloneInv ==
    \A v, w \in Worker : v # w /\ call[w].method = "approve" =>
       \A e : ~(Serves(v, e) /\ Serves(w, e))

Sees(w, l) == Visible(w, l).present /\ Visible(w, l).state = "validate"

\* Two leaves worker w sees approved do not overlap.
Disjoint(w, k, l) ==
    k # l /\ employee[k] = employee[l] /\ Sees(w, k) /\ Sees(w, l)
    => ~Overlap(Visible(w, k).span, Visible(w, l).span)

PendingInv ==
    \A w \in Worker : call[w].method = "approve" =>
       /\ \A k, l \in Request : Serves(w, employee[k]) => Disjoint(w, k, l)
       /\ call[w].pc = "update" /\ Subject(w) \in Request => ~Clash(w, Subject(w))

IInv == CallInv /\ RowInv /\ LockInv /\ AloneInv /\ PendingInv /\ ApprovedNeverOverlap

-----------------------------------------------------------------------------
\* A request that goes on within its type changes no other request.
LEMMA CallKeeps ==
    ASSUME CallInv, NEW w \in Worker, NEW c, CallOK(c), call' = [call EXCEPT ![w] = c]
    PROVE  /\ CallInv'
           /\ call'[w] = c
           /\ \A v \in Worker \ {w} : call'[v] = call[v]
  <1>1. \A v \in Worker : call'[v] = IF v = w THEN c ELSE call[v]
    BY DEF CallInv
  <1>2. call' = [v \in Worker |-> call'[v]]
    BY DEF CallInv
  <1> QED
    BY <1>1, <1>2 DEF CallInv

\* Who serves no request has none of the places a request is in.
LEMMA IdleOK ==
    CallOK(Idle) /\ Idle.ids = <<>> /\ Idle.method = "" /\ Idle.pc = "idle" /\ Idle.pc \notin Workflow
  BY DEF Idle, CallOK, IsCall, Workflow

\* What one transaction writes at once leaves every other row alone.
LEMMA WriteAloneEffect ==
    ASSUME RowInv, NEW r \in Row, NEW version, WriteAlone(r, version),
           r \in Request => IsLeave(version)
    PROVE  /\ RowInv'
           /\ lock[r] = NoTxn /\ lock' = lock
           /\ committed'[r] = version
           /\ \A s \in Row \ {r} : committed'[s] = committed[s] /\ live'[s] = live[s]
  <1>1. /\ committed' = [committed EXCEPT ![r] = version]
        /\ live' = [live EXCEPT ![r] = version]
        /\ lock[r] = NoTxn /\ lock' = lock
    BY DEF WriteAlone
  <1>2. \A s \in Row : /\ committed'[s] = IF s = r THEN version ELSE committed[s]
                       /\ live'[s] = IF s = r THEN version ELSE live[s]
    BY <1>1 DEF RowInv
  <1>3. /\ committed' = [s \in Row |-> committed'[s]]
        /\ live' = [s \in Row |-> live'[s]]
    BY <1>1 DEF RowInv
  <1>4. Request \subseteq Row
    BY LeaveAssumption
  <1> QED
    BY <1>1, <1>2, <1>3, <1>4 DEF RowInv

\* No leave becomes approved, or approved for other dates.
LEMMA CommittedKeeps ==
    ASSUME ApprovedNeverOverlap,
           \A l \in Request : Approved(l)' => Approved(l) /\ committed'[l].span = committed[l].span
    PROVE  ApprovedNeverOverlap'
  BY DEF ApprovedNeverOverlap

\* The leave a request is at is one it serves the employee of.
LEMMA SubjectServed ==
    ASSUME CallInv, NEW w \in Worker, call[w].pc \in {"check", "update"}
    PROVE  Subject(w) \in Row /\ Serves(w, employee[Subject(w)])
  <1>1. call[w].ids \in Seq(Row) /\ call[w].at \in 1..Len(call[w].ids)
    BY DEF CallInv, CallOK
  <1>2. call[w].at \in DOMAIN call[w].ids
    BY <1>1
  <1> QED
    BY <1>1, <1>2 DEF Subject, Serves

\* An approval whose rows and whose call nobody touches stays as it is.
LEMMA UntouchedPending ==
    ASSUME CallInv, PendingInv, NEW w \in Worker, call'[w].method = "approve", call'[w] = call[w],
           \A r \in Row : Serves(w, employee[r]) =>
              committed'[r] = committed[r] /\ live'[r] = live[r] /\ lock'[r] = lock[r]
    PROVE  /\ \A k, l \in Request : Serves(w, employee[k])' => Disjoint(w, k, l)'
           /\ (call[w].pc = "update" /\ Subject(w) \in Request => ~Clash(w, Subject(w)))'
  <1>1. call'[w] = call[w]
    OBVIOUS
  <1>2. \A r \in Row : Serves(w, employee[r]) => Visible(w, r)' = Visible(w, r)
    BY DEF Visible
  <1>3. Request \subseteq Row
    BY LeaveAssumption
  <1>4. \A e : Serves(w, e)' = Serves(w, e)
    BY <1>1 DEF Serves
  <1>5. ASSUME NEW k \in Request, NEW l \in Request, Serves(w, employee[k])'
        PROVE  Disjoint(w, k, l)'
    BY <1>1, <1>2, <1>3, <1>4, <1>5 DEF PendingInv, Disjoint, Sees
  <1>6. ASSUME call[w].pc = "update", Subject(w) \in Request, Serves(w, employee[Subject(w)])
        PROVE  ~Clash(w, Subject(w))'
    <2>1. Subject(w)' = Subject(w)
      BY <1>1 DEF Subject
    <2>2. ~Clash(w, Subject(w))
      BY <1>1, <1>6 DEF PendingInv
    <2> QED
      BY <1>2, <1>3, <1>6, <2>1, <2>2 DEF Clash, Those
  <1>7. call[w].pc = "update" => Serves(w, employee[Subject(w)])
    BY SubjectServed
  <1>8. call'[w].pc = call[w].pc /\ Subject(w)' = Subject(w)
    BY <1>1 DEF Subject
  <1> QED
    BY <1>5, <1>6, <1>7, <1>8

\* A step that leaves alone what approvals have checked keeps what they know.
LEMMA PendingKeeps ==
    ASSUME CallInv, PendingInv,
           \A w \in Worker : call'[w].method = "approve" =>
              /\ call'[w] = call[w]
              /\ \A r \in Row : Serves(w, employee[r]) =>
                    committed'[r] = committed[r] /\ live'[r] = live[r] /\ lock'[r] = lock[r]
    PROVE  PendingInv'
  <1> SUFFICES ASSUME NEW w \in Worker, call'[w].method = "approve"
               PROVE  /\ \A k, l \in Request : Serves(w, employee[k])' => Disjoint(w, k, l)'
                      /\ (call[w].pc = "update" /\ Subject(w) \in Request => ~Clash(w, Subject(w)))'
    BY DEF PendingInv
  <1> QED
    BY UntouchedPending

-----------------------------------------------------------------------------
(* Statements that are transactions of their own *)

\* Nobody who approves serves the employee of a row that is admitted.
LEMMA AdmittedAlone ==
    ASSUME ApprovalsAlone, NEW ids, NEW method, Admitted(ids, method), NEW r \in ids,
           NEW w \in Worker, Serves(w, employee[r])
    PROVE  call[w].method # "approve" /\ method # "approve"
  BY DEF Admitted

\* One row is written at once, and at most one call goes on, no approval.
LEMMA WriteKeeps ==
    ASSUME IInv, NEW r \in Row, NEW version, WriteAlone(r, version),
           r \in Request =>
              /\ IsLeave(version)
              /\ version.present /\ version.state = "validate" =>
                    committed[r].present /\ committed[r].state = "validate"
                    /\ version.span = committed[r].span,
           CallInv', LockInv', AloneInv',
           \A w \in Worker : call'[w].method = "approve" =>
              call'[w] = call[w] /\ ~Serves(w, employee[r])
    PROVE  IInv'
  <1>1. /\ RowInv'
        /\ lock' = lock
        /\ committed'[r] = version
        /\ \A s \in Row \ {r} : committed'[s] = committed[s] /\ live'[s] = live[s]
    BY WriteAloneEffect DEF IInv
  <1>2. Request \subseteq Row
    BY LeaveAssumption
  <1>3. ApprovedNeverOverlap'
    <2>1. \A l \in Request : Approved(l)' => Approved(l) /\ committed'[l].span = committed[l].span
      BY <1>1, <1>2 DEF Approved
    <2> QED
      BY <2>1, CommittedKeeps DEF IInv
  <1>4. PendingInv'
    <2>1. \A w \in Worker : call'[w].method = "approve" =>
             /\ call'[w] = call[w]
             /\ \A s \in Row : Serves(w, employee[s]) =>
                   committed'[s] = committed[s] /\ live'[s] = live[s] /\ lock'[s] = lock[s]
      BY <1>1
    <2> QED
      BY <2>1, PendingKeeps DEF IInv
  <1> QED
    BY <1>1, <1>3, <1>4 DEF IInv

\* No row is written, and at most one call goes on, no approval.
LEMMA QuietKeeps ==
    ASSUME IInv, UNCHANGED dbVars, CallInv', LockInv', AloneInv',
           \A w \in Worker : call'[w].method = "approve" => call'[w] = call[w]
    PROVE  IInv'
  <1>1. RowInv'
    BY DEF IInv, RowInv, dbVars
  <1>2. ApprovedNeverOverlap'
    BY DEF IInv, ApprovedNeverOverlap, Approved, dbVars
  <1>3. PendingInv'
    BY PendingKeeps DEF IInv, dbVars
  <1> QED
    BY <1>1, <1>2, <1>3 DEF IInv

\* A call outside a workflow holds no lock; going on, it keeps its employees or
\* serves none.
LEMMA EditingCall ==
    ASSUME IInv, NEW w \in Worker, NEW c, CallOK(c), call' = [call EXCEPT ![w] = c],
           call[w].pc \notin Workflow, c.method # "approve", lock' = lock,
           \A r \in Row : lock[r] # NoTxn => live'[r] = live[r],
           \A i \in DOMAIN c.ids : \A v \in Worker :
              Serves(v, employee[c.ids[i]]) => call[v].method # "approve"
    PROVE  /\ CallInv' /\ LockInv' /\ AloneInv'
           /\ \A v \in Worker : call'[v].method = "approve" => call'[v] = call[v]
  <1>1. /\ CallInv'
        /\ call'[w] = c
        /\ \A v \in Worker \ {w} : call'[v] = call[v]
    BY CallKeeps DEF IInv
  <1>2. \A v \in Worker \ {w} : \A e : Serves(v, e)' = Serves(v, e)
    BY <1>1 DEF Serves
  <1>3. \A r \in Row : lock[r] # w
    BY DEF IInv, LockInv
  <1>4. LockInv'
    BY <1>1, <1>2, <1>3, NoTxnAssumption DEF IInv, LockInv
  <1>5. AloneInv'
    <2> SUFFICES ASSUME NEW u \in Worker, NEW v \in Worker, u # v, call'[v].method = "approve",
                        NEW e, Serves(u, e)', Serves(v, e)'
                 PROVE  FALSE
      BY DEF AloneInv
    <2>1. v # w /\ call'[v] = call[v]
      BY <1>1
    <2>2. CASE u = w
      <3>1. PICK i \in DOMAIN c.ids : employee[c.ids[i]] = e
        BY <1>1, <2>2 DEF Serves
      <3> QED
        BY <1>2, <2>1, <3>1
    <2>3. CASE u # w
      BY <1>1, <1>2, <2>1, <2>3 DEF IInv, AloneInv
    <2> QED
      BY <2>2, <2>3
  <1> QED
    BY <1>1, <1>4, <1>5

\* Nobody approves for the employee of a leave that is being edited.
LEMMA EditedAlone ==
    ASSUME IInv, NEW w \in Worker, call[w].pc \in {"write", "recount", "days"}
    PROVE  /\ Subject(w) \in Request /\ call[w].ids = <<Subject(w)>>
           /\ \A v \in Worker : Serves(v, employee[Subject(w)]) => call[v].method # "approve"
  <1>1. PICK l \in Request : call[w].ids = <<l>> /\ call[w].at = 1
    BY DEF IInv, CallInv, CallOK
  <1>2. Subject(w) = l
    BY <1>1 DEF Subject
  <1>3. Serves(w, employee[l])
    BY <1>1 DEF Serves
  <1>4. call[w].method # "approve"
    BY DEF IInv, CallInv, CallOK
  <1> QED
    BY <1>1, <1>2, <1>3, <1>4 DEF IInv, AloneInv

\* A create begins.
LEMMA CreateLeaveKeeps ==
    ASSUME ApprovalsAlone, IInv, NEW w \in Worker, NEW l \in Request, NEW span, CreateLeave(w, l, span)
    PROVE  IInv'
  <1> DEFINE row == [present |-> TRUE, state |-> "draft", days |-> 0, span |-> span]
  <1>1. PICK c : c = [Idle EXCEPT !.pc = "recount", !.method = "create", !.ids = <<l>>]
    OBVIOUS
  <1>2. CallOK(c) /\ c.ids = <<l>> /\ c.method = "create"
    <2>1. c = [pc |-> "recount", method |-> "create", ids |-> <<l>>, at |-> 1,
               sent |-> Closed, days |-> 0]
      BY <1>1 DEF Idle
    <2> QED
      BY <2>1, LeaveAssumption DEF CallOK, IsCall, Workflow
  <1>3. call[w] = Idle /\ call' = [call EXCEPT ![w] = c] /\ WriteAlone(l, row)
    BY <1>1 DEF CreateLeave
  <1>4. \A v \in Worker : Serves(v, employee[l]) => call[v].method # "approve"
    BY AdmittedAlone DEF CreateLeave
  <1>5. l \in Row /\ IsLeave(row) /\ row.state # "validate"
    BY LeaveAssumption DEF IsLeave
  <1>6. \A r \in Row : lock[r] # NoTxn => live'[r] = live[r]
    BY <1>3, <1>5, WriteAloneEffect DEF IInv
  <1>7. /\ CallInv' /\ LockInv' /\ AloneInv'
        /\ \A v \in Worker : call'[v].method = "approve" => call'[v] = call[v]
    <2>1. call[w].pc \notin Workflow /\ lock' = lock
      BY <1>3, IdleOK DEF WriteAlone
    <2>2. \A i \in DOMAIN c.ids : c.ids[i] = l
      BY <1>2
    <2> QED
      BY <1>2, <1>3, <1>4, <1>6, <2>1, <2>2, EditingCall
  <1> QED
    BY <1>3, <1>4, <1>5, <1>7, WriteKeeps

\* A save of a form begins, with what the form may say of the state.
LEMMA SaveLeaveKeeps ==
    ASSUME ApprovalsAlone, CarefulSaves, IInv,
           NEW w \in Worker, NEW l \in Request, NEW span, SaveLeave(w, l, span)
    PROVE  IInv'
  <1> DEFINE form0 == [state |-> form.state, span |-> span]
  <1>1. PICK c : c = [Idle EXCEPT !.pc = "write", !.method = "write", !.ids = <<l>>, !.sent = form0,
                                  !.days = form.days]
    OBVIOUS
  <1>2. CallOK(c) /\ c.ids = <<l>> /\ c.method = "write"
    <2>1. c = [pc |-> "write", method |-> "write", ids |-> <<l>>, at |-> 1,
               sent |-> form0, days |-> form.days]
      BY <1>1 DEF Idle
    <2>2. form0.state # "validate"
      BY DEF SaveLeave
    <2> QED
      BY <2>1, <2>2, LeaveAssumption DEF CallOK, IsCall, Workflow
  <1>3. call[w] = Idle /\ call' = [call EXCEPT ![w] = c] /\ UNCHANGED dbVars
    BY <1>1 DEF SaveLeave
  <1>4. \A v \in Worker : Serves(v, employee[l]) => call[v].method # "approve"
    BY AdmittedAlone DEF SaveLeave
  <1>5. call[w].pc \notin Workflow /\ \A i \in DOMAIN c.ids : c.ids[i] = l
    <2>1. \A i \in DOMAIN c.ids : c.ids[i] = l
      BY <1>2
    <2> QED
      BY <1>3, <2>1, IdleOK
  <1>6. lock' = lock /\ live' = live
    BY <1>3 DEF dbVars
  <1>7. /\ CallInv' /\ LockInv' /\ AloneInv'
        /\ \A v \in Worker : call'[v].method = "approve" => call'[v] = call[v]
    BY <1>2, <1>3, <1>4, <1>5, <1>6, EditingCall
  <1> QED
    BY <1>3, <1>7, QuietKeeps

\* The second transaction of create and write, and the rest of the first.
LEMMA WriteLeaveKeeps ==
    ASSUME IInv, NEW w \in Worker, WriteLeave(w) \/ WriteDays(w) \/ Recount(w)
    PROVE  IInv'
  <1> DEFINE l == Subject(w)
  <1>1. PICK c : c = call'[w]
    OBVIOUS
  <1>2. PICK old : old = call[w]
    OBVIOUS
  <1>3. CallOK(old) /\ old.pc \in {"write", "recount", "days"} /\ old.pc \notin Workflow
    BY <1>2 DEF IInv, CallInv, WriteLeave, WriteDays, Recount, At, Workflow
  <1>4. l \in Request /\ l \in Row /\ old.ids = <<l>>
    BY <1>2, <1>3, EditedAlone, LeaveAssumption
  <1>5. \A v \in Worker : Serves(v, employee[l]) => call[v].method # "approve"
    BY <1>2, <1>3, EditedAlone
  <1>6. CallOK(c) /\ c.ids \in {old.ids, <<>>} /\ c.method # "approve"
    <2>1. CASE c = [old EXCEPT !.pc = "recount", !.sent = Closed, !.days = 0]
      BY ONLY <2>1, <1>3 DEF CallOK, IsCall, Workflow
    <2>2. CASE c = Idle
      BY <2>2, IdleOK
    <2>3. CASE c = [old EXCEPT !.pc = "days", !.days = c.days]
      BY ONLY <2>3, <1>3 DEF CallOK, IsCall, Workflow
    <2>4. CASE WriteLeave(w)
      BY <1>1, <1>2, <2>1, <2>4 DEF WriteLeave, IInv, CallInv
    <2>5. CASE WriteDays(w)
      BY <1>1, <2>2, <2>5 DEF WriteDays, IInv, CallInv
    <2>6. CASE Recount(w)
      <3>1. \/ c = Idle
            \/ \E days : c = [old EXCEPT !.pc = "days", !.days = days]
        BY <1>1, <1>2, <2>6 DEF Recount, IInv, CallInv
      <3>2. ASSUME NEW days, c = [old EXCEPT !.pc = "days", !.days = days]
            PROVE  CallOK(c) /\ c.ids = old.ids /\ c.method # "approve"
        BY ONLY <3>2, <1>3 DEF CallOK, IsCall, Workflow
      <3> QED
        BY <2>2, <3>1, <3>2
    <2> QED
      BY <2>4, <2>5, <2>6
  <1>7. call' = [call EXCEPT ![w] = c]
    BY <1>1 DEF WriteLeave, WriteDays, Recount, IInv, CallInv
  <1>8. \A i \in DOMAIN c.ids : c.ids[i] = l
    BY <1>4, <1>6
  <1>9. CASE UNCHANGED dbVars
    BY <1>2, <1>3, <1>5, <1>6, <1>7, <1>8, <1>9, EditingCall, QuietKeeps DEF dbVars
  <1>10. ASSUME NEW row, WriteAlone(l, row), IsLeave(row),
                row.present /\ row.state = "validate" =>
                    committed[l].present /\ committed[l].state = "validate"
                    /\ row.span = committed[l].span
         PROVE  IInv'
    <2>1. \A r \in Row : lock[r] # NoTxn => live'[r] = live[r]
      BY <1>4, <1>10, WriteAloneEffect DEF IInv
    <2>2. lock' = lock
      BY <1>10 DEF WriteAlone
    <2>3. /\ CallInv' /\ LockInv' /\ AloneInv'
          /\ \A v \in Worker : call'[v].method = "approve" => call'[v] = call[v]
      BY <1>2, <1>3, <1>5, <1>6, <1>7, <1>8, <2>1, <2>2, EditingCall
    <2> QED
      BY <1>4, <1>5, <1>10, <2>3, WriteKeeps
  <1>11. PICK v : v = live[l]
    OBVIOUS
  <1>12. IsLeave(v)
    BY <1>4, <1>11 DEF IInv, RowInv
  <1>13. ASSUME WriteLeave(w), committed[l].present
         PROVE  IInv'
    <2>1. PICK row : row = [v EXCEPT !.state = old.sent.state, !.span = old.sent.span,
                                     !.days = old.days]
      OBVIOUS
    <2>2. IsLeave(row) /\ row.state = old.sent.state
      BY ONLY <2>1, <1>12 DEF IsLeave
    <2>3. row.state # "validate"
      BY <1>2, <1>3, <1>13, <2>2 DEF WriteLeave, At, CallOK
    <2> QED
      BY <1>2, <1>10, <1>11, <1>13, <2>1, <2>2, <2>3 DEF WriteLeave
  <1>14. ASSUME WriteDays(w), committed[l].present
         PROVE  IInv'
    <2>1. PICK row : row = [v EXCEPT !.days = old.days]
      OBVIOUS
    <2>2. IsLeave(row) /\ row.present = v.present /\ row.state = v.state /\ row.span = v.span
      BY ONLY <2>1, <1>12 DEF IsLeave
    <2>3. WriteAlone(l, row)
      BY <1>2, <1>11, <1>14, <2>1 DEF WriteDays
    <2>4. v = committed[l]
      BY <1>4, <1>11, <2>3 DEF WriteAlone, IInv, RowInv
    <2> QED
      BY <1>10, <2>2, <2>3, <2>4
  <1> QED
    BY <1>9, <1>13, <1>14 DEF WriteLeave, WriteDays, Recount

\* The same where no worker is at it: allocations, deletion.
LEMMA AloneRowKeeps ==
    ASSUME ApprovalsAlone, IInv, NEW r \in Row, NEW version, WriteAlone(r, version),
           NEW method, Admitted({r}, method), call' = call,
           r \in Request => IsLeave(version) /\ version.state # "validate"
    PROVE  IInv'
  <1>1. /\ lock' = lock
        /\ \A s \in Row : lock[s] # NoTxn => live'[s] = live[s]
    BY WriteAloneEffect DEF IInv
  <1>2. CallInv' /\ AloneInv'
    BY DEF IInv, CallInv, AloneInv, Serves
  <1>3. LockInv'
    BY <1>1, NoTxnAssumption DEF IInv, LockInv, Serves
  <1>4. \A w \in Worker : Serves(w, employee[r]) => call[w].method # "approve"
    BY AdmittedAlone
  <1> QED
    BY <1>2, <1>3, <1>4, WriteKeeps

\* Editing leaves, forms and allocations keeps the invariant.
LEMMA EditingKeeps ==
    ASSUME ApprovalsAlone, CarefulSaves, IInv,
           \/ \E w \in Worker : Editing(w)
           \/ \E r \in Row : Open(r) \/ Unlink(r)
           \/ \E a \in Allocation, n \in Grants : CreateAllocation(a, n)
           \/ \E n \in Grants : SaveAllocation(n)
    PROVE  IInv'
  <1>1. ASSUME NEW w \in Worker, Editing(w)
        PROVE  IInv'
    BY <1>1, CreateLeaveKeeps, SaveLeaveKeeps, WriteLeaveKeeps DEF Editing
  <1>2. ASSUME UNCHANGED <<dbVars, call>>
        PROVE  IInv'
    <2>1. CallInv' /\ LockInv' /\ AloneInv'
      BY <1>2 DEF dbVars, IInv, CallInv, LockInv, AloneInv, Serves
    <2> QED
      BY <1>2, <2>1, QuietKeeps
  <1>3. ASSUME NEW r \in Row, Open(r)
        PROVE  IInv'
    BY <1>2, <1>3 DEF Open
  <1>4. ASSUME NEW r \in Row, Unlink(r)
        PROVE  IInv'
    <2>1. r \in Request => IsLeave(NoRecord(r)) /\ NoRecord(r).state # "validate"
      BY DEF NoRecord, IsLeave
    <2> QED
      BY <1>4, <2>1, AloneRowKeeps DEF Unlink
  <1>5. \A a \in Allocation : a \in Row /\ a \notin Request
    BY LeaveAssumption
  <1>6. ASSUME NEW a \in Allocation, NEW n \in Grants, CreateAllocation(a, n)
        PROVE  IInv'
    BY <1>5, <1>6, AloneRowKeeps DEF CreateAllocation
  <1>7. ASSUME NEW n \in Grants, SaveAllocation(n)
        PROVE  IInv'
    <2>1. CASE UNCHANGED dbVars
      BY <1>2, <1>7, <2>1 DEF SaveAllocation
    <2>2. CASE ~UNCHANGED dbVars
      BY <1>5, <1>7, <2>2, AloneRowKeeps DEF SaveAllocation
    <2> QED
      BY <2>1, <2>2
  <1> QED
    BY <1>1, <1>3, <1>4, <1>6, <1>7

-----------------------------------------------------------------------------
(* The workflow *)

\* What a worker sees approved does not overlap, whatever the worker does.
LEMMA SeenDisjoint ==
    ASSUME IInv, NEW w \in Worker, NEW k \in Request, NEW l \in Request
    PROVE  Disjoint(w, k, l)
  <1> SUFFICES ASSUME k # l, employee[k] = employee[l], Sees(w, k), Sees(w, l)
               PROVE  ~Overlap(Visible(w, k).span, Visible(w, l).span)
    BY DEF Disjoint
  <1>1. Request \subseteq Row
    BY LeaveAssumption
  <1>2. CASE call[w].method = "approve" /\ Serves(w, employee[k])
    BY <1>2 DEF IInv, PendingInv, Disjoint
  <1>3. CASE ~(call[w].method = "approve" /\ Serves(w, employee[k]))
    <2>1. lock[k] # w /\ lock[l] # w
      BY <1>1, <1>3 DEF IInv, LockInv, Sees, Visible
    <2> QED
      BY <2>1 DEF Sees, Visible, IInv, ApprovedNeverOverlap, Approved
  <1> QED
    BY <1>2, <1>3

\* A call that begins serves nobody who is being approved for, and if it
\* approves, nobody who is served.
LEMMA BeginKeeps ==
    ASSUME ApprovalsAlone, IInv, NEW w \in Worker, NEW method \in DOMAIN From,
           NEW ids \in Seq(Row), ids # <<>>, Begin(w, method, ids)
    PROVE  IInv'
  <1>1. PICK c : c = [Idle EXCEPT !.pc = "update", !.method = method, !.ids = ids]
    OBVIOUS
  <1>2. CallOK(c) /\ c.pc = "update" /\ c.ids = ids /\ c.method = method /\ c.at = 1
    <2>1. c = [pc |-> "update", method |-> method, ids |-> ids, at |-> 1,
               sent |-> Closed, days |-> 0]
      BY <1>1 DEF Idle
    <2>2. method \in {"confirm", "approve", "refuse", "cancel", "reset"}
      BY DEF From
    <2> QED
      BY <2>1, <2>2 DEF CallOK, IsCall, Workflow
  <1>3. call[w] = Idle /\ call' = [call EXCEPT ![w] = c] /\ UNCHANGED dbVars
    BY <1>1 DEF Begin
  <1>4. /\ CallInv'
        /\ call'[w] = c
        /\ \A v \in Worker \ {w} : call'[v] = call[v]
    BY <1>2, <1>3, CallKeeps DEF IInv
  <1>5. \A v \in Worker \ {w} : \A e : Serves(v, e)' = Serves(v, e)
    BY <1>4 DEF Serves
  <1>6. \A r \in Row : lock[r] # w
    BY <1>3, IdleOK DEF IInv, LockInv
  <1>7. LockInv'
    BY <1>3, <1>4, <1>5, <1>6 DEF IInv, LockInv, dbVars
  <1>8. \A v \in Worker : \A e : Serves(w, e)' /\ Serves(v, e) =>
           call[v].method # "approve" /\ method # "approve"
    <2> SUFFICES ASSUME NEW v \in Worker, NEW e, Serves(w, e)', Serves(v, e)
                 PROVE  call[v].method # "approve" /\ method # "approve"
      OBVIOUS
    <2>1. PICK i \in DOMAIN ids : employee[ids[i]] = e
      BY <1>2, <1>4 DEF Serves
    <2>2. ids[i] \in {ids[j] : j \in DOMAIN ids}
      OBVIOUS
    <2> QED
      BY <2>1, <2>2, AdmittedAlone DEF Begin
  <1>9. AloneInv'
    BY <1>2, <1>4, <1>5, <1>8 DEF IInv, AloneInv
  <1>10. PendingInv'
    <2> SUFFICES ASSUME NEW u \in Worker, call'[u].method = "approve"
                 PROVE  /\ \A k, l \in Request : Serves(u, employee[k])' => Disjoint(u, k, l)'
                        /\ (call[u].pc = "update" /\ Subject(u) \in Request => ~Clash(u, Subject(u)))'
      BY DEF PendingInv
    <2>1. \A r : Visible(u, r)' = Visible(u, r)
      BY <1>3 DEF dbVars, Visible
    <2>2. \A k, l \in Request : Disjoint(u, k, l)'
      BY <2>1, SeenDisjoint DEF Disjoint, Sees
    <2>3. CASE u = w
      <3>1. Subject(u)' = Head(ids)
        BY <1>2, <1>4, <2>3 DEF Subject
      <3>2. method = "approve" /\ Head(ids) \in Request => ~Clash(w, Head(ids))
        BY DEF Begin, Passes, Approvable
      <3>3. Head(ids) \in Request => ~Clash(w, Head(ids))'
        BY <1>2, <1>4, <2>1, <2>3, <3>2 DEF Clash, Those
      <3> QED
        BY <2>2, <2>3, <3>1, <3>3
    <2>4. CASE u # w
      <3>1. Subject(u)' = Subject(u) /\ call'[u] = call[u]
        BY <1>4, <2>4 DEF Subject
      <3>2. call[u].pc = "update" /\ Subject(u) \in Request => ~Clash(u, Subject(u))
        BY <3>1 DEF IInv, PendingInv
      <3> QED
        BY <2>1, <2>2, <3>1, <3>2 DEF Clash, Those
    <2> QED
      BY <2>3, <2>4
  <1>11. RowInv' /\ ApprovedNeverOverlap'
    BY <1>3 DEF dbVars, IInv, RowInv, ApprovedNeverOverlap, Approved
  <1> QED
    BY <1>4, <1>7, <1>9, <1>10, <1>11 DEF IInv

\* A workflow call goes on with the same records.
LEMMA WorkflowCall ==
    ASSUME IInv, NEW w \in Worker, NEW c, CallOK(c), call' = [call EXCEPT ![w] = c],
           c.ids = call[w].ids, c.method = call[w].method
    PROVE  /\ CallInv' /\ AloneInv'
           /\ call'[w] = c
           /\ \A v \in Worker \ {w} : call'[v] = call[v]
           /\ \A v \in Worker : \A e : Serves(v, e)' = Serves(v, e)
  <1>1. /\ CallInv'
        /\ call'[w] = c
        /\ \A v \in Worker \ {w} : call'[v] = call[v]
    BY CallKeeps DEF IInv
  <1>2. \A v \in Worker : \A e : Serves(v, e)' = Serves(v, e)
    BY <1>1 DEF Serves
  <1>3. \A v \in Worker : call'[v].method = call[v].method
    BY <1>1
  <1>4. AloneInv'
    BY <1>2, <1>3 DEF IInv, AloneInv
  <1> QED
    BY <1>1, <1>2, <1>4

\* The checks before an approval establish what its UPDATE relies on.
LEMMA CheckKeeps ==
    ASSUME IInv, NEW w \in Worker, Check(w)
    PROVE  IInv'
  <1>1. PICK old : old = call[w]
    OBVIOUS
  <1>2. PICK c : c = [old EXCEPT !.pc = "update"]
    OBVIOUS
  <1>3. CallOK(old) /\ old.pc = "check"
    BY <1>1 DEF IInv, CallInv, Check, At
  <1>4. CallOK(c) /\ c.pc = "update" /\ c.ids = old.ids /\ c.method = old.method /\ c.at = old.at
    BY ONLY <1>2, <1>3 DEF CallOK, IsCall, Workflow
  <1>5. call' = [call EXCEPT ![w] = c] /\ UNCHANGED dbVars
    BY <1>1, <1>2 DEF Check, Goto, IInv, CallInv
  <1>6. /\ CallInv' /\ AloneInv'
        /\ call'[w] = c
        /\ \A v \in Worker \ {w} : call'[v] = call[v]
        /\ \A v \in Worker : \A e : Serves(v, e)' = Serves(v, e)
    BY <1>1, <1>4, <1>5, WorkflowCall
  <1>7. LockInv'
    BY <1>1, <1>4, <1>5, <1>6 DEF IInv, LockInv, dbVars, Workflow
  <1>8. \A u \in Worker : \A r : Visible(u, r)' = Visible(u, r)
    BY <1>5 DEF dbVars, Visible
  <1>9. \A u \in Worker : \A k, l \in Request : Disjoint(u, k, l)'
    BY <1>8, SeenDisjoint DEF Disjoint, Sees
  <1>10. Subject(w)' = Subject(w) /\ \A u \in Worker \ {w} : Subject(u)' = Subject(u)
    BY <1>1, <1>4, <1>6 DEF Subject
  <1>11. ASSUME NEW u \in Worker, call'[u].method = "approve", call'[u].pc = "update",
                Subject(u)' \in Request
         PROVE  ~Clash(u, Subject(u))'
    <2>1. ~Clash(u, Subject(u))
      <3>1. CASE u = w
        BY <1>1, <1>4, <1>6, <1>10, <1>11, <3>1 DEF Check, Passes, Approvable
      <3>2. CASE u # w
        BY <1>6, <1>10, <1>11, <3>2 DEF IInv, PendingInv
      <3> QED
        BY <3>1, <3>2
    <2>2. Subject(u)' = Subject(u)
      BY <1>10
    <2> QED
      BY <1>8, <2>1, <2>2 DEF Clash, Those
  <1>12. PendingInv'
    BY <1>9, <1>11 DEF PendingInv
  <1>13. RowInv' /\ ApprovedNeverOverlap'
    BY <1>5 DEF dbVars, IInv, RowInv, ApprovedNeverOverlap, Approved
  <1> QED
    BY <1>6, <1>7, <1>12, <1>13 DEF IInv

\* A call that ends serves nobody and holds nothing.
LEMMA EndKeeps ==
    ASSUME IInv, NEW w \in Worker, call' = [call EXCEPT ![w] = Idle], RowInv', ApprovedNeverOverlap',
           \A r \in Row : lock'[r] = (IF lock[r] = w THEN NoTxn ELSE lock[r]),
           \A r \in Row : lock[r] # w => live'[r] = live[r] /\ committed'[r] = committed[r]
    PROVE  IInv'
  <1>1. /\ CallInv'
        /\ call'[w] = Idle
        /\ \A v \in Worker \ {w} : call'[v] = call[v]
    BY IdleOK, CallKeeps DEF IInv
  <1>2. \A v \in Worker \ {w} : \A e : Serves(v, e)' = Serves(v, e)
    BY <1>1 DEF Serves
  <1>3. \A e : ~Serves(w, e)'
    <2>1. call'[w].ids = <<>>
      BY <1>1, IdleOK
    <2>2. \A i \in DOMAIN <<>> : FALSE
      OBVIOUS
    <2> QED
      BY <2>1, <2>2 DEF Serves
  <1>4. LockInv'
    BY <1>1, <1>2, NoTxnAssumption DEF IInv, LockInv
  <1>5. AloneInv'
    <2> SUFFICES ASSUME NEW u \in Worker, NEW v \in Worker, u # v, call'[v].method = "approve",
                        NEW e, Serves(u, e)', Serves(v, e)'
                 PROVE  FALSE
      BY DEF AloneInv
    <2> QED
      BY <1>1, <1>2, <1>3 DEF IInv, AloneInv
  <1>6. \A v \in Worker : call'[v].method = "approve" => v # w /\ call'[v] = call[v]
    BY <1>1, IdleOK
  <1>7. \A r \in Row : lock[r] = w => Serves(w, employee[r])
    BY DEF IInv, LockInv
  <1>8. \A v \in Worker : call'[v].method = "approve" =>
           /\ call'[v] = call[v]
           /\ \A r \in Row : Serves(v, employee[r]) =>
                 committed'[r] = committed[r] /\ live'[r] = live[r] /\ lock'[r] = lock[r]
    BY <1>6, <1>7 DEF IInv, AloneInv
  <1>9. PendingInv'
    BY <1>8, PendingKeeps DEF IInv
  <1> QED
    BY <1>1, <1>4, <1>5, <1>9 DEF IInv

\* What a worker commits is what it sees.
LEMMA CommitKeeps ==
    ASSUME IInv, NEW w \in Worker, Commit(w)
    PROVE  IInv'
  <1>1. /\ committed' = [r \in Row |-> Visible(w, r)]
        /\ lock' = [r \in Row |-> IF lock[r] = w THEN NoTxn ELSE lock[r]]
        /\ live' = live
        /\ call' = [call EXCEPT ![w] = Idle]
    BY DEF Commit, CommitTxn
  <1>2. Request \subseteq Row
    BY LeaveAssumption
  <1>3. RowInv'
    BY <1>1, <1>2, NoTxnAssumption DEF IInv, RowInv, Visible
  <1>4. ApprovedNeverOverlap'
    BY <1>1, <1>2, SeenDisjoint DEF ApprovedNeverOverlap, Approved, Disjoint, Sees
  <1>5. \A r \in Row : lock[r] # w => live'[r] = live[r] /\ committed'[r] = committed[r]
    BY <1>1 DEF Visible
  <1> QED
    BY <1>1, <1>3, <1>4, <1>5, EndKeeps

\* ROLLBACK keeps the invariant.
LEMMA AbortKeeps ==
    ASSUME IInv, NEW w \in Worker, Abort(w)
    PROVE  IInv'
  <1>1. /\ live' = [r \in Row |-> IF lock[r] = w THEN committed[r] ELSE live[r]]
        /\ lock' = [r \in Row |-> IF lock[r] = w THEN NoTxn ELSE lock[r]]
        /\ committed' = committed
        /\ call' = [call EXCEPT ![w] = Idle]
    BY DEF Abort, RollbackTxn
  <1>2. Request \subseteq Row
    BY LeaveAssumption
  <1>3. RowInv'
    BY <1>1, <1>2, NoTxnAssumption DEF IInv, RowInv
  <1>4. ApprovedNeverOverlap'
    BY <1>1 DEF IInv, ApprovedNeverOverlap, Approved
  <1>5. \A r \in Row : lock[r] # w => live'[r] = live[r] /\ committed'[r] = committed[r]
    BY <1>1
  <1> QED
    BY <1>1, <1>3, <1>4, <1>5, EndKeeps

\* The UPDATE of one record: an approval adds a leave that clashes with nothing
\* its transaction sees, and any other step takes one away.
LEMMA UpdateStateKeeps ==
    ASSUME IInv, NEW w \in Worker, UpdateState(w)
    PROVE  IInv'
  <1>0. PICK r : r = Subject(w)
    OBVIOUS
  <1> DEFINE hit == {s \in {r} : live[s].present}
             new == [s \in hit |-> [live[s] EXCEPT !.state = To[call[w].method]]]
  <1>1. PICK old : old = call[w]
    OBVIOUS
  <1>2. CallOK(old) /\ old.pc = "update" /\ r \in Row /\ Serves(w, employee[r])
    BY <1>0, <1>1, SubjectServed DEF IInv, CallInv, UpdateState, At
  <1>3. PICK c : c = IF old.at = Len(old.ids) THEN [old EXCEPT !.pc = "commit"]
                     ELSE [old EXCEPT !.pc = "check", !.at = old.at + 1]
    OBVIOUS
  <1>4. /\ CallOK(c) /\ c.pc \in {"check", "commit"}
        /\ c.ids = old.ids /\ c.method = old.method
    <2>1. CASE old.at = Len(old.ids)
      <3>1. c = [old EXCEPT !.pc = "commit"]
        BY <1>3, <2>1
      <3> QED
        BY ONLY <1>2, <3>1 DEF CallOK, IsCall, Workflow
    <2>2. CASE old.at # Len(old.ids)
      <3>1. c = [old EXCEPT !.pc = "check", !.at = old.at + 1]
        BY <1>3, <2>2
      <3>2. IsCall(c) /\ c.pc = "check" /\ c.ids = old.ids /\ c.method = old.method /\ c.at = old.at + 1
        BY ONLY <1>2, <3>1 DEF CallOK, IsCall
      <3>3. old.at \in Nat \ {0} /\ old.at <= Len(old.ids) /\ old.ids \in Seq(Row)
        BY ONLY <1>2 DEF CallOK
      <3>4. c.at \in Nat \ {0} /\ c.at <= Len(c.ids)
        BY ONLY <2>2, <3>2, <3>3
      <3> QED
        BY ONLY <1>2, <3>2, <3>3, <3>4 DEF CallOK, Workflow
    <2> QED
      BY <2>1, <2>2
  <1>5. call' = [call EXCEPT ![w] = c]
    BY <1>1, <1>3 DEF UpdateState, IInv, CallInv
  <1>6. /\ CallInv' /\ AloneInv'
        /\ call'[w] = c
        /\ \A v \in Worker \ {w} : call'[v] = call[v]
        /\ \A v \in Worker : \A e : Serves(v, e)' = Serves(v, e)
    BY <1>1, <1>4, <1>5, WorkflowCall
  <1>7. /\ Free(w, r) /\ committed' = committed
        /\ live' = [s \in Row |-> IF s \in DOMAIN new THEN new[s] ELSE live[s]]
        /\ lock' = [s \in Row |-> IF s \in DOMAIN new THEN w ELSE lock[s]]
    BY <1>0 DEF UpdateState, Write
  <1>8. PICK row : row = [live[r] EXCEPT !.state = To[old.method]]
    OBVIOUS
  <1>9. /\ \A s \in Row \ {r} : live'[s] = live[s] /\ lock'[s] = lock[s]
        /\ live[r].present => live'[r] = row /\ lock'[r] = w
        /\ ~live[r].present => live'[r] = live[r] /\ lock'[r] = lock[r]
    BY <1>1, <1>2, <1>7, <1>8
  <1>10. r \in Request =>
            /\ IsLeave(row) /\ row.present = live[r].present /\ row.span = live[r].span
            /\ row.state = To[old.method]
    <2> SUFFICES ASSUME NEW v, IsLeave(v), NEW state, row = [v EXCEPT !.state = state]
                 PROVE  IsLeave(row) /\ row.present = v.present /\ row.span = v.span /\ row.state = state
      BY <1>8 DEF IInv, RowInv
    <2> QED
      BY DEF IsLeave
  <1>11. old.method # "approve" => To[old.method] # "validate"
    <2>1. old.method \in {"confirm", "approve", "refuse", "cancel", "reset"}
      BY ONLY <1>2 DEF CallOK, Workflow
    <2> QED
      BY <2>1 DEF To
  <1>12. Request \subseteq Row
    BY LeaveAssumption
  <1>13. RowInv'
    <2>1. live' = [s \in Row |-> live'[s]] /\ lock' = [s \in Row |-> lock'[s]]
      BY <1>7
    <2>2. \A s \in Row : lock'[s] \in Worker \cup {NoTxn}
      BY <1>2, <1>9 DEF IInv, RowInv
    <2>3. lock' \in [Row -> Worker \cup {NoTxn}]
      BY <2>1, <2>2
    <2>4. \A s \in Row : lock'[s] = NoTxn => live'[s] = committed'[s]
      BY <1>7, <1>9, NoTxnAssumption DEF IInv, RowInv
    <2>5. \A l \in Request : IsLeave(live'[l]) /\ live'[l].present = live[l].present
                              /\ live'[l].span = live[l].span
      BY <1>9, <1>10, <1>12 DEF IInv, RowInv
    <2>6. committed' = [s \in Row |-> committed'[s]]
      BY <1>7 DEF IInv, RowInv
    <2>7. \A l \in Request : IsLeave(committed'[l]) /\ live'[l].present = committed'[l].present
                              /\ live'[l].span = committed'[l].span
      BY <1>7, <2>5 DEF IInv, RowInv
    <2> QED
      BY <2>1, <2>3, <2>4, <2>5, <2>6, <2>7 DEF RowInv
  <1>14. LockInv'
    <2> SUFFICES ASSUME NEW s \in Row, NEW v \in Worker, lock'[s] = v
                 PROVE  /\ call'[v].pc \in Workflow
                        /\ Serves(v, employee[s])'
                        /\ s \in Request /\ call'[v].method # "approve" => live'[s].state # "validate"
      BY DEF LockInv
    <2>1. call[v].pc \in Workflow => call'[v].pc \in Workflow
      BY <1>4, <1>6 DEF Workflow
    <2>2. call'[v].method = call[v].method
      BY <1>1, <1>4, <1>6
    <2>3. CASE s = r /\ live[r].present
      <3>1. v = w /\ live'[s] = row
        BY <1>9, <2>3
      <3>2. call'[w].pc \in Workflow
        BY <1>4, <1>6 DEF Workflow
      <3> QED
        BY <1>1, <1>2, <1>6, <1>10, <1>11, <2>2, <2>3, <3>1, <3>2
    <2>4. CASE ~(s = r /\ live[r].present)
      <3>1. lock[s] = v /\ live'[s] = live[s]
        BY <1>9, <2>4
      <3> QED
        BY <1>6, <2>1, <2>2, <3>1 DEF IInv, LockInv
    <2> QED
      BY <2>3, <2>4
  <1>15. PendingInv'
    <2> SUFFICES ASSUME NEW u \in Worker, call'[u].method = "approve"
                 PROVE  /\ \A k, l \in Request : Serves(u, employee[k])' => Disjoint(u, k, l)'
                        /\ (call[u].pc = "update" /\ Subject(u) \in Request => ~Clash(u, Subject(u)))'
      BY DEF PendingInv
    <2>1. CASE u # w
      <3>1. call'[u] = call[u]
        BY <1>6, <2>1
      <3>2. ~Serves(u, employee[r])
        BY <1>2, <2>1, <3>1 DEF IInv, AloneInv
      <3>3. \A s \in Row : Serves(u, employee[s]) =>
               committed'[s] = committed[s] /\ live'[s] = live[s] /\ lock'[s] = lock[s]
        BY <1>7, <1>9, <3>2
      <3> QED
        BY <3>1, <3>3, UntouchedPending DEF IInv
    <2>2. CASE u = w
      <3>1. call'[w].pc # "update" /\ old.method = "approve"
        BY <1>4, <1>6, <2>2
      <3>2. \A s \in Row \ {r} : Visible(w, s)' = Visible(w, s)
        BY <1>7, <1>9 DEF Visible
      <3>3. r \in Request /\ Visible(w, r)'.present =>
               Visible(w, r)'.span = Visible(w, r).span
        <4>1. r \in Request => live'[r].span = live[r].span /\ live[r].span = committed[r].span
          BY <1>9, <1>10 DEF IInv, RowInv
        <4> QED
          BY <1>7, <4>1 DEF Visible
      <3>4. r \in Request => ~Clash(w, r)
        BY <1>0, <1>1, <1>2, <3>1 DEF IInv, PendingInv
      <3>5. \A k \in Request \ {r} :
               r \in Request /\ employee[k] = employee[r] /\ Sees(w, k) =>
               ~Overlap(Visible(w, r).span, Visible(w, k).span)
        BY <3>4 DEF Clash, Those, Sees
      <3>6. \A k \in Request \ {r} : Sees(w, k)' = Sees(w, k) /\ Visible(w, k)' = Visible(w, k)
        BY <1>12, <3>2 DEF Sees
      <3>7. ASSUME NEW k \in Request, NEW l \in Request
            PROVE  Disjoint(w, k, l)'
        <4>1. CASE k = r \/ l = r
          BY <3>3, <3>5, <3>6, <4>1 DEF Disjoint, Sees, Overlap
        <4>2. CASE k # r /\ l # r
          BY <3>6, <4>2, SeenDisjoint DEF Disjoint
        <4> QED
          BY <4>1, <4>2
      <3> QED
        BY <2>2, <3>1, <3>7
    <2> QED
      BY <2>1, <2>2
  <1>16. ApprovedNeverOverlap'
    BY <1>7 DEF IInv, ApprovedNeverOverlap, Approved
  <1> QED
    BY <1>6, <1>13, <1>14, <1>15, <1>16 DEF IInv

-----------------------------------------------------------------------------
\* It holds at the start.
LEMMA InitIInv == Init => IInv
  <1> SUFFICES ASSUME Init PROVE IInv
    OBVIOUS
  <1>1. \A w \in Worker : call[w] = Idle
    BY DEF Init
  <1>2. CallInv
    BY <1>1, IdleOK DEF Init, CallInv
  <1>3. \A r \in Row : /\ committed[r] = NoRecord(r) /\ live[r] = NoRecord(r) /\ lock[r] = NoTxn
                      /\ ~NoRecord(r).present
    BY DEF Init, NoRecord
  <1>4. \A l \in Request : l \in Row /\ IsLeave(NoRecord(l))
    BY LeaveAssumption DEF NoRecord, IsLeave
  <1>5. RowInv
    BY <1>3, <1>4 DEF Init, RowInv
  <1>6. LockInv
    BY <1>3, NoTxnAssumption DEF LockInv
  <1>7. AloneInv /\ PendingInv
    BY <1>1, IdleOK DEF AloneInv, PendingInv
  <1>8. ApprovedNeverOverlap
    BY <1>3, <1>4 DEF ApprovedNeverOverlap, Approved
  <1> QED
    BY <1>2, <1>5, <1>6, <1>7, <1>8 DEF IInv

\* Every step keeps it.
LEMMA NextIInv ==
    ASSUME ApprovalsAlone, CarefulSaves, IInv, [Next]_vars
    PROVE  IInv'
  <1>1. ASSUME NEW w \in Worker, Stepping(w)
        PROVE  IInv'
    <2>1. ASSUME NEW m \in DOMAIN From, NEW ids \in Batches, Begin(w, m, ids)
          PROVE  IInv'
      <3>1. ids \in Seq(Row) /\ ids # <<>>
        BY LeaveAssumption
      <3> QED
        BY <2>1, <3>1, BeginKeeps
    <2>2. ASSUME NEW m \in {"confirm", "approve", "refuse"}, NEW a \in Allocation, Begin(w, m, <<a>>)
          PROVE  IInv'
      <3>1. m \in DOMAIN From
        BY DEF From
      <3>2. <<a>> \in Seq(Row) /\ <<a>> # <<>>
        BY LeaveAssumption
      <3> QED
        BY <2>2, <3>1, <3>2, BeginKeeps
    <2> QED
      BY <1>1, <2>1, <2>2, CheckKeeps, UpdateStateKeeps, CommitKeeps DEF Stepping
  <1>2. CASE UNCHANGED vars
    <2>1. UNCHANGED dbVars /\ call' = call
      BY <1>2 DEF vars
    <2>2. CallInv' /\ LockInv' /\ AloneInv'
      BY <2>1 DEF dbVars, IInv, CallInv, LockInv, AloneInv, Serves
    <2> QED
      BY <2>1, <2>2, QuietKeeps
  <1> QED
    BY <1>1, <1>2, EditingKeeps, AbortKeeps DEF Next

\* "One person cannot hold two approved leaves over the same dates": whatever
\* the number of requests, batches and workers, the overlap check of
\* handleApprove suffices where nothing else of an employee is handled during
\* an approval and nobody saves a form that shows an approved record.
THEOREM NeverApprovedTwice ==
    ASSUME ApprovalsAlone, CarefulSaves
    PROVE  Spec => []ApprovedNeverOverlap
  <1>1. Init => IInv
    BY InitIInv
  <1>2. IInv /\ [Next]_vars => IInv'
    BY NextIInv
  <1>3. IInv => ApprovedNeverOverlap
    BY DEF IInv
  <1> QED
    BY <1>1, <1>2, <1>3, PTL DEF Spec
-----------------------------------------------------------------------------
(* Types: what rows, forms and calls hold, and that nobody counts the days   *)
(* of a leave that is approved                                               *)

States == {"draft", "confirm", "validate", "refuse", "cancel"}
Edits == {"write", "recount", "days"}

IsAllocation(v) == v \in [present : {v.present}, state : {v.state}, days : {v.days}]
IsApproved(v) == v.present /\ v.state = "validate"

RowOK(r, v) ==
    /\ v.present \in BOOLEAN /\ v.state \in States
    /\ r \in Allocation => IsAllocation(v)
    /\ r \in Request => /\ v.present => v.span \in Spans[r]
                        /\ IsApproved(v) => v.days > 0

\* A leave whose dates or days are being written is not approved, and the
\* checks of an approval still hold when its UPDATE comes.
CallTyped(w) ==
    /\ call[w].pc \in Edits => ~IsApproved(committed[Subject(w)])
    /\ call[w].pc = "write" =>
          call[w].sent.state \in States /\ call[w].sent.span \in Spans[Subject(w)]
    /\ call[w].pc = "update" /\ call[w].method = "approve" /\ Subject(w) \in Request =>
          live[Subject(w)].days > 0

TypeInv ==
    /\ \A r \in Row : RowOK(r, committed[r]) /\ RowOK(r, live[r])
    /\ \A l \in Request : live[l].days = committed[l].days
    /\ form # Closed => form.state \in States
    /\ \A w \in Worker : CallTyped(w)

\* Other calls are as they were when one row is written at once: its employee
\* is nobody's whose leave is being approved.
LEMMA OthersTyped ==
    ASSUME IInv, TypeInv, NEW r \in Row, NEW version, WriteAlone(r, version),
           r \in Request => IsLeave(version) /\ ~IsApproved(version),
           \A v \in Worker : Serves(v, employee[r]) => call[v].method # "approve",
           NEW w \in Worker, call'[w] = call[w]
    PROVE  CallTyped(w)'
  <1>1. /\ committed'[r] = version
        /\ \A s \in Row \ {r} : committed'[s] = committed[s] /\ live'[s] = live[s]
    BY WriteAloneEffect DEF IInv
  <1>2. Subject(w)' = Subject(w) /\ CallTyped(w)
    BY DEF Subject, TypeInv
  <1>3. call[w].pc \in Edits => Subject(w) \in Request /\ Subject(w) \in Row
    BY EditedAlone, LeaveAssumption DEF Edits
  <1>4. call[w].pc = "update" => Subject(w) \in Row /\ Serves(w, employee[Subject(w)])
    BY SubjectServed DEF IInv
  <1>5. call[w].pc \in Edits => ~IsApproved(committed'[Subject(w)])
    BY <1>1, <1>2, <1>3 DEF CallTyped
  <1>6. call[w].pc = "update" /\ call[w].method = "approve" => live'[Subject(w)] = live[Subject(w)]
    BY <1>1, <1>4
  <1> QED
    BY <1>2, <1>5, <1>6 DEF CallTyped

\* A row written at once is as it should be.
LEMMA WrittenTyped ==
    ASSUME IInv, TypeInv, NEW r \in Row, NEW version, WriteAlone(r, version), RowOK(r, version),
           r \in Request => IsLeave(version),
           form' = Closed \/ form' = form,
           \A w \in Worker : CallTyped(w)'
    PROVE  TypeInv'
  <1>1. \A s \in Row : /\ committed'[s] = IF s = r THEN version ELSE committed[s]
                       /\ live'[s] = IF s = r THEN version ELSE live[s]
    BY DEF WriteAlone, IInv, RowInv
  <1>2. \A s \in Row : RowOK(s, committed'[s]) /\ RowOK(s, live'[s])
    BY <1>1 DEF TypeInv
  <1>3. \A l \in Request : live'[l].days = committed'[l].days
    BY <1>1, LeaveAssumption DEF TypeInv
  <1> QED
    BY <1>2, <1>3 DEF TypeInv

\* Nothing is written, and the calls are as they should be.
LEMMA ReadTyped ==
    ASSUME TypeInv, UNCHANGED dbVars, form' # Closed => form'.state \in States,
           \A w \in Worker : CallTyped(w)'
    PROVE  TypeInv'
  BY DEF TypeInv, dbVars

\* A call that nothing happens to.
LEMMA RestTyped ==
    ASSUME TypeInv, UNCHANGED dbVars, NEW w \in Worker, call'[w] = call[w]
    PROVE  CallTyped(w)'
  BY DEF TypeInv, CallTyped, Subject, dbVars

\* A call that serves nobody.
LEMMA IdleTyped ==
    ASSUME NEW w \in Worker, call'[w] = Idle
    PROVE  CallTyped(w)'
  BY IdleOK DEF CallTyped, Edits

-----------------------------------------------------------------------------
\* create: the row is a draft without days, which are counted next.
LEMMA CreateLeaveTyped ==
    ASSUME ApprovalsAlone, IInv, TypeInv,
           NEW w \in Worker, NEW l \in Request, NEW span \in Spans[l], CreateLeave(w, l, span)
    PROVE  TypeInv'
  <1>1. PICK row : row = [present |-> TRUE, state |-> "draft", days |-> 0, span |-> span]
    OBVIOUS
  <1>2. l \in Row /\ IsLeave(row) /\ RowOK(l, row) /\ ~IsApproved(row)
    BY <1>1, LeaveAssumption DEF IsLeave, RowOK, States, IsApproved
  <1>3. WriteAlone(l, row) /\ form' = form
    BY <1>1 DEF CreateLeave
  <1>4. \A v \in Worker : Serves(v, employee[l]) => call[v].method # "approve"
    BY AdmittedAlone DEF CreateLeave
  <1>5. PICK c : c = [Idle EXCEPT !.pc = "recount", !.method = "create", !.ids = <<l>>]
    OBVIOUS
  <1>6. c.pc = "recount" /\ c.ids = <<l>> /\ c.at = 1
    BY <1>5 DEF Idle
  <1>7. call'[w] = c /\ \A v \in Worker \ {w} : call'[v] = call[v]
    BY <1>5 DEF CreateLeave, IInv, CallInv
  <1>8. CallTyped(w)'
    <2>1. Subject(w)' = l
      BY <1>6, <1>7 DEF Subject
    <2>2. committed'[l] = row
      BY <1>2, <1>3 DEF WriteAlone, IInv, RowInv
    <2> QED
      BY <1>2, <1>6, <1>7, <2>1, <2>2 DEF CallTyped
  <1>9. \A v \in Worker \ {w} : CallTyped(v)'
    BY <1>2, <1>3, <1>4, <1>7, OthersTyped
  <1> QED
    BY <1>2, <1>3, <1>8, <1>9, WrittenTyped

\* write: what is sent is what the form shows, and the leave is not approved.
LEMMA SaveLeaveTyped ==
    ASSUME IInv, TypeInv,
           NEW w \in Worker, NEW l \in Request, NEW span \in Spans[l], SaveLeave(w, l, span)
    PROVE  TypeInv'
  <1> DEFINE form0 == [state |-> form.state, span |-> span]
  <1>1. PICK c : c = [Idle EXCEPT !.pc = "write", !.method = "write", !.ids = <<l>>, !.sent = form0,
                                  !.days = form.days]
    OBVIOUS
  <1>2. c.pc = "write" /\ c.ids = <<l>> /\ c.at = 1 /\ c.sent = form0
    BY <1>1 DEF Idle
  <1>3. call'[w] = c /\ \A v \in Worker \ {w} : call'[v] = call[v]
    BY <1>1 DEF SaveLeave, IInv, CallInv
  <1>4. Subject(w)' = l
    BY <1>2, <1>3 DEF Subject
  <1>5. form0.state \in States /\ form0.span \in Spans[l]
    BY DEF SaveLeave, TypeInv
  <1>6. ~IsApproved(committed'[l])
    BY DEF SaveLeave, Editable, IsApproved, dbVars
  <1>7. CallTyped(w)'
    BY <1>2, <1>3, <1>4, <1>5, <1>6 DEF CallTyped
  <1> QED
    BY <1>3, <1>7, RestTyped, ReadTyped DEF SaveLeave

\* The three steps after it write a leave that is not approved, and leave it so.
LEMMA EditTyped ==
    ASSUME IInv, TypeInv, NEW w \in Worker, WriteLeave(w) \/ WriteDays(w) \/ Recount(w)
    PROVE  TypeInv'
  <1>1. PICK l, old, v : l = Subject(w) /\ old = call[w] /\ v = live[l]
    OBVIOUS
  <1>2. CallOK(old) /\ old.pc \in Edits
    BY <1>1 DEF IInv, CallInv, WriteLeave, WriteDays, Recount, At, Edits
  <1>3. l \in Request /\ l \in Row
    BY <1>1, <1>2, EditedAlone, LeaveAssumption DEF Edits
  <1>4. \A u \in Worker : Serves(u, employee[l]) => call[u].method # "approve"
    BY <1>1, <1>2, EditedAlone DEF Edits
  <1>5. /\ ~IsApproved(committed[l])
        /\ old.pc = "write" => old.sent.state \in States /\ old.sent.span \in Spans[l]
        /\ old.pc = "write" => old.sent.state # "validate"
    BY <1>1, <1>2 DEF TypeInv, CallTyped, CallOK
  <1>6. IsLeave(v) /\ RowOK(l, v) /\ (lock[l] = NoTxn => v = committed[l])
    BY <1>1, <1>3 DEF IInv, RowInv, TypeInv
  <1>7. /\ \A u \in Worker \ {w} : call'[u] = call[u]
        /\ call'[w] = Idle \/ (call'[w].pc \in {"recount", "days"} /\ Subject(w)' = l)
    <2>1. old.ids = old.ids /\ IsCall(old)
      BY <1>2 DEF CallOK
    <2>2. ASSUME NEW c, c = [old EXCEPT !.pc = "recount", !.sent = Closed, !.days = 0]
          PROVE  c.pc = "recount" /\ c.ids = old.ids /\ c.at = old.at
      BY ONLY <2>1, <2>2 DEF IsCall
    <2>3. ASSUME NEW c, NEW days, c = [old EXCEPT !.pc = "days", !.days = days]
          PROVE  c.pc = "days" /\ c.ids = old.ids /\ c.at = old.at
      BY ONLY <2>1, <2>3 DEF IsCall
    <2>4. CASE WriteLeave(w)
      <3>1. call' = [call EXCEPT ![w] = [old EXCEPT !.pc = "recount", !.sent = Closed, !.days = 0]]
        BY <1>1, <2>4 DEF WriteLeave
      <3> QED
        BY <1>1, <2>2, <3>1 DEF IInv, CallInv, Subject
    <2>5. CASE WriteDays(w)
      BY <2>5 DEF WriteDays, IInv, CallInv
    <2>6. CASE Recount(w)
      <3>1. /\ \A u \in Worker \ {w} : call'[u] = call[u]
            /\ \/ call'[w] = Idle
               \/ \E days : call'[w] = [old EXCEPT !.pc = "days", !.days = days]
        BY <1>1, <2>6 DEF Recount, IInv, CallInv
      <3> QED
        BY <1>1, <2>3, <3>1 DEF Subject
    <2> QED
      BY <2>4, <2>5, <2>6
  <1>8. form' = form
    BY DEF WriteLeave, WriteDays, Recount
  <1>9. ASSUME ~IsApproved(committed'[l])
        PROVE  CallTyped(w)'
    BY <1>7, <1>9, IdleTyped DEF CallTyped
  <1>10. CASE UNCHANGED dbVars
    BY <1>5, <1>7, <1>8, <1>9, <1>10, RestTyped, ReadTyped DEF dbVars, TypeInv
  <1>11. ASSUME NEW row, WriteAlone(l, row), IsLeave(row), RowOK(l, row), ~IsApproved(row)
         PROVE  TypeInv'
    <2>1. committed'[l] = row
      BY <1>3, <1>11 DEF WriteAlone, IInv, RowInv
    <2>2. \A u \in Worker \ {w} : CallTyped(u)'
      BY <1>3, <1>4, <1>7, <1>11, OthersTyped
    <2> QED
      BY <1>3, <1>8, <1>9, <1>11, <2>1, <2>2, WrittenTyped
  <1>12. ASSUME WriteLeave(w), committed[l].present
         PROVE  TypeInv'
    <2>1. PICK row : row = [v EXCEPT !.state = old.sent.state, !.span = old.sent.span,
                                     !.days = old.days]
      OBVIOUS
    <2>2. /\ IsLeave(row) /\ row.state = old.sent.state /\ row.span = old.sent.span
          /\ row.present = v.present
      BY ONLY <2>1, <1>6 DEF IsLeave
    <2>3. old.pc = "write" /\ WriteAlone(l, row)
      BY <1>1, <1>12, <2>1 DEF WriteLeave, At
    <2>4. RowOK(l, row) /\ ~IsApproved(row)
      BY <1>3, <1>5, <1>6, <2>2, <2>3, LeaveAssumption DEF RowOK, IsApproved
    <2> QED
      BY <1>11, <2>2, <2>3, <2>4
  <1>13. ASSUME WriteDays(w), committed[l].present
         PROVE  TypeInv'
    <2>1. PICK row : row = [v EXCEPT !.days = old.days]
      OBVIOUS
    <2>2. IsLeave(row) /\ row.present = v.present /\ row.state = v.state /\ row.span = v.span
      BY ONLY <2>1, <1>6 DEF IsLeave
    <2>3. WriteAlone(l, row)
      BY <1>1, <1>13, <2>1 DEF WriteDays
    <2>4. v = committed[l]
      BY <1>6, <2>3 DEF WriteAlone
    <2>5. RowOK(l, row) /\ ~IsApproved(row)
      BY <1>3, <1>5, <1>6, <2>2, <2>4, LeaveAssumption DEF RowOK, IsApproved
    <2> QED
      BY <1>11, <2>2, <2>3, <2>5
  <1> QED
    BY <1>1, <1>10, <1>12, <1>13 DEF WriteLeave, WriteDays, Recount

-----------------------------------------------------------------------------
(* The other steps *)

\* The rows that no worker is at: allocations, deletion.
LEMMA AloneRowTyped ==
    ASSUME ApprovalsAlone, IInv, TypeInv, NEW r \in Row, NEW version, WriteAlone(r, version),
           RowOK(r, version), NEW method, Admitted({r}, method), call' = call,
           form' = Closed \/ form' = form,
           r \in Request => IsLeave(version) /\ ~IsApproved(version)
    PROVE  TypeInv'
  <1>1. \A v \in Worker : Serves(v, employee[r]) => call[v].method # "approve"
    BY AdmittedAlone
  <1>2. \A v \in Worker : CallTyped(v)'
    BY <1>1, OthersTyped
  <1> QED
    BY <1>2, WrittenTyped

\* Forms, allocations and deletions.
LEMMA EditingTyped ==
    ASSUME ApprovalsAlone, IInv, TypeInv,
           \/ \E w \in Worker : Editing(w)
           \/ \E r \in Row : Open(r) \/ Unlink(r)
           \/ \E a \in Allocation, n \in Grants : CreateAllocation(a, n)
           \/ \E n \in Grants : SaveAllocation(n)
    PROVE  TypeInv'
  <1>1. ASSUME NEW w \in Worker, Editing(w)
        PROVE  TypeInv'
    BY <1>1, CreateLeaveTyped, SaveLeaveTyped, EditTyped DEF Editing
  <1>2. ASSUME NEW r \in Row, Open(r)
        PROVE  TypeInv'
    <2>1. form'.state \in States
      BY <1>2 DEF Open, TypeInv, RowOK
    <2> QED
      BY <1>2, <2>1, RestTyped, ReadTyped DEF Open
  <1>3. ASSUME NEW r \in Row, Unlink(r)
        PROVE  TypeInv'
    <2>1. /\ RowOK(r, NoRecord(r)) /\ ~IsApproved(NoRecord(r))
          /\ r \in Request => IsLeave(NoRecord(r))
      <3>1. r \in Allocation => r \notin Request
        BY LeaveAssumption
      <3>2. NoRecord(r).present = FALSE /\ NoRecord(r).state = "draft"
        BY DEF NoRecord
      <3>3. r \in Request => IsLeave(NoRecord(r))
        BY DEF NoRecord, IsLeave
      <3>4. r \in Allocation => IsAllocation(NoRecord(r))
        BY <3>1 DEF NoRecord, IsAllocation
      <3> QED
        BY <3>2, <3>3, <3>4 DEF RowOK, States, IsApproved
    <2> QED
      BY <1>3, <2>1, AloneRowTyped DEF Unlink
  <1>4. ASSUME NEW a \in Allocation, NEW state \in States, NEW n, NEW method, Admitted({a}, method),
               WriteAlone(a, [present |-> TRUE, state |-> state, days |-> n]),
               call' = call, form' = Closed \/ form' = form
        PROVE  TypeInv'
    <2>1. PICK row : row = [present |-> TRUE, state |-> state, days |-> n]
      OBVIOUS
    <2>2. a \in Row /\ a \notin Request
      BY LeaveAssumption
    <2>3. RowOK(a, row)
      BY <2>1, <2>2 DEF RowOK, IsAllocation
    <2> QED
      BY <1>4, <2>1, <2>2, <2>3, AloneRowTyped
  <1>5. ASSUME NEW a \in Allocation, NEW n \in Grants, CreateAllocation(a, n)
        PROVE  TypeInv'
    <2>1. "draft" \in States
      BY DEF States
    <2> QED
      BY <1>4, <1>5, <2>1 DEF CreateAllocation
  <1>6. ASSUME NEW n \in Grants, SaveAllocation(n)
        PROVE  TypeInv'
    <2>1. form \in {form} /\ form.id \in Allocation /\ form.state \in States
      BY <1>6 DEF SaveAllocation, TypeInv
    <2>2. CASE UNCHANGED dbVars
      BY <1>6, <2>2, RestTyped, ReadTyped DEF SaveAllocation
    <2>3. CASE ~UNCHANGED dbVars
      BY <1>4, <1>6, <2>1, <2>3 DEF SaveAllocation
    <2> QED
      BY <2>2, <2>3
  <1> QED
    BY <1>1, <1>2, <1>3, <1>5, <1>6

\* A call begins, or goes on, with a record that passes the checks.
LEMMA PassedTyped ==
    ASSUME IInv, TypeInv, NEW w \in Worker, NEW method, UNCHANGED <<dbVars, form>>,
           \A v \in Worker \ {w} : call'[v] = call[v],
           call'[w].pc = "update", call'[w].method = method,
           Subject(w)' \in Row, Passes(w, method, Subject(w)')
    PROVE  TypeInv'
  <1>1. PICK r : r = Subject(w)'
    OBVIOUS
  <1>2. r \in Request => Visible(w, r).days = live[r].days
    BY DEF Visible, TypeInv
  <1>3. method = "approve" /\ r \in Request => live'[r].days > 0
    BY <1>1, <1>2 DEF Passes, Approvable, dbVars
  <1>4. CallTyped(w)'
    BY <1>1, <1>3 DEF CallTyped, Edits
  <1> QED
    BY <1>4, RestTyped, ReadTyped DEF TypeInv

\* A call begins with its first record.
LEMMA BeginTyped ==
    ASSUME IInv, TypeInv, NEW w \in Worker, NEW method, NEW ids \in Seq(Row), ids # <<>>,
           Begin(w, method, ids)
    PROVE  TypeInv'
  <1>1. PICK c : c = [Idle EXCEPT !.pc = "update", !.method = method, !.ids = ids]
    OBVIOUS
  <1>2. c.pc = "update" /\ c.ids = ids /\ c.method = method /\ c.at = 1
    BY <1>1 DEF Idle
  <1>3. call'[w] = c /\ \A v \in Worker \ {w} : call'[v] = call[v]
    BY <1>1 DEF Begin, IInv, CallInv
  <1>4. Subject(w)' = Head(ids) /\ Head(ids) \in Row
    BY <1>2, <1>3 DEF Subject
  <1> QED
    BY <1>2, <1>3, <1>4, PassedTyped DEF Begin

\* The call goes on with its next record.
LEMMA CheckTyped ==
    ASSUME IInv, TypeInv, NEW w \in Worker, Check(w)
    PROVE  TypeInv'
  <1>1. PICK old, c : old = call[w] /\ c = [old EXCEPT !.pc = "update"]
    OBVIOUS
  <1>2. CallOK(old)
    BY <1>1 DEF IInv, CallInv
  <1>3. c.pc = "update" /\ c.ids = old.ids /\ c.method = old.method /\ c.at = old.at
    BY ONLY <1>1, <1>2 DEF CallOK, IsCall
  <1>4. call'[w] = c /\ \A v \in Worker \ {w} : call'[v] = call[v]
    BY <1>1 DEF Check, Goto, IInv, CallInv
  <1>5. Subject(w)' = Subject(w) /\ Subject(w) \in Row
    BY <1>1, <1>3, <1>4, SubjectServed DEF Subject, Check, At, IInv
  <1>6. UNCHANGED <<dbVars, form>> /\ Passes(w, old.method, Subject(w)')
    BY <1>1, <1>5 DEF Check
  <1>7. call'[w].pc = "update" /\ call'[w].method = old.method /\ Subject(w)' \in Row
    BY <1>3, <1>4, <1>5
  <1> QED
    BY <1>4, <1>6, <1>7, PassedTyped

\* A call that ends changes no leave that another one is editing or approving.
LEMMA EndTyped ==
    ASSUME IInv, TypeInv, NEW w \in Worker, call' = [call EXCEPT ![w] = Idle], form' = form,
           \A r \in Row : RowOK(r, committed'[r]) /\ RowOK(r, live'[r]),
           \A l \in Request : live'[l].days = committed'[l].days,
           \A r \in Row : lock[r] # w => live'[r] = live[r] /\ committed'[r] = committed[r],
           \A l \in Request : lock[l] = w /\ call[w].method # "approve" /\ IsApproved(committed'[l])
                              => IsApproved(committed[l])
    PROVE  TypeInv'
  <1>1. call'[w] = Idle /\ \A v \in Worker \ {w} : call'[v] = call[v]
    BY DEF IInv, CallInv
  <1>2. ASSUME NEW v \in Worker \ {w}
        PROVE  CallTyped(v)'
    <2>1. Subject(v)' = Subject(v) /\ CallTyped(v)
      BY <1>1 DEF Subject, TypeInv
    <2>2. ASSUME call[v].pc \in Edits
          PROVE  ~IsApproved(committed'[Subject(v)])
      <3>1. /\ Subject(v) \in Request /\ Subject(v) \in Row
            /\ Serves(w, employee[Subject(v)]) => call[w].method # "approve"
        BY <2>2, EditedAlone, LeaveAssumption DEF Edits
      <3>2. lock[Subject(v)] = w => Serves(w, employee[Subject(v)])
        BY <3>1 DEF IInv, LockInv
      <3> QED
        BY <2>1, <2>2, <3>1, <3>2 DEF CallTyped
    <2>3. ASSUME call[v].pc = "update", call[v].method = "approve", Subject(v) \in Request
          PROVE  live'[Subject(v)] = live[Subject(v)]
      <3>1. Subject(v) \in Row /\ Serves(v, employee[Subject(v)])
        BY <2>3, SubjectServed DEF IInv
      <3>2. lock[Subject(v)] = w => Serves(w, employee[Subject(v)])
        BY <3>1 DEF IInv, LockInv
      <3> QED
        BY <2>3, <3>1, <3>2 DEF IInv, AloneInv
    <2> QED
      BY <1>1, <2>1, <2>2, <2>3 DEF CallTyped
  <1> QED
    BY <1>1, <1>2, IdleTyped DEF TypeInv

\* COMMIT makes the rows visible that were written.
LEMMA CommitTyped ==
    ASSUME IInv, TypeInv, NEW w \in Worker, Commit(w)
    PROVE  TypeInv'
  <1>1. /\ committed' = [r \in Row |-> Visible(w, r)]
        /\ live' = live /\ form' = form
        /\ call' = [call EXCEPT ![w] = Idle]
    BY DEF Commit, CommitTxn
  <1>2. \A r \in Row : committed'[r] = IF lock[r] = w THEN live[r] ELSE committed[r]
    BY <1>1 DEF Visible
  <1>3. \A r \in Row : RowOK(r, committed'[r]) /\ RowOK(r, live'[r])
    BY <1>1, <1>2 DEF TypeInv
  <1>4. \A l \in Request : live'[l].days = committed'[l].days
    BY <1>1, <1>2, LeaveAssumption DEF TypeInv
  <1>5. \A l \in Request : lock[l] = w /\ call[w].method # "approve" => ~IsApproved(committed'[l])
    BY <1>2, LeaveAssumption DEF IInv, LockInv, IsApproved
  <1> QED
    BY <1>1, <1>2, <1>3, <1>4, <1>5, EndTyped

\* ROLLBACK restores the committed rows.
LEMMA AbortTyped ==
    ASSUME IInv, TypeInv, NEW w \in Worker, Abort(w)
    PROVE  TypeInv'
  <1>1. /\ live' = [r \in Row |-> IF lock[r] = w THEN committed[r] ELSE live[r]]
        /\ committed' = committed /\ form' = form
        /\ call' = [call EXCEPT ![w] = Idle]
    BY DEF Abort, RollbackTxn
  <1>2. \A r \in Row : RowOK(r, committed'[r]) /\ RowOK(r, live'[r])
    BY <1>1 DEF TypeInv
  <1>3. \A l \in Request : live'[l].days = committed'[l].days
    BY <1>1, LeaveAssumption DEF TypeInv
  <1> QED
    BY <1>1, <1>2, <1>3, EndTyped

\* The UPDATE of the state: an approved leave takes days, for the checks said so.
LEMMA UpdateStateTyped ==
    ASSUME IInv, TypeInv, NEW w \in Worker, UpdateState(w)
    PROVE  TypeInv'
  <1>0. PICK r : r = Subject(w)
    OBVIOUS
  <1> DEFINE hit == {s \in {r} : live[s].present}
             new == [s \in hit |-> [live[s] EXCEPT !.state = To[call[w].method]]]
  <1>1. PICK old, v, row : old = call[w] /\ v = live[r] /\ row = [v EXCEPT !.state = To[old.method]]
    OBVIOUS
  <1>2. CallOK(old) /\ old.pc = "update" /\ r \in Row /\ Serves(w, employee[r])
    BY <1>0, <1>1, SubjectServed DEF IInv, CallInv, UpdateState, At
  <1>3. /\ committed' = committed
        /\ live' = [s \in Row |-> IF s \in DOMAIN new THEN new[s] ELSE live[s]]
    BY <1>0 DEF UpdateState, Write
  <1>4. /\ \A s \in Row \ {r} : live'[s] = live[s]
        /\ live'[r] = row \/ live'[r] = live[r]
    BY <1>1, <1>2, <1>3
  <1>5. To[old.method] \in States /\ (To[old.method] = "validate" => old.method = "approve")
    <2>1. old.method \in {"confirm", "approve", "refuse", "cancel", "reset"}
      BY ONLY <1>2 DEF CallOK, Workflow
    <2> QED
      BY <2>1 DEF To, States
  <1>6. r \in Request => IsLeave(v)
    BY <1>1 DEF IInv, RowInv
  <1>7. r \in Request => row.present = v.present /\ row.span = v.span /\ row.days = v.days
                         /\ row.state = To[old.method]
    <2>1. ASSUME IsLeave(v)
          PROVE  row.present = v.present /\ row.span = v.span /\ row.days = v.days
                 /\ row.state = To[old.method]
      BY ONLY <1>1, <2>1 DEF IsLeave
    <2> QED
      BY <1>6, <2>1
  <1>8. r \in Allocation => IsAllocation(row) /\ row.present = v.present /\ row.state = To[old.method]
    <2>1. ASSUME IsAllocation(v)
          PROVE  IsAllocation(row) /\ row.present = v.present /\ row.state = To[old.method]
      BY ONLY <1>1, <2>1 DEF IsAllocation
    <2> QED
      BY <1>1, <1>2, <2>1 DEF TypeInv, RowOK
  <1>9. r \in Request \/ r \in Allocation
    BY <1>2, LeaveAssumption
  <1>10. RowOK(r, v)
    BY <1>1, <1>2 DEF TypeInv
  <1>11. r \in Request /\ To[old.method] = "validate" => v.days > 0
    BY <1>0, <1>1, <1>2, <1>5 DEF TypeInv, CallTyped
  <1>12. RowOK(r, row)
    BY <1>5, <1>7, <1>8, <1>9, <1>10, <1>11 DEF RowOK, IsApproved
  <1>13. \A s \in Row : RowOK(s, committed'[s]) /\ RowOK(s, live'[s])
    BY <1>3, <1>4, <1>12 DEF TypeInv
  <1>14. \A l \in Request : live'[l].days = live[l].days
    BY <1>1, <1>4, <1>7, LeaveAssumption
  <1>15. \A u \in Worker \ {w} : call'[u] = call[u]
    BY DEF UpdateState, IInv, CallInv
  <1>16. call'[w].pc \in {"check", "commit"}
    <2>1. CASE old.at = Len(old.ids)
      <3>1. PICK c : c = [old EXCEPT !.pc = "commit"]
        OBVIOUS
      <3>2. c.pc = "commit"
        BY ONLY <1>2, <3>1 DEF CallOK, IsCall
      <3> QED
        BY <1>1, <2>1, <3>1, <3>2 DEF UpdateState, IInv, CallInv
    <2>2. CASE old.at # Len(old.ids)
      <3>1. PICK c : c = [old EXCEPT !.pc = "check", !.at = old.at + 1]
        OBVIOUS
      <3>2. c.pc = "check"
        BY ONLY <1>2, <3>1 DEF CallOK, IsCall
      <3> QED
        BY <1>1, <2>2, <3>1, <3>2 DEF UpdateState, IInv, CallInv
    <2> QED
      BY <2>1, <2>2
  <1>17. CallTyped(w)'
    BY <1>16 DEF CallTyped, Edits
  <1>18. ASSUME NEW u \in Worker \ {w}
         PROVE  CallTyped(u)'
    <2>1. Subject(u)' = Subject(u) /\ CallTyped(u)
      BY <1>15 DEF Subject, TypeInv
    <2> QED
      BY <1>3, <1>14, <1>15, <2>1 DEF CallTyped
  <1>19. form' = form
    BY DEF UpdateState
  <1> QED
    BY <1>3, <1>13, <1>14, <1>17, <1>18, <1>19 DEF TypeInv

\* There is no record at the start.
LEMMA InitTyped == Init => TypeInv
  <1> SUFFICES ASSUME Init PROVE TypeInv
    OBVIOUS
  <1>1. \A r \in Row : /\ committed[r] = NoRecord(r) /\ live[r] = NoRecord(r)
                      /\ NoRecord(r).present = FALSE /\ NoRecord(r).state = "draft"
    BY DEF Init, NoRecord
  <1>2. \A r \in Allocation : r \notin Request /\ IsAllocation(NoRecord(r))
    BY LeaveAssumption DEF NoRecord, IsAllocation
  <1>3. \A r \in Row : RowOK(r, committed[r]) /\ RowOK(r, live[r])
    BY <1>1, <1>2 DEF RowOK, States, IsApproved
  <1>4. \A w \in Worker : call[w] = Idle
    BY DEF Init
  <1>5. \A w \in Worker : CallTyped(w)
    BY <1>4, IdleOK DEF CallTyped, Edits
  <1>6. \A l \in Request : live[l].days = committed[l].days
    BY DEF Init
  <1> QED
    BY <1>3, <1>5, <1>6 DEF TypeInv, Init

\* Every step keeps the types.
LEMMA NextTyped ==
    ASSUME ApprovalsAlone, CarefulSaves, IInv, TypeInv, [Next]_vars
    PROVE  TypeInv'
  <1>1. ASSUME NEW w \in Worker, Stepping(w)
        PROVE  TypeInv'
    <2>1. \A a \in Allocation : <<a>> \in Seq(Row) /\ <<a>> # <<>>
      BY LeaveAssumption
    <2>2. \A ids \in Batches : ids \in Seq(Row) /\ ids # <<>>
      BY LeaveAssumption
    <2> QED
      BY <1>1, <2>1, <2>2, BeginTyped, CheckTyped, UpdateStateTyped, CommitTyped DEF Stepping
  <1>2. CASE UNCHANGED vars
    BY <1>2, RestTyped, ReadTyped DEF vars, TypeInv
  <1> QED
    BY <1>1, <1>2, EditingTyped, AbortTyped DEF Next

\* Every row, form and call keeps its type, a lock belongs to a workflow call,
\* and approved leave takes at least one working day: the days are counted in
\* a transaction after the dates are written (recount_), so it is the guard of
\* handleWriteLeave and the check of handleApprove together, with the rows of
\* an employee to themselves meanwhile, that keep an approval off a leave whose
\* days are about to change.
THEOREM TypesHold ==
    ASSUME ApprovalsAlone, CarefulSaves
    PROVE  Spec => []TypeOK
  <1>1. Init => IInv /\ TypeInv
    BY InitIInv, InitTyped
  <1>2. IInv /\ TypeInv /\ [Next]_vars => IInv' /\ TypeInv'
    BY NextIInv, NextTyped
  <1>3. IInv /\ TypeInv => TypeOK
    <2> SUFFICES ASSUME IInv, TypeInv PROVE TypeOK
      OBVIOUS
    <2>1. \A l \in Request : l \in Row
      BY LeaveAssumption
    <2>2. \A r \in Row : lock[r] # NoTxn => call[lock[r]].pc \in {"check", "update", "commit"}
      BY DEF IInv, RowInv, LockInv, Workflow
    <2>3. \A r \in Row : \A row \in {committed[r], live[r]} :
             row.present \in BOOLEAN /\ row.state \in {"draft", "confirm", "validate", "refuse", "cancel"}
      BY DEF TypeInv, RowOK, States
    <2>4. \A l \in Request : /\ committed[l].present => committed[l].span \in Spans[l]
                             /\ Approved(l) => committed[l].days > 0
      BY <2>1 DEF TypeInv, RowOK, Approved, IsApproved
    <2> QED
      BY <2>2, <2>3, <2>4 DEF TypeOK
  <1> QED
    BY <1>1, <1>2, <1>3, PTL DEF Spec
-----------------------------------------------------------------------------
(* The balance: what an approval adds fits what the allocations leave *)

\* Days are counted, so there is never less than none, in a form neither.
DaysInv ==
    /\ \A r \in Row : committed[r].days \in Nat /\ live[r].days \in Nat
    /\ \A w \in Worker : call[w].days \in Nat
    /\ form # Closed => form.days \in Nat

WithinBalance(w, l) == type[l] \in RequiresAllocation => Left(w, employee[l], type[l]) >= 0

\* What an approval has written fits the balance its transaction sees, and its
\* next UPDATE takes no more than is left of it.
BalanceOK(w) ==
    LET l == Subject(w) IN
    /\ \A k \in Request : lock[k] = w => WithinBalance(w, k)
    /\ call[w].pc = "update" /\ l \in Request =>
          /\ Visible(w, l).present /\ ~IsApproved(Visible(w, l))
          /\ type[l] \in RequiresAllocation => Visible(w, l).days <= Left(w, employee[l], type[l])

BalanceInv == \A w \in Worker : call[w].method = "approve" => BalanceOK(w)

\* The rows of an employee and a type that worker w sees approved.
Counted(w, rows, e, t) == {r \in rows : employee[r] = e /\ type[r] = t /\ IsApproved(Visible(w, r))}

\* Days adds up the days of these rows, before and after a step.
LEMMA DaysCounted ==
    ASSUME NEW w, NEW rows, NEW e, NEW t
    PROVE  /\ Days(w, rows, e, t)
                = SumFunctionOnSet([r \in rows |-> Visible(w, r).days], Counted(w, rows, e, t))
           /\ Days(w, rows, e, t)'
                = SumFunctionOnSet([r \in rows |-> Visible(w, r).days'], Counted(w, rows, e, t)')
  <1>1. {r \in Those(w, rows, e, "validate") : type[r] = t} = Counted(w, rows, e, t)
    BY DEF Those, Counted, IsApproved
  <1>2. {r \in Those(w, rows, e, "validate") : type[r] = t}' = Counted(w, rows, e, t)'
    BY DEF Those, Counted, IsApproved
  <1> QED
    BY <1>1, <1>2 DEF Days

\* The rows of any of the two tables are finitely many.
LEMMA CountedFinite ==
    ASSUME NEW w, NEW rows \in SUBSET Row, NEW e, NEW t
    PROVE  IsFiniteSet(Counted(w, rows, e, t)) /\ Counted(w, rows, e, t) \subseteq rows
  <1>1. IsFiniteSet(Row) /\ Counted(w, rows, e, t) \subseteq Row
    BY LeaveAssumption DEF Counted
  <1> QED
    BY <1>1, FS_Subset DEF Counted

\* A sum of days is a number.
LEMMA DaysType ==
    ASSUME DaysInv, NEW w, NEW rows \in SUBSET Row, NEW e, NEW t
    PROVE  Days(w, rows, e, t) \in Nat
  <1>1. PICK S, f : S = Counted(w, rows, e, t) /\ f = [r \in rows |-> Visible(w, r).days]
    OBVIOUS
  <1>2. IsFiniteSet(S) /\ S \subseteq rows
    BY <1>1, CountedFinite
  <1>3. \A r \in S : f[r] \in Nat
    BY <1>1, <1>2 DEF DaysInv, Visible
  <1> QED
    BY <1>1, <1>2, <1>3, SumNonNegative, DaysCounted

\* The rows of the employee and the type are all that counts.
LEMMA DaysSame ==
    ASSUME DaysInv, NEW w, NEW rows \in SUBSET Row, NEW e, NEW t,
           \A r \in rows : employee[r] = e /\ type[r] = t =>
              /\ IsApproved(Visible(w, r))' <=> IsApproved(Visible(w, r))
              /\ Visible(w, r).days' = Visible(w, r).days
    PROVE  Days(w, rows, e, t)' = Days(w, rows, e, t)
  <1>1. PICK S, f : S = Counted(w, rows, e, t) /\ f = [r \in rows |-> Visible(w, r).days]
    OBVIOUS
  <1>2. PICK g : g = [r \in rows |-> Visible(w, r).days']
    OBVIOUS
  <1>3. Counted(w, rows, e, t)' = S
    BY <1>1 DEF Counted
  <1>4. IsFiniteSet(S) /\ S \subseteq rows
    BY <1>1, CountedFinite
  <1>5. \A r \in S : f[r] \in Int /\ f[r] = g[r]
    BY <1>1, <1>2, <1>4 DEF Counted, DaysInv, Visible
  <1>6. SumFunctionOnSet(f, S) = SumFunctionOnSet(g, S)
    BY <1>4, <1>5, SumSame
  <1>7. Days(w, rows, e, t)' = SumFunctionOnSet(g, S)
    BY <1>2, <1>3, DaysCounted
  <1> QED
    BY <1>1, <1>6, <1>7, DaysCounted

\* A row that becomes approved counts from then on.
LEMMA DaysGrow ==
    ASSUME DaysInv, NEW w, NEW rows \in SUBSET Row, NEW e, NEW t,
           NEW x \in rows, employee[x] = e, type[x] = t,
           ~IsApproved(Visible(w, x)), IsApproved(Visible(w, x))',
           \A r \in rows : Visible(w, r).days' = Visible(w, r).days,
           \A r \in rows \ {x} : IsApproved(Visible(w, r))' <=> IsApproved(Visible(w, r))
    PROVE  Days(w, rows, e, t)' = Days(w, rows, e, t) + Visible(w, x).days
  <1>1. PICK S, f : S = Counted(w, rows, e, t) /\ f = [r \in rows |-> Visible(w, r).days]
    OBVIOUS
  <1>2. PICK g : g = [r \in rows |-> Visible(w, r).days']
    OBVIOUS
  <1>3. PICK U : U = S \cup {x}
    OBVIOUS
  <1>4. Counted(w, rows, e, t)' = U
    BY <1>1, <1>3 DEF Counted
  <1>5. x \notin S
    BY <1>1 DEF Counted
  <1>6. IsFiniteSet(S) /\ S \subseteq rows
    BY <1>1, CountedFinite
  <1>7. \A r \in rows : f[r] \in Int /\ f[r] = g[r] /\ f[r] = Visible(w, r).days
    BY <1>1, <1>2 DEF DaysInv, Visible
  <1>8. SumFunctionOnSet(g, U) = g[x] + SumFunctionOnSet(g, S)
    BY <1>3, <1>6, <1>7, <1>5, SumInsert
  <1>9. SumFunctionOnSet(f, S) = SumFunctionOnSet(g, S)
    BY <1>6, <1>7, SumSame
  <1>10. Days(w, rows, e, t)' = SumFunctionOnSet(g, U)
    BY <1>2, <1>4, DaysCounted
  <1>11. Days(w, rows, e, t) = SumFunctionOnSet(f, S) /\ Days(w, rows, e, t) \in Nat
    BY <1>1, DaysCounted, DaysType
  <1>12. g[x] = Visible(w, x).days /\ g[x] \in Int
    BY <1>7
  <1> QED
    BY <1>8, <1>9, <1>10, <1>11, <1>12

\* What is left is a number, and stays while the rows of the employee do.
LEMMA LeftSame ==
    ASSUME DaysInv, NEW w, NEW e, NEW t,
           \A r \in Row : employee[r] = e /\ type[r] = t =>
              /\ IsApproved(Visible(w, r))' <=> IsApproved(Visible(w, r))
              /\ Visible(w, r).days' = Visible(w, r).days
    PROVE  Left(w, e, t)' = Left(w, e, t)
  <1>1. Request \in SUBSET Row /\ Allocation \in SUBSET Row
    BY LeaveAssumption
  <1>2. Days(w, Request, e, t)' = Days(w, Request, e, t)
    BY <1>1, DaysSame
  <1>3. Days(w, Allocation, e, t)' = Days(w, Allocation, e, t)
    BY <1>1, DaysSame
  <1> QED
    BY <1>2, <1>3 DEF Left

\* An approval whose rows and whose call nobody touches keeps its balance.
LEMMA UntouchedBalance ==
    ASSUME IInv, DaysInv, NEW w \in Worker, BalanceOK(w), call'[w] = call[w],
           \A r \in Row : Serves(w, employee[r]) =>
              committed'[r] = committed[r] /\ live'[r] = live[r] /\ lock'[r] = lock[r],
           \A r \in Row : lock'[r] = w => lock[r] = w
    PROVE  BalanceOK(w)'
  <1>1. \A r \in Row : Serves(w, employee[r]) => Visible(w, r)' = Visible(w, r)
    BY DEF Visible
  <1>2. ASSUME NEW e, Serves(w, e), NEW t
        PROVE  Left(w, e, t)' = Left(w, e, t)
    <2>1. \A r \in Row : employee[r] = e /\ type[r] = t =>
             /\ IsApproved(Visible(w, r))' <=> IsApproved(Visible(w, r))
             /\ Visible(w, r).days' = Visible(w, r).days
      BY <1>1, <1>2 DEF IsApproved
    <2> QED
      BY <2>1, LeftSame
  <1>3. ASSUME NEW k \in Request, lock'[k] = w
        PROVE  WithinBalance(w, k)'
    <2>1. k \in Row /\ lock[k] = w
      BY <1>3, LeaveAssumption
    <2>2. Serves(w, employee[k])
      BY <2>1 DEF IInv, LockInv
    <2>3. WithinBalance(w, k)
      BY <2>1 DEF BalanceOK
    <2> QED
      BY <1>2, <2>2, <2>3 DEF WithinBalance
  <1>4. PICK l : l = Subject(w)
    OBVIOUS
  <1>5. Subject(w)' = l
    BY <1>4 DEF Subject
  <1>6. ASSUME call[w].pc = "update", l \in Request
        PROVE  /\ Visible(w, l)'.present /\ ~IsApproved(Visible(w, l))'
               /\ type[l] \in RequiresAllocation => Visible(w, l)'.days <= Left(w, employee[l], type[l])'
    <2>1. l \in Row /\ Serves(w, employee[l])
      BY <1>4, <1>6, SubjectServed DEF IInv
    <2>2. /\ Visible(w, l).present /\ ~IsApproved(Visible(w, l))
          /\ type[l] \in RequiresAllocation => Visible(w, l).days <= Left(w, employee[l], type[l])
      BY <1>4, <1>6 DEF BalanceOK
    <2>3. Left(w, employee[l], type[l])' = Left(w, employee[l], type[l])
      BY <1>2, <2>1
    <2>4. Visible(w, l)' = Visible(w, l)
      BY <1>1, <2>1
    <2> QED
      BY <2>2, <2>3, <2>4 DEF IsApproved
  <1> QED
    BY <1>3, <1>5, <1>6 DEF BalanceOK

\* Approvals keep their calls and the rows of the employees they serve, and no
\* leave becomes approved.
Apart ==
    /\ \A w \in Worker : call'[w].method = "approve" =>
          /\ call'[w] = call[w]
          /\ \A r \in Row : Serves(w, employee[r]) =>
                committed'[r] = committed[r] /\ live'[r] = live[r] /\ lock'[r] = lock[r]
          /\ \A r \in Row : lock'[r] = w => lock[r] = w
    /\ \A l \in Request : Approved(l)' => Approved(l)

\* Beside them the balances stay.
LEMMA ApartBalanced ==
    ASSUME IInv, DaysInv, BalanceInv, Apart
    PROVE  BalanceInv'
  <1>1. ASSUME NEW w \in Worker, call'[w].method = "approve"
        PROVE  BalanceOK(w)'
    <2>1. /\ call'[w] = call[w]
          /\ \A r \in Row : Serves(w, employee[r]) =>
                committed'[r] = committed[r] /\ live'[r] = live[r] /\ lock'[r] = lock[r]
          /\ \A r \in Row : lock'[r] = w => lock[r] = w
      BY <1>1 DEF Apart
    <2>2. BalanceOK(w)
      BY <1>1, <2>1 DEF BalanceInv
    <2> QED
      BY <2>1, <2>2, UntouchedBalance
  <1> QED
    BY <1>1 DEF BalanceInv

\* The days of a span are counted by a set of dates between two numbers.
LEMMA WorkingDaysType ==
    ASSUME NEW l \in Request, NEW span \in Spans[l]
    PROVE  WorkingDays(span) \in Nat
  <1>1. PICK from \in Nat, to \in Nat : from = span.from /\ to = span.to
    BY LeaveAssumption
  <1>2. PICK D : D = {d \in WorkDays : from <= d /\ d <= to}
    OBVIOUS
  <1>3. D \subseteq from..to
    <2>1. WorkDays \subseteq Nat
      BY LeaveAssumption
    <2>2. \A d \in D : d \in Nat /\ from <= d /\ d <= to
      BY <1>2, <2>1
    <2>3. ASSUME NEW d \in D
          PROVE  d \in from..to
      <3>1. d \in Int /\ from <= d /\ d <= to
        BY <2>2
      <3> QED
        BY <3>1
    <2> QED
      BY ONLY <2>3, Zenon
  <1>4. IsFiniteSet(from..to)
    BY FS_Interval
  <1>5. IsFiniteSet(D)
    BY <1>3, <1>4, FS_Subset
  <1>6. Cardinality(D) \in Nat
    BY <1>5, FS_CardinalityType
  <1> QED
    BY <1>1, <1>2, <1>6 DEF WorkingDays

\* One row is written at once, beside the approvals.
LEMMA WrittenApart ==
    ASSUME IInv, DaysInv, NEW r \in Row, NEW version, WriteAlone(r, version), version.days \in Nat,
           r \in Request => IsLeave(version) /\ ~IsApproved(version),
           \A v \in Worker : Serves(v, employee[r]) => call[v].method # "approve",
           \A v \in Worker : call'[v].method = "approve" => call'[v] = call[v],
           \A v \in Worker : call'[v].days \in Nat, form' # Closed => form'.days \in Nat
    PROVE  Apart /\ DaysInv'
  <1>1. lock' = lock /\ lock[r] = NoTxn
    BY DEF WriteAlone
  <1>2. \A s \in Row : /\ committed'[s] = IF s = r THEN version ELSE committed[s]
                       /\ live'[s] = IF s = r THEN version ELSE live[s]
    BY DEF WriteAlone, IInv, RowInv
  <1>3. \A s \in Row : committed'[s].days \in Nat /\ live'[s].days \in Nat
    BY <1>2 DEF DaysInv
  <1>4. \A l \in Request : Approved(l)' => Approved(l)
    BY <1>2, LeaveAssumption DEF Approved, IsApproved
  <1>5. ASSUME NEW v \in Worker, call'[v].method = "approve", NEW s \in Row, Serves(v, employee[s])
        PROVE  committed'[s] = committed[s] /\ live'[s] = live[s] /\ lock'[s] = lock[s]
    <2>1. s # r
      BY <1>5
    <2> QED
      BY <1>1, <1>2, <2>1
  <1> QED
    BY <1>1, <1>3, <1>4, <1>5 DEF Apart, DaysInv

\* Nothing is written, and no approval goes on.
LEMMA ReadApart ==
    ASSUME DaysInv, UNCHANGED dbVars,
           \A v \in Worker : call'[v].method = "approve" => call'[v] = call[v],
           \A v \in Worker : call'[v].days \in Nat, form' # Closed => form'.days \in Nat
    PROVE  Apart /\ DaysInv'
  BY DEF DaysInv, Apart, Approved, dbVars

\* create writes a draft beside the approvals.
LEMMA CreateLeaveApart ==
    ASSUME ApprovalsAlone, IInv, DaysInv,
           NEW w \in Worker, NEW l \in Request, NEW span, CreateLeave(w, l, span)
    PROVE  Apart /\ DaysInv'
  <1>1. PICK row : row = [present |-> TRUE, state |-> "draft", days |-> 0, span |-> span]
    OBVIOUS
  <1>2. l \in Row /\ IsLeave(row) /\ ~IsApproved(row) /\ row.days \in Nat
    BY <1>1, LeaveAssumption DEF IsLeave, IsApproved
  <1>3. WriteAlone(l, row)
    BY <1>1 DEF CreateLeave
  <1>4. \A v \in Worker : Serves(v, employee[l]) => call[v].method # "approve"
    BY AdmittedAlone DEF CreateLeave
  <1>5. PICK c : c = [Idle EXCEPT !.pc = "recount", !.method = "create", !.ids = <<l>>]
    OBVIOUS
  <1>6. c.method = "create" /\ c.days = 0
    BY <1>5 DEF Idle
  <1>7. call'[w] = c /\ \A v \in Worker \ {w} : call'[v] = call[v]
    BY <1>5 DEF CreateLeave, IInv, CallInv
  <1>8. \A v \in Worker : call'[v].method = "approve" => call'[v] = call[v]
    BY <1>6, <1>7
  <1>9. /\ \A v \in Worker : call'[v].days \in Nat
        /\ form' # Closed => form'.days \in Nat
    BY <1>6, <1>7 DEF DaysInv, CreateLeave
  <1> QED
    BY <1>2, <1>3, <1>4, <1>8, <1>9, WrittenApart

\* write only reads at first.
LEMMA SaveLeaveApart ==
    ASSUME IInv, DaysInv, NEW w \in Worker, NEW l \in Request, NEW span, SaveLeave(w, l, span)
    PROVE  Apart /\ DaysInv'
  <1>1. PICK c : c = [Idle EXCEPT !.pc = "write", !.method = "write", !.ids = <<l>>,
                                  !.sent = [state |-> form.state, span |-> span],
                                  !.days = form.days]
    OBVIOUS
  <1>2. c.method = "write" /\ c.days \in Nat
    BY <1>1 DEF Idle, SaveLeave, DaysInv
  <1>3. call'[w] = c /\ \A v \in Worker \ {w} : call'[v] = call[v]
    BY <1>1 DEF SaveLeave, IInv, CallInv
  <1>4. \A v \in Worker : call'[v].method = "approve" => call'[v] = call[v]
    BY <1>2, <1>3
  <1>5. \A v \in Worker : call'[v].days \in Nat
    BY <1>2, <1>3 DEF DaysInv
  <1> QED
    BY <1>4, <1>5, ReadApart DEF SaveLeave

\* The steps that follow write a leave that is not approved, and count its days.
LEMMA EditApart ==
    ASSUME IInv, TypeInv, DaysInv, NEW w \in Worker, WriteLeave(w) \/ WriteDays(w) \/ Recount(w)
    PROVE  Apart /\ DaysInv'
  <1>1. PICK l, old, v : l = Subject(w) /\ old = call[w] /\ v = live[l]
    OBVIOUS
  <1>2. CallOK(old) /\ old.pc \in Edits /\ old.days \in Nat
    BY <1>1 DEF IInv, CallInv, WriteLeave, WriteDays, Recount, At, Edits, DaysInv
  <1>3. l \in Request /\ l \in Row
    BY <1>1, <1>2, EditedAlone, LeaveAssumption DEF Edits
  <1>4. \A u \in Worker : Serves(u, employee[l]) => call[u].method # "approve"
    BY <1>1, <1>2, EditedAlone DEF Edits
  <1>5. /\ ~IsApproved(committed[l])
        /\ old.pc = "write" => old.sent.state # "validate"
    BY <1>1, <1>2 DEF TypeInv, CallTyped, CallOK
  <1>6. IsLeave(v) /\ (lock[l] = NoTxn => v = committed[l]) /\ v.days \in Nat
    BY <1>1, <1>3 DEF IInv, RowInv, DaysInv
  <1>7. /\ \A u \in Worker \ {w} : call'[u] = call[u]
        /\ call'[w].method # "approve" /\ call'[w].days \in Nat
    <2>1. IsCall(old) /\ old.method # "approve" /\ old.days \in Nat
      BY <1>2 DEF CallOK, Edits
    <2>2. Idle.method # "approve" /\ Idle.days \in Nat
      BY DEF Idle
    <2>3. ASSUME NEW c, c = [old EXCEPT !.pc = "recount", !.sent = Closed, !.days = 0]
          PROVE  c.method # "approve" /\ c.days \in Nat
      BY ONLY <2>1, <2>3 DEF IsCall
    <2>4. ASSUME NEW c, NEW n \in Nat, c = [old EXCEPT !.pc = "days", !.days = n]
          PROVE  c.method # "approve" /\ c.days \in Nat
      BY ONLY <2>1, <2>4 DEF IsCall
    <2>5. CASE WriteLeave(w)
      BY <1>1, <2>3, <2>5 DEF WriteLeave, IInv, CallInv
    <2>6. CASE WriteDays(w)
      BY <2>2, <2>6 DEF WriteDays, IInv, CallInv
    <2>7. CASE Recount(w)
      <3>1. committed[l].present => WorkingDays(committed[l].span) \in Nat
        BY <1>3, WorkingDaysType DEF TypeInv, RowOK
      <3>2. CASE committed[l].present
        <4>1. call' = [call EXCEPT ![w] = [old EXCEPT !.pc = "days",
                                                      !.days = WorkingDays(committed[l].span)]]
          BY <1>1, <2>7, <3>2 DEF Recount
        <4> QED
          BY <2>4, <3>1, <3>2, <4>1 DEF IInv, CallInv
      <3>3. CASE ~committed[l].present
        BY <1>1, <2>2, <2>7, <3>3 DEF Recount, IInv, CallInv
      <3> QED
        BY <3>2, <3>3
    <2> QED
      BY <2>5, <2>6, <2>7
  <1>8. /\ \A u \in Worker : call'[u].method = "approve" => call'[u] = call[u]
        /\ \A u \in Worker : call'[u].days \in Nat
        /\ form' # Closed => form'.days \in Nat
    BY <1>7 DEF DaysInv, WriteLeave, WriteDays, Recount
  <1>9. CASE UNCHANGED dbVars
    BY <1>8, <1>9, ReadApart
  <1>10. ASSUME NEW row, WriteAlone(l, row), IsLeave(row), ~IsApproved(row), row.days \in Nat
         PROVE  Apart /\ DaysInv'
    BY <1>3, <1>4, <1>8, <1>10, WrittenApart
  <1>11. ASSUME WriteLeave(w), committed[l].present
         PROVE  Apart /\ DaysInv'
    <2>1. PICK row : row = [v EXCEPT !.state = old.sent.state, !.span = old.sent.span,
                                     !.days = old.days]
      OBVIOUS
    <2>2. IsLeave(row) /\ row.state = old.sent.state /\ row.days = old.days
      BY ONLY <1>6, <2>1 DEF IsLeave
    <2>3. ~IsApproved(row)
      BY <1>1, <1>5, <1>11, <2>2 DEF WriteLeave, At, IsApproved
    <2>4. WriteAlone(l, row)
      BY <1>1, <1>11, <2>1 DEF WriteLeave
    <2> QED
      BY <1>2, <1>10, <2>2, <2>3, <2>4
  <1>12. ASSUME WriteDays(w), committed[l].present
         PROVE  Apart /\ DaysInv'
    <2>1. PICK row : row = [v EXCEPT !.days = old.days]
      OBVIOUS
    <2>2. IsLeave(row) /\ row.state = v.state /\ row.present = v.present /\ row.days = old.days
      BY ONLY <1>6, <2>1 DEF IsLeave
    <2>3. WriteAlone(l, row)
      BY <1>1, <1>12, <2>1 DEF WriteDays
    <2>4. v = committed[l]
      BY <1>6, <2>3 DEF WriteAlone
    <2>5. ~IsApproved(row)
      BY <1>5, <2>2, <2>4 DEF IsApproved
    <2> QED
      BY <1>2, <1>10, <2>2, <2>3, <2>5
  <1>13. WriteLeave(w) \/ WriteDays(w) => UNCHANGED dbVars \/ committed[l].present
    BY <1>1 DEF WriteLeave, WriteDays
  <1>14. Recount(w) => UNCHANGED dbVars
    BY DEF Recount
  <1> QED
    BY <1>9, <1>11, <1>12, <1>13, <1>14

\* Forms, allocations and deletions.
LEMMA EditingApart ==
    ASSUME ApprovalsAlone, IInv, TypeInv, DaysInv,
           \/ \E w \in Worker : Editing(w)
           \/ \E r \in Row : Open(r) \/ Unlink(r)
           \/ \E a \in Allocation, n \in Grants : CreateAllocation(a, n)
           \/ \E n \in Grants : SaveAllocation(n)
    PROVE  Apart /\ DaysInv'
  <1>1. ASSUME NEW w \in Worker, Editing(w)
        PROVE  Apart /\ DaysInv'
    BY <1>1, CreateLeaveApart, SaveLeaveApart, EditApart DEF Editing
  <1>2. ASSUME UNCHANGED <<dbVars, call>>, form' # Closed => form'.days \in Nat
        PROVE  Apart /\ DaysInv'
    <2>1. \A v \in Worker : call'[v].days \in Nat
      BY <1>2 DEF DaysInv
    <2> QED
      BY <1>2, <2>1, ReadApart
  <1>3. ASSUME NEW r \in Row, NEW version, NEW method, Admitted({r}, method), WriteAlone(r, version),
               call' = call, version.days \in Nat, form' = Closed \/ form' = form,
               r \in Request => IsLeave(version) /\ ~IsApproved(version)
        PROVE  Apart /\ DaysInv'
    <2>1. \A v \in Worker : Serves(v, employee[r]) => call[v].method # "approve"
      BY <1>3, AdmittedAlone
    <2>2. /\ \A v \in Worker : call'[v].days \in Nat
          /\ form' # Closed => form'.days \in Nat
      BY <1>3 DEF DaysInv
    <2> QED
      BY <1>3, <2>1, <2>2, WrittenApart
  <1>4. ASSUME NEW r \in Row, Open(r)
        PROVE  Apart /\ DaysInv'
    BY <1>2, <1>4 DEF Open, DaysInv
  <1>5. ASSUME NEW r \in Row, Unlink(r)
        PROVE  Apart /\ DaysInv'
    <2>1. NoRecord(r).days = 0 /\ NoRecord(r).present = FALSE
      BY DEF NoRecord
    <2>2. r \in Request => IsLeave(NoRecord(r))
      BY DEF NoRecord, IsLeave
    <2>3. NoRecord(r).days \in Nat /\ ~IsApproved(NoRecord(r))
      BY <2>1 DEF IsApproved
    <2> QED
      BY <1>3, <1>5, <2>2, <2>3 DEF Unlink
  <1>6. ASSUME NEW a \in Allocation, NEW n \in Grants, NEW state, NEW method, Admitted({a}, method),
               WriteAlone(a, [present |-> TRUE, state |-> state, days |-> n]), call' = call,
               form' = Closed \/ form' = form
        PROVE  Apart /\ DaysInv'
    <2>1. a \in Row /\ a \notin Request /\ n \in Nat
      BY LeaveAssumption
    <2>2. PICK version : version = [present |-> TRUE, state |-> state, days |-> n]
      OBVIOUS
    <2>3. version.days \in Nat
      BY <2>1, <2>2
    <2> QED
      BY <1>3, <1>6, <2>1, <2>2, <2>3
  <1>7. ASSUME NEW a \in Allocation, NEW n \in Grants, CreateAllocation(a, n)
        PROVE  Apart /\ DaysInv'
    BY <1>6, <1>7 DEF CreateAllocation
  <1>8. ASSUME NEW n \in Grants, SaveAllocation(n)
        PROVE  Apart /\ DaysInv'
    <2>1. CASE UNCHANGED dbVars
      BY <1>2, <1>8, <2>1 DEF SaveAllocation
    <2>2. CASE ~UNCHANGED dbVars
      BY <1>6, <1>8, <2>2 DEF SaveAllocation
    <2> QED
      BY <2>1, <2>2
  <1> QED
    BY <1>1, <1>4, <1>5, <1>7, <1>8

\* A step of one worker leaves the other approvals their rows; what is to be
\* shown is the balance of its own.
LEMMA OneBalanced ==
    ASSUME IInv, DaysInv, BalanceInv, NEW w \in Worker,
           \A v \in Worker \ {w} : call'[v] = call[v],
           \A v \in Worker \ {w} : call[v].method = "approve" =>
              \A r \in Row : Serves(v, employee[r]) =>
                 committed'[r] = committed[r] /\ live'[r] = live[r] /\ lock'[r] = lock[r],
           \A v \in Worker \ {w} : \A r \in Row : lock'[r] = v => lock[r] = v,
           call'[w].method = "approve" => BalanceOK(w)'
    PROVE  BalanceInv'
  <1>1. ASSUME NEW v \in Worker \ {w}, call'[v].method = "approve"
        PROVE  BalanceOK(v)'
    <2>1. call'[v] = call[v] /\ BalanceOK(v)
      BY <1>1 DEF BalanceInv
    <2>2. /\ \A r \in Row : Serves(v, employee[r]) =>
                committed'[r] = committed[r] /\ live'[r] = live[r] /\ lock'[r] = lock[r]
          /\ \A r \in Row : lock'[r] = v => lock[r] = v
      BY <1>1, <2>1
    <2> QED
      BY <2>1, <2>2, UntouchedBalance
  <1> QED
    BY <1>1 DEF BalanceInv

\* A call begins, or goes on, with a leave that fits the balance.
LEMMA PassedFits ==
    ASSUME IInv, DaysInv, BalanceInv, NEW w \in Worker, NEW method, UNCHANGED dbVars,
           \A v \in Worker \ {w} : call'[v] = call[v],
           call'[w].method = method, Passes(w, method, Subject(w)'),
           method = "approve" => \A k \in Request : lock[k] = w => WithinBalance(w, k)
    PROVE  BalanceInv'
  <1>1. committed' = committed /\ live' = live /\ lock' = lock
    BY DEF dbVars
  <1>2. \A r : Visible(w, r)' = Visible(w, r)
    BY <1>1 DEF Visible
  <1>3. \A e, t : Left(w, e, t)' = Left(w, e, t)
    BY <1>2, LeftSame DEF IsApproved
  <1>4. PICK l : l = Subject(w)'
    OBVIOUS
  <1>5. ASSUME method = "approve"
        PROVE  BalanceOK(w)'
    <2>1. ASSUME l \in Request
          PROVE  /\ Visible(w, l).present /\ ~IsApproved(Visible(w, l))
                 /\ type[l] \in RequiresAllocation => Visible(w, l).days <= Left(w, employee[l], type[l])
      BY <1>4, <1>5, <2>1 DEF Passes, Approvable, From, IsApproved
    <2>2. ASSUME l \in Request
          PROVE  /\ Visible(w, l)'.present /\ ~IsApproved(Visible(w, l))'
                 /\ type[l] \in RequiresAllocation => Visible(w, l)'.days <= Left(w, employee[l], type[l])'
      BY <1>2, <1>3, <2>1, <2>2 DEF IsApproved
    <2>3. \A k \in Request : lock'[k] = w => WithinBalance(w, k)'
      BY <1>1, <1>3, <1>5 DEF WithinBalance
    <2> QED
      BY <1>4, <2>2, <2>3 DEF BalanceOK
  <1> QED
    BY <1>1, <1>5, OneBalanced

\* A call begins with its first record.
LEMMA BeginBalanced ==
    ASSUME IInv, DaysInv, BalanceInv, NEW w \in Worker, NEW method, NEW ids \in Seq(Row), ids # <<>>,
           Begin(w, method, ids)
    PROVE  BalanceInv' /\ DaysInv'
  <1>1. PICK c : c = [Idle EXCEPT !.pc = "update", !.method = method, !.ids = ids]
    OBVIOUS
  <1>2. c.ids = ids /\ c.method = method /\ c.at = 1 /\ c.days = 0
    BY <1>1 DEF Idle
  <1>3. /\ call'[w] = c /\ \A v \in Worker \ {w} : call'[v] = call[v]
        /\ UNCHANGED dbVars /\ call[w] = Idle
    BY <1>1 DEF Begin, IInv, CallInv
  <1>4. Subject(w)' = Head(ids)
    BY <1>2, <1>3 DEF Subject
  <1>5. \A k \in Request : lock[k] # w
    BY <1>3, IdleOK, LeaveAssumption DEF IInv, LockInv
  <1>6. Passes(w, method, Subject(w)')
    BY <1>4 DEF Begin
  <1>7. DaysInv'
    BY <1>2, <1>3 DEF DaysInv, dbVars, Begin
  <1> QED
    BY <1>2, <1>3, <1>5, <1>6, <1>7, PassedFits

\* The call goes on with its next record.
LEMMA CheckBalanced ==
    ASSUME IInv, DaysInv, BalanceInv, NEW w \in Worker, Check(w)
    PROVE  BalanceInv' /\ DaysInv'
  <1>1. PICK old, c : old = call[w] /\ c = [old EXCEPT !.pc = "update"]
    OBVIOUS
  <1>2. CallOK(old)
    BY <1>1 DEF IInv, CallInv
  <1>3. c.ids = old.ids /\ c.method = old.method /\ c.at = old.at /\ c.days = old.days
    BY ONLY <1>1, <1>2 DEF CallOK, IsCall
  <1>4. /\ call'[w] = c /\ \A v \in Worker \ {w} : call'[v] = call[v]
        /\ UNCHANGED dbVars
    BY <1>1 DEF Check, Goto, IInv, CallInv
  <1>5. Subject(w)' = Subject(w)
    BY <1>1, <1>3, <1>4 DEF Subject
  <1>6. Passes(w, old.method, Subject(w)')
    BY <1>1, <1>5 DEF Check
  <1>7. old.method = "approve" => \A k \in Request : lock[k] = w => WithinBalance(w, k)
    BY <1>1 DEF BalanceInv, BalanceOK
  <1>8. DaysInv'
    BY <1>1, <1>3, <1>4 DEF DaysInv, dbVars, Check
  <1>9. call'[w].method = old.method
    BY <1>3, <1>4
  <1> QED
    BY <1>4, <1>6, <1>7, <1>8, <1>9, PassedFits

\* A call that ends leaves the rows alone that the other approvals serve.
LEMMA EndBalanced ==
    ASSUME IInv, DaysInv, BalanceInv, NEW w \in Worker, call' = [call EXCEPT ![w] = Idle],
           \A r \in Row : lock'[r] = (IF lock[r] = w THEN NoTxn ELSE lock[r]),
           \A r \in Row : lock[r] # w => live'[r] = live[r] /\ committed'[r] = committed[r]
    PROVE  BalanceInv'
  <1>1. call'[w] = Idle /\ \A v \in Worker \ {w} : call'[v] = call[v]
    BY DEF IInv, CallInv
  <1>2. ASSUME NEW v \in Worker \ {w}, call[v].method = "approve", NEW r \in Row, Serves(v, employee[r])
        PROVE  committed'[r] = committed[r] /\ live'[r] = live[r] /\ lock'[r] = lock[r]
    <2>1. lock[r] # w
      BY <1>2 DEF IInv, LockInv, AloneInv
    <2> QED
      BY <2>1
  <1>3. \A v \in Worker \ {w} : \A r \in Row : lock'[r] = v => lock[r] = v
    BY NoTxnAssumption
  <1> QED
    BY <1>1, <1>2, <1>3, IdleOK, OneBalanced

\* COMMIT makes visible what was counted.
LEMMA CommitBalanced ==
    ASSUME IInv, DaysInv, BalanceInv, NEW w \in Worker, Commit(w)
    PROVE  BalanceInv' /\ DaysInv'
  <1>1. /\ committed' = [r \in Row |-> Visible(w, r)]
        /\ lock' = [r \in Row |-> IF lock[r] = w THEN NoTxn ELSE lock[r]]
        /\ live' = live
        /\ call' = [call EXCEPT ![w] = Idle]
    BY DEF Commit, CommitTxn
  <1>2. Idle.days \in Nat
    BY DEF Idle
  <1>3. DaysInv'
    BY <1>1, <1>2 DEF DaysInv, Visible, IInv, CallInv, Commit
  <1>4. \A r \in Row : lock[r] # w => live'[r] = live[r] /\ committed'[r] = committed[r]
    BY <1>1 DEF Visible
  <1> QED
    BY <1>1, <1>3, <1>4, EndBalanced

\* ROLLBACK keeps the days that are counted.
LEMMA AbortBalanced ==
    ASSUME IInv, DaysInv, BalanceInv, NEW w \in Worker, Abort(w)
    PROVE  BalanceInv' /\ DaysInv'
  <1>1. /\ live' = [r \in Row |-> IF lock[r] = w THEN committed[r] ELSE live[r]]
        /\ lock' = [r \in Row |-> IF lock[r] = w THEN NoTxn ELSE lock[r]]
        /\ committed' = committed
        /\ call' = [call EXCEPT ![w] = Idle]
    BY DEF Abort, RollbackTxn
  <1>2. Idle.days \in Nat
    BY DEF Idle
  <1>3. DaysInv'
    BY <1>1, <1>2 DEF DaysInv, IInv, CallInv, Abort
  <1>4. \A r \in Row : lock[r] # w => live'[r] = live[r] /\ committed'[r] = committed[r]
    BY <1>1
  <1> QED
    BY <1>1, <1>3, <1>4, EndBalanced

\* The UPDATE of the state: an approval counts from then on, and its days were
\* compared with what is left; an allocation that is approved only adds to it.
LEMMA UpdateStateBalanced ==
    ASSUME IInv, TypeInv, DaysInv, BalanceInv, NEW w \in Worker, UpdateState(w)
    PROVE  BalanceInv' /\ DaysInv'
  <1>0. PICK r : r = Subject(w)
    OBVIOUS
  <1> DEFINE hit == {s \in {r} : live[s].present}
             new == [s \in hit |-> [live[s] EXCEPT !.state = To[call[w].method]]]
  <1>1. PICK old, v, row : old = call[w] /\ v = live[r] /\ row = [v EXCEPT !.state = To[old.method]]
    OBVIOUS
  <1>2. CallOK(old) /\ old.pc = "update" /\ r \in Row /\ Serves(w, employee[r])
    BY <1>0, <1>1, SubjectServed DEF IInv, CallInv, UpdateState, At
  <1>3. /\ committed' = committed /\ Free(w, r)
        /\ live' = [s \in Row |-> IF s \in DOMAIN new THEN new[s] ELSE live[s]]
        /\ lock' = [s \in Row |-> IF s \in DOMAIN new THEN w ELSE lock[s]]
    BY <1>0 DEF UpdateState, Write
  <1>4. /\ \A s \in Row \ {r} : live'[s] = live[s] /\ lock'[s] = lock[s]
        /\ v.present => live'[r] = row /\ lock'[r] = w
        /\ ~v.present => live'[r] = live[r] /\ lock'[r] = lock[r]
    BY <1>1, <1>2, <1>3
  <1>5. row.present = v.present /\ row.days = v.days /\ row.state = To[old.method]
    <2>1. ASSUME IsLeave(v) \/ IsAllocation(v)
          PROVE  row.present = v.present /\ row.days = v.days /\ row.state = To[old.method]
      BY ONLY <1>1, <2>1 DEF IsLeave, IsAllocation
    <2>2. IsLeave(v) \/ IsAllocation(v)
      BY <1>1, <1>2, LeaveAssumption DEF IInv, RowInv, TypeInv, RowOK
    <2> QED
      BY <2>1, <2>2
  <1>6. \A u \in Worker \ {w} : call'[u] = call[u]
    BY DEF UpdateState, IInv, CallInv
  <1>7. call'[w].pc # "update" /\ call'[w].method = old.method /\ call'[w].days = old.days
    <2>1. CASE old.at = Len(old.ids)
      <3>1. PICK c : c = [old EXCEPT !.pc = "commit"]
        OBVIOUS
      <3>2. c.pc = "commit" /\ c.method = old.method /\ c.days = old.days
        BY ONLY <1>2, <3>1 DEF CallOK, IsCall
      <3>3. call'[w] = c
        BY <1>1, <2>1, <3>1 DEF UpdateState, IInv, CallInv
      <3> QED
        BY <3>2, <3>3
    <2>2. CASE old.at # Len(old.ids)
      <3>1. PICK c : c = [old EXCEPT !.pc = "check", !.at = old.at + 1]
        OBVIOUS
      <3>2. c.pc = "check" /\ c.method = old.method /\ c.days = old.days
        BY ONLY <1>2, <3>1 DEF CallOK, IsCall
      <3>3. call'[w] = c
        BY <1>1, <2>2, <3>1 DEF UpdateState, IInv, CallInv
      <3> QED
        BY <3>2, <3>3
    <2> QED
      BY <2>1, <2>2
  <1>8. DaysInv'
    <2>1. \A s \in Row : live'[s].days = live[s].days
      BY <1>1, <1>4, <1>5
    <2>2. \A u \in Worker : call'[u].days = call[u].days
      BY <1>1, <1>6, <1>7
    <2> QED
      BY <1>3, <2>1, <2>2 DEF DaysInv, UpdateState
  <1>9. Visible(w, r) = v /\ v.days \in Nat
    BY <1>1, <1>2, <1>3 DEF Free, Visible, IInv, RowInv, DaysInv
  <1>10. \A s \in Row \ {r} : Visible(w, s)' = Visible(w, s)
    BY <1>3, <1>4 DEF Visible
  <1>11. v.present => Visible(w, r)' = row
    BY <1>4 DEF Visible
  <1>12. ~v.present => Visible(w, r)' = v
    BY <1>1, <1>3, <1>4, <1>9 DEF Visible
  <1>13. \A s \in Row : Visible(w, s).days' = Visible(w, s).days
    BY <1>5, <1>9, <1>10, <1>11, <1>12
  <1>14. ASSUME old.method = "approve", NEW k \in Request, lock'[k] = w
         PROVE  WithinBalance(w, k)'
    <2>1. PICK e, t : e = employee[k] /\ t = type[k]
      OBVIOUS
    <2>2. BalanceOK(w)
      BY <1>1, <1>14 DEF BalanceInv
    <2>3. r \in Request => /\ v.present /\ ~IsApproved(v)
                           /\ type[r] \in RequiresAllocation => v.days <= Left(w, employee[r], type[r])
      BY <1>0, <1>1, <1>2, <1>9, <2>2 DEF BalanceOK
    <2>4. k # r => WithinBalance(w, k)
      BY <1>4, <1>14, <2>2, LeaveAssumption DEF BalanceOK
    <2>5. v.present => IsApproved(row)
      BY <1>5, <1>14 DEF IsApproved, To
    <2>6. ASSUME k # r,
                 employee[r] = e /\ type[r] = t => (IsApproved(Visible(w, r))' <=> IsApproved(Visible(w, r)))
          PROVE  WithinBalance(w, k)'
      <3>1. Left(w, e, t)' = Left(w, e, t)
        <4>1. \A s \in Row : employee[s] = e /\ type[s] = t =>
                 /\ IsApproved(Visible(w, s))' <=> IsApproved(Visible(w, s))
                 /\ Visible(w, s).days' = Visible(w, s).days
          BY <1>10, <1>13, <2>6 DEF IsApproved
        <4> QED
          BY <4>1, LeftSame
      <3> QED
        BY <2>1, <2>4, <2>6, <3>1 DEF WithinBalance
    <2>7. CASE v.present /\ ~IsApproved(v) /\ employee[r] = e /\ type[r] = t
      <3>1. ~IsApproved(Visible(w, r)) /\ IsApproved(Visible(w, r))'
        BY <1>9, <1>11, <2>5, <2>7 DEF IsApproved
      <3>2. \A s \in Row \ {r} : IsApproved(Visible(w, s))' <=> IsApproved(Visible(w, s))
        BY <1>10 DEF IsApproved
      <3>3. Request \in SUBSET Row /\ Allocation \in SUBSET Row
        BY LeaveAssumption
      <3>4. PICK taken \in Nat, granted \in Nat : /\ taken = Days(w, Request, e, t)
                                                  /\ granted = Days(w, Allocation, e, t)
        BY <3>3, DaysType
      <3>5. Left(w, e, t) = granted - taken
        BY <3>4 DEF Left
      <3>6. CASE r \in Request
        <4>1. r \notin Allocation
          BY <3>6, LeaveAssumption
        <4>2. Days(w, Request, e, t)' = taken + v.days
          <5>1. /\ \A s \in Request : Visible(w, s).days' = Visible(w, s).days
                /\ \A s \in Request \ {r} : IsApproved(Visible(w, s))' <=> IsApproved(Visible(w, s))
            BY <1>13, <3>2, <3>3
          <5> QED
            BY <1>9, <2>7, <3>1, <3>3, <3>4, <3>6, <5>1, DaysGrow
        <4>3. Days(w, Allocation, e, t)' = granted
          <5>1. \A s \in Allocation : employee[s] = e /\ type[s] = t =>
                   /\ IsApproved(Visible(w, s))' <=> IsApproved(Visible(w, s))
                   /\ Visible(w, s).days' = Visible(w, s).days
            BY <1>13, <3>2, <3>3, <4>1
          <5> QED
            BY <3>3, <3>4, <5>1, DaysSame
        <4>4. Left(w, e, t)' = granted - (taken + v.days)
          BY <4>2, <4>3 DEF Left
        <4>5. t \in RequiresAllocation => v.days <= granted - taken
          BY <2>3, <2>7, <3>5, <3>6
        <4> QED
          BY <1>9, <2>1, <3>4, <4>4, <4>5 DEF WithinBalance
      <3>7. CASE r \in Allocation
        <4>1. r \notin Request /\ k # r
          BY <3>7, LeaveAssumption
        <4>2. Days(w, Allocation, e, t)' = granted + v.days
          <5>1. /\ \A s \in Allocation : Visible(w, s).days' = Visible(w, s).days
                /\ \A s \in Allocation \ {r} : IsApproved(Visible(w, s))' <=> IsApproved(Visible(w, s))
            BY <1>13, <3>2, <3>3
          <5> QED
            BY <1>9, <2>7, <3>1, <3>3, <3>4, <3>7, <5>1, DaysGrow
        <4>3. Days(w, Request, e, t)' = taken
          <5>1. \A s \in Request : employee[s] = e /\ type[s] = t =>
                   /\ IsApproved(Visible(w, s))' <=> IsApproved(Visible(w, s))
                   /\ Visible(w, s).days' = Visible(w, s).days
            BY <1>13, <3>2, <3>3, <4>1
          <5> QED
            BY <3>3, <3>4, <5>1, DaysSame
        <4>4. Left(w, e, t)' = (granted + v.days) - taken
          BY <4>2, <4>3 DEF Left
        <4>5. t \in RequiresAllocation => granted - taken >= 0
          BY <2>1, <2>4, <3>5, <4>1 DEF WithinBalance
        <4> QED
          BY <1>9, <2>1, <3>4, <4>4, <4>5 DEF WithinBalance
      <3> QED
        BY <1>2, <3>6, <3>7, LeaveAssumption
    <2>8. CASE ~(v.present /\ ~IsApproved(v) /\ employee[r] = e /\ type[r] = t)
      <3>1. k # r
        BY <2>1, <2>3, <2>8
      <3>2. employee[r] = e /\ type[r] = t => (IsApproved(Visible(w, r))' <=> IsApproved(Visible(w, r)))
        BY <1>9, <1>11, <1>12, <2>5, <2>8 DEF IsApproved
      <3> QED
        BY <2>6, <3>1, <3>2
    <2> QED
      BY <2>7, <2>8
  <1>15. call'[w].method = "approve" => BalanceOK(w)'
    BY <1>7, <1>14 DEF BalanceOK
  <1>16. ASSUME NEW u \in Worker \ {w}, call[u].method = "approve", NEW s \in Row, Serves(u, employee[s])
         PROVE  committed'[s] = committed[s] /\ live'[s] = live[s] /\ lock'[s] = lock[s]
    <2>1. s # r
      BY <1>2, <1>16 DEF IInv, AloneInv
    <2> QED
      BY <1>3, <1>4, <2>1
  <1>17. \A u \in Worker \ {w} : \A s \in Row : lock'[s] = u => lock[s] = u
    BY <1>4
  <1>18. BalanceInv'
    BY <1>6, <1>15, <1>16, <1>17, OneBalanced
  <1> QED
    BY <1>8, <1>18

\* Nobody approves at the start.
LEMMA InitBalanced == Init => BalanceInv /\ DaysInv
  <1> SUFFICES ASSUME Init PROVE BalanceInv /\ DaysInv
    OBVIOUS
  <1>1. \A w \in Worker : call[w] = Idle
    BY DEF Init
  <1>2. Idle.days \in Nat
    BY DEF Idle
  <1>3. \A r \in Row : committed[r] = NoRecord(r) /\ live[r] = NoRecord(r) /\ NoRecord(r).days = 0
    BY DEF Init, NoRecord
  <1>4. BalanceInv
    BY <1>1, IdleOK DEF BalanceInv
  <1>5. DaysInv
    BY <1>1, <1>2, <1>3 DEF DaysInv, Init
  <1> QED
    BY <1>4, <1>5

\* Every step keeps the balances and the days.
LEMMA NextBalanced ==
    ASSUME ApprovalsAlone, CarefulSaves, IInv, TypeInv, DaysInv, BalanceInv, [Next]_vars
    PROVE  BalanceInv' /\ DaysInv'
  <1>1. ASSUME NEW w \in Worker, Stepping(w)
        PROVE  BalanceInv' /\ DaysInv'
    <2>1. \A a \in Allocation : <<a>> \in Seq(Row) /\ <<a>> # <<>>
      BY LeaveAssumption
    <2>2. \A ids \in Batches : ids \in Seq(Row) /\ ids # <<>>
      BY LeaveAssumption
    <2> QED
      BY <1>1, <2>1, <2>2, BeginBalanced, CheckBalanced, UpdateStateBalanced, CommitBalanced DEF Stepping
  <1>2. CASE UNCHANGED vars
    <2>1. /\ \A v \in Worker : call'[v].days \in Nat
          /\ form' # Closed => form'.days \in Nat
      BY <1>2 DEF vars, DaysInv
    <2> QED
      BY <1>2, <2>1, ReadApart, ApartBalanced DEF vars
  <1> QED
    BY <1>1, <1>2, EditingApart, ApartBalanced, AbortBalanced DEF Next

\* What COMMIT makes visible is what the transaction saw.
LEMMA CommitDays ==
    ASSUME NEW w \in Worker, Commit(w), NEW rows \in SUBSET Row, NEW e, NEW t
    PROVE  ApprovedDays(rows, e, t)' = Days(w, rows, e, t)
  <1>1. \A r \in Row : committed'[r] = Visible(w, r)
    BY DEF Commit, CommitTxn
  <1>2. PICK S, f : S = Counted(w, rows, e, t) /\ f = [r \in rows |-> Visible(w, r).days]
    OBVIOUS
  <1>3. [r \in rows |-> committed[r].days]' = f
    BY <1>1, <1>2
  <1>4. {r \in rows : employee[r] = e /\ type[r] = t /\ Approved(r)}' = S
    BY <1>1, <1>2 DEF Approved, Counted, IsApproved
  <1>5. ApprovedDays(rows, e, t)' = SumFunctionOnSet(f, S)
    BY <1>3, <1>4 DEF ApprovedDays
  <1> QED
    BY <1>2, <1>5, DaysCounted

\* An approval becomes visible by a COMMIT alone, and fits the balance then.
LEMMA ApprovalFits ==
    ASSUME ApprovalsAlone, CarefulSaves, IInv, TypeInv, DaysInv, BalanceInv, [Next]_vars,
           NEW l \in Request, ~Approved(l), Approved(l)', type[l] \in RequiresAllocation
    PROVE  ApprovedDays(Request, employee[l], type[l])' <= ApprovedDays(Allocation, employee[l], type[l])'
  <1>1. l \in Row /\ Request \in SUBSET Row /\ Allocation \in SUBSET Row
    BY LeaveAssumption
  <1>2. committed' # committed
    BY DEF Approved
  <1>3. \E w \in Worker : Commit(w)
    <2>1. \A w \in Worker : ~Abort(w) /\ ~Check(w) /\ ~UpdateState(w)
      BY <1>2 DEF Abort, RollbackTxn, Check, UpdateState, Write, dbVars
    <2>2. \A w \in Worker : \A m, ids : ~Begin(w, m, ids)
      BY <1>2 DEF Begin, dbVars
    <2>3. ~UNCHANGED vars
      BY <1>2 DEF vars, dbVars
    <2>4. ~Apart
      BY DEF Apart
    <2> QED
      BY <2>1, <2>2, <2>3, <2>4, EditingApart DEF Next, Stepping
  <1>4. PICK w \in Worker : Commit(w)
    BY <1>3
  <1>5. lock[l] = w /\ live[l].present /\ live[l].state = "validate"
    BY <1>1, <1>4 DEF Commit, CommitTxn, Approved, Visible
  <1>6. call[w].method = "approve"
    BY <1>1, <1>5 DEF IInv, LockInv
  <1>7. WithinBalance(w, l)
    BY <1>5, <1>6 DEF BalanceInv, BalanceOK
  <1>8. PICK e, t : e = employee[l] /\ t = type[l]
    OBVIOUS
  <1>9. PICK taken \in Nat, granted \in Nat : /\ taken = Days(w, Request, e, t)
                                              /\ granted = Days(w, Allocation, e, t)
    BY <1>1, DaysType
  <1>10. taken <= granted
    <2>1. Left(w, e, t) = granted - taken
      BY <1>9 DEF Left
    <2> QED
      BY <1>7, <1>8, <2>1 DEF WithinBalance
  <1>11. ApprovedDays(Request, e, t)' = taken /\ ApprovedDays(Allocation, e, t)' = granted
    BY <1>1, <1>4, <1>9, CommitDays
  <1> QED
    BY <1>8, <1>10, <1>11

\* No approval takes the balance below zero: balanceOf counts what the call's
\* own transaction has approved so far, and nothing else of the employee moves
\* between its SELECTs and its COMMIT, so what is approved when an approval
\* becomes visible fits the allocations that are.
THEOREM BalanceKept ==
    ASSUME ApprovalsAlone, CarefulSaves
    PROVE  Spec => ApprovalsWithinBalance
  <1> DEFINE Fits == \A l \in Request :
                        ~Approved(l) /\ Approved(l)' /\ type[l] \in RequiresAllocation
                        => (ApprovedDays(Request, employee[l], type[l])
                              <= ApprovedDays(Allocation, employee[l], type[l]))'
  <1>1. Init => IInv /\ TypeInv /\ DaysInv /\ BalanceInv
    BY InitIInv, InitTyped, InitBalanced
  <1>2. IInv /\ TypeInv /\ DaysInv /\ BalanceInv /\ [Next]_vars
        => IInv' /\ TypeInv' /\ DaysInv' /\ BalanceInv'
    BY NextIInv, NextTyped, NextBalanced
  <1>3. IInv /\ TypeInv /\ DaysInv /\ BalanceInv /\ [Next]_vars => [Fits]_vars
    BY ApprovalFits
  <1> QED
    BY <1>1, <1>2, <1>3, PTL DEF Spec, ApprovalsWithinBalance
=============================================================================
