---------------------------- MODULE ServerProofs ----------------------------
(***************************************************************************)
(* Proofs about Server, for any databases, jobs, questions, pool sizes and *)
(* crashes: a job never overlaps itself, statements go to the database     *)
(* they belong to, a question ends once, and no connection, due row or worker   *)
(* is lost or counted twice.                                               *)
(***************************************************************************)
EXTENDS Server, FiniteSetTheorems, SequenceTheorems, TLAPS

CronThread == {Loop, Runner}

\* Between entering the guard and leaving it.
Inside == {"row", "body", "succeeded", "failed", "done"}

\* Where a thread of the scheduler asks for a connection.
Asks == {"due", "find", "row", "succeeded", "failed"}

\* Where it works for a database.
AtWork == Asks \cup {"guard", "body", "done", "job"}

\* The fields of what a thread does; nothing is said of their values.
IsExec(e) == e \in [pc : {e.pc}, db : {e.db}, code : {e.code}, count : {e.count},
                    jobs : {e.jobs}, dbs : {e.dbs}]

PoolShape ==
    /\ current = [t \in Thread |-> current[t]]
    /\ lease = [t \in Thread |-> lease[t]]

ExecShape ==
    /\ exec = [t \in CronThread |-> exec[t]]
    /\ \A t \in CronThread : IsExec(exec[t]) /\ exec[t].dbs \in Seq(Tenant)

\* A thread inside the guard holds its key, and no other thread inside has it.
GuardInv ==
    /\ \A t \in CronThread : exec[t].pc \in Inside => Key(t) \in running
    /\ \A s, t \in CronThread :
          s # t /\ exec[s].pc \in Inside /\ exec[t].pc \in Inside => Key(s) # Key(t)

\* A thread of the scheduler is pinned to the database it works for, and holds
\* a connection to that one only, and only where it asks for one.
RouteInv ==
    \A t \in CronThread :
       /\ current[t] = exec[t].db
       /\ exec[t].pc \in AtWork => exec[t].db \in Tenant
       /\ lease[t] \in {NoTenant, exec[t].db}
       /\ lease[t] # NoTenant => exec[t].pc \in Asks

CronInv == PoolShape /\ ExecShape /\ GuardInv /\ RouteInv

-----------------------------------------------------------------------------
(* A step of the scheduler sets what one thread does, *)

\* What executes jobs is a thread.
LEMMA Threads == CronThread \subseteq Thread
  BY CronAssumption DEF CronThread

\* An execution that goes on within its type changes no other one.
LEMMA ExecKeeps ==
    ASSUME ExecShape, NEW t \in CronThread, NEW e, IsExec(e), e.dbs \in Seq(Tenant),
           exec' = [exec EXCEPT ![t] = e]
    PROVE  /\ ExecShape'
           /\ exec'[t] = e
           /\ \A s \in CronThread \ {t} : exec'[s] = exec[s]
  <1>1. \A s \in CronThread : exec'[s] = IF s = t THEN e ELSE exec[s]
    BY DEF ExecShape
  <1>2. exec' = [s \in CronThread |-> exec'[s]]
    BY DEF ExecShape
  <1> QED
    BY <1>1, <1>2 DEF ExecShape

\* and unless it enters or leaves the guard, it keeps its key there.
LEMMA GuardKeeps ==
    ASSUME CronInv, running' = running,
           \A t \in CronThread : exec'[t].pc \in Inside =>
              exec[t].pc \in Inside /\ exec'[t].db = exec[t].db /\ exec'[t].code = exec[t].code
    PROVE  GuardInv'
  BY DEF CronInv, GuardInv, Key

\* The connection the thread asked for is to the database it works for.
LEMMA LeaseKeeps ==
    ASSUME CronInv, NEW t \in CronThread, Lease(t)
    PROVE  CronInv'
  <1>1. Routed(t) = exec[t].db
    BY DEF CronInv, RouteInv, Routed, Lease, Waiting, Asks, AtWork
  <1>2. lease' = [lease EXCEPT ![t] = exec[t].db]
    BY <1>1 DEF Lease, Acquire
  <1>3. PoolShape'
    BY <1>2 DEF Lease, CronInv, PoolShape
  <1>4. RouteInv'
    BY <1>2, Threads DEF CronInv, PoolShape, RouteInv, Lease, Waiting, cronVars, Asks
  <1>5. ExecShape' /\ GuardInv'
    BY GuardKeeps DEF CronInv, ExecShape, Lease, cronVars
  <1> QED
    BY <1>3, <1>4, <1>5 DEF CronInv

\* A release ends one thread's lease and nothing else.
LEMMA ReleaseEffect ==
    ASSUME PoolShape, NEW t \in Thread, Release(t)
    PROVE  /\ lease' = [u \in Thread |-> lease'[u]]
           /\ lease'[t] = NoTenant
           /\ \A u \in Thread \ {t} : lease'[u] = lease[u]
  BY DEF PoolShape, Release

\* Naming the tenant of a thread changes no other thread.
LEMMA SetTenantEffect ==
    ASSUME PoolShape, NEW t \in Thread, NEW d, SetTenant(t, d)
    PROVE  /\ current' = [u \in Thread |-> current'[u]]
           /\ current'[t] = d
           /\ \A u \in Thread \ {t} : current'[u] = current[u]
  BY DEF PoolShape, SetTenant

\* A step of thread t that moves its tenant and its connection with its database.
LEMMA MoveKeeps ==
    ASSUME ExecShape, RouteInv, NEW t \in CronThread, NEW e, IsExec(e), e.dbs \in Seq(Tenant),
           exec' = [exec EXCEPT ![t] = e],
           e.pc \in AtWork => e.db \in Tenant,
           current'[t] = e.db,
           lease'[t] \in {NoTenant, e.db},
           lease'[t] # NoTenant => e.pc \in Asks,
           \A s \in CronThread \ {t} : current'[s] = current[s] /\ lease'[s] = lease[s]
    PROVE  /\ ExecShape' /\ RouteInv'
           /\ exec'[t] = e
           /\ \A s \in CronThread \ {t} : exec'[s] = exec[s]
  <1>1. /\ ExecShape'
        /\ exec'[t] = e
        /\ \A s \in CronThread \ {t} : exec'[s] = exec[s]
    BY ExecKeeps
  <1>2. RouteInv'
    BY <1>1 DEF RouteInv
  <1> QED
    BY <1>1, <1>2

\* The same for a step that neither takes nor drops a key.
LEMMA StepKeeps ==
    ASSUME CronInv, NEW t \in CronThread, NEW e, IsExec(e), e.dbs \in Seq(Tenant),
           exec' = [exec EXCEPT ![t] = e], running' = running, PoolShape',
           e.pc \in Inside =>
              exec[t].pc \in Inside /\ e.db = exec[t].db /\ e.code = exec[t].code,
           e.pc \in AtWork => e.db \in Tenant,
           current'[t] = e.db,
           lease'[t] \in {NoTenant, e.db},
           lease'[t] # NoTenant => e.pc \in Asks,
           \A s \in CronThread \ {t} : current'[s] = current[s] /\ lease'[s] = lease[s]
    PROVE  CronInv'
  <1>1. /\ ExecShape' /\ RouteInv'
        /\ exec'[t] = e
        /\ \A s \in CronThread \ {t} : exec'[s] = exec[s]
    BY MoveKeeps DEF CronInv
  <1>2. GuardInv'
    BY <1>1, GuardKeeps
  <1> QED
    BY <1>1, <1>2 DEF CronInv

\* The same for a step that stays with its database, and holds no connection
\* afterwards.
LEMMA LocalStepKeeps ==
    ASSUME CronInv, NEW t \in CronThread, NEW e, IsExec(e), e.dbs \in Seq(Tenant),
           exec' = [exec EXCEPT ![t] = e], running' = running, current' = current,
           Release(t) \/ (lease' = lease /\ lease[t] = NoTenant),
           e.pc \in Inside => exec[t].pc \in Inside /\ e.code = exec[t].code,
           e.pc \in AtWork => exec[t].pc \in AtWork,
           e.db = exec[t].db
    PROVE  CronInv'
  <1>1. /\ lease' = [u \in Thread |-> lease'[u]]
        /\ lease'[t] = NoTenant
        /\ \A s \in CronThread \ {t} : lease'[s] = lease[s]
    BY ReleaseEffect, Threads DEF CronInv, PoolShape
  <1>2. /\ PoolShape'
        /\ current'[t] = e.db
        /\ e.pc \in AtWork => e.db \in Tenant
    BY <1>1 DEF CronInv, PoolShape, RouteInv
  <1> QED
    BY <1>1, <1>2, StepKeeps

\* The loop wakes up.
LEMMA TickKeeps ==
    ASSUME CronInv, Tick
    PROVE  CronInv'
  <1>1. PICK c : c = exec[Loop]
    OBVIOUS
  <1>2. PICK e : e = [c EXCEPT !.pc = "tenant", !.dbs = tenants]
    OBVIOUS
  <1>3. Loop \in CronThread /\ IsExec(c)
    BY <1>1 DEF CronThread, CronInv, ExecShape
  <1>4. IsExec(e) /\ e.pc = "tenant" /\ e.db = c.db /\ e.dbs = tenants
    BY ONLY <1>2, <1>3 DEF IsExec
  <1>5. exec' = [exec EXCEPT ![Loop] = e]
    BY <1>1, <1>2, <1>3 DEF Tick, CronInv, ExecShape
  <1>6. lease[Loop] = NoTenant
    BY <1>3 DEF Tick, In, CronInv, RouteInv, Asks
  <1> QED
    BY <1>1, <1>3, <1>4, <1>5, <1>6, CronAssumption, LocalStepKeeps
    DEF Tick, poolVars, Inside, AtWork, Asks

\* The only step that gives a thread another database moves its tenant too.
LEMMA TickTenantKeeps ==
    ASSUME CronInv, TickTenant
    PROVE  CronInv'
  <1>1. PICK c : c = exec[Loop]
    OBVIOUS
  <1>2. PICK e : e = [c EXCEPT !.pc = "due", !.db = Head(c.dbs), !.dbs = Tail(c.dbs)]
    OBVIOUS
  <1>3. Loop \in CronThread /\ Loop \in Thread /\ IsExec(c) /\ c.dbs \in Seq(Tenant) /\ c.dbs # <<>>
    BY <1>1, Threads DEF CronThread, CronInv, ExecShape, TickTenant
  <1>4. IsExec(e) /\ e.pc = "due" /\ e.db = Head(c.dbs) /\ e.dbs = Tail(c.dbs)
    BY ONLY <1>2, <1>3 DEF IsExec
  <1>5. exec' = [exec EXCEPT ![Loop] = e]
    BY <1>1, <1>2, <1>3 DEF TickTenant, CronInv, ExecShape
  <1>6. lease' = lease /\ lease[Loop] = NoTenant
    BY <1>3 DEF TickTenant, In, CronInv, RouteInv, Asks
  <1>7. /\ current'[Loop] = e.db
        /\ PoolShape'
        /\ \A s \in CronThread \ {Loop} : current'[s] = current[s]
    BY <1>3, <1>4, <1>6, <1>1, SetTenantEffect, Threads DEF TickTenant, CronInv, PoolShape
  <1>8. e.db \in Tenant /\ e.dbs \in Seq(Tenant)
    BY <1>3, <1>4
  <1>9. running' = running /\ e.pc \notin Inside
    BY <1>4 DEF TickTenant, Inside
  <1> QED
    BY <1>3, <1>4, <1>5, <1>6, <1>7, <1>8, <1>9, StepKeeps

\* A thread at rest executes nothing.
LEMMA RestingIsExec ==
    IsExec(Resting) /\ Resting.pc = "idle" /\ Resting.db = NoTenant /\ Resting.dbs \in Seq(Tenant)
  BY DEF Resting, IsExec

\* An execution lets go of its guard.
LEMMA LeaveKeeps ==
    ASSUME CronInv, NEW t \in CronThread, Leave(t)
    PROVE  CronInv'
  <1>1. IsExec(Resting) /\ Resting.pc = "idle" /\ Resting.db = NoTenant /\ Resting.dbs \in Seq(Tenant)
    BY RestingIsExec
  <1>2. lease' = lease /\ lease[t] = NoTenant
    BY DEF Leave, In, CronInv, RouteInv, Asks
  <1>3. /\ current'[t] = NoTenant
        /\ PoolShape'
        /\ \A s \in CronThread \ {t} : current'[s] = current[s]
    BY <1>2, SetTenantEffect, Threads DEF Leave, CronInv, PoolShape
  <1>4. exec' = [exec EXCEPT ![t] = Resting] /\ running' = running
    BY DEF Leave
  <1> QED
    BY <1>1, <1>2, <1>3, <1>4, StepKeeps DEF Inside, AtWork, Asks

\* "Run now" begins.
LEMMA RunNowKeeps ==
    ASSUME CronInv, NEW d \in Tenant, NEW code, RunNow(d, code)
    PROVE  CronInv'
  <1>1. PICK e : e = [Resting EXCEPT !.pc = "find", !.db = d, !.code = code]
    OBVIOUS
  <1>2. IsExec(e) /\ e.pc = "find" /\ e.db = d /\ e.dbs \in Seq(Tenant)
    <2> SUFFICES ASSUME NEW c, c = Resting, IsExec(c), c.dbs \in Seq(Tenant)
                 PROVE  IsExec(e) /\ e.pc = "find" /\ e.db = d /\ e.dbs \in Seq(Tenant)
      BY RestingIsExec
    <2>1. e = [c EXCEPT !.pc = "find", !.db = d, !.code = code]
      BY <1>1
    <2> QED
      BY <2>1 DEF IsExec
  <1>3. Runner \in CronThread /\ Runner \in Thread
    BY Threads DEF CronThread
  <1>4. lease' = lease /\ lease[Runner] = NoTenant
    BY <1>3 DEF RunNow, In, CronInv, RouteInv, Asks
  <1>5. /\ current'[Runner] = d
        /\ PoolShape'
        /\ \A s \in CronThread \ {Runner} : current'[s] = current[s]
    BY <1>3, <1>4, SetTenantEffect, Threads DEF RunNow, CronInv, PoolShape
  <1>6. exec' = [exec EXCEPT ![Runner] = e] /\ running' = running
    BY <1>1 DEF RunNow
  <1> QED
    BY <1>2, <1>3, <1>4, <1>5, <1>6, StepKeeps DEF Inside

\* The run by hand finds the row of its job, or nothing.
LEMMA FindKeeps ==
    ASSUME CronInv, FindRow \/ RowNotFound
    PROVE  CronInv'
  <1>1. PICK c : c = exec[Runner]
    OBVIOUS
  <1>2. PICK pc \in {"guard", "leave"} : exec' = [exec EXCEPT ![Runner].pc = pc]
    BY DEF FindRow, RowNotFound, Step
  <1>3. PICK e : e = [c EXCEPT !.pc = pc]
    OBVIOUS
  <1>4. Runner \in CronThread /\ IsExec(c) /\ c.dbs \in Seq(Tenant)
    BY <1>1 DEF CronThread, CronInv, ExecShape
  <1>5. IsExec(e) /\ e.pc = pc /\ e.db = c.db /\ e.dbs = c.dbs
    BY ONLY <1>3, <1>4 DEF IsExec
  <1>6. exec' = [exec EXCEPT ![Runner] = e]
    BY <1>1, <1>2, <1>3, <1>4 DEF CronInv, ExecShape
  <1>7. Release(Runner) \/ (lease' = lease /\ lease[Runner] = NoTenant)
    BY DEF FindRow, RowNotFound
  <1>8. running' = running /\ current' = current /\ exec[Runner].pc = "find"
    BY DEF FindRow, RowNotFound, In
  <1> QED
    BY <1>1, <1>2, <1>4, <1>5, <1>6, <1>7, <1>8, LocalStepKeeps DEF Inside, AtWork, Asks

\* The loop reads which jobs are due.
LEMMA ReadDueKeeps ==
    ASSUME CronInv, ReadDue
    PROVE  CronInv'
  <1>1. PICK c : c = exec[Loop]
    OBVIOUS
  <1>2. PICK e : e = [c EXCEPT !.pc = "job", !.jobs = exec'[Loop].jobs]
    OBVIOUS
  <1>3. Loop \in CronThread /\ IsExec(c) /\ c.dbs \in Seq(Tenant)
    BY <1>1 DEF CronThread, CronInv, ExecShape
  <1>4. IsExec(e) /\ e.pc = "job" /\ e.db = c.db /\ e.dbs = c.dbs
    BY ONLY <1>2, <1>3 DEF IsExec
  <1>5. exec' = [exec EXCEPT ![Loop] = e]
    BY <1>1, <1>2, <1>3 DEF ReadDue, CronInv, ExecShape
  <1> QED
    BY <1>1, <1>3, <1>4, <1>5, LocalStepKeeps
    DEF ReadDue, In, Inside, AtWork, Asks

\* The loop goes on when they cannot be read.
LEMMA ScheduleUnreadKeeps ==
    ASSUME CronInv, ScheduleUnread
    PROVE  CronInv'
  <1>1. PICK c : c = exec[Loop]
    OBVIOUS
  <1>2. PICK e : e = [c EXCEPT !.pc = "tenant"]
    OBVIOUS
  <1>3. Loop \in CronThread /\ IsExec(c) /\ c.dbs \in Seq(Tenant)
    BY <1>1 DEF CronThread, CronInv, ExecShape
  <1>4. IsExec(e) /\ e.pc = "tenant" /\ e.db = c.db /\ e.dbs = c.dbs
    BY ONLY <1>2, <1>3 DEF IsExec
  <1>5. exec' = [exec EXCEPT ![Loop] = e]
    BY <1>1, <1>2, <1>3 DEF ScheduleUnread, Step, CronInv, ExecShape
  <1> QED
    BY <1>1, <1>3, <1>4, <1>5, LocalStepKeeps
    DEF ScheduleUnread, In, Inside, AtWork, Asks

\* The loop takes the next job.
LEMMA NextJobKeeps ==
    ASSUME CronInv, NextJob
    PROVE  CronInv'
  <1>1. PICK c : c = exec[Loop]
    OBVIOUS
  <1>2. PICK e : e = IF c.jobs = <<>> THEN [c EXCEPT !.pc = "tenant"]
                     ELSE [c EXCEPT !.pc = "guard", !.code = Head(c.jobs), !.jobs = Tail(c.jobs)]
    OBVIOUS
  <1>3. Loop \in CronThread /\ IsExec(c) /\ c.dbs \in Seq(Tenant)
    BY <1>1 DEF CronThread, CronInv, ExecShape
  <1>4. IsExec(e) /\ e.pc \in {"tenant", "guard"} /\ e.db = c.db /\ e.dbs = c.dbs
    <2>1. CASE c.jobs = <<>>
      <3>1. e = [c EXCEPT !.pc = "tenant"]
        BY <1>2, <2>1
      <3> QED
        BY ONLY <3>1, <1>3 DEF IsExec
    <2>2. CASE c.jobs # <<>>
      <3>1. e = [c EXCEPT !.pc = "guard", !.code = Head(c.jobs), !.jobs = Tail(c.jobs)]
        BY <1>2, <2>2
      <3> QED
        BY ONLY <3>1, <1>3 DEF IsExec
    <2> QED
      BY <2>1, <2>2
  <1>5. exec' = [exec EXCEPT ![Loop] = e]
    BY <1>1, <1>2 DEF NextJob
  <1>6. lease[Loop] = NoTenant /\ c.pc = "job"
    BY <1>1, <1>3 DEF NextJob, In, CronInv, RouteInv, Asks
  <1> QED
    BY <1>1, <1>3, <1>4, <1>5, <1>6, LocalStepKeeps
    DEF NextJob, poolVars, Inside, AtWork, Asks

\* An execution reads its job's row.
LEMMA ReadRowKeeps ==
    ASSUME CronInv, NEW t \in CronThread, ReadRow(t)
    PROVE  CronInv'
  <1>1. PICK c : c = exec[t]
    OBVIOUS
  <1>2. PICK e : e = [c EXCEPT !.pc = "body", !.count = failures[lease[t]][exec[t].code]]
    OBVIOUS
  <1>3. t \in CronThread /\ IsExec(c) /\ c.dbs \in Seq(Tenant)
    BY <1>1 DEF CronThread, CronInv, ExecShape
  <1>4. IsExec(e) /\ e.pc = "body" /\ e.code = c.code /\ e.db = c.db /\ e.dbs = c.dbs
    BY ONLY <1>2, <1>3 DEF IsExec
  <1>5. exec' = [exec EXCEPT ![t] = e]
    BY <1>1, <1>2, <1>3 DEF ReadRow, CronInv, ExecShape
  <1> QED
    BY <1>1, <1>3, <1>4, <1>5, LocalStepKeeps
    DEF ReadRow, In, Inside, AtWork, Asks

\* An execution goes on when the row cannot be read.
LEMMA RowUnreadKeeps ==
    ASSUME CronInv, NEW t \in CronThread, RowUnread(t)
    PROVE  CronInv'
  <1>1. PICK c : c = exec[t]
    OBVIOUS
  <1>2. PICK e : e = [c EXCEPT !.pc = "body", !.count = 0]
    OBVIOUS
  <1>3. t \in CronThread /\ IsExec(c) /\ c.dbs \in Seq(Tenant)
    BY <1>1 DEF CronThread, CronInv, ExecShape
  <1>4. IsExec(e) /\ e.pc = "body" /\ e.code = c.code /\ e.db = c.db /\ e.dbs = c.dbs
    BY ONLY <1>2, <1>3 DEF IsExec
  <1>5. exec' = [exec EXCEPT ![t] = e]
    BY <1>1, <1>2, <1>3 DEF RowUnread, CronInv, ExecShape
  <1> QED
    BY <1>1, <1>3, <1>4, <1>5, LocalStepKeeps
    DEF RowUnread, In, Inside, AtWork, Asks

\* The job runs.
LEMMA RunJobKeeps ==
    ASSUME CronInv, NEW t \in CronThread, RunJob(t)
    PROVE  CronInv'
  <1>1. PICK outcome \in {"succeeded", "failed"} : exec' = [exec EXCEPT ![t].pc = outcome]
    BY DEF RunJob, Step
  <1>2. PICK c : c = exec[t]
    OBVIOUS
  <1>3. PICK e : e = [c EXCEPT !.pc = outcome]
    OBVIOUS
  <1>4. IsExec(c) /\ c.dbs \in Seq(Tenant)
    BY <1>2 DEF CronInv, ExecShape
  <1>5. IsExec(e) /\ e.pc = outcome /\ e.code = c.code /\ e.db = c.db /\ e.dbs = c.dbs
    BY ONLY <1>3, <1>4 DEF IsExec
  <1>6. exec' = [exec EXCEPT ![t] = e]
    BY <1>1, <1>2, <1>3 DEF CronInv, ExecShape
  <1>7. lease[t] = NoTenant
    BY DEF RunJob, In, CronInv, RouteInv, Asks
  <1> QED
    BY <1>1, <1>2, <1>4, <1>5, <1>6, <1>7, LocalStepKeeps
    DEF RunJob, In, poolVars, Inside, AtWork, Asks

\* Its outcome is written to the row.
LEMMA MarkKeeps ==
    ASSUME CronInv, NEW t \in CronThread, Mark(t)
    PROVE  CronInv'
  <1>1. PICK c : c = exec[t]
    OBVIOUS
  <1>2. PICK e : e = [c EXCEPT !.pc = "done"]
    OBVIOUS
  <1>3. t \in CronThread /\ IsExec(c) /\ c.dbs \in Seq(Tenant)
    BY <1>1 DEF CronThread, CronInv, ExecShape
  <1>4. IsExec(e) /\ e.pc = "done" /\ e.code = c.code /\ e.db = c.db /\ e.dbs = c.dbs
    BY ONLY <1>2, <1>3 DEF IsExec
  <1>5. exec' = [exec EXCEPT ![t] = e]
    BY <1>1, <1>2, <1>3 DEF Mark, Step, CronInv, ExecShape
  <1> QED
    BY <1>1, <1>3, <1>4, <1>5, LocalStepKeeps
    DEF Mark, In, Inside, AtWork, Asks

\* Its outcome is lost.
LEMMA MarkLostKeeps ==
    ASSUME CronInv, NEW t \in CronThread, MarkLost(t)
    PROVE  CronInv'
  <1>1. PICK c : c = exec[t]
    OBVIOUS
  <1>2. PICK e : e = [c EXCEPT !.pc = "done"]
    OBVIOUS
  <1>3. t \in CronThread /\ IsExec(c) /\ c.dbs \in Seq(Tenant)
    BY <1>1 DEF CronThread, CronInv, ExecShape
  <1>4. IsExec(e) /\ e.pc = "done" /\ e.code = c.code /\ e.db = c.db /\ e.dbs = c.dbs
    BY ONLY <1>2, <1>3 DEF IsExec
  <1>5. exec' = [exec EXCEPT ![t] = e]
    BY <1>1, <1>2, <1>3 DEF MarkLost, Step, CronInv, ExecShape
  <1> QED
    BY <1>1, <1>3, <1>4, <1>5, LocalStepKeeps
    DEF MarkLost, In, Inside, AtWork, Asks

-----------------------------------------------------------------------------
(* Taking and dropping a key *)

\* An execution that is over has its tenant still.
LEMMA JobOverEffect ==
    ASSUME CronInv, NEW t \in CronThread, JobOver(t)
    PROVE  \E e : /\ IsExec(e) /\ e.dbs \in Seq(Tenant)
                  /\ e.pc \in {"job", "leave"} /\ e.db = exec[t].db
                  /\ exec' = [exec EXCEPT ![t] = e]
  <1>1. PICK c : c = exec[t]
    OBVIOUS
  <1>2. PICK pc \in {"job", "leave"} : pc = IF t = Loop THEN "job" ELSE "leave"
    OBVIOUS
  <1>3. PICK e : e = [c EXCEPT !.pc = pc, !.code = NoCode, !.count = 0]
    OBVIOUS
  <1>4. IsExec(c) /\ c.dbs \in Seq(Tenant)
    BY <1>1 DEF CronInv, ExecShape
  <1>5. IsExec(e) /\ e.pc = pc /\ e.db = c.db /\ e.dbs = c.dbs
    BY ONLY <1>3, <1>4 DEF IsExec
  <1>6. exec' = [exec EXCEPT ![t] = e]
    BY <1>1, <1>2, <1>3, <1>4 DEF JobOver, CronInv, ExecShape
  <1> QED
    BY <1>1, <1>2, <1>4, <1>5, <1>6

\* A thread enters only with a key nobody inside has.
LEMMA GuardActionKeeps ==
    ASSUME CronInv, NEW t \in CronThread, Guard(t)
    PROVE  CronInv'
  <1>1. exec[t].pc = "guard" /\ UNCHANGED <<current, lease>> /\ lease[t] = NoTenant
    BY DEF Guard, In, poolVars, CronInv, RouteInv, Asks
  <1>2. CASE JobOver(t) /\ running' = running
    <2>1. PICK e : /\ IsExec(e) /\ e.dbs \in Seq(Tenant)
                   /\ e.pc \in {"job", "leave"} /\ e.db = exec[t].db
                   /\ exec' = [exec EXCEPT ![t] = e]
      BY <1>2, JobOverEffect
    <2> QED
      BY <1>1, <1>2, <2>1, LocalStepKeeps DEF Inside, AtWork
  <1>3. CASE Step(t, "row") /\ running' = running \cup {Key(t)} /\ Key(t) \notin running
    <2>1. PICK c : c = exec[t]
      OBVIOUS
    <2>2. PICK e : e = [c EXCEPT !.pc = "row"]
      OBVIOUS
    <2>3. IsExec(c) /\ c.dbs \in Seq(Tenant)
      BY <2>1 DEF CronInv, ExecShape
    <2>4. IsExec(e) /\ e.pc = "row" /\ e.code = c.code /\ e.db = c.db /\ e.dbs = c.dbs
      BY ONLY <2>2, <2>3 DEF IsExec
    <2>5. exec' = [exec EXCEPT ![t] = e]
      BY <1>3, <2>1, <2>2 DEF Step, CronInv, ExecShape
    <2>6. /\ ExecShape' /\ RouteInv'
          /\ exec'[t] = e
          /\ \A s \in CronThread \ {t} : exec'[s] = exec[s]
      <3>1. exec[t].db \in Tenant /\ current'[t] = e.db /\ lease'[t] = NoTenant
        BY <1>1, <2>1, <2>4 DEF CronInv, RouteInv, AtWork
      <3> QED
        BY <1>1, <2>1, <2>3, <2>4, <2>5, <3>1, MoveKeeps DEF CronInv
    <2>7. PoolShape'
      BY <1>1 DEF CronInv, PoolShape
    <2>8. GuardInv'
      <3>1. Key(t)' = Key(t) /\ \A s \in CronThread \ {t} : Key(s)' = Key(s)
        BY <2>1, <2>4, <2>6 DEF Key
      <3> QED
        BY <1>3, <2>6, <3>1 DEF CronInv, GuardInv
    <2> QED
      BY <2>6, <2>7, <2>8 DEF CronInv
  <1> QED
    BY <1>2, <1>3 DEF Guard

\* It leaves with its own key only.
LEMMA DoneKeeps ==
    ASSUME CronInv, NEW t \in CronThread, Done(t)
    PROVE  CronInv'
  <1>1. exec[t].pc = "done" /\ UNCHANGED <<current, lease>> /\ lease[t] = NoTenant
    BY DEF Done, In, poolVars, CronInv, RouteInv, Asks
  <1>2. PICK e : /\ IsExec(e) /\ e.dbs \in Seq(Tenant)
                 /\ e.pc \in {"job", "leave"} /\ e.db = exec[t].db
                 /\ exec' = [exec EXCEPT ![t] = e]
    BY JobOverEffect DEF Done
  <1>3. /\ ExecShape' /\ RouteInv'
        /\ exec'[t] = e
        /\ \A s \in CronThread \ {t} : exec'[s] = exec[s]
    <2>1. exec[t].db \in Tenant /\ current'[t] = e.db /\ lease'[t] = NoTenant
      BY <1>1, <1>2 DEF CronInv, RouteInv, AtWork
    <2> QED
      BY <1>1, <1>2, <2>1, MoveKeeps DEF CronInv
  <1>4. GuardInv'
    <2>1. \A s \in CronThread \ {t} : Key(s)' = Key(s)
      BY <1>3 DEF Key
    <2>2. running' = running \ {Key(t)} /\ exec'[t].pc \notin Inside /\ exec[t].pc \in Inside
      BY <1>1, <1>2, <1>3 DEF Done, Inside
    <2> QED
      BY <1>3, <2>1, <2>2 DEF CronInv, GuardInv
  <1>5. PoolShape'
    BY <1>1 DEF CronInv, PoolShape
  <1> QED
    BY <1>3, <1>4, <1>5 DEF CronInv

-----------------------------------------------------------------------------
(* The questions, beside it *)

\* Requests and workers hold connections where they ask for one only: a request
\* to its session's database, to which it is pinned from ask to answer; a worker
\* is pinned to none and goes to the default one.
AiInv ==
    /\ PoolShape
    /\ thread = [t \in Asking \cup Workers |-> thread[t]]
    /\ \A t \in Asking :
          /\ thread[t] \in {"none", "count", "insert"}
          /\ current[t] = (IF thread[t] = "none" THEN NoTenant ELSE asksIn[t])
          /\ lease[t] \in {NoTenant, asksIn[t]}
          /\ thread[t] = "none" => lease[t] = NoTenant
          /\ thread[t] = "insert" => lease[t] # NoTenant
    /\ \A w \in Workers :
          /\ thread[w] \notin {"count", "insert"}
          /\ current[w] = NoTenant
          /\ lease[w] \in {NoTenant, DefaultTenant}

AiThread == Asking \cup Workers

\* A step of one side leaves the other side's threads alone.
LEMMA CronFrame ==
    ASSUME CronInv, UNCHANGED cronVars, PoolShape',
           \A t \in CronThread : current'[t] = current[t] /\ lease'[t] = lease[t]
    PROVE  CronInv'
  BY DEF CronInv, cronVars, ExecShape, GuardInv, Key, RouteInv

\* A step that leaves the questions and their threads alone keeps what is known of them.
LEMMA AiFrame ==
    ASSUME AiInv, UNCHANGED aiVars, PoolShape',
           \A t \in AiThread : current'[t] = current[t] /\ lease'[t] = lease[t]
    PROVE  AiInv'
  BY DEF AiInv, aiVars, AiThread

\* What the pool does for one thread it does to no other.
LEMMA AcquireEffect ==
    ASSUME PoolShape, NEW t \in Thread, Acquire(t)
    PROVE  /\ lease' = [u \in Thread |-> lease'[u]]
           /\ lease'[t] = Routed(t)
           /\ \A u \in Thread \ {t} : lease'[u] = lease[u]
  BY DEF PoolShape, Acquire

\* One thread's doing with the pools.
Uses(t) ==
    /\ PoolShape'
    /\ \A u \in Thread \ {t} : current'[u] = current[u] /\ lease'[u] = lease[u]

\* What a question does to the pool keeps what is known of the scheduler.
LEMMA UsesKeepsCron ==
    ASSUME CronInv, NEW t \in AiThread, Uses(t), UNCHANGED cronVars
    PROVE  CronInv'
  BY CronFrame, Threads, ServerAssumption DEF Uses, CronThread, AiThread

\* What the scheduler does to the pool keeps what is known of questions.
LEMMA UsesKeepsAi ==
    ASSUME AiInv, NEW t \in CronThread, Uses(t), UNCHANGED aiVars
    PROVE  AiInv'
  BY AiFrame, AiJobsAssumption, ServerAssumption DEF Uses, CronThread, AiThread

\* The scheduler's steps on the pool are those of one thread.
LEMMA CronUses ==
    ASSUME PoolShape, NEW t \in CronThread,
           \/ UNCHANGED poolVars
           \/ (Release(t) \/ lease' = lease) /\ current' = current
           \/ (\E d : SetTenant(t, d)) /\ lease' = lease
           \/ Acquire(t) /\ current' = current
    PROVE  Uses(t)
  BY ReleaseEffect, SetTenantEffect, AcquireEffect, Threads DEF Uses, PoolShape, poolVars

\* A worker goes on.
LEMMA WorkerKeeps ==
    ASSUME AiInv, NEW w \in Workers, NEW place, Uses(w),
           thread' = [thread EXCEPT ![w] = place], place \notin {"count", "insert"},
           current'[w] = current[w], lease'[w] \in {NoTenant, DefaultTenant}
    PROVE  AiInv'
  BY AiJobsAssumption, ServerAssumption DEF AiInv, Uses

\* A thread that asks goes on.
LEMMA AskingKeeps ==
    ASSUME AiInv, NEW t \in Asking, NEW place \in {"none", "count", "insert"}, Uses(t),
           thread' = [thread EXCEPT ![t] = place],
           current'[t] = (IF place = "none" THEN NoTenant ELSE asksIn[t]),
           lease'[t] \in {NoTenant, asksIn[t]},
           place = "none" => lease'[t] = NoTenant,
           place = "insert" => lease'[t] # NoTenant
    PROVE  AiInv'
  BY AiJobsAssumption, ServerAssumption DEF AiInv, Uses

\* A question begins, is counted or is refused.
LEMMA AskStepKeeps ==
    ASSUME AiInv, NEW t \in Asking, Ask(t) \/ Count(t) \/ AskRefused(t)
    PROVE  AiInv' /\ Uses(t)
  <1> USE DEF At, Goto, poolVars
  <1>1. t \in Thread /\ asksIn[t] \in Tenant /\ asksIn[t] # NoTenant
    BY AiJobsAssumption, PoolAssumption
  <1>2. CASE Ask(t)
    <2>1. Uses(t) /\ current'[t] = asksIn[t] /\ lease'[t] = NoTenant
      BY <1>1, <1>2, SetTenantEffect DEF Ask, Uses, AiInv, PoolShape
    <2> QED
      BY <1>2, <2>1, AskingKeeps DEF Ask
  <1>3. CASE Count(t)
    <2>1. lease[t] = asksIn[t] /\ current[t] = asksIn[t]
      BY <1>1, <1>3 DEF Count, AiInv
    <2>2. CASE thread' = [thread EXCEPT ![t] = "insert"] /\ UNCHANGED <<idle, current, lease>>
      <3>1. Uses(t) /\ current'[t] = asksIn[t] /\ lease'[t] = asksIn[t]
        BY <2>1, <2>2 DEF Uses, AiInv, PoolShape
      <3> QED
        BY <1>1, <2>2, <3>1, AskingKeeps
    <2>3. CASE thread' = [thread EXCEPT ![t] = "none"] /\ Release(t) /\ SetTenant(t, NoTenant)
      <3>1. Uses(t) /\ current'[t] = NoTenant /\ lease'[t] = NoTenant
        BY <1>1, <2>3, ReleaseEffect, SetTenantEffect DEF Uses, AiInv, PoolShape
      <3> QED
        BY <1>1, <2>3, <3>1, AskingKeeps
    <2> QED
      BY <1>3, <2>2, <2>3 DEF Count
  <1>4. CASE AskRefused(t)
    <2>1. Uses(t) /\ current'[t] = NoTenant /\ lease'[t] = NoTenant
      BY <1>1, <1>4, SetTenantEffect DEF AskRefused, Uses, AiInv, PoolShape
    <2> QED
      BY <1>4, <2>1, AskingKeeps DEF AskRefused
  <1> QED
    BY <1>2, <1>3, <1>4

\* INSERT wakes a worker: another thread than the one that asks.
LEMMA InsertKeeps ==
    ASSUME AiInv, NEW t \in Asking, Insert(t)
    PROVE  AiInv' /\ Uses(t)
  <1>1. t \in Thread /\ asksIn[t] \in Tenant /\ asksIn[t] # NoTenant
    BY AiJobsAssumption, PoolAssumption
  <1>2. lease[t] = asksIn[t]
    BY DEF Insert, At, AiInv
  <1>3. PICK n \in Ids : thread' = [thread EXCEPT ![t] = "none", ![<<asksIn[t], n>>] = "start"]
    BY <1>2 DEF Insert
  <1>4. <<asksIn[t], n>> \in Workers
    BY DEF Workers
  <1>5. Uses(t) /\ current'[t] = NoTenant /\ lease'[t] = NoTenant
    BY <1>1, ReleaseEffect, SetTenantEffect DEF Insert, Uses, AiInv, PoolShape
  <1>6. thread'[t] = "none" /\ \A u \in AiThread \ {t} : thread'[u] \in {thread[u], "start"}
    BY <1>3, <1>4, ServerAssumption DEF AiInv, AiThread
  <1>7. /\ thread' = [u \in AiThread |-> thread'[u]]
        /\ \A u \in Asking \ {t} : thread'[u] = thread[u]
    BY <1>3, <1>4, ServerAssumption DEF AiInv, AiThread
  <1> QED
    BY <1>5, <1>6, <1>7, AiJobsAssumption, ServerAssumption DEF AiInv, AiThread, Uses

\* A thread of a question leases a connection.
LEMMA LeaseAiKeeps ==
    ASSUME AiInv, NEW t \in AiThread, LeaseAi(t)
    PROVE  AiInv' /\ Uses(t)
  <1>1. t \in Thread
    BY AiJobsAssumption DEF AiThread
  <1>2. /\ lease' = [u \in Thread |-> lease'[u]]
        /\ lease'[t] = Routed(t)
        /\ \A u \in Thread \ {t} : lease'[u] = lease[u]
    BY <1>1, AcquireEffect DEF LeaseAi, AiInv
  <1>3. Uses(t)
    BY <1>2 DEF LeaseAi, AiInv, PoolShape, Uses
  <1>4. CASE t \in Asking
    <2>1. thread[t] = "count" /\ current[t] = asksIn[t]
      BY <1>4 DEF LeaseAi, AiInv, Acquire, poolVars
    <2>2. lease'[t] = asksIn[t]
      BY <1>2, <1>4, <2>1, AiJobsAssumption DEF Routed
    <2>3. asksIn[t] # NoTenant
      BY <1>4, AiJobsAssumption, PoolAssumption
    <2> QED
      BY <1>2, <1>3, <1>4, <2>1, <2>2, <2>3, AiJobsAssumption, ServerAssumption
      DEF LeaseAi, aiVars, AiInv, Uses
  <1>5. CASE t \in Workers
    <2>1. lease'[t] = DefaultTenant
      BY <1>2, <1>5, PoolAssumption DEF Routed, AiInv
    <2> QED
      BY <1>2, <1>3, <1>5, <2>1, AiJobsAssumption, ServerAssumption
      DEF LeaseAi, aiVars, AiInv, Uses
  <1> QED
    BY <1>4, <1>5 DEF AiThread

\* A worker goes on without its connection, or with the one it has.
LEMMA WorkerStepKeeps ==
    ASSUME AiInv, NEW w \in Workers, WorkerStep(w) \/ WorkerRefused(w)
    PROVE  AiInv' /\ Uses(w)
  <1> USE DEF Goto
  <1>1. w \in Thread
    BY AiJobsAssumption
  <1>2. /\ Release(w) /\ current' = current
        \/ UNCHANGED <<lease, current>>
    BY DEF WorkerStep, StartWorker, Claim, ReadSettings, CallProvider, RecordCall, Finish,
           EndWorker, WorkerRefused, poolVars
  <1>3. Uses(w) /\ current'[w] = current[w] /\ lease'[w] \in {NoTenant, DefaultTenant}
    BY <1>1, <1>2, ReleaseEffect DEF Uses, AiInv, PoolShape
  <1>4. \E place : /\ place \notin {"count", "insert"}
                   /\ thread' = [thread EXCEPT ![w] = place]
    <2>1. CASE StartWorker(w)
      BY <2>1 DEF StartWorker
    <2>2. CASE Claim(w)
      BY <2>2 DEF Claim
    <2>3. CASE ReadSettings(w)
      <3>1. \/ thread' = [thread EXCEPT ![w] = "erred"]
            \/ thread' = [thread EXCEPT ![w] = "call"]
        BY <2>3 DEF ReadSettings
      <3> QED
        BY <3>1
    <2>4. CASE CallProvider(w) \/ RecordCall(w) \/ Finish(w) \/ EndWorker(w)
      BY <2>4 DEF CallProvider, RecordCall, Finish, EndWorker
    <2>5. CASE WorkerRefused(w)
      BY <2>5 DEF WorkerRefused
    <2> QED
      BY <2>1, <2>2, <2>3, <2>4, <2>5 DEF WorkerStep
  <1> QED
    BY <1>3, <1>4, WorkerKeeps

-----------------------------------------------------------------------------
(* The whole server *)

IInv == CronInv /\ AiInv /\ load \in Loads

\* The invariant holds at the start.
LEMMA InitIInv == Init => IInv
  <1> SUFFICES ASSUME Init
               PROVE  IInv
    OBVIOUS
  <1>1. PoolShape
    BY DEF Init, PoolInit, PoolShape
  <1>2. \A t \in CronThread : exec[t] = Resting
    BY DEF Init, CronInit, CronThread
  <1>3. \A t \in Thread : current[t] = NoTenant /\ lease[t] = NoTenant
    BY DEF Init, PoolInit
  <1>4. CronInv
    <2>1. ExecShape
      BY <1>2, RestingIsExec DEF Init, CronInit, ExecShape, CronThread
    <2>2. GuardInv
      BY <1>2, RestingIsExec DEF GuardInv, Inside
    <2>3. RouteInv
      BY <1>2, <1>3, RestingIsExec, Threads DEF RouteInv, AtWork, Asks
    <2> QED
      BY <1>1, <2>1, <2>2, <2>3 DEF CronInv
  <1>5. AiInv
    BY <1>1, <1>3, AiJobsAssumption DEF Init, AiInit, AiInv
  <1> QED
    BY <1>4, <1>5 DEF Init, IInv

\* A restart keeps it.
LEMMA CrashKeeps == IInv /\ Crash => IInv'
  <1> SUFFICES ASSUME IInv, Crash
               PROVE  IInv'
    OBVIOUS
  <1>1. PoolShape'
    BY DEF Crash, PoolShape
  <1>2. \A t \in CronThread : exec'[t] = Resting
    BY DEF Crash, CronStop, CronThread
  <1>3. \A t \in Thread : current'[t] = NoTenant /\ lease'[t] = NoTenant
    BY DEF Crash
  <1>4. CronInv'
    <2>1. ExecShape'
      BY <1>2, RestingIsExec DEF Crash, CronStop, ExecShape, CronThread
    <2>2. GuardInv'
      BY <1>2, RestingIsExec DEF GuardInv, Inside
    <2>3. RouteInv'
      BY <1>2, <1>3, RestingIsExec, Threads DEF RouteInv, AtWork, Asks
    <2> QED
      BY <1>1, <2>1, <2>2, <2>3 DEF CronInv
  <1>5. AiInv'
    BY <1>1, <1>3, AiJobsAssumption DEF Crash, AiStop, AiInv
  <1> QED
    BY <1>4, <1>5 DEF Crash, IInv

\* What the scheduler does keeps the other side, whichever step it is.
LEMMA CronSideKeeps ==
    ASSUME IInv, CronInv', NEW t \in CronThread, UNCHANGED <<aiVars, load>>,
           \/ UNCHANGED poolVars
           \/ (Release(t) \/ lease' = lease) /\ current' = current
           \/ (\E d : SetTenant(t, d)) /\ lease' = lease
           \/ Acquire(t) /\ current' = current
    PROVE  IInv'
  <1>1. Uses(t)
    BY CronUses DEF IInv, CronInv
  <1> QED
    BY <1>1, UsesKeepsAi DEF IInv

\* The scheduler's loop keeps it.
LEMMA LoopKeeps ==
    ASSUME IInv, UNCHANGED <<aiVars, load>>,
           Tick \/ TickTenant \/ ReadDue \/ ScheduleUnread \/ NextJob
    PROVE  IInv'
  <1> USE DEF poolVars
  <1>1. CronInv /\ Loop \in CronThread
    BY DEF IInv, CronThread
  <1>2. CASE Tick
    BY <1>1, <1>2, TickKeeps, CronSideKeeps DEF Tick
  <1>3. CASE TickTenant
    BY <1>1, <1>3, TickTenantKeeps, CronSideKeeps DEF TickTenant
  <1>4. CASE ReadDue
    BY <1>1, <1>4, ReadDueKeeps, CronSideKeeps DEF ReadDue
  <1>5. CASE ScheduleUnread
    BY <1>1, <1>5, ScheduleUnreadKeeps, CronSideKeeps DEF ScheduleUnread
  <1>6. CASE NextJob
    BY <1>1, <1>6, NextJobKeeps, CronSideKeeps DEF NextJob
  <1> QED
    BY <1>2, <1>3, <1>4, <1>5, <1>6

\* So does the search of a run by hand for its row.
LEMMA FindStepKeeps ==
    ASSUME IInv, UNCHANGED <<aiVars, load>>, FindRow \/ RowNotFound
    PROVE  IInv'
  <1> USE DEF poolVars
  <1>1. CronInv /\ Runner \in CronThread
    BY DEF IInv, CronThread
  <1>2. CASE FindRow
    BY <1>1, <1>2, FindKeeps, CronSideKeeps DEF FindRow
  <1>3. CASE RowNotFound
    BY <1>1, <1>3, FindKeeps, CronSideKeeps DEF RowNotFound
  <1> QED
    BY <1>2, <1>3

\* The execution of a job keeps it.
LEMMA ExecuteKeeps ==
    ASSUME IInv, UNCHANGED <<aiVars, load>>, NEW t \in CronThread,
           \/ Leave(t) \/ Lease(t) \/ Guard(t) \/ ReadRow(t) \/ RowUnread(t) \/ RunJob(t)
           \/ Mark(t) \/ MarkLost(t) \/ Done(t)
    PROVE  IInv'
  <1> USE DEF poolVars
  <1>1. CronInv
    BY DEF IInv
  <1>2. CASE Leave(t)
    BY <1>1, <1>2, LeaveKeeps, CronSideKeeps DEF Leave
  <1>3. CASE Lease(t)
    BY <1>1, <1>3, LeaseKeeps, CronSideKeeps DEF Lease
  <1>4. CASE Guard(t)
    BY <1>1, <1>4, GuardActionKeeps, CronSideKeeps DEF Guard
  <1>5. CASE ReadRow(t)
    BY <1>1, <1>5, ReadRowKeeps, CronSideKeeps DEF ReadRow
  <1>6. CASE RowUnread(t)
    BY <1>1, <1>6, RowUnreadKeeps, CronSideKeeps DEF RowUnread
  <1>7. CASE RunJob(t)
    BY <1>1, <1>7, RunJobKeeps, CronSideKeeps DEF RunJob
  <1>8. CASE Mark(t)
    BY <1>1, <1>8, MarkKeeps, CronSideKeeps DEF Mark
  <1>9. CASE MarkLost(t)
    BY <1>1, <1>9, MarkLostKeeps, CronSideKeeps DEF MarkLost
  <1>10. CASE Done(t)
    BY <1>1, <1>10, DoneKeeps, CronSideKeeps DEF Done
  <1> QED
    BY <1>2, <1>3, <1>4, <1>5, <1>6, <1>7, <1>8, <1>9, <1>10

\* A step of a question's thread keeps the scheduler's side.
LEMMA AiSideKeeps ==
    ASSUME IInv, AiInv', NEW t \in AiThread, Uses(t), UNCHANGED <<cronVars, load>>
    PROVE  IInv'
  BY UsesKeepsCron DEF IInv

\* A step that moves neither a thread nor a connection.
LEMMA FrameKeeps ==
    ASSUME IInv, UNCHANGED <<lease, current, running, exec, thread, load>>
    PROVE  IInv'
  BY DEF IInv, CronInv, PoolShape, ExecShape, GuardInv, Key, RouteInv, AiInv

\* Every step keeps it.
LEMMA NextIInv == IInv /\ [Next]_vars => IInv'
  <1> SUFFICES ASSUME IInv, [Next]_vars
               PROVE  IInv'
    OBVIOUS
  <1>1. CASE CronStep(Tick) \/ CronStep(TickTenant) \/ CronStep(ReadDue)
             \/ CronStep(ScheduleUnread) \/ CronStep(NextJob)
    BY <1>1, LoopKeeps DEF CronStep
  <1>2. ASSUME NEW t \in {Loop, Runner},
               \/ CronStep(Leave(t)) \/ CronStep(Lease(t)) \/ CronStep(Guard(t))
               \/ CronStep(ReadRow(t)) \/ CronStep(RowUnread(t)) \/ CronStep(RunJob(t))
               \/ CronStep(Mark(t)) \/ CronStep(MarkLost(t)) \/ CronStep(Done(t))
        PROVE  IInv'
    BY <1>2, ExecuteKeeps DEF CronStep, CronThread
  <1>3. ASSUME NEW row \in load.rows, CronStep(BecomeDue(row[1], row[2]))
        PROVE  IInv'
    BY <1>3, FrameKeeps DEF CronStep, BecomeDue, poolVars, aiVars
  <1>4. ASSUME NEW row \in load.rows, CronStep(RunNow(row[1], row[2]))
        PROVE  IInv'
    <2>1. row[1] \in Tenant
      BY ServerAssumption DEF IInv
    <2>2. CronInv'
      BY <1>4, <2>1, RunNowKeeps DEF CronStep, IInv
    <2> QED
      BY <1>4, <2>2, CronSideKeeps DEF CronStep, RunNow, CronThread
  <1>5. CASE AiStep(today < load.days /\ NextDay)
    BY <1>5, FrameKeeps DEF AiStep, NextDay, poolVars, cronVars
  <1>6. ASSUME NEW t \in Asking,
               AiStep(Ask(t)) \/ AiStep(Count(t)) \/ AiStep(Insert(t)) \/ AiStep(AskRefused(t))
        PROVE  IInv'
    <2>1. AiInv' /\ Uses(t)
      BY <1>6, AskStepKeeps, InsertKeeps DEF AiStep, IInv
    <2> QED
      BY <1>6, <2>1, AiSideKeeps DEF AiStep, AiThread
  <1>7. ASSUME NEW w \in Workers,
               \/ AiStep(StartWorker(w)) \/ AiStep(Claim(w)) \/ AiStep(ReadSettings(w))
               \/ AiStep(CallProvider(w)) \/ AiStep(RecordCall(w)) \/ AiStep(Finish(w))
               \/ AiStep(EndWorker(w)) \/ AiStep(WorkerRefused(w))
        PROVE  IInv'
    <2>1. AiInv' /\ Uses(w)
      BY <1>7, WorkerStepKeeps DEF AiStep, WorkerStep, IInv
    <2> QED
      BY <1>7, <2>1, AiSideKeeps DEF AiStep, AiThread
  <1>8. ASSUME NEW w \in Workers, AiStep(Cancel(w[1], w[2]))
        PROVE  IInv'
    BY <1>8, FrameKeeps DEF AiStep, Cancel, poolVars, cronVars
  <1>9. ASSUME NEW t \in Asking \cup Workers, AiStep(LeaseAi(t))
        PROVE  IInv'
    <2>1. AiInv' /\ Uses(t)
      BY <1>9, LeaseAiKeeps DEF AiStep, IInv, AiThread
    <2> QED
      BY <1>9, <2>1, AiSideKeeps DEF AiStep, AiThread
  <1>10. CASE Crash
    BY <1>10, CrashKeeps
  <1>11. CASE Boot
    BY <1>11, FrameKeeps DEF Boot, AiBoot, poolVars, cronVars
  <1>12. CASE UNCHANGED vars
    BY <1>12, FrameKeeps DEF vars, poolVars, cronVars, aiVars
  <1>13. ASSUME NEW w \in Workers, load.crowded /\ AiStep(WorkerRefused(w))
         PROVE  IInv'
    BY <1>7, <1>13
  <1>14. load.asking \subseteq Asking
    BY ServerAssumption DEF IInv
  <1>15. CASE CronStep(FindRow) \/ CronStep(RowNotFound)
    BY <1>15, FindStepKeeps DEF CronStep
  <1> QED
    BY <1>1, <1>2, <1>3, <1>4, <1>5, <1>6, <1>7, <1>8, <1>9, <1>10, <1>11, <1>12, <1>13, <1>14, <1>15
    DEF Next

\* The invariant always holds.
LEMMA Invariance == Spec => []IInv
  BY InitIInv, NextIInv, PTL DEF Spec

\* "Billing that takes 90 s on a 60 s interval must not run twice concurrently
\* and double-bill" (core/IrCron.hpp): however ticks, requests, failed
\* statements and crashes interleave, no job of a database runs twice at once.
THEOREM NeverOverlaps == Spec => []NoOverlap
  <1>1. IInv => NoOverlap
    BY DEF IInv, CronInv, GuardInv, NoOverlap, In, Inside, CronThread
  <1> QED
    BY <1>1, Invariance, PTL

\* Wherever questions are asked, the loop, a run by hand and a request that asks
\* hold connections to the database they work for and to no other, and the
\* thread of a question, which names none, to the default one only
\* (infrastructure/DbConnection.hpp).
THEOREM AlwaysRouted == Spec => []RightDatabase
  <1>1. IInv => RightDatabase
    BY DEF IInv, CronInv, RouteInv, AiInv, RightDatabase, CronThread
  <1> QED
    BY <1>1, Invariance, PTL

-----------------------------------------------------------------------------
(* A question that has ended *)

JobStates == Unfinished \cup Final \cup {"none", "pruned"}
JobType == job \in [Tenant -> [Ids -> JobStates]]

KeepsEnds ==
    \A d \in Tenant, n \in Ids :
       job[d][n] \in Final => job'[d][n] \in {job[d][n], "pruned"}

\* A step that sets one question which has not ended, or none.
LEMMA SetJob ==
    ASSUME JobType, NEW d, NEW n, NEW state \in JobStates,
           d \in Tenant /\ n \in Ids => job[d][n] \notin Final,
           job' = [job EXCEPT ![d][n] = state]
    PROVE  JobType' /\ KeepsEnds
  BY DEF JobType, KeepsEnds

\* Pruning brings no ended question back.
LEMMA CountKeepsEnds ==
    ASSUME JobType, NEW t \in Asking, Count(t)
    PROVE  JobType' /\ KeepsEnds
  <1>1. PICK old : job' = [job EXCEPT ![lease[t]] =
                             [n \in Ids |-> IF n \in old THEN "pruned" ELSE job[lease[t]][n]]]
    BY DEF Count
  <1> QED
    BY <1>1 DEF JobType, KeepsEnds, JobStates

\* Nor does a new question.
LEMMA InsertKeepsEnds ==
    ASSUME JobType, NEW t \in Asking, Insert(t)
    PROVE  JobType' /\ KeepsEnds
  <1>1. PICK n \in Ids : job[lease[t]][n] = "none" /\ job' = [job EXCEPT ![lease[t]][n] = "queued"]
    BY DEF Insert
  <1> QED
    BY <1>1, SetJob DEF JobStates, Unfinished, Final

\* Nor does a worker that comes late.
LEMMA WorkerKeepsEnds ==
    ASSUME JobType, NEW w \in Workers, WorkerStep(w)
    PROVE  JobType' /\ KeepsEnds
  <1>1. CASE Claim(w)
    <2>1. CASE job[lease[w]][w[2]] = "queued" /\ job' = [job EXCEPT ![lease[w]][w[2]] = "running"]
      BY <2>1, SetJob DEF JobStates, Unfinished, Final
    <2> QED
      BY <1>1, <2>1 DEF Claim, JobType, KeepsEnds
  <1>2. CASE Finish(w)
    <2>1. CASE /\ job[lease[w]][w[2]] = "running"
               /\ \E state \in {"done", "failed"} : job' = [job EXCEPT ![lease[w]][w[2]] = state]
      BY <2>1, SetJob DEF JobStates, Unfinished, Final
    <2>2. CASE job[lease[w]][w[2]] # "running"
      BY <1>2, <2>2 DEF Finish, JobType, KeepsEnds
    <2>3. CASE job[lease[w]][w[2]] = "running" /\ At(w, "answered")
      BY <1>2, <2>1, <2>3 DEF Finish
    <2>4. CASE job[lease[w]][w[2]] = "running" /\ ~At(w, "answered")
      BY <1>2, <2>1, <2>4 DEF Finish
    <2> QED
      BY <2>2, <2>3, <2>4
  <1>3. CASE job' = job
    BY <1>3 DEF JobType, KeepsEnds
  <1> QED
    BY <1>1, <1>2, <1>3
    DEF WorkerStep, StartWorker, ReadSettings, CallProvider, RecordCall, EndWorker

\* Only these steps write a question.
LEMMA NextKeepsEnds == IInv /\ JobType /\ [Next]_vars => JobType' /\ KeepsEnds
  <1> SUFFICES ASSUME IInv, JobType, [Next]_vars
               PROVE  JobType' /\ KeepsEnds
    OBVIOUS
  <1>1. CASE job' = job
    BY <1>1 DEF JobType, KeepsEnds
  <1>2. ASSUME NEW t \in load.asking, AiStep(Count(t)) \/ AiStep(Insert(t))
        PROVE  JobType' /\ KeepsEnds
    BY <1>2, ServerAssumption, CountKeepsEnds, InsertKeepsEnds DEF AiStep, IInv
  <1>3. ASSUME NEW w \in Workers, AiStep(Claim(w)) \/ AiStep(Finish(w))
        PROVE  JobType' /\ KeepsEnds
    BY <1>3, WorkerKeepsEnds DEF AiStep, WorkerStep
  <1>4. ASSUME NEW w \in Workers, AiStep(Cancel(w[1], w[2]))
        PROVE  JobType' /\ KeepsEnds
    BY <1>4, SetJob DEF AiStep, Cancel, JobStates, Unfinished, Final
  <1>5. CASE Boot
    BY <1>5 DEF Boot, AiBoot, FailedAtBoot, JobType, KeepsEnds, JobStates, Unfinished, Final
  <1>6. CASE Crash \/ UNCHANGED vars
    BY <1>1, <1>6 DEF Crash, AiStop, vars, aiVars
  <1>7. CASE UNCHANGED aiVars
    BY <1>1, <1>7 DEF aiVars
  <1>8. ASSUME NEW t \in Asking \cup Workers, \/ AiStep(Ask(t)) \/ AiStep(AskRefused(t))
               \/ AiStep(LeaseAi(t)) \/ AiStep(today < load.days /\ NextDay)
               \/ AiStep(StartWorker(t)) \/ AiStep(ReadSettings(t)) \/ AiStep(CallProvider(t))
               \/ AiStep(RecordCall(t)) \/ AiStep(EndWorker(t)) \/ AiStep(WorkerRefused(t))
        PROVE  JobType' /\ KeepsEnds
    BY <1>1, <1>8 DEF AiStep, Ask, AskRefused, LeaseAi, NextDay, StartWorker, ReadSettings,
                      CallProvider, RecordCall, EndWorker, WorkerRefused, aiVars
  <1>9. CASE AiStep(today < load.days /\ NextDay)
    BY <1>1, <1>9 DEF AiStep, NextDay
  <1>10. load.asking \subseteq Asking
    BY ServerAssumption DEF IInv
  <1> QED
    BY <1>2, <1>3, <1>4, <1>5, <1>6, <1>7, <1>8, <1>9, <1>10 DEF Next, CronStep

\* "whatever comes back is discarded rather than shown" (modules/ir/IrModule.cpp,
\* ask_cancel): however an answer, a cancel and a restart race for a question,
\* the end it comes to first is its end.
THEOREM EndedStaysEnded == Spec => EndsOnce
  <1>1. Init => JobType
    BY DEF Init, AiInit, JobType, JobStates
  <1>2. JobType /\ IInv /\ [Next]_vars => JobType'
    BY NextKeepsEnds
  <1>3. JobType /\ IInv /\ [Next]_vars => [KeepsEnds]_job
    BY NextKeepsEnds
  <1>4. Spec => [][KeepsEnds]_job
    BY <1>1, <1>2, <1>3, Invariance, PTL DEF Spec
  <1> QED
    BY <1>4 DEF EndsOnce, KeepsEnds

-----------------------------------------------------------------------------
(* The types, the pools first *)

\* The threads that hold a connection to a database.
Holders(d) == {t \in Thread : lease[t] = d}

\* A connection is idle or held by one thread, and a pool has PoolSize of them.
PoolCounted ==
    /\ idle = [d \in Tenant |-> idle[d]]
    /\ \A t \in Thread : current[t] \in Tenant \cup {NoTenant} /\ lease[t] \in Tenant \cup {NoTenant}
    /\ \A d \in Tenant : /\ idle[d] \in Int
                         /\ IsFiniteSet(Holders(d))
                         /\ idle[d] + Cardinality(Holders(d)) = PoolSize

\* What one thread does to the pools in a step: it takes a connection, gives one
\* back, or neither, and it may be pinned to a database or to none.
PoolMove(t) ==
    /\ \/ Acquire(t)
       \/ lease[t] # NoTenant /\ Release(t)
       \/ UNCHANGED <<idle, lease>>
    /\ \/ UNCHANGED current
       \/ \E d \in Tenant \cup {NoTenant} : SetTenant(t, d)

\* An acquire moves one connection of the pool it is routed to into the thread's hand.
LEMMA AcquireCounted ==
    ASSUME PoolShape, PoolCounted, NEW t \in Thread, Acquire(t), NEW d \in Tenant
    PROVE  /\ idle' = [x \in Tenant |-> idle'[x]]
           /\ lease'[t] \in Tenant
           /\ idle'[d] \in Int
           /\ IsFiniteSet(Holders(d)')
           /\ idle'[d] + Cardinality(Holders(d)') = PoolSize
  <1>1. PICK r \in Tenant : r = Routed(t)
    BY PoolAssumption DEF Routed
  <1>2. /\ lease[t] = NoTenant /\ lease'[t] = r /\ r # NoTenant
        /\ \A u \in Thread \ {t} : lease'[u] = lease[u]
    BY <1>1, AcquireEffect, PoolAssumption DEF Acquire
  <1>3. /\ idle' = [x \in Tenant |-> idle'[x]]
        /\ idle'[r] = idle[r] - 1
        /\ \A x \in Tenant \ {r} : idle'[x] = idle[x]
    BY <1>1 DEF Acquire, PoolCounted
  <1>4. IsFiniteSet(Holders(d)) /\ idle[d] \in Int /\ idle[d] + Cardinality(Holders(d)) = PoolSize
    BY DEF PoolCounted
  <1>5. CASE d = r
    <2>1. Holders(d)' = Holders(d) \cup {t} /\ t \notin Holders(d)
      BY <1>2, <1>5 DEF Holders
    <2>2. IsFiniteSet(Holders(d)') /\ Cardinality(Holders(d)') = Cardinality(Holders(d)) + 1
      BY <1>4, <2>1, FS_AddElement
    <2>3. Cardinality(Holders(d)) \in Nat
      BY <1>4, FS_CardinalityType
    <2> QED
      BY <1>2, <1>3, <1>4, <1>5, <2>2, <2>3
  <1>6. CASE d # r
    <2>1. Holders(d)' = Holders(d)
      BY <1>2, <1>6, PoolAssumption DEF Holders
    <2> QED
      BY <1>2, <1>3, <1>4, <1>6, <2>1
  <1> QED
    BY <1>5, <1>6

\* A release moves one back to the pool it came from.
LEMMA ReleaseCounted ==
    ASSUME PoolShape, PoolCounted, NEW t \in Thread, lease[t] # NoTenant, Release(t), NEW d \in Tenant
    PROVE  /\ idle' = [x \in Tenant |-> idle'[x]]
           /\ lease'[t] = NoTenant
           /\ idle'[d] \in Int
           /\ IsFiniteSet(Holders(d)')
           /\ idle'[d] + Cardinality(Holders(d)') = PoolSize
  <1>1. PICK r \in Tenant : r = lease[t]
    BY DEF PoolCounted
  <1>2. /\ lease'[t] = NoTenant /\ r # NoTenant
        /\ \A u \in Thread \ {t} : lease'[u] = lease[u]
    BY <1>1, ReleaseEffect, PoolAssumption
  <1>3. /\ idle' = [x \in Tenant |-> idle'[x]]
        /\ idle'[r] = idle[r] + 1
        /\ \A x \in Tenant \ {r} : idle'[x] = idle[x]
    BY <1>1 DEF Release, PoolCounted
  <1>4. IsFiniteSet(Holders(d)) /\ idle[d] \in Int /\ idle[d] + Cardinality(Holders(d)) = PoolSize
    BY DEF PoolCounted
  <1>5. CASE d = r
    <2>1. Holders(d)' = Holders(d) \ {t} /\ t \in Holders(d)
      BY <1>1, <1>2, <1>5 DEF Holders
    <2>2. IsFiniteSet(Holders(d)') /\ Cardinality(Holders(d)') = Cardinality(Holders(d)) - 1
      BY <1>4, <2>1, FS_RemoveElement
    <2>3. Cardinality(Holders(d)) \in Nat
      BY <1>4, FS_CardinalityType
    <2> QED
      BY <1>2, <1>3, <1>4, <1>5, <2>2, <2>3
  <1>6. CASE d # r
    <2>1. Holders(d)' = Holders(d)
      BY <1>1, <1>2, <1>6, PoolAssumption DEF Holders
    <2> QED
      BY <1>2, <1>3, <1>4, <1>6, <2>1
  <1> QED
    BY <1>5, <1>6

\* No step of a thread on the pools loses a connection.
LEMMA MoveCounted ==
    ASSUME PoolShape, PoolCounted, NEW t \in Thread, PoolMove(t)
    PROVE  PoolCounted'
  <1>1. \A u \in Thread : current'[u] \in Tenant \cup {NoTenant}
    <2>1. CASE current' = current
      BY <2>1 DEF PoolCounted
    <2>2. ASSUME NEW d \in Tenant \cup {NoTenant}, SetTenant(t, d)
          PROVE  \A u \in Thread : current'[u] \in Tenant \cup {NoTenant}
      BY <2>2, SetTenantEffect DEF PoolCounted
    <2> QED
      BY <2>1, <2>2 DEF PoolMove
  <1>2. CASE Acquire(t)
    <2>1. \A u \in Thread \ {t} : lease'[u] = lease[u]
      BY <1>2, AcquireEffect
    <2>2. Tenant # {}
      BY PoolAssumption
    <2>3. idle' = [x \in Tenant |-> idle'[x]] /\ lease'[t] \in Tenant
      BY <1>2, <2>2, AcquireCounted
    <2> QED
      BY <1>1, <1>2, <2>1, <2>3, AcquireCounted DEF PoolCounted
  <1>3. CASE lease[t] # NoTenant /\ Release(t)
    <2>1. \A u \in Thread \ {t} : lease'[u] = lease[u]
      BY <1>3, ReleaseEffect
    <2>2. Tenant # {}
      BY PoolAssumption
    <2>3. idle' = [x \in Tenant |-> idle'[x]] /\ lease'[t] = NoTenant
      BY <1>3, <2>2, ReleaseCounted
    <2> QED
      BY <1>1, <1>3, <2>1, <2>3, ReleaseCounted DEF PoolCounted
  <1>4. CASE UNCHANGED <<idle, lease>>
    <2>1. \A d \in Tenant : Holders(d)' = Holders(d)
      BY <1>4 DEF Holders
    <2> QED
      BY <1>1, <1>4, <2>1 DEF PoolCounted
  <1> QED
    BY <1>2, <1>3, <1>4 DEF PoolMove

\* A new process opens its pools anew.
LEMMA NewPoolsCounted ==
    ASSUME NEW s, NEW c, NEW l,
           s = [d \in Tenant |-> PoolSize], c = [t \in Thread |-> NoTenant],
           l = [t \in Thread |-> NoTenant], NEW d \in Tenant
    PROVE  /\ s[d] \in Int
           /\ {t \in Thread : l[t] = d} = {}
           /\ IsFiniteSet({}) /\ Cardinality({}) = 0
  BY PoolAssumption, FS_EmptySet

\* Every step of the scheduler is a step of one thread on the pools.
LEMMA CronMoves ==
    ASSUME CronInv, NEW t \in CronThread,
           \/ t = Loop /\ (Tick \/ TickTenant \/ ReadDue \/ ScheduleUnread \/ NextJob)
           \/ t = Runner /\ (FindRow \/ RowNotFound)
           \/ Leave(t) \/ Lease(t) \/ Guard(t) \/ ReadRow(t) \/ RowUnread(t) \/ RunJob(t)
           \/ Mark(t) \/ MarkLost(t) \/ Done(t)
    PROVE  PoolMove(t)
  <1> USE DEF PoolMove, poolVars
  <1>1. CASE t = Loop /\ TickTenant
    <2>1. PICK c \in Seq(Tenant) : c = exec[Loop].dbs
      BY DEF CronInv, ExecShape, CronThread
    <2>2. Head(c) \in Tenant
      BY <1>1, <2>1 DEF TickTenant
    <2> QED
      BY <1>1, <2>1, <2>2 DEF TickTenant
  <1>2. CASE t = Loop /\ (Tick \/ ReadDue \/ ScheduleUnread \/ NextJob)
    <2>1. CASE Tick
      BY <2>1 DEF Tick
    <2>2. CASE ReadDue
      BY <1>2, <2>2 DEF ReadDue
    <2>3. CASE ScheduleUnread
      BY <1>2, <2>3 DEF ScheduleUnread
    <2>4. CASE NextJob
      BY <2>4 DEF NextJob
    <2> QED
      BY <1>2, <2>1, <2>2, <2>3, <2>4
  <1>3. CASE Leave(t)
    BY <1>3 DEF Leave
  <1>4. CASE Lease(t)
    BY <1>4 DEF Lease
  <1>5. CASE Guard(t) \/ RunJob(t) \/ Done(t)
    BY <1>5 DEF Guard, RunJob, Done
  <1>6. CASE ReadRow(t)
    BY <1>6 DEF ReadRow
  <1>7. CASE RowUnread(t)
    BY <1>7 DEF RowUnread
  <1>8. CASE Mark(t)
    BY <1>8 DEF Mark
  <1>9. CASE MarkLost(t)
    BY <1>9 DEF MarkLost
  <1>10. CASE t = Runner /\ (FindRow \/ RowNotFound)
    BY <1>10 DEF FindRow, RowNotFound
  <1> QED
    BY <1>1, <1>2, <1>3, <1>4, <1>5, <1>6, <1>7, <1>8, <1>9, <1>10

\* So is every step of a question.
LEMMA AskMoves ==
    ASSUME AiInv, NEW t \in Asking, Ask(t) \/ Count(t) \/ Insert(t) \/ AskRefused(t)
    PROVE  PoolMove(t)
  <1> USE DEF PoolMove, poolVars
  <1>1. asksIn[t] \in Tenant
    BY AiJobsAssumption
  <1>2. CASE Ask(t)
    BY <1>1, <1>2 DEF Ask
  <1>3. CASE Count(t)
    BY <1>3 DEF Count
  <1>4. CASE Insert(t)
    <2>1. lease[t] # NoTenant
      BY <1>4 DEF Insert, At, AiInv
    <2> QED
      BY <1>4, <2>1 DEF Insert
  <1>5. CASE AskRefused(t)
    BY <1>5 DEF AskRefused
  <1> QED
    BY <1>2, <1>3, <1>4, <1>5

LEMMA WorkerMoves ==
    ASSUME NEW w \in Workers, WorkerStep(w) \/ WorkerRefused(w)
    PROVE  PoolMove(w)
  BY DEF PoolMove, poolVars, WorkerStep, StartWorker, Claim, ReadSettings, CallProvider, RecordCall,
         Finish, EndWorker, WorkerRefused

-----------------------------------------------------------------------------
(* The rows of the scheduler, and what its threads know of them *)

\* The due lists and the counts of failures keep their types; the guard holds
\* keys of jobs somebody implements.
RowsTyped ==
    /\ due = [d \in Tenant |-> due[d]]
    /\ \A d \in Tenant : due[d] \in Seq(Code) /\ IsInjective(due[d])
    /\ failures \in [Tenant -> [Code -> 0..MaxFailures]]
    /\ running \subseteq Tenant \X registered

\* What a thread may be doing: only what is registered gets past the guard.
ExecOK(e) == e.count \in 0..MaxFailures /\ (e.pc \in Inside => e.code \in registered)

ExecTyped == \A t \in CronThread : ExecOK(exec[t])

CronTyped == RowsTyped /\ ExecTyped

\* Taking one of different elements out of a sequence leaves different ones.
LEMMA ShiftInjective ==
    ASSUME NEW S, NEW s \in Seq(S), NEW k \in 1..Len(s), IsInjective(s),
           NEW n \in Nat, n = Len(s), NEW r \in Seq(S), Len(r) = n - 1,
           \A i \in 1..(n - 1) : r[i] = IF i < k THEN s[i] ELSE s[i + 1]
    PROVE  IsInjective(r)
  <1> DEFINE from(i) == IF i < k THEN i ELSE i + 1
  <1>1. \A i \in 1..(n - 1) : r[i] = s[from(i)] /\ from(i) \in 1..n
    OBVIOUS
  <1>2. DOMAIN r = 1..(n - 1) /\ DOMAIN s = 1..n
    OBVIOUS
  <1>3. \A i, j \in 1..(n - 1) : from(i) = from(j) => i = j
    OBVIOUS
  <1> HIDE DEF from
  <1> QED
    BY <1>1, <1>2, <1>3 DEF IsInjective

\* The same, for RemoveAt.
LEMMA RemoveAtInjective ==
    ASSUME NEW S, NEW s \in Seq(S), NEW k \in 1..Len(s), IsInjective(s),
           NEW r, r = RemoveAt(s, k)
    PROVE  r \in Seq(S) /\ IsInjective(r)
  <1>1. PICK p : p = SubSeq(s, 1, k - 1)
    OBVIOUS
  <1>2. PICK q : q = SubSeq(s, k + 1, Len(s))
    OBVIOUS
  <1>3. PICK n \in Nat : n = Len(s)
    OBVIOUS
  <1>4. p \in Seq(S) /\ Len(p) = k - 1 /\ \A i \in 1..(k - 1) : p[i] = s[i]
    BY <1>1, SubSeqProperties
  <1>5. q \in Seq(S) /\ Len(q) = n - k /\ \A i \in 1..(n - k) : q[i] = s[k + i]
    BY <1>2, <1>3, SubSeqProperties
  <1>6. r = p \o q
    BY <1>1, <1>2 DEF RemoveAt
  <1>7. /\ r \in Seq(S)
        /\ Len(r) = Len(p) + Len(q)
        /\ \A i \in 1..Len(p) + Len(q) : r[i] = IF i <= Len(p) THEN p[i] ELSE q[i - Len(p)]
    BY ONLY <1>4, <1>5, <1>6, ConcatProperties, Zenon
  <1>8. k \in 1..n
    BY <1>3
  <1>9. Len(r) = n - 1
    BY ONLY <1>4, <1>5, <1>7, <1>8, n \in Nat
  <1>10. \A i \in 1..(n - 1) : r[i] = IF i < k THEN s[i] ELSE s[i + 1]
    <2> SUFFICES ASSUME NEW i \in 1..(n - 1)
                 PROVE  r[i] = IF i < k THEN s[i] ELSE s[i + 1]
      OBVIOUS
    <2>1. CASE i < k
      <3>1. i \in 1..(k - 1) /\ i <= Len(p) /\ i \in 1..Len(p) + Len(q)
        BY ONLY <2>1, <1>4, <1>5, <1>8, n \in Nat, i \in 1..(n - 1)
      <3> QED
        BY ONLY <3>1, <1>4, <1>7, <2>1
    <2>2. CASE ~(i < k)
      <3>1. /\ i - Len(p) \in 1..(n - k) /\ ~(i <= Len(p)) /\ i \in 1..Len(p) + Len(q)
            /\ k + (i - Len(p)) = i + 1
        BY ONLY <2>2, <1>4, <1>5, <1>8, n \in Nat, i \in 1..(n - 1)
      <3> QED
        BY ONLY <3>1, <1>5, <1>7, <2>2
    <2> QED
      BY <2>1, <2>2
  <1> QED
    BY <1>3, <1>7, <1>9, <1>10, ShiftInjective

\* A row that is no longer due leaves the others, each once.
LEMMA WithoutInjective ==
    ASSUME NEW rows \in Seq(Code), IsInjective(rows), NEW c
    PROVE  Without(rows, c) \in Seq(Code) /\ IsInjective(Without(rows, c))
  <1>1. CASE c \in ToSet(rows)
    <2>1. PICK k : k = CHOOSE i \in DOMAIN rows : rows[i] = c
      OBVIOUS
    <2>2. k \in 1..Len(rows)
      BY <1>1, <2>1 DEF ToSet
    <2>3. Without(rows, c) = RemoveAt(rows, k)
      BY <1>1, <2>1 DEF Without
    <2> QED
      BY <2>2, <2>3, RemoveAtInjective
  <1>2. CASE c \notin ToSet(rows)
    BY <1>2 DEF Without
  <1> QED
    BY <1>1, <1>2

\* A row that becomes due joins the list once.
LEMMA JoinInjective ==
    ASSUME NEW rows \in Seq(Code), IsInjective(rows), NEW c \in Code, c \notin ToSet(rows),
           NEW n \in Nat, n = Len(rows), NEW r, r = Append(rows, c)
    PROVE  r \in Seq(Code) /\ IsInjective(r)
  <1>1. r \in Seq(Code)
    OBVIOUS
  <1>2. /\ DOMAIN r = 1..(n + 1) /\ DOMAIN rows = 1..n
        /\ r[n + 1] = c
        /\ \A i \in 1..n : r[i] = rows[i] /\ rows[i] # c
    BY DEF ToSet
  <1>3. \A i, j \in 1..(n + 1) : r[i] = r[j] => i = j
    <2> SUFFICES ASSUME NEW i \in 1..(n + 1), NEW j \in 1..(n + 1), r[i] = r[j]
                 PROVE  i = j
      OBVIOUS
    <2>1. (i \in 1..n \/ i = n + 1) /\ (j \in 1..n \/ j = n + 1)
      OBVIOUS
    <2> QED
      BY <1>2, <2>1 DEF IsInjective
  <1>4. IsInjective(r)
    BY ONLY <1>2, <1>3 DEF IsInjective
  <1> QED
    BY <1>1, <1>4

\* A thread that goes on within its type leaves the others where they are.
LEMMA ExecTypeKeeps ==
    ASSUME CronInv, CronTyped, NEW t \in CronThread, NEW e, exec' = [exec EXCEPT ![t] = e],
           e.count \in 0..MaxFailures, e.pc \in Inside => e.code \in registered
    PROVE  ExecTyped'
  <1>1. \A s \in CronThread : exec'[s] = IF s = t THEN e ELSE exec[s]
    BY DEF CronInv, ExecShape
  <1> QED
    BY <1>1 DEF CronTyped, ExecTyped, ExecOK

\* So does one that changes place only, and does not come past the guard by it.
LEMMA PlaceKeeps ==
    ASSUME CronInv, CronTyped, NEW t \in CronThread, NEW pc,
           exec' = [exec EXCEPT ![t].pc = pc],
           pc \in Inside => exec[t].pc \in Inside \/ exec[t].code \in registered
    PROVE  ExecTyped'
  <1>1. PICK c : c = exec[t]
    OBVIOUS
  <1>2. PICK e : e = [c EXCEPT !.pc = pc]
    OBVIOUS
  <1>3. IsExec(c)
    BY <1>1 DEF CronInv, ExecShape
  <1>4. e.pc = pc /\ e.code = c.code /\ e.count = c.count
    BY ONLY <1>2, <1>3 DEF IsExec
  <1>5. exec' = [exec EXCEPT ![t] = e]
    BY <1>1, <1>2 DEF CronInv, ExecShape
  <1>6. ExecOK(c)
    BY <1>1 DEF CronTyped, ExecTyped
  <1> QED
    BY <1>1, <1>4, <1>5, <1>6, ExecTypeKeeps DEF ExecOK

\* A thread whose job is over is outside the guard.
LEMMA OverKeeps ==
    ASSUME CronInv, CronTyped, NEW t \in CronThread, JobOver(t)
    PROVE  ExecTyped'
  <1>1. PICK c : c = exec[t]
    OBVIOUS
  <1>2. PICK pc \in {"job", "leave"} : pc = IF t = Loop THEN "job" ELSE "leave"
    OBVIOUS
  <1>3. PICK e : e = [c EXCEPT !.pc = pc, !.code = NoCode, !.count = 0]
    OBVIOUS
  <1>4. IsExec(c)
    BY <1>1 DEF CronInv, ExecShape
  <1>5. e.pc = pc /\ e.count = 0
    BY ONLY <1>3, <1>4 DEF IsExec
  <1>6. exec' = [exec EXCEPT ![t] = e]
    BY <1>1, <1>2, <1>3 DEF JobOver, CronInv, ExecShape
  <1>7. 0 \in 0..MaxFailures
    BY CronAssumption
  <1> QED
    BY <1>2, <1>5, <1>6, <1>7, ExecTypeKeeps DEF Inside

\* A thread that rests does too.
LEMMA RestingTyped == Resting.count = 0 /\ Resting.pc = "idle" /\ ExecOK(Resting)
  <1>1. Resting.count = 0 /\ Resting.pc = "idle"
    BY DEF Resting
  <1> QED
    BY <1>1, CronAssumption DEF ExecOK, Inside

\* Steps that write neither a row nor the guard.
LEMMA RowsKeep ==
    ASSUME RowsTyped, UNCHANGED <<due, failures, running>>
    PROVE  RowsTyped'
  BY DEF RowsTyped

\* The loop.
LEMMA LoopTyped ==
    ASSUME CronInv, CronTyped, Tick \/ TickTenant \/ ReadDue \/ ScheduleUnread \/ NextJob
    PROVE  CronTyped'
  <1>1. Loop \in CronThread
    BY DEF CronThread
  <1>2. RowsTyped'
    BY RowsKeep DEF CronTyped, Tick, TickTenant, ReadDue, ScheduleUnread, NextJob
  <1>3. PICK c : c = exec[Loop]
    OBVIOUS
  <1>4. IsExec(c) /\ ExecOK(c)
    BY <1>1, <1>3 DEF CronInv, ExecShape, CronTyped, ExecTyped
  <1>5. exec = [t \in CronThread |-> exec[t]]
    BY DEF CronInv, ExecShape
  <1>6. CASE Tick
    <2>1. PICK e : e = [c EXCEPT !.pc = "tenant", !.dbs = tenants]
      OBVIOUS
    <2>2. exec' = [exec EXCEPT ![Loop] = e]
      BY <1>1, <1>3, <1>5, <1>6, <2>1 DEF Tick
    <2>3. e.pc = "tenant" /\ e.count = c.count
      BY ONLY <1>4, <2>1 DEF IsExec
    <2> QED
      BY <1>1, <1>2, <1>4, <2>2, <2>3, ExecTypeKeeps DEF ExecOK, Inside, CronTyped
  <1>7. CASE TickTenant
    <2>1. PICK e : e = [c EXCEPT !.pc = "due", !.db = Head(c.dbs), !.dbs = Tail(c.dbs)]
      OBVIOUS
    <2>2. exec' = [exec EXCEPT ![Loop] = e]
      BY <1>1, <1>3, <1>5, <1>7, <2>1 DEF TickTenant
    <2>3. e.pc = "due" /\ e.count = c.count
      BY ONLY <1>4, <2>1 DEF IsExec
    <2> QED
      BY <1>1, <1>2, <1>4, <2>2, <2>3, ExecTypeKeeps DEF ExecOK, Inside, CronTyped
  <1>8. CASE ReadDue
    <2>1. PICK e : e = [c EXCEPT !.pc = "job", !.jobs = exec'[Loop].jobs]
      OBVIOUS
    <2>2. exec' = [exec EXCEPT ![Loop] = e]
      BY <1>1, <1>3, <1>4, <1>5, <1>8, <2>1 DEF ReadDue, IsExec
    <2>3. e.pc = "job" /\ e.count = c.count
      BY ONLY <1>4, <2>1 DEF IsExec
    <2> QED
      BY <1>1, <1>2, <1>4, <2>2, <2>3, ExecTypeKeeps DEF ExecOK, Inside, CronTyped
  <1>9. CASE ScheduleUnread
    <2>1. exec' = [exec EXCEPT ![Loop].pc = "tenant"]
      BY <1>9 DEF ScheduleUnread, Step
    <2> QED
      BY <1>1, <1>2, <2>1, PlaceKeeps DEF Inside, CronTyped
  <1>10. CASE NextJob
    <2>1. PICK e : e = IF c.jobs = <<>> THEN [c EXCEPT !.pc = "tenant"]
                       ELSE [c EXCEPT !.pc = "guard", !.code = Head(c.jobs), !.jobs = Tail(c.jobs)]
      OBVIOUS
    <2>2. exec' = [exec EXCEPT ![Loop] = e]
      BY <1>3, <1>10, <2>1 DEF NextJob
    <2>3. e.pc \in {"tenant", "guard"} /\ e.count = c.count
      <3>1. CASE c.jobs = <<>>
        <4>1. e = [c EXCEPT !.pc = "tenant"]
          BY <2>1, <3>1
        <4> QED
          BY ONLY <1>4, <4>1 DEF IsExec
      <3>2. CASE c.jobs # <<>>
        <4>1. e = [c EXCEPT !.pc = "guard", !.code = Head(c.jobs), !.jobs = Tail(c.jobs)]
          BY <2>1, <3>2
        <4> QED
          BY ONLY <1>4, <4>1 DEF IsExec
      <3> QED
        BY <3>1, <3>2
    <2> QED
      BY <1>1, <1>2, <1>4, <2>2, <2>3, ExecTypeKeeps DEF ExecOK, Inside, CronTyped
  <1> QED
    BY <1>6, <1>7, <1>8, <1>9, <1>10

\* A job's row counts its failures up to the bound.
LEMMA ReadTyped ==
    ASSUME CronInv, CronTyped, NEW t \in CronThread, ReadRow(t) \/ RowUnread(t)
    PROVE  CronTyped'
  <1>1. RowsTyped'
    BY RowsKeep DEF CronTyped, ReadRow, RowUnread
  <1>2. PICK c : c = exec[t]
    OBVIOUS
  <1>3. IsExec(c) /\ ExecOK(c)
    BY <1>2 DEF CronInv, ExecShape, CronTyped, ExecTyped
  <1>4. PICK n \in 0..MaxFailures : exec' = [exec EXCEPT ![t].pc = "body", ![t].count = n]
    <2>1. CASE ReadRow(t)
      <3>1. c.code \in Code
        BY <1>2, <1>3, <2>1, CronAssumption DEF ReadRow, In, ExecOK, Inside
      <3>2. lease[t] \in Tenant
        BY <2>1 DEF ReadRow, In, CronInv, RouteInv, AtWork, Asks
      <3>3. failures[lease[t]][c.code] \in 0..MaxFailures
        BY <3>1, <3>2 DEF CronTyped, RowsTyped
      <3> QED
        BY <1>2, <2>1, <3>3 DEF ReadRow
    <2>2. CASE RowUnread(t)
      <3>1. 0 \in 0..MaxFailures
        BY CronAssumption
      <3> QED
        BY <2>2, <3>1 DEF RowUnread
    <2> QED
      BY <2>1, <2>2
  <1>5. PICK e : e = [c EXCEPT !.pc = "body", !.count = n]
    OBVIOUS
  <1>6. exec' = [exec EXCEPT ![t] = e]
    BY <1>2, <1>4, <1>5 DEF CronInv, ExecShape
  <1>7. e.pc = "body" /\ e.code = c.code /\ e.count = n
    BY ONLY <1>3, <1>5 DEF IsExec
  <1>8. c.code \in registered
    BY <1>2, <1>3 DEF ReadRow, RowUnread, In, ExecOK, Inside
  <1> QED
    BY <1>1, <1>4, <1>6, <1>7, <1>8, ExecTypeKeeps DEF CronTyped

\* A thread comes past the guard with a job that is registered, and takes a key
\* of the database it works for.
LEMMA GuardTyped ==
    ASSUME CronInv, CronTyped, NEW t \in CronThread, Guard(t)
    PROVE  CronTyped'
  <1>1. CASE JobOver(t) /\ running' = running
    BY <1>1, OverKeeps, RowsKeep DEF Guard, CronTyped
  <1>2. CASE Step(t, "row") /\ running' = running \cup {Key(t)} /\ exec[t].code \in registered
    <2>1. ExecTyped'
      BY <1>2, PlaceKeeps DEF Step
    <2>2. exec[t].db \in Tenant
      BY DEF Guard, In, CronInv, RouteInv, AtWork
    <2>3. Key(t) \in Tenant \X registered
      BY <1>2, <2>2 DEF Key
    <2>4. due' = due /\ failures' = failures
      BY DEF Guard
    <2> QED
      BY <1>2, <2>1, <2>3, <2>4 DEF CronTyped, RowsTyped
  <1> QED
    BY <1>1, <1>2 DEF Guard

\* The row of a job that ran is written.
LEMMA MarkTyped ==
    ASSUME CronInv, CronTyped, NEW t \in CronThread, Mark(t)
    PROVE  CronTyped'
  <1>1. exec' = [exec EXCEPT ![t].pc = "done"] /\ exec[t].pc \in Inside
    BY DEF Mark, Step, In, Inside
  <1>2. ExecTyped'
    BY <1>1, PlaceKeeps
  <1>3. PICK d \in Tenant : d = lease[t]
    BY DEF Mark, In, CronInv, RouteInv, AtWork, Asks
  <1>4. PICK c : c = exec[t].code
    OBVIOUS
  <1>5. /\ due' = [x \in Tenant |-> due'[x]]
        /\ \A x \in Tenant : due'[x] \in Seq(Code) /\ IsInjective(due'[x])
    <2>1. due' = [due EXCEPT ![d] = Without(due[d], c)]
      BY <1>3, <1>4 DEF Mark
    <2>2. Without(due[d], c) \in Seq(Code) /\ IsInjective(Without(due[d], c))
      BY WithoutInjective DEF CronTyped, RowsTyped
    <2> QED
      BY <2>1, <2>2, Zenon DEF CronTyped, RowsTyped
  <1>6. failures' \in [Tenant -> [Code -> 0..MaxFailures]]
    <2>1. PICK n : /\ n \in 0..MaxFailures \/ n = failures[d][c]
                   /\ failures' = [failures EXCEPT ![d][c] = n]
      <3>1. exec[t].count \in 0..MaxFailures /\ MaxFailures \in Nat
        BY CronAssumption DEF CronTyped, ExecTyped, ExecOK
      <3>2. 0 \in 0..MaxFailures /\ (exec[t].count < MaxFailures => exec[t].count + 1 \in 0..MaxFailures)
        BY <3>1
      <3> QED
        BY <1>3, <1>4, <3>2 DEF Mark
    <2>2. failures \in [Tenant -> [Code -> 0..MaxFailures]]
      BY DEF CronTyped, RowsTyped
    <2> QED
      BY <2>1, <2>2
  <1>7. running' = running
    BY DEF Mark
  <1> QED
    BY <1>2, <1>5, <1>6, <1>7 DEF CronTyped, RowsTyped

\* The rest of an execution.
LEMMA ExecuteTyped ==
    ASSUME CronInv, CronTyped, NEW t \in CronThread,
           Leave(t) \/ Lease(t) \/ RunJob(t) \/ MarkLost(t) \/ Done(t)
    PROVE  CronTyped'
  <1>1. CASE Leave(t)
    BY <1>1, RestingTyped, ExecTypeKeeps, RowsKeep DEF Leave, CronTyped, Inside, ExecOK
  <1>2. CASE Lease(t)
    BY <1>2, RowsKeep DEF Lease, cronVars, CronTyped, ExecTyped
  <1>3. CASE RunJob(t)
    BY <1>3, PlaceKeeps, RowsKeep DEF RunJob, Step, In, Inside, CronTyped
  <1>4. CASE MarkLost(t)
    BY <1>4, PlaceKeeps, RowsKeep DEF MarkLost, Step, In, Inside, CronTyped
  <1>5. CASE Done(t)
    <2>1. ExecTyped'
      BY <1>5, OverKeeps DEF Done
    <2> QED
      BY <1>5, <2>1 DEF Done, CronTyped, RowsTyped
  <1> QED
    BY <1>1, <1>2, <1>3, <1>4, <1>5

\* "Run now".
LEMMA RunNowTyped ==
    ASSUME CronInv, CronTyped, NEW d, NEW c, RunNow(d, c)
    PROVE  CronTyped'
  <1>1. PICK e : e = [Resting EXCEPT !.pc = "find", !.db = d, !.code = c]
    OBVIOUS
  <1>2. e.pc = "find" /\ e.count = 0
    BY <1>1 DEF Resting
  <1>3. exec' = [exec EXCEPT ![Runner] = e] /\ Runner \in CronThread
    BY <1>1 DEF RunNow, CronThread
  <1>4. 0 \in 0..MaxFailures
    BY CronAssumption
  <1> QED
    BY <1>2, <1>3, <1>4, ExecTypeKeeps, RowsKeep DEF RunNow, Inside, CronTyped

\* It finds the row of its job, or nothing.
LEMMA FindTyped ==
    ASSUME CronInv, CronTyped, FindRow \/ RowNotFound
    PROVE  CronTyped'
  <1>1. PICK pc \in {"guard", "leave"} : exec' = [exec EXCEPT ![Runner].pc = pc]
    BY DEF FindRow, RowNotFound, Step
  <1>2. ExecTyped'
    BY <1>1, PlaceKeeps DEF Inside, CronThread
  <1> QED
    BY <1>2, RowsKeep DEF FindRow, RowNotFound, CronTyped

\* A row becomes due.
LEMMA BecomeDueTyped ==
    ASSUME CronTyped, NEW d \in Tenant, NEW c \in Code, BecomeDue(d, c)
    PROVE  CronTyped'
  <1>1. due[d] \in Seq(Code) /\ IsInjective(due[d]) /\ Len(due[d]) \in Nat
    BY LenProperties DEF CronTyped, RowsTyped
  <1>2. Append(due[d], c) \in Seq(Code) /\ IsInjective(Append(due[d], c))
    BY <1>1, JoinInjective DEF BecomeDue
  <1>3. due' = [due EXCEPT ![d] = Append(due[d], c)]
    BY DEF BecomeDue
  <1>4. /\ due' = [x \in Tenant |-> due'[x]]
        /\ \A x \in Tenant : due'[x] \in Seq(Code) /\ IsInjective(due'[x])
    BY <1>2, <1>3, Zenon DEF CronTyped, RowsTyped
  <1> QED
    BY <1>4 DEF BecomeDue, CronTyped, RowsTyped, ExecTyped

-----------------------------------------------------------------------------
(* The questions and their workers *)

\* The workers the counter counts.
Live == {w \in Workers : thread[w] \notin {"none", "start"}}

\* A question that was never asked has no worker.
QuestionsTyped ==
    /\ JobType
    /\ calls \in [Tenant -> [today : Nat, date : Nat]]
    /\ today \in Nat
    /\ \A w \in Workers : job[w[1]][w[2]] = "none" => thread[w] = "none"
    /\ IsFiniteSet(Live)
    /\ liveWorkers = Cardinality(Live)

\* A step that brings no question back to "none" and starts no worker's thread.
LEMMA QuestionsFrame ==
    ASSUME QuestionsTyped, JobType',
           \A w \in Workers : /\ job'[w[1]][w[2]] = "none" => job[w[1]][w[2]] = "none"
                              /\ thread[w] = "none" => thread'[w] = "none"
    PROVE  \A w \in Workers : job'[w[1]][w[2]] = "none" => thread'[w] = "none"
  BY DEF QuestionsTyped

\* A step by which nobody joins or leaves the workers that count.
LEMMA LiveFrame ==
    ASSUME QuestionsTyped, liveWorkers' = liveWorkers,
           \A w \in Workers : thread'[w] \in {"none", "start"} <=> thread[w] \in {"none", "start"}
    PROVE  IsFiniteSet(Live') /\ liveWorkers' = Cardinality(Live')
  <1>1. Live' = Live
    BY DEF Live
  <1> QED
    BY <1>1 DEF QuestionsTyped

\* A request asks: its thread is no worker's.
LEMMA AskingTyped ==
    ASSUME AiInv, QuestionsTyped, NEW t \in Asking, Ask(t) \/ Count(t) \/ AskRefused(t)
    PROVE  QuestionsTyped'
  <1>1. \A w \in Workers : thread'[w] = thread[w]
    BY ServerAssumption DEF AiInv, Ask, Count, AskRefused, Goto
  <1>2. UNCHANGED <<calls, today, liveWorkers>>
    BY DEF Ask, Count, AskRefused
  <1>3. /\ JobType'
        /\ \A d \in Tenant, n \in Ids : job'[d][n] = "none" => job[d][n] = "none"
    <2>1. CASE job' = job
      BY <2>1 DEF QuestionsTyped, JobType
    <2>2. CASE Count(t)
      <3>1. PICK old : job' = [job EXCEPT ![lease[t]] =
                                 [n \in Ids |-> IF n \in old THEN "pruned" ELSE job[lease[t]][n]]]
        BY <2>2 DEF Count
      <3>2. JobType
        BY DEF QuestionsTyped
      <3> QED
        BY <3>1, <3>2 DEF JobType, JobStates
    <2> QED
      BY <2>1, <2>2 DEF Ask, AskRefused
  <1>4. \A w \in Workers : w[1] \in Tenant /\ w[2] \in Ids
    BY AiJobsAssumption DEF Workers
  <1>5. \A w \in Workers : job'[w[1]][w[2]] = "none" => thread'[w] = "none"
    BY <1>1, <1>3, <1>4, QuestionsFrame
  <1>6. IsFiniteSet(Live') /\ liveWorkers' = Cardinality(Live')
    BY <1>1, <1>2, LiveFrame
  <1> QED
    BY <1>2, <1>3, <1>5, <1>6 DEF QuestionsTyped

\* A question is inserted, and its worker, which was none, may start.
LEMMA InsertTyped ==
    ASSUME AiInv, QuestionsTyped, NEW t \in Asking, Insert(t)
    PROVE  QuestionsTyped'
  <1>1. PICK d \in Tenant : d = asksIn[t]
    BY AiJobsAssumption
  <1>2. lease[t] = d
    BY <1>1 DEF Insert, At, AiInv
  <1>3. PICK n \in Ids : /\ job[d][n] = "none"
                         /\ job' = [job EXCEPT ![d][n] = "queued"]
                         /\ thread' = [thread EXCEPT ![t] = "none", ![<<d, n>>] = "start"]
    BY <1>2 DEF Insert
  <1>4. PICK v \in Workers : v = <<d, n>>
    BY <1>1 DEF Workers
  <1>5. thread[v] = "none"
    BY <1>3, <1>4 DEF QuestionsTyped
  <1>6. thread'[v] = "start" /\ \A w \in Workers \ {v} : thread'[w] = thread[w]
    BY <1>3, <1>4, ServerAssumption DEF AiInv
  <1>7. UNCHANGED <<calls, today, liveWorkers>>
    BY DEF Insert
  <1>8. JobType'
    BY InsertKeepsEnds DEF QuestionsTyped
  <1>9. /\ job'[d][n] = "queued"
        /\ \A x \in Tenant, m \in Ids : job'[x][m] = "none" => job[x][m] = "none"
    BY <1>3 DEF QuestionsTyped, JobType
  <1>10. \A w \in Workers : w[1] \in Tenant /\ w[2] \in Ids
    BY AiJobsAssumption DEF Workers
  <1>11. \A w \in Workers : job'[w[1]][w[2]] = "none" => thread'[w] = "none"
    <2> SUFFICES ASSUME NEW w \in Workers, job'[w[1]][w[2]] = "none"
                 PROVE  thread'[w] = "none"
      OBVIOUS
    <2>1. w # v
      BY <1>4, <1>9
    <2>2. job[w[1]][w[2]] = "none"
      BY <1>9, <1>10
    <2> QED
      BY <1>6, <2>1, <2>2 DEF QuestionsTyped
  <1>12. IsFiniteSet(Live') /\ liveWorkers' = Cardinality(Live')
    <2>1. \A w \in Workers : thread'[w] \in {"none", "start"} <=> thread[w] \in {"none", "start"}
      BY <1>5, <1>6
    <2> QED
      BY <1>7, <2>1, LiveFrame
  <1> QED
    BY <1>7, <1>8, <1>11, <1>12 DEF QuestionsTyped

\* A worker's thread begins: it is counted.
LEMMA StartTyped ==
    ASSUME AiInv, QuestionsTyped, NEW v \in Workers, StartWorker(v)
    PROVE  QuestionsTyped'
  <1>1. thread[v] = "start" /\ thread'[v] = "claim"
    BY DEF StartWorker, At, Goto, AiInv
  <1>2. \A w \in Workers \ {v} : thread'[w] = thread[w]
    BY DEF StartWorker, Goto, AiInv
  <1>3. Live' = Live \cup {v} /\ v \notin Live
    BY <1>1, <1>2 DEF Live
  <1>4. IsFiniteSet(Live) /\ liveWorkers = Cardinality(Live)
    BY DEF QuestionsTyped
  <1>5. IsFiniteSet(Live') /\ Cardinality(Live') = Cardinality(Live) + 1
    BY <1>3, <1>4, FS_AddElement
  <1>6. liveWorkers' = Cardinality(Live')
    BY <1>4, <1>5 DEF StartWorker
  <1>7. UNCHANGED <<job, calls, today>>
    BY DEF StartWorker
  <1>8. \A w \in Workers : job'[w[1]][w[2]] = "none" => thread'[w] = "none"
    BY <1>1, <1>2, <1>7 DEF QuestionsTyped
  <1> QED
    BY <1>5, <1>6, <1>7, <1>8 DEF QuestionsTyped, JobType

\* It ends: it is taken off the count.
LEMMA EndTyped ==
    ASSUME AiInv, QuestionsTyped, NEW v \in Workers, EndWorker(v)
    PROVE  QuestionsTyped'
  <1>1. thread[v] = "end" /\ thread'[v] = "none"
    BY DEF EndWorker, At, Goto, AiInv
  <1>2. \A w \in Workers \ {v} : thread'[w] = thread[w]
    BY DEF EndWorker, Goto, AiInv
  <1>3. Live' = Live \ {v} /\ v \in Live
    BY <1>1, <1>2 DEF Live
  <1>4. IsFiniteSet(Live) /\ liveWorkers = Cardinality(Live)
    BY DEF QuestionsTyped
  <1>5. IsFiniteSet(Live') /\ Cardinality(Live') = Cardinality(Live) - 1
    BY <1>3, <1>4, FS_RemoveElement
  <1>6. liveWorkers' = Cardinality(Live')
    BY <1>4, <1>5 DEF EndWorker
  <1>7. UNCHANGED <<job, calls, today>>
    BY DEF EndWorker
  <1>8. \A w \in Workers : job'[w[1]][w[2]] = "none" => thread'[w] = "none"
    BY <1>1, <1>2, <1>7 DEF QuestionsTyped
  <1> QED
    BY <1>5, <1>6, <1>7, <1>8 DEF QuestionsTyped, JobType

\* Between the two it stays counted, and only a call of the provider is booked.
LEMMA WorkerTyped ==
    ASSUME AiInv, QuestionsTyped, NEW v \in Workers,
           \/ Claim(v) \/ ReadSettings(v) \/ CallProvider(v) \/ RecordCall(v) \/ Finish(v)
           \/ WorkerRefused(v)
    PROVE  QuestionsTyped'
  <1>1. /\ thread[v] \notin {"none", "start"}
        /\ \E place \in {"settings", "end", "erred", "call", "record", "answered"} :
              thread' = [thread EXCEPT ![v] = place]
    <2> USE DEF At, Goto
    <2>1. CASE Claim(v)
      BY <2>1 DEF Claim
    <2>2. CASE ReadSettings(v)
      <3>1. \/ thread' = [thread EXCEPT ![v] = "erred"]
            \/ thread' = [thread EXCEPT ![v] = "call"]
        BY <2>2 DEF ReadSettings
      <3>2. thread[v] = "settings"
        BY <2>2 DEF ReadSettings
      <3> QED
        BY <3>1, <3>2
    <2>3. CASE CallProvider(v)
      BY <2>3 DEF CallProvider
    <2>4. CASE RecordCall(v)
      BY <2>4 DEF RecordCall
    <2>5. CASE Finish(v)
      BY <2>5 DEF Finish
    <2>6. CASE WorkerRefused(v)
      BY <2>6 DEF WorkerRefused
    <2> QED
      BY <2>1, <2>2, <2>3, <2>4, <2>5, <2>6
  <1>2. /\ thread'[v] \notin {"none", "start"}
        /\ \A w \in Workers \ {v} : thread'[w] = thread[w]
    BY <1>1 DEF AiInv
  <1>3. /\ JobType'
        /\ \A d \in Tenant, n \in Ids : job'[d][n] = "none" => job[d][n] = "none"
    <2>1. JobType
      BY DEF QuestionsTyped
    <2>2. CASE job' = job
      BY <2>1, <2>2 DEF JobType
    <2>3. ASSUME NEW d, NEW n, NEW state \in {"running", "done", "failed"},
                 job' = [job EXCEPT ![d][n] = state]
          PROVE  /\ JobType'
                 /\ \A x \in Tenant, m \in Ids : job'[x][m] = "none" => job[x][m] = "none"
      BY <2>1, <2>3 DEF JobType, JobStates, Unfinished, Final
    <2>4. CASE Claim(v)
      BY <2>2, <2>3, <2>4 DEF Claim
    <2>5. CASE Finish(v)
      <3>1. CASE At(v, "answered")
        BY <2>2, <2>3, <2>5, <3>1 DEF Finish
      <3>2. CASE ~At(v, "answered")
        BY <2>2, <2>3, <2>5, <3>2 DEF Finish
      <3> QED
        BY <3>1, <3>2
    <2> QED
      BY <2>2, <2>4, <2>5 DEF ReadSettings, CallProvider, RecordCall, WorkerRefused
  <1>4. UNCHANGED <<today, liveWorkers>>
    BY DEF Claim, ReadSettings, CallProvider, RecordCall, Finish, WorkerRefused
  <1>5. calls' \in [Tenant -> [today : Nat, date : Nat]]
    <2>1. CASE calls' = calls
      BY <2>1 DEF QuestionsTyped
    <2>2. CASE RecordCall(v)
      <3>1. PICK d \in Tenant : d = lease[v]
        BY <2>2, PoolAssumption DEF RecordCall, AiInv
      <3>2. PICK n : n = IF calls[d].date = today THEN calls[d].today + 1 ELSE 1
        OBVIOUS
      <3>3. calls[d] \in [today : Nat, date : Nat] /\ today \in Nat
        BY DEF QuestionsTyped
      <3>4. n \in Nat
        BY <3>2, <3>3
      <3>5. calls' = [calls EXCEPT ![d] = [today |-> n, date |-> today]]
        BY <2>2, <3>1, <3>2 DEF RecordCall
      <3> QED
        BY <3>3, <3>4, <3>5 DEF QuestionsTyped
    <2> QED
      BY <2>1, <2>2 DEF Claim, ReadSettings, CallProvider, Finish, WorkerRefused
  <1>6. \A w \in Workers : w[1] \in Tenant /\ w[2] \in Ids
    BY AiJobsAssumption DEF Workers
  <1>7. \A w \in Workers : job'[w[1]][w[2]] = "none" => thread'[w] = "none"
    BY <1>1, <1>2, <1>3, <1>6, QuestionsFrame
  <1>8. IsFiniteSet(Live') /\ liveWorkers' = Cardinality(Live')
    BY <1>1, <1>2, <1>4, LiveFrame
  <1> QED
    BY <1>3, <1>4, <1>5, <1>7, <1>8 DEF QuestionsTyped

\* A cancel, a new day, and what happens elsewhere.
LEMMA IdleTyped ==
    ASSUME QuestionsTyped, UNCHANGED <<liveWorkers, thread, calls>>, today' \in Nat, JobType',
           \A d \in Tenant, n \in Ids : job'[d][n] = "none" => job[d][n] = "none"
    PROVE  QuestionsTyped'
  <1>1. \A w \in Workers : w[1] \in Tenant /\ w[2] \in Ids
    BY AiJobsAssumption DEF Workers
  <1>2. \A w \in Workers : job'[w[1]][w[2]] = "none" => thread'[w] = "none"
    BY <1>1, QuestionsFrame
  <1>3. IsFiniteSet(Live') /\ liveWorkers' = Cardinality(Live')
    BY LiveFrame
  <1> QED
    BY <1>2, <1>3 DEF QuestionsTyped

-----------------------------------------------------------------------------
(* The types of the server *)

TypeInv == PoolCounted /\ CronTyped /\ QuestionsTyped

\* A server that starts has nobody at work.
LEMMA NewServer ==
    ASSUME idle = [d \in Tenant |-> PoolSize], current = [t \in Thread |-> NoTenant],
           lease = [t \in Thread |-> NoTenant]
    PROVE  PoolCounted
  <1>1. \A d \in Tenant : Holders(d) = {}
    BY PoolAssumption DEF Holders
  <1>2. IsFiniteSet({}) /\ Cardinality({}) = 0
    BY FS_EmptySet
  <1>3. PoolSize \in Nat
    BY PoolAssumption
  <1> QED
    BY <1>1, <1>2, <1>3 DEF PoolCounted

LEMMA InitTyped == Init => TypeInv
  <1> SUFFICES ASSUME Init
               PROVE  TypeInv
    OBVIOUS
  <1>1. PoolCounted
    BY NewServer DEF Init, PoolInit
  <1>2. RowsTyped
    <2>1. <<>> \in Seq(Code) /\ IsInjective(<<>>)
      BY DEF IsInjective
    <2>2. 0 \in 0..MaxFailures
      BY CronAssumption
    <2> QED
      BY <2>1, <2>2 DEF Init, CronInit, RowsTyped
  <1>3. ExecTyped
    BY RestingTyped DEF Init, CronInit, ExecTyped, CronThread
  <1>4. QuestionsTyped
    <2>1. Live = {}
      BY DEF Init, AiInit, Live
    <2>2. IsFiniteSet({}) /\ Cardinality({}) = 0
      BY FS_EmptySet
    <2>3. JobType
      BY DEF Init, AiInit, JobType, JobStates
    <2> QED
      BY <2>1, <2>2, <2>3 DEF Init, AiInit, QuestionsTyped
  <1> QED
    BY <1>1, <1>2, <1>3, <1>4 DEF TypeInv, CronTyped

\* The process dies with its leases, its guard and its workers; the rows stay.
LEMMA CrashTyped == IInv /\ TypeInv /\ Crash => TypeInv'
  <1> SUFFICES ASSUME IInv, TypeInv, Crash
               PROVE  TypeInv'
    OBVIOUS
  <1>1. PoolCounted'
    <2>1. \A d \in Tenant : Holders(d)' = {}
      BY PoolAssumption DEF Crash, Holders
    <2>2. IsFiniteSet({}) /\ Cardinality({}) = 0
      BY FS_EmptySet
    <2>3. PoolSize \in Nat
      BY PoolAssumption
    <2> QED
      BY <2>1, <2>2, <2>3 DEF Crash, PoolCounted
  <1>2. RowsTyped'
    BY DEF TypeInv, CronTyped, RowsTyped, Crash, CronStop
  <1>3. ExecTyped'
    BY RestingTyped DEF Crash, CronStop, ExecTyped, CronThread
  <1>4. QuestionsTyped'
    <2>1. Live' = {}
      BY DEF Crash, AiStop, Live
    <2>2. IsFiniteSet({}) /\ Cardinality({}) = 0
      BY FS_EmptySet
    <2> QED
      BY <2>1, <2>2 DEF Crash, AiStop, TypeInv, QuestionsTyped, JobType
  <1> QED
    BY <1>1, <1>2, <1>3, <1>4 DEF TypeInv, CronTyped

\* Steps that leave a part alone.
LEMMA PoolFrame == ASSUME PoolCounted, UNCHANGED poolVars PROVE PoolCounted'
  BY DEF PoolCounted, poolVars, Holders

LEMMA CronTypedFrame == ASSUME CronTyped, UNCHANGED cronVars PROVE CronTyped'
  BY DEF CronTyped, cronVars, RowsTyped, ExecTyped

LEMMA QuestionsAlone == ASSUME QuestionsTyped, UNCHANGED aiVars PROVE QuestionsTyped'
  BY DEF QuestionsTyped, aiVars, JobType, Live

\* A step of the scheduler's threads, and one of a question's.
LEMMA CronSideTyped ==
    ASSUME IInv, TypeInv, NEW t \in CronThread, PoolMove(t), CronTyped', UNCHANGED aiVars
    PROVE  TypeInv'
  BY Threads, MoveCounted, QuestionsAlone DEF IInv, CronInv, TypeInv

LEMMA AiSideTyped ==
    ASSUME IInv, TypeInv, NEW t \in AiThread, PoolMove(t), QuestionsTyped', UNCHANGED cronVars
    PROVE  TypeInv'
  BY AiJobsAssumption, MoveCounted, CronTypedFrame DEF IInv, CronInv, TypeInv, AiThread

\* Every step keeps the types.
LEMMA NextTyped == IInv /\ TypeInv /\ [Next]_vars => TypeInv'
  <1> SUFFICES ASSUME IInv, TypeInv, [Next]_vars
               PROVE  TypeInv'
    OBVIOUS
  <1>0. /\ CronInv /\ AiInv /\ load \in Loads
        /\ PoolCounted /\ CronTyped /\ QuestionsTyped
    BY DEF IInv, TypeInv
  <1>1. CASE CronStep(Tick) \/ CronStep(TickTenant) \/ CronStep(ReadDue)
             \/ CronStep(ScheduleUnread) \/ CronStep(NextJob)
    <2>1. /\ Tick \/ TickTenant \/ ReadDue \/ ScheduleUnread \/ NextJob
          /\ UNCHANGED aiVars
      BY <1>1 DEF CronStep
    <2>2. Loop \in CronThread
      BY DEF CronThread
    <2>3. CronTyped'
      BY <1>0, <2>1, LoopTyped
    <2>4. PoolMove(Loop)
      BY <1>0, <2>1, <2>2, CronMoves
    <2> QED
      BY <2>1, <2>2, <2>3, <2>4, CronSideTyped
  <1>2. ASSUME NEW t \in {Loop, Runner},
               \/ CronStep(Leave(t)) \/ CronStep(Lease(t)) \/ CronStep(Guard(t))
               \/ CronStep(ReadRow(t)) \/ CronStep(RowUnread(t)) \/ CronStep(RunJob(t))
               \/ CronStep(Mark(t)) \/ CronStep(MarkLost(t)) \/ CronStep(Done(t))
        PROVE  TypeInv'
    <2>1. /\ \/ Leave(t) \/ Lease(t) \/ Guard(t) \/ ReadRow(t) \/ RowUnread(t) \/ RunJob(t)
             \/ Mark(t) \/ MarkLost(t) \/ Done(t)
          /\ UNCHANGED aiVars
      BY <1>2 DEF CronStep
    <2>2. t \in CronThread
      BY DEF CronThread
    <2>3. CronTyped'
      BY <1>0, <2>1, <2>2, GuardTyped, ReadTyped, MarkTyped, ExecuteTyped
    <2>4. PoolMove(t)
      BY <1>0, <2>1, <2>2, CronMoves
    <2> QED
      BY <2>1, <2>2, <2>3, <2>4, CronSideTyped
  <1>3. ASSUME NEW row \in load.rows,
               CronStep(BecomeDue(row[1], row[2])) \/ CronStep(RunNow(row[1], row[2]))
        PROVE  TypeInv'
    <2>1. row[1] \in Tenant /\ row[2] \in Code
      BY <1>0, ServerAssumption
    <2>2. CASE CronStep(BecomeDue(row[1], row[2]))
      <3>1. CronTyped'
        BY <1>0, <2>1, <2>2, BecomeDueTyped DEF CronStep
      <3> QED
        BY <1>0, <2>2, <3>1, PoolFrame, QuestionsAlone DEF CronStep, BecomeDue, TypeInv
    <2>3. CASE CronStep(RunNow(row[1], row[2]))
      <3>1. CronTyped'
        BY <1>0, <2>3, RunNowTyped DEF CronStep
      <3>2. PoolMove(Runner) /\ Runner \in CronThread
        BY <2>1, <2>3 DEF CronStep, RunNow, PoolMove, CronThread
      <3> QED
        BY <2>3, <3>1, <3>2, CronSideTyped DEF CronStep
    <2> QED
      BY <1>3, <2>2, <2>3
  <1>4. CASE AiStep(today < load.days /\ NextDay)
    <2>1. UNCHANGED poolVars /\ UNCHANGED cronVars /\ today' = today + 1
          /\ UNCHANGED <<job, calls, liveWorkers, thread>>
      BY <1>4 DEF AiStep, NextDay
    <2>2. QuestionsTyped'
      BY <1>0, <2>1, IdleTyped DEF QuestionsTyped, JobType
    <2> QED
      BY <1>0, <2>1, <2>2, PoolFrame, CronTypedFrame DEF TypeInv
  <1>5. ASSUME NEW t \in Asking,
               AiStep(Ask(t)) \/ AiStep(Count(t)) \/ AiStep(Insert(t)) \/ AiStep(AskRefused(t))
        PROVE  TypeInv'
    <2>1. /\ Ask(t) \/ Count(t) \/ Insert(t) \/ AskRefused(t)
          /\ UNCHANGED cronVars /\ t \in AiThread
      BY <1>5 DEF AiStep, AiThread
    <2>2. QuestionsTyped'
      BY <1>0, <2>1, AskingTyped, InsertTyped
    <2>3. PoolMove(t)
      BY <1>0, <2>1, AskMoves
    <2> QED
      BY <2>1, <2>2, <2>3, AiSideTyped
  <1>6. ASSUME NEW w \in Workers,
               \/ AiStep(StartWorker(w)) \/ AiStep(Claim(w)) \/ AiStep(ReadSettings(w))
               \/ AiStep(CallProvider(w)) \/ AiStep(RecordCall(w)) \/ AiStep(Finish(w))
               \/ AiStep(EndWorker(w)) \/ (load.crowded /\ AiStep(WorkerRefused(w)))
        PROVE  TypeInv'
    <2>1. /\ WorkerStep(w) \/ WorkerRefused(w)
          /\ UNCHANGED cronVars /\ w \in AiThread
      BY <1>6 DEF AiStep, AiThread, WorkerStep
    <2>2. QuestionsTyped'
      BY <1>0, <2>1, StartTyped, EndTyped, WorkerTyped DEF WorkerStep
    <2>3. PoolMove(w)
      BY <2>1, WorkerMoves
    <2> QED
      BY <2>1, <2>2, <2>3, AiSideTyped
  <1>7. ASSUME NEW w \in Workers, AiStep(Cancel(w[1], w[2]))
        PROVE  TypeInv'
    <2>1. /\ job' = [job EXCEPT ![w[1]][w[2]] = "cancelled"]
          /\ UNCHANGED <<calls, today, liveWorkers, thread>>
          /\ UNCHANGED poolVars /\ UNCHANGED cronVars
      BY <1>7 DEF AiStep, Cancel
    <2>2. /\ JobType'
          /\ \A d \in Tenant, n \in Ids : job'[d][n] = "none" => job[d][n] = "none"
      BY <1>0, <2>1 DEF QuestionsTyped, JobType, JobStates, Final
    <2>3. QuestionsTyped'
      BY <1>0, <2>1, <2>2, IdleTyped DEF QuestionsTyped
    <2> QED
      BY <1>0, <2>1, <2>3, PoolFrame, CronTypedFrame DEF TypeInv
  <1>8. ASSUME NEW t \in Asking \cup Workers, AiStep(LeaseAi(t))
        PROVE  TypeInv'
    <2>1. PoolMove(t) /\ UNCHANGED aiVars /\ UNCHANGED cronVars /\ t \in AiThread
      BY <1>8 DEF AiStep, LeaseAi, PoolMove, AiThread
    <2> QED
      BY <1>0, <2>1, QuestionsAlone, AiSideTyped
  <1>9. CASE Crash
    BY <1>9, CrashTyped
  <1>10. CASE Boot
    <2>1. /\ job' = [d \in Tenant |-> FailedAtBoot(d)]
          /\ UNCHANGED <<calls, today, liveWorkers, thread>>
          /\ UNCHANGED poolVars /\ UNCHANGED cronVars
      BY <1>10 DEF Boot, AiBoot
    <2>2. /\ JobType'
          /\ \A d \in Tenant, n \in Ids : job'[d][n] = "none" => job[d][n] = "none"
      BY <1>0, <2>1 DEF QuestionsTyped, FailedAtBoot, JobType, JobStates, Final
    <2>3. QuestionsTyped'
      BY <1>0, <2>1, <2>2, IdleTyped DEF QuestionsTyped
    <2> QED
      BY <1>0, <2>1, <2>3, PoolFrame, CronTypedFrame DEF TypeInv
  <1>11. CASE UNCHANGED vars
    BY <1>0, <1>11, PoolFrame, CronTypedFrame, QuestionsAlone DEF vars, TypeInv
  <1>12. load.asking \subseteq Asking
    BY <1>0, ServerAssumption
  <1>13. CASE CronStep(FindRow) \/ CronStep(RowNotFound)
    <2>1. (FindRow \/ RowNotFound) /\ UNCHANGED aiVars
      BY <1>13 DEF CronStep
    <2>2. Runner \in CronThread
      BY DEF CronThread
    <2>3. CronTyped'
      BY <1>0, <2>1, FindTyped
    <2>4. PoolMove(Runner)
      BY <1>0, <2>1, <2>2, CronMoves
    <2> QED
      BY <2>1, <2>2, <2>3, <2>4, CronSideTyped
  <1> QED
    BY <1>1, <1>2, <1>3, <1>4, <1>5, <1>6, <1>7, <1>8, <1>9, <1>10, <1>11, <1>12, <1>13, Zenon
    DEF Next

\* "Releases the connection back to the pool of the TENANT it was drawn from"
\* (infrastructure/DbConnection.hpp), and the counter the worker takes itself off
\* at its end (modules/ir/IrModule.cpp): whatever fails, waits in vain or dies, no
\* connection is lost or leased twice, no row is due twice, the guard holds
\* registered jobs only, and the counter of workers is the number of them.
THEOREM TypesHold == Spec => []TypeOK
  <1>1. IInv /\ TypeInv => TypeOK
    <2> SUFFICES ASSUME IInv, TypeInv
                 PROVE  TypeOK
      OBVIOUS
    <2>1. PoolTypeOK
      BY DEF IInv, CronInv, PoolShape, TypeInv, PoolCounted, Holders, PoolTypeOK
    <2>2. CronTypeOK
      BY DEF TypeInv, CronTyped, RowsTyped, CronTypeOK
    <2>3. AiTypeOK
      BY DEF TypeInv, QuestionsTyped, JobType, JobStates, Live, AiTypeOK
    <2> QED
      BY <2>1, <2>2, <2>3 DEF TypeOK
  <1> QED
    BY <1>1, InitTyped, NextTyped, Invariance, PTL DEF Spec
=============================================================================
