-------------------------------- MODULE Cron --------------------------------
(***************************************************************************)
(* The scheduler of core/IrCron.cpp: the tick that runs on the event loop, *)
(* one tenant database after the other, runNow() on the thread of a        *)
(* request, and the ir_cron rows that survive the server.  A row whose     *)
(* next_run has come is in due, oldest first.  What a job does is not      *)
(* modelled here (RentalBilling runs one of them).                         *)
(***************************************************************************)
EXTENDS ConnectionPool, Sequences, SequencesExt

CONSTANTS Code,       \* ir_cron.code of the active rows
          registered, \* the codes registerJob was called with
          Loop,       \* the event loop's thread
          Runner,     \* the thread of a request that calls runNow()
          tenants,    \* tenantDbs(): the databases in the order of their names
          Limit,      \* rows a tick takes per database
          MaxFailures, \* bound: failures counted
          NoCode

ASSUME CronAssumption ==
    /\ {Loop, Runner} \subseteq Thread
    /\ registered \subseteq Code
    /\ tenants \in Seq(Tenant) /\ ToSet(tenants) = Tenant
    /\ Limit \in Nat \ {0}
    /\ MaxFailures \in Nat

VARIABLES due,      \* per database, the codes whose next_run is past
          failures, \* ir_cron.failure_count
          running,  \* running_: what the overlap guard refuses
          exec      \* what the loop and the runner are doing

cronVars == <<due, failures, running, exec>>

Resting == [pc |-> "idle", db |-> NoTenant, code |-> NoCode, count |-> 0,
            jobs |-> <<>>, dbs |-> <<>>]

In(t, pc) == exec[t].pc = pc
Step(t, pc) == exec' = [exec EXCEPT ![t].pc = pc]

\* The thread has no more jobs of this tick, or was a request.
JobOver(t) ==
    exec' = [exec EXCEPT ![t].pc = IF t = Loop THEN "job" ELSE "leave",
                         ![t].code = NoCode, ![t].count = 0]

CronInit ==
    /\ due = [d \in Tenant |-> <<>>]
    /\ failures = [d \in Tenant |-> [c \in Code |-> 0]]
    /\ running = {}
    /\ exec = [t \in {Loop, Runner} |-> Resting]

\* next_run passes.
BecomeDue(d, c) ==
    /\ c \notin ToSet(due[d])
    /\ due' = [due EXCEPT ![d] = Append(@, c)]
    /\ UNCHANGED <<failures, running, exec, poolVars>>

-----------------------------------------------------------------------------
(* tick_ and tickTenant_ *)

Tick ==
    /\ In(Loop, "idle")
    /\ exec' = [exec EXCEPT ![Loop].pc = "tenant", ![Loop].dbs = tenants]
    /\ UNCHANGED <<due, failures, running, poolVars>>

\* Mutant: the router stays where the tick began.
TickTenantUnrouted ==
    /\ In(Loop, "tenant")
    /\ exec[Loop].dbs # <<>>
    /\ exec' = [exec EXCEPT ![Loop].pc = "due", ![Loop].db = Head(exec[Loop].dbs),
                            ![Loop].dbs = Tail(@)]
    /\ UNCHANGED <<due, failures, running, poolVars>>

TickTenant ==
    /\ In(Loop, "tenant")
    /\ exec[Loop].dbs # <<>>
    /\ SetTenant(Loop, Head(exec[Loop].dbs))
    /\ exec' = [exec EXCEPT ![Loop].pc = "due", ![Loop].db = Head(exec[Loop].dbs),
                            ![Loop].dbs = Tail(@)]
    /\ UNCHANGED <<due, failures, running, idle, lease>>

\* The end of a tick and of a request clears the thread's tenant.
Leave(t) ==
    /\ In(t, "leave") \/ (In(t, "tenant") /\ exec[t].dbs = <<>>)
    /\ SetTenant(t, NoTenant)
    /\ exec' = [exec EXCEPT ![t] = Resting]
    /\ UNCHANGED <<due, failures, running, idle, lease>>

\* The threads that ask the pool for a connection now.
Waiting(t) == exec[t].pc \in {"due", "find", "row", "succeeded", "failed"} /\ lease[t] = NoTenant

Lease(t) ==
    /\ Waiting(t)
    /\ Acquire(t)
    /\ UNCHANGED <<cronVars, current>>

\* SELECT ... WHERE active AND next_run <= now() ORDER BY next_run LIMIT 20
ReadDue ==
    /\ In(Loop, "due")
    /\ lease[Loop] # NoTenant
    /\ Release(Loop)
    /\ LET rows == due[lease[Loop]]
       IN exec' = [exec EXCEPT ![Loop].pc = "job",
                     ![Loop].jobs = IF Len(rows) <= Limit THEN rows ELSE SubSeq(rows, 1, Limit)]
    /\ UNCHANGED <<due, failures, running, current>>

\* No connection, or the statement fails: the next tick will see.
ScheduleUnread ==
    /\ In(Loop, "due")
    /\ IF lease[Loop] = NoTenant THEN Exhausted(Loop) /\ UNCHANGED <<idle, lease>>
       ELSE Release(Loop)
    /\ Step(Loop, "tenant")
    /\ UNCHANGED <<due, failures, running, current>>

\* The rows of the tick one after the other, then the next database.
NextJob ==
    LET now == exec[Loop] IN
    /\ In(Loop, "job")
    /\ exec' = [exec EXCEPT ![Loop] =
                  IF now.jobs = <<>> THEN [now EXCEPT !.pc = "tenant"]
                  ELSE [now EXCEPT !.pc = "guard", !.code = Head(now.jobs), !.jobs = Tail(now.jobs)]]
    /\ UNCHANGED <<due, failures, running, poolVars>>

-----------------------------------------------------------------------------
(* runNow and executeJob_ *)

Key(t) == <<exec[t].db, exec[t].code>>

\* runNow looks at the guard and for the id of the row; executeJob_ looks at the
\* guard again and reads the row.
RunNow(d, c) ==
    /\ In(Runner, "idle")
    /\ <<d, c>> \notin running
    /\ c \in registered
    /\ SetTenant(Runner, d)
    /\ exec' = [exec EXCEPT ![Runner] = [Resting EXCEPT !.pc = "find", !.db = d, !.code = c]]
    /\ UNCHANGED <<due, failures, running, idle, lease>>

\* SELECT id FROM ir_cron WHERE code = $1
FindRow ==
    /\ In(Runner, "find")
    /\ lease[Runner] # NoTenant
    /\ Release(Runner)
    /\ Step(Runner, "guard")
    /\ UNCHANGED <<due, failures, running, current>>

\* No connection, or the statement fails: nothing is run.
RowNotFound ==
    /\ In(Runner, "find")
    /\ IF lease[Runner] = NoTenant THEN Exhausted(Runner) /\ UNCHANGED <<idle, lease>>
       ELSE Release(Runner)
    /\ Step(Runner, "leave")
    /\ UNCHANGED <<due, failures, running, current>>

\* Mutant: executeJob_ relies on what runNow saw.
GuardOnce(t) ==
    /\ In(t, "guard")
    /\ IF t = Loop /\ (Key(t) \in running \/ exec[t].code \notin registered)
       THEN JobOver(t) /\ UNCHANGED running
       ELSE Step(t, "row") /\ running' = running \cup {Key(t)}
    /\ UNCHANGED <<due, failures, poolVars>>

\* A job that runs already, or that nothing implements, is skipped.
Guard(t) ==
    /\ In(t, "guard")
    /\ IF Key(t) \in running \/ exec[t].code \notin registered
       THEN JobOver(t) /\ UNCHANGED running
       ELSE Step(t, "row") /\ running' = running \cup {Key(t)}
    /\ UNCHANGED <<due, failures, poolVars>>

ReadRow(t) ==
    /\ In(t, "row")
    /\ lease[t] # NoTenant
    /\ Release(t)
    /\ exec' = [exec EXCEPT ![t].pc = "body", ![t].count = failures[lease[t]][exec[t].code]]
    /\ UNCHANGED <<due, failures, running, current>>

\* The job runs with the defaults when its row cannot be read.
RowUnread(t) ==
    /\ In(t, "row")
    /\ IF lease[t] = NoTenant THEN Exhausted(t) /\ UNCHANGED <<idle, lease>> ELSE Release(t)
    /\ exec' = [exec EXCEPT ![t].pc = "body", ![t].count = 0]
    /\ UNCHANGED <<due, failures, running, current>>

\* fn() returns or throws.
RunJob(t) ==
    /\ In(t, "body")
    /\ \E outcome \in {"succeeded", "failed"} : Step(t, outcome)
    /\ UNCHANGED <<due, failures, running, poolVars>>

\* The due rows without c, whose next_run is no longer past.
Without(rows, c) ==
    IF c \in ToSet(rows)
    THEN LET at == CHOOSE i \in DOMAIN rows : rows[i] = c IN RemoveAt(rows, at)
    ELSE rows

\* markSuccess_ and markFailure_: next_run moves into the future either way.
Mark(t) ==
    LET d == lease[t]
        c == exec[t].code
    IN /\ In(t, "succeeded") \/ In(t, "failed")
       /\ d # NoTenant
       /\ Release(t)
       /\ due' = [due EXCEPT ![d] = Without(@, c)]
       /\ failures' = [failures EXCEPT ![d][c] =
                         IF In(t, "succeeded") THEN 0
                         ELSE IF exec[t].count < MaxFailures THEN exec[t].count + 1 ELSE @]
       /\ Step(t, "done")
       /\ UNCHANGED <<running, current>>

\* Only logged: the row stays due.
MarkLost(t) ==
    /\ In(t, "succeeded") \/ In(t, "failed")
    /\ IF lease[t] = NoTenant THEN Exhausted(t) /\ UNCHANGED <<idle, lease>> ELSE Release(t)
    /\ Step(t, "done")
    /\ UNCHANGED <<due, failures, running, current>>

\* Mutant: a job that failed leaves its guard behind.
DoneUnlessFailed(t) ==
    /\ In(t, "done")
    /\ running' = IF exec[t].count = 0 THEN running \ {Key(t)} ELSE running
    /\ JobOver(t)
    /\ UNCHANGED <<due, failures, poolVars>>

Done(t) ==
    /\ In(t, "done")
    /\ running' = running \ {Key(t)}
    /\ JobOver(t)
    /\ UNCHANGED <<due, failures, poolVars>>

-----------------------------------------------------------------------------
\* The server dies; the guard and the timers go with it.
CronStop ==
    /\ running' = {}
    /\ exec' = [t \in {Loop, Runner} |-> Resting]
    /\ UNCHANGED <<due, failures>>

CronTypeOK ==
    /\ \A d \in Tenant : due[d] \in Seq(Code) /\ IsInjective(due[d])
    /\ failures \in [Tenant -> [Code -> 0..MaxFailures]]
    /\ running \subseteq Tenant \X registered

\* "OVERLAP GUARD a slow job cannot re-enter. Billing that takes 90 s on a 60 s
\* interval must not run twice concurrently and double-bill." (core/IrCron.hpp):
\* the loop and a request never run the same job of one database at once.
NoOverlap ==
    ~ \E s, t \in {Loop, Runner} :
        /\ s # t
        /\ In(s, "body")
        /\ In(t, "body")
        /\ Key(s) = Key(t)

RunsNow(d, c) == \E t \in {Loop, Runner} : In(t, "body") /\ Key(t) = <<d, c>>

\* "catches jobs that came due while the server was down" (core/IrCron.cpp) and
\* "It is never silently dropped, and it never halts the scheduler for other
\* jobs." (core/IrCron.hpp): an active row that is due is run, whatever else is
\* due, fails, is not recorded, or has no implementation.  (A run that was under
\* way when its row came due takes it off the list.)
DueJobsRun ==
    \A d \in Tenant : \A c \in registered :
        c \in ToSet(due[d]) ~> RunsNow(d, c) \/ c \notin ToSet(due[d])
=============================================================================
