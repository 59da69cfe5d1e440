------------------------------- MODULE Server -------------------------------
(***************************************************************************)
(* The scheduler and the AI questions in one server process, on the        *)
(* connection pools they share; the process may die at any moment and is   *)
(* started again.                                                          *)
(***************************************************************************)
EXTENDS Cron, AiJobs

CONSTANTS Loads,     \* what a server is given to do: [rows, asking, days, crowded]
          MaxCrashes \* bound: crashes

\* A thread is one thing; the loads name rows and requests that exist.
ASSUME ServerAssumption ==
    /\ {Loop, Runner} \cap (Asking \cup Workers) = {}
    /\ Asking \cap Workers = {}
    /\ Loads \subseteq [rows : SUBSET (Tenant \X Code), asking : SUBSET Asking,
                       days : Nat, crowded : BOOLEAN]
    /\ MaxCrashes \in Nat

VARIABLES load, up, crashes

vars == <<poolVars, cronVars, aiVars, load, up, crashes>>

Init ==
    /\ PoolInit
    /\ CronInit
    /\ AiInit
    /\ load \in Loads
    /\ up = TRUE
    /\ crashes = 0

CronStep(A) == up /\ A /\ UNCHANGED <<aiVars, load, up, crashes>>
AiStep(A) == up /\ A /\ UNCHANGED <<cronVars, load, up, crashes>>

\* Nothing in memory survives.
Crash ==
    /\ up
    /\ crashes < MaxCrashes
    /\ crashes' = crashes + 1
    /\ up' = FALSE
    /\ CronStop
    /\ AiStop
    /\ idle' = [d \in Tenant |-> PoolSize]
    /\ current' = [t \in Thread |-> NoTenant]
    /\ lease' = [t \in Thread |-> NoTenant]
    /\ UNCHANGED load

Boot ==
    /\ ~up
    /\ up' = TRUE
    /\ AiBoot
    /\ UNCHANGED <<poolVars, cronVars, load, crashes>>

Next ==
    \/ CronStep(Tick) \/ CronStep(TickTenant) \/ CronStep(ReadDue) \/ CronStep(ScheduleUnread)
    \/ CronStep(NextJob) \/ CronStep(FindRow) \/ CronStep(RowNotFound)
    \/ \E t \in {Loop, Runner} :
          \/ CronStep(Leave(t)) \/ CronStep(Lease(t)) \/ CronStep(Guard(t))
          \/ CronStep(ReadRow(t)) \/ CronStep(RowUnread(t)) \/ CronStep(RunJob(t))
          \/ CronStep(Mark(t)) \/ CronStep(MarkLost(t)) \/ CronStep(Done(t))
    \/ \E row \in load.rows :
          CronStep(BecomeDue(row[1], row[2])) \/ CronStep(RunNow(row[1], row[2]))
    \/ AiStep(today < load.days /\ NextDay)
    \/ \E t \in load.asking : AiStep(Ask(t)) \/ AiStep(Count(t)) \/ AiStep(Insert(t))
    \/ \E w \in Workers :
          \/ AiStep(StartWorker(w)) \/ AiStep(Claim(w)) \/ AiStep(ReadSettings(w))
          \/ AiStep(CallProvider(w)) \/ AiStep(RecordCall(w)) \/ AiStep(Finish(w))
          \/ AiStep(EndWorker(w)) \/ AiStep(Cancel(w[1], w[2]))
    \/ \E t \in Asking \cup Workers : AiStep(LeaseAi(t))
    \/ \E t \in Asking : AiStep(AskRefused(t))
    \/ \E w \in Workers : load.crowded /\ AiStep(WorkerRefused(w))
    \/ Crash \/ Boot

\* The threads run; the event loop comes back to the tick.  cv_.notify_all wakes
\* every waiter, so a connection that comes free again and again is got; the
\* database answers again and again: a schedule is read, and the row of a run by
\* hand found.  An end need not be recorded.
Fairness ==
    /\ WF_vars(Boot)
    /\ WF_vars(CronStep(Tick \/ TickTenant \/ NextJob))
    /\ \A d \in Tenant :
          /\ SF_vars(CronStep(ReadDue /\ exec[Loop].db = d))
          /\ SF_vars(CronStep(FindRow /\ exec[Runner].db = d))
    /\ SF_vars(CronStep(Lease(Loop)))
    /\ \A t \in {Loop, Runner} :
          WF_vars(CronStep(Leave(t) \/ Lease(t) \/ Guard(t) \/ ReadRow(t) \/ RowUnread(t)
                           \/ RunJob(t) \/ Mark(t) \/ MarkLost(t) \/ Done(t)))
    /\ WF_vars(CronStep(FindRow \/ RowNotFound))
    /\ \A t \in Asking : WF_vars(AiStep(Count(t) \/ Insert(t)))
    /\ \A w \in Workers :
          /\ WF_vars(AiStep(WorkerStep(w)))
          /\ SF_vars(AiStep(LeaseAi(w)))

Spec == Init /\ [][Next]_vars /\ Fairness

-----------------------------------------------------------------------------
\* The pools, the scheduler's rows and guard, and the questions keep their
\* types; no connection is lost or leased twice.
TypeOK == PoolTypeOK /\ CronTypeOK /\ AiTypeOK

\* "Runs a job with the DB router pinned to `tenant` for its whole duration"
\* (core/IrCron.hpp), "no change at the call site" (DbConnection.hpp): whoever
\* works for a database named to the pool, be it the loop, a run by hand or a
\* request that asks, holds a connection to that one only, through waits, refusals
\* and restarts.  The thread of a question names none: it holds one to the
\* default database, wherever the question was asked.
RightDatabase ==
    /\ \A t \in {Loop, Runner} : lease[t] # NoTenant => lease[t] = exec[t].db
    /\ \A t \in Asking : lease[t] # NoTenant => lease[t] = asksIn[t]
    /\ \A w \in Workers : lease[w] \in {NoTenant, DefaultTenant}

\* "Run one job to completion. Always ends in a terminal state."
\* (modules/ir/IrModule.cpp, runJob_) and "a screen that polls a job that will
\* never move" (ensureSchema_): every question asked in the default database
\* ends, whether it is answered, cancelled or cut off by a restart, when no
\* worker waits five seconds for a connection.
JobsEnd ==
    \A w \in Workers :
        ~load.crowded /\ w[1] = DefaultTenant /\ job[w[1]][w[2]] \in Unfinished
           ~> job[w[1]][w[2]] \notin Unfinished

\* "so every path out of here writes a state" (modules/ir/IrModule.cpp,
\* runJob_): while the server is up, no unfinished question has lost its worker.
NoOrphans ==
    up => \A w \in Workers : job[w[1]][w[2]] \in Unfinished => ~At(w, "none")
=============================================================================
