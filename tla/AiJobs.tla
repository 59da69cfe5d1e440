------------------------------- MODULE AiJobs -------------------------------
(***************************************************************************)
(* The questions put to the AI agent (IrAiSettingsViewModel in             *)
(* modules/ir/IrModule.cpp): ask_async inserts an ir_ai_job row and starts *)
(* a thread, the thread asks the provider and writes the answer, and a     *)
(* restart of the server fails what was under way.  The thread never       *)
(* selects a tenant, so its statements go where the pool routes a thread   *)
(* without one.                                                            *)
(***************************************************************************)
EXTENDS ConnectionPool, Sequences

CONSTANTS Asking,      \* threads of the requests that ask
          asksIn,      \* the database of such a request's session
          MaxJobs,     \* bound: questions per database
          MaxPerUser,  \* kMaxJobsPerUser
          MaxRunning,  \* kMaxJobsRunning
          DailyCap     \* daily_call_cap; 0: none

\* The worker threads: one for the n-th question of a database.
Ids == 1..MaxJobs
Workers == {asksIn[t] : t \in Asking} \X Ids

ASSUME AiJobsAssumption ==
    /\ Asking \cup Workers \subseteq Thread
    /\ asksIn \in [Asking -> Tenant]
    /\ {MaxJobs, MaxPerUser, MaxRunning, DailyCap} \subseteq Nat

VARIABLES job,      \* per database, the state of each question; "none": not asked
          calls,    \* per database, ir_ai_settings.calls_today and calls_date
          today,
          liveWorkers, \* the process-wide counter of worker threads
          thread    \* what each worker and each asking request does

aiVars == <<job, calls, today, liveWorkers, thread>>

Unfinished == {"queued", "running"}
Final == {"done", "failed", "cancelled"}

At(t, pc) == thread[t] = pc
Goto(t, pc) == thread' = [thread EXCEPT ![t] = pc]

AiInit ==
    /\ job = [d \in Tenant |-> [n \in Ids |-> "none"]]
    /\ calls = [d \in Tenant |-> [today |-> 0, date |-> 0]]
    /\ today = 0
    /\ liveWorkers = 0
    /\ thread = [t \in Asking \cup Workers |-> "none"]

NextDay ==
    /\ today' = today + 1
    /\ UNCHANGED <<job, calls, liveWorkers, thread, poolVars>>

-----------------------------------------------------------------------------
(* ask_async, ask_cancel *)

\* The dispatcher has pinned the request's thread to its session's database.
Ask(t) ==
    /\ At(t, "none")
    /\ SetTenant(t, asksIn[t])
    /\ Goto(t, "count")
    /\ UNCHANGED <<job, calls, today, liveWorkers, idle, lease>>

LeaseAi(t) ==
    /\ t \in Asking \cup Workers
    /\ thread[t] \in {"count", "claim", "settings", "record", "answered", "erred"}
    /\ Acquire(t)
    /\ UNCHANGED <<aiVars, current>>

\* One administrator per database asks.  Questions a week old are deleted, and
\* the caps are compared before anything is inserted.
Count(t) ==
    LET d == lease[t]
        open == {n \in Ids : job[d][n] \in Unfinished}
    IN /\ At(t, "count")
       /\ d # NoTenant
       /\ \E old \in {{}, {n \in Ids : job[d][n] \in Final}} :
             job' = [job EXCEPT ![d] = [n \in Ids |-> IF n \in old THEN "pruned" ELSE @[n]]]
       /\ IF Cardinality(open) < MaxPerUser /\ liveWorkers < MaxRunning
          THEN Goto(t, "insert") /\ UNCHANGED poolVars
          ELSE /\ Goto(t, "none")
               /\ Release(t)
               /\ SetTenant(t, NoTenant)
       /\ UNCHANGED <<calls, today, liveWorkers>>

\* INSERT ... RETURNING id and COMMIT; then the thread is started.
Insert(t) ==
    LET d == lease[t] IN
    /\ At(t, "insert")
    /\ \E n \in Ids :
          /\ job[d][n] = "none"
          /\ \A m \in 1..(n - 1) : job[d][m] # "none"
          /\ job' = [job EXCEPT ![d][n] = "queued"]
          /\ thread' = [thread EXCEPT ![t] = "none", ![<<d, n>>] = "start"]
    /\ Release(t)
    /\ SetTenant(t, NoTenant)
    /\ UNCHANGED <<calls, today, liveWorkers>>

\* Mutant: an answer that is there already is cancelled too.
CancelAny(d, n) ==
    /\ job[d][n] # "none"
    /\ job' = [job EXCEPT ![d][n] = "cancelled"]
    /\ UNCHANGED <<calls, today, liveWorkers, thread, poolVars>>

Cancel(d, n) ==
    /\ job[d][n] \in Unfinished
    /\ job' = [job EXCEPT ![d][n] = "cancelled"]
    /\ UNCHANGED <<calls, today, liveWorkers, thread, poolVars>>

-----------------------------------------------------------------------------
(* the worker: runJob_, askPayload_, callProvider_ *)

StartWorker(w) ==
    /\ At(w, "start")
    /\ liveWorkers' = liveWorkers + 1
    /\ Goto(w, "claim")
    /\ UNCHANGED <<job, calls, today, poolVars>>

\* UPDATE ... SET state='running' WHERE id = jobId AND state='queued', in the
\* database the thread is routed to.
Claim(w) ==
    LET d == lease[w] IN
    /\ At(w, "claim")
    /\ d # NoTenant
    /\ IF job[d][w[2]] = "queued"
       THEN job' = [job EXCEPT ![d][w[2]] = "running"] /\ Goto(w, "settings")
       ELSE UNCHANGED job /\ Goto(w, "end")
    /\ Release(w)
    /\ UNCHANGED <<calls, today, liveWorkers, current>>

\* The cap "is checked BEFORE the call": calls_today, whatever its date.
ReadSettings(w) ==
    LET d == lease[w] IN
    /\ At(w, "settings")
    /\ d # NoTenant
    /\ Goto(w, IF DailyCap > 0 /\ calls[d].today >= DailyCap THEN "erred" ELSE "call")
    /\ Release(w)
    /\ UNCHANGED <<job, calls, today, liveWorkers, current>>

\* The provider is called; no connection is held meanwhile.
CallProvider(w) ==
    /\ At(w, "call")
    /\ Goto(w, "record")
    /\ UNCHANGED <<job, calls, today, liveWorkers, poolVars>>

RecordCall(w) ==
    LET d == lease[w] IN
    /\ At(w, "record")
    /\ d # NoTenant
    /\ calls' = [calls EXCEPT ![d] = [today |-> IF @.date = today THEN @.today + 1 ELSE 1,
                                      date |-> today]]
    /\ Goto(w, "answered")
    /\ Release(w)
    /\ UNCHANGED <<job, today, liveWorkers, current>>

\* The answer or the error, unless the question was cancelled meanwhile.
Finish(w) ==
    LET d == lease[w] IN
    /\ At(w, "answered") \/ At(w, "erred")
    /\ d # NoTenant
    /\ job' = IF job[d][w[2]] = "running"
              THEN [job EXCEPT ![d][w[2]] = IF At(w, "answered") THEN "done" ELSE "failed"]
              ELSE job
    /\ Goto(w, "end")
    /\ Release(w)
    /\ UNCHANGED <<calls, today, liveWorkers, current>>

\* PoolExhaustedException ends the request;
AskRefused(t) ==
    /\ At(t, "count")
    /\ lease[t] = NoTenant
    /\ Exhausted(t)
    /\ Goto(t, "none")
    /\ SetTenant(t, NoTenant)
    /\ UNCHANGED <<job, calls, today, liveWorkers, idle, lease>>

\* within askPayload_ it is the question's error, elsewhere it ends the worker.
WorkerRefused(w) ==
    /\ lease[w] = NoTenant
    /\ Exhausted(w)
    /\ \/ thread[w] \in {"settings", "record"} /\ Goto(w, "erred")
       \/ thread[w] \in {"claim", "answered", "erred"} /\ Goto(w, "end")
    /\ UNCHANGED <<job, calls, today, liveWorkers, poolVars>>

\* Mutant: the worker is never taken off the count.
EndWorkerUncounted(w) ==
    /\ At(w, "end")
    /\ Goto(w, "none")
    /\ UNCHANGED <<job, calls, today, liveWorkers, poolVars>>

EndWorker(w) ==
    /\ At(w, "end")
    /\ liveWorkers' = liveWorkers - 1
    /\ Goto(w, "none")
    /\ UNCHANGED <<job, calls, today, poolVars>>

-----------------------------------------------------------------------------
\* The server dies; what it has asked is forgotten, the rows stay.
AiStop ==
    /\ liveWorkers' = 0
    /\ thread' = [t \in Asking \cup Workers |-> "none"]
    /\ UNCHANGED <<job, calls, today>>

\* Mutant: only what was running is failed.
FailedAtBootRunning(d) == [n \in Ids |-> IF job[d][n] = "running" THEN "failed" ELSE job[d][n]]

\* ensureSchema_ of every database: "its thread died with the process".
FailedAtBoot(d) == [n \in Ids |-> IF job[d][n] \in Unfinished THEN "failed" ELSE job[d][n]]

AiBoot ==
    /\ job' = [d \in Tenant |-> FailedAtBoot(d)]
    /\ UNCHANGED <<calls, today, liveWorkers, thread>>

WorkerStep(w) ==
    \/ StartWorker(w) \/ Claim(w) \/ ReadSettings(w) \/ CallProvider(w) \/ RecordCall(w)
    \/ Finish(w) \/ EndWorker(w)

AiTypeOK ==
    /\ job \in [Tenant -> [Ids -> Unfinished \cup Final \cup {"none", "pruned"}]]
    /\ calls \in [Tenant -> [today : Nat, date : Nat]]
    /\ liveWorkers = Cardinality({w \in Workers : thread[w] \notin {"none", "start"}})

\* "Stop waiting for one. ... whatever comes back is discarded rather than
\* shown" (modules/ir/IrModule.cpp, ask_cancel): a question that has ended keeps
\* its end, however the answer, a cancel and a restart race for it.
EndsOnce ==
    [][\A d \in Tenant, n \in Ids :
          job[d][n] \in Final => job'[d][n] \in {job[d][n], "pruned"}]_job

\* "a cap that only notices once the money is spent is not a cap", "The daily
\* call cap has been reached" (modules/ir/IrModule.cpp, callProvider_): only
\* calls of today count against today's cap.
CapIsDaily ==
    [][\A w \in Workers : At(w, "settings") /\ thread'[w] = "erred" /\ lease[w] # NoTenant
         => calls[lease[w]].date = today]_thread
=============================================================================
