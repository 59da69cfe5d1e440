--------------------------- MODULE ConnectionPool ---------------------------
(***************************************************************************)
(* infrastructure/DbConnection.hpp: one pool of connections per tenant     *)
(* database, and for every thread of the server the tenant its statements  *)
(* go to.  acquire() and the release of a lease run under the pool's       *)
(* mutex, so each is one step.                                             *)
(***************************************************************************)
EXTENDS Integers, FiniteSets

CONSTANTS Thread,        \* threads that talk to a database
          Tenant,        \* the registered databases
          DefaultTenant, \* where a thread without a tenant goes
          PoolSize,      \* connections per database
          NoTenant

ASSUME PoolAssumption ==
    /\ DefaultTenant \in Tenant
    /\ NoTenant \notin Tenant
    /\ PoolSize \in Nat \ {0}

VARIABLES idle,    \* per database, connections nobody leases
          current, \* currentTenant_ of each thread (thread_local)
          lease    \* per thread, the database of the connection it holds

poolVars == <<idle, current, lease>>

PoolInit ==
    /\ idle = [d \in Tenant |-> PoolSize]
    /\ current = [t \in Thread |-> NoTenant]
    /\ lease = [t \in Thread |-> NoTenant]

\* The database an acquire of thread t is routed to; an unknown tenant is the
\* default one.
Routed(t) == IF current[t] \in Tenant THEN current[t] ELSE DefaultTenant

SetTenant(t, d) == current' = [current EXCEPT ![t] = d]

Acquire(t) ==
    /\ lease[t] = NoTenant
    /\ idle[Routed(t)] > 0
    /\ idle' = [idle EXCEPT ![Routed(t)] = @ - 1]
    /\ lease' = [lease EXCEPT ![t] = Routed(t)]

\* Five seconds without a connection: PoolExhaustedException.
Exhausted(t) == idle[Routed(t)] = 0

\* ~PooledConnection: back to the pool it came from, whatever the thread's
\* tenant is by now.
Release(t) ==
    /\ idle' = [idle EXCEPT ![lease[t]] = @ + 1]
    /\ lease' = [lease EXCEPT ![t] = NoTenant]

\* No connection is lost or counted twice.
PoolTypeOK ==
    /\ current \in [Thread -> Tenant \cup {NoTenant}]
    /\ lease \in [Thread -> Tenant \cup {NoTenant}]
    /\ \A d \in Tenant :
          idle[d] + Cardinality({t \in Thread : lease[t] = d}) = PoolSize
=============================================================================
