--------------------------- MODULE ReadCommitted ---------------------------
(***************************************************************************)
(* The part of PostgreSQL the handlers rely on: every request runs in one  *)
(* pqxx::work transaction at the default READ COMMITTED level.  A write    *)
(* takes the row's lock and keeps it until COMMIT or ROLLBACK; a plain     *)
(* SELECT takes no lock and sees, for each row, the writer's own version   *)
(* or the last committed one.  The engine is not part of the repository;   *)
(* the operators are what src/ uses of it.                                 *)
(***************************************************************************)
CONSTANTS Row,      \* the table rows the specification tells apart
          Worker,   \* requests being served at the same time
          NoTxn     \* "this row is not locked"

ASSUME NoTxnAssumption == NoTxn \notin Worker

VARIABLES committed,  \* the version of each row every session sees
          live,       \* the newest version, committed or not
          lock        \* the transaction that holds the row's lock

dbVars == <<committed, live, lock>>

\* What a SELECT of worker w returns for row r.
Visible(w, r) == IF lock[r] = w THEN live[r] ELSE committed[r]

\* w may lock r now; otherwise its statement waits for the holder.
Free(w, r) == lock[r] \in {w, NoTxn}

\* The rows w has locked so far.
Held(w) == {r \in Row : lock[r] = w}

\* One data-changing statement (or SELECT ... FOR UPDATE, when new[r] is the
\* version found): new gives the rows it touches their new version.
Write(w, new) ==
    /\ \A r \in DOMAIN new : Free(w, r)
    /\ live' = [r \in Row |-> IF r \in DOMAIN new THEN new[r] ELSE live[r]]
    /\ lock' = [r \in Row |-> IF r \in DOMAIN new THEN w ELSE lock[r]]
    /\ UNCHANGED committed

CommitTxn(w) ==
    /\ committed' = [r \in Row |-> Visible(w, r)]
    /\ lock' = [r \in Row |-> IF lock[r] = w THEN NoTxn ELSE lock[r]]
    /\ UNCHANGED live

\* ROLLBACK, which is also what the destructor of an uncommitted pqxx::work
\* does when an exception leaves the handler, and what a lost connection does.
RollbackTxn(w) ==
    /\ live' = [r \in Row |-> IF lock[r] = w THEN committed[r] ELSE live[r]]
    /\ lock' = [r \in Row |-> IF lock[r] = w THEN NoTxn ELSE lock[r]]
    /\ UNCHANGED committed
=============================================================================
