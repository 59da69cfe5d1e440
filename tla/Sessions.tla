------------------------------ MODULE Sessions ------------------------------
(***************************************************************************)
(* Who a request acts for: the session store of                            *)
(* infrastructure/SessionManager.hpp and the handlers that log in, log     *)
(* out, switch company and switch database in JsonRpcDispatcher.hpp and    *)
(* auth/AuthViewModel.hpp, for one person with a login in every tenant.    *)
(* Each method of the store runs under its mutex and is one step; so is    *)
(* each database transaction.  Between two of them any other request runs. *)
(***************************************************************************)
EXTENDS Integers, Sequences, FiniteSets, FiniteSetsExt, SequencesExt

CONSTANTS Worker,       \* requests being served at the same time
          Tenant,       \* the registered databases
          employs,      \* the companies of a tenant that ever employ the person
          Company,      \* all companies
          MaxSessions,  \* maxSessions_
          MaxIds,       \* bound: session ids minted
          TenantSwitch, \* the control plane is on: switch_company answers
          OneAdmin,     \* no two revocations at once
          DbAnswers,    \* the query for a user's companies never fails
          NoId, NoCompany

ASSUME SessionsAssumption ==
    /\ MaxSessions \in Nat \ {0}
    /\ MaxIds \in Nat
    /\ Company \subseteq Nat
    /\ employs \in [Tenant -> SUBSET Company]
    /\ \A t \in Tenant : employs[t] # {}
    /\ NoCompany \notin Company
    /\ NoId \notin 1..MaxIds

VARIABLES session, \* the store: what is kept under an id
          recency, \* the ids in the store, least recently accessed first
          minted,  \* ids generated so far: an id is never generated twice
          held,    \* ids an answer has given to a browser
          observed, \* ids a browser held while they were anonymous
          member,  \* res_company_users_rel of the person, per tenant
          company, \* res_users.company_id of the person, per tenant
          call     \* per worker, the request it serves

storeVars == <<session, recency, minted>>
dbVars    == <<member, company>>
vars      == <<storeVars, held, observed, dbVars, call>>

-----------------------------------------------------------------------------
NoSession == [user |-> FALSE, tenant |-> "", company |-> NoCompany, allowed |-> {},
              expired |-> FALSE]

Idle == [pc |-> "idle", sid |-> NoId, tenant |-> "", company |-> NoCompany, copy |-> NoSession]

At(w, pc) == call[w].pc = pc
Goto(w, pc) == call' = [call EXCEPT ![w].pc = pc]

Stored == ToSet(recency)

\* isExpired_ makes an entry invisible to get, update and rotate; it keeps its
\* place until something evicts it.
Live(i) == i \in Stored /\ ~session[i].expired

\* What an entry holds once only the ids of kept remain.
Keeping(kept) == [j \in 1..MaxIds |-> IF j \in ToSet(kept) THEN session[j] ELSE NoSession]

\* Mutant: the least recently used entry goes, whoever it belongs to.
VictimOldest(kept) == Head(kept)

\* evictOldestAnonymousLocked_
Victim(kept) ==
    LET anonymous == SelectSeq(kept, LAMBDA i : ~session[i].user)
    IN Head(IF anonymous # <<>> THEN anonymous ELSE kept)

\* Mutant: only what has expired makes room.
RoomOfExpired ==
    IF Len(recency) < MaxSessions THEN recency
    ELSE SelectSeq(recency, LAMBDA i : ~session[i].expired)

\* What create() leaves of the store before it inserts.
Room ==
    LET kept == IF Len(recency) < MaxSessions THEN recency
                ELSE SelectSeq(recency, LAMBDA i : ~session[i].expired)
    IN IF Len(kept) < MaxSessions THEN kept ELSE Remove(kept, Victim(kept))

\* create(): the new id is minted + 1.
Create ==
    /\ minted < MaxIds
    /\ recency' = Append(Room, minted + 1)
    /\ session' = Keeping(Room)
    /\ minted' = minted + 1

\* Mutant: a session is put last without leaving its place.
UpdateTwice(i, s) ==
    /\ recency' = IF Live(i) THEN Append(recency, i) ELSE recency
    /\ session' = IF Live(i) THEN [session EXCEPT ![i] = s] ELSE session
    /\ UNCHANGED minted

\* update(): nothing happens to an id that is gone or has expired.
Update(i, s) ==
    /\ recency' = IF Live(i) THEN Append(Remove(recency, i), i) ELSE recency
    /\ session' = IF Live(i) THEN [session EXCEPT ![i] = s] ELSE session
    /\ UNCHANGED minted

Init ==
    /\ session = [i \in 1..MaxIds |-> NoSession]
    /\ recency = <<>>
    /\ minted = 0
    /\ held = {}
    /\ observed = {}
    /\ member = employs
    /\ company = [t \in Tenant |-> Min(employs[t])]
    /\ call = [w \in Worker |-> Idle]

-----------------------------------------------------------------------------
(* the store on its own *)

\* Any request looks its session up first; get() refreshes accessedAt at most
\* once a minute, so the other steps leave the order alone.
Get(i) ==
    /\ Live(i)
    /\ recency' = Append(Remove(recency, i), i)
    /\ UNCHANGED <<session, minted, held, observed, dbVars, call>>

\* An hour after its last access; the least recently used entry is the first.
\* What it held is never read again.
Expire ==
    /\ \E k \in DOMAIN recency :
          /\ \A j \in 1..(k - 1) : session[recency[j]].expired
          /\ ~session[recency[k]].expired
          /\ session' = [session EXCEPT ![recency[k]] = [NoSession EXCEPT !.expired = TRUE]]
    /\ UNCHANGED <<recency, minted, held, observed, dbVars, call>>

\* The session.gc job and the safety-net timer.
EvictExpired ==
    /\ recency' = SelectSeq(recency, LAMBDA i : ~session[i].expired)
    /\ session' = Keeping(recency')
    /\ UNCHANGED <<minted, held, observed, dbVars, call>>

\* get_session_info of a browser without a session, or with one that died.
Visit ==
    /\ Create
    /\ held' = held \cup {minted + 1}
    /\ observed' = observed \cup {minted + 1}
    /\ UNCHANGED <<dbVars, call>>

\* handleLogout: the entry stays, anonymous.
Logout(i) ==
    /\ i \in held
    /\ Live(i)
    /\ Update(i, [session[i] EXCEPT !.user = FALSE])
    /\ observed' = observed \cup {i}
    /\ UNCHANGED <<held, dbVars, call>>

-----------------------------------------------------------------------------
(* which companies *)

\* loadAllowedCompaniesTxn_ on the companies its query returned: the company the
\* session already has when there are none; an active company outside is replaced.
Loaded(s, found) ==
    LET allowed == IF found = {} /\ s.company # NoCompany THEN {s.company} ELSE found
    IN [s EXCEPT !.allowed = allowed,
                 !.company = IF allowed = {} \/ s.company \in allowed
                             THEN s.company ELSE Min(allowed)]

\* The query finds the memberships (of companies that are not archived: here none
\* is).  When it fails, its exception is swallowed after the list was cleared.
Queried(s) ==
    {Loaded(s, member[s.tenant])} \cup (IF DbAnswers THEN {} ELSE {Loaded(s, {})})

\* loadAllowedCompanies_ catches what the pool throws before that: the copy stays
\* as it was.
LoadOutcomes(s) == Queried(s) \cup (IF DbAnswers THEN {} ELSE {s})

\* Grant: INSERT ... ON CONFLICT DO NOTHING.
Grant(t, c) ==
    /\ member' = [member EXCEPT ![t] = @ \cup {c}]
    /\ UNCHANGED <<storeVars, held, observed, company, call>>

\* Mutant: the last membership may go.
RevokeCountAny(w, t, c) ==
    /\ call[w] = Idle
    /\ OneAdmin => \A v \in Worker : ~At(v, "revoke")
    /\ Cardinality(member[t]) > 0
    /\ call' = [call EXCEPT ![w] = [Idle EXCEPT !.pc = "revoke", !.tenant = t, !.company = c]]
    /\ UNCHANGED <<storeVars, held, observed, dbVars>>

\* Revoke: "A user must belong to at least one company", by a count.
RevokeCount(w, t, c) ==
    /\ call[w] = Idle
    /\ OneAdmin => \A v \in Worker : ~At(v, "revoke")
    /\ Cardinality(member[t]) > 1
    /\ call' = [call EXCEPT ![w] = [Idle EXCEPT !.pc = "revoke", !.tenant = t, !.company = c]]
    /\ UNCHANGED <<storeVars, held, observed, dbVars>>

\* DELETE, and a user whose default company it was moves to the first left.
RevokeDelete(w) ==
    LET t == call[w].tenant
        left == member[t] \ {call[w].company}
    IN /\ At(w, "revoke")
       /\ member' = [member EXCEPT ![t] = left]
       /\ company' = IF company[t] # call[w].company THEN company
                     ELSE [company EXCEPT ![t] = IF left = {} THEN NoCompany ELSE Min(left)]
       /\ call' = [call EXCEPT ![w] = Idle]
       /\ UNCHANGED <<storeVars, held, observed>>

-----------------------------------------------------------------------------
(* authenticate *)

\* resolveSessionId_ finds a live session or none; resolveTenant_ the database.
Login(w, i, t) ==
    /\ call[w] = Idle
    /\ call' = [call EXCEPT ![w] = [Idle EXCEPT !.pc = "anonymous", !.tenant = t,
                                      !.sid = IF i \in held /\ Live(i) THEN i ELSE NoId]]
    /\ UNCHANGED <<storeVars, held, observed, dbVars>>

\* AuthViewModel works on the caller's session or on a new one; for an id that
\* died since the dispatcher looked, it makes a session nobody will use.
FindSession(w) ==
    /\ At(w, "anonymous")
    /\ IF call[w].sid # NoId /\ Live(call[w].sid)
       THEN Goto(w, "password") /\ UNCHANGED storeVars
       ELSE /\ Create
            /\ call' = [call EXCEPT ![w].pc = "password",
                          ![w].sid = IF @ = NoId THEN minted + 1 ELSE @]
    /\ UNCHANGED <<held, observed, dbVars>>

\* Wrong password, or the database did not answer: the exception ends it.
RefuseLogin(w) ==
    /\ At(w, "password")
    /\ call' = [call EXCEPT ![w] = Idle]
    /\ UNCHANGED <<storeVars, held, observed, dbVars>>

\* Password accepted; the user's company is read in a transaction.
AcceptPassword(w) ==
    /\ At(w, "password")
    /\ call' = [call EXCEPT ![w].pc = "elevate", ![w].company = company[call[w].tenant]]
    /\ UNCHANGED <<storeVars, held, observed, dbVars>>

\* AuthViewModel writes the user into the session the caller arrived with.
Elevate(w) ==
    LET i == call[w].sid IN
    /\ At(w, "elevate")
    /\ Update(i, [session[i] EXCEPT !.user = TRUE, !.tenant = call[w].tenant,
                                    !.company = call[w].company])
    /\ Goto(w, "resolve")
    /\ UNCHANGED <<held, observed, dbVars>>

\* The dispatcher makes a session when that one is gone.
Resolve(w) ==
    /\ At(w, "resolve")
    /\ IF Live(call[w].sid)
       THEN Goto(w, "rotate") /\ UNCHANGED storeVars
       ELSE Create /\ call' = [call EXCEPT ![w].pc = "rotate", ![w].sid = minted + 1]
    /\ UNCHANGED <<held, observed, dbVars>>

\* Mutant: the id is kept when the session gains its user.
RotateNothing(w) ==
    /\ At(w, "rotate")
    /\ Goto(w, "sync")
    /\ UNCHANGED <<storeVars, held, observed, dbVars>>

\* rotate(): the entry moves to a new id; an id that died stays the answer's.
Rotate(w) ==
    LET i == call[w].sid
        n == minted + 1
    IN /\ At(w, "rotate")
       /\ IF Live(i)
          THEN /\ n <= MaxIds
               /\ recency' = Append(Remove(recency, i), n)
               /\ session' = [session EXCEPT ![n] = session[i], ![i] = NoSession]
               /\ minted' = n
               /\ call' = [call EXCEPT ![w].pc = "sync", ![w].sid = n]
          ELSE Goto(w, "sync") /\ UNCHANGED storeVars
       /\ UNCHANGED <<held, observed, dbVars>>

\* The dispatcher copies the result into the session it answers with.
Sync(w) ==
    LET i == call[w].sid IN
    /\ At(w, "sync")
    /\ Update(i, [session[i] EXCEPT !.user = TRUE, !.tenant = call[w].tenant,
                    !.company = IF call[w].company # NoCompany THEN call[w].company ELSE @])
    /\ Goto(w, "companies")
    /\ UNCHANGED <<held, observed, dbVars>>

\* update() with loadAllowedCompanies_ inside: the companies are queried while
\* the store is locked.  Then the answer carries the id.
SyncCompanies(w) ==
    LET i == call[w].sid IN
    /\ At(w, "companies")
    /\ \E s \in IF Live(i) THEN LoadOutcomes(session[i]) ELSE {NoSession} : Update(i, s)
    /\ held' = held \cup {i}
    /\ call' = [call EXCEPT ![w] = Idle]
    /\ UNCHANGED <<observed, dbVars>>

-----------------------------------------------------------------------------
(* company and database switching *)

\* The handler starts from a copy of the session.
WithCopy(w, i, pc, c) ==
    /\ call[w] = Idle
    /\ i \in held
    /\ Live(i)
    /\ session[i].user
    /\ call' = [call EXCEPT ![w] = [Idle EXCEPT !.pc = pc, !.sid = i, !.company = c,
                                                !.copy = session[i]]]
    /\ UNCHANGED <<storeVars, held, observed, dbVars>>

MyCompanies(w, i) == WithCopy(w, i, "list", NoCompany)
SetActiveCompany(w, i, c) == WithCopy(w, i, "choose", c)

ReadCompanies(w) ==
    /\ At(w, "list")
    /\ \E s \in LoadOutcomes(call[w].copy) :
          call' = [call EXCEPT ![w].pc = "apply", ![w].copy = s]
    /\ UNCHANGED <<storeVars, held, observed, dbVars>>

\* Mutant: the company asked for need not be one of the user's.
ChooseAnyCompany(w) ==
    /\ At(w, "choose")
    /\ \E s \in LoadOutcomes(call[w].copy) :
          call' = [call EXCEPT ![w].pc = "remember", ![w].copy = s]
    /\ UNCHANGED <<storeVars, held, observed, dbVars>>

\* mayUseCompanyId, "authoritative, from the database".
ChooseCompany(w) ==
    /\ At(w, "choose")
    /\ \E s \in LoadOutcomes(call[w].copy) :
          call' = [call EXCEPT ![w] =
                     IF call[w].company \in s.allowed
                     THEN [call[w] EXCEPT !.pc = "remember", !.copy = s]
                     ELSE Idle]
    /\ UNCHANGED <<storeVars, held, observed, dbVars>>

\* UPDATE res_users SET company_id; when it fails the session is left alone.
RememberCompany(w) ==
    /\ At(w, "remember")
    /\ \/ /\ company' = [company EXCEPT ![call[w].copy.tenant] = call[w].company]
          /\ call' = [call EXCEPT ![w].pc = "apply", ![w].copy.company = call[w].company]
       \/ /\ call' = [call EXCEPT ![w] = Idle]
          /\ UNCHANGED company
    /\ UNCHANGED <<storeVars, held, observed, member>>

\* Both handlers end with update(): company and companies of their copy.
ApplyCompanies(w) ==
    LET i == call[w].sid IN
    /\ At(w, "apply")
    /\ Update(i, [session[i] EXCEPT !.company = call[w].copy.company,
                                    !.allowed = call[w].copy.allowed])
    /\ call' = [call EXCEPT ![w] = Idle]
    /\ UNCHANGED <<held, observed, dbVars>>

\* switch_company: the person's user in the other database is loaded there.
SwitchTenant(w, i, t) ==
    /\ TenantSwitch
    /\ call[w] = Idle
    /\ i \in held
    /\ Live(i)
    /\ session[i].user
    /\ \E s \in Queried([NoSession EXCEPT !.user = TRUE, !.tenant = t, !.company = company[t]]) :
          call' = [call EXCEPT ![w] = [Idle EXCEPT !.pc = "open", !.tenant = t, !.copy = s]]
    /\ UNCHANGED <<storeVars, held, observed, dbVars>>

OpenSession(w) ==
    /\ At(w, "open")
    /\ Create
    /\ call' = [call EXCEPT ![w].pc = "fill", ![w].sid = minted + 1]
    /\ UNCHANGED <<held, observed, dbVars>>

\* Every field of the loaded user but its companies.
FillSession(w) ==
    LET i == call[w].sid IN
    /\ At(w, "fill")
    /\ Update(i, [session[i] EXCEPT !.user = TRUE, !.tenant = call[w].tenant,
                                    !.company = call[w].copy.company])
    /\ held' = held \cup {i}
    /\ call' = [call EXCEPT ![w] = Idle]
    /\ UNCHANGED <<observed, dbVars>>

-----------------------------------------------------------------------------
Next ==
    \/ Expire \/ EvictExpired \/ Visit
    \/ \E i \in 1..MaxIds : Get(i) \/ Logout(i)
    \/ \E t \in Tenant : \E c \in employs[t] : Grant(t, c)
    \/ \E w \in Worker :
          \/ \E t \in Tenant :
                \/ \E c \in employs[t] : RevokeCount(w, t, c)
                \/ \E i \in (1..MaxIds) \cup {NoId} : Login(w, i, t)
                \/ \E i \in 1..MaxIds : SwitchTenant(w, i, t)
          \/ \E i \in 1..MaxIds :
                \/ MyCompanies(w, i)
                \/ \E c \in Company : SetActiveCompany(w, i, c)
          \/ RevokeDelete(w)
          \/ FindSession(w) \/ RefuseLogin(w) \/ AcceptPassword(w) \/ Elevate(w)
          \/ Resolve(w) \/ Rotate(w) \/ Sync(w) \/ SyncCompanies(w)
          \/ ReadCompanies(w) \/ ChooseCompany(w) \/ RememberCompany(w) \/ ApplyCompanies(w)
          \/ OpenSession(w) \/ FillSession(w)

Spec == Init /\ [][Next]_vars

-----------------------------------------------------------------------------
SessionRecord ==
    [user : BOOLEAN, tenant : Tenant \cup {""}, company : Company \cup {NoCompany},
     allowed : SUBSET Company, expired : BOOLEAN]

\* The store is a map from ids to sessions, each id in the access order once.
TypeOK ==
    /\ session \in [1..MaxIds -> SessionRecord]
    /\ recency \in Seq(1..minted)
    /\ Len(recency) = Cardinality(Stored)
    /\ minted \in 0..MaxIds
    /\ held \subseteq 1..minted
    /\ observed \subseteq held
    /\ member \in [Tenant -> SUBSET Company]
    /\ company \in [Tenant -> Company \cup {NoCompany}]

\* "create() always makes progress and the store stays bounded"
\* (SessionManager.hpp): whatever requests interleave, rotation included, the
\* store never holds more than maxSessions_ entries.
StoreBounded == Len(recency) <= MaxSessions

\* A login has written its user into session i and not yet re-keyed it.
Rekeying(i) == \E w \in Worker : call[w].sid = i /\ call[w].pc \in {"resolve", "rotate"}

\* "Re-keying makes any previously-observed id worthless"
\* (JsonRpcDispatcher.hpp, S-42): an id a browser held while it was anonymous
\* carries a user only inside a login that is about to re-key it, also when two
\* logins arrive with the same id or the entry dies half way.
ObservedIdsStayAnonymous ==
    \A i \in observed : Live(i) /\ session[i].user => Rekeying(i)

\* "Anonymous entries are sacrificed before authenticated ones so a flood of
\* unauthenticated requests cannot evict logged-in users" (SessionManager.hpp):
\* a logged-in session that leaves the store unexpired was re-keyed by a login,
\* or there was no anonymous one left to take its place.
FloodSparesUsers ==
    [][\A i \in Stored \ ToSet(recency') :
          session[i].user
          => \/ Rekeying(i)
             \/ \A j \in Stored : session[j].expired \/ session[j].user]_vars

\* "A user must belong to at least one company." (JsonRpcDispatcher.hpp,
\* handleCompanyAccess_)
AlwaysAMember == \A t \in Tenant : member[t] # {}

\* The dispatcher has still to copy the result of a login into session i.
LoggingIn(i) == Rekeying(i) \/ \E w \in Worker : call[w].sid = i /\ At(w, "sync")

\* A logged-in session acts only for a company that has employed its user in
\* the database the session is bound to, whatever logins, switches and
\* revocations happened on the same id in between.
ActsForAnEmployer ==
    \A i \in Stored :
        session[i].user /\ ~LoggingIn(i) /\ session[i].company # NoCompany
        => session[i].company \in employs[session[i].tenant]

\* "companyId above is whichever one is active right now; it is always a
\* member of this list." (SessionManager.hpp, allowedCompanyIds): for every
\* session a browser was given and no login is working on.
ActiveCompanyAllowed ==
    \A i \in held :
        (/\ Live(i) /\ session[i].user /\ session[i].company # NoCompany
         /\ \A w \in Worker : call[w].sid # i)
        => session[i].company \in session[i].allowed
=============================================================================
