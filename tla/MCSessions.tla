----------------------------- MODULE MCSessions -----------------------------
(* Two requests of a person who works for two companies of one database and *)
(* one of another.                                                          *)
EXTENDS Sessions, TLC

CONSTANTS w1, w2

MCEmploys == ("home" :> {1, 2}) @@ ("abroad" :> {3})

WorkerSymmetry == Permutations({w1, w2})

InitialCompanies ==
    /\ member = employs
    /\ company = [t \in Tenant |-> Min(employs[t])]
    /\ \A i \in 1..MaxIds : session[i].company # 2 /\ session[i].allowed # {2}
    /\ \A w \in Worker : /\ call[w].pc \notin {"revoke", "choose", "remember"}
                         /\ call[w].copy.company # 2 /\ call[w].copy.allowed # {2}
                         /\ call[w].company # 2

OneDatabase ==
    /\ \A i \in 1..MaxIds : session[i].tenant # "abroad"
    /\ \A w \in Worker : call[w].tenant # "abroad" /\ call[w].pc \notin {"list", "apply", "open"}

NoneExpired == \A i \in Stored : ~session[i].expired

\* Bound: memberships and default companies change with two live ids at most, databases are
\* switched with three, and the store fills and evicts with MaxIds of them; nothing expires
\* any more once the last id is minted.
Focus ==
    \/ minted <= 2 /\ (InitialCompanies \/ NoneExpired)
    \/ minted = 3 /\ InitialCompanies /\ NoneExpired
    \/ InitialCompanies /\ OneDatabase /\ (minted = MaxIds => NoneExpired)
=============================================================================
