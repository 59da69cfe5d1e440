------------------------------ MODULE MCServer ------------------------------
(* Two databases with a connection each, and what is asked of the server:   *)
(* two rows of one database, one of them without a handler; a row in each;  *)
(* a question, with and without a crowd at the pool; a question in the other *)
(* database; a change of day.                                               *)
EXTENDS Server, TLC

MCTenants == <<"main", "branch">>
MCLoop == <<"loop", 1>>
MCRunner == <<"request", 0>>
Ask1 == <<"request", 1>>
Ask2 == <<"request", 2>>
MCAsking == {Ask1, Ask2}
MCAsksIn == [t \in MCAsking |-> IF t = Ask1 THEN "main" ELSE "branch"]
AsksInBranch == [t \in MCAsking |-> "branch"]

MCThread == {MCLoop, MCRunner, Ask1, Ask2} \cup ({"main", "branch"} \X (1..2))

Quiet == [rows |-> {}, asking |-> {}, days |-> 0, crowded |-> FALSE]

MCLoads == {[Quiet EXCEPT !.rows = {<<"main", "billing">>, <<"main", "gone">>}],
            [Quiet EXCEPT !.rows = {<<"main", "billing">>, <<"branch", "billing">>}],
            [Quiet EXCEPT !.asking = {Ask1}],
            [Quiet EXCEPT !.asking = {Ask1}, !.crowded = TRUE],
            [Quiet EXCEPT !.asking = {Ask2}],
            [Quiet EXCEPT !.days = 1]}

OneLoad == {[Quiet EXCEPT !.asking = {Ask1}, !.days = 1]}
=============================================================================
