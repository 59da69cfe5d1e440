---------------------------- MODULE MCIrSequence ----------------------------
(* Two requests number six documents out of a yearly sequence that belongs  *)
(* to a company and two company-agnostic ones that never reset.             *)
EXTENDS IrSequence, TLC

CONSTANTS yearly, never, loose, d1, d2, d3, d4, d5, d6, w1, w2

MCRow == {yearly, never, loose}
MCDocument == {d1, d2, d3, d4, d5, d6}
MCWorker == {w1, w2}

\* d1 and d2 have their company's sequence, d3 and d4 fall back to a shared
\* one, d5 is numbered through nextByCode(code), d6 asks for a code nobody
\* configured.
MCOwnRow == [d \in MCDocument |-> IF d \in {d1, d2} THEN yearly ELSE NoRow]
MCSharedRow == [d \in MCDocument |->
                  CASE d \in {d1, d2, d3, d4} -> never
                    [] d = d5 -> loose
                    [] d = d6 -> NoRow]
MCPolicy == [r \in MCRow |-> IF r = yearly THEN "yearly" ELSE "never"]

\* Migration 980's seed for an installation that already has documents.
SeededNext == [r \in MCRow |-> 3]
=============================================================================
