----------------------------- MODULE MCLoadedBank -----------------------------
(* Constants for the runs of LoadedBank. *)
EXTENDS LoadedBank

\* t1 pays someone without an account (as the transfers of experiments/*.yaml
\* do: the accounts service draws the ids of its rows itself), and its amount is
\* the least i64, which its negation in the debit leaves as it is; t2 fits into
\* the range of a1's balance only once t1 was debited from it
MCFrom   == [t \in Transfer |-> IF t = "t1" THEN "a1" ELSE "a2"]
MCTo     == [t \in Transfer |-> IF t = "t1" THEN "a9" ELSE "a1"]
MCAmount == [t \in Transfer |-> IF t = "t1" THEN -MaxBalance-1 ELSE 3]
MCOpening == [a \in Account |-> IF a = "a1" THEN 1 ELSE 0]

=============================================================================
