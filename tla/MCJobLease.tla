------------------------------ MODULE MCJobLease ------------------------------
(* JobLease with one job of each loop, or two jobs of the graph loop. *)
EXTENDS JobLease

MCJob == {1, 2, 3}
MCKind == [j \in MCJob |-> CASE j = 1 -> "collector" [] j = 2 -> "keyword" [] j = 3 -> "graph"]

LiveJob == {1, 2}
LiveKind == [j \in LiveJob |-> IF j = 1 THEN "keyword" ELSE "graph"]
===============================================================================
