------------------------------ MODULE MCPipeline ------------------------------
(* Instances of Pipeline: Lead is a text that can score hot or warm or, with
   another rule set or freshness, nothing; no rule matches any other text. *)
EXTENDS Pipeline

CONSTANT Lead

Scored  == [t \in Text |-> IF t = Lead THEN {"hot", "warm", "irrelevant"} ELSE {"irrelevant"}]

AnyHot  == [t \in Text |-> IF t = Lead THEN {"hot"} ELSE {"irrelevant"}]

TwoMessages   == {1, 2}
ThreeMessages == {1, 2, 3}
OwnSources    == [m \in Msg |-> m]
OneSource     == [m \in Msg |-> 1]

(* All on one day, or 20 days apart, so that the first and the third message are
   not within the window of 30 days. *)
SameDay == [m \in Msg |-> 0]
Chained == [m \in Msg |-> 20 * m]
===============================================================================
