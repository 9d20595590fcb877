---------------------------- MODULE MCHistoryScan ----------------------------
(* HistoryScan with two targets, one of them longer than a page. *)
EXTENDS HistoryScan

TwoTargets == <<2, 1>>
OneTarget  == <<2>>
===============================================================================
