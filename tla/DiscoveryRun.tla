----------------------------- MODULE DiscoveryRun -----------------------------
(***************************************************************************)
(* What a discovery run promises to the operator and to the runs after it, *)
(* whichever worker executes it: only the worker that holds it publishes   *)
(* results, one by one, and never takes one back or changes it; it ends;   *)
(* and after its end nothing is published.  A cancel request leaves a run  *)
(* that a worker holds to the worker.  But nothing holds the row between   *)
(* the request's read and its write: a request may write over an end that  *)
(* came in between, and end a run that a worker has taken in between.      *)
(* GraphRun and KeywordRun are shown to implement it.                      *)
(***************************************************************************)
CONSTANTS Item,      \* what the run may publish a result about
          NoResult

VARIABLES state,     \* "open", how the run has ended, or "cancelling" after its end
          result,    \* the published result of each item, or NoResult
          held,      \* a worker is executing the run, or was when it died
          asked      \* what a cancel request that has read the run is going to do:
                     \* "none", to "mark" the run as cancelling, or to "end" it

vars == <<state, result, held, asked>>

Terminal == {"succeeded", "partial", "failed", "cancelled"}

Init ==
    /\ state = "open"
    /\ result = [i \in Item |-> NoResult]
    /\ ~held /\ asked = "none"

(* A worker takes the run, unless it has ended ... *)
Take ==
    /\ state = "open" /\ ~held
    /\ held' = TRUE
    /\ UNCHANGED <<state, result, asked>>

(* ... and lets it go before its end, parked or found dead. *)
Release ==
    /\ held
    /\ held' = FALSE
    /\ UNCHANGED <<state, result, asked>>

(* More results, and none of the old ones changed. *)
Extended ==
    /\ DOMAIN result' = Item
    /\ \A i \in Item : result[i] # NoResult => result'[i] = result[i]

Publish ==
    /\ held
    /\ Extended
    /\ UNCHANGED <<state, held, asked>>

(* The end of the run, and what is published with it; it may be found unfit at once. *)
End ==
    /\ held \/ state = "open"
    /\ state' \in Terminal
    /\ Extended
    /\ held' = FALSE
    /\ UNCHANGED asked

(* A cancel request reads the run, and leaves one that has ended alone. *)
Ask ==
    /\ state \notin Terminal /\ asked = "none"
    /\ asked' = "mark" \/ (~held /\ asked' = "end")
    /\ UNCHANGED <<state, result, held>>

(* It writes: a run that has ended meanwhile is then cancelling, ... *)
Mark ==
    /\ asked = "mark"
    /\ state' = state \/ (state # "open" /\ state' = "cancelling")
    /\ asked' = "none"
    /\ UNCHANGED <<result, held>>

(* ... or cancelled, and so is one that a worker has taken meanwhile. *)
EndByRequest ==
    /\ asked = "end"
    /\ state' = "cancelled"
    /\ asked' = "none"
    /\ UNCHANGED <<result, held>>

(* The process is killed, and the request with it. *)
Die ==
    /\ asked' = "none"
    /\ held' \in {held, FALSE}
    /\ UNCHANGED <<state, result>>

Next ==
    \/ Take \/ Release \/ Publish \/ End
    \/ Ask \/ Mark \/ EndByRequest \/ Die

Spec == Init /\ [][Next]_vars

(* ... and the run ends: until it has, no other run can start (SRC-053). *)
LiveSpec == Spec /\ <>(state # "open")
===============================================================================
