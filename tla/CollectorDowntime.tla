-------------------------- MODULE CollectorDowntime --------------------------
(***************************************************************************)
(* Collector with a history variable: what was posted to a monitored       *)
(* source while the process was down, and reached it by no live update.    *)
(* No action of the collector reads it.                                    *)
(***************************************************************************)
EXTENDS Collector

VARIABLE missed

PostedWhileDown == posted' # posted /\ lifecycle = "monitoring" /\ ~up

DowntimeSpec ==
    /\ Init /\ missed = {}
    /\ [][/\ Next
          /\ missed' = IF PostedWhileDown THEN missed \cup {posted'} ELSE missed]_<<vars, missed>>

\* The initial backfill has read its first page and the chain has ended.
BackfillDone ==
    /\ top # 0
    /\ \A j \in DOMAIN jobs : jobs[j].type \in Chain => jobs[j].state \in Finished

\* NFR-REL-008 as the PRD states it: after a restart, reconciliation goes on from
\* the checkpoint without a gap.  The reconciliation of this startup, its page not
\* cut short, leaves no message out that was posted while the process was down,
\* up to the newest message it knows of.
RestartLeavesNoGap ==
    [][\A j \in DOMAIN jobs :
         /\ ReconciledBy(j) /\ ~run.full /\ BackfillDone
         /\ jobs[j].type = "startup_reconciliation" /\ jobs[j].key = faults
         => \A m \in chat \cap missed :
              m <= Max(run.got \cup {run.after}) => HasEnvelope(m)]_vars
===============================================================================
