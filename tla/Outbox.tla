-------------------------------- MODULE Outbox --------------------------------
(***************************************************************************)
(* The notification outbox (storage/outbox.py, notifications/worker.py).   *)
(*                                                                         *)
(* The loop claims a row, sends it over HTTP and writes the result in ONE  *)
(* transaction: nobody sees the row "delivering", and if the transaction   *)
(* does not commit, the database knows nothing of a request the operator   *)
(* may have received.  Mode "live" stands for live delivery with both      *)
(* secrets set.                                                            *)
(***************************************************************************)
EXTENDS Integers, Sequences, FiniteSets

CONSTANTS Alert,        \* outbox rows by id; each is one idempotency key
          MaxAttempts,  \* MAX_ATTEMPTS
          MaxRollbacks, \* bound: transactions that do not commit
          MaxSwitches,  \* bound: changes of notifications.delivery_mode
          NoAlert

ASSUME OutboxAssumption ==
    /\ Alert \subseteq Nat /\ NoAlert \notin Alert
    /\ MaxAttempts \in Nat \ {0}
    /\ {MaxRollbacks, MaxSwitches} \subseteq Nat

VARIABLES mode,       \* the committed setting notifications.delivery_mode
          state,      \* NotificationOutbox.state, "absent" without a row
          attempts,   \* automatic_attempt_count
          due,        \* available_at is not in the future
          deliveries, \* the statuses of the row's NotificationDelivery rows
          received,   \* how often the operator got the alert
          pc,         \* where the loop's transaction stands
          item,       \* the row it has claimed
          answer,     \* what became of its HTTP request
          rollbacks, switches

outboxVars == <<mode, state, attempts, due, deliveries, received, pc, item, answer,
                rollbacks, switches>>
table == <<state, attempts, due, deliveries>>
bounds == <<rollbacks, switches>>

RowState == {"absent", "queued", "retry_wait", "sent", "dead"}
Settled  == {"sent", "dead"}
Status   == {"sent", "dead", "error_response", "skipped_shadow"}
Answer   == {"ok", "error", "uncertain"}

-------------------------------------------------------------------------------
(* enqueue_outbox: nothing is inserted unless delivery is live, or when the key
   has a row. *)
Enqueue(a) ==
    /\ mode = "live" /\ state[a] = "absent"
    /\ state' = [state EXCEPT ![a] = "queued"]
    /\ UNCHANGED <<mode, attempts, due, deliveries, received, pc, item, answer, bounds>>

(* The operator changes notifications.delivery_mode. *)
SwitchMode ==
    /\ switches < MaxSwitches
    /\ switches' = switches + 1
    /\ mode' = IF mode = "live" THEN "shadow" ELSE "live"
    /\ UNCHANGED <<table, received, pc, item, answer, rollbacks>>

(* available_at of a row that waits for its retry comes. *)
RetryDue(a) ==
    /\ state[a] = "retry_wait" /\ ~due[a]
    /\ due' = [due EXCEPT ![a] = TRUE]
    /\ UNCHANGED <<mode, state, attempts, deliveries, received, pc, item, answer, bounds>>

-------------------------------------------------------------------------------
(* process_one and the loop check the mode before they claim. *)
CheckMode ==
    /\ pc = "idle" /\ mode = "live"
    /\ pc' = "checked"
    /\ UNCHANGED <<mode, table, received, item, answer, bounds>>

\* Seeded fault: a row that waits for its retry is never claimed again.
ClaimableOnce == {a \in Alert : state[a] = "queued"}

\* The rows claim_outbox may take.
Claimable == {a \in Alert : state[a] \in {"queued", "retry_wait"} /\ due[a]}

ClaimNothing ==
    /\ pc = "checked" /\ Claimable = {}
    /\ pc' = "idle"
    /\ UNCHANGED <<mode, table, received, item, answer, bounds>>

(* claim_outbox takes the lowest id; deliver_outbox_item reads the mode again. *)
Claim ==
    /\ pc = "checked"
    /\ \E a \in Claimable :
         /\ \A b \in Claimable : a <= b
         /\ item' = a
    /\ pc' = IF mode = "live" THEN "send" ELSE "skip"
    /\ UNCHANGED <<mode, table, received, answer, bounds>>

(* client.post: the Bot API accepts or refuses, or no usable answer comes back,
   whether the alert got through or not. *)
Post(reply, arrives) ==
    /\ pc = "send"
    /\ reply = "ok" => arrives
    /\ reply = "error" => ~arrives
    /\ pc' = "result"
    /\ answer' = reply
    /\ received' = [received EXCEPT ![item] = @ + (IF arrives THEN 1 ELSE 0)]
    /\ UNCHANGED <<mode, table, item, bounds>>

\* Seeded fault: an uncertain delivery is tried again.
OutcomeRetriesUncertain(reply, no) ==
    CASE reply = "ok" -> "sent"
      [] reply # "ok" /\ no >= MaxAttempts -> "dead"
      [] OTHER -> "retry_wait"

\* What a reply to attempt number no makes of the row.
Outcome(reply, no) ==
    CASE reply = "ok" -> "sent"
      [] reply # "ok" /\ (reply = "uncertain" \/ no >= MaxAttempts) -> "dead"
      [] OTHER -> "retry_wait"

DeliveryStatus(reply) ==
    CASE reply = "ok" -> "sent" [] reply = "uncertain" -> "dead" [] OTHER -> "error_response"

\* Seeded fault: the row's attempt is not counted.
CountedNot(n) == n

\* The attempt number of this delivery.
Counted(n) == n + 1

\* The loop's transaction is over.
EndTransaction ==
    /\ pc' = "idle"
    /\ item' = NoAlert
    /\ answer' = "none"

(* deliver_outbox_item writes the result and session_scope commits. *)
CommitResult ==
    /\ pc = "result"
    /\ LET no == Counted(attempts[item])
       IN  /\ attempts' = [attempts EXCEPT ![item] = no]
           /\ state' = [state EXCEPT ![item] = Outcome(answer, no)]
           /\ due' = [due EXCEPT ![item] = Outcome(answer, no) # "retry_wait"]
    /\ deliveries' = [deliveries EXCEPT ![item] = Append(@, DeliveryStatus(answer))]
    /\ EndTransaction
    /\ UNCHANGED <<mode, received, bounds>>

(* The mode is no longer live: the row is closed without a request. *)
CommitSkipped ==
    /\ pc = "skip"
    /\ state' = [state EXCEPT ![item] = "dead"]
    /\ deliveries' = [deliveries EXCEPT ![item] = Append(@, "skipped_shadow")]
    /\ EndTransaction
    /\ UNCHANGED <<mode, attempts, due, received, bounds>>

(* The process dies, the loop is cancelled or the commit fails. *)
Rollback ==
    /\ rollbacks < MaxRollbacks
    /\ pc # "idle"
    /\ rollbacks' = rollbacks + 1
    /\ EndTransaction
    /\ UNCHANGED <<mode, table, received, switches>>

-------------------------------------------------------------------------------
OutboxInit ==
    /\ mode \in {"live", "shadow"}
    /\ state = [a \in Alert |-> "absent"]
    /\ attempts = [a \in Alert |-> 0]
    /\ due = [a \in Alert |-> TRUE]
    /\ deliveries = [a \in Alert |-> <<>>]
    /\ received = [a \in Alert |-> 0]
    /\ pc = "idle" /\ item = NoAlert /\ answer = "none"
    /\ rollbacks = 0 /\ switches = 0

(* In shadow mode the loop sleeps and looks at the mode again. *)
Idle == pc = "idle" /\ mode = "shadow" /\ UNCHANGED outboxVars

OutboxNext ==
    \/ \E a \in Alert : Enqueue(a) \/ RetryDue(a)
    \/ SwitchMode
    \/ CheckMode \/ ClaimNothing \/ Claim
    \/ \E reply \in Answer, arrives \in BOOLEAN : Post(reply, arrives)
    \/ CommitResult \/ CommitSkipped
    \/ Rollback
    \/ Idle

OutboxSpec == OutboxInit /\ [][OutboxNext]_outboxVars

(* The loop keeps polling and retry delays pass. *)
OutboxFairSpec ==
    /\ OutboxSpec
    /\ WF_outboxVars(CheckMode \/ Claim \/ ClaimNothing)
    /\ WF_outboxVars(\E reply \in Answer, arrives \in BOOLEAN : Post(reply, arrives))
    /\ WF_outboxVars(CommitResult \/ CommitSkipped)
    /\ \A a \in Alert : WF_outboxVars(RetryDue(a))

-------------------------------------------------------------------------------
(* Properties *)

\* Every variable has its type.
OutboxTypeOK ==
    /\ mode \in {"live", "shadow"}
    /\ state \in [Alert -> RowState]
    /\ attempts \in [Alert -> 0 .. MaxAttempts]
    /\ due \in [Alert -> BOOLEAN]
    /\ deliveries \in [Alert -> Seq(Status)]
    /\ received \in [Alert -> Nat]
    /\ pc \in {"idle", "checked", "send", "skip", "result"}
    /\ item \in Alert \cup {NoAlert}
    /\ answer \in Answer \cup {"none"}
    /\ rollbacks \in 0 .. MaxRollbacks /\ switches \in 0 .. MaxSwitches

\* The operator is notified at most once more than transactions are lost: the
\* retries of a refused request and the end of an uncertain one never repeat an
\* alert that arrived (NOT, section 9: an uncertain delivery is not repeated).
DuplicatesNeedRollback ==
    \A a \in Alert :
        received[a] <= 1 + rollbacks

\* The delivery log agrees with the row: a row is "sent" exactly when its last
\* delivery was, the operator then has it, and an attempt that the row counts
\* has one record, so the five attempts are bounded.
LogMatchesRow ==
    \A a \in Alert :
        LET log == deliveries[a]
        IN  /\ state[a] = "sent" <=> log # <<>> /\ log[Len(log)] = "sent"
            /\ state[a] = "sent" => received[a] > 0
            /\ attempts[a] = Cardinality({i \in DOMAIN log : log[i] # "skipped_shadow"})
            /\ attempts[a] <= MaxAttempts

\* While delivery stays live an alert in the outbox is settled in the end: the
\* retries run out and no earlier row holds it up for ever.
AlertSettles ==
    \A a \in Alert :
        <>[](mode = "live") => (state[a] = "queued" ~> state[a] \in Settled)

\* NOT, section 9, as the PRD states it: no automatic duplicate of an alert.
NoDuplicate == \A a \in Alert : received[a] <= 1
===============================================================================
