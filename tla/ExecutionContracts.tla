------------------------- MODULE ExecutionContracts -------------------------
(***************************************************************************)
(* The vocabulary shared by the execution layer: the states of an order    *)
(* intent, the statuses a broker snapshot can carry, and the translation   *)
(* from the second to the first (runtime/execution_contracts.py and        *)
(* runtime/execution_policy.py).  The three closed_* statuses differ only  *)
(* in profit and loss, so they are one status here.                        *)
(***************************************************************************)

PendingStates == {"planned", "submitted_unknown", "accepted_open"}

TerminalStates ==
    {"rejected", "expired_unsubmitted", "expired_unconfirmed", "settled", "ambiguous"}

ConsumesQuotaStates == {"submitted_unknown", "accepted_open", "settled"}

IntentStates == PendingStates \cup TerminalStates

\* What a snapshot says of an order; "absent" is the adapter's None.
BrokerViews == {"absent", "open", "closed", "cancelled", "not_found", "unknown"}

\* Faulty variants of the two translations below, for the mutation runs: a
\* status kept as it came, a cancelled order counted as closed, a timeout
\* that leaves the intent to be submitted again, a timeout taken for success.
StateFromBrokerUnmapped(status, current) ==
    CASE status = "open"   -> "accepted_open"
      [] status = "closed" -> "settled"
      [] OTHER             -> status

StateFromBrokerCancelledSettles(status, current) ==
    CASE status = "open"                      -> "accepted_open"
      [] status \in {"closed", "cancelled"}   -> "settled"
      [] status = "not_found"                 -> "expired_unconfirmed"
      [] OTHER                                -> current

StateFromTransportRetries(answer) ==
    CASE answer = "ack"    -> "accepted_open"
      [] answer = "reject" -> "rejected"
      [] OTHER             -> "planned"

StateFromTransportOptimistic(answer) ==
    IF answer = "reject" THEN "rejected" ELSE "accepted_open"

\* The state an intent takes when a snapshot with this status is applied to
\* it; an unknown status leaves the state the row already had.
StateFromBroker(status, current) ==
    CASE status = "open"      -> "accepted_open"
      [] status = "closed"    -> "settled"
      [] status = "cancelled" -> "rejected"
      [] status = "not_found" -> "expired_unconfirmed"
      [] OTHER                -> current

\* What submit_intent stores for each answer of the transport: a timeout and
\* an exception are both "unknown", the order may or may not exist.
StateFromTransport(answer) ==
    CASE answer = "ack"    -> "accepted_open"
      [] answer = "reject" -> "rejected"
      [] OTHER             -> "submitted_unknown"
=============================================================================
