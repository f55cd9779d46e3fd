--------------------------- MODULE OrderLifecycle ---------------------------
(***************************************************************************)
(* What the execution layer promises of each signal, without processes,    *)
(* passes, snapshots or clocks: the broker is asked once, a request it     *)
(* refused may be repeated, and the state recorded for the signal only     *)
(* moves forward and only to what the broker's answer allows.              *)
(***************************************************************************)
EXTENDS Integers, ExecutionContracts

CONSTANT SignalSet

VARIABLES
    status,   \* what the ledger says of each signal
    broker    \* what the broker did with its request

vars == <<status, broker>>

Answers == {"unasked", "asked", "refused", "open", "closed", "cancelled"}

TypeOK ==
    /\ status \in [SignalSet -> IntentStates \cup {"none"}]
    /\ broker \in [SignalSet -> Answers]

Init ==
    /\ status = [i \in SignalSet |-> "none"]
    /\ broker = [i \in SignalSet |-> "unasked"]

Plan(i) ==
    /\ status[i] = "none" /\ broker[i] = "unasked"
    /\ status' = [status EXCEPT ![i] = "planned"]
    /\ UNCHANGED broker

Ask(i) ==
    /\ status[i] = "planned" /\ broker[i] \in {"unasked", "refused"}
    /\ broker' = [broker EXCEPT ![i] = "asked"]
    /\ UNCHANGED status

Answer(i, a) ==
    /\ \/ broker[i] = "asked" /\ a \in {"open", "refused"}
       \/ broker[i] = "open" /\ a \in {"closed", "cancelled"}
    /\ broker' = [broker EXCEPT ![i] = a]
    /\ UNCHANGED status

\* The states a pending intent may move to, given the broker's answer so far.
Allowed(from, answer) ==
    CASE answer = "unasked"   -> IF from = "planned" THEN {"expired_unsubmitted"} ELSE {}
      [] answer = "asked"     -> {}
      [] answer = "refused"   -> IF from = "planned"
                                 THEN {"submitted_unknown", "rejected", "expired_unsubmitted"}
                                 ELSE {"expired_unconfirmed"}
      [] answer = "open"      -> {"submitted_unknown", "accepted_open"}
      [] answer = "closed"    -> {"submitted_unknown", "accepted_open", "settled"}
      [] answer = "cancelled" -> {"submitted_unknown", "accepted_open", "rejected"}

\* Nothing goes back from accepted_open to submitted_unknown.
Record(i, s) ==
    /\ status[i] \in PendingStates
    /\ s \in Allowed(status[i], broker[i])
    /\ s = "submitted_unknown" => status[i] = "planned"
    /\ status' = [status EXCEPT ![i] = s]
    /\ UNCHANGED broker

Next ==
    \E i \in SignalSet :
        \/ Plan(i)
        \/ Ask(i)
        \/ \E a \in Answers : Answer(i, a)
        \/ \E s \in IntentStates : Record(i, s)

Spec == Init /\ [][Next]_vars
=============================================================================
