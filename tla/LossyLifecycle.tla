--------------------------- MODULE LossyLifecycle ---------------------------
(***************************************************************************)
(* What is left of the promises of OrderLifecycle when the broker may      *)
(* answer after its caller has given up, a submit may repeat its request   *)
(* before any answer came, and the bridge may lose sight of an order: what *)
(* was sent is recorded before anything else is sent, a signal whose row   *)
(* has left "planned" is never sent again, and no state is recorded that   *)
(* none of the signal's orders, or of those it cannot tell from them, bears*)
(* out.                                                                    *)
(***************************************************************************)
EXTENDS Integers, FiniteSets, ExecutionContracts

CONSTANTS
    SignalSet,
    OrderSet,
    Requests,   \* what one submit may send
    Alike       \* pairs <<i, j>>: an order of j may be taken for one of i

VARIABLES
    status,   \* what the ledger says of each signal
    sent,     \* the orders requested for it
    answer    \* what the broker did with each order

vars == <<status, sent, answer>>

TypeOK ==
    /\ status \in [SignalSet -> IntentStates \cup {"none"}]
    /\ sent \in [SignalSet -> SUBSET OrderSet]
    /\ answer \in [OrderSet -> {"free", "inflight", "refused", "open", "closed", "cancelled"}]

Init ==
    /\ status = [i \in SignalSet |-> "none"]
    /\ sent = [i \in SignalSet |-> {}]
    /\ answer = [o \in OrderSet |-> "free"]

Plan(i) ==
    /\ status[i] = "none" /\ sent[i] = {}
    /\ status' = [status EXCEPT ![i] = "planned"]
    /\ UNCHANGED <<sent, answer>>

\* One signal is being submitted at a time: nothing sent for another is unrecorded.
Ask(i, o) ==
    /\ status[i] = "planned" /\ Cardinality(sent[i]) < Requests
    /\ \A j \in SignalSet \ {i} : sent[j] # {} => status[j] \notin {"none", "planned"}
    /\ answer[o] = "free"
    /\ sent' = [sent EXCEPT ![i] = @ \cup {o}]
    /\ answer' = [answer EXCEPT ![o] = "inflight"]
    /\ UNCHANGED status

Answer(o, a) ==
    /\ \/ answer[o] = "inflight" /\ a \in {"open", "refused"}
       \/ answer[o] = "open" /\ a \in {"closed", "cancelled"}
    /\ answer' = [answer EXCEPT ![o] = a]
    /\ UNCHANGED <<status, sent>>

\* The orders that may be taken for the signal's, those in one of the given states.
Taken(i, states) ==
    {o \in OrderSet : /\ answer[o] \in states
                      /\ o \in sent[i] \/ \E j \in SignalSet : <<i, j>> \in Alike /\ o \in sent[j]}

Live == {"open", "closed", "cancelled"}

\* Once an order was requested the row may be given up for lost, but never called
\* unsubmitted; a refusal is recorded by the submit that got it.
Justified(i, s) ==
    \/ s = "submitted_unknown" /\ status[i] = "planned" /\ sent[i] # {}
    \/ s = "accepted_open" /\ Taken(i, Live) # {}
    \/ s = "settled" /\ Taken(i, {"closed"}) # {}
    \/ s = "rejected" /\ Taken(i, {"cancelled"}) # {}
    \/ s = "rejected" /\ status[i] = "planned" /\ \E o \in sent[i] : answer[o] = "refused"
    \/ s = "ambiguous" /\ \E o1, o2 \in Taken(i, Live) : o1 # o2
    \/ s = "expired_unsubmitted" /\ status[i] = "planned" /\ sent[i] = {}
    \/ s = "expired_unconfirmed" /\ sent[i] \cup Taken(i, Live) # {}

Record(i, s) ==
    /\ status[i] \in PendingStates
    /\ status' = [status EXCEPT ![i] = s]
    /\ UNCHANGED <<sent, answer>>
    /\ Justified(i, s)

Next ==
    \/ \E i \in SignalSet :
          \/ Plan(i)
          \/ \E o \in OrderSet : Ask(i, o)
          \/ \E s \in IntentStates : Record(i, s)
    \/ \E o \in OrderSet : \E a \in Live \cup {"refused"} : Answer(o, a)

Spec == Init /\ [][Next]_vars
=============================================================================
