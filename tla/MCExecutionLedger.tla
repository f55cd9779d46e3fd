-------------------------- MODULE MCExecutionLedger --------------------------
(***************************************************************************)
(* Instances of ExecutionLedger for TLC, and the refinements of            *)
(* OrderLifecycle and LossyLifecycle.                                      *)
(***************************************************************************)
EXTENDS ExecutionLedger

NoPairs == {}
TwinPair == {<<2, 1>>}

\* One candle answers for its signal: a position if there is one, else a
\* request under way, else a refusal.
BrokerAnswer(i) ==
    LET mine == OrdersOf(i)
    IN  IF Positions(i) # {}
        THEN IF Cardinality(Positions(i)) = 1
             THEN orders[CHOOSE o \in Positions(i) : TRUE].st ELSE "duplicate"
        ELSE IF \E o \in mine : orders[o].st = "inflight" THEN "asked"
        ELSE IF mine # {} THEN "refused"
        ELSE "unasked"

Lifecycle == INSTANCE OrderLifecycle WITH
    SignalSet <- Signals,
    status    <- [i \in Signals |-> intents[i].st],
    broker    <- [i \in Signals |-> BrokerAnswer(i)]

\* The serial execution layer keeps the promises of OrderLifecycle.
ImplementsLifecycle == Lifecycle!Spec

Lossy == INSTANCE LossyLifecycle WITH
    SignalSet <- Signals,
    OrderSet  <- Orders,
    Requests  <- Tries,
    Alike     <- Lookalikes,
    status    <- [i \in Signals |-> intents[i].st],
    sent      <- [i \in Signals |-> OrdersOf(i)],
    answer    <- [o \in Orders |-> orders[o].st]

\* A worker that is not killed keeps the promises of LossyLifecycle, whatever its
\* broker, its bridge and its client's retries do.
ImplementsLossyLifecycle == Lossy!Spec
=============================================================================
