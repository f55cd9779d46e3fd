--------------------------- MODULE CircuitBreaker ---------------------------
(***************************************************************************)
(* The per-scope circuit breaker of the failsafe kernel: a row that the    *)
(* daemon, the portfolio runner and the operator load, change by one of    *)
(* these functions and save.  Who does so, and when, is in PortfolioCycle. *)
(*                                                                         *)
(* A row holds the time left of its cooldown instead of opened_until_utc,  *)
(* and counts failures no further than FailuresToOpen: beyond it they no   *)
(* longer make a difference.  half_open_trials_used is always 0, as no one *)
(* calls allow_half_open_trial.                                            *)
(***************************************************************************)
EXTENDS Integers

CONSTANTS
    FailuresToOpen,  \* breaker_failures_to_open
    Cooldown         \* breaker_cooldown_minutes

ASSUME BreakerAssumption == FailuresToOpen \in Nat \ {0} /\ Cooldown \in Nat \ {0}

BreakerStates == {"closed", "open", "half_open"}
Breakers == [state : BreakerStates, failures : 0..FailuresToOpen, left : 0..Cooldown]

\* The row of a scope that has none, and what record_success leaves.
NewBreaker == [state |-> "closed", failures |-> 0, left |-> 0]

\* Faulty variant: the cooldown ends and the failures are forgotten with it.
EvaluateCircuitForgets(b) ==
    IF b.state = "open" /\ b.left = 0
    THEN [state |-> "half_open", failures |-> 0, left |-> 0] ELSE b

\* evaluate_circuit.
EvaluateCircuit(b) ==
    IF b.state = "open" /\ b.left = 0
    THEN [state |-> "half_open", failures |-> b.failures, left |-> 0] ELSE b

OneMoreFailure(b) == IF b.failures < FailuresToOpen THEN b.failures + 1 ELSE FailuresToOpen

\* Faulty variant: a failure starts the cooldown of an open breaker again.
RecordFailureExtends(b) ==
    IF OneMoreFailure(b) >= FailuresToOpen
    THEN [state |-> "open", failures |-> FailuresToOpen, left |-> Cooldown]
    ELSE [state |-> b.state, failures |-> OneMoreFailure(b), left |-> b.left]

\* record_failure: an open breaker keeps the end of its cooldown.
RecordFailure(b) ==
    IF b.state # "open" /\ OneMoreFailure(b) >= FailuresToOpen
    THEN [state |-> "open", failures |-> FailuresToOpen, left |-> Cooldown]
    ELSE [state |-> b.state, failures |-> OneMoreFailure(b), left |-> b.left]

\* Faulty variant: a cooldown that is over goes on.
AgedBelow(b) == [state |-> b.state, failures |-> b.failures, left |-> b.left - 1]

\* A row when time has passed.
Aged(b) ==
    [state |-> b.state, failures |-> b.failures, left |-> IF b.left > 0 THEN b.left - 1 ELSE 0]

\* A breaker is closed exactly as long as its failures are too few, and only an
\* open one has a cooldown.
Coherent(b) ==
    /\ b.state = "closed" <=> b.failures < FailuresToOpen
    /\ b.state # "open" => b.left = 0
=============================================================================
