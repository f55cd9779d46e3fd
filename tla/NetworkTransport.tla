-------------------------- MODULE NetworkTransport --------------------------
(***************************************************************************)
(* NetworkTransportManager: the proxies of the broker connection, each     *)
(* with its failures, its quarantine, the time to its next health check    *)
(* and the number of bindings in flight.  Every method of the manager runs *)
(* under one lock, so each operator below is one step; the actions that    *)
(* use them are IQConnection's, the only caller the runtime has.           *)
(*                                                                         *)
(* Deadlines are kept as the time left to them, failures are counted to    *)
(* MaxFailures and bindings in flight to MaxInflight.                      *)
(***************************************************************************)
EXTENDS Integers, Sequences, FiniteSets

CONSTANTS
    Endpoints,
    Priority,        \* of each
    Threshold,       \* failure_threshold
    QuarantineBase, QuarantineMax,
    ProbeInterval,   \* healthcheck_interval_s
    MaxFailures, MaxInflight,
    NoEndpoint

ASSUME TransportAssumption ==
    /\ Endpoints # {} /\ IsFiniteSet(Endpoints) /\ NoEndpoint \notin Endpoints
    /\ Priority \in [Endpoints -> Nat]
    /\ Threshold \in Nat \ {0} /\ MaxFailures \in Nat /\ MaxFailures >= Threshold
    /\ QuarantineBase \in Nat /\ QuarantineMax \in Nat /\ QuarantineMax >= QuarantineBase
    /\ ProbeInterval \in Nat /\ MaxInflight \in Nat \ {0}

\* The one fact of arithmetic the proofs need that the provers do not know: they leave
\* exponentiation uninterpreted.  It holds for every value of the constants.
ASSUME PowersAssumption == \A n \in 0..MaxFailures : 2 ^ n \in Nat

VARIABLES
    failOpen,  \* fail_open_when_exhausted, as configured
    fails,     \* consecutive_failures of each endpoint
    left,      \* what is left of its quarantine
    inflight,  \* bindings in flight
    wait       \* what is left to its next health check

manager == <<fails, left, inflight, wait>>

AtMost(limit, n) == IF n <= limit THEN n ELSE limit
AtLeast(limit, n) == IF n >= limit THEN n ELSE limit

ManagerInit ==
    /\ failOpen \in BOOLEAN
    /\ fails = [e \in Endpoints |-> 0] /\ left = [e \in Endpoints |-> 0]
    /\ inflight = [e \in Endpoints |-> 0] /\ wait = [e \in Endpoints |-> 0]

\* Time passes for every deadline.
TimePasses ==
    /\ left' = [e \in Endpoints |-> AtLeast(0, left[e] - 1)]
    /\ wait' = [e \in Endpoints |-> AtLeast(0, wait[e] - 1)]
    /\ UNCHANGED <<fails, inflight>>

-----------------------------------------------------------------------------
\* Of two keys, the first in the order of Python's tuples.
Precedes(k, l) ==
    \E i \in 1..Len(k) : k[i] < l[i] /\ \A j \in 1..(i - 1) : k[j] = l[j]

Available == {e \in Endpoints : left[e] = 0}

\* _try_select_endpoint may choose e; of equals it takes the one selected longest ago,
\* here any.
Preferred(e) ==
    LET key(x) == <<Priority[x], fails[x], inflight[x]>>
    IN  e \in Available /\ \A o \in Available : ~Precedes(key(o), key(e))

\* _select_fail_open_endpoint may choose e; of equals the first by name, here any.
LastResort(e) ==
    LET key(x) == <<left[x], fails[x], inflight[x]>>
    IN  \A o \in Endpoints : ~Precedes(key(o), key(e))

Take(e) ==
    /\ inflight' = [inflight EXCEPT ![e] = AtMost(MaxInflight, @ + 1)]
    /\ UNCHANGED <<fails, left, wait>>

\* Faulty variant: the count goes below zero, as bindings are released that never were
\* counted.
ReleasedAlways(e) == [inflight EXCEPT ![e] = @ - 1]

Released(e) == [inflight EXCEPT ![e] = AtLeast(0, @ - 1)]

\* record_success.
RecordSuccess(e) ==
    IF e = NoEndpoint THEN UNCHANGED manager ELSE
    /\ fails' = [fails EXCEPT ![e] = 0]
    /\ left' = [left EXCEPT ![e] = 0]
    /\ inflight' = Released(e)
    /\ UNCHANGED wait

\* The quarantine after n failures in a row: it doubles.
Penalty(n) ==
    IF n < Threshold THEN 0 ELSE AtMost(QuarantineMax, QuarantineBase * 2 ^ (n - Threshold))

\* Faulty variant: a failure starts no quarantine.
RecordFailureOnly(e) ==
    IF e = NoEndpoint THEN UNCHANGED manager ELSE
    /\ fails' = [fails EXCEPT ![e] = AtMost(MaxFailures, @ + 1)]
    /\ inflight' = Released(e)
    /\ UNCHANGED <<left, wait>>

\* record_failure.
RecordFailure(e) ==
    IF e = NoEndpoint THEN UNCHANGED manager ELSE
    LET n == AtMost(MaxFailures, fails[e] + 1)
    IN  /\ fails' = [fails EXCEPT ![e] = n]
        /\ left' = [left EXCEPT ![e] = AtLeast(Penalty(n), @)]
        /\ inflight' = Released(e)
        /\ UNCHANGED wait

\* The endpoints run_health_checks probes before a selection is given up.
Probeable == {e \in Endpoints : inflight[e] = 0 /\ left[e] > 0 /\ wait[e] = 0}

\* _apply_probe_result.
ProbeAnswers(e, ok) ==
    /\ wait' = [wait EXCEPT ![e] = ProbeInterval]
    /\ IF ok
       THEN /\ fails' = [fails EXCEPT ![e] = 0]
            /\ left' = [left EXCEPT ![e] = 0]
       ELSE /\ left' = [left EXCEPT ![e] =
                   AtLeast(AtMost(QuarantineMax, AtLeast(ProbeInterval, QuarantineBase)), @)]
            /\ UNCHANGED fails
    /\ UNCHANGED inflight

ManagerTypes ==
    /\ failOpen \in BOOLEAN
    /\ fails \in [Endpoints -> 0..MaxFailures]
    /\ left \in [Endpoints -> 0..QuarantineMax]
    /\ inflight \in [Endpoints -> 0..MaxInflight]
    /\ wait \in [Endpoints -> 0..ProbeInterval]
=============================================================================
