----------------------------- MODULE BrokerBook -----------------------------
(***************************************************************************)
(* The broker's side of an order and what the two adapters let the bot see *)
(* of it (brokers/fake.py, brokers/iqoption.py).                           *)
(*                                                                         *)
(* An order slot is taken when submit_order sends a request, and the broker*)
(* then accepts or refuses it on its own time.  "tagged" says that the     *)
(* adapter keeps a record of the order under the client order key of its   *)
(* intent: the fake broker writes it with the order itself, the iqoption   *)
(* bridge only after the broker has answered with an order id.             *)
(***************************************************************************)
EXTENDS Integers, ExecutionContracts

CONSTANTS
    NSignals,     \* candles of the scope that can carry a signal
    MaxOrders,    \* bound on requests sent to the broker
    MaxTime,      \* horizon; the last instant stands for every later one
    Interval,     \* length of a candle (interval_sec)
    SubmitGrace,  \* entry-deadline grace (execution.submit.grace_sec)
    SettleGrace,  \* settle_grace_sec
    SettleAfter,  \* fake broker: seconds from opening to settlement
    Lookback,     \* history_lookback_sec
    Provider,     \* execution.provider
    SharedBridge  \* other scopes write the bridge's file too

ASSUME BrokerAssumption ==
    /\ NSignals \in Nat /\ MaxOrders \in Nat /\ MaxTime \in Nat
    /\ Interval \in Nat \ {0}
    /\ SubmitGrace \in Nat /\ SettleGrace \in Nat
    /\ SettleAfter \in Nat /\ Lookback \in Nat
    /\ Provider \in {"fake", "iqoption"}
    /\ SharedBridge \in BOOLEAN

VARIABLES
    now,     \* wall clock
    orders   \* the broker's book, one record per request sent

brokerVars == <<orders>>

Signals == 1..NSignals
Orders  == 1..MaxOrders
NoOrder == 0
Times   == 0..MaxTime

\* Candle i opens at Ts(i) and its order expires one interval later.
Ts(i)     == (i - 1) * Interval
Expiry(i) == Ts(i) + Interval
Deadline(i) == Ts(i) + Interval + SubmitGrace

\* "t has been reached"; the horizon is late enough for every deadline.
Due(t) == now >= t \/ now = MaxTime

FreeSlot == [st |-> "free", for |-> 0, tagged |-> FALSE, opened |-> 0]

Accepted == {"open", "closed", "cancelled"}

OrderRecords ==
    [st : {"free", "inflight", "refused"} \cup Accepted,
     for : Signals \cup {0}, tagged : BOOLEAN, opened : Times]

\* Order o as it is, in another state.
OrderIn(o, s) == [st |-> s, for |-> orders[o].for,
                  tagged |-> orders[o].tagged, opened |-> orders[o].opened]

BrokerInit == orders = [o \in Orders |-> FreeSlot]

OrdersOf(i) == {o \in Orders : orders[o].for = i}
Positions(i) == {o \in OrdersOf(i) : orders[o].st \in Accepted}

-----------------------------------------------------------------------------
(* Broker steps.                                                           *)

\* The fake broker creates the order inside submit_order; a request to the
\* live broker may be accepted at any later moment, its caller alive or not.
BrokerAccept(o) ==
    /\ orders[o].st = "inflight"
    /\ orders' = [orders EXCEPT ![o] =
          [st |-> "open", for |-> @.for, tagged |-> Provider = "fake", opened |-> now]]

BrokerRefuse(o) ==
    /\ orders[o].st = "inflight"
    /\ orders' = [orders EXCEPT ![o] = OrderIn(o, "refused")]

\* A binary option closes at its expiry, a fake order SettleAfter its opening.
ClosesAt(o) ==
    IF Provider = "fake" THEN orders[o].opened + SettleAfter
                         ELSE Expiry(orders[o].for)

BrokerClose(o, outcome) ==
    /\ orders[o].st = "open"
    /\ Due(ClosesAt(o))
    /\ orders' = [orders EXCEPT ![o] = OrderIn(o, outcome)]

\* All scopes keep their records in one file, which a process loads, extends and
\* saves as a whole: one that loaded it before this order was recorded takes the
\* record away when it saves.
BridgeForgets(o) ==
    /\ SharedBridge /\ Provider = "iqoption"
    /\ orders[o].tagged
    /\ orders' = [orders EXCEPT ![o] =
          [st |-> @.st, for |-> @.for, tagged |-> FALSE, opened |-> @.opened]]

-----------------------------------------------------------------------------
(* What the adapter shows.                                                 *)

\* Faulty variant: the settle grace is forgotten.
WithoutTelemetryNoGrace(o) ==
    {IF Due(Expiry(orders[o].for)) THEN "not_found" ELSE "open", "unknown"}

\* Without telemetry the bridge keeps a recorded order open until its expiry
\* plus the settle grace and reports it not found afterwards; a betinfo
\* answer with an empty row is reported as unknown.  An asynchronous record that
\* still says open after the order has closed is left out.
WithoutTelemetry(o) ==
    {IF Due(Expiry(orders[o].for) + SettleGrace) THEN "not_found" ELSE "open",
     "unknown"}

\* adapter.fetch_order(o): every status the call may return.
FetchViews(o) ==
    IF orders[o].st \notin Accepted THEN {"absent"}
    ELSE {orders[o].st}
         \cup (IF Provider = "fake" THEN {}
               ELSE IF orders[o].tagged THEN WithoutTelemetry(o)
               ELSE {"absent"})

\* fetch_open_orders + fetch_closed_orders, for one order: an unknown status
\* is listed by neither, a closed one only back to "from".
ScanViews(o, from) ==
    {IF v = "unknown" \/ (v # "open" /\ ClosesAt(o) < from)
       THEN "absent" ELSE v : v \in FetchViews(o)}

NoView == [o \in Orders |-> [st |-> "absent", keyed |-> FALSE]]

\* A whole scan.  With no live session the iqoption bridge lists nothing.
ScanResults(from) ==
    {[o \in Orders |-> [st |-> v[o],
                        keyed |-> v[o] # "absent" /\ orders[o].tagged]] :
        v \in {f \in [Orders -> UNION {ScanViews(o, from) : o \in Orders}] :
                  \A o \in Orders : f[o] \in ScanViews(o, from)}}
    \cup (IF Provider = "iqoption" THEN {NoView} ELSE {})
=============================================================================
