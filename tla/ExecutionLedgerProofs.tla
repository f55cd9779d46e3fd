------------------------ MODULE ExecutionLedgerProofs ------------------------
(***************************************************************************)
(* Proofs about ExecutionLedger for every number of signals, processes,    *)
(* orders and crashes, every clock bound and both brokers.                 *)
(***************************************************************************)
EXTENDS ExecutionLedger, TLAPS, FiniteSetTheorems

USE DEF Signals, Orders, Times, NoOrder, NoTime

-----------------------------------------------------------------------------
(* Operators.                                                              *)

\* A status known to StateFromBroker gives an intent state, whatever the row.
LEMMA StateFromBrokerType ==
    ASSUME NEW status \in BrokerViews, NEW current \in IntentStates \cup {"none"}
    PROVE  StateFromBroker(status, current) \in IntentStates \cup {"none"}
BY DEF StateFromBroker, BrokerViews, IntentStates, PendingStates, TerminalStates

\* Every answer of the transport gives an intent state.
LEMMA StateFromTransportType ==
    ASSUME NEW answer
    PROVE  StateFromTransport(answer) \in IntentStates
BY DEF StateFromTransport, IntentStates, PendingStates, TerminalStates

\* A fetch shows one of the broker views.
LEMMA FetchViewsType ==
    ASSUME orders \in [Orders -> OrderRecords], NEW o \in Orders
    PROVE  FetchViews(o) \subseteq BrokerViews
BY DEF FetchViews, WithoutTelemetry, BrokerViews, OrderRecords, Accepted

\* So does a scan, which never lists an unknown status.
LEMMA ScanViewsType ==
    ASSUME orders \in [Orders -> OrderRecords], NEW o \in Orders, NEW from
    PROVE  ScanViews(o, from) \subseteq BrokerViews \ {"unknown"}
BY FetchViewsType DEF ScanViews, BrokerViews

\* A scan lists each order with a status its fetch could have returned.
LEMMA ScanResultsType ==
    ASSUME orders \in [Orders -> OrderRecords], NEW from,
           NEW v \in ScanResults(from)
    PROVE  /\ v \in [Orders -> [st : BrokerViews, keyed : BOOLEAN]]
           /\ \A o \in Orders : v[o].st = "absent" \/ v[o].st \in FetchViews(o) \ {"unknown"}
<1>1. CASE v = NoView
  BY <1>1 DEF NoView, BrokerViews
<1>2. ASSUME NEW f \in [Orders -> UNION {ScanViews(o, from) : o \in Orders}],
             \A o \in Orders : f[o] \in ScanViews(o, from),
             v = [o \in Orders |-> [st |-> f[o],
                                    keyed |-> f[o] # "absent" /\ orders[o].tagged]]
      PROVE  /\ v \in [Orders -> [st : BrokerViews, keyed : BOOLEAN]]
             /\ \A o \in Orders :
                   v[o].st = "absent" \/ v[o].st \in FetchViews(o) \ {"unknown"}
  <2>1. \A o \in Orders : f[o] \in BrokerViews
    BY <1>2, ScanViewsType
  <2>2. \A o \in Orders : f[o] = "absent" \/ f[o] \in FetchViews(o) \ {"unknown"}
    BY <1>2 DEF ScanViews
  <2> QED
    BY <1>2, <2>1, <2>2
<1> QED
  BY <1>1, <1>2 DEF ScanResults

\* What each status makes of a row.
LEMMA StateFromBrokerCases ==
    ASSUME NEW current
    PROVE  /\ StateFromBroker("open", current) = "accepted_open"
           /\ StateFromBroker("closed", current) = "settled"
           /\ StateFromBroker("cancelled", current) = "rejected"
           /\ StateFromBroker("not_found", current) = "expired_unconfirmed"
           /\ StateFromBroker("unknown", current) = current
BY DEF StateFromBroker

\* What each answer makes of an intent.
LEMMA StateFromTransportCases ==
    /\ StateFromTransport("ack") = "accepted_open"
    /\ StateFromTransport("reject") = "rejected"
    /\ \A answer : answer \notin {"ack", "reject"} =>
          StateFromTransport(answer) = "submitted_unknown"
BY DEF StateFromTransport

-----------------------------------------------------------------------------
(* Type correctness.                                                       *)

LEMMA NoRowType == NoRow \in IntentRows
BY DEF NoRow, IntentRows, IntentStates

\* The rows a pass holds are rows.
LEMMA PendingRowType ==
    ASSUME TypeOK, NEW p \in Processes, NEW i \in Signals
    PROVE  pending[p][i] \in IntentRows
<1>1. pending \in [Processes -> [Signals -> IntentRows]]
  BY DEF TypeOK
<1> QED
  BY <1>1

\* What EndPass leaves is well typed.
LEMMA EndPassType ==
    ASSUME TypeOK, NEW p \in Processes, EndPass(p)
    PROVE  /\ pc' \in [Processes -> {"idle", "list", "scan", "match", "orphans", "pick",
                              "insert", "gate", "submit", "sent", "save"}]
           /\ phase' \in [Processes -> {"pre", "post", "cli"}]
           /\ since' \in [Processes -> Times]
           /\ pending' \in [Processes -> [Signals -> IntentRows]]
           /\ view' \in [Processes -> [Orders -> [st : BrokerViews, keyed : BOOLEAN]]]
           /\ matched' \in [Processes -> SUBSET Orders]
<1>1. [i \in Signals |-> NoRow] \in [Signals -> IntentRows]
  BY NoRowType
<1>2. NoView \in [Orders -> [st : BrokerViews, keyed : BOOLEAN]]
  BY DEF NoView, BrokerViews
<1>3. 0 \in Times
  BY BrokerAssumption
<1> QED
  BY <1>1, <1>2, <1>3 DEF EndPass, AfterPass, TypeOK

\* A request is one of the tries of its submit.
LEMMA RequestNumber ==
    ASSUME TypeOK, NEW w \in Workers, CallBroker(w) \/ BuyAgain(w)
    PROVE  \E n \in 1..BuyRetries : SendRequest(w, n)
<1>1. CASE CallBroker(w)
  BY <1>1, LedgerAssumption DEF CallBroker
<1>2. CASE BuyAgain(w)
  <2>1. call[w].tries \in 0..BuyRetries
    BY DEF TypeOK, Processes
  <2>2. call[w].tries < Tries /\ Tries \in 1..BuyRetries
    BY <1>2, LedgerAssumption DEF BuyAgain, Tries
  <2>3. call[w].tries + 1 \in 1..BuyRetries
    BY <2>1, <2>2, LedgerAssumption
  <2> QED
    BY <1>2, <2>3 DEF BuyAgain
<1> QED
  BY <1>1, <1>2

\* What Finish leaves is well typed.
LEMMA FinishType ==
    ASSUME TypeOK, NEW w \in Processes, Finish(w)
    PROVE  /\ pc' \in [Processes -> {"idle", "list", "scan", "match", "orphans", "pick",
                              "insert", "gate", "submit", "sent", "save"}]
           /\ phase' \in [Processes -> {"pre", "post", "cli"}]
           /\ since' \in [Processes -> Times]
           /\ pending' \in [Processes -> [Signals -> IntentRows]]
           /\ view' \in [Processes -> [Orders -> [st : BrokerViews, keyed : BOOLEAN]]]
           /\ matched' \in [Processes -> SUBSET Orders]
           /\ sampled' \in [Processes -> BOOLEAN]
           /\ target' \in [Processes -> Signals \cup {0}]
           /\ held' \in [Processes -> IntentRows]
           /\ call' \in [Processes -> [slot : Orders \cup {NoOrder}, at : Times,
                                answer : Answers, tries : 0..BuyRetries]]
<1>1. NoCall \in [slot : Orders \cup {NoOrder}, at : Times, answer : Answers,
                 tries : 0..BuyRetries]
  BY BrokerAssumption, LedgerAssumption DEF NoCall, Answers
<1> QED
  BY <1>1, NoRowType DEF Finish, TypeOK

\* The initial state is well typed.
LEMMA InitType == Init => TypeOK
<1> SUFFICES ASSUME Init PROVE TypeOK
  OBVIOUS
<1>1. 0 \in Times /\ 0 \in 0..MaxCrashes
  BY BrokerAssumption, LedgerAssumption
<1>2. FreeSlot \in OrderRecords
  BY <1>1 DEF FreeSlot, OrderRecords
<1>3. NoView \in [Orders -> [st : BrokerViews, keyed : BOOLEAN]]
  BY DEF NoView, BrokerViews
<1>4. NoCall \in [slot : Orders \cup {NoOrder}, at : Times, answer : Answers,
                 tries : 0..BuyRetries]
  BY <1>1, LedgerAssumption DEF NoCall, Answers
<1> QED
  BY <1>1, <1>2, <1>3, <1>4, NoRowType DEF Init, TypeOK, BrokerInit, Unlinked

\* Losing a record changes nothing of an order but its tag.
LEMMA OnlyTheTag ==
    ASSUME orders \in [Orders -> OrderRecords], NEW o \in Orders, BridgeForgets(o)
    PROVE  /\ orders' \in [Orders -> OrderRecords]
           /\ \A q \in Orders : /\ orders'[q].st = orders[q].st
                               /\ orders'[q].for = orders[q].for
<1> DEFINE record == [st |-> orders[o].st, for |-> orders[o].for,
                      tagged |-> FALSE, opened |-> orders[o].opened]
<1>1. orders' = [orders EXCEPT ![o] = record]
  BY DEF BridgeForgets
<1>2. record \in OrderRecords /\ record.st = orders[o].st /\ record.for = orders[o].for
  BY DEF OrderRecords
<1> HIDE DEF record
<1> QED
  BY <1>1, <1>2

\* No step of the environment leaves the types.
LEMMA EnvironmentType ==
    ASSUME TypeOK,
           \/ Tick \/ ToggleHalt
           \/ \E i \in Signals, verdict \in Verdicts : Emit(i, verdict)
           \/ \E o \in Orders : Broker(o) \/ OtherScopeSaves(o)
    PROVE  TypeOK'
<1>1. CASE Tick
  BY <1>1, BrokerAssumption DEF Tick, TypeOK, brokerVars, ledgerVars, passVars, workVars
<1>2. CASE ToggleHalt
  BY <1>2 DEF ToggleHalt, TypeOK, brokerVars, ledgerVars, passVars, workVars
<1>3. ASSUME NEW i \in Signals, NEW verdict \in Verdicts, Emit(i, verdict)
      PROVE  TypeOK'
  BY <1>3 DEF Emit, TypeOK, brokerVars, passVars, workVars
<1>4. ASSUME NEW o \in Orders, Broker(o)
      PROVE  TypeOK'
  <2>1. orders' \in [Orders -> OrderRecords]
    <3>1. (Provider = "fake") \in BOOLEAN
      OBVIOUS
    <3>2. CASE BrokerAccept(o)
      BY <3>1, <3>2 DEF BrokerAccept, TypeOK, OrderRecords, Accepted
    <3>3. CASE BrokerRefuse(o)
      BY <3>3 DEF BrokerRefuse, OrderIn, TypeOK, OrderRecords, Accepted
    <3>4. ASSUME NEW outcome \in {"closed", "cancelled"}, BrokerClose(o, outcome)
          PROVE  orders' \in [Orders -> OrderRecords]
      <4>1. orders[o] \in OrderRecords
        BY DEF TypeOK
      <4>2. OrderIn(o, outcome) \in OrderRecords
        BY <4>1 DEF OrderIn, OrderRecords, Accepted
      <4> QED
        BY <3>4, <4>2 DEF BrokerClose, TypeOK
    <3> QED
      BY <1>4, <3>2, <3>3, <3>4 DEF Broker
  <2> QED
    BY <1>4, <2>1 DEF Broker, TypeOK, ledgerVars, passVars, workVars
<1>5. ASSUME NEW o \in Orders, OtherScopeSaves(o)
      PROVE  TypeOK'
  <2>1. orders' \in [Orders -> OrderRecords]
    BY <1>5, OnlyTheTag DEF OtherScopeSaves, TypeOK
  <2> QED
    BY <1>5, <2>1 DEF OtherScopeSaves, TypeOK, ledgerVars, passVars, workVars
<1> QED
  BY <1>1, <1>2, <1>3, <1>4, <1>5

\* No step of a reconcile pass leaves the types.
LEMMA ReconcileType ==
    ASSUME TypeOK, NEW p \in Processes, Reconcile(p)
    PROVE  TypeOK'
<1>1. CASE ListPending(p)
  <2>1. PendingRows \in [Signals -> IntentRows]
    BY NoRowType DEF TypeOK, PendingRows
  <2>2. CASE \E i \in Signals : intents[i].st \in PendingStates
    <3>1. /\ pc' = [pc EXCEPT ![p] = "scan"]
          /\ since' = [since EXCEPT ![p] = now]
          /\ pending' = [pending EXCEPT ![p] = PendingRows]
          /\ UNCHANGED <<phase, view, matched>>
      BY <1>1, <2>2 DEF ListPending
    <3>2. UNCHANGED <<now, orders, rows, intents, links, halted, crashes, workVars>>
      BY <1>1 DEF ListPending, brokerVars, ledgerVars
    <3> QED
      BY <2>1, <3>1, <3>2 DEF TypeOK, workVars
  <2>3. CASE ~\E i \in Signals : intents[i].st \in PendingStates
    <3>1. EndPass(p)
      BY <1>1, <2>3 DEF ListPending
    <3> QED
      BY <1>1, <3>1, EndPassType DEF ListPending, TypeOK, brokerVars, ledgerVars, workVars
  <2> QED
    BY <2>2, <2>3
<1>2. CASE Scan(p)
  <2>1. PICK v \in ScanResults(since[p] - Lookback) : view' = [view EXCEPT ![p] = v]
    BY <1>2 DEF Scan
  <2>2. v \in [Orders -> [st : BrokerViews, keyed : BOOLEAN]]
    BY <2>1, ScanResultsType DEF TypeOK
  <2> QED
    BY <1>2, <2>1, <2>2 DEF Scan, TypeOK, brokerVars, ledgerVars, workVars
<1>3. CASE PassRaises(p)
  BY <1>3, EndPassType DEF PassRaises, TypeOK, brokerVars, ledgerVars, workVars
<1>4. CASE MatchDone(p)
  BY <1>4 DEF MatchDone, TypeOK, brokerVars, ledgerVars, passVars, workVars
<1>5. CASE OrphanPass(p)
  <2>1. links' \in [Orders -> {Unlinked, NullLink} \cup Signals]
    BY <1>5 DEF OrphanPass, OrphanLink, TypeOK, NullLink, OrderRecords
  <2> QED
    BY <1>5, <2>1, EndPassType DEF OrphanPass, TypeOK, brokerVars, workVars
<1>6. ASSUME NEW i \in Signals, NEW o \in Orders, NEW status \in BrokerViews,
             ApplySnapshot(p, i, o, status)
      PROVE  /\ intents' \in [Signals -> IntentRows]
             /\ links' \in [Orders -> {Unlinked, NullLink} \cup Signals]
             /\ matched' \in [Processes -> SUBSET Orders]
             /\ pending' \in [Processes -> [Signals -> IntentRows]]
  <2> DEFINE row == pending[p][i]
             sub == IF row.sub # NoTime THEN row.sub ELSE orders[o].opened
             new == [st |-> StateFromBroker(status, row.st), ext |-> o, sub |-> sub]
  <2>1. row \in IntentRows
    BY PendingRowType
  <2>2. orders[o].opened \in Times
    BY DEF TypeOK, OrderRecords
  <2>3. StateFromBroker(status, row.st) \in IntentStates \cup {"none"}
    BY <2>1, StateFromBrokerType DEF IntentRows
  <2>4. sub \in Times \cup {NoTime}
    BY <2>1, <2>2 DEF IntentRows
  <2>5. new \in IntentRows
    BY <2>3, <2>4 DEF IntentRows
  <2>6. intents' = [intents EXCEPT ![i] = new]
    BY <1>6 DEF ApplySnapshot
  <2> QED
    BY <1>6, <2>5, <2>6, NoRowType DEF ApplySnapshot, Handled, TypeOK
<1>7. ASSUME NEW i \in Signals,
             MatchById(p, i) \/ MatchByScan(p, i)
      PROVE  TypeOK'
  <2>1. PICK o \in Orders, status \in BrokerViews : ApplySnapshot(p, i, o, status)
    <3>1. CASE MatchById(p, i)
      <4>1. PICK status \in LookupViews(pending[p][i]) \ {"absent"} :
                ApplySnapshot(p, i, pending[p][i].ext, status)
        BY <3>1 DEF MatchById
      <4>2. pending[p][i].ext \in Orders
        BY <4>1, PendingRowType DEF LookupViews, IntentRows
      <4>3. status \in BrokerViews
        BY <4>1, <4>2, FetchViewsType DEF LookupViews, TypeOK
      <4> QED
        BY <4>1, <4>2, <4>3
    <3>2. CASE MatchByScan(p, i)
      <4>1. view \in [Processes -> [Orders -> [st : BrokerViews, keyed : BOOLEAN]]]
        BY DEF TypeOK
      <4>2. PICK o \in Orders : ApplySnapshot(p, i, o, view[p][o].st)
        BY <3>2 DEF MatchByScan
      <4> QED
        BY <4>1, <4>2
    <3> QED
      BY <1>7, <3>1, <3>2
  <2> QED
    BY <1>6, <1>7, <2>1 DEF MatchById, MatchByScan, TypeOK, brokerVars, workVars
<1>8. ASSUME NEW i \in Signals,
             MatchAmbiguous(p, i) \/ MatchNone(p, i) \/ MatchRaises(p, i)
      PROVE  TypeOK'
  <2>1. pending' \in [Processes -> [Signals -> IntentRows]]
    <3>1. Handled(p, i)
      BY <1>8 DEF MatchAmbiguous, MatchNone, MatchRaises
    <3> QED
      BY <3>1, NoRowType DEF Handled, TypeOK
  <2>2. \A s \in {"ambiguous", "expired_unsubmitted", "expired_unconfirmed"} :
           RowIn(pending[p][i], s) \in IntentRows
    BY PendingRowType DEF RowIn, IntentRows, IntentStates, TerminalStates
  <2>3. intents' \in [Signals -> IntentRows]
    BY <1>8, <2>2 DEF MatchAmbiguous, MatchNone, MatchRaises, TypeOK, ledgerVars
  <2> QED
    BY <1>8, <2>1, <2>3 DEF MatchAmbiguous, MatchNone, MatchRaises, TypeOK,
         brokerVars, ledgerVars, workVars
<1> QED
  BY <1>1, <1>2, <1>3, <1>4, <1>5, <1>7, <1>8 DEF Reconcile

\* No step of a worker leaves the types.
LEMMA WorkType ==
    ASSUME TypeOK, NEW w \in Workers, Work(w)
    PROVE  TypeOK'
<1>0. w \in Processes
  BY DEF Processes
<1>1. CASE StartWorker(w)
  BY <1>1, <1>0 DEF StartWorker, TypeOK, brokerVars, ledgerVars
<1>2. CASE PickSignal(w)
  <2>1. PICK i \in Signals \cup {0} :
          IF i = 0 \/ ~Submittable(i)
             THEN Finish(w)
             ELSE /\ target' = [target EXCEPT ![w] = i]
                  /\ held' = [held EXCEPT ![w] = intents[i]]
                  /\ pc' = [pc EXCEPT ![w] = IF intents[i].st = "none"
                                             THEN "insert" ELSE "gate"]
                  /\ UNCHANGED <<sampled, call, passVars>>
    BY <1>2 DEF PickSignal
  <2>2. CASE i = 0 \/ ~Submittable(i)
    BY <1>0, <1>2, <2>1, <2>2, FinishType DEF PickSignal, TypeOK, brokerVars, ledgerVars
  <2>3. CASE ~(i = 0 \/ ~Submittable(i))
    <3>1. i \in Signals /\ intents[i] \in IntentRows
      BY <2>3 DEF TypeOK
    <3> QED
      BY <1>0, <1>2, <2>1, <2>3, <3>1 DEF PickSignal, TypeOK, brokerVars, ledgerVars, passVars
  <2> QED
    BY <2>2, <2>3
<1>3. CASE InsertIntent(w)
  <2>1. RowIn(NoRow, "planned") \in IntentRows
    BY DEF NoRow, RowIn, IntentRows, IntentStates, PendingStates
  <2> QED
    BY <1>0, <1>3, <2>1 DEF InsertIntent, TypeOK, brokerVars, passVars
<1>4. CASE GateBlocked(w)
  BY <1>0, <1>4, FinishType DEF GateBlocked, TypeOK, brokerVars
<1>5. CASE DeadlinePassed(w)
  <2>1. RowIn(held[w], "expired_unsubmitted") \in IntentRows
    BY <1>0 DEF TypeOK, RowIn, IntentRows, IntentStates, TerminalStates
  <2> QED
    BY <1>0, <1>5, <2>1, FinishType DEF DeadlinePassed, TypeOK, brokerVars
<1>6. CASE GatePass(w)
  BY <1>0, <1>6 DEF GatePass, TypeOK, brokerVars, ledgerVars, passVars, workVars
<1>7. CASE CallBroker(w) \/ BuyAgain(w)
  <2>0. PICK n \in 1..BuyRetries : SendRequest(w, n)
    BY <1>7, RequestNumber
  <2>1. [st |-> "inflight", for |-> target[w], tagged |-> FALSE, opened |-> 0]
           \in OrderRecords
    BY <1>0, BrokerAssumption DEF OrderRecords, TypeOK
  <2>2. orders' \in [Orders -> OrderRecords]
    BY <2>0, <2>1 DEF SendRequest, TypeOK
  <2>3. call' \in [Processes -> [slot : Orders \cup {NoOrder}, at : Times,
                                answer : Answers, tries : 0..BuyRetries]]
    BY <1>0, <2>0, LedgerAssumption DEF SendRequest, TypeOK, Answers
  <2> QED
    BY <1>0, <2>0, <2>2, <2>3 DEF SendRequest, TypeOK, ledgerVars, passVars
<1>8. CASE SubmitReturns(w)
  <2>1. orders' \in [Orders -> OrderRecords]
    <3> DEFINE o == call[w].slot
               recorded == [st |-> orders[o].st, for |-> orders[o].for,
                            tagged |-> TRUE, opened |-> orders[o].opened]
    <3>1. orders' = orders \/ orders' = [orders EXCEPT ![o] = recorded]
      BY <1>8 DEF SubmitReturns
    <3>2. CASE o \in Orders
      <4>1. recorded \in OrderRecords
        BY <3>2 DEF TypeOK, OrderRecords
      <4> QED
        BY <3>1, <4>1 DEF TypeOK
    <3>3. CASE o \notin Orders
      BY <3>1, <3>3 DEF TypeOK
    <3> QED
      BY <3>2, <3>3
  <2>2. call' \in [Processes -> [slot : Orders \cup {NoOrder}, at : Times,
                                answer : Answers, tries : 0..BuyRetries]]
    BY <1>8, <1>0, LedgerAssumption DEF SubmitReturns, TypeOK, Answers
  <2> QED
    BY <1>0, <1>8, <2>1, <2>2 DEF SubmitReturns, TypeOK, ledgerVars, passVars
<1>9. CASE SaveResult(w)
  <2> DEFINE ext == IF call[w].answer = "ack" THEN call[w].slot ELSE held[w].ext
             sub == IF held[w].sub # NoTime THEN held[w].sub ELSE call[w].at
             new == [st |-> StateFromTransport(call[w].answer), ext |-> ext, sub |-> sub]
  <2>1. held[w] \in IntentRows
         /\ call[w] \in [slot : Orders \cup {NoOrder}, at : Times,
                          answer : Answers, tries : 0..BuyRetries]
    BY <1>0 DEF TypeOK
  <2>2. ext \in Orders \cup {NoOrder} /\ sub \in Times \cup {NoTime}
    BY <2>1 DEF IntentRows
  <2>3. new \in IntentRows
    BY <2>2, StateFromTransportType DEF IntentRows
  <2>4. intents' = [intents EXCEPT ![target[w]] = new]
    BY <1>9 DEF SaveResult
  <2>5. intents' \in [Signals -> IntentRows]
    BY <2>3, <2>4 DEF TypeOK
  <2> QED
    BY <1>0, <1>9, <2>5, FinishType DEF SaveResult, TypeOK, brokerVars
<1> QED
  BY <1>1, <1>2, <1>3, <1>4, <1>5, <1>6, <1>7, <1>8, <1>9 DEF Work

\* No command of the operator leaves the types.
LEMMA CommandType ==
    ASSUME TypeOK, NEW r \in Reconcilers,
           StartReconcile(r) \/ \E o \in Orders : CheckOrderStatus(r, o)
    PROVE  TypeOK'
<1>1. CASE StartReconcile(r)
  BY <1>1 DEF StartReconcile, TypeOK, brokerVars, ledgerVars, workVars
<1>2. ASSUME NEW o \in Orders, CheckOrderStatus(r, o)
      PROVE  TypeOK'
  <2> DEFINE owner == IF \E i \in Signals : intents[i].ext = o
                      THEN CHOOSE i \in Signals : intents[i].ext = o ELSE NullLink
  <2>1. owner \in {Unlinked, NullLink} \cup Signals
    OBVIOUS
  <2>2. links' = [links EXCEPT ![o] = owner]
    BY <1>2 DEF CheckOrderStatus
  <2>3. links' \in [Orders -> {Unlinked, NullLink} \cup Signals]
    BY <2>1, <2>2 DEF TypeOK
  <2> QED
    BY <1>2, <2>3 DEF CheckOrderStatus, TypeOK, brokerVars, passVars, workVars
<1> QED
  BY <1>1, <1>2

\* A kill leaves the types.
LEMMA CrashType ==
    ASSUME TypeOK, NEW p \in Processes, Crash(p)
    PROVE  TypeOK'
<1>1. orders' \in [Orders -> OrderRecords]
  <2>1. \A o \in Orders : orders[o] \in OrderRecords /\ OrderIn(o, "refused") \in OrderRecords
    BY DEF TypeOK, OrderIn, OrderRecords
  <2> QED
    BY <2>1 DEF Crash
<1>2. crashes' \in 0..MaxCrashes
  BY LedgerAssumption DEF Crash, TypeOK
<1>3. [i \in Signals |-> NoRow] \in [Signals -> IntentRows]
  BY NoRowType
<1>4. NoView \in [Orders -> [st : BrokerViews, keyed : BOOLEAN]]
  BY DEF NoView, BrokerViews
<1>5. /\ 0 \in Times
      /\ NoCall \in [slot : Orders \cup {NoOrder}, at : Times, answer : Answers,
                 tries : 0..BuyRetries]
  BY BrokerAssumption, LedgerAssumption DEF NoCall, Answers
<1> QED
  BY <1>1, <1>2, <1>3, <1>4, <1>5, NoRowType DEF Crash, TypeOK, ledgerVars

\* Every step keeps every variable in its type.
THEOREM TypeCorrect == Spec => []TypeOK
<1>1. Init => TypeOK
  BY InitType
<1>2. TypeOK /\ [Next]_vars => TypeOK'
  <2> SUFFICES ASSUME TypeOK, [Next]_vars PROVE TypeOK'
    OBVIOUS
  <2>1. CASE Next
    BY <2>1, EnvironmentType, ReconcileType, WorkType, CommandType, CrashType DEF Next
  <2>2. CASE UNCHANGED vars
    BY <2>2 DEF vars, TypeOK, brokerVars, ledgerVars, passVars, workVars
  <2> QED
    BY <2>1, <2>2
<1> QED
  BY <1>1, <1>2, PTL DEF Spec

-----------------------------------------------------------------------------
(* The ledger agrees with the broker.                                      *)

\* What the broker's book never takes back: a request sent stays sent for the
\* same signal, an accepted order stays accepted, a finished one as it ended.
Grows(old, new) ==
    \A o \in Orders :
        /\ old[o].st # "free" => new[o].st # "free" /\ new[o].for = old[o].for
        /\ old[o].st \in Accepted => new[o].st \in Accepted
        /\ old[o].st \in {"closed", "cancelled"} => new[o].st = old[o].st

\* What is true of a row stays true while the book grows.
LEMMA RowTruthKept ==
    ASSUME NEW old, NEW new, Grows(old, new), NEW i \in Signals,
           NEW row \in IntentRows, RowTruth(old, i, row)
    PROVE  RowTruth(new, i, row)
BY DEF Grows, RowTruth, SentFor, IntentRows

\* So does what is true of a snapshot.
LEMMA ViewTruthKept ==
    ASSUME NEW old, NEW new, Grows(old, new), NEW o \in Orders, NEW seen,
           ViewTruth(old, o, seen)
    PROVE  ViewTruth(new, o, seen)
BY DEF Grows, ViewTruth

\* And of a submit in progress.
LEMMA CallTruthKept ==
    ASSUME NEW old, NEW new, Grows(old, new), NEW at, NEW signal,
           NEW c \in [slot : Orders \cup {NoOrder}, at : Times, answer : Answers,
                     tries : 0..BuyRetries],
           CallTruth(old, at, signal, c)
    PROVE  CallTruth(new, at, signal, c)
BY DEF Grows, CallTruth

\* No step takes anything back from the book.
LEMMA BookGrows ==
    ASSUME TypeOK, LedgerInv, Next
    PROVE  Grows(orders, orders')
<1> USE DEF OrderRecords
<1>0. orders \in [Orders -> OrderRecords]
  BY DEF TypeOK
<1>1. ASSUME UNCHANGED orders PROVE Grows(orders, orders')
  BY <1>1 DEF Grows
<1>2. ASSUME NEW o \in Orders, Broker(o)
      PROVE  Grows(orders, orders')
  <2>1. CASE BrokerAccept(o)
    BY <1>0, <2>1 DEF BrokerAccept, Grows, Accepted
  <2>2. CASE BrokerRefuse(o)
    BY <1>0, <2>2 DEF BrokerRefuse, OrderIn, Grows, Accepted
  <2>3. ASSUME NEW outcome \in {"closed", "cancelled"}, BrokerClose(o, outcome)
        PROVE  Grows(orders, orders')
    BY <1>0, <2>3 DEF BrokerClose, OrderIn, Grows, Accepted
  <2> QED
    BY <1>2, <2>1, <2>2, <2>3 DEF Broker
<1>3. ASSUME NEW p \in Processes, Crash(p)
      PROVE  Grows(orders, orders')
  <2>1. orders' = [o \in Orders |->
          IF /\ Provider = "fake" /\ pc[p] = "sent"
             /\ o = call[p].slot /\ orders[o].st = "inflight"
          THEN OrderIn(o, "refused") ELSE orders[o]]
    BY <1>3 DEF Crash
  <2> QED
    BY <1>0, <2>1 DEF OrderIn, Grows, Accepted
<1>4. ASSUME NEW w \in Workers, CallBroker(w) \/ BuyAgain(w)
      PROVE  Grows(orders, orders')
  <2>1. PICK n \in 1..BuyRetries : SendRequest(w, n)
    BY <1>4, RequestNumber
  <2> QED
    BY <1>0, <2>1 DEF SendRequest, Grows, Accepted
<1>5. ASSUME NEW w \in Workers, SubmitReturns(w)
      PROVE  Grows(orders, orders')
  <2> DEFINE o == call[w].slot
             recorded == [st |-> orders[o].st, for |-> orders[o].for,
                          tagged |-> TRUE, opened |-> orders[o].opened]
  <2>1. orders' = orders \/ orders' = [orders EXCEPT ![o] = recorded]
    BY <1>5 DEF SubmitReturns
  <2>2. recorded.st = orders[o].st /\ recorded.for = orders[o].for
    OBVIOUS
  <2> HIDE DEF recorded
  <2>3. \A q \in Orders : /\ orders'[q].st = orders[q].st
                          /\ orders'[q].for = orders[q].for
    BY <1>0, <2>1, <2>2
  <2> QED
    BY <2>3 DEF Grows
<1>6. ASSUME NEW p \in Processes, Reconcile(p)
      PROVE  UNCHANGED orders
  BY <1>6 DEF Reconcile, ListPending, Scan, PassRaises, MatchDone, OrphanPass, MatchById,
       MatchByScan, MatchAmbiguous, MatchNone, MatchRaises, brokerVars
<1>7. ASSUME NEW w \in Workers, Work(w), ~CallBroker(w), ~BuyAgain(w), ~SubmitReturns(w)
      PROVE  UNCHANGED orders
  BY <1>7 DEF Work, StartWorker, PickSignal, InsertIntent, GateBlocked, DeadlinePassed,
       GatePass, SaveResult, brokerVars
<1>8. ASSUME \/ Tick \/ ToggleHalt
             \/ \E i \in Signals, verdict \in Verdicts : Emit(i, verdict)
             \/ \E r \in Reconcilers : StartReconcile(r)
             \/ \E r \in Reconcilers, o \in Orders : CheckOrderStatus(r, o)
      PROVE  UNCHANGED orders
  BY <1>8 DEF Tick, ToggleHalt, Emit, StartReconcile, CheckOrderStatus, brokerVars
<1>9. ASSUME NEW o \in Orders, OtherScopeSaves(o)
      PROVE  Grows(orders, orders')
  BY <1>0, <1>9, OnlyTheTag DEF OtherScopeSaves, Grows
<1> QED
  BY <1>1, <1>2, <1>3, <1>4, <1>5, <1>6, <1>7, <1>8, <1>9 DEF Next

\* Read against the book after the step, everything that was held is still true.
LEMMA InvKept ==
    ASSUME TypeOK, LedgerInv, Next
    PROVE  /\ \A i \in Signals : RowTruth(orders', i, intents[i])
           /\ \A p \in Processes :
                 /\ \A i \in Signals : RowTruth(orders', i, pending[p][i])
                 /\ \A o \in Orders : ViewTruth(orders', o, view[p][o].st)
                 /\ held[p].st \in {"none", "planned"} /\ held[p].ext = NoOrder
                 /\ CallTruth(orders', pc[p], target[p], call[p])
<1>1. Grows(orders, orders')
  BY BookGrows
<1>2. \A i \in Signals : RowTruth(orders', i, intents[i])
  BY <1>1, RowTruthKept DEF LedgerInv, TypeOK
<1>3. \A p \in Processes : \A i \in Signals : RowTruth(orders', i, pending[p][i])
  BY <1>1, RowTruthKept, PendingRowType DEF LedgerInv
<1>4. \A p \in Processes : \A o \in Orders : ViewTruth(orders', o, view[p][o].st)
  BY <1>1, ViewTruthKept DEF LedgerInv
<1>5. \A p \in Processes : CallTruth(orders', pc[p], target[p], call[p])
  <2>1. \A p \in Processes :
           call[p] \in [slot : Orders \cup {NoOrder}, at : Times, answer : Answers,
                        tries : 0..BuyRetries]
    BY DEF TypeOK
  <2> QED
    BY <1>1, <2>1, CallTruthKept DEF LedgerInv
<1> QED
  BY <1>2, <1>3, <1>4, <1>5 DEF LedgerInv

\* Nothing is claimed of an empty row, an empty view or no call.
LEMMA EmptyTruth ==
    /\ \A book : \A i : RowTruth(book, i, NoRow)
    /\ \A book : \A o \in Orders : ViewTruth(book, o, NoView[o].st)
    /\ \A book, at, signal : at \notin {"sent", "save"} => CallTruth(book, at, signal, NoCall)
BY DEF RowTruth, NoRow, ViewTruth, NoView, CallTruth, NoCall

\* A row takes the state of a true snapshot of an order that is its own.
LEMMA SnapshotTruth ==
    ASSUME NEW book, NEW i \in Signals, NEW o \in Orders, NEW row \in IntentRows,
           NEW status, NEW sub,
           status \in BrokerViews \ {"absent"},
           RowTruth(book, i, row), SentFor(book, i, o),
           status \in {"open", "closed", "cancelled"} => book[o].st \in Accepted,
           status \in {"closed", "cancelled"} => book[o].st = status,
           status = "unknown" => o = row.ext
    PROVE  RowTruth(book, i, [st |-> StateFromBroker(status, row.st), ext |-> o, sub |-> sub])
<1>1. CASE status = "unknown"
  BY <1>1, StateFromBrokerCases DEF RowTruth
<1>2. CASE status # "unknown"
  BY <1>2, StateFromBrokerCases DEF RowTruth, BrokerViews
<1> QED
  BY <1>1, <1>2

\* What a fetch shows of an order is what the book says of it, or the bridge's
\* own guess about an order that was accepted.
LEMMA FetchTruth ==
    ASSUME TypeOK, NEW o \in Orders, NEW status \in FetchViews(o) \ {"absent"}
    PROVE  /\ orders[o].st \in Accepted
           /\ status \in {"closed", "cancelled"} => orders[o].st = status
BY DEF FetchViews, WithoutTelemetry, Accepted

\* Leaving a pass keeps what is claimed of every process.
LEMMA EndPassTruth ==
    ASSUME TypeOK, LedgerInv, Next, NEW p \in Processes, EndPass(p),
           pc[p] \notin {"sent", "save"}, UNCHANGED <<intents, workVars>>
    PROVE  LedgerInv'
<1>1. \A q \in Processes : \A i \in Signals : RowTruth(orders', i, pending'[q][i])
  BY InvKept, EmptyTruth DEF EndPass, TypeOK
<1>2. \A q \in Processes : \A o \in Orders : ViewTruth(orders', o, view'[q][o].st)
  BY InvKept, EmptyTruth DEF EndPass, TypeOK
<1>3. \A q \in Processes : CallTruth(orders', pc'[q], target'[q], call'[q])
  BY InvKept DEF EndPass, AfterPass, TypeOK, CallTruth, workVars
<1> QED
  BY <1>1, <1>2, <1>3, InvKept DEF LedgerInv, workVars

\* No step of a reconcile pass makes the ledger say what the book does not.
LEMMA ReconcileTruth ==
    ASSUME TypeOK, LedgerInv, NEW p \in Processes, Reconcile(p)
    PROVE  LedgerInv'
<1>0. Next
  BY DEF Next
<1>1. CASE ListPending(p)
  <2>1. CASE \E i \in Signals : intents[i].st \in PendingStates
    <3>1. /\ pc' = [pc EXCEPT ![p] = "scan"]
          /\ pending' = [pending EXCEPT ![p] = PendingRows]
          /\ UNCHANGED <<intents, view, workVars>>
      BY <1>1, <2>1 DEF ListPending, ledgerVars
    <3>2. pc[p] = "list"
      BY <1>1 DEF ListPending
    <3>3. \A i \in Signals : RowTruth(orders', i, PendingRows[i])
      BY <1>0, InvKept, EmptyTruth DEF PendingRows
    <3>4. \A q \in Processes : \A i \in Signals : RowTruth(orders', i, pending'[q][i])
      BY <1>0, <3>1, <3>3, InvKept DEF TypeOK
    <3>5. \A q \in Processes : CallTruth(orders', pc'[q], target'[q], call'[q])
      BY <1>0, <3>1, <3>2, InvKept DEF TypeOK, CallTruth, workVars
    <3> QED
      BY <1>0, <3>1, <3>4, <3>5, InvKept DEF LedgerInv, workVars
  <2>2. CASE ~\E i \in Signals : intents[i].st \in PendingStates
    <3>1. EndPass(p)
      BY <1>1, <2>2 DEF ListPending
    <3> QED
      BY <1>0, <1>1, <3>1, EndPassTruth DEF ListPending, ledgerVars
  <2> QED
    BY <2>1, <2>2
<1>2. CASE Scan(p)
  <2>1. PICK v \in ScanResults(since[p] - Lookback) : view' = [view EXCEPT ![p] = v]
    BY <1>2 DEF Scan
  <2>2. \A o \in Orders : v[o].st = "absent" \/ v[o].st \in FetchViews(o) \ {"unknown"}
    BY <2>1, ScanResultsType DEF TypeOK
  <2>3. \A o \in Orders : ViewTruth(orders, o, v[o].st)
    BY <2>2, FetchTruth DEF ViewTruth
  <2>4. orders' = orders /\ UNCHANGED <<intents, pending, workVars>>
    BY <1>2 DEF Scan, brokerVars, ledgerVars
  <2>5. \A q \in Processes : \A o \in Orders : ViewTruth(orders', o, view'[q][o].st)
    BY <1>0, <2>1, <2>3, <2>4, InvKept DEF TypeOK
  <2>6. \A q \in Processes : CallTruth(orders', pc'[q], target'[q], call'[q])
    BY <1>0, <1>2, InvKept DEF Scan, TypeOK, CallTruth, workVars
  <2> QED
    BY <1>0, <2>4, <2>5, <2>6, InvKept DEF LedgerInv, workVars
<1>3. CASE PassRaises(p) \/ OrphanPass(p)
  <2>1. pc[p] \notin {"sent", "save"} /\ EndPass(p) /\ UNCHANGED <<intents, workVars>>
    BY <1>3 DEF PassRaises, OrphanPass, ledgerVars
  <2> QED
    BY <1>0, <2>1, EndPassTruth
<1>4. CASE MatchDone(p)
  <2>1. /\ pc[p] = "match" /\ pc' = [pc EXCEPT ![p] = "orphans"]
        /\ UNCHANGED <<intents, pending, view, workVars>>
    BY <1>4 DEF MatchDone, ledgerVars, passVars
  <2>2. \A q \in Processes : CallTruth(orders', pc'[q], target'[q], call'[q])
    BY <1>0, <2>1, InvKept DEF TypeOK, CallTruth, workVars
  <2> QED
    BY <1>0, <2>1, <2>2, InvKept DEF LedgerInv, workVars
<1>5. ASSUME NEW i \in Signals, NEW row, RowTruth(orders', i, row), Handled(p, i),
             intents' = intents \/ intents' = [intents EXCEPT ![i] = row],
             UNCHANGED <<pc, view, workVars>>
      PROVE  LedgerInv'
  <2>1. \A j \in Signals : RowTruth(orders', j, intents'[j])
    BY <1>0, <1>5, InvKept DEF TypeOK
  <2>2. \A q \in Processes : \A j \in Signals : RowTruth(orders', j, pending'[q][j])
    BY <1>0, <1>5, InvKept, EmptyTruth DEF Handled, TypeOK
  <2> QED
    BY <1>0, <1>5, <2>1, <2>2, InvKept DEF LedgerInv, workVars
<1>6. ASSUME NEW i \in Signals, NEW o \in Orders, NEW status \in BrokerViews \ {"absent"},
             ApplySnapshot(p, i, o, status), SentFor(orders', i, o),
             status \in {"open", "closed", "cancelled"} => orders'[o].st \in Accepted,
             status \in {"closed", "cancelled"} => orders'[o].st = status,
             status = "unknown" => o = pending[p][i].ext,
             UNCHANGED <<pc, view, workVars>>
      PROVE  LedgerInv'
  <2> DEFINE row == pending[p][i]
             sub == IF row.sub # NoTime THEN row.sub ELSE orders[o].opened
             new == [st |-> StateFromBroker(status, row.st), ext |-> o, sub |-> sub]
  <2>1. intents' = [intents EXCEPT ![i] = new] /\ Handled(p, i)
    BY <1>6 DEF ApplySnapshot
  <2>2. row \in IntentRows /\ RowTruth(orders', i, row)
    BY <1>0, PendingRowType, InvKept
  <2>3. RowTruth(orders', i, new)
    BY <1>6, <2>2, SnapshotTruth
  <2> QED
    BY <1>5, <1>6, <2>1, <2>3
<1>7. ASSUME NEW i \in Signals, MatchById(p, i)
      PROVE  LedgerInv'
  <2>1. PICK status \in LookupViews(pending[p][i]) \ {"absent"} :
            ApplySnapshot(p, i, pending[p][i].ext, status)
    BY <1>7 DEF MatchById
  <2> DEFINE o == pending[p][i].ext
  <2>2. o \in Orders /\ status \in FetchViews(o)
    BY <2>1, PendingRowType DEF LookupViews, IntentRows
  <2>3. status \in BrokerViews
    BY <2>2, FetchViewsType DEF TypeOK
  <2>4. /\ orders' = orders
        /\ UNCHANGED <<pc, view, workVars>>
    BY <1>7 DEF MatchById, brokerVars
  <2>5. /\ orders[o].st \in Accepted
        /\ status \in {"closed", "cancelled"} => orders[o].st = status
    BY <2>1, <2>2, FetchTruth
  <2>6. SentFor(orders', i, o)
    BY <1>0, <2>2, InvKept DEF RowTruth
  <2> HIDE DEF o
  <2> QED
    BY <1>6, <2>1, <2>2, <2>3, <2>4, <2>5, <2>6 DEF o
<1>8. ASSUME NEW i \in Signals, MatchByScan(p, i)
      PROVE  LedgerInv'
  <2>1. PICK o \in Orders : /\ ScanCandidates(p, i) = {o}
                            /\ ApplySnapshot(p, i, o, view[p][o].st)
    BY <1>8 DEF MatchByScan
  <2>2. o \in Seen(p) /\ (orders[o].for = i \/ <<i, orders[o].for>> \in Lookalikes)
    BY <2>1 DEF ScanCandidates, Fingerprint
  <2>3. /\ orders' = orders
        /\ UNCHANGED <<pc, view, workVars>>
    BY <1>8 DEF MatchByScan, brokerVars
  <2>4. ViewTruth(orders, o, view[p][o].st)
    BY DEF LedgerInv
  <2>5. view[p][o].st \in BrokerViews \ {"absent"}
    <3>1. view[p] \in [Orders -> [st : BrokerViews, keyed : BOOLEAN]]
      BY DEF TypeOK
    <3> QED
      BY <2>2, <3>1 DEF Seen
  <2>6. SentFor(orders', i, o)
    BY <2>2, <2>3, <2>4, <2>5 DEF SentFor, ViewTruth, Accepted
  <2> QED
    BY <1>6, <2>1, <2>3, <2>4, <2>5, <2>6 DEF ViewTruth
<1>9. ASSUME NEW i \in Signals,
             MatchAmbiguous(p, i) \/ MatchNone(p, i) \/ MatchRaises(p, i)
      PROVE  LedgerInv'
  <2>1. \A s \in {"ambiguous", "expired_unsubmitted", "expired_unconfirmed"} :
           RowTruth(orders', i, RowIn(pending[p][i], s))
    BY <1>0, InvKept DEF RowIn, RowTruth
  <2>2. Handled(p, i) /\ UNCHANGED <<pc, view, workVars>>
    BY <1>9 DEF MatchAmbiguous, MatchNone, MatchRaises
  <2>3. \/ intents' = intents
        \/ \E s \in {"ambiguous", "expired_unsubmitted", "expired_unconfirmed"} :
              intents' = [intents EXCEPT ![i] = RowIn(pending[p][i], s)]
    BY <1>9 DEF MatchAmbiguous, MatchNone, MatchRaises, ledgerVars
  <2> QED
    BY <1>0, <1>5, <2>1, <2>2, <2>3, InvKept
<1> QED
  BY <1>1, <1>2, <1>3, <1>4, <1>7, <1>8, <1>9 DEF Reconcile

\* A worker's run may end by writing any row that is true of its signal.
LEMMA FinishTruth ==
    ASSUME TypeOK, LedgerInv, Next, NEW w \in Workers, Finish(w),
           NEW row, RowTruth(orders', target[w], row),
           intents' = intents \/ intents' = [intents EXCEPT ![target[w]] = row]
    PROVE  LedgerInv'
<1>0. w \in Processes
  BY DEF Processes
<1>1. \A i \in Signals : RowTruth(orders', i, intents'[i])
  BY InvKept DEF TypeOK
<1>2. /\ UNCHANGED <<pending, view>>
      /\ \A q \in Processes : held'[q].st \in {"none", "planned"} /\ held'[q].ext = NoOrder
  BY <1>0, InvKept DEF Finish, TypeOK, NoRow
<1>3. \A q \in Processes : CallTruth(orders', pc'[q], target'[q], call'[q])
  <2>1. /\ pc' = [pc EXCEPT ![w] = "list"]
        /\ target' = [target EXCEPT ![w] = 0]
        /\ call' = [call EXCEPT ![w] = NoCall]
    BY DEF Finish
  <2>2. CallTruth(orders', "list", 0, NoCall)
    BY EmptyTruth
  <2> QED
    BY <1>0, <2>1, <2>2, InvKept DEF TypeOK
<1> QED
  BY <1>1, <1>2, <1>3, InvKept DEF LedgerInv

\* No step of a worker makes the ledger say what the book does not.
LEMMA WorkTruth ==
    ASSUME TypeOK, LedgerInv, NEW w \in Workers, Work(w)
    PROVE  LedgerInv'
<1>0. Next /\ w \in Processes
  BY DEF Next, Processes
<1>1. held[w].st \in {"none", "planned"} /\ held[w].ext = NoOrder
  BY <1>0 DEF LedgerInv
<1>2. ASSUME pc'[w] \notin {"sent", "save"}, pc[w] \notin {"sent", "save"},
             UNCHANGED call,
             \A q \in Processes : q # w => pc'[q] = pc[q] /\ target'[q] = target[q]
      PROVE  \A q \in Processes : CallTruth(orders', pc'[q], target'[q], call'[q])
  BY <1>0, <1>2, InvKept DEF TypeOK, CallTruth
<1>3. CASE StartWorker(w) \/ GatePass(w)
  <2>1. PICK at \in {"list", "submit"} :
          /\ pc' = [pc EXCEPT ![w] = at] /\ pc[w] \notin {"sent", "save"}
          /\ UNCHANGED <<intents, pending, view, target, held, call>>
    BY <1>3 DEF StartWorker, GatePass, ledgerVars, passVars, workVars
  <2> QED
    BY <1>0, <1>2, <2>1, InvKept DEF LedgerInv
<1>4. CASE PickSignal(w)
  <2>1. PICK i \in Signals \cup {0} :
          IF i = 0 \/ ~Submittable(i)
             THEN Finish(w)
             ELSE /\ target' = [target EXCEPT ![w] = i]
                  /\ held' = [held EXCEPT ![w] = intents[i]]
                  /\ pc' = [pc EXCEPT ![w] = IF intents[i].st = "none"
                                             THEN "insert" ELSE "gate"]
                  /\ UNCHANGED <<sampled, call, passVars>>
    BY <1>4 DEF PickSignal
  <2>2. pc[w] = "pick" /\ intents' = intents
    BY <1>4 DEF PickSignal, ledgerVars
  <2>3. CASE i = 0 \/ ~Submittable(i)
    BY <1>0, <2>1, <2>2, <2>3, FinishTruth, EmptyTruth
  <2>4. CASE ~(i = 0 \/ ~Submittable(i))
    <3>1. /\ target' = [target EXCEPT ![w] = i]
          /\ held' = [held EXCEPT ![w] = intents[i]]
          /\ pc' = [pc EXCEPT ![w] = IF intents[i].st = "none" THEN "insert" ELSE "gate"]
          /\ UNCHANGED <<call, pending, view>>
      BY <2>1, <2>4 DEF passVars
    <3>2. intents[i].ext = NoOrder /\ intents[i].st \in {"none", "planned"}
      BY <2>4 DEF LedgerInv, RowTruth, Submittable
    <3>3. \A q \in Processes : held'[q].st \in {"none", "planned"} /\ held'[q].ext = NoOrder
      BY <1>0, <3>1, <3>2, InvKept DEF TypeOK
    <3>4. \A q \in Processes : CallTruth(orders', pc'[q], target'[q], call'[q])
      BY <1>2, <2>2, <3>1 DEF TypeOK
    <3> QED
      BY <1>0, <2>2, <3>1, <3>3, <3>4, InvKept DEF LedgerInv
  <2> QED
    BY <2>3, <2>4
<1>5. CASE InsertIntent(w)
  <2> DEFINE row == RowIn(NoRow, "planned")
  <2>1. /\ intents' = [intents EXCEPT ![target[w]] = row]
        /\ held' = [held EXCEPT ![w] = row]
        /\ pc' = [pc EXCEPT ![w] = "gate"] /\ pc[w] = "insert"
        /\ UNCHANGED <<pending, view, target, call>>
    BY <1>5 DEF InsertIntent, passVars
  <2>2. row.st = "planned" /\ row.ext = NoOrder
    BY DEF RowIn, NoRow
  <2>3. \A i \in Signals : RowTruth(orders', i, row)
    BY <2>2 DEF RowTruth
  <2> HIDE DEF row
  <2>4. \A i \in Signals : RowTruth(orders', i, intents'[i])
    BY <1>0, <2>1, <2>3, InvKept DEF TypeOK
  <2>5. \A q \in Processes : held'[q].st \in {"none", "planned"} /\ held'[q].ext = NoOrder
    BY <1>0, <2>1, <2>2, InvKept DEF TypeOK
  <2>6. \A q \in Processes : CallTruth(orders', pc'[q], target'[q], call'[q])
    BY <1>2, <2>1
  <2> QED
    BY <1>0, <2>1, <2>4, <2>5, <2>6, InvKept DEF LedgerInv
<1>6. CASE GateBlocked(w)
  <2>1. RowTruth(orders', target[w], held[w])
    BY <1>1 DEF RowTruth
  <2> QED
    BY <1>0, <1>6, <2>1, FinishTruth DEF GateBlocked
<1>7. CASE DeadlinePassed(w)
  <2>1. RowTruth(orders', target[w], RowIn(held[w], "expired_unsubmitted"))
    BY <1>1 DEF RowTruth, RowIn
  <2> QED
    BY <1>0, <1>7, <2>1, FinishTruth DEF DeadlinePassed
<1>8. CASE CallBroker(w) \/ BuyAgain(w)
  <2>0. PICK n \in 1..BuyRetries : SendRequest(w, n)
    BY <1>8, RequestNumber
  <2> DEFINE asked(o) == [slot |-> o, at |-> IF n = 1 THEN now ELSE call[w].at,
                          answer |-> "none", tries |-> n]
  <2>1. PICK o \in Orders :
          /\ orders' = [orders EXCEPT ![o] =
                [st |-> "inflight", for |-> target[w], tagged |-> FALSE, opened |-> 0]]
          /\ call' = [call EXCEPT ![w] = asked(o)]
    BY <2>0 DEF SendRequest
  <2>2. /\ pc' = [pc EXCEPT ![w] = "sent"]
        /\ UNCHANGED <<intents, pending, view, target, held>>
    BY <2>0 DEF SendRequest, ledgerVars, passVars
  <2>3. CallTruth(orders', "sent", target[w], asked(o))
    BY <2>1 DEF CallTruth, TypeOK
  <2>4. \A q \in Processes : CallTruth(orders', pc'[q], target'[q], call'[q])
    BY <1>0, <2>1, <2>2, <2>3, InvKept DEF TypeOK
  <2> QED
    BY <1>0, <2>2, <2>4, InvKept DEF LedgerInv
<1>9. CASE SubmitReturns(w)
  <2> DEFINE o == call[w].slot
  <2>1. PICK answer \in {"ack", "reject", "unknown"} :
          /\ answer = "ack" => orders[o].st \in Accepted
          /\ call' = [call EXCEPT ![w] =
                [slot |-> o, at |-> call[w].at, answer |-> answer, tries |-> 0]]
    BY <1>9 DEF SubmitReturns
  <2>2. /\ pc[w] = "sent" /\ pc' = [pc EXCEPT ![w] = "save"]
        /\ UNCHANGED <<intents, pending, view, target, held>>
    BY <1>9 DEF SubmitReturns, ledgerVars, passVars
  <2>3. CallTruth(orders', "sent", target[w], call[w])
    BY <1>0, <2>2, InvKept
  <2>4. answer = "ack" => orders'[o].st \in Accepted
    <3>1. o \in Orders
      BY <1>0, <2>3 DEF CallTruth, TypeOK
    <3> QED
      BY <1>0, <2>1, <3>1, BookGrows DEF Grows
  <2>5. CallTruth(orders', "save", target[w],
                  [slot |-> o, at |-> call[w].at, answer |-> answer, tries |-> 0])
    BY <2>3, <2>4 DEF CallTruth
  <2>6. \A q \in Processes : CallTruth(orders', pc'[q], target'[q], call'[q])
    BY <1>0, <2>1, <2>2, <2>5, InvKept DEF TypeOK
  <2> QED
    BY <1>0, <2>2, <2>6, InvKept DEF LedgerInv
<1>10. CASE SaveResult(w)
  <2> DEFINE ext == IF call[w].answer = "ack" THEN call[w].slot ELSE held[w].ext
             sub == IF held[w].sub # NoTime THEN held[w].sub ELSE call[w].at
             new == [st |-> StateFromTransport(call[w].answer), ext |-> ext, sub |-> sub]
  <2>1. Finish(w) /\ intents' = [intents EXCEPT ![target[w]] = new]
    BY <1>10 DEF SaveResult
  <2>2. CallTruth(orders', pc[w], target[w], call[w])
    BY <1>0, InvKept
  <2>3. CASE call[w].answer = "ack"
    <3>1. /\ call[w].slot \in Orders /\ orders'[call[w].slot].st \in Accepted
          /\ SentFor(orders', target[w], call[w].slot)
      BY <1>0, <2>2, <2>3 DEF CallTruth, SentFor, TypeOK
    <3>2. new.st = "accepted_open" /\ new.ext = call[w].slot
      BY <2>3, StateFromTransportCases
    <3> HIDE DEF new
    <3> QED
      BY <1>0, <2>1, <3>1, <3>2, FinishTruth DEF RowTruth
  <2>4. CASE call[w].answer # "ack"
    <3>1. new.st \in {"rejected", "submitted_unknown"} /\ new.ext = NoOrder
      BY <1>1, <2>4, StateFromTransportCases
    <3> HIDE DEF new
    <3> QED
      BY <1>0, <2>1, <3>1, FinishTruth DEF RowTruth
  <2> QED
    BY <2>3, <2>4
<1> QED
  BY <1>3, <1>4, <1>5, <1>6, <1>7, <1>8, <1>9, <1>10 DEF Work

\* Nor does a step of the environment, of a command or of the killer.
LEMMA OtherTruth ==
    ASSUME TypeOK, LedgerInv,
           \/ Tick \/ ToggleHalt
           \/ \E i \in Signals, verdict \in Verdicts : Emit(i, verdict)
           \/ \E o \in Orders : Broker(o) \/ OtherScopeSaves(o)
           \/ \E r \in Reconcilers : StartReconcile(r)
           \/ \E r \in Reconcilers, o \in Orders : CheckOrderStatus(r, o)
           \/ \E p \in Processes : Crash(p)
    PROVE  LedgerInv'
<1>0. Next
  BY DEF Next
<1>1. CASE \/ Tick \/ ToggleHalt
           \/ \E i \in Signals, verdict \in Verdicts : Emit(i, verdict)
           \/ \E o \in Orders : Broker(o) \/ OtherScopeSaves(o)
           \/ \E r \in Reconcilers, o \in Orders : CheckOrderStatus(r, o)
  <2>1. UNCHANGED <<intents, pc, pending, view, target, held, call>>
    BY <1>1 DEF Tick, ToggleHalt, Emit, Broker, OtherScopeSaves, CheckOrderStatus,
         ledgerVars, passVars, workVars
  <2> QED
    BY <1>0, <2>1, InvKept DEF LedgerInv
<1>2. ASSUME NEW r \in Reconcilers, StartReconcile(r)
      PROVE  LedgerInv'
  <2>1. /\ pc[r] = "idle" /\ pc' = [pc EXCEPT ![r] = "list"]
        /\ UNCHANGED <<intents, pending, view, target, held, call>>
    BY <1>2 DEF StartReconcile, ledgerVars, workVars
  <2>2. \A q \in Processes : CallTruth(orders', pc'[q], target'[q], call'[q])
    BY <1>0, <2>1, InvKept DEF TypeOK, CallTruth
  <2> QED
    BY <1>0, <2>1, <2>2, InvKept DEF LedgerInv
<1>3. ASSUME NEW p \in Processes, Crash(p)
      PROVE  LedgerInv'
  <2>1. /\ pc' = [pc EXCEPT ![p] = "idle"]
        /\ pending' = [pending EXCEPT ![p] = [i \in Signals |-> NoRow]]
        /\ view' = [view EXCEPT ![p] = NoView]
        /\ target' = [target EXCEPT ![p] = 0]
        /\ held' = [held EXCEPT ![p] = NoRow]
        /\ call' = [call EXCEPT ![p] = NoCall]
        /\ intents' = intents
    BY <1>3 DEF Crash, ledgerVars
  <2>2. \A q \in Processes : \A i \in Signals : RowTruth(orders', i, pending'[q][i])
    BY <1>0, <2>1, InvKept, EmptyTruth DEF TypeOK
  <2>3. \A q \in Processes : \A o \in Orders : ViewTruth(orders', o, view'[q][o].st)
    BY <1>0, <2>1, InvKept, EmptyTruth DEF TypeOK
  <2>4. \A q \in Processes : held'[q].st \in {"none", "planned"} /\ held'[q].ext = NoOrder
    BY <1>0, <2>1, InvKept DEF TypeOK, NoRow
  <2>5. CallTruth(orders', "idle", 0, NoCall)
    BY EmptyTruth
  <2>6. \A q \in Processes : CallTruth(orders', pc'[q], target'[q], call'[q])
    BY <1>0, <2>1, <2>5, InvKept DEF TypeOK
  <2> QED
    BY <1>0, <2>1, <2>2, <2>3, <2>4, <2>6, InvKept DEF LedgerInv
<1> QED
  BY <1>1, <1>2, <1>3

\* The strengthening holds at the start: nothing is held and nothing was sent.
LEMMA InitTruth == Init => LedgerInv
<1> SUFFICES ASSUME Init PROVE LedgerInv
  OBVIOUS
<1>1. /\ \A i \in Signals : intents[i] = NoRow
      /\ \A p \in Processes : /\ \A i \in Signals : pending[p][i] = NoRow
                             /\ view[p] = NoView /\ held[p] = NoRow
                             /\ pc[p] = "idle" /\ call[p] = NoCall
  BY DEF Init
<1>2. \A p \in Processes : CallTruth(orders, pc[p], target[p], call[p])
  BY <1>1, EmptyTruth
<1>3. NoRow.st = "none" /\ NoRow.ext = NoOrder
  BY DEF NoRow
<1> QED
  BY <1>1, <1>2, <1>3, EmptyTruth DEF LedgerInv

\* Every row, snapshot and answer in hand is borne out by the broker's book,
\* in every interleaving of any number of workers, commands and kills.
THEOREM LedgerIsTrue == Spec => []LedgerInv
<1>1. Init => LedgerInv
  BY InitTruth
<1>2. TypeOK /\ LedgerInv /\ [Next]_vars => LedgerInv'
  <2> SUFFICES ASSUME TypeOK, LedgerInv, [Next]_vars PROVE LedgerInv'
    OBVIOUS
  <2>1. CASE Next
    BY <2>1, ReconcileTruth, WorkTruth, OtherTruth DEF Next
  <2>2. CASE UNCHANGED vars
    BY <2>2 DEF vars, LedgerInv, brokerVars, ledgerVars, passVars, workVars
  <2> QED
    BY <2>1, <2>2
<1> QED
  BY <1>1, <1>2, TypeCorrect, PTL DEF Spec

\* What the ledger records of a signal is what the broker did with its order:
\* settled names a closed order, open an accepted one, rejected a cancelled one.
THEOREM LedgerAgreesWithBroker == Spec => []BrokerTruth
<1>1. LedgerInv => BrokerTruth
  BY DEF LedgerInv, BrokerTruth, IntentTruth, RowTruth
<1> QED
  BY <1>1, LedgerIsTrue, PTL

\* An intent never names an order of another signal that its fingerprint can
\* be told from.
THEOREM IntentNamesOwnOrder == Spec => []OwnOrder
<1>1. LedgerInv => OwnOrder
  BY DEF LedgerInv, OwnOrder, RowTruth, SentFor
<1> QED
  BY <1>1, LedgerIsTrue, PTL

-----------------------------------------------------------------------------
(* Write-offs.                                                             *)

\* The bridge's settle grace for an order is over.
Lapsed(o) == Due(Expiry(orders[o].for) + SettleGrace)

\* A pass holds rows that were pending when it read them, and a snapshot says "not
\* found" only of an order whose grace is over.
GiveUpInv ==
    \A p \in Processes :
        /\ \A i \in Signals : pending[p][i].st \in PendingStates \cup {"none"}
        /\ \A o \in Orders : view[p][o].st = "not_found" => Lapsed(o)

\* The lookup of a recorded order that the broker has accepted always answers, and
\* says "not found" only when the bridge has given the order up.
LEMMA RecordedIsFound ==
    ASSUME TypeOK, NEW o \in Orders, orders[o].tagged, orders[o].st \in Accepted
    PROVE  /\ "absent" \notin FetchViews(o)
           /\ "not_found" \in FetchViews(o) => Due(Expiry(orders[o].for) + SettleGrace)
BY DEF FetchViews, WithoutTelemetry, Accepted

\* Whatever is fetched as not found has lapsed.
LEMMA NotFoundIsLapsed ==
    ASSUME TypeOK, NEW o \in Orders, "not_found" \in FetchViews(o)
    PROVE  orders[o].st \in Accepted /\ Lapsed(o)
BY DEF FetchViews, WithoutTelemetry, Accepted, Lapsed, TypeOK, OrderRecords

\* The clock stands or ticks.
LEMMA ClockRuns ==
    ASSUME Next
    PROVE  now' = now \/ (now < MaxTime /\ now' = now + 1)
<1>1. CASE Tick
  BY <1>1 DEF Tick
<1>2. ASSUME NEW p \in Processes, Reconcile(p) \/ Crash(p)
      PROVE  now' = now
  BY <1>2 DEF Reconcile, ListPending, Scan, PassRaises, MatchDone, OrphanPass, MatchById,
     MatchByScan, MatchAmbiguous, MatchNone, MatchRaises, Crash
<1>3. ASSUME NEW w \in Workers, Work(w)
      PROVE  now' = now
  BY <1>3 DEF Work, StartWorker, PickSignal, InsertIntent, GateBlocked, DeadlinePassed,
     GatePass, CallBroker, BuyAgain, SendRequest, SubmitReturns, SaveResult
<1>4. CASE \/ ToggleHalt
           \/ \E i \in Signals, verdict \in Verdicts : Emit(i, verdict)
           \/ \E o \in Orders : Broker(o) \/ OtherScopeSaves(o)
           \/ \E r \in Reconcilers : StartReconcile(r)
           \/ \E r \in Reconcilers, o \in Orders : CheckOrderStatus(r, o)
  BY <1>4 DEF ToggleHalt, Emit, Broker, OtherScopeSaves, StartReconcile, CheckOrderStatus
<1> QED
  BY <1>1, <1>2, <1>3, <1>4 DEF Next

\* What has lapsed for an accepted order has lapsed for good.
LEMMA LapsedStays ==
    ASSUME TypeOK, LedgerInv, Next, NEW o \in Orders, orders[o].st \in Accepted, Lapsed(o)
    PROVE  Lapsed(o)'
<1>1. orders'[o].for = orders[o].for
  BY BookGrows DEF Grows, Accepted
<1>2. orders[o].for \in Nat /\ now \in Nat /\ MaxTime \in Nat /\ now <= MaxTime
  BY BrokerAssumption DEF TypeOK, OrderRecords
<1>3. PICK t \in Int : t = Expiry(orders[o].for) + SettleGrace
  BY <1>2, BrokerAssumption DEF Expiry, Ts
<1>4. t = Expiry(orders'[o].for) + SettleGrace
  BY <1>1, <1>3
<1>5. now >= t \/ now = MaxTime
  BY <1>3 DEF Lapsed, Due
<1>6. now' >= t \/ now' = MaxTime
  BY <1>2, <1>5, ClockRuns
<1> QED
  BY <1>4, <1>6 DEF Lapsed, Due

\* Where the rows and the snapshots in hand come from.
LEMMA HandComesFrom ==
    ASSUME TypeOK, Next, NEW q \in Processes
    PROVE  /\ \A i \in Signals :
                 \/ pending'[q][i] \in {pending[q][i], NoRow}
                 \/ pending'[q][i] = intents[i] /\ intents[i].st \in PendingStates
           /\ \A o \in Orders :
                 \/ view'[q][o] = view[q][o] \/ view'[q][o].st = "absent"
                 \/ view'[q][o].st \in FetchViews(o)
<1> DEFINE Goal == /\ \A i \in Signals :
                         \/ pending'[q][i] \in {pending[q][i], NoRow}
                         \/ pending'[q][i] = intents[i] /\ intents[i].st \in PendingStates
                   /\ \A o \in Orders :
                         \/ view'[q][o] = view[q][o] \/ view'[q][o].st = "absent"
                         \/ view'[q][o].st \in FetchViews(o)
<1>1. ASSUME UNCHANGED <<pending, view>> PROVE Goal
  BY <1>1
<1>2. ASSUME NEW p \in Processes,
             pending' = [pending EXCEPT ![p] = [i \in Signals |-> NoRow]],
             view' = [view EXCEPT ![p] = NoView]
      PROVE  Goal
  BY <1>2 DEF TypeOK, NoView
<1>3. ASSUME NEW p \in Processes, ListPending(p) PROVE Goal
  <2>1. CASE \E i \in Signals : intents[i].st \in PendingStates
    <3>1. pending' = [pending EXCEPT ![p] = PendingRows] /\ view' = view
      BY <1>3, <2>1 DEF ListPending
    <3>2. \A i \in Signals : pending'[q][i] \in {pending[q][i], PendingRows[i]}
      BY <3>1 DEF TypeOK
    <3> QED
      BY <3>1, <3>2 DEF PendingRows
  <2>2. CASE ~\E i \in Signals : intents[i].st \in PendingStates
    BY <1>2, <1>3, <2>2 DEF ListPending, EndPass
  <2> QED
    BY <2>1, <2>2
<1>4. ASSUME NEW p \in Processes, Scan(p) PROVE Goal
  <2>1. PICK v \in ScanResults(since[p] - Lookback) : view' = [view EXCEPT ![p] = v]
    BY <1>4 DEF Scan
  <2>2. pending' = pending
    BY <1>4 DEF Scan
  <2>3. \A o \in Orders : v[o].st = "absent" \/ v[o].st \in FetchViews(o)
    BY <2>1, ScanResultsType DEF TypeOK
  <2>4. view'[q] \in {view[q], v}
    BY <2>1 DEF TypeOK
  <2> QED
    BY <2>2, <2>3, <2>4
<1>5. ASSUME NEW p \in Processes, NEW i \in Signals, Handled(p, i), view' = view
      PROVE  Goal
  BY <1>5 DEF Handled, TypeOK
<1>6. ASSUME NEW p \in Processes, Reconcile(p) PROVE Goal
  <2>1. CASE PassRaises(p) \/ OrphanPass(p)
    BY <1>2, <1>6, <2>1 DEF PassRaises, OrphanPass, EndPass
  <2>2. CASE MatchDone(p)
    BY <1>1, <2>2 DEF MatchDone, passVars
  <2>3. ASSUME NEW i \in Signals, \/ MatchById(p, i) \/ MatchByScan(p, i)
                                  \/ MatchAmbiguous(p, i) \/ MatchNone(p, i)
                                  \/ MatchRaises(p, i)
        PROVE  Goal
    BY <1>5, <2>3 DEF MatchById, MatchByScan, MatchAmbiguous, MatchNone, MatchRaises,
       ApplySnapshot
  <2> QED
    BY <1>3, <1>4, <1>6, <2>1, <2>2, <2>3 DEF Reconcile
<1>7. ASSUME NEW p \in Processes, Crash(p) PROVE Goal
  BY <1>2, <1>7 DEF Crash
<1>8. ASSUME NEW w \in Workers, Work(w) PROVE Goal
  BY <1>1, <1>8 DEF Work, StartWorker, PickSignal, InsertIntent, GateBlocked,
     DeadlinePassed, GatePass, CallBroker, BuyAgain, SendRequest, SubmitReturns,
     SaveResult, Finish, passVars
<1>9. CASE \/ Tick \/ ToggleHalt
           \/ \E i \in Signals, verdict \in Verdicts : Emit(i, verdict)
           \/ \E o \in Orders : Broker(o) \/ OtherScopeSaves(o)
           \/ \E r \in Reconcilers : StartReconcile(r)
           \/ \E r \in Reconcilers, o \in Orders : CheckOrderStatus(r, o)
  BY <1>1, <1>9 DEF Tick, ToggleHalt, Emit, Broker, OtherScopeSaves, StartReconcile,
     CheckOrderStatus, passVars
<1> QED
  BY <1>6, <1>7, <1>8, <1>9 DEF Next

LEMMA GiveUpStep ==
    ASSUME TypeOK, LedgerInv, GiveUpInv, [Next]_vars
    PROVE  GiveUpInv'
<1>1. CASE UNCHANGED vars
  BY <1>1 DEF GiveUpInv, Lapsed, Due, vars, brokerVars, passVars
<1>2. CASE Next
  <2>1. ASSUME NEW p \in Processes, NEW i \in Signals
        PROVE  pending'[p][i].st \in PendingStates \cup {"none"}
    BY <1>2, HandComesFrom DEF GiveUpInv, NoRow
  <2>2. ASSUME NEW p \in Processes, NEW o \in Orders, view'[p][o].st = "not_found"
        PROVE  Lapsed(o)'
    <3>1. \/ view[p][o].st = "not_found"
          \/ "not_found" \in FetchViews(o)
      BY <1>2, <2>2, HandComesFrom
    <3>2. CASE view[p][o].st = "not_found"
      <4>1. orders[o].st \in Accepted /\ Lapsed(o)
        BY <3>2 DEF LedgerInv, ViewTruth, GiveUpInv
      <4> QED
        BY <1>2, <4>1, LapsedStays
    <3>3. CASE "not_found" \in FetchViews(o)
      BY <1>2, <3>3, NotFoundIsLapsed, LapsedStays
    <3> QED
      BY <3>1, <3>2, <3>3
  <2> QED
    BY <2>1, <2>2 DEF GiveUpInv
<1> QED
  BY <1>1, <1>2

\* A row is written as given up only by a pass, and with an order only if the order
\* is off the record or its grace is over.
LEMMA GivenUpWhenLapsed ==
    ASSUME TypeOK, LedgerInv, GiveUpInv, [Next]_vars, NEW i \in Signals,
           intents'[i].st = "expired_unconfirmed", intents'[i] # intents[i],
           intents'[i].ext # NoOrder, orders[intents'[i].ext].tagged
    PROVE  Lapsed(intents'[i].ext)
<1> DEFINE o == intents'[i].ext
<1>0. /\ intents \in [Signals -> IntentRows]
      /\ \A row, s : RowIn(row, s).st = s /\ RowIn(row, s).ext = row.ext
  BY DEF TypeOK, RowIn
<1>1. ASSUME NEW p \in Processes, NEW j \in Signals, NEW q \in Orders,
             NEW status \in BrokerViews \ {"absent"}, ApplySnapshot(p, j, q, status),
             pending[p][j].st # "none", status = "not_found" => Lapsed(q)
      PROVE  Lapsed(o)
  <2> DEFINE row == pending[p][j]
             sub == IF row.sub # NoTime THEN row.sub ELSE orders[q].opened
             new == [st |-> StateFromBroker(status, row.st), ext |-> q, sub |-> sub]
  <2>1. intents' = [intents EXCEPT ![j] = new]
    BY <1>1 DEF ApplySnapshot
  <2>2. new.st = StateFromBroker(status, row.st) /\ new.ext = q
    OBVIOUS
  <2> HIDE DEF new
  <2>3. j = i /\ o = q /\ StateFromBroker(status, row.st) = "expired_unconfirmed"
    BY <1>0, <2>1, <2>2
  <2>4. row.st \in PendingStates
    BY <1>1 DEF GiveUpInv
  <2>5. status = "not_found"
    BY <2>3, <2>4, StateFromBrokerCases DEF BrokerViews, PendingStates
  <2> QED
    BY <1>1, <2>3, <2>5
<1>2. ASSUME NEW p \in Processes, NEW j \in Signals, MatchById(p, j)
      PROVE  Lapsed(o)
  <2>1. PICK status \in LookupViews(pending[p][j]) \ {"absent"} :
           ApplySnapshot(p, j, pending[p][j].ext, status)
    BY <1>2 DEF MatchById
  <2>2. /\ pending[p][j].ext \in Orders
        /\ status \in FetchViews(pending[p][j].ext) \ {"absent"}
    BY <2>1, PendingRowType DEF LookupViews, IntentRows
  <2>3. PICK q \in Orders : q = pending[p][j].ext
    BY <2>2
  <2>4. status \in BrokerViews \ {"absent"}
    BY <2>2, FetchViewsType DEF TypeOK
  <2>5. pending[p][j].st # "none"
    BY <1>2 DEF MatchById, Current, Todo
  <2>6. status = "not_found" => Lapsed(q)
    BY <2>2, <2>3, NotFoundIsLapsed
  <2>7. ApplySnapshot(p, j, q, status)
    BY <2>1, <2>3
  <2> QED
    BY <1>1, <2>4, <2>5, <2>6, <2>7
<1>3. ASSUME NEW p \in Processes, NEW j \in Signals, MatchByScan(p, j)
      PROVE  Lapsed(o)
  <2>1. PICK q \in Orders : /\ ScanCandidates(p, j) = {q}
                            /\ ApplySnapshot(p, j, q, view[p][q].st)
    BY <1>3 DEF MatchByScan
  <2>2. q \in Seen(p)
    BY <2>1 DEF ScanCandidates
  <2>3. view[p] \in [Orders -> [st : BrokerViews, keyed : BOOLEAN]]
    BY DEF TypeOK
  <2>4. view[p][q].st \in BrokerViews \ {"absent"}
    BY <2>2, <2>3 DEF Seen
  <2>5. pending[p][j].st # "none"
    BY <1>3 DEF MatchByScan, Current, Todo
  <2>6. view[p][q].st = "not_found" => Lapsed(q)
    BY DEF GiveUpInv
  <2> QED
    BY <1>1, <2>1, <2>4, <2>5, <2>6
<1>4. ASSUME NEW p \in Processes, NEW j \in Signals, MatchNone(p, j)
      PROVE  FALSE
  <2> DEFINE row == pending[p][j]
  <2>1. /\ "absent" \in LookupViews(row)
        /\ \/ intents' = [intents EXCEPT ![j] = RowIn(row, "expired_unsubmitted")]
           \/ /\ row.st \in {"submitted_unknown", "accepted_open"}
              /\ intents' = [intents EXCEPT ![j] = RowIn(row, "expired_unconfirmed")]
           \/ UNCHANGED intents
    BY <1>4 DEF MatchNone
  <2>2. /\ row.st \in {"submitted_unknown", "accepted_open"}
        /\ intents'[i] = RowIn(row, "expired_unconfirmed") /\ j = i
    <3>1. RowIn(row, "expired_unsubmitted").st # "expired_unconfirmed"
      BY <1>0
    <3> QED
      BY <1>0, <2>1, <3>1
  <2>3. row.ext = o
    BY <1>0, <2>2
  <2>4. row.ext # NoOrder
    BY <2>3
  <2>5. row.st = "accepted_open" /\ row.ext \in Orders /\ orders[row.ext].st \in Accepted
    BY <2>2, <2>4 DEF LedgerInv, RowTruth
  <2>6. "absent" \in FetchViews(row.ext)
    BY <2>1, <2>4 DEF LookupViews
  <2> QED
    BY <2>3, <2>5, <2>6, RecordedIsFound
<1>5. ASSUME NEW p \in Processes, NEW j \in Signals, MatchAmbiguous(p, j) \/ MatchRaises(p, j)
      PROVE  FALSE
  <2>1. \/ intents' = [intents EXCEPT ![j] = RowIn(pending[p][j], "ambiguous")]
        \/ UNCHANGED intents
    BY <1>5 DEF MatchAmbiguous, MatchRaises, ledgerVars
  <2>2. RowIn(pending[p][j], "ambiguous").st # "expired_unconfirmed"
    BY <1>0
  <2> QED
    BY <1>0, <2>1, <2>2
<1>6. ASSUME NEW w \in Workers, Work(w)
      PROVE  FALSE
  <2>1. CASE InsertIntent(w) \/ DeadlinePassed(w)
    <3>1. \E row, s : /\ s # "expired_unconfirmed"
                      /\ intents' = [intents EXCEPT ![target[w]] = RowIn(row, s)]
      BY <2>1 DEF InsertIntent, DeadlinePassed
    <3> QED
      BY <1>0, <3>1
  <2>2. CASE GateBlocked(w)
    <3>1. intents' = [intents EXCEPT ![target[w]] = held[w]]
      BY <2>2 DEF GateBlocked
    <3>2. held[w].st \in {"none", "planned"}
      BY DEF LedgerInv, Processes
    <3> QED
      BY <1>0, <3>1, <3>2
  <2>3. CASE SaveResult(w)
    <3> DEFINE ext == IF call[w].answer = "ack" THEN call[w].slot ELSE held[w].ext
               sub == IF held[w].sub # NoTime THEN held[w].sub ELSE call[w].at
               new == [st |-> StateFromTransport(call[w].answer), ext |-> ext, sub |-> sub]
    <3>1. intents' = [intents EXCEPT ![target[w]] = new]
      BY <2>3 DEF SaveResult
    <3>2. new.st # "expired_unconfirmed"
      BY StateFromTransportCases
    <3> HIDE DEF new
    <3> QED
      BY <1>0, <3>1, <3>2
  <2>4. CASE \/ StartWorker(w) \/ PickSignal(w) \/ GatePass(w) \/ CallBroker(w)
             \/ BuyAgain(w) \/ SubmitReturns(w)
    BY <2>4 DEF StartWorker, PickSignal, GatePass, CallBroker, BuyAgain, SendRequest,
       SubmitReturns, ledgerVars
  <2> QED
    BY <1>6, <2>1, <2>2, <2>3, <2>4 DEF Work
<1>7. CASE \/ Tick \/ ToggleHalt \/ UNCHANGED vars
           \/ \E j \in Signals, verdict \in Verdicts : Emit(j, verdict)
           \/ \E q \in Orders : Broker(q) \/ OtherScopeSaves(q)
           \/ \E r \in Reconcilers : StartReconcile(r)
           \/ \E r \in Reconcilers, q \in Orders : CheckOrderStatus(r, q)
           \/ \E p \in Processes : \/ Crash(p) \/ ListPending(p) \/ Scan(p) \/ PassRaises(p)
                                   \/ MatchDone(p) \/ OrphanPass(p)
  BY <1>7 DEF Tick, ToggleHalt, Emit, Broker, OtherScopeSaves, StartReconcile,
     CheckOrderStatus, Crash, ListPending, Scan, PassRaises, MatchDone, OrphanPass, vars,
     ledgerVars
<1> QED
  BY <1>2, <1>3, <1>4, <1>5, <1>6, <1>7 DEF Next, Reconcile

\* Whatever stale rows and stale snapshots the worker and the operator's commands write
\* over each other, a row is given up together with an order still on record only after
\* the bridge's settle grace for that order.
THEOREM SettlementIsAwaited == Spec => NoEarlyWriteOff
<1> DEFINE Awaited ==
      \A i \in Signals :
         (/\ intents'[i].st = "expired_unconfirmed" /\ intents'[i] # intents[i]
          /\ intents'[i].ext # NoOrder /\ orders[intents'[i].ext].tagged)
            => Due(Expiry(orders[intents'[i].ext].for) + SettleGrace)
<1>1. Init => GiveUpInv
  BY DEF Init, GiveUpInv, NoRow, NoView
<1>2. TypeOK /\ LedgerInv /\ GiveUpInv /\ [Next]_vars => GiveUpInv'
  BY GiveUpStep
<1>3. TypeOK /\ LedgerInv /\ GiveUpInv /\ [Next]_vars => [Awaited]_vars
  BY GivenUpWhenLapsed DEF Lapsed
<1>4. Spec => [][Awaited]_vars
  BY <1>1, <1>2, <1>3, TypeCorrect, LedgerIsTrue, PTL DEF Spec
<1> QED
  BY <1>4 DEF NoEarlyWriteOff

-----------------------------------------------------------------------------
(* The client key keeps an order with its intent.                          *)

\* The fake broker records every order under its client key, and the command that
\* stores a single order is not run.
Keyed == Provider = "fake" /\ Reconcilers = {}

\* An order is sent for a signal with an intent, and an accepted one is recorded.
BookKey ==
    \A o \in Orders :
        /\ orders[o].st # "free" =>
              orders[o].for \in Signals /\ intents[orders[o].for].st # "none"
        /\ orders[o].st \in Accepted => orders[o].tagged

\* A snapshot carries the key, and a worker past ensure_intent holds a planned row.
HandKey(p) ==
    /\ \A o \in Orders : view[p][o].st # "absent" => view[p][o].keyed
    /\ pc[p] \in {"insert", "gate", "submit", "sent", "save"} => target[p] \in Signals
    /\ pc[p] \in {"gate", "submit", "sent", "save"} =>
          held[p].st = "planned" /\ intents[target[p]].st # "none"

KeyInv == BookKey /\ \A p \in Processes : HandKey(p)

LinkInv == \A o \in Orders : links[o] # NullLink

\* A status that a snapshot can have leaves no row without an intent.
LEMMA SnapshotKeepsIntent ==
    ASSUME NEW status \in BrokerViews \ {"absent"}, NEW current, current # "none"
    PROVE  StateFromBroker(status, current) # "none"
BY StateFromBrokerCases DEF BrokerViews

\* No step takes an intent away.
LEMMA IntentsStay ==
    ASSUME TypeOK, KeyInv, Next, NEW j \in Signals, intents[j].st # "none"
    PROVE  intents'[j].st # "none"
<1>0. intents \in [Signals -> IntentRows] /\ \A row, s : RowIn(row, s).st = s
  BY DEF TypeOK, RowIn
<1>1. ASSUME NEW p \in Processes, NEW i \in Signals, MatchById(p, i)
      PROVE  intents'[j].st # "none"
  <2>1. PICK status \in LookupViews(pending[p][i]) \ {"absent"} :
           ApplySnapshot(p, i, pending[p][i].ext, status)
    BY <1>1 DEF MatchById
  <2>2. pending[p][i].ext \in Orders
    BY <2>1, PendingRowType DEF LookupViews, IntentRows
  <2>3. status \in BrokerViews
    BY <2>1, <2>2, FetchViewsType DEF LookupViews, TypeOK
  <2>4. pending[p][i].st # "none"
    BY <1>1 DEF MatchById, Current, Todo
  <2>5. StateFromBroker(status, pending[p][i].st) # "none"
    BY <2>3, <2>4, SnapshotKeepsIntent
  <2> QED
    BY <1>0, <2>1, <2>5 DEF ApplySnapshot
<1>2. ASSUME NEW p \in Processes, NEW i \in Signals, MatchByScan(p, i)
      PROVE  intents'[j].st # "none"
  <2>1. PICK o \in Orders : /\ ScanCandidates(p, i) = {o}
                            /\ ApplySnapshot(p, i, o, view[p][o].st)
    BY <1>2 DEF MatchByScan
  <2>2. view[p][o].st # "absent"
    BY <2>1 DEF ScanCandidates, Seen
  <2>3. view[p] \in [Orders -> [st : BrokerViews, keyed : BOOLEAN]]
    BY DEF TypeOK
  <2>4. pending[p][i].st # "none"
    BY <1>2 DEF MatchByScan, Current, Todo
  <2>5. StateFromBroker(view[p][o].st, pending[p][i].st) # "none"
    BY <2>2, <2>3, <2>4, SnapshotKeepsIntent
  <2> QED
    BY <1>0, <2>1, <2>5 DEF ApplySnapshot
<1>3. ASSUME NEW p \in Processes, NEW i \in Signals, MatchAmbiguous(p, i) \/ MatchNone(p, i)
      PROVE  intents'[j].st # "none"
  <2>1. \/ UNCHANGED intents
        \/ \E s \in TerminalStates : intents' = [intents EXCEPT ![i] = RowIn(pending[p][i], s)]
    BY <1>3 DEF MatchAmbiguous, MatchNone, TerminalStates
  <2>2. ASSUME NEW s \in TerminalStates, intents' = [intents EXCEPT ![i] = RowIn(pending[p][i], s)]
        PROVE  intents'[j].st # "none"
    <3>1. RowIn(pending[p][i], s).st # "none"
      BY <1>0 DEF TerminalStates
    <3> QED
      BY <1>0, <2>2, <3>1
  <2> QED
    BY <2>1, <2>2
<1>4. ASSUME NEW p \in Processes,
             \/ ListPending(p) \/ Scan(p) \/ PassRaises(p) \/ MatchDone(p) \/ OrphanPass(p)
             \/ \E i \in Signals : MatchRaises(p, i)
      PROVE  intents'[j].st # "none"
  BY <1>4 DEF ListPending, Scan, PassRaises, MatchDone, OrphanPass, MatchRaises, ledgerVars
<1>5. ASSUME NEW w \in Workers, InsertIntent(w) \/ DeadlinePassed(w)
      PROVE  intents'[j].st # "none"
  <2>1. \E row, s : s # "none" /\ intents' = [intents EXCEPT ![target[w]] = RowIn(row, s)]
    BY <1>5 DEF InsertIntent, DeadlinePassed
  <2> QED
    BY <1>0, <2>1
<1>6. ASSUME NEW w \in Workers, GateBlocked(w)
      PROVE  intents'[j].st # "none"
  BY <1>0, <1>6 DEF GateBlocked, KeyInv, BookKey, HandKey, Processes
<1>7. ASSUME NEW w \in Workers, SaveResult(w)
      PROVE  intents'[j].st # "none"
  <2>1. StateFromTransport(call[w].answer) # "none"
    BY StateFromTransportType DEF IntentStates, PendingStates, TerminalStates
  <2> QED
    BY <1>0, <1>7, <2>1 DEF SaveResult
<1>8. ASSUME NEW w \in Workers,
             \/ StartWorker(w) \/ PickSignal(w) \/ GatePass(w) \/ CallBroker(w)
             \/ BuyAgain(w) \/ SubmitReturns(w)
      PROVE  intents'[j].st # "none"
  BY <1>8 DEF StartWorker, PickSignal, GatePass, CallBroker, BuyAgain, SendRequest,
              SubmitReturns, ledgerVars
<1>9. CASE \/ Tick \/ ToggleHalt
           \/ \E i \in Signals, verdict \in Verdicts : Emit(i, verdict)
           \/ \E o \in Orders : Broker(o) \/ OtherScopeSaves(o)
           \/ \E p \in Processes : Crash(p)
           \/ \E r \in Reconcilers : StartReconcile(r)
           \/ \E r \in Reconcilers, o \in Orders : CheckOrderStatus(r, o)
  BY <1>9 DEF Tick, ToggleHalt, Emit, Broker, OtherScopeSaves, Crash, StartReconcile,
              CheckOrderStatus, ledgerVars
<1> QED
  BY <1>1, <1>2, <1>3, <1>4, <1>5, <1>6, <1>7, <1>8, <1>9 DEF Next, Reconcile, Work

\* What the scan of the fake broker lists carries its key.
LEMMA ScanIsKeyed ==
    ASSUME TypeOK, Keyed, KeyInv, NEW from, NEW v \in ScanResults(from), NEW o \in Orders,
           v[o].st # "absent"
    PROVE  v[o].keyed
<1>1. Provider # "iqoption"
  BY DEF Keyed
<1>2. PICK f \in [Orders -> UNION {ScanViews(q, from) : q \in Orders}] :
         /\ \A q \in Orders : f[q] \in ScanViews(q, from)
         /\ v = [q \in Orders |-> [st |-> f[q], keyed |-> f[q] # "absent" /\ orders[q].tagged]]
  BY <1>1 DEF ScanResults
<1>3. f[o] # "absent" /\ v[o].keyed = (f[o] # "absent" /\ orders[o].tagged)
  BY <1>2
<1>4. orders[o].st \in Accepted
  BY <1>2, <1>3 DEF ScanViews, FetchViews
<1> QED
  BY <1>3, <1>4 DEF KeyInv, BookKey, HandKey

\* Orders that change neither their signal nor, but for the better, their record.
LEMMA BookKeyKept ==
    ASSUME TypeOK, KeyInv, Next,
           \A o \in Orders :
              /\ orders'[o].st # "free" => orders[o].st # "free"
              /\ orders'[o].for = orders[o].for
              /\ orders'[o].st \in Accepted => orders'[o].tagged
    PROVE  BookKey'
BY IntentsStay DEF KeyInv, BookKey

\* A process that a step leaves alone holds what it held.
LEMMA HandKeyKept ==
    ASSUME TypeOK, KeyInv, Next, NEW p \in Processes,
           view'[p] = view[p] \/ view'[p] = NoView,
           \/ pc'[p] \notin {"insert", "gate", "submit", "sent", "save"}
           \/ pc'[p] = pc[p] /\ target'[p] = target[p] /\ held'[p] = held[p]
           \/ /\ pc[p] \in {"gate", "submit", "sent"} /\ pc'[p] \in {"submit", "sent", "save"}
              /\ target'[p] = target[p] /\ held'[p] = held[p]
    PROVE  HandKey(p)'
<1>1. \A o \in Orders : view'[p][o].st # "absent" => view'[p][o].keyed
  <2>1. \A o \in Orders : NoView[o].st = "absent"
    BY DEF NoView
  <2>2. \A o \in Orders : view[p][o].st # "absent" => view[p][o].keyed
    BY DEF KeyInv, HandKey
  <2> QED
    BY <2>1, <2>2
<1>2. pc'[p] \in {"insert", "gate", "submit", "sent", "save"} => target'[p] \in Signals
  BY DEF KeyInv, BookKey, HandKey
<1>3. pc'[p] \in {"gate", "submit", "sent", "save"} =>
         /\ held'[p].st = "planned" /\ target'[p] \in Signals
         /\ intents[target'[p]].st # "none"
  BY DEF KeyInv, BookKey, HandKey
<1> QED
  BY <1>1, <1>2, <1>3, IntentsStay DEF HandKey

\* A reconcile pass keeps the keys.
LEMMA ReconcileKeepsKeys ==
    ASSUME TypeOK, Keyed, KeyInv, Next, NEW p \in Processes, Reconcile(p)
    PROVE  KeyInv'
<1>0. /\ view \in [Processes -> [Orders -> [st : BrokerViews, keyed : BOOLEAN]]]
      /\ pc \in [Processes -> {"idle", "list", "scan", "match", "orphans", "pick",
                              "insert", "gate", "submit", "sent", "save"}]
  BY DEF TypeOK
<1>1. UNCHANGED <<orders, target, held>>
  BY DEF Reconcile, ListPending, Scan, PassRaises, MatchDone, OrphanPass, MatchById,
         MatchByScan, MatchAmbiguous, MatchNone, MatchRaises, brokerVars, workVars
<1>2. BookKey'
  BY <1>1, BookKeyKept DEF KeyInv, BookKey, HandKey
<1>3. CASE Scan(p)
  <2>1. PICK v \in ScanResults(since[p] - Lookback) : view' = [view EXCEPT ![p] = v]
    BY <1>3 DEF Scan
  <2>2. pc' = [pc EXCEPT ![p] = "match"]
    BY <1>3 DEF Scan
  <2>3. \A o \in Orders : v[o].st # "absent" => v[o].keyed
    BY <2>1, ScanIsKeyed
  <2>4. HandKey(p)'
    BY <1>0, <2>1, <2>2, <2>3 DEF HandKey
  <2>5. ASSUME NEW q \in Processes, q # p PROVE HandKey(q)'
    BY <1>0, <1>1, <2>1, <2>2, <2>5, HandKeyKept
  <2> QED
    BY <1>2, <2>4, <2>5 DEF KeyInv
<1>4. CASE ~Scan(p)
  <2>1. \A q \in Processes : view'[q] = view[q] \/ view'[q] = NoView
    BY <1>0, <1>4 DEF Reconcile, ListPending, PassRaises, MatchDone, OrphanPass, MatchById,
         MatchByScan, MatchAmbiguous, MatchNone, MatchRaises, EndPass, passVars
  <2>2. \A q \in Processes : \/ pc'[q] \notin {"insert", "gate", "submit", "sent", "save"}
                             \/ pc'[q] = pc[q]
    BY <1>0, <1>4 DEF Reconcile, ListPending, PassRaises, MatchDone, OrphanPass, MatchById,
         MatchByScan, MatchAmbiguous, MatchNone, MatchRaises, EndPass, AfterPass
  <2>3. \A q \in Processes : HandKey(q)'
    BY <1>1, <2>1, <2>2, HandKeyKept
  <2> QED
    BY <1>2, <2>3 DEF KeyInv
<1> QED
  BY <1>3, <1>4

\* So does a worker: it sends a request only for the intent it has ensured.
LEMMA WorkKeepsKeys ==
    ASSUME TypeOK, LedgerInv, Keyed, KeyInv, Next, NEW w \in Workers, Work(w)
    PROVE  KeyInv'
<1>0. /\ w \in Processes
      /\ orders \in [Orders -> OrderRecords] /\ intents \in [Signals -> IntentRows]
      /\ target \in [Processes -> Signals \cup {0}] /\ held \in [Processes -> IntentRows]
      /\ pc \in [Processes -> {"idle", "list", "scan", "match", "orphans", "pick",
                              "insert", "gate", "submit", "sent", "save"}]
  BY DEF TypeOK, Processes
<1>1. UNCHANGED view
  BY DEF Work, StartWorker, PickSignal, InsertIntent, GateBlocked, DeadlinePassed, GatePass,
         CallBroker, BuyAgain, SendRequest, SubmitReturns, SaveResult, Finish, passVars
<1>2. CASE StartWorker(w) \/ GateBlocked(w) \/ DeadlinePassed(w) \/ SaveResult(w)
  <2>1. UNCHANGED orders
    BY <1>2 DEF StartWorker, GateBlocked, DeadlinePassed, SaveResult, brokerVars
  <2>2. pc' = [pc EXCEPT ![w] = "list"]
    BY <1>2 DEF StartWorker, GateBlocked, DeadlinePassed, SaveResult, Finish
  <2>3. \A q \in Processes : q # w => target'[q] = target[q] /\ held'[q] = held[q]
    BY <1>0, <1>2 DEF StartWorker, GateBlocked, DeadlinePassed, SaveResult, Finish
  <2>4. \A q \in Processes : HandKey(q)'
    BY <1>0, <1>1, <2>2, <2>3, HandKeyKept
  <2> QED
    BY <2>1, <2>4, BookKeyKept DEF KeyInv, BookKey
<1>3. CASE PickSignal(w)
  <2>1. UNCHANGED <<orders, intents>>
    BY <1>3 DEF PickSignal, brokerVars, ledgerVars
  <2>2. BookKey'
    BY <2>1, BookKeyKept DEF KeyInv, BookKey, HandKey
  <2>3. PICK i \in Signals \cup {0} :
          IF i = 0 \/ ~Submittable(i)
             THEN Finish(w)
             ELSE /\ target' = [target EXCEPT ![w] = i]
                  /\ held' = [held EXCEPT ![w] = intents[i]]
                  /\ pc' = [pc EXCEPT ![w] = IF intents[i].st = "none"
                                             THEN "insert" ELSE "gate"]
    BY <1>3 DEF PickSignal
  <2>4. CASE i = 0 \/ ~Submittable(i)
    <3>1. /\ pc' = [pc EXCEPT ![w] = "list"]
          /\ \A q \in Processes : q # w => target'[q] = target[q] /\ held'[q] = held[q]
      BY <1>0, <2>3, <2>4 DEF Finish
    <3>2. \A q \in Processes : HandKey(q)'
      BY <1>0, <1>1, <3>1, HandKeyKept
    <3> QED
      BY <2>2, <3>2 DEF KeyInv
  <2>5. CASE i \in Signals /\ Submittable(i)
    <3>1. /\ target' = [target EXCEPT ![w] = i] /\ held' = [held EXCEPT ![w] = intents[i]]
          /\ pc' = [pc EXCEPT ![w] = IF intents[i].st = "none" THEN "insert" ELSE "gate"]
      BY <2>3, <2>5
    <3>2. pc'[w] = "gate" => intents[i].st = "planned"
      BY <1>0, <2>5, <3>1 DEF Submittable
    <3>3. pc'[w] \in {"insert", "gate"} /\ target'[w] = i /\ held'[w] = intents[i]
      BY <1>0, <3>1
    <3>4. HandKey(w)'
      BY <1>0, <1>1, <2>1, <2>5, <3>2, <3>3 DEF HandKey, KeyInv
    <3>5. ASSUME NEW q \in Processes, q # w PROVE HandKey(q)'
      BY <1>0, <1>1, <3>1, <3>5, HandKeyKept
    <3> QED
      BY <2>2, <3>4, <3>5 DEF KeyInv
  <2> QED
    BY <2>4, <2>5
<1>4. CASE InsertIntent(w)
  <2> DEFINE new == RowIn(NoRow, "planned")
  <2>1. /\ UNCHANGED <<orders, target>> /\ pc[w] = "insert" /\ pc' = [pc EXCEPT ![w] = "gate"]
        /\ intents' = [intents EXCEPT ![target[w]] = new] /\ held' = [held EXCEPT ![w] = new]
    BY <1>4 DEF InsertIntent, brokerVars
  <2>2. new.st = "planned"
    BY DEF RowIn
  <2> HIDE DEF new
  <2>3. target[w] \in Signals
    BY <1>0, <2>1 DEF KeyInv, BookKey, HandKey
  <2>4. intents'[target'[w]].st = "planned" /\ held'[w].st = "planned" /\ target'[w] \in Signals
    BY <1>0, <2>1, <2>2, <2>3
  <2>5. HandKey(w)'
    BY <1>0, <1>1, <2>4 DEF HandKey, KeyInv
  <2>6. ASSUME NEW q \in Processes, q # w PROVE HandKey(q)'
    BY <1>0, <1>1, <2>1, <2>6, HandKeyKept
  <2> QED
    BY <2>1, <2>5, <2>6, BookKeyKept DEF KeyInv, BookKey
<1>5. CASE GatePass(w)
  <2>1. UNCHANGED <<orders, target, held>> /\ pc[w] = "gate" /\ pc' = [pc EXCEPT ![w] = "submit"]
    BY <1>5 DEF GatePass, brokerVars, workVars
  <2>2. \A q \in Processes : HandKey(q)'
    BY <1>0, <1>1, <2>1, HandKeyKept
  <2> QED
    BY <2>1, <2>2, BookKeyKept DEF KeyInv, BookKey
<1>6. CASE CallBroker(w) \/ BuyAgain(w)
  <2>1. PICK n \in 1..BuyRetries : SendRequest(w, n)
    BY <1>6, RequestNumber
  <2>2. /\ UNCHANGED <<intents, target, held>> /\ pc[w] \in {"submit", "sent"}
        /\ pc' = [pc EXCEPT ![w] = "sent"]
    BY <1>6, <2>1 DEF CallBroker, BuyAgain, SendRequest, ledgerVars
  <2>3. PICK o \in Orders :
           orders' = [orders EXCEPT ![o] =
                [st |-> "inflight", for |-> target[w], tagged |-> FALSE, opened |-> 0]]
    BY <2>1 DEF SendRequest
  <2>4. target[w] \in Signals /\ intents[target[w]].st # "none"
    BY <1>0, <2>2 DEF KeyInv, BookKey, HandKey
  <2>5. BookKey'
    BY <1>0, <2>2, <2>3, <2>4 DEF BookKey, KeyInv, Accepted
  <2>6. \A q \in Processes : HandKey(q)'
    BY <1>0, <1>1, <2>2, HandKeyKept
  <2> QED
    BY <2>5, <2>6 DEF KeyInv
<1>7. CASE SubmitReturns(w)
  <2>1. /\ UNCHANGED <<target, held>> /\ pc[w] = "sent" /\ pc' = [pc EXCEPT ![w] = "save"]
    BY <1>7 DEF SubmitReturns
  <2>2. \A o \in Orders : /\ orders'[o].st = orders[o].st /\ orders'[o].for = orders[o].for
                          /\ orders[o].tagged => orders'[o].tagged
    BY <1>0, <1>7 DEF SubmitReturns, OrderRecords
  <2>3. \A q \in Processes : HandKey(q)'
    BY <1>0, <1>1, <2>1, HandKeyKept
  <2> QED
    BY <2>2, <2>3, BookKeyKept DEF KeyInv, BookKey
<1> QED
  BY <1>2, <1>3, <1>4, <1>5, <1>6, <1>7 DEF Work

\* And so does everything else: the fake broker's record comes with the order.
LEMMA OtherKeepsKeys ==
    ASSUME TypeOK, Keyed, KeyInv, Next,
           \/ Tick \/ ToggleHalt
           \/ \E i \in Signals, verdict \in Verdicts : Emit(i, verdict)
           \/ \E o \in Orders : Broker(o)
           \/ \E p \in Processes : Crash(p)
    PROVE  KeyInv'
<1>0. /\ orders \in [Orders -> OrderRecords]
      /\ view \in [Processes -> [Orders -> [st : BrokerViews, keyed : BOOLEAN]]]
      /\ target \in [Processes -> Signals \cup {0}] /\ held \in [Processes -> IntentRows]
      /\ pc \in [Processes -> {"idle", "list", "scan", "match", "orphans", "pick",
                              "insert", "gate", "submit", "sent", "save"}]
  BY DEF TypeOK
<1>1. CASE \/ Tick \/ ToggleHalt
           \/ \E i \in Signals, verdict \in Verdicts : Emit(i, verdict)
  <2>1. UNCHANGED <<orders, pc, view, target, held>>
    BY <1>1 DEF Tick, ToggleHalt, Emit, brokerVars, passVars, workVars
  <2> QED
    BY <2>1, BookKeyKept, HandKeyKept DEF KeyInv, BookKey
<1>2. ASSUME NEW o \in Orders, Broker(o)
      PROVE  KeyInv'
  <2>1. UNCHANGED <<pc, view, target, held>>
    BY <1>2 DEF Broker, passVars, workVars
  <2>2. CASE BrokerAccept(o)
    <3> DEFINE record == [st |-> "open", for |-> orders[o].for, tagged |-> TRUE, opened |-> now]
    <3>1. orders' = [orders EXCEPT ![o] = record] /\ orders[o].st = "inflight"
      BY <2>2 DEF BrokerAccept, Keyed
    <3> QED
      BY <1>0, <2>1, <3>1, BookKeyKept, HandKeyKept DEF KeyInv, BookKey
  <2>3. CASE BrokerRefuse(o) \/ \E outcome \in {"closed", "cancelled"} : BrokerClose(o, outcome)
    <3>1. PICK s : /\ orders' = [orders EXCEPT ![o] = OrderIn(o, s)]
                   /\ orders[o].st # "free" /\ s \in Accepted => orders[o].st \in Accepted
      BY <2>3 DEF BrokerRefuse, BrokerClose, Accepted
    <3>2. /\ OrderIn(o, s).st = s /\ OrderIn(o, s).for = orders[o].for
          /\ OrderIn(o, s).tagged = orders[o].tagged
      BY DEF OrderIn
    <3>3. orders[o].st # "free"
      BY <2>3 DEF BrokerRefuse, BrokerClose
    <3>4. \A q \in Orders : /\ orders'[q].st # "free" => orders[q].st # "free"
                            /\ orders'[q].for = orders[q].for
                            /\ orders'[q].st \in Accepted => orders'[q].tagged
      BY <1>0, <3>1, <3>2, <3>3 DEF KeyInv, BookKey
    <3> QED
      BY <2>1, <3>4, BookKeyKept, HandKeyKept DEF KeyInv
  <2> QED
    BY <1>2, <2>2, <2>3 DEF Broker
<1>3. ASSUME NEW p \in Processes, Crash(p)
      PROVE  KeyInv'
  <2>1. /\ pc' = [pc EXCEPT ![p] = "idle"] /\ view' = [view EXCEPT ![p] = NoView]
        /\ target' = [target EXCEPT ![p] = 0] /\ held' = [held EXCEPT ![p] = NoRow]
    BY <1>3 DEF Crash
  <2>2. ASSUME NEW o \in Orders
        PROVE  /\ orders'[o].st # "free" => orders[o].st # "free"
               /\ orders'[o].for = orders[o].for
               /\ orders'[o].st \in Accepted => orders'[o].tagged
    <3>1. \/ orders'[o] = orders[o]
          \/ orders[o].st = "inflight" /\ orders'[o] = OrderIn(o, "refused")
      BY <1>3 DEF Crash
    <3> QED
      BY <3>1 DEF OrderIn, Accepted, KeyInv, BookKey
  <2>3. \A q \in Processes : HandKey(q)'
    BY <1>0, <2>1, HandKeyKept
  <2> QED
    BY <2>2, <2>3, BookKeyKept DEF KeyInv
<1> QED
  BY <1>1, <1>2, <1>3

\* A pass stores every order it saw under an intent.
LEMMA ReconcileKeepsLinks ==
    ASSUME TypeOK, LedgerInv, KeyInv, LinkInv, NEW p \in Processes, Reconcile(p)
    PROVE  LinkInv'
<1>0. links \in [Orders -> {Unlinked, NullLink} \cup Signals]
  BY DEF TypeOK
<1>1. ASSUME NEW i \in Signals, MatchById(p, i) \/ MatchByScan(p, i)
      PROVE  LinkInv'
  <2>1. \E o : links' = [links EXCEPT ![o] = i]
    BY <1>1 DEF MatchById, MatchByScan, ApplySnapshot
  <2> QED
    BY <1>0, <2>1, BrokerAssumption DEF LinkInv, NullLink
<1>2. CASE OrphanPass(p)
  <2>1. ASSUME NEW o \in Seen(p)
        PROVE  OrphanLink(p, o) \in Signals
    <3>1. o \in Orders /\ view[p][o].st # "absent" /\ view[p][o].keyed
      BY DEF Seen, KeyInv, HandKey
    <3>2. orders[o].st \in Accepted
      BY <3>1 DEF LedgerInv, ViewTruth
    <3>3. orders[o].for \in Signals /\ intents[orders[o].for].st # "none"
      BY <3>1, <3>2 DEF KeyInv, BookKey, Accepted
    <3> QED
      BY <3>1, <3>3 DEF OrphanLink
  <2>2. links' = [o \in Orders |->
           IF o \in Seen(p) \ matched[p] THEN OrphanLink(p, o) ELSE links[o]]
    BY <1>2 DEF OrphanPass
  <2>3. \A i \in Signals : i # NullLink
    BY BrokerAssumption DEF NullLink
  <2> QED
    BY <2>1, <2>2, <2>3 DEF LinkInv
<1>3. CASE \/ ListPending(p) \/ Scan(p) \/ PassRaises(p) \/ MatchDone(p)
           \/ \E i \in Signals : MatchAmbiguous(p, i) \/ MatchNone(p, i) \/ MatchRaises(p, i)
  <2>1. UNCHANGED links
    BY <1>3 DEF ListPending, Scan, PassRaises, MatchDone, MatchAmbiguous, MatchNone,
                MatchRaises, ledgerVars
  <2> QED
    BY <2>1 DEF LinkInv
<1> QED
  BY <1>1, <1>2, <1>3 DEF Reconcile

\* Every step keeps the keys and the links.
LEMMA KeysAndLinks ==
    ASSUME TypeOK, LedgerInv, Keyed, KeyInv, LinkInv, [Next]_vars
    PROVE  KeyInv' /\ LinkInv'
<1>1. CASE UNCHANGED vars
  BY <1>1 DEF vars, brokerVars, ledgerVars, passVars, workVars, KeyInv, BookKey, HandKey, LinkInv
<1>2. ASSUME NEW p \in Processes, Next, Reconcile(p)
      PROVE  KeyInv' /\ LinkInv'
  BY <1>2, ReconcileKeepsKeys, ReconcileKeepsLinks
<1>3. ASSUME NEW w \in Workers, Next, Work(w)
      PROVE  KeyInv' /\ LinkInv'
  <2>1. UNCHANGED links
    BY <1>3 DEF Work, StartWorker, PickSignal, InsertIntent, GateBlocked, DeadlinePassed,
       GatePass, CallBroker, BuyAgain, SendRequest, SubmitReturns, SaveResult, ledgerVars
  <2> QED
    BY <1>3, <2>1, WorkKeepsKeys DEF LinkInv
<1>4. CASE /\ Next
           /\ \/ Tick \/ ToggleHalt
              \/ \E i \in Signals, verdict \in Verdicts : Emit(i, verdict)
              \/ \E o \in Orders : Broker(o)
              \/ \E p \in Processes : Crash(p)
  <2>1. UNCHANGED links
    BY <1>4 DEF Tick, ToggleHalt, Emit, Broker, Crash, ledgerVars
  <2> QED
    BY <1>4, <2>1, OtherKeepsKeys DEF LinkInv
<1>5. \A o \in Orders : ~OtherScopeSaves(o)
  BY DEF OtherScopeSaves, BridgeForgets, Keyed
<1>6. CASE Next
  BY <1>2, <1>3, <1>4, <1>5, <1>6 DEF Next, Keyed
<1> QED
  BY <1>1, <1>6

\* With the fake broker an order that an intent names never loses it, whatever is
\* killed, raised or written back stale by any number of workers: what takes an order
\* away from its intent is that it is listed without its client key.
THEOREM KeyedOrdersStayLinked == Keyed => (Spec => []NamedOrderIsLinked)
<1> SUFFICES ASSUME Keyed PROVE Spec => []NamedOrderIsLinked
  OBVIOUS
<1>1. Init => KeyInv /\ LinkInv
  <2> SUFFICES ASSUME Init PROVE KeyInv /\ LinkInv
    OBVIOUS
  <2>1. \A o \in Orders : orders[o].st = "free" /\ links[o] = Unlinked
    BY DEF Init, BrokerInit, FreeSlot
  <2>2. \A p \in Processes : pc[p] = "idle" /\ \A o \in Orders : view[p][o].st = "absent"
    BY DEF Init, NoView
  <2> QED
    BY <2>1, <2>2 DEF KeyInv, BookKey, HandKey, LinkInv, Accepted, Unlinked, NullLink
<1>2. TypeOK /\ LedgerInv /\ KeyInv /\ LinkInv /\ [Next]_vars => KeyInv' /\ LinkInv'
  BY KeysAndLinks
<1>3. TypeOK /\ LinkInv => NamedOrderIsLinked
  BY DEF TypeOK, IntentRows, LinkInv, NamedOrderIsLinked
<1> QED
  BY <1>1, <1>2, <1>3, TypeCorrect, LedgerIsTrue, PTL DEF Spec

-----------------------------------------------------------------------------
(* The newest signal.                                                      *)

\* With the trades of one day the last one is the one returned.
LEMMA LatestIsNewest ==
    ASSUME NSignals <= DayLen, TypeOK, NEW k \in Signals, rows[k] = "trade",
           \A j \in Signals : rows[j] = "trade" => j <= k, NEW today
    PROVE  LatestTradeRow(rows, today) = k
<1>1. \A j \in Signals : DayOf(j) = 0
  <2> SUFFICES ASSUME NEW j \in Signals PROVE DayOf(j) = 0
    OBVIOUS
  <2>1. DayLen \in Nat \ {0} /\ NSignals \in Nat /\ j - 1 \in 0..(DayLen - 1)
    BY SignalAssumption, BrokerAssumption
  <2>2. \A m \in Nat \ {0} : \A n \in 0..(m - 1) : n \div m = 0
    OBVIOUS
  <2> QED
    BY <2>1, <2>2 DEF DayOf
<1>2. DOMAIN rows = Signals
  BY DEF TypeOK
<1>3. \A d : TradeRows(rows, d) # {} => d = 0
  BY <1>1, <1>2 DEF TradeRows
<1>4. TradeRows(rows, 0) = {j \in Signals : rows[j] = "trade"}
  BY <1>1, <1>2 DEF TradeRows
<1>5. 0 \in DistinctRecentDays(rows)
  <2> DEFINE days == {DayOf(i) : i \in {j \in DOMAIN rows : rows[j] # "none"}}
  <2>1. days = {0}
    BY <1>1, <1>2
  <2>2. {e \in days : e > 0} = {}
    BY <2>1
  <2>3. Cardinality({e \in days : e > 0}) < RecentDays
    BY <2>2, FS_EmptySet, SignalAssumption
  <2> QED
    BY <2>1, <2>3 DEF DistinctRecentDays
<1>6. {d \in {today} \cup DistinctRecentDays(rows) : TradeRows(rows, d) # {}} = {0}
  BY <1>3, <1>4, <1>5
<1>7. Min({0}) = 0
  BY DEF Min
<1>8. Max(TradeRows(rows, 0)) = k
  <2>1. \A m \in TradeRows(rows, 0) :
           (\A j \in TradeRows(rows, 0) : m >= j) <=> m = k
    BY <1>4, BrokerAssumption
  <2> QED
    BY <1>4, <2>1 DEF Max
<1> QED
  BY <1>6, <1>7, <1>8 DEF LatestTradeRow

\* While all signals are of one day, the newest trade has an intent when the run that
\* looked for it is done: the older days are what latest_trade_row gets wrong.
THEOREM OneDaysLatestHasIntent ==
    NSignals <= DayLen => (Spec => LatestSignalProducesIntent)
<1> SUFFICES ASSUME NSignals <= DayLen PROVE Spec => LatestSignalProducesIntent
  OBVIOUS
<1> DEFINE Produced ==
      \A w \in Workers :
          pc[w] = "pick" /\ pc'[w] = "list" =>
              \A i \in Signals :
                  (rows[i] = "trade" /\ \A j \in Signals : rows[j] = "trade" => j <= i)
                      => intents[i].st # "none"
<1>1. TypeOK /\ [Next]_vars => [Produced]_vars
  <2> SUFFICES ASSUME TypeOK, Next, NEW w \in Workers, pc[w] = "pick", pc'[w] = "list",
                      NEW k \in Signals, rows[k] = "trade",
                      \A j \in Signals : rows[j] = "trade" => j <= k
               PROVE  intents[k].st # "none"
    OBVIOUS
  <2>0. /\ w \in Processes
        /\ pc \in [Processes -> {"idle", "list", "scan", "match", "orphans", "pick",
                              "insert", "gate", "submit", "sent", "save"}]
    BY DEF TypeOK, Processes
  <2>1. ASSUME NEW p \in Processes, Reconcile(p) \/ Crash(p)
        PROVE  FALSE
    BY <2>0, <2>1 DEF Reconcile, ListPending, Scan, PassRaises, MatchDone, OrphanPass, MatchById,
       MatchByScan, MatchAmbiguous, MatchNone, MatchRaises, EndPass, AfterPass, Crash
  <2>2. ASSUME NEW r \in Reconcilers, StartReconcile(r)
        PROVE  FALSE
    BY <2>0, <2>2 DEF StartReconcile
  <2>3. ~(\/ Tick \/ ToggleHalt
          \/ \E i \in Signals, verdict \in Verdicts : Emit(i, verdict)
          \/ \E o \in Orders : Broker(o) \/ OtherScopeSaves(o)
          \/ \E r \in Reconcilers, o \in Orders : CheckOrderStatus(r, o))
    BY DEF Tick, ToggleHalt, Emit, Broker, OtherScopeSaves, CheckOrderStatus
  <2>4. ASSUME NEW v \in Workers, Work(v)
        PROVE  v = w /\ PickSignal(w)
    BY <2>0, <2>4 DEF Work, StartWorker, PickSignal, InsertIntent, GateBlocked, DeadlinePassed,
       GatePass, CallBroker, BuyAgain, SendRequest, SubmitReturns, SaveResult, Finish
  <2>5. PickSignal(w)
    BY <2>1, <2>2, <2>3, <2>4 DEF Next
  <2>6. LatestTradeRow(rows, Today) = k
    BY LatestIsNewest
  <2>7. ~Submittable(k)
    BY <2>0, <2>5, <2>6 DEF PickSignal
  <2> QED
    BY <2>7 DEF Submittable
<1> HIDE DEF Produced
<1>2. Spec => [][Produced]_vars
  BY <1>1, TypeCorrect, PTL DEF Spec
<1> QED
  BY <1>2 DEF LatestSignalProducesIntent, Produced
=============================================================================
