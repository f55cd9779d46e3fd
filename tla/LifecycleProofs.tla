--------------------------- MODULE LifecycleProofs ---------------------------
(***************************************************************************)
(* The detailed execution layer implements OrderLifecycle: one worker of   *)
(* the fake broker, killed and started again as often as one likes, with a *)
(* history that reaches back far enough and adapter calls that do not raise*)
(***************************************************************************)
EXTENDS MCExecutionLedger, SoleProcessProofs, FiniteSetTheorems

USE DEF Signals, Orders, Times, NoOrder, NoTime

\* The executions spoken of.
Serial(w) ==
    /\ Workers = {w} /\ Reconcilers = {}
    /\ Provider = "fake" /\ ~AdapterMayFail
    /\ Lookalikes = {} /\ Lookback >= MaxTime

\* The broker's book: a request is under way only while the worker waits for its
\* answer, a signal has at most one position, and every order is recorded.
BookInv(w) ==
    /\ \A o \in Orders :
          /\ orders[o].st = "free" <=> orders[o].for = 0
          /\ orders[o].st = "inflight" => pc[w] = "sent" /\ o = call[w].slot
          /\ orders[o].st \in Accepted => orders[o].tagged
    /\ \A i \in Signals : \A o1, o2 \in Positions(i) : o1 = o2

\* The rows: nothing was sent for a signal without an intent, something for one of
\* unknown outcome, and a planned intent has a position only until the pass that
\* finds it, before which nothing is submitted.
RowsInv(w) ==
    \A i \in Signals :
        /\ intents[i].st = "none" => OrdersOf(i) = {}
        /\ intents[i].st = "submitted_unknown" => OrdersOf(i) # {}
        /\ intents[i].st = "planned" /\ Positions(i) # {} =>
              \/ pc[w] \in {"sent", "save"} /\ target[w] = i
              \/ pc[w] \in {"idle", "list"}
              \/ pc[w] \in {"scan", "match"} /\ pending[w][i].st # "none"

\* What the worker holds: a snapshot of every position, under its key, and a signal
\* that may have no position but the one its request got.
HandInv(w) ==
    /\ pc[w] = "match" =>
          \A o \in Orders : orders[o].st \in Accepted =>
              view[w][o].st \in Accepted /\ view[w][o].keyed
    /\ pc[w] = "insert" => held[w].st = "none"
    /\ pc[w] \in {"gate", "submit", "sent", "save"} => held[w].st = "planned"
    /\ pc[w] \in {"sent", "save"} => Positions(target[w]) \subseteq {call[w].slot}
    /\ pc[w] = "sent" => call[w].tries > 0
    /\ pc[w] = "save" /\ call[w].answer = "reject" => orders[call[w].slot].st = "refused"

SerialInv(w) ==
    /\ TypeOK /\ LedgerInv /\ Fresh(w)
    /\ BookInv(w) /\ RowsInv(w) /\ HandInv(w)

LEMMA SoleWorker ==
    ASSUME NEW w, Serial(w)
    PROVE  w \in Workers /\ w \in Processes /\ Processes = {w}
BY DEF Serial, Processes

\* While states and signals of the orders stay, so do the sets made of them.
LEMMA SameSets ==
    ASSUME \A o \in Orders : orders'[o].for = orders[o].for,
           \A o \in Orders : orders'[o].st \in Accepted <=> orders[o].st \in Accepted
    PROVE  \A i : OrdersOf(i)' = OrdersOf(i) /\ Positions(i)' = Positions(i)
BY DEF OrdersOf, Positions

\* The orders of the fake broker that a scan does not show are not accepted.
LEMMA ScanShowsAll ==
    ASSUME NEW w, Serial(w), TypeOK, BookInv(w),
           NEW v \in ScanResults(since[w] - Lookback), NEW o \in Orders,
           orders[o].st \in Accepted
    PROVE  v[o].st = orders[o].st /\ v[o].keyed
<1>1. PICK f \in [Orders -> UNION {ScanViews(q, since[w] - Lookback) : q \in Orders}] :
         /\ \A q \in Orders : f[q] \in ScanViews(q, since[w] - Lookback)
         /\ v = [q \in Orders |-> [st |-> f[q],
                                   keyed |-> f[q] # "absent" /\ orders[q].tagged]]
  BY DEF ScanResults, Serial
<1>2. FetchViews(o) = {orders[o].st}
  BY DEF FetchViews, Serial
<1>3. ~(ClosesAt(o) < since[w] - Lookback)
  <2>1. ClosesAt(o) = orders[o].opened + SettleAfter
    BY DEF ClosesAt, Serial
  <2>2. orders[o].opened \in Nat /\ since[w] \in 0..MaxTime
    BY SoleWorker DEF TypeOK, OrderRecords
  <2>3. /\ SettleAfter \in Nat /\ Lookback \in Nat /\ MaxTime \in Nat
        /\ Lookback >= MaxTime
    BY BrokerAssumption DEF Serial
  <2> QED
    BY <2>1, <2>2, <2>3
<1>4. ScanViews(o, since[w] - Lookback) = {orders[o].st}
  BY <1>2, <1>3 DEF ScanViews, Accepted
<1>5. f[o] = orders[o].st /\ f[o] # "absent"
  BY <1>1, <1>4 DEF Accepted
<1> QED
  BY <1>1, <1>5 DEF BookInv

-----------------------------------------------------------------------------
(* The invariant.                                                          *)

\* No step of the environment breaks it.
LEMMA EnvironmentSerial ==
    ASSUME NEW w, Serial(w), SerialInv(w),
           \/ Tick \/ ToggleHalt
           \/ \E i \in Signals, verdict \in Verdicts : Emit(i, verdict)
           \/ \E o \in Orders : Broker(o)
    PROVE  BookInv(w)' /\ RowsInv(w)' /\ HandInv(w)'
<1> USE SoleWorker
<1>1. CASE \/ Tick \/ ToggleHalt
           \/ \E i \in Signals, verdict \in Verdicts : Emit(i, verdict)
  <2>1. UNCHANGED <<orders, intents, pc, pending, view, held, target, call>>
    BY <1>1 DEF Tick, ToggleHalt, Emit, brokerVars, ledgerVars, passVars, workVars
  <2>2. \A i : OrdersOf(i)' = OrdersOf(i) /\ Positions(i)' = Positions(i)
    BY <2>1, SameSets
  <2> QED
    BY <2>1, <2>2 DEF SerialInv, BookInv, RowsInv, HandInv
<1>2. ASSUME NEW o \in Orders, BrokerAccept(o), UNCHANGED <<intents, pc, pending, view, held, target, call>>
      PROVE  BookInv(w)' /\ RowsInv(w)' /\ HandInv(w)'
  <2> DEFINE t == target[w]
             new == [st |-> "open", for |-> orders[o].for, tagged |-> TRUE, opened |-> now]
  <2>1. orders' = [orders EXCEPT ![o] = new] /\ orders[o].st = "inflight"
    BY <1>2 DEF BrokerAccept, Serial
  <2>2. /\ new.st = "open" /\ new.for = orders[o].for /\ new.tagged
    OBVIOUS
  <2> HIDE DEF new
  <2>3. \A q \in Orders : orders'[q] = IF q = o THEN new ELSE orders[q]
    BY <2>1 DEF SerialInv, TypeOK
  <2>4. pc[w] = "sent" /\ o = call[w].slot
    BY <2>1 DEF SerialInv, BookInv
  <2>5. orders[o].for = t /\ t \in Signals
    BY <2>4 DEF SerialInv, LedgerInv, CallTruth, Fresh
  <2>6. \A i : OrdersOf(i)' = OrdersOf(i)
    BY <2>2, <2>3 DEF OrdersOf
  <2>7. \A i \in Signals : i # t => Positions(i)' = Positions(i)
    BY <2>2, <2>3, <2>5 DEF Positions, OrdersOf
  <2>8. Positions(t)' \subseteq {o}
    BY <1>2, <2>2, <2>3, <2>4, <2>5 DEF SerialInv, HandInv, Positions, OrdersOf
  <2>9. BookInv(w)'
    <3>1. \A i \in Signals : \A o1, o2 \in Positions(i)' : o1 = o2
      BY <1>2, <2>7, <2>8 DEF SerialInv, BookInv
    <3>2. \A q \in Orders :
            /\ orders'[q].st = "free" <=> orders'[q].for = 0
            /\ orders'[q].st = "inflight" => pc'[w] = "sent" /\ q = call'[w].slot
            /\ orders'[q].st \in Accepted => orders'[q].tagged
      BY <1>2, <2>1, <2>2, <2>3 DEF SerialInv, BookInv
    <3> QED
      BY <3>1, <3>2 DEF BookInv
  <2>10. RowsInv(w)'
    BY <1>2, <2>4, <2>6, <2>7 DEF SerialInv, RowsInv
  <2>11. HandInv(w)'
    BY <1>2, <2>4, <2>8 DEF SerialInv, HandInv
  <2> QED
    BY <2>9, <2>10, <2>11
<1>3. ASSUME NEW o \in Orders, BrokerRefuse(o), UNCHANGED <<intents, pc, pending, view, held, target, call>>
      PROVE  BookInv(w)' /\ RowsInv(w)' /\ HandInv(w)'
  <2>1. \A q \in Orders : orders'[q] = IF q = o THEN OrderIn(o, "refused") ELSE orders[q]
    BY <1>3 DEF BrokerRefuse, SerialInv, TypeOK
  <2>2. /\ OrderIn(o, "refused").st = "refused" /\ OrderIn(o, "refused").for = orders[o].for
        /\ orders[o].st = "inflight"
    BY <1>3 DEF OrderIn, BrokerRefuse
  <2>3. \A i : OrdersOf(i)' = OrdersOf(i) /\ Positions(i)' = Positions(i)
    BY <2>1, <2>2, SameSets DEF Accepted
  <2>4. BookInv(w)'
    BY <1>3, <2>1, <2>2, <2>3 DEF SerialInv, BookInv, Accepted
  <2>5. pc[w] = "sent"
    BY <2>2 DEF SerialInv, BookInv
  <2> QED
    BY <1>3, <2>3, <2>4, <2>5 DEF SerialInv, RowsInv, HandInv
<1>4. ASSUME NEW o \in Orders, NEW outcome \in {"closed", "cancelled"}, BrokerClose(o, outcome),
             UNCHANGED <<intents, pc, pending, view, held, target, call>>
      PROVE  BookInv(w)' /\ RowsInv(w)' /\ HandInv(w)'
  <2>1. \A q \in Orders : orders'[q] = IF q = o THEN OrderIn(o, outcome) ELSE orders[q]
    BY <1>4 DEF BrokerClose, SerialInv, TypeOK
  <2>2. /\ OrderIn(o, outcome).st = outcome /\ OrderIn(o, outcome).for = orders[o].for
        /\ OrderIn(o, outcome).tagged = orders[o].tagged
        /\ orders[o].st = "open"
    BY <1>4 DEF OrderIn, BrokerClose
  <2>3. \A i : OrdersOf(i)' = OrdersOf(i) /\ Positions(i)' = Positions(i)
    BY <2>1, <2>2, SameSets DEF Accepted
  <2>4. BookInv(w)'
    BY <1>4, <2>1, <2>2, <2>3 DEF SerialInv, BookInv, Accepted
  <2>5. RowsInv(w)'
    BY <1>4, <2>3 DEF SerialInv, RowsInv
  <2>6. call[w].slot \in Orders \cup {NoOrder} /\ (pc[w] = "save" => call[w].slot # NoOrder)
    BY DEF SerialInv, TypeOK, LedgerInv, CallTruth
  <2>7. HandInv(w)'
    BY <1>4, <2>1, <2>2, <2>3, <2>6 DEF SerialInv, HandInv, Accepted
  <2> QED
    BY <2>4, <2>5, <2>7
<1>5. ASSUME NEW o \in Orders, Broker(o)
      PROVE  BookInv(w)' /\ RowsInv(w)' /\ HandInv(w)'
  BY <1>2, <1>3, <1>4, <1>5 DEF Broker, ledgerVars, passVars, workVars
<1> QED
  BY <1>1, <1>5
\* A kill takes the request under way with it.
LEMMA CrashSerial ==
    ASSUME NEW w, Serial(w), SerialInv(w), Crash(w)
    PROVE  BookInv(w)' /\ RowsInv(w)' /\ HandInv(w)'
<1> USE SoleWorker
<1>1. \A o \in Orders : orders'[o] = IF orders[o].st = "inflight"
                                    THEN OrderIn(o, "refused") ELSE orders[o]
  BY DEF Crash, SerialInv, BookInv, Serial
<1>2. \A o \in Orders : /\ OrderIn(o, "refused").st = "refused"
                        /\ OrderIn(o, "refused").for = orders[o].for
  BY DEF OrderIn
<1>3. \A i : OrdersOf(i)' = OrdersOf(i) /\ Positions(i)' = Positions(i)
  BY <1>1, <1>2, SameSets DEF Accepted
<1>4. pc'[w] = "idle" /\ UNCHANGED intents
  BY DEF Crash, SerialInv, TypeOK, ledgerVars
<1>5. BookInv(w)'
  BY <1>1, <1>2, <1>3 DEF SerialInv, BookInv, Accepted
<1> QED
  BY <1>3, <1>4, <1>5 DEF SerialInv, RowsInv, HandInv

\* A pass that has looked for every planned intent leaves none with a position.
LEMMA EndPassSerial ==
    ASSUME NEW w, Serial(w), SerialInv(w), EndPass(w),
           UNCHANGED <<orders, intents, target, call>>,
           \A i \in Signals : intents[i].st = "planned" => Positions(i) = {},
           pc[w] # "sent"
    PROVE  BookInv(w)' /\ RowsInv(w)' /\ HandInv(w)'
<1>1. pc'[w] \in {"pick", "idle"}
  BY SoleWorker DEF EndPass, AfterPass, SerialInv, TypeOK
<1>2. \A i : OrdersOf(i)' = OrdersOf(i) /\ Positions(i)' = Positions(i)
  BY SameSets
<1> QED
  BY <1>1, <1>2 DEF SerialInv, BookInv, RowsInv, HandInv

\* What a pass leaves of the signal at hand: its row as it was, or one that is neither
\* new nor of unknown outcome.
LEMMA MatchedRow ==
    ASSUME NEW w, Serial(w), SerialInv(w), NEW i \in Signals,
           MatchById(w, i) \/ MatchByScan(w, i) \/ MatchAmbiguous(w, i) \/ MatchNone(w, i)
    PROVE  \/ MatchNone(w, i) /\ intents' = intents
           \/ intents'[i].st \notin {"none", "planned", "submitted_unknown"}
<1> USE SoleWorker
<1>1. ASSUME NEW o \in Orders, NEW status \in {"open", "closed", "cancelled"},
             ApplySnapshot(w, i, o, status)
      PROVE  intents'[i].st \notin {"none", "planned", "submitted_unknown"}
  <2> DEFINE row == pending[w][i]
             sub == IF row.sub # NoTime THEN row.sub ELSE orders[o].opened
             new == [st |-> StateFromBroker(status, row.st), ext |-> o, sub |-> sub]
  <2>1. intents' = [intents EXCEPT ![i] = new]
    BY <1>1 DEF ApplySnapshot
  <2>2. new.st \notin {"none", "planned", "submitted_unknown"}
    BY StateFromBrokerCases
  <2> HIDE DEF new
  <2> QED
    BY <2>1, <2>2 DEF SerialInv, TypeOK
<1>2. CASE MatchById(w, i)
  <2>1. PICK status \in LookupViews(pending[w][i]) \ {"absent"} :
            ApplySnapshot(w, i, pending[w][i].ext, status)
    BY <1>2 DEF MatchById
  <2> DEFINE o == pending[w][i].ext
  <2>2. o \in Orders /\ status \in FetchViews(o) \ {"absent"}
    BY <2>1, PendingRowType DEF LookupViews, IntentRows, SerialInv
  <2>3. status = orders[o].st /\ orders[o].st \in Accepted
    BY <2>2 DEF FetchViews, Serial
  <2> HIDE DEF o
  <2>4. ApplySnapshot(w, i, o, status)
    BY <2>1 DEF o
  <2> QED
    BY <1>1, <2>2, <2>3, <2>4 DEF Accepted
<1>3. CASE MatchByScan(w, i)
  <2>1. PICK o \in Orders : /\ ScanCandidates(w, i) = {o}
                            /\ ApplySnapshot(w, i, o, view[w][o].st)
    BY <1>3 DEF MatchByScan
  <2>2. o \in Seen(w)
    BY <2>1 DEF ScanCandidates
  <2>3. view[w] \in [Orders -> [st : BrokerViews, keyed : BOOLEAN]]
    BY DEF SerialInv, TypeOK
  <2>4. view[w][o].st \in BrokerViews \ {"absent", "unknown"}
    BY <2>2, <2>3 DEF Seen, SerialInv, LedgerInv, ViewTruth
  <2>5. CASE view[w][o].st # "not_found"
    BY <1>1, <2>1, <2>4, <2>5 DEF BrokerViews
  <2>6. CASE view[w][o].st = "not_found"
    <3> DEFINE row == pending[w][i]
               sub == IF row.sub # NoTime THEN row.sub ELSE orders[o].opened
               new == [st |-> StateFromBroker("not_found", row.st), ext |-> o, sub |-> sub]
    <3>1. intents' = [intents EXCEPT ![i] = new]
      BY <2>1, <2>6 DEF ApplySnapshot
    <3>2. new.st = "expired_unconfirmed"
      BY StateFromBrokerCases
    <3> HIDE DEF new
    <3> QED
      BY <3>1, <3>2 DEF SerialInv, TypeOK
  <2> QED
    BY <2>5, <2>6
<1>4. CASE MatchAmbiguous(w, i) \/ MatchNone(w, i)
  <2>1. \/ MatchNone(w, i) /\ intents' = intents
        \/ \E s \in {"ambiguous", "expired_unsubmitted", "expired_unconfirmed"} :
              intents' = [intents EXCEPT ![i] = RowIn(pending[w][i], s)]
    BY <1>4 DEF MatchAmbiguous, MatchNone
  <2>2. \A s : RowIn(pending[w][i], s).st = s
    BY DEF RowIn
  <2> QED
    BY <2>1, <2>2 DEF SerialInv, TypeOK
<1> QED
  BY <1>2, <1>3, <1>4

\* A signal for which the pass finds no candidate has no position.
LEMMA NoneIsNone ==
    ASSUME NEW w, Serial(w), SerialInv(w), NEW i \in Signals, pc[w] = "match",
           ScanCandidates(w, i) = {}
    PROVE  Positions(i) = {}
<1> SUFFICES ASSUME NEW o \in Positions(i) PROVE FALSE
  OBVIOUS
<1>1. o \in Orders /\ orders[o].for = i /\ view[w][o].st # "absent" /\ view[w][o].keyed
  BY DEF SerialInv, HandInv, Positions, OrdersOf, Accepted
<1>2. o \in {q \in Seen(w) : view[w][q].keyed /\ orders[q].for = i}
  BY <1>1 DEF Seen
<1> QED
  BY <1>2 DEF ScanCandidates

\* No step of a pass breaks the invariant.
LEMMA ReconcileSerial ==
    ASSUME NEW w, Serial(w), SerialInv(w), Reconcile(w)
    PROVE  BookInv(w)' /\ RowsInv(w)' /\ HandInv(w)'
<1> USE SoleWorker
<1>0. UNCHANGED <<orders, target, call>> /\ pc[w] \in {"list", "scan", "match", "orphans"}
  BY DEF Reconcile, ListPending, Scan, PassRaises, MatchDone, OrphanPass, MatchById,
       MatchByScan, MatchAmbiguous, MatchNone, MatchRaises, brokerVars, workVars
<1>1. \A i : OrdersOf(i)' = OrdersOf(i) /\ Positions(i)' = Positions(i)
  BY <1>0, SameSets
<1>2. CASE ListPending(w)
  <2>1. CASE \E i \in Signals : intents[i].st \in PendingStates
    <3>1. /\ pc'[w] = "scan" /\ pending'[w] = PendingRows /\ UNCHANGED intents
      BY <1>2, <2>1 DEF ListPending, ledgerVars, SerialInv, TypeOK
    <3>2. \A i \in Signals : intents[i].st = "planned" => pending'[w][i] = intents[i]
      BY <3>1 DEF PendingRows, PendingStates
    <3> QED
      BY <1>0, <1>1, <3>1, <3>2 DEF SerialInv, BookInv, RowsInv, HandInv
  <2>2. CASE ~\E i \in Signals : intents[i].st \in PendingStates
    BY <1>0, <1>2, <2>2, EndPassSerial DEF ListPending, ledgerVars, PendingStates
  <2> QED
    BY <2>1, <2>2
<1>3. CASE Scan(w)
  <2>1. PICK v \in ScanResults(since[w] - Lookback) : view' = [view EXCEPT ![w] = v]
    BY <1>3 DEF Scan
  <2>2. /\ view'[w] = v /\ pc[w] = "scan" /\ pc'[w] = "match"
        /\ UNCHANGED <<pending, intents, held>>
    BY <1>3, <2>1 DEF Scan, SerialInv, TypeOK, ledgerVars, workVars
  <2>3. \A o \in Orders : orders[o].st \in Accepted => v[o].st \in Accepted /\ v[o].keyed
    BY ScanShowsAll DEF SerialInv
  <2> QED
    BY <1>0, <1>1, <2>2, <2>3 DEF SerialInv, BookInv, RowsInv, HandInv
<1>4. CASE MatchDone(w)
  <2>1. /\ pc[w] = "match" /\ pc'[w] = "orphans" /\ UNCHANGED <<intents>>
        /\ \A i \in Signals : pending[w][i].st = "none"
    BY <1>4 DEF MatchDone, Todo, SerialInv, TypeOK, ledgerVars
  <2> QED
    BY <1>0, <1>1, <2>1 DEF SerialInv, BookInv, RowsInv, HandInv
<1>5. CASE OrphanPass(w)
  <2>1. pc[w] = "orphans" /\ EndPass(w) /\ UNCHANGED intents
    BY <1>5 DEF OrphanPass
  <2>2. \A i \in Signals : intents[i].st = "planned" => Positions(i) = {}
    BY <2>1 DEF SerialInv, RowsInv
  <2> QED
    BY <1>0, <2>1, <2>2, EndPassSerial
<1>6. ASSUME NEW i \in Signals,
             MatchById(w, i) \/ MatchByScan(w, i) \/ MatchAmbiguous(w, i) \/ MatchNone(w, i)
      PROVE  BookInv(w)' /\ RowsInv(w)' /\ HandInv(w)'
  <2>1. /\ pc[w] = "match" /\ pc' = pc /\ Handled(w, i)
        /\ \A j \in Signals : j # i => intents'[j] = intents[j]
    BY <1>6, MatchWrites DEF SerialInv
  <2>2. \A j \in Signals : j # i => pending'[w][j] = pending[w][j]
    BY <2>1 DEF Handled, SerialInv, TypeOK
  <2>3. UNCHANGED view
    BY <1>6 DEF MatchById, MatchByScan, MatchAmbiguous, MatchNone
  <2>4. intents'[i].st = "planned" => Positions(i) = {}
    BY <1>6, <2>1, MatchedRow, NoneIsNone DEF MatchNone
  <2>5. RowsInv(w)'
    BY <1>0, <1>1, <1>6, <2>1, <2>2, <2>4, MatchedRow DEF SerialInv, RowsInv
  <2> QED
    BY <1>0, <1>1, <2>1, <2>3, <2>5 DEF SerialInv, BookInv, HandInv
<1> QED
  BY <1>2, <1>3, <1>4, <1>5, <1>6 DEF Reconcile, PassRaises, MatchRaises, Serial
\* Nothing is sent for a planned signal without a position but one request.
LEMMA RequestSerial ==
    ASSUME NEW w, Serial(w), SerialInv(w), CallBroker(w)
    PROVE  BookInv(w)' /\ RowsInv(w)' /\ HandInv(w)'
<1> USE SoleWorker
<1>1. PICK o \in Orders :
        /\ orders[o].st = "free"
        /\ orders' = [orders EXCEPT ![o] =
              [st |-> "inflight", for |-> target[w], tagged |-> FALSE, opened |-> 0]]
        /\ call' = [call EXCEPT ![w] = [slot |-> o, at |-> now, answer |-> "none", tries |-> 1]]
  BY DEF CallBroker, SendRequest
<1>2. /\ pc[w] = "submit" /\ pc'[w] = "sent" /\ UNCHANGED <<intents, target, held>>
  BY DEF CallBroker, SendRequest, SerialInv, TypeOK, ledgerVars
<1> DEFINE t == target[w]
           new == [st |-> "inflight", for |-> t, tagged |-> FALSE, opened |-> 0]
<1>3. \A q \in Orders : orders'[q] = IF q = o THEN new ELSE orders[q]
  BY <1>1 DEF SerialInv, TypeOK
<1>4. new.st = "inflight" /\ new.for = t
  OBVIOUS
<1> HIDE DEF new
<1>5. t \in Signals /\ intents[t].st = "planned" /\ t # 0
  BY <1>2, BrokerAssumption DEF SerialInv, Fresh, HandInv
<1>6. orders[o].for = 0
  BY <1>1 DEF SerialInv, BookInv
<1>7. \A i : Positions(i)' = Positions(i)
  BY <1>1, <1>3, <1>4 DEF Positions, OrdersOf, Accepted
<1>8. \A i \in Signals : i # t => OrdersOf(i)' = OrdersOf(i)
  BY <1>2, <1>3, <1>4, <1>6, BrokerAssumption DEF OrdersOf
<1>9. Positions(t) = {}
  BY <1>2, <1>5 DEF SerialInv, RowsInv
<1>10. BookInv(w)'
  <2>1. call'[w].slot = o
    BY <1>1 DEF SerialInv, TypeOK
  <2> QED
    BY <1>2, <1>3, <1>4, <1>5, <1>7, <2>1 DEF SerialInv, BookInv, Accepted
<1>11. RowsInv(w)'
  BY <1>2, <1>5, <1>7, <1>8, <1>9 DEF SerialInv, RowsInv
<1>12. HandInv(w)'
  <2>1. call'[w].tries = 1
    BY <1>1 DEF SerialInv, TypeOK
  <2> QED
    BY <1>2, <1>7, <1>9, <2>1 DEF SerialInv, HandInv
<1> QED
  BY <1>10, <1>11, <1>12

\* No step of the worker breaks the invariant.
LEMMA WorkSerial ==
    ASSUME NEW w, Serial(w), SerialInv(w), Work(w)
    PROVE  BookInv(w)' /\ RowsInv(w)' /\ HandInv(w)'
<1> USE SoleWorker
<1>1. ASSUME UNCHANGED orders, Finish(w), pc[w] # "sent",
             \A i \in Signals : \/ intents'[i] = intents[i]
                                \/ intents'[i].st = "submitted_unknown" /\ OrdersOf(i) # {}
                                \/ intents'[i].st \in {"accepted_open", "rejected"}
      PROVE  BookInv(w)' /\ RowsInv(w)' /\ HandInv(w)'
  <2>1. pc'[w] = "list"
    BY <1>1 DEF Finish, SerialInv, TypeOK
  <2>2. \A i : OrdersOf(i)' = OrdersOf(i) /\ Positions(i)' = Positions(i)
    BY <1>1, SameSets
  <2> QED
    BY <1>1, <2>1, <2>2 DEF SerialInv, BookInv, RowsInv, HandInv
<1>2. CASE StartWorker(w)
  <2>1. /\ UNCHANGED <<orders, intents>> /\ pc[w] = "idle" /\ pc'[w] = "list"
    BY <1>2 DEF StartWorker, SerialInv, TypeOK, brokerVars, ledgerVars
  <2>2. \A i : OrdersOf(i)' = OrdersOf(i) /\ Positions(i)' = Positions(i)
    BY <2>1, SameSets
  <2> QED
    BY <2>1, <2>2 DEF SerialInv, BookInv, RowsInv, HandInv
<1>3. CASE PickSignal(w)
  <2>1. PICK i \in Signals \cup {0} :
          IF i = 0 \/ ~Submittable(i)
             THEN Finish(w)
             ELSE /\ target' = [target EXCEPT ![w] = i]
                  /\ held' = [held EXCEPT ![w] = intents[i]]
                  /\ pc' = [pc EXCEPT ![w] = IF intents[i].st = "none"
                                             THEN "insert" ELSE "gate"]
                  /\ UNCHANGED <<sampled, call, passVars>>
    BY <1>3 DEF PickSignal
  <2>2. pc[w] = "pick" /\ UNCHANGED <<orders, intents>>
    BY <1>3 DEF PickSignal, brokerVars, ledgerVars
  <2>3. CASE i = 0 \/ ~Submittable(i)
    <3>1. Finish(w) /\ pc[w] # "sent" /\ \A j \in Signals : intents'[j] = intents[j]
      BY <2>1, <2>2, <2>3
    <3> QED
      BY <1>1, <2>2, <3>1
  <2>4. CASE i \in Signals /\ Submittable(i)
    <3>1. /\ held'[w] = intents[i]
          /\ \/ pc'[w] = "insert" /\ intents[i].st = "none"
             \/ pc'[w] = "gate" /\ intents[i].st = "planned"
      BY <2>1, <2>4 DEF SerialInv, TypeOK, Submittable
    <3>2. \A j : OrdersOf(j)' = OrdersOf(j) /\ Positions(j)' = Positions(j)
      BY <2>2, SameSets
    <3> QED
      BY <2>2, <3>1, <3>2 DEF SerialInv, BookInv, RowsInv, HandInv
  <2> QED
    BY <2>3, <2>4
<1>4. CASE InsertIntent(w)
  <2> DEFINE t == target[w]
             new == RowIn(NoRow, "planned")
  <2>1. /\ pc[w] = "insert" /\ pc'[w] = "gate" /\ UNCHANGED orders
        /\ intents' = [intents EXCEPT ![t] = new] /\ held'[w] = new
    BY <1>4 DEF InsertIntent, SerialInv, TypeOK, brokerVars
  <2>2. new.st = "planned"
    BY DEF RowIn
  <2> HIDE DEF new
  <2>3. t \in Signals /\ OrdersOf(t) = {}
    BY <2>1 DEF SerialInv, Fresh, HandInv, RowsInv
  <2>4. Positions(t) = {}
    BY <2>3 DEF Positions
  <2>5. \A j : OrdersOf(j)' = OrdersOf(j) /\ Positions(j)' = Positions(j)
    BY <2>1, SameSets
  <2>6. \A j \in Signals : intents'[j] = IF j = t THEN new ELSE intents[j]
    BY <2>1 DEF SerialInv, TypeOK
  <2> QED
    BY <2>1, <2>2, <2>4, <2>5, <2>6 DEF SerialInv, BookInv, RowsInv, HandInv
<1>5. CASE GateBlocked(w)
  <2>1. /\ pc[w] = "gate" /\ UNCHANGED orders /\ Finish(w)
        /\ intents' = [intents EXCEPT ![target[w]] = held[w]]
    BY <1>5 DEF GateBlocked, brokerVars
  <2>2. intents[target[w]] = held[w]
    BY <2>1 DEF SerialInv, Fresh
  <2>3. pc[w] # "sent" /\ \A i \in Signals : intents'[i] = intents[i]
    BY <2>1, <2>2 DEF SerialInv, TypeOK
  <2> QED
    BY <1>1, <2>1, <2>3
<1>6. CASE GatePass(w)
  <2>1. /\ pc[w] = "gate" /\ pc'[w] = "submit" /\ UNCHANGED <<orders, intents, held>>
    BY <1>6 DEF GatePass, SerialInv, TypeOK, brokerVars, ledgerVars, workVars
  <2>2. \A i : OrdersOf(i)' = OrdersOf(i) /\ Positions(i)' = Positions(i)
    BY <2>1, SameSets
  <2> QED
    BY <2>1, <2>2 DEF SerialInv, BookInv, RowsInv, HandInv
<1>7. CASE SubmitReturns(w)
  <2> DEFINE o == call[w].slot
             recorded == [st |-> orders[o].st, for |-> orders[o].for,
                          tagged |-> TRUE, opened |-> orders[o].opened]
             answered(a) == [slot |-> o, at |-> call[w].at, answer |-> a, tries |-> 0]
  <2>1. PICK answer \in {"ack", "reject", "unknown"} :
          /\ answer = "reject" => orders[o].st = "refused"
          /\ orders[o].st # "inflight"
          /\ orders' = IF answer # "ack" THEN orders ELSE [orders EXCEPT ![o] = recorded]
          /\ call' = [call EXCEPT ![w] = answered(answer)]
    BY <1>7 DEF SubmitReturns, Serial
  <2>2. /\ pc[w] = "sent" /\ pc'[w] = "save" /\ UNCHANGED <<intents, target, held>>
    BY <1>7 DEF SubmitReturns, SerialInv, TypeOK, ledgerVars
  <2>3. /\ recorded.st = orders[o].st /\ recorded.for = orders[o].for /\ recorded.tagged
        /\ answered(answer).slot = o /\ answered(answer).answer = answer
    OBVIOUS
  <2> HIDE DEF recorded, answered
  <2>4. \A q \in Orders : /\ orders'[q].st = orders[q].st /\ orders'[q].for = orders[q].for
                          /\ orders[q].tagged => orders'[q].tagged
    BY <2>1, <2>3 DEF SerialInv, TypeOK
  <2>5. \A i : OrdersOf(i)' = OrdersOf(i) /\ Positions(i)' = Positions(i)
    <3>1. \A q \in Orders : orders'[q].for = orders[q].for
      BY <2>4
    <3>2. \A q \in Orders : orders'[q].st \in Accepted <=> orders[q].st \in Accepted
      BY <2>4
    <3> QED
      BY <3>1, <3>2, SameSets
  <2>6. call'[w].slot = o /\ call'[w].answer = answer /\ o \in Orders
    <3>1. call'[w] = answered(answer)
      BY <2>1 DEF SerialInv, TypeOK
    <3> QED
      BY <2>2, <2>3, <3>1 DEF SerialInv, TypeOK, LedgerInv, CallTruth
  <2>7. BookInv(w)'
    BY <2>1, <2>2, <2>4, <2>5 DEF SerialInv, BookInv
  <2>8. RowsInv(w)'
    BY <2>2, <2>5 DEF SerialInv, RowsInv
  <2>9. HandInv(w)'
    BY <2>1, <2>2, <2>4, <2>5, <2>6 DEF SerialInv, HandInv
  <2> QED
    BY <2>7, <2>8, <2>9
<1>8. CASE SaveResult(w)
  <2> DEFINE ext == IF call[w].answer = "ack" THEN call[w].slot ELSE held[w].ext
             sub == IF held[w].sub # NoTime THEN held[w].sub ELSE call[w].at
             new == [st |-> StateFromTransport(call[w].answer), ext |-> ext, sub |-> sub]
  <2>1. /\ Finish(w) /\ UNCHANGED orders /\ pc[w] = "save"
        /\ intents' = [intents EXCEPT ![target[w]] = new]
    BY <1>8 DEF SaveResult, brokerVars
  <2>2. new.st \in {"accepted_open", "rejected", "submitted_unknown"}
    BY StateFromTransportCases
  <2> HIDE DEF new
  <2>3. call[w].slot \in OrdersOf(target[w])
    BY <2>1 DEF SerialInv, TypeOK, LedgerInv, CallTruth, OrdersOf
  <2>4. \A i \in Signals : intents'[i] = IF i = target[w] THEN new ELSE intents[i]
    BY <2>1 DEF SerialInv, TypeOK
  <2>5. \A i \in Signals : \/ intents'[i] = intents[i]
                           \/ intents'[i].st = "submitted_unknown" /\ OrdersOf(i) # {}
                           \/ intents'[i].st \in {"accepted_open", "rejected"}
    BY <2>2, <2>3, <2>4
  <2> QED
    BY <1>1, <2>1, <2>5
<1>9. ~BuyAgain(w) /\ ~DeadlinePassed(w)
  BY LedgerAssumption DEF BuyAgain, DeadlinePassed, Tries, Serial, SerialInv, HandInv, TypeOK
<1> QED
  BY <1>2, <1>3, <1>4, <1>5, <1>6, <1>7, <1>8, <1>9, RequestSerial DEF Work
-----------------------------------------------------------------------------
(* The refinement.                                                         *)

\* The invariant, of every execution spoken of.
LEMMA SerialStep ==
    ASSUME NEW w, Serial(w), SerialInv(w), [Next]_vars
    PROVE  BookInv(w)' /\ RowsInv(w)' /\ HandInv(w)'
<1> USE SoleWorker
<1>1. CASE UNCHANGED vars
  <2>1. UNCHANGED <<orders, intents, pc, pending, view, held, target, call>>
    BY <1>1 DEF vars, brokerVars, ledgerVars, passVars, workVars
  <2>2. \A i : OrdersOf(i)' = OrdersOf(i) /\ Positions(i)' = Positions(i)
    BY <2>1, SameSets
  <2> QED
    BY <2>1, <2>2 DEF SerialInv, BookInv, RowsInv, HandInv
<1>2. CASE Next
  <2>1. ~\E o \in Orders : OtherScopeSaves(o)
    BY DEF OtherScopeSaves, BridgeForgets, Serial
  <2> QED
    BY <1>2, <2>1, EnvironmentSerial, CrashSerial, ReconcileSerial, WorkSerial DEF Next, Serial
<1> QED
  BY <1>1, <1>2

\* What the broker answered for a signal, said of the set of its orders.
AnswerIs(i, a) ==
    \/ a = "unasked" /\ OrdersOf(i) = {} /\ Positions(i) = {}
    \/ a = "asked" /\ Positions(i) = {} /\ \E o \in OrdersOf(i) : orders[o].st = "inflight"
    \/ /\ a = "refused" /\ Positions(i) = {} /\ OrdersOf(i) # {}
       /\ \A o \in OrdersOf(i) : orders[o].st # "inflight"
    \/ \E o \in Orders : Positions(i) = {o} /\ a = orders[o].st

\* That is what BrokerAnswer computes, before a step ...
LEMMA AnswerBefore ==
    ASSUME NEW i, NEW a, AnswerIs(i, a)
    PROVE  BrokerAnswer(i) = a
<1>1. ASSUME NEW o, Positions(i) = {o} PROVE BrokerAnswer(i) = orders[o].st
  <2>1. Cardinality(Positions(i)) = 1 /\ (CHOOSE q \in Positions(i) : TRUE) = o
    BY <1>1, FS_Singleton
  <2> QED
    BY <1>1, <2>1 DEF BrokerAnswer
<1>2. CASE Positions(i) = {}
  BY <1>2 DEF AnswerIs, BrokerAnswer
<1> QED
  BY <1>1, <1>2 DEF AnswerIs

\* ... and after it.
LEMMA AnswerAfter ==
    ASSUME NEW CONSTANT i, NEW CONSTANT a, AnswerIs(i, a)'
    PROVE  BrokerAnswer(i)' = a
<1>1. ASSUME NEW o, Positions(i)' = {o} PROVE BrokerAnswer(i)' = orders'[o].st
  <2>1. Cardinality(Positions(i)') = 1 /\ (CHOOSE q \in Positions(i)' : TRUE) = o
    BY <1>1, FS_Singleton
  <2> QED
    BY <1>1, <2>1 DEF BrokerAnswer
<1>2. CASE Positions(i)' = {}
  BY <1>2 DEF AnswerIs, BrokerAnswer
<1> QED
  BY <1>1, <1>2 DEF AnswerIs

\* With at most one position per signal there always is such an answer.
LEMMA AnswerIsSome ==
    ASSUME NEW w, BookInv(w), NEW i \in Signals
    PROVE  AnswerIs(i, BrokerAnswer(i))
<1>1. CASE Positions(i) = {}
  BY <1>1 DEF AnswerIs, BrokerAnswer, Positions
<1>2. ASSUME NEW o \in Positions(i) PROVE AnswerIs(i, BrokerAnswer(i))
  <2>1. Positions(i) = {o} /\ o \in Orders
    BY <1>2 DEF BookInv, Positions, OrdersOf
  <2>2. AnswerIs(i, orders[o].st)
    BY <2>1 DEF AnswerIs
  <2> QED
    BY <2>2, AnswerBefore
<1> QED
  BY <1>1, <1>2

\* A signal whose orders a step leaves alone keeps its answer.
LEMMA AnswerKept ==
    ASSUME NEW i, OrdersOf(i)' = OrdersOf(i),
           \A o \in OrdersOf(i) : orders'[o].st = orders[o].st
    PROVE  BrokerAnswer(i)' = BrokerAnswer(i)
<1>1. Positions(i)' = Positions(i) /\ \A o \in Positions(i) : orders'[o].st = orders[o].st
  BY DEF Positions
<1> QED
  BY <1>1 DEF BrokerAnswer

\* The abstract step of a signal whose row moves ...
LEMMA RowMoves ==
    ASSUME NEW i \in Signals,
           \A j \in Signals : BrokerAnswer(j)' = BrokerAnswer(j),
           \A j \in Signals : j # i => intents'[j].st = intents[j].st,
           intents[i].st \in PendingStates, intents'[i].st \in IntentStates,
           intents'[i].st \in Lifecycle!Allowed(intents[i].st, BrokerAnswer(i)),
           intents'[i].st = "submitted_unknown" => intents[i].st = "planned"
    PROVE  Lifecycle!Next
<1>0. PICK to \in IntentStates : to = intents'[i].st
  OBVIOUS
<1>1. /\ intents[i].st \in Lifecycle!PendingStates /\ to \in Lifecycle!IntentStates
  BY <1>0 DEF PendingStates, IntentStates, TerminalStates, Lifecycle!PendingStates,
         Lifecycle!IntentStates, Lifecycle!TerminalStates
<1>2. [j \in Signals |-> intents'[j].st] = [[j \in Signals |-> intents[j].st] EXCEPT ![i] = to]
  BY <1>0
<1>3. [j \in Signals |-> BrokerAnswer(j)'] = [j \in Signals |-> BrokerAnswer(j)]
  OBVIOUS
<1>4. [j \in Signals |-> intents[j].st][i] = intents[i].st
      /\ [j \in Signals |-> BrokerAnswer(j)][i] = BrokerAnswer(i)
  OBVIOUS
<1>5. /\ to \in Lifecycle!Allowed(intents[i].st, BrokerAnswer(i))
      /\ to = "submitted_unknown" => intents[i].st = "planned"
  BY <1>0
<1>6. Lifecycle!Record(i, to)
  BY <1>1, <1>2, <1>3, <1>4, <1>5 DEF Lifecycle!Record
<1> QED
  BY <1>1, <1>6 DEF Lifecycle!Next

\* ... of one for which the broker's answer changes ...
LEMMA AnswerMoves ==
    ASSUME NEW i \in Signals, NEW a \in {"open", "refused", "closed", "cancelled"},
           \A j \in Signals : intents'[j].st = intents[j].st,
           \A j \in Signals : j # i => BrokerAnswer(j)' = BrokerAnswer(j),
           BrokerAnswer(i)' = a,
           \/ BrokerAnswer(i) = "asked" /\ a \in {"open", "refused"}
           \/ BrokerAnswer(i) = "open" /\ a \in {"closed", "cancelled"}
    PROVE  Lifecycle!Next
<1>1. Lifecycle!Answer(i, a)
  BY DEF Lifecycle!Answer
<1> QED
  BY <1>1 DEF Lifecycle!Next, Lifecycle!Answers

\* ... none, when neither does ...
LEMMA NothingMoves ==
    ASSUME \A j \in Signals : intents'[j].st = intents[j].st,
           \A j \in Signals : BrokerAnswer(j)' = BrokerAnswer(j)
    PROVE  UNCHANGED Lifecycle!vars
BY DEF Lifecycle!vars

\* ... of one that gets its intent ...
LEMMA PlanMoves ==
    ASSUME NEW i \in Signals,
           \A j \in Signals : BrokerAnswer(j)' = BrokerAnswer(j),
           \A j \in Signals : j # i => intents'[j].st = intents[j].st,
           intents[i].st = "none", intents'[i].st = "planned",
           BrokerAnswer(i) = "unasked"
    PROVE  Lifecycle!Next
<1>1. [j \in Signals |-> intents'[j].st]
        = [[j \in Signals |-> intents[j].st] EXCEPT ![i] = "planned"]
  OBVIOUS
<1>2. [j \in Signals |-> BrokerAnswer(j)'] = [j \in Signals |-> BrokerAnswer(j)]
  OBVIOUS
<1>3. Lifecycle!Plan(i)
  BY <1>1, <1>2 DEF Lifecycle!Plan
<1> QED
  BY <1>3 DEF Lifecycle!Next

\* ... and of one for which the broker is asked.
LEMMA AskMoves ==
    ASSUME NEW i \in Signals,
           \A j \in Signals : intents'[j].st = intents[j].st,
           \A j \in Signals : j # i => BrokerAnswer(j)' = BrokerAnswer(j),
           intents[i].st = "planned", BrokerAnswer(i) \in {"unasked", "refused"},
           BrokerAnswer(i)' = "asked"
    PROVE  Lifecycle!Next
<1>1. [j \in Signals |-> intents'[j].st] = [j \in Signals |-> intents[j].st]
  OBVIOUS
<1>2. [j \in Signals |-> BrokerAnswer(j)']
        = [[j \in Signals |-> BrokerAnswer(j)] EXCEPT ![i] = "asked"]
  OBVIOUS
<1>3. Lifecycle!Ask(i)
  BY <1>1, <1>2 DEF Lifecycle!Ask
<1> QED
  BY <1>3 DEF Lifecycle!Next

-----------------------------------------------------------------------------
(* What the broker answered, under the invariant.                          *)

\* A position answers for its signal ...
LEMMA PositionAnswers ==
    ASSUME NEW w, BookInv(w), NEW i \in Signals, NEW o \in Orders,
           orders[o].for = i, orders[o].st \in Accepted
    PROVE  Positions(i) = {o} /\ BrokerAnswer(i) = orders[o].st
<1>1. Positions(i) = {o}
  BY DEF BookInv, Positions, OrdersOf
<1>2. AnswerIs(i, orders[o].st)
  BY <1>1 DEF AnswerIs
<1> QED
  BY <1>1, <1>2, AnswerBefore

\* ... and without one, unless the worker waits for the answer, so does a refusal.
LEMMA QuietAnswers ==
    ASSUME NEW w, BookInv(w), NEW i \in Signals, pc[w] # "sent", Positions(i) = {}
    PROVE  BrokerAnswer(i) = IF OrdersOf(i) = {} THEN "unasked" ELSE "refused"
<1>1. \A o \in OrdersOf(i) : orders[o].st # "inflight"
  BY DEF BookInv, OrdersOf
<1>2. AnswerIs(i, IF OrdersOf(i) = {} THEN "unasked" ELSE "refused")
  BY <1>1 DEF AnswerIs
<1> QED
  BY <1>2, AnswerBefore

\* A request under way is that of the signal in hand.
LEMMA InflightAnswers ==
    ASSUME NEW w, Serial(w), SerialInv(w), NEW o \in Orders, orders[o].st = "inflight"
    PROVE  /\ pc[w] = "sent" /\ o = call[w].slot
           /\ target[w] \in Signals /\ orders[o].for = target[w]
           /\ Positions(target[w]) = {} /\ BrokerAnswer(target[w]) = "asked"
<1> DEFINE t == target[w]
<1>1. pc[w] = "sent" /\ o = call[w].slot
  BY DEF SerialInv, BookInv
<1>2. orders[o].for = t /\ t \in Signals
  BY <1>1, SoleWorker DEF SerialInv, LedgerInv, CallTruth, Fresh
<1>3. Positions(t) = {}
  BY <1>1 DEF SerialInv, HandInv, Positions, Accepted
<1>4. o \in OrdersOf(t)
  BY <1>2 DEF OrdersOf
<1>5. AnswerIs(t, "asked")
  BY <1>3, <1>4 DEF AnswerIs
<1> QED
  BY <1>1, <1>2, <1>3, <1>5, AnswerBefore

\* What the abstract ledger lets a row become.
LEMMA AllowedIs ==
    /\ \A from, a : a \in Accepted => "accepted_open" \in Lifecycle!Allowed(from, a)
    /\ \A from, a : a \in Accepted => "submitted_unknown" \in Lifecycle!Allowed(from, a)
    /\ \A from : "settled" \in Lifecycle!Allowed(from, "closed")
    /\ \A from : "rejected" \in Lifecycle!Allowed(from, "cancelled")
    /\ "expired_unsubmitted" \in Lifecycle!Allowed("planned", "unasked")
    /\ {"submitted_unknown", "rejected", "expired_unsubmitted"}
          \subseteq Lifecycle!Allowed("planned", "refused")
    /\ "expired_unconfirmed" \in Lifecycle!Allowed("submitted_unknown", "refused")
BY DEF Lifecycle!Allowed, Accepted

-----------------------------------------------------------------------------
(* Every step is one of OrderLifecycle, or none.                           *)

\* A request under way that ends in a state s of its order.
LEMMA RequestEnds ==
    ASSUME NEW w, Serial(w), SerialInv(w), NEW o \in Orders, NEW s \in {"open", "refused"},
           orders[o].st = "inflight", UNCHANGED intents,
           \A q \in Orders : orders'[q].for = orders[q].for,
           \A q \in Orders : orders'[q].st = IF q = o THEN s ELSE orders[q].st
    PROVE  Lifecycle!Next
<1>1. PICK t \in Signals : /\ orders[o].for = t /\ o = call[w].slot
                           /\ Positions(t) = {} /\ BrokerAnswer(t) = "asked"
  BY InflightAnswers
<1>2. \A j : OrdersOf(j)' = OrdersOf(j)
  BY DEF OrdersOf
<1>3. \A j \in Signals : j # t => BrokerAnswer(j)' = BrokerAnswer(j)
  <2> SUFFICES ASSUME NEW j \in Signals, j # t PROVE BrokerAnswer(j)' = BrokerAnswer(j)
    OBVIOUS
  <2>1. \A q \in OrdersOf(j) : orders'[q].st = orders[q].st
    BY <1>1 DEF OrdersOf
  <2> QED
    BY <1>2, <2>1, AnswerKept
<1>4. o \in OrdersOf(t)' /\ \A q \in Positions(t)' : q = o
  <2>1. o \in OrdersOf(t)'
    BY <1>1, <1>2 DEF OrdersOf
  <2>2. \A q \in Positions(t)' : q # o => q \in Positions(t)
    BY <1>2 DEF Positions, OrdersOf
  <2> QED
    BY <1>1, <2>1, <2>2
<1>5. AnswerIs(t, s)'
  <2>1. CASE s = "open"
    <3>1. Positions(t)' = {o} /\ s = orders'[o].st
      BY <1>4, <2>1 DEF Positions, Accepted
    <3> QED
      BY <3>1 DEF AnswerIs
  <2>2. CASE s = "refused"
    <3>1. Positions(t)' = {}
      BY <1>4, <2>2 DEF Positions, Accepted
    <3>2. \A q \in OrdersOf(t)' : orders'[q].st # "inflight"
      BY <1>1, <2>2 DEF SerialInv, BookInv, OrdersOf
    <3> QED
      BY <1>4, <2>2, <3>1, <3>2 DEF AnswerIs
  <2> QED
    BY <2>1, <2>2
<1>6. BrokerAnswer(t)' = s
  BY <1>5, AnswerAfter
<1> QED
  BY <1>1, <1>3, <1>6, AnswerMoves

\* A position that is settled.
LEMMA PositionEnds ==
    ASSUME NEW w, Serial(w), SerialInv(w), NEW o \in Orders, NEW s \in {"closed", "cancelled"},
           orders[o].st = "open", UNCHANGED intents,
           \A q \in Orders : orders'[q].for = orders[q].for,
           \A q \in Orders : orders'[q].st = IF q = o THEN s ELSE orders[q].st
    PROVE  Lifecycle!Next
<1>1. PICK i \in Signals : i = orders[o].for
  BY DEF SerialInv, TypeOK, BookInv, OrderRecords
<1>2. Positions(i) = {o} /\ BrokerAnswer(i) = "open"
  BY <1>1, PositionAnswers DEF SerialInv, Accepted
<1>3. \A j : OrdersOf(j)' = OrdersOf(j) /\ Positions(j)' = Positions(j)
  BY SameSets DEF Accepted
<1>4. \A j \in Signals : j # i => BrokerAnswer(j)' = BrokerAnswer(j)
  <2> SUFFICES ASSUME NEW j \in Signals, j # i PROVE BrokerAnswer(j)' = BrokerAnswer(j)
    OBVIOUS
  <2>1. \A q \in OrdersOf(j) : orders'[q].st = orders[q].st
    BY <1>1 DEF OrdersOf
  <2> QED
    BY <1>3, <2>1, AnswerKept
<1>5. AnswerIs(i, s)'
  BY <1>2, <1>3 DEF AnswerIs
<1>6. BrokerAnswer(i)' = s
  BY <1>5, AnswerAfter
<1> QED
  BY <1>2, <1>4, <1>6, AnswerMoves

\* Steps that leave the states of all orders alone leave every answer.
LEMMA AnswersKept ==
    ASSUME \A q \in Orders : orders'[q].for = orders[q].for /\ orders'[q].st = orders[q].st
    PROVE  \A j \in Signals : BrokerAnswer(j)' = BrokerAnswer(j)
<1> SUFFICES ASSUME NEW j \in Signals PROVE BrokerAnswer(j)' = BrokerAnswer(j)
  OBVIOUS
<1>1. OrdersOf(j)' = OrdersOf(j) /\ \A q \in OrdersOf(j) : orders'[q].st = orders[q].st
  BY DEF OrdersOf
<1> QED
  BY <1>1, AnswerKept

\* The environment: the broker's steps are its answers, the rest is not seen.
LEMMA EnvironmentRefines ==
    ASSUME NEW w, Serial(w), SerialInv(w),
           \/ Tick \/ ToggleHalt
           \/ \E i \in Signals, verdict \in Verdicts : Emit(i, verdict)
           \/ \E o \in Orders : Broker(o)
    PROVE  Lifecycle!Next \/ UNCHANGED Lifecycle!vars
<1>1. CASE \/ Tick \/ ToggleHalt
           \/ \E i \in Signals, verdict \in Verdicts : Emit(i, verdict)
  <2>1. UNCHANGED <<orders, intents>>
    BY <1>1 DEF Tick, ToggleHalt, Emit, brokerVars, ledgerVars
  <2> QED
    BY <2>1, AnswersKept, NothingMoves
<1>2. ASSUME NEW o \in Orders, Broker(o)
      PROVE  Lifecycle!Next
  <2>1. UNCHANGED intents
    BY <1>2 DEF Broker, ledgerVars
  <2>2. CASE BrokerAccept(o)
    <3> DEFINE new == [st |-> "open", for |-> orders[o].for, tagged |-> Provider = "fake",
                       opened |-> now]
    <3>1. orders' = [orders EXCEPT ![o] = new] /\ orders[o].st = "inflight"
      BY <2>2 DEF BrokerAccept
    <3>2. new.st = "open" /\ new.for = orders[o].for
      OBVIOUS
    <3> HIDE DEF new
    <3>3. \A q \in Orders : orders'[q] = IF q = o THEN new ELSE orders[q]
      BY <3>1 DEF SerialInv, TypeOK
    <3> QED
      BY <2>1, <3>1, <3>2, <3>3, RequestEnds
  <2>3. ASSUME NEW s \in {"refused", "closed", "cancelled"},
               orders' = [orders EXCEPT ![o] = OrderIn(o, s)]
        PROVE  \A q \in Orders : /\ orders'[q].for = orders[q].for
                                 /\ orders'[q].st = IF q = o THEN s ELSE orders[q].st
    <3>1. \A q \in Orders : orders'[q] = IF q = o THEN OrderIn(o, s) ELSE orders[q]
      BY <2>3 DEF SerialInv, TypeOK
    <3>2. OrderIn(o, s).st = s /\ OrderIn(o, s).for = orders[o].for
      BY DEF OrderIn
    <3> QED
      BY <3>1, <3>2
  <2>4. CASE BrokerRefuse(o)
    BY <2>1, <2>3, <2>4, RequestEnds DEF BrokerRefuse
  <2>5. ASSUME NEW s \in {"closed", "cancelled"}, BrokerClose(o, s)
        PROVE  Lifecycle!Next
    BY <2>1, <2>3, <2>5, PositionEnds DEF BrokerClose
  <2> QED
    BY <1>2, <2>2, <2>4, <2>5 DEF Broker
<1> QED
  BY <1>1, <1>2

\* A kill: the fake broker refuses the request that dies with its caller.
LEMMA CrashRefines ==
    ASSUME NEW w, Serial(w), SerialInv(w), Crash(w)
    PROVE  Lifecycle!Next \/ UNCHANGED Lifecycle!vars
<1>1. UNCHANGED intents
  BY DEF Crash, ledgerVars
<1>2. \A q \in Orders : orders'[q] = IF orders[q].st = "inflight"
                                    THEN OrderIn(q, "refused") ELSE orders[q]
  BY DEF Crash, SerialInv, BookInv, Serial
<1>3. \A q \in Orders : OrderIn(q, "refused").st = "refused"
                        /\ OrderIn(q, "refused").for = orders[q].for
  BY DEF OrderIn
<1>4. CASE \E o \in Orders : orders[o].st = "inflight"
  <2>1. PICK o \in Orders : orders[o].st = "inflight"
    BY <1>4
  <2>2. \A q \in Orders : orders[q].st = "inflight" => q = o
    BY <2>1 DEF SerialInv, BookInv
  <2>3. \A q \in Orders : /\ orders'[q].for = orders[q].for
                          /\ orders'[q].st = IF q = o THEN "refused" ELSE orders[q].st
    BY <1>2, <1>3, <2>1, <2>2
  <2> QED
    BY <1>1, <2>1, <2>3, RequestEnds
<1>5. CASE ~\E o \in Orders : orders[o].st = "inflight"
  <2>1. \A q \in Orders : orders'[q] = orders[q]
    BY <1>2, <1>5
  <2> QED
    BY <1>1, <2>1, AnswersKept, NothingMoves
<1> QED
  BY <1>4, <1>5

\* The worker: an intent is planned, the broker is asked, its answer is recorded.
LEMMA WorkRefines ==
    ASSUME NEW w, Serial(w), SerialInv(w), Work(w)
    PROVE  Lifecycle!Next \/ UNCHANGED Lifecycle!vars
<1> USE SoleWorker
<1>1. ASSUME UNCHANGED <<orders, intents>>
      PROVE  UNCHANGED Lifecycle!vars
  BY <1>1, AnswersKept, NothingMoves
<1>2. CASE StartWorker(w) \/ PickSignal(w) \/ GatePass(w)
  BY <1>1, <1>2 DEF StartWorker, PickSignal, GatePass, brokerVars, ledgerVars
<1>3. CASE InsertIntent(w)
  <2>1. PICK t \in Signals : /\ t = target[w]
                             /\ intents[t].st = "none" /\ OrdersOf(t) = {}
    BY <1>3 DEF InsertIntent, SerialInv, Fresh, HandInv, RowsInv
  <2> DEFINE new == RowIn(NoRow, "planned")
  <2>2. intents' = [intents EXCEPT ![t] = new] /\ new.st = "planned"
    BY <1>3, <2>1 DEF InsertIntent, RowIn
  <2> HIDE DEF new
  <2>3. \A j \in Signals : intents'[j] = IF j = t THEN new ELSE intents[j]
    BY <2>2 DEF SerialInv, TypeOK
  <2>4. pc[w] # "sent" /\ UNCHANGED orders
    BY <1>3 DEF InsertIntent, brokerVars
  <2>5. BrokerAnswer(t) = "unasked"
    BY <2>1, <2>4, QuietAnswers DEF SerialInv, Positions
  <2>6. \A j \in Signals : BrokerAnswer(j)' = BrokerAnswer(j)
    BY <2>4, AnswersKept
  <2> QED
    BY <2>1, <2>2, <2>3, <2>5, <2>6, PlanMoves
<1>4. CASE GateBlocked(w)
  <2>1. /\ UNCHANGED orders /\ intents' = [intents EXCEPT ![target[w]] = held[w]]
        /\ intents[target[w]] = held[w]
    BY <1>4 DEF GateBlocked, brokerVars, SerialInv, Fresh
  <2>2. \A j \in Signals : intents'[j].st = intents[j].st
    BY <2>1 DEF SerialInv, TypeOK
  <2> QED
    BY <2>1, <2>2, AnswersKept, NothingMoves
<1>5. CASE CallBroker(w)
  <2>1. PICK t \in Signals : t = target[w] /\ intents[t].st = "planned" /\ Positions(t) = {}
    BY <1>5 DEF CallBroker, SerialInv, Fresh, HandInv, RowsInv
  <2>2. PICK o \in Orders :
          /\ orders[o].st = "free"
          /\ orders' = [orders EXCEPT ![o] =
                [st |-> "inflight", for |-> t, tagged |-> FALSE, opened |-> 0]]
    BY <1>5, <2>1 DEF CallBroker, SendRequest
  <2> DEFINE new == [st |-> "inflight", for |-> t, tagged |-> FALSE, opened |-> 0]
  <2>3. \A q \in Orders : orders'[q] = IF q = o THEN new ELSE orders[q]
    BY <2>2 DEF SerialInv, TypeOK
  <2>4. new.st = "inflight" /\ new.for = t
    OBVIOUS
  <2> HIDE DEF new
  <2>5. orders[o].for = 0 /\ t # 0
    BY <2>2, BrokerAssumption DEF SerialInv, BookInv
  <2>6. pc[w] # "sent" /\ UNCHANGED intents
    BY <1>5 DEF CallBroker, SendRequest, ledgerVars
  <2>7. BrokerAnswer(t) \in {"unasked", "refused"}
    BY <2>1, <2>6, QuietAnswers DEF SerialInv
  <2>8. BrokerAnswer(t)' = "asked"
    <3>1. Positions(t)' = {}
      BY <2>1, <2>3, <2>4 DEF Positions, OrdersOf, Accepted
    <3>2. o \in OrdersOf(t)' /\ orders'[o].st = "inflight"
      BY <2>3, <2>4 DEF OrdersOf
    <3>3. AnswerIs(t, "asked")'
      BY <3>1, <3>2 DEF AnswerIs
    <3> QED
      BY <3>3, AnswerAfter
  <2>9. ASSUME NEW j \in Signals, j # t PROVE BrokerAnswer(j)' = BrokerAnswer(j)
    <3>1. OrdersOf(j)' = OrdersOf(j)
      BY <2>3, <2>4, <2>5, <2>9, BrokerAssumption DEF OrdersOf
    <3>2. \A q \in OrdersOf(j) : orders'[q].st = orders[q].st
      BY <2>3, <2>5, BrokerAssumption DEF OrdersOf
    <3> QED
      BY <3>1, <3>2, AnswerKept
  <2> QED
    BY <2>1, <2>6, <2>7, <2>8, <2>9, AskMoves
<1>6. CASE SubmitReturns(w)
  <2> DEFINE o == call[w].slot
             recorded == [st |-> orders[o].st, for |-> orders[o].for,
                          tagged |-> TRUE, opened |-> orders[o].opened]
  <2>1. orders' = orders \/ orders' = [orders EXCEPT ![o] = recorded]
    BY <1>6 DEF SubmitReturns
  <2>2. recorded.st = orders[o].st /\ recorded.for = orders[o].for
    OBVIOUS
  <2> HIDE DEF recorded
  <2>3. \A q \in Orders : orders'[q].for = orders[q].for /\ orders'[q].st = orders[q].st
    BY <2>1, <2>2 DEF SerialInv, TypeOK
  <2>4. UNCHANGED intents
    BY <1>6 DEF SubmitReturns, ledgerVars
  <2> QED
    BY <2>3, <2>4, AnswersKept, NothingMoves
<1>7. CASE SaveResult(w)
  <2>1. PICK t \in Signals : t = target[w] /\ intents[t].st = "planned"
    BY <1>7 DEF SaveResult, SerialInv, Fresh, HandInv
  <2> DEFINE o == call[w].slot
             ext == IF call[w].answer = "ack" THEN call[w].slot ELSE held[w].ext
             sub == IF held[w].sub # NoTime THEN held[w].sub ELSE call[w].at
             s == StateFromTransport(call[w].answer)
             new == [st |-> s, ext |-> ext, sub |-> sub]
  <2>2. /\ UNCHANGED orders /\ pc[w] = "save" /\ intents' = [intents EXCEPT ![t] = new]
    BY <1>7, <2>1 DEF SaveResult, brokerVars
  <2>3. new.st = s
    OBVIOUS
  <2>4. /\ call[w].answer = "ack" => s = "accepted_open"
        /\ call[w].answer = "reject" => s = "rejected"
        /\ call[w].answer \notin {"ack", "reject"} => s = "submitted_unknown"
    BY DEF StateFromTransport
  <2> HIDE DEF s, new
  <2>5. \A j \in Signals : intents'[j] = IF j = t THEN new ELSE intents[j]
    BY <2>2 DEF SerialInv, TypeOK
  <2>6. o \in Orders /\ orders[o].for = t
    BY <2>1, <2>2 DEF SerialInv, TypeOK, LedgerInv, CallTruth
  <2>7. Positions(t) \subseteq {o} /\ OrdersOf(t) # {}
    BY <2>1, <2>2, <2>6 DEF SerialInv, HandInv, OrdersOf
  <2>8. s \in Lifecycle!Allowed("planned", BrokerAnswer(t))
    <3>1. CASE orders[o].st \in Accepted
      <4>1. BrokerAnswer(t) = orders[o].st
        BY <2>6, <3>1, PositionAnswers DEF SerialInv
      <4>2. call[w].answer # "reject"
        BY <2>2, <3>1 DEF SerialInv, HandInv, Accepted
      <4> QED
        BY <2>4, <3>1, <4>1, <4>2, AllowedIs
    <3>2. CASE orders[o].st \notin Accepted
      <4>1. Positions(t) = {}
        BY <2>7, <3>2 DEF Positions
      <4>2. BrokerAnswer(t) = "refused"
        BY <2>2, <2>7, <4>1, QuietAnswers DEF SerialInv
      <4>3. call[w].answer # "ack"
        BY <3>2 DEF SerialInv, LedgerInv, CallTruth
      <4> QED
        BY <2>4, <4>2, <4>3, AllowedIs
    <3> QED
      BY <3>1, <3>2
  <2>9. /\ intents[t].st \in PendingStates /\ intents'[t].st = s /\ s \in IntentStates
    BY <2>1, <2>3, <2>4, <2>5 DEF PendingStates, IntentStates, TerminalStates
  <2>10. \A j \in Signals : BrokerAnswer(j)' = BrokerAnswer(j)
    BY <2>2, AnswersKept
  <2> QED
    BY <2>1, <2>5, <2>8, <2>9, <2>10, RowMoves
<1>8. ~BuyAgain(w) /\ ~DeadlinePassed(w)
  BY LedgerAssumption DEF BuyAgain, DeadlinePassed, Tries, Serial, SerialInv, HandInv, TypeOK
<1> QED
  BY <1>2, <1>3, <1>4, <1>5, <1>6, <1>7, <1>8 DEF Work

\* The row at hand takes a position's state.
LEMMA SnapshotRefines ==
    ASSUME NEW w, Serial(w), SerialInv(w), NEW i \in Signals, NEW o \in Orders,
           NEW status \in Accepted, ApplySnapshot(w, i, o, status), UNCHANGED orders,
           intents[i].st \in PendingStates,
           orders[o].for = i, orders[o].st \in Accepted,
           status \in {"closed", "cancelled"} => orders[o].st = status
    PROVE  Lifecycle!Next
<1> DEFINE row == pending[w][i]
           sub == IF row.sub # NoTime THEN row.sub ELSE orders[o].opened
           s == StateFromBroker(status, row.st)
           new == [st |-> s, ext |-> o, sub |-> sub]
<1>1. intents' = [intents EXCEPT ![i] = new]
  BY DEF ApplySnapshot
<1>2. new.st = s
  OBVIOUS
<1>3. /\ status = "open" => s = "accepted_open"
      /\ status = "closed" => s = "settled"
      /\ status = "cancelled" => s = "rejected"
  BY StateFromBrokerCases
<1> HIDE DEF s, new
<1>4. \A j \in Signals : intents'[j] = IF j = i THEN new ELSE intents[j]
  BY <1>1 DEF SerialInv, TypeOK
<1>5. BrokerAnswer(i) = orders[o].st
  BY PositionAnswers DEF SerialInv
<1>6. s \in Lifecycle!Allowed(intents[i].st, BrokerAnswer(i))
  BY <1>3, <1>5, AllowedIs DEF Accepted
<1>7. intents'[i].st = s /\ s \in IntentStates /\ s # "submitted_unknown"
  BY <1>2, <1>3, <1>4 DEF Accepted, IntentStates, PendingStates, TerminalStates
<1>8. \A j \in Signals : BrokerAnswer(j)' = BrokerAnswer(j)
  BY AnswersKept
<1> QED
  BY <1>4, <1>6, <1>7, <1>8, RowMoves

\* What a pass takes for an order of signal i is one.
LEMMA CandidatesAreOwn ==
    ASSUME NEW w, Serial(w), SerialInv(w), NEW i \in Signals, pc[w] = "match",
           NEW o \in ScanCandidates(w, i)
    PROVE  /\ o \in Orders /\ orders[o].for = i
           /\ orders[o].st \in Accepted /\ view[w][o].st \in Accepted
           /\ view[w][o].st \in {"closed", "cancelled"} => orders[o].st = view[w][o].st
<1>1. o \in Orders /\ view[w][o].st # "absent" /\ orders[o].for = i
  BY DEF ScanCandidates, Seen, Fingerprint, Serial
<1>2. ViewTruth(orders, o, view[w][o].st)
  BY <1>1, SoleWorker DEF SerialInv, LedgerInv
<1>3. orders[o].st \in Accepted
  BY <1>1, <1>2 DEF ViewTruth
<1>4. view[w][o].st \in Accepted
  BY <1>1, <1>3 DEF SerialInv, HandInv
<1> QED
  BY <1>1, <1>2, <1>3, <1>4 DEF ViewTruth

\* A pass records what the broker's answer allows.
LEMMA ReconcileRefines ==
    ASSUME NEW w, Serial(w), SerialInv(w), Reconcile(w)
    PROVE  Lifecycle!Next \/ UNCHANGED Lifecycle!vars
<1> USE SoleWorker
<1>1. UNCHANGED orders
  BY DEF Reconcile, ListPending, Scan, PassRaises, MatchDone, OrphanPass, MatchById,
         MatchByScan, MatchAmbiguous, MatchNone, MatchRaises, brokerVars
<1>2. \A j \in Signals : BrokerAnswer(j)' = BrokerAnswer(j)
  BY <1>1, AnswersKept
<1>3. CASE \/ ListPending(w) \/ Scan(w) \/ PassRaises(w) \/ MatchDone(w) \/ OrphanPass(w)
           \/ \E i \in Signals : MatchRaises(w, i)
  <2>1. UNCHANGED intents
    BY <1>3 DEF ListPending, Scan, PassRaises, MatchDone, OrphanPass, MatchRaises, ledgerVars
  <2> QED
    BY <1>2, <2>1, NothingMoves
<1>4. ASSUME NEW i \in Signals,
             MatchById(w, i) \/ MatchByScan(w, i) \/ MatchAmbiguous(w, i) \/ MatchNone(w, i)
      PROVE  Lifecycle!Next \/ UNCHANGED Lifecycle!vars
  <2> DEFINE row == pending[w][i]
  <2>1. pc[w] = "match" /\ intents[i] = row /\ intents[i].st \in PendingStates
    BY <1>4, MatchWrites DEF SerialInv, Fresh
  <2>2. RowTruth(orders, i, row)
    BY DEF SerialInv, LedgerInv
  <2>3. row \in IntentRows
    BY PendingRowType DEF SerialInv
  <2>4. row.ext # NoOrder => /\ row.ext \in Orders /\ orders[row.ext].for = i
                             /\ row.st = "accepted_open" /\ orders[row.ext].st \in Accepted
    BY <2>1, <2>2, <2>3 DEF RowTruth, SentFor, Serial, IntentRows, PendingStates
  <2>5. CASE MatchById(w, i)
    <3>1. PICK status \in LookupViews(row) \ {"absent"} :
              ApplySnapshot(w, i, row.ext, status)
      BY <2>5 DEF MatchById
    <3>2. PICK o \in Orders : o = row.ext /\ status \in FetchViews(o)
      BY <2>4, <3>1 DEF LookupViews
    <3>3. status = orders[o].st /\ orders[o].st \in Accepted
      BY <3>1, <3>2 DEF FetchViews, Serial
    <3>4. ApplySnapshot(w, i, o, status) /\ orders[o].for = i
      BY <2>4, <3>1, <3>2, BrokerAssumption
    <3> QED
      BY <1>1, <2>1, <3>3, <3>4, SnapshotRefines
  <2>6. CASE MatchByScan(w, i)
    <3>1. PICK o \in Orders : /\ ScanCandidates(w, i) = {o}
                              /\ ApplySnapshot(w, i, o, view[w][o].st)
      BY <2>6 DEF MatchByScan
    <3>2. /\ orders[o].for = i /\ orders[o].st \in Accepted /\ view[w][o].st \in Accepted
          /\ view[w][o].st \in {"closed", "cancelled"} => orders[o].st = view[w][o].st
      BY <2>1, <3>1, CandidatesAreOwn
    <3>3. PICK status \in Accepted : status = view[w][o].st
      BY <3>2
    <3> QED
      BY <1>1, <2>1, <3>1, <3>2, <3>3, SnapshotRefines
  <2>7. ~MatchAmbiguous(w, i)
    <3> SUFFICES ASSUME NEW o1 \in ScanCandidates(w, i), NEW o2 \in ScanCandidates(w, i), o1 # o2
                 PROVE  FALSE
      BY DEF MatchAmbiguous
    <3>1. o1 \in Positions(i) /\ o2 \in Positions(i)
      BY <2>1, CandidatesAreOwn DEF Positions, OrdersOf
    <3> QED
      BY <3>1 DEF SerialInv, BookInv
  <2>8. CASE MatchNone(w, i)
    <3>1. Positions(i) = {}
      BY <2>1, <2>8, NoneIsNone DEF MatchNone
    <3>2. BrokerAnswer(i) = IF OrdersOf(i) = {} THEN "unasked" ELSE "refused"
      BY <2>1, <3>1, QuietAnswers DEF SerialInv
    <3>3. row.st # "accepted_open"
      BY <2>2, <3>1 DEF RowTruth, SentFor, Serial, Positions, OrdersOf
    <3>4. PICK s \in {"expired_unsubmitted", "expired_unconfirmed", "same"} :
            \/ s = "same" /\ UNCHANGED intents
            \/ /\ s = "expired_unsubmitted" /\ row.st = "planned"
               /\ intents' = [intents EXCEPT ![i] = RowIn(row, s)]
            \/ /\ s = "expired_unconfirmed" /\ row.st = "submitted_unknown"
               /\ intents' = [intents EXCEPT ![i] = RowIn(row, s)]
      BY <2>8, <3>3 DEF MatchNone
    <3>5. CASE s = "same"
      BY <1>2, <3>4, <3>5, NothingMoves
    <3>6. CASE s # "same"
      <4>1. RowIn(row, s).st = s
        BY DEF RowIn
      <4>2. \A j \in Signals : intents'[j] = IF j = i THEN RowIn(row, s) ELSE intents[j]
        BY <3>4, <3>6 DEF SerialInv, TypeOK
      <4>3. s \in Lifecycle!Allowed(intents[i].st, BrokerAnswer(i))
        <5>1. CASE s = "expired_unsubmitted"
          <6>1. intents[i].st = "planned" /\ BrokerAnswer(i) \in {"unasked", "refused"}
            BY <2>1, <3>2, <3>4, <5>1
          <6> QED
            BY <5>1, <6>1, AllowedIs
        <5>2. CASE s = "expired_unconfirmed"
          <6>1. intents[i].st = "submitted_unknown" /\ BrokerAnswer(i) = "refused"
            BY <2>1, <3>2, <3>4, <5>2 DEF SerialInv, RowsInv
          <6> QED
            BY <5>2, <6>1, AllowedIs
        <5> QED
          BY <3>4, <3>6, <5>1, <5>2
      <4>4. intents'[i].st = s /\ s \in IntentStates /\ s # "submitted_unknown"
        BY <3>4, <3>6, <4>1, <4>2 DEF IntentStates, TerminalStates
      <4> QED
        BY <1>2, <2>1, <4>2, <4>3, <4>4, RowMoves
    <3> QED
      BY <3>5, <3>6
  <2> QED
    BY <1>4, <2>5, <2>6, <2>7, <2>8
<1> QED
  BY <1>3, <1>4 DEF Reconcile

\* A step of the detailed execution layer is a step of the abstract one, or none.
LEMMA StepRefines ==
    ASSUME NEW w, Serial(w), SerialInv(w), [Next]_vars
    PROVE  Lifecycle!Next \/ UNCHANGED Lifecycle!vars
<1>1. CASE UNCHANGED vars
  <2>1. UNCHANGED <<orders, intents>>
    BY <1>1 DEF vars, brokerVars, ledgerVars
  <2> QED
    BY <2>1, AnswersKept, NothingMoves
<1>2. CASE Next
  <2>1. ~\E o \in Orders : OtherScopeSaves(o)
    BY DEF OtherScopeSaves, BridgeForgets, Serial
  <2> QED
    BY <1>2, <2>1, SoleWorker, EnvironmentRefines, CrashRefines, ReconcileRefines, WorkRefines
       DEF Next, Serial
<1> QED
  BY <1>1, <1>2

\* Before anything happened nothing has in the abstract ledger either.
LEMMA InitRefines ==
    ASSUME NEW w, Serial(w), Init
    PROVE  /\ BookInv(w) /\ RowsInv(w) /\ HandInv(w)
           /\ Lifecycle!Init
<1>1. \A o \in Orders : orders[o].st = "free" /\ orders[o].for = 0
  BY DEF Init, BrokerInit, FreeSlot
<1>2. \A i \in Signals : OrdersOf(i) = {} /\ Positions(i) = {}
  BY <1>1, BrokerAssumption DEF OrdersOf, Positions
<1>3. (\A i \in Signals : intents[i].st = "none") /\ pc[w] = "idle"
  BY SoleWorker DEF Init, NoRow
<1>4. \A i \in Signals : BrokerAnswer(i) = "unasked"
  BY <1>2, AnswerBefore DEF AnswerIs
<1>5. Lifecycle!Init
  BY <1>3, <1>4 DEF Lifecycle!Init
<1> QED
  BY <1>1, <1>2, <1>3, <1>5 DEF BookInv, RowsInv, HandInv, Accepted

\* The invariant holds throughout.
LEMMA SerialAlways ==
    ASSUME NEW w, Serial(w)
    PROVE  Spec => []SerialInv(w)
<1> DEFINE Inv == Fresh(w) /\ BookInv(w) /\ RowsInv(w) /\ HandInv(w)
<1>1. Init => Inv
  <2>1. Init => Fresh(w)
    BY SoleWorker DEF Init, Fresh, NoRow
  <2> QED
    BY <2>1, InitRefines
<1>2. TypeOK /\ LedgerInv /\ Inv /\ [Next]_vars => Inv'
  <2> SUFFICES ASSUME TypeOK, LedgerInv, Inv, [Next]_vars PROVE Inv'
    OBVIOUS
  <2>1. SerialInv(w)
    BY DEF SerialInv
  <2>2. Fresh(w)'
    BY SoleWorker, FreshStep
  <2> QED
    BY <2>1, <2>2, SerialStep
<1>3. TypeOK /\ LedgerInv /\ Inv => SerialInv(w)
  BY DEF SerialInv
<1> HIDE DEF Inv
<1> QED
  BY <1>1, <1>2, <1>3, TypeCorrect, LedgerIsTrue, PTL DEF Spec

\* The serial execution layer keeps the promises of OrderLifecycle: whatever is
\* killed and started again, the broker is asked once for a signal unless it refused,
\* and the ledger follows its answer.
THEOREM SerialImplementsLifecycle ==
    ASSUME NEW w, Serial(w)
    PROVE  Spec => ImplementsLifecycle
<1>1. Init => Lifecycle!Init
  BY InitRefines
<1>2. SerialInv(w) /\ [Next]_vars => [Lifecycle!Next]_(Lifecycle!vars)
  BY StepRefines
<1>3. Spec => Lifecycle!Spec
  BY <1>1, <1>2, SerialAlways, PTL DEF Spec, Lifecycle!Spec
<1> QED
  BY <1>3 DEF ImplementsLifecycle

\* A signal never has two positions, even when its worker is killed between the
\* broker's answer and the row that records it: the next pass finds the position
\* under the client key before the worker could submit again.
THEOREM KilledWorkerNeverRepeats ==
    ASSUME NEW w, Serial(w)
    PROVE  Spec => []NoDuplicateOrder
<1>1. SerialInv(w) => NoDuplicateOrder
  <2> SUFFICES ASSUME SerialInv(w), NEW i \in Signals
               PROVE  Cardinality(Positions(i)) <= Tries
    BY DEF NoDuplicateOrder
  <2>1. Tries = 1
    BY DEF Tries, Serial
  <2>2. CASE Positions(i) = {}
    BY <2>1, <2>2, FS_EmptySet
  <2>3. ASSUME NEW o \in Positions(i)
        PROVE  Cardinality(Positions(i)) <= Tries
    <3>1. Positions(i) = {o}
      BY <2>3 DEF SerialInv, BookInv
    <3>2. Cardinality({o}) = 1
      BY FS_Singleton
    <3> QED
      BY <2>1, <3>1, <3>2
  <2> QED
    BY <2>2, <2>3
<1> QED
  BY <1>1, SerialAlways, PTL
=============================================================================
