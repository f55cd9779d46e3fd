-------------------------- MODULE SubmitOnceProofs --------------------------
(***************************************************************************)
(* One worker that is not killed submits a signal at most once, with the   *)
(* requests the client's retries make of it, however many operator commands*)
(* run beside it and whatever the broker, the adapter and the clock do; and*)
(* with none beside it, it implements LossyLifecycle.                      *)
(***************************************************************************)
EXTENDS MCExecutionLedger, SoleProcessProofs, FiniteSetTheorems

USE DEF Signals, Orders, Times, NoOrder, NoTime

\* A row from which a worker may still submit.
Unsent(st) == st \in {"none", "planned"}

\* The strengthening, of what a signal has beyond k requests: at most those of one
\* submit; once it has one its row no longer invites another, unless the worker is just
\* about to write the answer down; the signal a worker is taking to the broker has none
\* yet; and the tries of the submit in progress are counted.
SentBeyond(k) ==
    \A i \in Signals :
        /\ Cardinality(OrdersOf(i)) <= k + Tries
        /\ \/ Cardinality(OrdersOf(i)) <= k
           \/ ~Unsent(intents[i].st)
           \/ \E w \in Workers : target[w] = i /\ pc[w] \in {"sent", "save"}
        /\ \A w \in Workers :
              target[w] = i /\ pc[w] \in {"insert", "gate", "submit"} =>
                 Cardinality(OrdersOf(i)) <= k
        /\ \A w \in Workers :
              target[w] = i /\ pc[w] = "sent" => Cardinality(OrdersOf(i)) <= k + call[w].tries

\* Without kills there is nothing beyond the requests of one submit.
SentOnce ==
    \A i \in Signals :
        /\ Cardinality(OrdersOf(i)) <= Tries
        /\ OrdersOf(i) # {} =>
              \/ ~Unsent(intents[i].st)
              \/ \E w \in Workers : target[w] = i /\ pc[w] \in {"sent", "save"}
        /\ \A w \in Workers :
              target[w] = i /\ pc[w] \in {"insert", "gate", "submit"} => OrdersOf(i) = {}
        /\ \A w \in Workers :
              target[w] = i /\ pc[w] = "sent" => Cardinality(OrdersOf(i)) <= call[w].tries

\* There are finitely many requests for a signal.
LEMMA RequestsAreCounted ==
    \A i : IsFiniteSet(OrdersOf(i)) /\ Cardinality(OrdersOf(i)) \in Nat
<1>1. IsFiniteSet(Orders)
  BY BrokerAssumption, FS_Interval
<1> QED
  BY <1>1, FS_Subset, FS_CardinalityType DEF OrdersOf

\* A try more is at most a request more.
LEMMA OneMoreRequest ==
    ASSUME NEW i, NEW o, OrdersOf(i)' \subseteq OrdersOf(i) \cup {o}
    PROVE  /\ Cardinality(OrdersOf(i)) \in Nat /\ Cardinality(OrdersOf(i))' \in Nat
           /\ Cardinality(OrdersOf(i))' <= Cardinality(OrdersOf(i)) + 1
           /\ o \in OrdersOf(i) => Cardinality(OrdersOf(i))' <= Cardinality(OrdersOf(i))
<1>1. IsFiniteSet(Orders)
  BY BrokerAssumption, FS_Interval
<1>2. IsFiniteSet(OrdersOf(i))
  BY <1>1, FS_Subset DEF OrdersOf
<1>3. /\ IsFiniteSet(OrdersOf(i) \cup {o})
      /\ Cardinality(OrdersOf(i) \cup {o}) =
            IF o \in OrdersOf(i) THEN Cardinality(OrdersOf(i)) ELSE Cardinality(OrdersOf(i)) + 1
  BY <1>2, FS_AddElement
<1>4. /\ IsFiniteSet(OrdersOf(i)')
      /\ Cardinality(OrdersOf(i)') <= Cardinality(OrdersOf(i) \cup {o})
  BY <1>3, FS_Subset
<1>5. Cardinality(OrdersOf(i)) \in Nat /\ Cardinality(OrdersOf(i)') \in Nat
  BY <1>2, <1>4, FS_CardinalityType
<1> QED
  BY <1>3, <1>4, <1>5

\* Nothing a snapshot makes of a submitted row invites another submit.
LEMMA SnapshotIsSent ==
    ASSUME NEW status \in BrokerViews \ {"absent"}, NEW st,
           status = "unknown" => ~Unsent(st)
    PROVE  ~Unsent(StateFromBroker(status, st))
BY StateFromBrokerCases DEF Unsent, BrokerViews

\* A step that leaves the requests, the worker's place and every row, but for
\* rows that do not invite a submit, alone keeps the strengthening.
LEMMA QuietStep ==
    ASSUME NEW k \in Nat, SentBeyond(k),
           \A o \in Orders : orders'[o].for = orders[o].for,
           UNCHANGED <<target, call>>,
           \A w \in Workers : pc'[w] = pc[w],
           \A i \in Signals : intents'[i] = intents[i] \/ ~Unsent(intents'[i].st)
    PROVE  SentBeyond(k)'
<1>1. \A i \in Signals : OrdersOf(i)' = OrdersOf(i)
  BY DEF OrdersOf
<1> QED
  BY <1>1 DEF SentBeyond

\* What a reconcile pass writes never invites a submit.
LEMMA ReconcileWrites ==
    ASSUME TypeOK, LedgerInv, NEW p \in Processes, Reconcile(p)
    PROVE  \A i \in Signals : intents'[i] = intents[i] \/ ~Unsent(intents'[i].st)
<1>1. ASSUME NEW i \in Signals, NEW o \in Orders, NEW status \in BrokerViews \ {"absent"},
             ApplySnapshot(p, i, o, status), status = "unknown" => ~Unsent(pending[p][i].st)
      PROVE  \A j \in Signals : intents'[j] = intents[j] \/ ~Unsent(intents'[j].st)
  <2> DEFINE row == pending[p][i]
             sub == IF row.sub # NoTime THEN row.sub ELSE orders[o].opened
             new == [st |-> StateFromBroker(status, row.st), ext |-> o, sub |-> sub]
  <2>1. intents' = [intents EXCEPT ![i] = new]
    BY <1>1 DEF ApplySnapshot
  <2>2. ~Unsent(new.st)
    <3>1. ~Unsent(StateFromBroker(status, row.st))
      BY <1>1, SnapshotIsSent
    <3>2. new.st = StateFromBroker(status, row.st)
      OBVIOUS
    <3> HIDE DEF new
    <3> QED
      BY <3>1, <3>2
  <2> HIDE DEF new
  <2> QED
    BY <2>1, <2>2 DEF TypeOK
<1>2. ASSUME NEW i \in Signals, MatchById(p, i)
      PROVE  \A j \in Signals : intents'[j] = intents[j] \/ ~Unsent(intents'[j].st)
  <2>1. PICK status \in LookupViews(pending[p][i]) \ {"absent"} :
            ApplySnapshot(p, i, pending[p][i].ext, status)
    BY <1>2 DEF MatchById
  <2>2. pending[p][i].ext \in Orders /\ status \in FetchViews(pending[p][i].ext)
    BY <2>1, PendingRowType DEF LookupViews, IntentRows
  <2>3. status \in BrokerViews
    BY <2>2, FetchViewsType DEF TypeOK
  <2>4. ~Unsent(pending[p][i].st)
    BY <2>2 DEF LedgerInv, RowTruth, Unsent
  <2> DEFINE o == pending[p][i].ext
  <2>5. /\ o \in Orders /\ status \in BrokerViews \ {"absent"}
        /\ ApplySnapshot(p, i, o, status)
    BY <2>1, <2>2, <2>3
  <2> HIDE DEF o
  <2> QED
    BY <1>1, <2>4, <2>5
<1>3. ASSUME NEW i \in Signals, MatchByScan(p, i)
      PROVE  \A j \in Signals : intents'[j] = intents[j] \/ ~Unsent(intents'[j].st)
  <2>1. PICK o \in Orders : /\ ScanCandidates(p, i) = {o}
                            /\ ApplySnapshot(p, i, o, view[p][o].st)
    BY <1>3 DEF MatchByScan
  <2>2. o \in Seen(p)
    BY <2>1 DEF ScanCandidates
  <2>3. view[p] \in [Orders -> [st : BrokerViews, keyed : BOOLEAN]]
    BY DEF TypeOK
  <2>4. view[p][o].st \in BrokerViews \ {"absent"} /\ view[p][o].st # "unknown"
    BY <2>2, <2>3 DEF Seen, LedgerInv, ViewTruth
  <2> QED
    BY <1>1, <2>1, <2>4
<1>4. ASSUME NEW i \in Signals,
             MatchAmbiguous(p, i) \/ MatchNone(p, i) \/ MatchRaises(p, i)
      PROVE  \A j \in Signals : intents'[j] = intents[j] \/ ~Unsent(intents'[j].st)
  <2>1. \/ intents' = intents
        \/ \E s \in {"ambiguous", "expired_unsubmitted", "expired_unconfirmed"} :
              intents' = [intents EXCEPT ![i] = RowIn(pending[p][i], s)]
    BY <1>4 DEF MatchAmbiguous, MatchNone, MatchRaises, ledgerVars
  <2>2. \A s \in {"ambiguous", "expired_unsubmitted", "expired_unconfirmed"} :
           ~Unsent(RowIn(pending[p][i], s).st)
    BY DEF RowIn, Unsent
  <2> QED
    BY <2>1, <2>2 DEF TypeOK
<1>5. CASE \/ ListPending(p) \/ Scan(p) \/ PassRaises(p) \/ MatchDone(p) \/ OrphanPass(p)
  BY <1>5 DEF ListPending, Scan, PassRaises, MatchDone, OrphanPass, ledgerVars
<1> QED
  BY <1>2, <1>3, <1>4, <1>5 DEF Reconcile

\* During a pass a process holds no signal it could submit.
LEMMA PassPlace ==
    ASSUME TypeOK, NEW p \in Processes, Reconcile(p)
    PROVE  /\ pc[p] \in {"list", "scan", "match", "orphans"}
           /\ pc'[p] \in {"scan", "match", "orphans", "pick", "idle"}
           /\ \A q \in Processes : q # p => pc'[q] = pc[q]
           /\ UNCHANGED <<orders, target, call>>
BY DEF Reconcile, ListPending, Scan, PassRaises, MatchDone, OrphanPass, MatchById,
       MatchByScan, MatchAmbiguous, MatchNone, MatchRaises, EndPass, AfterPass, TypeOK,
       brokerVars, workVars

-----------------------------------------------------------------------------
(* One worker, however often it is killed.                                 *)

\* What a worker writes when it gives a row up or writes an answer down.
LEMMA AnswerIsSent ==
    ASSUME NEW answer PROVE ~Unsent(StateFromTransport(answer))
BY StateFromTransportCases DEF Unsent

\* The worker's own steps keep the strengthening.
LEMMA WorkSendsOnce ==
    ASSUME NEW k \in Nat, TypeOK, LedgerInv, SentBeyond(k),
           NEW w \in Workers, Workers = {w}, Work(w)
    PROVE  SentBeyond(k)'
<1>0. w \in Processes
  BY DEF Processes
<1>1. CASE StartWorker(w) \/ GatePass(w)
  <2>1. /\ UNCHANGED <<orders, intents, target>>
        /\ \/ pc[w] = "idle" /\ pc'[w] = "list"
           \/ pc[w] = "gate" /\ pc'[w] = "submit"
    BY <1>0, <1>1 DEF StartWorker, GatePass, TypeOK, brokerVars, ledgerVars, workVars
  <2>2. \A i \in Signals : OrdersOf(i)' = OrdersOf(i)
    BY <2>1 DEF OrdersOf
  <2> QED
    BY <2>1, <2>2 DEF SentBeyond
<1>2. ASSUME Finish(w), UNCHANGED orders, pc[w] \notin {"sent", "save"}
             \/ (target[w] \in Signals => ~Unsent(intents'[target[w]].st)),
             \A i \in Signals : intents'[i] = intents[i] \/ i = target[w],
             target[w] \in Signals =>
                \/ ~Unsent(intents'[target[w]].st) \/ Cardinality(OrdersOf(target[w])) <= k
                \/ intents'[target[w]] = intents[target[w]]
      PROVE  SentBeyond(k)'
  <2>1. pc'[w] = "list"
    BY <1>0, <1>2 DEF Finish, TypeOK
  <2>2. \A i \in Signals : OrdersOf(i)' = OrdersOf(i)
    BY <1>2 DEF OrdersOf
  <2> QED
    BY <1>2, <2>1, <2>2 DEF SentBeyond
<1>3. CASE PickSignal(w)
  <2>1. PICK i \in Signals \cup {0} :
          IF i = 0 \/ ~Submittable(i)
             THEN Finish(w)
             ELSE /\ target' = [target EXCEPT ![w] = i]
                  /\ pc' = [pc EXCEPT ![w] = IF intents[i].st = "none"
                                             THEN "insert" ELSE "gate"]
    BY <1>3 DEF PickSignal
  <2>2. pc[w] = "pick" /\ UNCHANGED <<orders, intents>>
    BY <1>3 DEF PickSignal, brokerVars, ledgerVars
  <2>3. CASE i = 0 \/ ~Submittable(i)
    BY <1>2, <2>1, <2>2, <2>3
  <2>4. CASE i \in Signals /\ Submittable(i)
    <3>1. Cardinality(OrdersOf(i)) <= k
      <4>1. Unsent(intents[i].st)
        BY <2>4 DEF Submittable, Unsent
      <4>2. ~\E v \in Workers : target[v] = i /\ pc[v] \in {"sent", "save"}
        BY <2>2
      <4>3. \/ Cardinality(OrdersOf(i)) <= k
            \/ ~Unsent(intents[i].st)
            \/ \E v \in Workers : target[v] = i /\ pc[v] \in {"sent", "save"}
        BY <2>4 DEF SentBeyond
      <4> QED
        BY <4>1, <4>2, <4>3
    <3>2. target'[w] = i /\ pc'[w] \in {"insert", "gate"}
      BY <1>0, <2>1, <2>4 DEF TypeOK
    <3>3. \A j \in Signals : OrdersOf(j)' = OrdersOf(j)
      BY <2>2 DEF OrdersOf
    <3> QED
      BY <2>2, <3>1, <3>2, <3>3 DEF SentBeyond
  <2> QED
    BY <2>3, <2>4
<1>4. CASE InsertIntent(w)
  <2>1. /\ intents' = [intents EXCEPT ![target[w]] = RowIn(NoRow, "planned")]
        /\ pc[w] = "insert" /\ pc'[w] = "gate" /\ UNCHANGED <<orders, target>>
    BY <1>0, <1>4 DEF InsertIntent, TypeOK, brokerVars
  <2>2. \A j \in Signals : OrdersOf(j)' = OrdersOf(j)
    BY <2>1 DEF OrdersOf
  <2>3. \A j \in Signals : intents'[j] = intents[j] \/ j = target[w]
    BY <2>1 DEF TypeOK
  <2> QED
    BY <2>1, <2>2, <2>3 DEF SentBeyond
<1>5. CASE GateBlocked(w) \/ DeadlinePassed(w)
  <2>1. /\ Finish(w) /\ pc[w] = "gate" /\ UNCHANGED orders
        /\ \E row : intents' = [intents EXCEPT ![target[w]] = row]
    BY <1>5 DEF GateBlocked, DeadlinePassed, brokerVars
  <2>2. \A j \in Signals : intents'[j] = intents[j] \/ j = target[w]
    BY <2>1 DEF TypeOK
  <2>3. target[w] \in Signals => Cardinality(OrdersOf(target[w])) <= k
    BY <2>1 DEF SentBeyond
  <2> QED
    BY <1>2, <2>1, <2>2, <2>3
<1>6. CASE CallBroker(w) \/ BuyAgain(w)
  <2>1. PICK n \in 1..BuyRetries :
           /\ SendRequest(w, n) /\ n <= Tries
           /\ target[w] \in Signals => Cardinality(OrdersOf(target[w])) < k + n
    <3>1. CASE CallBroker(w)
      <4>1. SendRequest(w, 1) /\ 1 \in 1..BuyRetries /\ 1 <= Tries
        BY <3>1, LedgerAssumption DEF CallBroker, Tries
      <4>2. target[w] \in Signals => Cardinality(OrdersOf(target[w])) <= k
        BY <3>1 DEF CallBroker, SentBeyond
      <4>3. target[w] \in Signals => Cardinality(OrdersOf(target[w])) \in Nat
        BY RequestsAreCounted
      <4> QED
        BY <4>1, <4>2, <4>3
    <3>2. CASE BuyAgain(w)
      <4>1. call[w].tries \in 0..BuyRetries
        BY <1>0 DEF TypeOK
      <4>2. Tries \in Nat /\ Tries <= BuyRetries
        BY LedgerAssumption DEF Tries
      <4>3. SendRequest(w, call[w].tries + 1) /\ call[w].tries < Tries /\ pc[w] = "sent"
        BY <3>2 DEF BuyAgain
      <4>4. target[w] \in Signals => Cardinality(OrdersOf(target[w])) <= k + call[w].tries
        BY <4>3 DEF SentBeyond
      <4>5. target[w] \in Signals => Cardinality(OrdersOf(target[w])) \in Nat
        BY RequestsAreCounted
      <4>6. call[w].tries + 1 \in 1..BuyRetries /\ call[w].tries + 1 <= Tries
        BY <4>1, <4>2, <4>3, LedgerAssumption
      <4> QED
        BY <4>1, <4>3, <4>4, <4>5, <4>6
    <3> QED
      BY <1>6, <3>1, <3>2
  <2>2. /\ \E o \in Orders : orders' = [orders EXCEPT ![o] =
                [st |-> "inflight", for |-> target[w], tagged |-> FALSE, opened |-> 0]]
        /\ call'[w].tries = n /\ pc'[w] = "sent" /\ UNCHANGED <<intents, target>>
    <3>1. PICK o \in Orders :
            /\ orders' = [orders EXCEPT ![o] =
                  [st |-> "inflight", for |-> target[w], tagged |-> FALSE, opened |-> 0]]
            /\ call' = [call EXCEPT ![w] =
                  [slot |-> o, at |-> IF n = 1 THEN now ELSE @.at, answer |-> "none",
                   tries |-> n]]
      BY <2>1 DEF SendRequest
    <3> DEFINE new == [slot |-> o, at |-> IF n = 1 THEN now ELSE call[w].at,
                       answer |-> "none", tries |-> n]
    <3>2. call' = [call EXCEPT ![w] = new] /\ new.tries = n
      BY <3>1
    <3> HIDE DEF new
    <3>3. call'[w].tries = n
      BY <1>0, <3>2 DEF TypeOK
    <3>4. pc'[w] = "sent" /\ UNCHANGED <<intents, target>>
      BY <1>0, <2>1 DEF SendRequest, TypeOK, ledgerVars
    <3> QED
      BY <3>1, <3>3, <3>4
  <2>3. PICK o \in Orders : orders' = [orders EXCEPT ![o] =
                [st |-> "inflight", for |-> target[w], tagged |-> FALSE, opened |-> 0]]
    BY <2>2
  <2>4. \A q \in Orders : orders'[q].for = IF q = o THEN target[w] ELSE orders[q].for
    BY <2>3 DEF TypeOK
  <2>5. \A j \in Signals : OrdersOf(j)' \subseteq OrdersOf(j) \cup {o}
    BY <2>4 DEF OrdersOf
  <2>6. \A j \in Signals : j # target[w] => OrdersOf(j)' \subseteq OrdersOf(j)
    BY <2>4 DEF OrdersOf
  <2>7. pc[w] \in {"submit", "sent"} /\ Tries \in Nat /\ n \in Nat
    BY <1>6, LedgerAssumption DEF CallBroker, BuyAgain, Tries
  <2>8. ASSUME NEW j \in Signals, j # target[w]
        PROVE  /\ Cardinality(OrdersOf(j)') \in Nat /\ Cardinality(OrdersOf(j)) \in Nat
               /\ Cardinality(OrdersOf(j)') <= Cardinality(OrdersOf(j))
    BY <2>6, <2>8, RequestsAreCounted, FS_Subset, FS_CardinalityType
  <2>9. ASSUME NEW j \in Signals, j = target[w]
        PROVE  Cardinality(OrdersOf(j)') <= k + n
    <3>1. /\ Cardinality(OrdersOf(j)') \in Nat /\ Cardinality(OrdersOf(j)) \in Nat
          /\ Cardinality(OrdersOf(j)') <= Cardinality(OrdersOf(j)) + 1
      BY <2>5, OneMoreRequest
    <3>2. Cardinality(OrdersOf(j)) < k + n
      BY <2>1, <2>9
    <3> QED
      BY <2>7, <3>1, <3>2
  <2> SUFFICES ASSUME NEW j \in Signals
               PROVE  /\ Cardinality(OrdersOf(j)') <= k + Tries
                      /\ \/ Cardinality(OrdersOf(j)') <= k
                         \/ ~Unsent(intents'[j].st)
                         \/ target'[w] = j /\ pc'[w] = "sent"
                      /\ target'[w] = j => Cardinality(OrdersOf(j)') <= k + call'[w].tries
    BY <2>2 DEF SentBeyond
  <2>11. CASE j = target[w]
    <3>1. Cardinality(OrdersOf(j)') <= k + n /\ Cardinality(OrdersOf(j)') \in Nat
      BY <2>5, <2>9, <2>11, OneMoreRequest
    <3> QED
      BY <2>1, <2>2, <2>7, <2>11, <3>1
  <2>12. CASE j # target[w]
    <3>1. /\ Cardinality(OrdersOf(j)) <= k + Tries
          /\ Cardinality(OrdersOf(j)) <= k \/ ~Unsent(intents[j].st)
      BY <2>7, <2>12 DEF SentBeyond
    <3> QED
      BY <2>2, <2>7, <2>8, <2>12, <3>1
  <2> QED
    BY <2>11, <2>12
<1>7. CASE SubmitReturns(w)
  <2>1. /\ pc[w] = "sent" /\ pc'[w] = "save" /\ UNCHANGED <<intents, target>>
    BY <1>0, <1>7 DEF SubmitReturns, TypeOK, ledgerVars
  <2> DEFINE o == call[w].slot
             recorded == [st |-> orders[o].st, for |-> orders[o].for,
                          tagged |-> TRUE, opened |-> orders[o].opened]
  <2>2. orders' = orders \/ orders' = [orders EXCEPT ![o] = recorded]
    BY <1>7 DEF SubmitReturns
  <2>3. recorded.for = orders[o].for
    OBVIOUS
  <2> HIDE DEF recorded
  <2>4. \A q \in Orders : orders'[q].for = orders[q].for
    BY <2>2, <2>3 DEF TypeOK
  <2>5. \A j \in Signals : OrdersOf(j)' = OrdersOf(j)
    BY <2>4 DEF OrdersOf
  <2> QED
    BY <2>1, <2>5 DEF SentBeyond
<1>8. CASE SaveResult(w)
  <2> DEFINE ext == IF call[w].answer = "ack" THEN call[w].slot ELSE held[w].ext
             sub == IF held[w].sub # NoTime THEN held[w].sub ELSE call[w].at
             new == [st |-> StateFromTransport(call[w].answer), ext |-> ext, sub |-> sub]
  <2>1. /\ Finish(w) /\ UNCHANGED orders
        /\ intents' = [intents EXCEPT ![target[w]] = new]
    BY <1>8 DEF SaveResult, brokerVars
  <2>2. ~Unsent(StateFromTransport(call[w].answer))
    BY AnswerIsSent
  <2>3. new.st = StateFromTransport(call[w].answer)
    OBVIOUS
  <2> HIDE DEF new
  <2>4. /\ \A j \in Signals : intents'[j] = intents[j] \/ j = target[w]
        /\ target[w] \in Signals => ~Unsent(intents'[target[w]].st)
    BY <2>1, <2>2, <2>3 DEF TypeOK
  <2> QED
    BY <1>2, <2>1, <2>4
<1> QED
  BY <1>1, <1>3, <1>4, <1>5, <1>6, <1>7, <1>8 DEF Work

\* Every step of the system but a kill keeps it when there is one worker.
LEMMA SentBeyondStep ==
    ASSUME NEW w \in Workers, Workers = {w}, NEW k \in Nat,
           TypeOK, LedgerInv, SentBeyond(k), [Next]_vars, \A p \in Processes : ~Crash(p)
    PROVE  SentBeyond(k)'
<1>1. ASSUME NEW p \in Processes, Reconcile(p)
      PROVE  SentBeyond(k)'
  <2>1. \A i \in Signals : OrdersOf(i)' = OrdersOf(i)
    BY <1>1, PassPlace DEF OrdersOf
  <2>2. \A i \in Signals : intents'[i] = intents[i] \/ ~Unsent(intents'[i].st)
    BY <1>1, ReconcileWrites
  <2>3. /\ UNCHANGED <<target, call>>
        /\ \/ pc'[w] = pc[w]
           \/ /\ pc[w] \notin {"sent", "save"}
              /\ pc'[w] \notin {"insert", "gate", "submit", "sent"}
    BY <1>1, PassPlace DEF Processes
  <2> QED
    BY <2>1, <2>2, <2>3 DEF SentBeyond
<1>2. CASE Work(w)
  BY <1>2, WorkSendsOnce
<1>4. ASSUME NEW o \in Orders, Broker(o)
      PROVE  SentBeyond(k)'
  <2>1. UNCHANGED <<intents, target, pc, call>>
    BY <1>4 DEF Broker, ledgerVars, workVars
  <2>2. \A q \in Orders : orders'[q].for = orders[q].for
    <3>1. CASE BrokerAccept(o)
      BY <3>1 DEF BrokerAccept, TypeOK
    <3>2. ASSUME NEW s, orders' = [orders EXCEPT ![o] = OrderIn(o, s)]
          PROVE  \A q \in Orders : orders'[q].for = orders[q].for
      BY <3>2 DEF OrderIn, TypeOK
    <3>3. CASE BrokerRefuse(o) \/ \E outcome \in {"closed", "cancelled"} : BrokerClose(o, outcome)
      BY <3>2, <3>3 DEF BrokerRefuse, BrokerClose
    <3> QED
      BY <1>4, <3>1, <3>3 DEF Broker
  <2> QED
    BY <2>1, <2>2, QuietStep
<1>5. CASE \/ Tick \/ ToggleHalt
           \/ \E i \in Signals, verdict \in Verdicts : Emit(i, verdict)
           \/ \E r \in Reconcilers, o \in Orders : CheckOrderStatus(r, o)
           \/ UNCHANGED vars
  <2>1. UNCHANGED <<orders, intents, target, pc, call>>
    BY <1>5 DEF Tick, ToggleHalt, Emit, CheckOrderStatus, vars, brokerVars, ledgerVars,
         workVars
  <2> QED
    BY <2>1, QuietStep
<1>6. ASSUME NEW r \in Reconcilers, StartReconcile(r)
      PROVE  SentBeyond(k)'
  <2>1. UNCHANGED <<orders, intents, target, call>> /\ pc' = [pc EXCEPT ![r] = "list"]
    BY <1>6 DEF StartReconcile, brokerVars, ledgerVars, workVars
  <2>2. \A v \in Workers : pc'[v] = pc[v]
    BY <2>1, LedgerAssumption DEF TypeOK, Processes
  <2> QED
    BY <2>1, <2>2, QuietStep
<1>7. ASSUME NEW o \in Orders, OtherScopeSaves(o)
      PROVE  SentBeyond(k)'
  <2>1. /\ UNCHANGED <<intents, target, pc, call>>
        /\ \A q \in Orders : orders'[q].for = orders[q].for
    BY <1>7, OnlyTheTag DEF OtherScopeSaves, TypeOK, ledgerVars, workVars
  <2> QED
    BY <2>1, QuietStep
<1> QED
  BY <1>1, <1>2, <1>4, <1>5, <1>6, <1>7 DEF Next

\* A kill leaves the requests as they are, but the next run may submit once more: the
\* requests there are now are among those of the kills.
LEMMA KillAllowsOneMore ==
    ASSUME NEW k \in Nat, TypeOK, SentBeyond(k), NEW p \in Processes, Crash(p)
    PROVE  SentBeyond(k + Tries)'
<1>1. \A o \in Orders : orders'[o].for = orders[o].for
  BY DEF Crash, OrderIn, TypeOK
<1>2. \A i \in Signals : OrdersOf(i)' = OrdersOf(i)
  BY <1>1 DEF OrdersOf
<1>3. \A i \in Signals : Cardinality(OrdersOf(i)) <= k + Tries /\ Cardinality(OrdersOf(i)) \in Nat
  BY RequestsAreCounted DEF SentBeyond
<1>4. call' = [call EXCEPT ![p] = NoCall]
  BY DEF Crash
<1>5. \A w \in Workers : call'[w].tries \in Nat
  BY <1>4, LedgerAssumption DEF TypeOK, NoCall, Processes
<1>6. Tries \in Nat
  BY LedgerAssumption DEF Tries
<1> QED
  BY <1>2, <1>3, <1>5, <1>6 DEF SentBeyond

\* Before anything has run nothing has been sent.
LEMMA NothingSent ==
    ASSUME Init PROVE SentBeyond(0)
<1>1. \A i \in Signals : OrdersOf(i) = {}
  <2>1. \A o \in Orders : orders[o].for = 0
    BY DEF Init, BrokerInit, FreeSlot
  <2>2. \A i \in Signals : i # 0
    BY BrokerAssumption
  <2> QED
    BY <2>1, <2>2 DEF OrdersOf
<1>2. Tries \in Nat /\ Cardinality({}) = 0
  BY FS_EmptySet, LedgerAssumption DEF Tries
<1>3. \A i \in Signals : Cardinality(OrdersOf(i)) = 0
  BY <1>1, <1>2
<1>4. \A w \in Workers : pc[w] = "idle"
  BY DEF Init, Processes
<1> QED
  BY <1>2, <1>3, <1>4 DEF SentBeyond

\* However often the worker is killed, and wherever, and whatever commands the operator
\* runs beside it, each kill costs a signal at most the requests of one more submit.
SentPerKill == SentBeyond(Tries * crashes)

THEOREM RequestsPerKill ==
    ASSUME NEW w \in Workers, Workers = {w}
    PROVE  Spec => []SentPerKill
<1>1. Init => SentPerKill
  <2> SUFFICES ASSUME Init PROVE SentPerKill
    OBVIOUS
  <2>1. Tries * crashes = 0
    BY LedgerAssumption DEF Init, Tries
  <2> QED
    BY <2>1, NothingSent DEF SentPerKill
<1>2. TypeOK /\ LedgerInv /\ SentPerKill /\ [Next]_vars => SentPerKill'
  <2> SUFFICES ASSUME TypeOK, LedgerInv, SentPerKill, [Next]_vars PROVE SentPerKill'
    OBVIOUS
  <2>1. Tries \in Nat /\ crashes \in Nat /\ Tries * crashes \in Nat
    BY LedgerAssumption DEF TypeOK, Tries
  <2>2. PICK k \in Nat : k = Tries * crashes
    BY <2>1
  <2>3. SentBeyond(k)
    BY <2>2 DEF SentPerKill
  <2>4. CASE \A p \in Processes : ~Crash(p)
    <3>1. SentBeyond(k)'
      BY <2>3, <2>4, SentBeyondStep
    <3>2. crashes' = crashes
      BY <2>4 DEF Next, Tick, ToggleHalt, Emit, Broker, OtherScopeSaves, Reconcile, Work,
         StartReconcile, CheckOrderStatus, vars, ListPending, Scan, PassRaises, MatchDone,
         OrphanPass, MatchById, MatchByScan, MatchAmbiguous, MatchNone, MatchRaises,
         StartWorker, PickSignal, InsertIntent, GateBlocked, DeadlinePassed, GatePass,
         CallBroker, BuyAgain, SendRequest, SubmitReturns, SaveResult
    <3>3. k = Tries * crashes'
      BY <2>2, <3>2
    <3> QED
      BY <3>1, <3>3 DEF SentPerKill, SentBeyond
  <2>5. ASSUME NEW p \in Processes, Crash(p)
        PROVE  SentPerKill'
    <3>1. SentBeyond(k + Tries)'
      BY <2>3, <2>5, KillAllowsOneMore
    <3>2. crashes' = crashes + 1
      BY <2>5 DEF Crash
    <3>3. k + Tries = Tries * crashes'
      BY <2>1, <2>2, <3>2
    <3> QED
      BY <3>1, <3>3 DEF SentPerKill, SentBeyond
  <2> QED
    BY <2>4, <2>5
<1> QED
  BY <1>1, <1>2, TypeCorrect, LedgerIsTrue, PTL DEF Spec

\* A position is a request.
LEMMA PositionsAreRequests ==
    \A i : /\ Cardinality(Positions(i)) \in Nat
           /\ Cardinality(Positions(i)) <= Cardinality(OrdersOf(i))
<1> SUFFICES ASSUME NEW i
             PROVE  /\ Cardinality(Positions(i)) \in Nat
                    /\ Cardinality(Positions(i)) <= Cardinality(OrdersOf(i))
  OBVIOUS
<1>1. Positions(i) \subseteq OrdersOf(i)
  BY DEF Positions, OrdersOf
<1> QED
  BY <1>1, RequestsAreCounted, FS_Subset, FS_CardinalityType

\* A kill may fall between the broker's answer and the row that records it, and the
\* live bridge may know nothing of that order, so that the next run submits the signal
\* again: a signal has the positions of one submit, and of one more for each kill.
OrdersPerKill == \A i \in Signals : Cardinality(Positions(i)) <= Tries * (1 + crashes)

\* One worker keeps to that bound on either broker, with the operator's commands run
\* beside it.
THEOREM KillsCostOneSubmit ==
    ASSUME NEW w \in Workers, Workers = {w}
    PROVE  Spec => []OrdersPerKill
<1>1. TypeOK /\ SentPerKill => OrdersPerKill
  <2> SUFFICES ASSUME TypeOK, SentPerKill, NEW i \in Signals
               PROVE  Cardinality(Positions(i)) <= Tries * (1 + crashes)
    BY DEF OrdersPerKill
  <2>1. Tries \in Nat /\ crashes \in Nat
    BY LedgerAssumption DEF TypeOK, Tries
  <2>2. Tries * crashes + Tries = Tries * (1 + crashes) /\ Tries * crashes \in Nat
    BY <2>1
  <2>3. Cardinality(OrdersOf(i)) <= Tries * crashes + Tries
    BY DEF SentPerKill, SentBeyond
  <2> QED
    BY <2>1, <2>2, <2>3, RequestsAreCounted, PositionsAreRequests
<1> QED
  BY <1>1, RequestsPerKill, TypeCorrect, PTL

\* A worker that is not killed takes a signal to the broker once: whatever requests
\* there are for it are the tries of that one submit.
THEOREM OneRequestPerSignal ==
    ASSUME NEW w \in Workers, Workers = {w}, MaxCrashes = 0
    PROVE  Spec => []SentOnce
<1>1. TypeOK /\ SentPerKill => SentOnce
  <2> SUFFICES ASSUME TypeOK, SentPerKill PROVE SentOnce
    OBVIOUS
  <2>1. Tries \in Nat /\ Tries * crashes = 0
    BY LedgerAssumption DEF TypeOK, Tries
  <2>2. SentBeyond(0)
    BY <2>1 DEF SentPerKill
  <2>3. \A i \in Signals : /\ Cardinality(OrdersOf(i)) \in Nat
                           /\ Cardinality(OrdersOf(i)) <= 0 => OrdersOf(i) = {}
    BY RequestsAreCounted, FS_EmptySet
  <2>4. \A v \in Workers : call[v].tries \in Nat
    BY LedgerAssumption DEF TypeOK, Processes
  <2> QED
    BY <2>1, <2>2, <2>3, <2>4 DEF SentBeyond, SentOnce
<1> QED
  BY <1>1, RequestsPerKill, TypeCorrect, PTL

\* Hence a signal never holds more positions than the client tries its buy (one, when
\* it tries once).
THEOREM OnePositionPerSignal ==
    ASSUME NEW w \in Workers, Workers = {w}, MaxCrashes = 0
    PROVE  Spec => []NoDuplicateOrder
<1>1. SentOnce => NoDuplicateOrder
  <2> SUFFICES ASSUME SentOnce, NEW i \in Signals
               PROVE  Cardinality(Positions(i)) <= Tries
    BY DEF NoDuplicateOrder
  <2>1. Cardinality(OrdersOf(i)) <= Tries /\ Tries \in Nat
    BY LedgerAssumption DEF SentOnce, Tries
  <2> QED
    BY <2>1, RequestsAreCounted, PositionsAreRequests
<1> QED
  BY <1>1, OneRequestPerSignal, PTL

\* And a planned intent nobody is submitting has nothing at the broker, so that a later
\* run of process_latest_signal may submit it.
THEOREM IdlePlannedNeverSent ==
    ASSUME NEW w \in Workers, Workers = {w}, MaxCrashes = 0
    PROVE  Spec => []IdlePlannedIsUnsent
<1>1. SentOnce => IdlePlannedIsUnsent
  BY DEF SentOnce, IdlePlannedIsUnsent, Unsent, Processes
<1> QED
  BY <1>1, OneRequestPerSignal, PTL

-----------------------------------------------------------------------------
(* The refinement: one worker, not killed, and no operator command.        *)

\* The executions spoken of.
Unkilled(w) == Workers = {w} /\ Reconcilers = {} /\ MaxCrashes = 0

\* What the refinement needs beside: a slot nobody took belongs to nobody, a row of
\* unknown outcome has something sent for it, and the worker holds the row and the
\* answer that its place says.
AnswerInv(w) ==
    /\ \A o \in Orders : orders[o].st = "free" => orders[o].for = 0
    /\ \A i \in Signals : intents[i].st = "submitted_unknown" => OrdersOf(i) # {}
    /\ pc[w] = "insert" => held[w].st = "none"
    /\ pc[w] \in {"gate", "submit", "sent", "save"} => held[w].st = "planned"
    /\ pc[w] = "save" /\ call[w].answer = "reject" => orders[call[w].slot].st = "refused"

UnkilledInv(w) == TypeOK /\ LedgerInv /\ SentOnce /\ Fresh(w) /\ AnswerInv(w)

LEMMA UnkilledWorker ==
    ASSUME NEW w, Unkilled(w)
    PROVE  w \in Workers /\ w \in Processes /\ Processes = {w}
BY DEF Unkilled, Processes

\* A step that moves neither a state in the book nor one in the ledger is none of the
\* abstract specification.
LEMMA NothingSeen ==
    ASSUME \A o \in Orders : orders'[o].for = orders[o].for /\ orders'[o].st = orders[o].st,
           \A i \in Signals : intents'[i].st = intents[i].st
    PROVE  UNCHANGED Lossy!vars
<1>1. \A i \in Signals : OrdersOf(i)' = OrdersOf(i)
  BY DEF OrdersOf
<1>2. [i \in Signals |-> OrdersOf(i)'] = [i \in Signals |-> OrdersOf(i)]
  BY <1>1
<1>3. [o \in Orders |-> orders'[o].st] = [o \in Orders |-> orders[o].st]
  OBVIOUS
<1>4. [i \in Signals |-> intents'[i].st] = [i \in Signals |-> intents[i].st]
  OBVIOUS
<1> QED
  BY <1>2, <1>3, <1>4 DEF Lossy!vars

\* An order that passes for one of the signal's is one the abstract ledger takes.
LEMMA SentIsTaken ==
    ASSUME NEW i \in Signals, NEW o \in Orders, NEW states,
           SentFor(orders, i, o), orders[o].st \in states
    PROVE  o \in Lossy!Taken(i, states)
<1>1. orders[o].for = i \/ (orders[o].for \in Signals /\ <<i, orders[o].for>> \in Lookalikes)
  BY LedgerAssumption DEF SentFor
<1>2. \A j \in Signals : orders[o].for = j => o \in [k \in Signals |-> OrdersOf(k)][j]
  BY DEF OrdersOf
<1>3. [q \in Orders |-> orders[q].st][o] \in states
  OBVIOUS
<1> QED
  BY <1>1, <1>2, <1>3 DEF Lossy!Taken

\* A row that moves to a state the broker's answers bear out is a step of the
\* abstract ledger.
LEMMA RowRecorded ==
    ASSUME NEW i \in Signals, NEW s \in IntentStates,
           \A o \in Orders : orders'[o].for = orders[o].for /\ orders'[o].st = orders[o].st,
           \A j \in Signals : j # i => intents'[j].st = intents[j].st,
           intents[i].st \in PendingStates, intents'[i].st = s, Lossy!Justified(i, s)
    PROVE  Lossy!Next
<1>1. [j \in Signals |-> OrdersOf(j)'] = [j \in Signals |-> OrdersOf(j)]
  BY DEF OrdersOf
<1>2. [o \in Orders |-> orders'[o].st] = [o \in Orders |-> orders[o].st]
  OBVIOUS
<1>3. [j \in Signals |-> intents'[j].st] = [[j \in Signals |-> intents[j].st] EXCEPT ![i] = s]
  OBVIOUS
<1>4. [j \in Signals |-> intents[j].st][i] \in Lossy!PendingStates /\ s \in Lossy!IntentStates
  BY DEF PendingStates, IntentStates, TerminalStates, Lossy!PendingStates,
         Lossy!IntentStates, Lossy!TerminalStates
<1>5. Lossy!Record(i, s)
  BY <1>1, <1>2, <1>3, <1>4 DEF Lossy!Record
<1> QED
  BY <1>4, <1>5 DEF Lossy!Next

\* What the abstract ledger asks of each state a row may take.
LEMMA JustifiedBy ==
    ASSUME NEW i \in Signals
    PROVE  /\ intents[i].st = "planned" /\ OrdersOf(i) # {} =>
                 Lossy!Justified(i, "submitted_unknown")
           /\ intents[i].st = "planned" /\ OrdersOf(i) = {} =>
                 Lossy!Justified(i, "expired_unsubmitted")
           /\ OrdersOf(i) # {} => Lossy!Justified(i, "expired_unconfirmed")
           /\ Lossy!Taken(i, Accepted) # {} => /\ Lossy!Justified(i, "accepted_open")
                                               /\ Lossy!Justified(i, "expired_unconfirmed")
           /\ Lossy!Taken(i, {"closed"}) # {} => Lossy!Justified(i, "settled")
           /\ Lossy!Taken(i, {"cancelled"}) # {} => Lossy!Justified(i, "rejected")
           /\ \A o \in OrdersOf(i) : intents[i].st = "planned" /\ orders[o].st = "refused" =>
                 Lossy!Justified(i, "rejected")
           /\ \A o1, o2 \in Lossy!Taken(i, Accepted) : o1 # o2 => Lossy!Justified(i, "ambiguous")
<1>1. /\ [j \in Signals |-> OrdersOf(j)][i] = OrdersOf(i)
      /\ [j \in Signals |-> intents[j].st][i] = intents[i].st
      /\ \A o \in OrdersOf(i) : [q \in Orders |-> orders[q].st][o] = orders[o].st
      /\ Lossy!Live = Accepted
  BY DEF OrdersOf, Lossy!Live, Accepted
<1> QED
  BY <1>1 DEF Lossy!Justified

\* A snapshot gives the row of its pass a state that the order it shows bears out, or
\* leaves it the state it had.
LEMMA SnapshotBorneOut ==
    ASSUME NEW w, Unkilled(w), UnkilledInv(w), NEW i \in Signals, NEW o \in Orders,
           NEW status \in BrokerViews \ {"absent"}, ApplySnapshot(w, i, o, status),
           intents[i] = pending[w][i], SentFor(orders, i, o), orders[o].st \in Accepted,
           status \in {"closed", "cancelled"} => orders[o].st = status
    PROVE  \/ intents'[i].st = intents[i].st
           \/ \E s \in IntentStates \ {"submitted_unknown"} :
                 intents'[i].st = s /\ Lossy!Justified(i, s)
<1> DEFINE row == pending[w][i]
           sub == IF row.sub # NoTime THEN row.sub ELSE orders[o].opened
           s == StateFromBroker(status, row.st)
           new == [st |-> s, ext |-> o, sub |-> sub]
<1>1. intents' = [intents EXCEPT ![i] = new]
  BY DEF ApplySnapshot
<1>2. new.st = s
  OBVIOUS
<1>3. /\ status = "open" => s = "accepted_open"
      /\ status = "closed" => s = "settled"
      /\ status = "cancelled" => s = "rejected"
      /\ status = "not_found" => s = "expired_unconfirmed"
      /\ status = "unknown" => s = row.st
  BY StateFromBrokerCases
<1> HIDE DEF s, new
<1>4. intents'[i].st = s
  BY <1>1, <1>2 DEF UnkilledInv, TypeOK
<1>5. o \in Lossy!Taken(i, Accepted)
  BY SentIsTaken
<1>6. /\ status = "closed" => o \in Lossy!Taken(i, {"closed"})
      /\ status = "cancelled" => o \in Lossy!Taken(i, {"cancelled"})
  BY SentIsTaken
<1>7. status # "unknown" => Lossy!Justified(i, s)
  BY <1>3, <1>5, <1>6, JustifiedBy DEF BrokerViews
<1>8. status # "unknown" => s \in IntentStates \ {"submitted_unknown"}
  BY <1>3 DEF BrokerViews, IntentStates, PendingStates, TerminalStates
<1> QED
  BY <1>3, <1>4, <1>7, <1>8

\* What a pass takes for an order of the signal is one the broker accepted.
LEMMA CandidateTruth ==
    ASSUME NEW w, Unkilled(w), UnkilledInv(w), NEW i \in Signals,
           NEW o \in ScanCandidates(w, i)
    PROVE  /\ o \in Orders /\ SentFor(orders, i, o) /\ orders[o].st \in Accepted
           /\ view[w][o].st \in BrokerViews \ {"absent"}
           /\ view[w][o].st \in {"closed", "cancelled"} => orders[o].st = view[w][o].st
<1>1. /\ o \in Orders /\ view[w][o].st # "absent"
      /\ orders[o].for = i \/ <<i, orders[o].for>> \in Lookalikes
  BY DEF ScanCandidates, Seen, Fingerprint
<1>2. ViewTruth(orders, o, view[w][o].st)
  BY <1>1, UnkilledWorker DEF UnkilledInv, LedgerInv
<1>3. view[w] \in [Orders -> [st : BrokerViews, keyed : BOOLEAN]]
  BY UnkilledWorker DEF UnkilledInv, TypeOK
<1>4. view[w][o].st \in BrokerViews
  BY <1>1, <1>3
<1> QED
  BY <1>1, <1>2, <1>4 DEF ViewTruth, SentFor, Accepted

\* A row rewritten in another state is in that state.
LEMMA RowInState ==
    ASSUME TypeOK, NEW i \in Signals, NEW row, NEW s,
           intents' = [intents EXCEPT ![i] = RowIn(row, s)]
    PROVE  intents'[i].st = s
<1>1. RowIn(row, s).st = s
  BY DEF RowIn
<1>2. intents'[i] = RowIn(row, s)
  BY DEF TypeOK
<1> QED
  BY <1>1, <1>2

\* A pass gives the row at hand a state that the broker's answers bear out.
LEMMA MatchBorneOut ==
    ASSUME NEW w, Unkilled(w), UnkilledInv(w), NEW i \in Signals,
           MatchById(w, i) \/ MatchByScan(w, i) \/ MatchAmbiguous(w, i) \/ MatchNone(w, i)
    PROVE  /\ intents[i].st \in PendingStates
           /\ \A j \in Signals : j # i => intents'[j] = intents[j]
           /\ \/ intents'[i].st = intents[i].st
              \/ \E s \in IntentStates \ {"submitted_unknown"} :
                    intents'[i].st = s /\ Lossy!Justified(i, s)
<1> DEFINE row == pending[w][i]
<1>1. /\ pc[w] = "match" /\ pending[w][i].st # "none"
      /\ \A j \in Signals : j # i => intents'[j] = intents[j]
  BY UnkilledWorker, MatchWrites DEF UnkilledInv
<1>2. intents[i] = row /\ intents[i].st \in PendingStates
  BY <1>1 DEF UnkilledInv, Fresh
<1>3. RowTruth(orders, i, row) /\ row \in IntentRows
  BY UnkilledWorker, PendingRowType DEF UnkilledInv, LedgerInv
<1>4. CASE MatchById(w, i)
  <2>1. PICK status \in LookupViews(row) \ {"absent"} : ApplySnapshot(w, i, row.ext, status)
    BY <1>4 DEF MatchById
  <2>2. PICK o \in Orders : o = row.ext /\ status \in FetchViews(o) \ {"absent"}
    BY <1>3, <2>1 DEF LookupViews, IntentRows
  <2>3. status \in BrokerViews
    BY <2>2, FetchViewsType DEF UnkilledInv, TypeOK
  <2>4. /\ orders[o].st \in Accepted
        /\ status \in {"closed", "cancelled"} => orders[o].st = status
    BY <2>2, FetchTruth DEF UnkilledInv
  <2>5. SentFor(orders, i, o) /\ ApplySnapshot(w, i, o, status)
    BY <1>3, <2>1, <2>2, BrokerAssumption DEF RowTruth
  <2> QED
    BY <1>1, <1>2, <2>2, <2>3, <2>4, <2>5, SnapshotBorneOut
<1>5. CASE MatchByScan(w, i)
  <2>1. PICK o \in Orders : /\ ScanCandidates(w, i) = {o}
                            /\ ApplySnapshot(w, i, o, view[w][o].st)
    BY <1>5 DEF MatchByScan
  <2>2. PICK status \in BrokerViews \ {"absent"} : status = view[w][o].st
    BY <2>1, CandidateTruth
  <2> QED
    BY <1>1, <1>2, <2>1, <2>2, CandidateTruth, SnapshotBorneOut
<1>6. CASE MatchAmbiguous(w, i)
  <2>1. PICK o1 \in ScanCandidates(w, i), o2 \in ScanCandidates(w, i) : o1 # o2
    BY <1>6 DEF MatchAmbiguous
  <2>2. o1 \in Lossy!Taken(i, Accepted) /\ o2 \in Lossy!Taken(i, Accepted)
    BY CandidateTruth, SentIsTaken
  <2>3. Lossy!Justified(i, "ambiguous")
    BY <2>1, <2>2, JustifiedBy
  <2>4. intents' = [intents EXCEPT ![i] = RowIn(row, "ambiguous")]
    BY <1>6 DEF MatchAmbiguous
  <2>5. intents'[i].st = "ambiguous"
    BY <2>4 DEF RowIn, UnkilledInv, TypeOK
  <2>6. "ambiguous" \in IntentStates \ {"submitted_unknown"}
    BY DEF IntentStates, TerminalStates
  <2> QED
    BY <1>1, <1>2, <2>3, <2>5, <2>6
<1>7. CASE MatchNone(w, i)
  <2>1. PICK s \in {"expired_unsubmitted", "expired_unconfirmed", "same"} :
          \/ s = "same" /\ UNCHANGED intents
          \/ /\ s = "expired_unsubmitted" /\ row.st = "planned"
             /\ intents' = [intents EXCEPT ![i] = RowIn(row, s)]
          \/ /\ s = "expired_unconfirmed" /\ row.st \in {"submitted_unknown", "accepted_open"}
             /\ intents' = [intents EXCEPT ![i] = RowIn(row, s)]
    BY <1>7 DEF MatchNone
  <2>2. CASE s = "same"
    BY <1>1, <1>2, <2>1, <2>2
  <2>3. CASE s = "expired_unsubmitted"
    <3>1. OrdersOf(i) = {}
      BY <1>1, <1>2, <2>1, <2>3 DEF UnkilledInv, SentOnce, Unsent, Unkilled
    <3>2. Lossy!Justified(i, s)
      BY <1>2, <2>1, <2>3, <3>1, JustifiedBy
    <3>3. intents'[i].st = s
      BY <2>1, <2>3, RowInState DEF UnkilledInv
    <3>4. s \in IntentStates \ {"submitted_unknown"}
      BY <2>3 DEF IntentStates, TerminalStates
    <3> QED
      BY <1>1, <1>2, <3>2, <3>3, <3>4
  <2>4. CASE s = "expired_unconfirmed"
    <3>1. ASSUME row.st = "submitted_unknown"
          PROVE  Lossy!Justified(i, s)
      <4>1. OrdersOf(i) # {}
        BY <1>2, <3>1 DEF UnkilledInv, AnswerInv
      <4> QED
        BY <2>4, <4>1, JustifiedBy
    <3>2. ASSUME row.st = "accepted_open"
          PROVE  Lossy!Justified(i, s)
      <4>1. row.ext \in Orders /\ orders[row.ext].st \in Accepted
        BY <1>3, <3>2 DEF RowTruth
      <4>2. SentFor(orders, i, row.ext)
        BY <1>3, <4>1, BrokerAssumption DEF RowTruth
      <4>3. row.ext \in Lossy!Taken(i, Accepted)
        BY <4>1, <4>2, SentIsTaken
      <4> QED
        BY <2>4, <4>3, JustifiedBy
    <3>3. intents'[i].st = s
      BY <2>1, <2>4, RowInState DEF UnkilledInv
    <3>4. s \in IntentStates \ {"submitted_unknown"}
      BY <2>4 DEF IntentStates, TerminalStates
    <3>5. row.st \in {"submitted_unknown", "accepted_open"}
      BY <2>1, <2>4
    <3>6. Lossy!Justified(i, s)
      BY <3>1, <3>2, <3>5
    <3> QED
      BY <1>1, <1>2, <3>3, <3>4, <3>6
  <2> QED
    BY <2>2, <2>3, <2>4
<1> QED
  BY <1>4, <1>5, <1>6, <1>7

\* A step that keeps the book, the rows' states and the worker's place keeps what is
\* known of them.
LEMMA AnswerInvKept ==
    ASSUME NEW w, AnswerInv(w),
           \A o \in Orders : orders'[o].for = orders[o].for,
           \A o \in Orders : orders'[o].st = "free" => orders[o].st = "free",
           \A o \in Orders : orders[o].st = "refused" => orders'[o].st = "refused",
           \A i \in Signals : intents'[i].st = "submitted_unknown" =>
              intents[i].st = "submitted_unknown",
           pc[w] = "save" => call[w].slot \in Orders,
           \/ UNCHANGED <<pc, held, call>>
           \/ pc'[w] \notin {"insert", "gate", "submit", "sent", "save"}
    PROVE  AnswerInv(w)'
<1>1. \A i \in Signals : OrdersOf(i)' = OrdersOf(i)
  BY DEF OrdersOf
<1> QED
  BY <1>1 DEF AnswerInv

\* The slot whose answer is being written down is a slot.
LEMMA SavedSlot ==
    ASSUME NEW w, Unkilled(w), UnkilledInv(w), pc[w] = "save"
    PROVE  call[w].slot \in Orders /\ orders[call[w].slot].for = target[w]
<1>1. call[w].slot \in Orders \cup {NoOrder}
  BY UnkilledWorker DEF UnkilledInv, TypeOK
<1>2. CallTruth(orders, pc[w], target[w], call[w])
  BY UnkilledWorker DEF UnkilledInv, LedgerInv
<1> QED
  BY <1>1, <1>2 DEF CallTruth

\* What the broker does to an order it may do to it in the abstract ledger.
LEMMA BrokerAnswers ==
    ASSUME NEW w, Unkilled(w), UnkilledInv(w), NEW o \in Orders, Broker(o)
    PROVE  AnswerInv(w)' /\ Lossy!Next
<1>1. PICK a \in {"open", "refused", "closed", "cancelled"} :
         /\ \A q \in Orders : orders'[q].for = orders[q].for
         /\ \A q \in Orders : orders'[q].st = IF q = o THEN a ELSE orders[q].st
         /\ \/ orders[o].st = "inflight" /\ a \in {"open", "refused"}
            \/ orders[o].st = "open" /\ a \in {"closed", "cancelled"}
  <2>1. ASSUME NEW s \in {"open", "refused", "closed", "cancelled"}, NEW new, new.st = s,
               new.for = orders[o].for, orders' = [orders EXCEPT ![o] = new]
        PROVE  /\ \A q \in Orders : orders'[q].for = orders[q].for
               /\ \A q \in Orders : orders'[q].st = IF q = o THEN s ELSE orders[q].st
    BY <2>1 DEF UnkilledInv, TypeOK
  <2>2. CASE BrokerAccept(o)
    <3> DEFINE new == [st |-> "open", for |-> orders[o].for,
                       tagged |-> Provider = "fake", opened |-> now]
    <3>1. orders[o].st = "inflight" /\ orders' = [orders EXCEPT ![o] = new]
      BY <2>2 DEF BrokerAccept
    <3>2. new.st = "open" /\ new.for = orders[o].for
      OBVIOUS
    <3> HIDE DEF new
    <3> QED
      BY <2>1, <3>1, <3>2
  <2>3. \A s : OrderIn(o, s).st = s /\ OrderIn(o, s).for = orders[o].for
    BY DEF OrderIn
  <2>4. CASE BrokerRefuse(o)
    <3>1. orders[o].st = "inflight" /\ orders' = [orders EXCEPT ![o] = OrderIn(o, "refused")]
      BY <2>4 DEF BrokerRefuse
    <3> QED
      BY <2>1, <2>3, <3>1
  <2>5. ASSUME NEW outcome \in {"closed", "cancelled"}, BrokerClose(o, outcome)
        PROVE  /\ \A q \in Orders : orders'[q].for = orders[q].for
               /\ \A q \in Orders : orders'[q].st = IF q = o THEN outcome ELSE orders[q].st
               /\ orders[o].st = "open"
    <3>1. orders[o].st = "open" /\ orders' = [orders EXCEPT ![o] = OrderIn(o, outcome)]
      BY <2>5 DEF BrokerClose
    <3> QED
      BY <2>1, <2>3, <3>1
  <2> QED
    BY <2>2, <2>4, <2>5 DEF Broker
<1>2. UNCHANGED <<intents, pc, held, call>>
  BY DEF Broker, ledgerVars, workVars
<1>3. AnswerInv(w)'
  BY <1>1, <1>2, SavedSlot, AnswerInvKept DEF UnkilledInv
<1>4. [i \in Signals |-> OrdersOf(i)'] = [i \in Signals |-> OrdersOf(i)]
  BY <1>1 DEF OrdersOf
<1>5. [q \in Orders |-> orders'[q].st] = [[q \in Orders |-> orders[q].st] EXCEPT ![o] = a]
  BY <1>1
<1>6. Lossy!Answer(o, a)
  BY <1>1, <1>2, <1>4, <1>5 DEF Lossy!Answer
<1>7. Lossy!Next
  BY <1>6 DEF Lossy!Next, Lossy!Live
<1> QED
  BY <1>3, <1>7

\* A pass moves the ledger only as the broker's answers allow.
LEMMA PassRecords ==
    ASSUME NEW w, Unkilled(w), UnkilledInv(w), Reconcile(w)
    PROVE  AnswerInv(w)' /\ (Lossy!Next \/ UNCHANGED Lossy!vars)
<1>1. /\ pc'[w] \in {"scan", "match", "orphans", "pick", "idle"}
      /\ pc[w] # "save" /\ orders' = orders
  BY UnkilledWorker, PassPlace DEF UnkilledInv
<1>2. ASSUME UNCHANGED intents
      PROVE  AnswerInv(w)' /\ (Lossy!Next \/ UNCHANGED Lossy!vars)
  BY <1>1, <1>2, AnswerInvKept, NothingSeen DEF UnkilledInv
<1>3. ASSUME NEW i \in Signals,
             MatchById(w, i) \/ MatchByScan(w, i) \/ MatchAmbiguous(w, i) \/ MatchNone(w, i)
      PROVE  AnswerInv(w)' /\ (Lossy!Next \/ UNCHANGED Lossy!vars)
  <2>1. /\ intents[i].st \in PendingStates
        /\ \A j \in Signals : j # i => intents'[j].st = intents[j].st
    BY <1>3, MatchBorneOut
  <2>2. CASE intents'[i].st = intents[i].st
    <3>1. \A j \in Signals : intents'[j].st = intents[j].st
      BY <2>1, <2>2
    <3> QED
      BY <1>1, <3>1, AnswerInvKept, NothingSeen DEF UnkilledInv
  <2>3. ASSUME NEW s \in IntentStates \ {"submitted_unknown"},
               intents'[i].st = s, Lossy!Justified(i, s)
        PROVE  AnswerInv(w)' /\ Lossy!Next
    <3>1. \A j \in Signals : intents'[j].st = "submitted_unknown" =>
             intents[j].st = "submitted_unknown"
      BY <2>1, <2>3
    <3>2. AnswerInv(w)'
      BY <1>1, <3>1, AnswerInvKept DEF UnkilledInv
    <3>3. Lossy!Next
      BY <1>1, <2>1, <2>3, RowRecorded
    <3> QED
      BY <3>2, <3>3
  <2> QED
    BY <1>3, <2>2, <2>3, MatchBorneOut
<1>4. CASE \/ ListPending(w) \/ Scan(w) \/ PassRaises(w) \/ MatchDone(w) \/ OrphanPass(w)
           \/ \E i \in Signals : MatchRaises(w, i)
  BY <1>2, <1>4 DEF ListPending, Scan, PassRaises, MatchDone, OrphanPass, MatchRaises, ledgerVars
<1> QED
  BY <1>3, <1>4 DEF Reconcile

\* The orders of a signal can be counted.
LEMMA OrdersAreFew ==
    ASSUME NEW i
    PROVE  Cardinality(OrdersOf(i)) \in Nat
<1>1. IsFiniteSet(Orders)
  BY BrokerAssumption, FS_Interval
<1>2. IsFiniteSet(OrdersOf(i))
  BY <1>1, FS_Subset DEF OrdersOf
<1> QED
  BY <1>2, FS_CardinalityType

\* The abstract module counts as this one does.
LEMMA SameCount ==
    ASSUME NEW S PROVE Lossy!Cardinality(S) = Cardinality(S)
BY Zenon DEF Lossy!Cardinality, Cardinality

\* A request is one more order of the signal in hand, which is planned and has not yet
\* had all its tries; nothing sent for another signal is unrecorded.
LEMMA RequestAsks ==
    ASSUME NEW w, Unkilled(w), UnkilledInv(w), CallBroker(w) \/ BuyAgain(w)
    PROVE  AnswerInv(w)' /\ Lossy!Next
<1> USE UnkilledWorker
<1> DEFINE t == target[w]
<1>1. PICK n \in 1..BuyRetries : SendRequest(w, n)
  BY RequestNumber DEF UnkilledInv
<1>2. pc[w] \in {"submit", "sent"} /\ pc'[w] = "sent" /\ UNCHANGED <<intents, held, target>>
  BY <1>1 DEF CallBroker, BuyAgain, SendRequest, UnkilledInv, TypeOK, ledgerVars
<1>3. /\ t \in Signals /\ intents[t].st = "planned" /\ held[w].st = "planned"
  BY <1>2 DEF UnkilledInv, Fresh, AnswerInv
<1>4. Cardinality(OrdersOf(t)) < Tries
  <2>1. CASE CallBroker(w)
    <3>1. OrdersOf(t) = {}
      BY <1>3, <2>1 DEF CallBroker, UnkilledInv, SentOnce
    <3>2. Tries \in Nat /\ Tries > 0
      BY LedgerAssumption DEF Tries
    <3> QED
      BY <3>1, <3>2, FS_EmptySet
  <2>2. CASE BuyAgain(w)
    <3>1. call[w].tries \in Nat /\ call[w].tries < Tries
      BY <2>2 DEF BuyAgain, UnkilledInv, TypeOK
    <3>2. Cardinality(OrdersOf(t)) <= call[w].tries
      BY <1>3, <2>2 DEF BuyAgain, UnkilledInv, SentOnce
    <3>3. Cardinality(OrdersOf(t)) \in Nat
      BY OrdersAreFew
    <3>4. Tries \in Nat
      BY LedgerAssumption DEF Tries
    <3> QED
      BY <3>1, <3>2, <3>3, <3>4
  <2> QED
    BY <2>1, <2>2
<1>5. \A j \in Signals : j # t /\ OrdersOf(j) # {} => intents[j].st \notin {"none", "planned"}
  BY DEF UnkilledInv, SentOnce, Unsent, Unkilled
<1> DEFINE new == [st |-> "inflight", for |-> t, tagged |-> FALSE, opened |-> 0]
<1>6. PICK o \in Orders : orders[o].st = "free" /\ orders' = [orders EXCEPT ![o] = new]
  BY <1>1 DEF SendRequest
<1>7. new.st = "inflight" /\ new.for = t
  OBVIOUS
<1> HIDE DEF new
<1>8. \A q \in Orders : orders'[q] = IF q = o THEN new ELSE orders[q]
  BY <1>6 DEF UnkilledInv, TypeOK
<1>9. orders[o].for = 0 /\ t # 0
  BY <1>3, <1>6, BrokerAssumption DEF UnkilledInv, AnswerInv
<1>10. \A j \in Signals : OrdersOf(j)' = IF j = t THEN OrdersOf(j) \cup {o} ELSE OrdersOf(j)
  <2>1. \A j \in Signals : \A q \in Orders :
           orders'[q].for = j <=> orders[q].for = j \/ (j = t /\ q = o)
    BY <1>7, <1>8, <1>9, BrokerAssumption
  <2> QED
    BY <2>1 DEF OrdersOf
<1>11. AnswerInv(w)'
  <2>1. \A q \in Orders : orders'[q].st = "free" => orders'[q].for = 0
    BY <1>7, <1>8 DEF UnkilledInv, AnswerInv
  <2>2. \A i \in Signals : intents'[i].st = "submitted_unknown" => OrdersOf(i)' # {}
    BY <1>2, <1>10 DEF UnkilledInv, AnswerInv
  <2> QED
    BY <1>2, <1>3, <2>1, <2>2 DEF AnswerInv
<1>12. Lossy!Ask(t, o)
  <2>1. [q \in Orders |-> orders'[q].st]
          = [[q \in Orders |-> orders[q].st] EXCEPT ![o] = "inflight"]
    BY <1>7, <1>8
  <2>2. [j \in Signals |-> OrdersOf(j)']
          = [[j \in Signals |-> OrdersOf(j)] EXCEPT ![t] = @ \cup {o}]
    BY <1>3, <1>10
  <2>3. [j \in Signals |-> intents'[j].st] = [j \in Signals |-> intents[j].st]
    BY <1>2
  <2>4. /\ [j \in Signals |-> intents[j].st][t] = "planned"
        /\ Lossy!Cardinality([j \in Signals |-> OrdersOf(j)][t]) < Tries
        /\ [q \in Orders |-> orders[q].st][o] = "free"
    BY <1>3, <1>4, <1>6, SameCount
  <2>5. \A j \in Signals \ {t} : [k \in Signals |-> OrdersOf(k)][j] # {} =>
           [k \in Signals |-> intents[k].st][j] \notin {"none", "planned"}
    BY <1>5
  <2> QED
    BY <2>1, <2>2, <2>3, <2>4, <2>5 DEF Lossy!Ask
<1> QED
  BY <1>3, <1>11, <1>12 DEF Lossy!Next

\* A run that ends leaves the row of its signal as it was, or in the state s.
LEMMA FinishRecords ==
    ASSUME NEW w, Unkilled(w), UnkilledInv(w), Finish(w), UNCHANGED orders,
           NEW t \in Signals, NEW row, intents' = [intents EXCEPT ![t] = row],
           \/ row = intents[t]
           \/ /\ row.st \in IntentStates /\ intents[t].st \in PendingStates
              /\ Lossy!Justified(t, row.st)
              /\ row.st = "submitted_unknown" => OrdersOf(t) # {}
    PROVE  AnswerInv(w)' /\ (Lossy!Next \/ UNCHANGED Lossy!vars)
<1> USE UnkilledWorker
<1>1. pc'[w] = "list"
  BY DEF Finish, UnkilledInv, TypeOK
<1>2. \A j \in Signals : intents'[j] = IF j = t THEN row ELSE intents[j]
  BY DEF UnkilledInv, TypeOK
<1>3. \A j \in Signals : OrdersOf(j)' = OrdersOf(j)
  BY DEF OrdersOf
<1>4. AnswerInv(w)'
  <2>1. \A j \in Signals : intents'[j].st = "submitted_unknown" => OrdersOf(j) # {}
    BY <1>2 DEF UnkilledInv, AnswerInv
  <2> QED
    BY <1>1, <1>3, <2>1 DEF UnkilledInv, AnswerInv
<1>5. CASE row = intents[t]
  BY <1>2, <1>4, <1>5, NothingSeen
<1>6. CASE row # intents[t]
  <2>1. PICK s \in IntentStates : s = row.st /\ Lossy!Justified(t, s)
    BY <1>6
  <2>2. Lossy!Next
    BY <1>2, <1>6, <2>1, RowRecorded
  <2> QED
    BY <1>4, <2>2
<1> QED
  BY <1>5, <1>6

\* The worker's own steps do what the abstract ledger lets them.
LEMMA WorkRecords ==
    ASSUME NEW w, Unkilled(w), UnkilledInv(w), Work(w)
    PROVE  AnswerInv(w)' /\ (Lossy!Next \/ UNCHANGED Lossy!vars)
<1> USE UnkilledWorker
<1> DEFINE t == target[w]
<1>0. pc[w] \in {"insert", "gate", "submit", "sent", "save"} =>
         t \in Signals /\ intents[t] = held[w]
  BY DEF UnkilledInv, Fresh
<1>1. CASE StartWorker(w) \/ GatePass(w)
  <2>1. UNCHANGED <<orders, intents, held, call>>
    BY <1>1 DEF StartWorker, GatePass, brokerVars, ledgerVars, workVars
  <2>2. pc'[w] = "list" \/ (pc[w] = "gate" /\ pc'[w] = "submit")
    BY <1>1 DEF StartWorker, GatePass, UnkilledInv, TypeOK
  <2>3. \A i \in Signals : OrdersOf(i)' = OrdersOf(i)
    BY <2>1 DEF OrdersOf
  <2>4. AnswerInv(w)'
    BY <2>1, <2>2, <2>3 DEF UnkilledInv, AnswerInv
  <2> QED
    BY <2>1, <2>4, NothingSeen
<1>2. CASE PickSignal(w)
  <2>1. PICK i \in Signals \cup {0} :
          IF i = 0 \/ ~Submittable(i)
             THEN Finish(w)
             ELSE /\ held' = [held EXCEPT ![w] = intents[i]]
                  /\ pc' = [pc EXCEPT ![w] = IF intents[i].st = "none"
                                             THEN "insert" ELSE "gate"]
    BY <1>2 DEF PickSignal
  <2>2. UNCHANGED <<orders, intents>>
    BY <1>2 DEF PickSignal, brokerVars, ledgerVars
  <2>3. \A j \in Signals : OrdersOf(j)' = OrdersOf(j)
    BY <2>2 DEF OrdersOf
  <2>4. \/ pc'[w] = "list"
        \/ pc'[w] = "insert" /\ held'[w].st = "none"
        \/ pc'[w] = "gate" /\ held'[w].st = "planned"
    <3>1. CASE i = 0 \/ ~Submittable(i)
      BY <2>1, <3>1 DEF Finish, UnkilledInv, TypeOK
    <3>2. CASE i # 0 /\ Submittable(i)
      BY <2>1, <3>2 DEF Submittable, UnkilledInv, TypeOK
    <3> QED
      BY <3>1, <3>2
  <2>5. AnswerInv(w)'
    BY <2>2, <2>3, <2>4 DEF UnkilledInv, AnswerInv
  <2> QED
    BY <2>2, <2>5, NothingSeen
<1>3. CASE InsertIntent(w)
  <2> DEFINE new == RowIn(NoRow, "planned")
  <2>1. /\ pc[w] = "insert" /\ pc'[w] = "gate" /\ UNCHANGED orders
        /\ intents' = [intents EXCEPT ![t] = new] /\ held' = [held EXCEPT ![w] = new]
    BY <1>3 DEF InsertIntent, UnkilledInv, TypeOK, brokerVars
  <2>2. new.st = "planned"
    BY DEF RowIn
  <2> HIDE DEF new
  <2>3. t \in Signals /\ intents[t].st = "none"
    BY <1>0, <2>1 DEF UnkilledInv, AnswerInv
  <2>4. \A j \in Signals : intents'[j] = IF j = t THEN new ELSE intents[j]
    BY <2>1 DEF UnkilledInv, TypeOK
  <2>5. held'[w].st = "planned"
    BY <2>1, <2>2 DEF UnkilledInv, TypeOK
  <2>6. \A j \in Signals : OrdersOf(j)' = OrdersOf(j)
    BY <2>1 DEF OrdersOf
  <2>7. OrdersOf(t) = {}
    BY <2>1, <2>3 DEF UnkilledInv, SentOnce
  <2>8. AnswerInv(w)'
    BY <2>1, <2>2, <2>4, <2>5, <2>6 DEF UnkilledInv, AnswerInv
  <2>9. PICK i \in Signals : i = t
    BY <2>3
  <2>10. Lossy!Plan(i)
    <3>1. [j \in Signals |-> intents'[j].st]
            = [[j \in Signals |-> intents[j].st] EXCEPT ![i] = "planned"]
      BY <2>2, <2>3, <2>4, <2>9
    <3>2. [j \in Signals |-> OrdersOf(j)'] = [j \in Signals |-> OrdersOf(j)]
      BY <2>6
    <3>3. [o \in Orders |-> orders'[o].st] = [o \in Orders |-> orders[o].st]
      BY <2>1
    <3>4. /\ [j \in Signals |-> intents[j].st][i] = "none"
          /\ [j \in Signals |-> OrdersOf(j)][i] = {}
      BY <2>3, <2>7, <2>9
    <3> QED
      BY <3>1, <3>2, <3>3, <3>4 DEF Lossy!Plan
  <2>11. Lossy!Next
    BY <2>10 DEF Lossy!Next
  <2> QED
    BY <2>8, <2>11
<1>4. CASE GateBlocked(w)
  <2>1. /\ Finish(w) /\ UNCHANGED orders /\ t \in Signals
        /\ intents' = [intents EXCEPT ![t] = intents[t]]
    BY <1>0, <1>4 DEF GateBlocked, brokerVars
  <2> QED
    BY <2>1, FinishRecords
<1>5. CASE DeadlinePassed(w)
  <2> DEFINE new == RowIn(held[w], "expired_unsubmitted")
  <2>1. /\ Finish(w) /\ UNCHANGED orders /\ t \in Signals /\ pc[w] = "gate"
        /\ intents' = [intents EXCEPT ![t] = new]
    BY <1>0, <1>5 DEF DeadlinePassed, brokerVars
  <2>2. new.st = "expired_unsubmitted"
    BY DEF RowIn
  <2> HIDE DEF new
  <2>3. intents[t].st = "planned" /\ OrdersOf(t) = {}
    BY <1>0, <2>1 DEF UnkilledInv, AnswerInv, SentOnce
  <2>4. Lossy!Justified(t, new.st)
    BY <2>1, <2>2, <2>3, JustifiedBy
  <2>5. intents[t].st \in PendingStates /\ new.st \in IntentStates
    BY <2>2, <2>3 DEF PendingStates, IntentStates, TerminalStates
  <2> QED
    BY <2>1, <2>2, <2>4, <2>5, FinishRecords
<1>6. CASE CallBroker(w) \/ BuyAgain(w)
  BY <1>6, RequestAsks
<1>7. CASE SubmitReturns(w)
  <2>1. PICK answer \in {"ack", "reject", "unknown"} :
          /\ answer = "reject" => orders[call[w].slot].st = "refused"
          /\ orders' = IF answer # "ack" THEN orders
                ELSE [orders EXCEPT ![call[w].slot] =
                        [st |-> @.st, for |-> @.for, tagged |-> TRUE, opened |-> @.opened]]
          /\ call' = [call EXCEPT ![w] =
                [slot |-> call[w].slot, at |-> @.at, answer |-> answer, tries |-> 0]]
    BY <1>7 DEF SubmitReturns
  <2>2. \A q \in Orders : orders'[q].for = orders[q].for /\ orders'[q].st = orders[q].st
    BY <2>1 DEF UnkilledInv, TypeOK
  <2>3. /\ pc[w] = "sent" /\ pc'[w] = "save" /\ UNCHANGED <<intents, held>>
    BY <1>7 DEF SubmitReturns, UnkilledInv, TypeOK, ledgerVars
  <2>4. call'[w].answer = answer /\ call'[w].slot = call[w].slot
    BY <2>1 DEF UnkilledInv, TypeOK
  <2>5. call[w].slot \in Orders
    BY <2>3 DEF UnkilledInv, TypeOK, LedgerInv, CallTruth
  <2>6. \A i \in Signals : OrdersOf(i)' = OrdersOf(i)
    BY <2>2 DEF OrdersOf
  <2>7. AnswerInv(w)'
    BY <2>1, <2>2, <2>3, <2>4, <2>5, <2>6 DEF UnkilledInv, AnswerInv
  <2> QED
    BY <2>2, <2>3, <2>7, NothingSeen
<1>8. CASE SaveResult(w)
  <2> DEFINE o == call[w].slot
             ext == IF call[w].answer = "ack" THEN call[w].slot ELSE held[w].ext
             sub == IF held[w].sub # NoTime THEN held[w].sub ELSE call[w].at
             s == StateFromTransport(call[w].answer)
             new == [st |-> s, ext |-> ext, sub |-> sub]
  <2>1. /\ Finish(w) /\ UNCHANGED orders /\ t \in Signals /\ pc[w] = "save"
        /\ intents' = [intents EXCEPT ![t] = new]
    BY <1>0, <1>8 DEF SaveResult, brokerVars
  <2>2. new.st = s
    OBVIOUS
  <2>3. /\ call[w].answer = "ack" => s = "accepted_open"
        /\ call[w].answer = "reject" => s = "rejected"
        /\ call[w].answer \notin {"ack", "reject"} => s = "submitted_unknown"
    BY StateFromTransportCases
  <2> HIDE DEF s, new
  <2>4. intents[t].st = "planned"
    BY <1>0, <2>1 DEF UnkilledInv, AnswerInv
  <2>5. o \in Orders /\ o \in OrdersOf(t)
    BY <2>1, SavedSlot DEF OrdersOf
  <2>6. CASE call[w].answer = "ack"
    <3>1. orders[o].st \in Accepted /\ SentFor(orders, t, o)
      BY <2>1, <2>5, <2>6 DEF UnkilledInv, LedgerInv, CallTruth, SentFor, OrdersOf, Accepted
    <3>2. o \in Lossy!Taken(t, Accepted)
      BY <2>1, <2>5, <3>1, SentIsTaken
    <3> QED
      BY <2>1, <2>2, <2>3, <2>4, <2>6, <3>2, JustifiedBy, FinishRecords
         DEF PendingStates, IntentStates, TerminalStates
  <2>7. CASE call[w].answer = "reject"
    <3>1. orders[o].st = "refused"
      BY <2>1, <2>7 DEF UnkilledInv, AnswerInv
    <3>2. Lossy!Justified(t, "rejected")
      BY <2>1, <2>4, <2>5, <3>1, JustifiedBy
    <3> QED
      BY <2>1, <2>2, <2>3, <2>4, <2>7, <3>2, FinishRecords
         DEF PendingStates, IntentStates, TerminalStates
  <2>8. CASE call[w].answer \notin {"ack", "reject"}
    <3>1. OrdersOf(t) # {} /\ Lossy!Justified(t, "submitted_unknown")
      BY <2>1, <2>4, <2>5, JustifiedBy
    <3> QED
      BY <2>1, <2>2, <2>3, <2>4, <2>8, <3>1, FinishRecords
         DEF PendingStates, IntentStates, TerminalStates
  <2> QED
    BY <2>6, <2>7, <2>8
<1> QED
  BY <1>1, <1>2, <1>3, <1>4, <1>5, <1>6, <1>7, <1>8 DEF Work

\* Every step of the execution layer is a step of the abstract ledger, or none.
LEMMA StepRecords ==
    ASSUME NEW w, Unkilled(w), UnkilledInv(w), [Next]_vars
    PROVE  AnswerInv(w)' /\ (Lossy!Next \/ UNCHANGED Lossy!vars)
<1> USE UnkilledWorker
<1>1. CASE Reconcile(w)
  BY <1>1, PassRecords
<1>2. CASE Work(w)
  BY <1>2, WorkRecords
<1>3. ASSUME NEW o \in Orders, Broker(o)
      PROVE  AnswerInv(w)' /\ Lossy!Next
  BY <1>3, BrokerAnswers
<1>4. ASSUME NEW o \in Orders, OtherScopeSaves(o)
      PROVE  AnswerInv(w)' /\ UNCHANGED Lossy!vars
  <2>1. /\ UNCHANGED <<intents, pc, held, call>>
        /\ \A q \in Orders : orders'[q].st = orders[q].st /\ orders'[q].for = orders[q].for
    BY <1>4, OnlyTheTag DEF OtherScopeSaves, UnkilledInv, TypeOK, ledgerVars, workVars
  <2> QED
    BY <2>1, SavedSlot, AnswerInvKept, NothingSeen DEF UnkilledInv
<1>5. CASE \/ Tick \/ ToggleHalt \/ UNCHANGED vars
           \/ \E i \in Signals, verdict \in Verdicts : Emit(i, verdict)
  <2>1. UNCHANGED <<orders, intents, pc, held, call>>
    BY <1>5 DEF Tick, ToggleHalt, Emit, vars, brokerVars, ledgerVars, workVars
  <2> QED
    BY <2>1, SavedSlot, AnswerInvKept, NothingSeen DEF UnkilledInv
<1>6. ~Crash(w)
  BY DEF Crash, Unkilled, UnkilledInv, TypeOK
<1> QED
  BY <1>1, <1>2, <1>3, <1>4, <1>5, <1>6 DEF Next, Unkilled

\* Nothing has happened in either ledger.
LEMMA NothingBefore ==
    ASSUME NEW w, Unkilled(w), Init
    PROVE  AnswerInv(w) /\ Lossy!Init
<1>1. \A o \in Orders : orders[o].st = "free" /\ orders[o].for = 0
  BY DEF Init, BrokerInit, FreeSlot
<1>2. \A i \in Signals : OrdersOf(i) = {}
  BY <1>1, BrokerAssumption DEF OrdersOf
<1>3. (\A i \in Signals : intents[i].st = "none") /\ pc[w] = "idle"
  BY UnkilledWorker DEF Init, NoRow
<1>4. Lossy!Init
  BY <1>1, <1>2, <1>3 DEF Lossy!Init
<1> QED
  BY <1>1, <1>3, <1>4 DEF AnswerInv

\* Every state of an unkilled worker's execution satisfies what the steps above rely on.
LEMMA UnkilledAlways ==
    ASSUME NEW w, Unkilled(w)
    PROVE  Spec => []UnkilledInv(w)
<1> DEFINE Inv == Fresh(w) /\ AnswerInv(w)
<1>1. Init => Inv
  <2>1. Init => Fresh(w)
    BY UnkilledWorker DEF Init, Fresh, NoRow
  <2> QED
    BY <2>1, NothingBefore
<1>2. TypeOK /\ LedgerInv /\ SentOnce /\ Inv /\ [Next]_vars => Inv'
  <2> SUFFICES ASSUME TypeOK, LedgerInv, SentOnce, Inv, [Next]_vars PROVE Inv'
    OBVIOUS
  <2>1. UnkilledInv(w)
    BY DEF UnkilledInv
  <2>2. Fresh(w)'
    BY UnkilledWorker, FreshStep
  <2> QED
    BY <2>1, <2>2, StepRecords
<1>3. TypeOK /\ LedgerInv /\ SentOnce /\ Inv => UnkilledInv(w)
  BY DEF UnkilledInv
<1>4. Spec => []SentOnce
  BY UnkilledWorker, OneRequestPerSignal DEF Unkilled
<1> HIDE DEF Inv
<1> QED
  BY <1>1, <1>2, <1>3, <1>4, TypeCorrect, LedgerIsTrue, PTL DEF Spec

\* A worker that is not killed keeps the promises of LossyLifecycle: what was sent is
\* recorded before anything else is sent, a signal that has left "planned" is not sent
\* again, and no row says what none of the orders that may be the signal's bears out.
\* Whatever the broker answers and when, whatever the bridge loses, however often the
\* client tries its buy and whichever orders look alike.
THEOREM UnkilledImplementsLossy ==
    ASSUME NEW w, Unkilled(w)
    PROVE  Spec => ImplementsLossyLifecycle
<1>1. Init => Lossy!Init
  BY NothingBefore
<1>2. UnkilledInv(w) /\ [Next]_vars => [Lossy!Next]_(Lossy!vars)
  BY StepRecords
<1>3. Spec => Lossy!Spec
  BY <1>1, <1>2, UnkilledAlways, PTL DEF Spec, Lossy!Spec
<1> QED
  BY <1>3 DEF ImplementsLossyLifecycle
=============================================================================
