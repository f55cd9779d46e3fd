------------------------- MODULE SoleProcessProofs -------------------------
(***************************************************************************)
(* With one process at work, killed and started again as often as one      *)
(* likes, whole rows are written back over nothing newer: what a signal's  *)
(* intent came to stays, and an acknowledged order is given up only when   *)
(* the bridge has given it up.                                             *)
(***************************************************************************)
EXTENDS ExecutionLedgerProofs

USE DEF Signals, Orders, Times, NoOrder, NoTime

\* The rows a process holds, to write them back, are the rows of the table: those
\* of its pass that it has not handled yet, and that of the signal in hand.
Fresh(p) ==
    /\ \A i \in Signals : pending[p][i].st # "none" =>
          intents[i] = pending[p][i] /\ intents[i].st \in PendingStates
    /\ pc[p] \notin {"scan", "match"} => \A i \in Signals : pending[p][i].st = "none"
    /\ pc[p] \in {"insert", "gate", "submit", "sent", "save"} =>
          target[p] \in Signals /\ intents[target[p]] = held[p]

\* A worker about to write holds a row that is not yet submitted.
LEMMA HeldIsUnsent ==
    ASSUME LedgerInv, NEW p \in Processes, Fresh(p),
           pc[p] \in {"insert", "gate", "submit", "sent", "save"}
    PROVE  intents[target[p]].st \in {"none", "planned"}
BY DEF LedgerInv, Fresh

\* Leaving a pass, or a kill, leaves nothing pending.
LEMMA NothingHeld ==
    ASSUME TypeOK, NEW p \in Processes,
           pending' = [pending EXCEPT ![p] = [i \in Signals |-> NoRow]]
    PROVE  \A i \in Signals : pending'[p][i].st = "none"
<1>1. pending'[p] = [i \in Signals |-> NoRow]
  BY DEF TypeOK
<1>2. NoRow.st = "none"
  BY DEF NoRow
<1> QED
  BY <1>1, <1>2

\* A step that handles signal i of a pass writes no other row.
LEMMA HandledIsFresh ==
    ASSUME TypeOK, NEW p \in Processes, NEW i \in Signals, Fresh(p),
           pc[p] = "match", pc' = pc, Handled(p, i),
           \A j \in Signals : j # i => intents'[j] = intents[j]
    PROVE  Fresh(p)'
<1>1. \A j \in Signals : pending'[p][j] = IF j = i THEN NoRow ELSE pending[p][j]
  BY DEF Handled, TypeOK
<1>2. NoRow.st = "none"
  BY DEF NoRow
<1> QED
  BY <1>1, <1>2 DEF Fresh

\* What a reconcile pass writes: nothing, or the row of the signal at hand, which
\* it has read in this pass.
LEMMA MatchWrites ==
    ASSUME TypeOK, NEW p \in Processes, NEW i \in Signals,
           \/ MatchById(p, i) \/ MatchByScan(p, i) \/ MatchAmbiguous(p, i)
           \/ MatchNone(p, i) \/ MatchRaises(p, i)
    PROVE  /\ pc[p] = "match" /\ pc' = pc /\ Handled(p, i)
           /\ pending[p][i].st # "none"
           /\ \A j \in Signals : j # i => intents'[j] = intents[j]
<1>1. pc[p] = "match" /\ pc' = pc /\ Handled(p, i) /\ Current(p, i)
  BY DEF MatchById, MatchByScan, MatchAmbiguous, MatchNone, MatchRaises, ApplySnapshot
<1>2. intents' = intents \/ \E row : intents' = [intents EXCEPT ![i] = row]
  BY DEF MatchById, MatchByScan, MatchAmbiguous, MatchNone, MatchRaises, ApplySnapshot,
         ledgerVars
<1> QED
  BY <1>1, <1>2 DEF TypeOK, Current, Todo

\* A pass keeps what its process holds fresh.
LEMMA ReconcileIsFresh ==
    ASSUME TypeOK, NEW p \in Processes, Fresh(p), Reconcile(p)
    PROVE  Fresh(p)'
<1>1. ASSUME EndPass(p), UNCHANGED intents
      PROVE  Fresh(p)'
  <2>1. \A i \in Signals : pending'[p][i].st = "none"
    BY <1>1, NothingHeld DEF EndPass
  <2>2. pc'[p] \in {"pick", "idle"}
    BY <1>1 DEF EndPass, AfterPass, TypeOK
  <2> QED
    BY <2>1, <2>2 DEF Fresh
<1>2. CASE ListPending(p)
  <2>1. CASE \E i \in Signals : intents[i].st \in PendingStates
    <3>1. /\ pc' = [pc EXCEPT ![p] = "scan"]
          /\ pending' = [pending EXCEPT ![p] = PendingRows]
          /\ UNCHANGED intents
      BY <1>2, <2>1 DEF ListPending, ledgerVars
    <3>2. pc'[p] = "scan" /\ pending'[p] = PendingRows
      BY <3>1 DEF TypeOK
    <3>3. \A i \in Signals : pending'[p][i] = IF intents[i].st \in PendingStates
                                              THEN intents[i] ELSE NoRow
      BY <3>2 DEF PendingRows
    <3> QED
      BY <3>1, <3>2, <3>3 DEF Fresh, NoRow
  <2>2. CASE ~\E i \in Signals : intents[i].st \in PendingStates
    BY <1>1, <1>2, <2>2 DEF ListPending, ledgerVars
  <2> QED
    BY <2>1, <2>2
<1>3. CASE Scan(p)
  <2>1. pc[p] = "scan" /\ pc'[p] = "match" /\ UNCHANGED <<pending, intents>>
    BY <1>3 DEF Scan, TypeOK, ledgerVars
  <2> QED
    BY <2>1 DEF Fresh
<1>4. CASE MatchDone(p)
  <2>1. /\ pc'[p] = "orphans" /\ UNCHANGED <<pending, intents>>
        /\ \A i \in Signals : pending[p][i].st = "none"
    BY <1>4 DEF MatchDone, Todo, TypeOK, ledgerVars, passVars
  <2> QED
    BY <2>1 DEF Fresh
<1>5. CASE PassRaises(p) \/ OrphanPass(p)
  BY <1>1, <1>5 DEF PassRaises, OrphanPass, ledgerVars
<1>6. ASSUME NEW i \in Signals,
             \/ MatchById(p, i) \/ MatchByScan(p, i) \/ MatchAmbiguous(p, i)
             \/ MatchNone(p, i) \/ MatchRaises(p, i)
      PROVE  Fresh(p)'
  BY <1>6, MatchWrites, HandledIsFresh
<1> QED
  BY <1>2, <1>3, <1>4, <1>5, <1>6 DEF Reconcile

\* So does a worker: from the row it has picked on it has written nothing else.
LEMMA WorkIsFresh ==
    ASSUME TypeOK, NEW p \in Workers, Fresh(p), Work(p)
    PROVE  Fresh(p)'
<1>0. p \in Processes
  BY DEF Processes
<1>1. ASSUME Finish(p), pc[p] \notin {"scan", "match"}
      PROVE  Fresh(p)'
  <2>1. pc'[p] = "list" /\ UNCHANGED pending
    BY <1>0, <1>1 DEF Finish, TypeOK
  <2> QED
    BY <1>1, <2>1 DEF Fresh
<1>2. CASE StartWorker(p)
  <2>1. pc[p] = "idle" /\ pc'[p] = "list" /\ UNCHANGED <<pending, intents>>
    BY <1>0, <1>2 DEF StartWorker, TypeOK, ledgerVars
  <2> QED
    BY <2>1 DEF Fresh
<1>3. CASE PickSignal(p)
  <2>1. PICK i \in Signals \cup {0} :
          IF i = 0 \/ ~Submittable(i)
             THEN Finish(p)
             ELSE /\ target' = [target EXCEPT ![p] = i]
                  /\ held' = [held EXCEPT ![p] = intents[i]]
                  /\ pc' = [pc EXCEPT ![p] = IF intents[i].st = "none"
                                             THEN "insert" ELSE "gate"]
                  /\ UNCHANGED <<sampled, call, passVars>>
    BY <1>3 DEF PickSignal
  <2>2. pc[p] = "pick" /\ UNCHANGED intents
    BY <1>3 DEF PickSignal, ledgerVars
  <2>3. CASE i = 0 \/ ~Submittable(i)
    BY <1>1, <2>1, <2>2, <2>3
  <2>4. CASE i \in Signals /\ Submittable(i)
    <3>1. /\ target'[p] = i /\ held'[p] = intents[i] /\ UNCHANGED pending
          /\ pc'[p] \in {"insert", "gate"}
      BY <1>0, <2>1, <2>4 DEF TypeOK, passVars
    <3> QED
      BY <2>2, <2>4, <3>1 DEF Fresh
  <2> QED
    BY <2>3, <2>4
<1>4. CASE InsertIntent(p)
  <2> DEFINE new == RowIn(NoRow, "planned")
  <2>1. /\ pc[p] = "insert" /\ pc'[p] = "gate" /\ UNCHANGED <<pending, target>>
        /\ intents' = [intents EXCEPT ![target[p]] = new]
        /\ held' = [held EXCEPT ![p] = new]
    BY <1>0, <1>4 DEF InsertIntent, TypeOK, passVars
  <2> HIDE DEF new
  <2>2. target[p] \in Signals
    BY <2>1 DEF Fresh
  <2>3. intents'[target[p]] = new /\ held'[p] = new
    BY <1>0, <2>1, <2>2 DEF TypeOK
  <2> QED
    BY <2>1, <2>2, <2>3 DEF Fresh
<1>5. CASE GateBlocked(p) \/ DeadlinePassed(p) \/ SaveResult(p)
  BY <1>1, <1>5 DEF GateBlocked, DeadlinePassed, SaveResult
<1>6. CASE GatePass(p) \/ CallBroker(p) \/ BuyAgain(p) \/ SubmitReturns(p)
  <2>1. /\ pc[p] \in {"gate", "submit", "sent"} /\ pc'[p] \in {"submit", "sent", "save"}
        /\ UNCHANGED <<pending, intents, target, held>>
    BY <1>0, <1>6 DEF GatePass, CallBroker, BuyAgain, SendRequest, SubmitReturns, TypeOK,
         ledgerVars, passVars, workVars
  <2> QED
    BY <2>1 DEF Fresh
<1> QED
  BY <1>2, <1>3, <1>4, <1>5, <1>6 DEF Work

\* Every step of a system with one process keeps what it holds fresh.
LEMMA FreshStep ==
    ASSUME NEW p \in Processes, Processes = {p}, TypeOK, Fresh(p), [Next]_vars
    PROVE  Fresh(p)'
<1>1. CASE Reconcile(p)
  BY <1>1, ReconcileIsFresh
<1>2. ASSUME NEW w \in Workers, Work(w)
      PROVE  Fresh(p)'
  BY <1>2, WorkIsFresh DEF Processes
<1>3. CASE Crash(p)
  <2>1. pc'[p] = "idle" /\ \A i \in Signals : pending'[p][i].st = "none"
    BY <1>3, NothingHeld DEF Crash, TypeOK
  <2> QED
    BY <2>1 DEF Fresh
<1>4. ASSUME NEW r \in Reconcilers, StartReconcile(r)
      PROVE  Fresh(p)'
  <2>1. /\ r = p /\ pc[p] = "idle" /\ pc'[p] = "list"
        /\ UNCHANGED <<pending, intents>>
    BY <1>4 DEF StartReconcile, Processes, TypeOK, ledgerVars
  <2> QED
    BY <2>1 DEF Fresh
<1>5. CASE \/ Tick \/ ToggleHalt
           \/ \E i \in Signals, verdict \in Verdicts : Emit(i, verdict)
           \/ \E o \in Orders : Broker(o) \/ OtherScopeSaves(o)
           \/ \E r \in Reconcilers, o \in Orders : CheckOrderStatus(r, o)
           \/ UNCHANGED vars
  <2>1. UNCHANGED <<intents, pending, target, held, pc>>
    BY <1>5 DEF Tick, ToggleHalt, Emit, Broker, OtherScopeSaves, CheckOrderStatus, vars,
         ledgerVars, passVars, workVars
  <2> QED
    BY <2>1 DEF Fresh
<1> QED
  BY <1>1, <1>2, <1>3, <1>4, <1>5 DEF Next

\* What a step writes over: nothing, or a row that its process holds.
LEMMA WritesOverHeld ==
    ASSUME NEW p \in Processes, Processes = {p}, TypeOK, LedgerInv, Fresh(p), [Next]_vars,
           NEW i \in Signals, intents'[i] # intents[i]
    PROVE  \/ intents[i].st \in {"none", "planned"}
           \/ /\ intents[i].st \in PendingStates /\ intents[i] = pending[p][i]
              /\ MatchById(p, i) \/ MatchByScan(p, i) \/ MatchAmbiguous(p, i) \/ MatchNone(p, i)
<1>1. CASE Reconcile(p)
  <2>1. PICK j \in Signals : \/ MatchById(p, j) \/ MatchByScan(p, j) \/ MatchAmbiguous(p, j)
                             \/ MatchNone(p, j) \/ MatchRaises(p, j)
    BY <1>1 DEF Reconcile, ListPending, Scan, PassRaises, MatchDone, OrphanPass, ledgerVars
  <2>2. j = i /\ ~MatchRaises(p, j)
    BY <2>1, MatchWrites DEF MatchRaises, ledgerVars
  <2>3. pending[p][i].st # "none"
    BY <2>1, <2>2, MatchWrites
  <2> QED
    BY <2>1, <2>2, <2>3 DEF Fresh
<1>2. CASE p \in Workers /\ Work(p)
  <2>1. /\ pc[p] \in {"insert", "gate", "save"}
        /\ \E row : intents' = [intents EXCEPT ![target[p]] = row]
    BY <1>2 DEF Work, StartWorker, PickSignal, InsertIntent, GateBlocked, DeadlinePassed,
         GatePass, CallBroker, BuyAgain, SendRequest, SubmitReturns, SaveResult, ledgerVars
  <2>2. i = target[p]
    BY <2>1 DEF TypeOK
  <2> QED
    BY <2>1, <2>2, HeldIsUnsent
<1>3. CASE ~Reconcile(p) /\ ~(p \in Workers /\ Work(p))
  <2>1. UNCHANGED intents
    <3>1. \/ Crash(p) \/ Tick \/ ToggleHalt
          \/ \E j \in Signals, verdict \in Verdicts : Emit(j, verdict)
          \/ \E o \in Orders : Broker(o) \/ OtherScopeSaves(o)
          \/ \E r \in Reconcilers : StartReconcile(r)
          \/ \E r \in Reconcilers, o \in Orders : CheckOrderStatus(r, o)
          \/ UNCHANGED vars
      BY <1>3 DEF Next, Processes
    <3> QED
      BY <3>1 DEF Crash, Tick, ToggleHalt, Emit, Broker, OtherScopeSaves, StartReconcile,
           CheckOrderStatus, vars, ledgerVars
  <2> QED
    BY <2>1
<1> QED
  BY <1>1, <1>2, <1>3

\* What one process holds is always fresh.
LEMMA AlwaysFresh ==
    ASSUME NEW p \in Processes, Processes = {p}
    PROVE  Spec => []Fresh(p)
<1>1. Init => Fresh(p)
  BY DEF Init, Fresh, NoRow
<1>2. TypeOK /\ Fresh(p) /\ [Next]_vars => Fresh(p)'
  BY FreshStep
<1> QED
  BY <1>1, <1>2, TypeCorrect, PTL DEF Spec

\* What settled, was refused or was given up stays so, however often the process is
\* killed between reading a row and writing it back.
THEOREM TerminalStaysTerminal ==
    ASSUME NEW p \in Processes, Processes = {p}
    PROVE  Spec => TerminalIsFinal
<1> DEFINE Final == \A i \in Signals :
                       intents[i].st \in TerminalStates => intents'[i] = intents[i]
<1>1. TypeOK /\ LedgerInv /\ Fresh(p) /\ [Next]_vars => [Final]_vars
  BY WritesOverHeld DEF TerminalStates, PendingStates
<1>2. Spec => [][Final]_vars
  BY <1>1, TypeCorrect, LedgerIsTrue, AlwaysFresh, PTL DEF Spec
<1> QED
  BY <1>2 DEF TerminalIsFinal

\* With one process the row that is given up is the one that acknowledged the order: no
\* row of before the acknowledgement is written over it.
AcknowledgedStaysOpen ==
    [][\A i \in Signals :
          LET o == intents[i].ext
          IN  /\ intents[i].st = "accepted_open" /\ o # NoOrder
              /\ orders[o].tagged
              /\ intents'[i].st = "expired_unconfirmed"
              => Due(Expiry(orders[o].for) + SettleGrace)]_vars

\* An acknowledged order still on record is not given up before its settlement can
\* only be late, whatever the snapshots of a pass said of it.
THEOREM AcknowledgementIsKept ==
    ASSUME NEW p \in Processes, Processes = {p}
    PROVE  Spec => AcknowledgedStaysOpen
<1> DEFINE Early(i) == /\ intents[i].st = "accepted_open" /\ intents[i].ext # NoOrder
                       /\ orders[intents[i].ext].tagged
                       /\ intents'[i].st = "expired_unconfirmed"
           Awaited == \A i \in Signals :
              Early(i) => Due(Expiry(orders[intents[i].ext].for) + SettleGrace)
<1>1. TypeOK /\ LedgerInv /\ Fresh(p) /\ [Next]_vars => [Awaited]_vars
  <2> SUFFICES ASSUME TypeOK, LedgerInv, Fresh(p), [Next]_vars,
                      NEW i \in Signals, Early(i)
               PROVE  Due(Expiry(orders[intents[i].ext].for) + SettleGrace)
    OBVIOUS
  <2> DEFINE o == intents[i].ext
  <2>1. o \in Orders /\ orders[o].st \in Accepted
    BY DEF LedgerInv, RowTruth
  <2>2. /\ intents[i] = pending[p][i]
        /\ MatchById(p, i) \/ MatchByScan(p, i) \/ MatchAmbiguous(p, i) \/ MatchNone(p, i)
    BY WritesOverHeld
  <2>3. LookupViews(pending[p][i]) = FetchViews(o)
    BY <2>2 DEF LookupViews
  <2>4. MatchById(p, i)
    BY <2>1, <2>2, <2>3, RecordedIsFound DEF MatchByScan, MatchAmbiguous, MatchNone
  <2>5. PICK status \in FetchViews(o) : ApplySnapshot(p, i, o, status)
    BY <2>2, <2>3, <2>4 DEF MatchById
  <2>6. StateFromBroker(status, "accepted_open") = "expired_unconfirmed"
    <3> DEFINE sub == IF pending[p][i].sub # NoTime THEN pending[p][i].sub ELSE orders[o].opened
               new == [st |-> StateFromBroker(status, pending[p][i].st), ext |-> o, sub |-> sub]
    <3>1. intents' = [intents EXCEPT ![i] = new]
      BY <2>5 DEF ApplySnapshot
    <3>2. new.st = StateFromBroker(status, "accepted_open")
      BY <2>2
    <3> HIDE DEF new
    <3> QED
      BY <3>1, <3>2 DEF TypeOK
  <2>7. status \in BrokerViews \ {"absent"}
    BY <2>1, <2>5, FetchViewsType, RecordedIsFound DEF TypeOK
  <2>8. status = "not_found"
    BY <2>6, <2>7, StateFromBrokerCases DEF BrokerViews
  <2> QED
    BY <2>1, <2>5, <2>8, RecordedIsFound
<1>2. Spec => [][Awaited]_vars
  BY <1>1, TypeCorrect, LedgerIsTrue, AlwaysFresh, PTL DEF Spec
<1> QED
  BY <1>2 DEF AcknowledgedStaysOpen
=============================================================================
