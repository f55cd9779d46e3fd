------------------------ MODULE PortfolioCycleProofs ------------------------
(***************************************************************************)
(* Proofs about PortfolioCycle, for any number of scopes, intents, groups, *)
(* daemons and deployments: its types and breakers, and the caps of the    *)
(* portfolio.                                                              *)
(***************************************************************************)
EXTENDS PortfolioCycle, FiniteSetTheorems, TLAPS

(* The functions of CircuitBreaker keep rows well-formed and coherent.     *)

Sound(b) == b \in Breakers /\ Coherent(b)

LEMMA SoundNew == Sound(NewBreaker)
BY BreakerAssumption DEF Sound, NewBreaker, Breakers, BreakerStates, Coherent

LEMMA SoundEvaluate == \A b : Sound(b) => Sound(EvaluateCircuit(b))
<1> SUFFICES ASSUME NEW b, Sound(b) PROVE Sound(EvaluateCircuit(b))
    OBVIOUS
<1> USE DEF Sound, Breakers, BreakerStates, Coherent
<1>1. CASE b.state = "open" /\ b.left = 0
  <2> DEFINE c == [state |-> "half_open", failures |-> b.failures, left |-> 0]
  <2>1. EvaluateCircuit(b) = c  BY <1>1 DEF EvaluateCircuit
  <2>2. Sound(c)  BY <1>1, BreakerAssumption
  <2> QED  BY <2>1, <2>2
<1>2. CASE ~(b.state = "open" /\ b.left = 0)
    BY <1>2 DEF EvaluateCircuit
<1> QED  BY <1>1, <1>2

LEMMA SoundFailure == \A b : Sound(b) => Sound(RecordFailure(b))
<1> SUFFICES ASSUME NEW b, Sound(b) PROVE Sound(RecordFailure(b))
    OBVIOUS
<1> USE BreakerAssumption DEF Sound, Breakers, BreakerStates, Coherent
<1>0. OneMoreFailure(b) \in 0..FailuresToOpen
    BY DEF OneMoreFailure
<1>1. CASE b.state # "open" /\ OneMoreFailure(b) >= FailuresToOpen
  <2> DEFINE c == [state |-> "open", failures |-> FailuresToOpen, left |-> Cooldown]
  <2>1. RecordFailure(b) = c  BY <1>1 DEF RecordFailure
  <2>2. Sound(c)  OBVIOUS
  <2> QED  BY <2>1, <2>2
<1>2. CASE ~(b.state # "open" /\ OneMoreFailure(b) >= FailuresToOpen)
  <2> DEFINE c == [state |-> b.state, failures |-> OneMoreFailure(b), left |-> b.left]
  <2>1. RecordFailure(b) = c  BY <1>2 DEF RecordFailure
  <2>2. c \in Breakers  BY <1>0
  <2>3. Coherent(c)  BY <1>2, <1>0 DEF OneMoreFailure
  <2> QED  BY <2>1, <2>2, <2>3
<1> QED  BY <1>1, <1>2

LEMMA SoundAged == \A b : Sound(b) => Sound(Aged(b))
<1> SUFFICES ASSUME NEW b, Sound(b) PROVE Sound(Aged(b))
    OBVIOUS
<1> DEFINE c == [state |-> b.state, failures |-> b.failures,
                 left |-> IF b.left > 0 THEN b.left - 1 ELSE 0]
<1>1. Aged(b) = c  BY DEF Aged
<1>2. Sound(c)  BY BreakerAssumption DEF Sound, Breakers, BreakerStates, Coherent
<1> QED  BY <1>1, <1>2

\* A row found among the rows, and rows with one of them replaced.
LEMMA SoundRow ==
    ASSUME NEW f, f \in [Scopes -> Breakers], \A s \in Scopes : Coherent(f[s]), NEW t \in Scopes
    PROVE  Sound(f[t])
BY DEF Sound

LEMMA SoundPut ==
    ASSUME NEW f, f \in [Scopes -> Breakers], \A s \in Scopes : Coherent(f[s]),
           NEW t, NEW b, Sound(b)
    PROVE  /\ [f EXCEPT ![t] = b] \in [Scopes -> Breakers]
           /\ \A s \in Scopes : Coherent([f EXCEPT ![t] = b][s])
BY DEF Sound

\* The tables of the loop.
LEMMA Tables ==
    /\ \A ph \in Phases : FirstStep[ph] \in Places
    /\ \A kind \in Kinds : AfterCount[kind] \in Places
<1>1. ASSUME NEW ph \in Phases PROVE FirstStep[ph] \in Places
  <2>1. CASE ph = "asset"  BY <2>1 DEF FirstStep, Places, Kinds
  <2>2. CASE ph = "portfolio"  BY <2>2 DEF FirstStep, Places, Kinds
  <2>3. CASE ph = "check"  BY <2>3 DEF FirstStep, Places
  <2>4. CASE ph = "record"  BY <2>4 DEF FirstStep, Places
  <2> QED  BY <2>1, <2>2, <2>3, <2>4 DEF Phases
<1>2. ASSUME NEW kind \in Kinds PROVE AfterCount[kind] \in Places
  <2>1. CASE kind = "done"  BY <2>1 DEF AfterCount, Places, Kinds
  <2>2. CASE kind = "pending"  BY <2>2 DEF AfterCount, Places, Kinds
  <2>3. CASE kind = "open"  BY <2>3 DEF AfterCount, Places, Kinds
  <2> QED  BY <2>1, <2>2, <2>3 DEF Kinds
<1> QED  BY <1>1, <1>2

LEMMA SeenTypes == NothingSeen \in [Kinds -> SUBSET Intents]
BY DEF NothingSeen

-----------------------------------------------------------------------------
\* A step of a loop has a scope in hand.
InHand == pc \in Kinds \cup {"judge", "save"} => scope \in Scopes

TypeInv == TypeOK /\ RowsCoherent /\ InHand

\* The rows, and the rest of the types.
Rows ==
    /\ breaker \in [Scopes -> Breakers] /\ held \in [Scopes -> Breakers]
    /\ row \in Breakers /\ viewed \in Breakers
    /\ RowsCoherent

LEMMA TypeInit == Init => TypeInv
<1> SUFFICES ASSUME Init PROVE TypeInv
    OBVIOUS
<1>1. Rows  BY SoundNew DEF Init, Rows, RowsCoherent, Sound
<1>2. db \in [Intents -> DbStates] /\ dpc \in [Scopes -> {"idle", "judge", "run"}]
    BY DEF Init, DbStates
<1>3. seen \in [Kinds -> SUBSET Intents]  BY SeenTypes DEF Init
<1> QED  BY <1>1, <1>2, <1>3 DEF Init, TypeInv, TypeOK, Rows, InHand, Kinds, Places, Phases

LEMMA RowsNext == TypeInv /\ [Next]_vars => Rows'
<1> SUFFICES ASSUME TypeInv, [Next]_vars PROVE Rows'
    OBVIOUS
<1>0. Rows  BY DEF TypeInv, TypeOK, Rows
<1> USE DEF Rows, RowsCoherent
<1>1. ASSUME UNCHANGED <<breaker, held, row, viewed>> PROVE Rows'
    BY <1>1, <1>0
<1>2. ASSUME UNCHANGED <<breaker, held, viewed>>, row' = NewBreaker PROVE Rows'
    BY <1>2, <1>0, SoundNew DEF Sound
<1>3. ASSUME UNCHANGED vars \/ Start \/ Scan \/ Count \/ AssetQuotas \/ PortfolioQuota \/ ChecksDone
             \/ Allocate \/ (\E w \in Switches : Toggle(w)) \/ (\E i \in Intents : Reconcile(i))
      PROVE  Rows'
    BY <1>1, <1>3 DEF vars, cycle, daemon, view, ledger, Start, Scan, Count, AssetQuotas, PortfolioQuota,
       ChecksDone, Allocate, Toggle, Reconcile
<1>4. ASSUME NEW s \in Scopes, Execute(s) \/ DaemonSubmits(s) PROVE Rows'
    BY <1>1, <1>4 DEF Execute, DaemonSubmits, cycle, daemon, view
<1>5. CASE AllocationFails \/ Finish \/ Die
    BY <1>2, <1>5 DEF AllocationFails, Finish, Die, Forget, daemon, view
<1>6. CASE Tick
  <2>1. /\ \A s \in Scopes : Sound(Aged(breaker[s])) /\ Sound(Aged(held[s]))
        /\ Sound(Aged(row)) /\ Sound(Aged(viewed))
    BY <1>0, SoundAged DEF Sound
  <2> QED  BY <1>6, <2>1 DEF Tick, Sound
<1>7. ASSUME NEW s \in Scopes, NextScope(s) PROVE Rows'
  <2>1. UNCHANGED <<breaker, held, viewed>> /\ row' \in {row, breaker[s]}
    BY <1>7 DEF NextScope, daemon, view
  <2> QED  BY <1>0, <2>1, SoundRow DEF Sound
<1>8. CASE Judge
  <2> DEFINE b == EvaluateCircuit(row)
  <2>1. Sound(b)  BY <1>0, SoundEvaluate DEF Sound
  <2> HIDE DEF b
  <2>2. /\ breaker' = IF b = row THEN breaker ELSE [breaker EXCEPT ![scope] = b]
        /\ row' = NewBreaker /\ UNCHANGED <<held, viewed>>
    BY <1>8 DEF Judge, daemon, view, b
  <2> QED  BY <1>0, <2>1, <2>2, SoundPut, SoundNew DEF Sound
<1>9. CASE SaveRow
  <2> DEFINE b == IF scope \in errs THEN RecordFailure(row) ELSE NewBreaker
  <2>1. Sound(b)  BY <1>0, SoundFailure, SoundNew DEF Sound
  <2> HIDE DEF b
  <2>2. /\ breaker' = [breaker EXCEPT ![scope] = b]
        /\ row' = NewBreaker /\ UNCHANGED <<held, viewed>>
    BY <1>9 DEF SaveRow, daemon, view, b
  <2> QED  BY <1>0, <2>1, <2>2, SoundPut, SoundNew DEF Sound
<1>10. ASSUME NEW s \in Scopes, DaemonLoad(s) PROVE Rows'
  <2>1. Sound(breaker[s])  BY <1>0, SoundRow
  <2>2. held' = [held EXCEPT ![s] = breaker[s]] /\ UNCHANGED <<breaker, row, viewed>>
    BY <1>10 DEF DaemonLoad, cycle, view
  <2> QED  BY <1>0, <2>1, <2>2, SoundPut
<1>11. ASSUME NEW s \in Scopes, DaemonJudge(s) PROVE Rows'
  <2> DEFINE b == EvaluateCircuit(held[s])
  <2>1. Sound(b)  BY <1>0, SoundRow, SoundEvaluate
  <2> HIDE DEF b
  <2>2. /\ breaker' = IF b = held[s] THEN breaker ELSE [breaker EXCEPT ![s] = b]
        /\ held' = [held EXCEPT ![s] = NewBreaker] \/ held' = [held EXCEPT ![s] = b]
        /\ UNCHANGED <<row, viewed>>
    BY <1>11 DEF DaemonJudge, cycle, view, b
  <2>3. /\ breaker' \in [Scopes -> Breakers] /\ \A t \in Scopes : Coherent(breaker'[t])
    BY <1>0, <2>1, <2>2, SoundPut
  <2>4. /\ held' \in [Scopes -> Breakers] /\ \A t \in Scopes : Coherent(held'[t])
    BY <1>0, <2>1, <2>2, SoundPut, SoundNew
  <2> QED  BY <1>0, <2>2, <2>3, <2>4
<1>12. ASSUME NEW s \in Scopes, DaemonEnds(s) PROVE Rows'
  <2> DEFINE b == RecordFailure(held[s])
  <2>1. Sound(b)  BY <1>0, SoundRow, SoundFailure
  <2> HIDE DEF b
  <2>2. /\ \/ breaker' = [breaker EXCEPT ![s] = NewBreaker]
           \/ breaker' = [breaker EXCEPT ![s] = b]
           \/ breaker' = breaker
        /\ held' = [held EXCEPT ![s] = NewBreaker]
        /\ UNCHANGED <<row, viewed>>
    BY <1>12 DEF DaemonEnds, cycle, view, b
  <2>3. /\ breaker' \in [Scopes -> Breakers] /\ \A t \in Scopes : Coherent(breaker'[t])
    BY <1>0, <2>1, <2>2, SoundPut, SoundNew
  <2>4. /\ held' \in [Scopes -> Breakers] /\ \A t \in Scopes : Coherent(held'[t])
    BY <1>0, <2>2, SoundPut, SoundNew
  <2> QED  BY <1>0, <2>2, <2>3, <2>4
<1>13. ASSUME NEW s \in Scopes, View(s) PROVE Rows'
  <2>1. Sound(EvaluateCircuit(breaker[s]))  BY <1>0, SoundRow, SoundEvaluate
  <2>2. viewed' = EvaluateCircuit(breaker[s]) /\ UNCHANGED <<breaker, held, row>>
    BY <1>13 DEF View, cycle, daemon
  <2> QED  BY <1>0, <2>1, <2>2 DEF Sound
<1>14. CASE SaveView
  <2>1. /\ breaker' = [breaker EXCEPT ![viewing] = viewed] /\ viewed' = NewBreaker
        /\ UNCHANGED <<held, row>>
    BY <1>14 DEF SaveView, cycle, daemon
  <2>2. Sound(viewed)  BY <1>0 DEF Sound
  <2>3. /\ breaker' \in [Scopes -> Breakers] /\ \A t \in Scopes : Coherent(breaker'[t])
    BY <1>0, <2>1, <2>2, SoundPut
  <2> QED  BY <1>0, <2>1, <2>3, SoundNew DEF Sound
<1>15. ASSUME NEW s \in Scopes, Reset(s) PROVE Rows'
  <2>1. breaker' = [breaker EXCEPT ![s] = NewBreaker] /\ UNCHANGED <<held, row, viewed>>
    BY <1>15 DEF Reset, cycle, daemon, view
  <2> QED  BY <1>0, <2>1, SoundPut, SoundNew
<1> QED
    BY <1>3, <1>4, <1>5, <1>6, <1>7, <1>8, <1>9, <1>10, <1>11, <1>12, <1>13, <1>14, <1>15
    DEF Next, Runner, Daemon

Rest ==
    /\ deploy \in Deployments /\ halt \in SUBSET Switches
    /\ db \in [Intents -> DbStates] /\ stray \in SUBSET Intents
    /\ pc \in Places /\ phase \in Phases
    /\ ahead \in SUBSET Scopes /\ scope \in Scopes \cup {NoScope}
    /\ sampled \in SUBSET Switches /\ errs \in SUBSET Scopes
    /\ wants \in SUBSET Scopes /\ seen \in [Kinds -> SUBSET Intents]
    /\ barred \in SUBSET Scopes /\ todo \in SUBSET Scopes
    /\ dpc \in [Scopes -> {"idle", "judge", "run"}]
    /\ viewing \in Scopes \cup {NoScope}
    /\ InHand

LEMMA RestNext == TypeInv /\ [Next]_vars => Rest'
<1> SUFFICES ASSUME TypeInv, [Next]_vars PROVE Rest'
    OBVIOUS
<1>r. Rest  BY DEF TypeInv, TypeOK, Rest
<1>p. \A d \in Deployments : d.trading \in SUBSET Scopes /\ d.flaky \in SUBSET Scopes
    BY PortfolioAssumption
<1> USE DEF Rest, InHand, ledger, daemon, view
<1>1. CASE UNCHANGED vars \/ Tick  BY <1>1, <1>r DEF vars, cycle, Tick
<1>2. ASSUME NEW w \in Switches, Toggle(w) PROVE Rest'
    BY <1>2, <1>r DEF Toggle, cycle
<1>3. ASSUME NEW i \in Intents, Reconcile(i) PROVE Rest'
    BY <1>3, <1>r DEF Reconcile, cycle, DbStates
<1>4. CASE Start  BY <1>4, <1>r DEF Start, Places, Kinds
<1>5. CASE Scan  BY <1>5, <1>r, <1>p DEF Scan, Loop, Places, Kinds, Phases
<1>6. ASSUME NEW s \in Scopes, NextScope(s) PROVE Rest'
  <2>1. pc' \in Places  BY <1>6, <1>r, Tables DEF NextScope
  <2> QED  BY <1>6, <2>1, <1>r DEF NextScope
<1>7. CASE Count
  <2>1. pc' \in Places /\ scope' = scope /\ pc \in Kinds  BY <1>7, Tables DEF Count
  <2>2. Of({scope}, In(Counted[pc])) \in SUBSET Intents  BY DEF Of, In
  <2>3. seen' \in [Kinds -> SUBSET Intents] /\ stray' \in SUBSET Intents
    BY <1>7, <2>2, <1>r DEF Count
  <2> QED  BY <1>7, <2>1, <2>3, <1>r DEF Count
<1>8. CASE AssetQuotas  BY <1>8, <1>r, SeenTypes DEF AssetQuotas, Loop, Places, Kinds, Phases
<1>9. CASE PortfolioQuota  BY <1>9, <1>r DEF PortfolioQuota, Loop, Places, Kinds, Phases
<1>10. CASE Judge
  <2>1. barred' \in SUBSET Scopes
    BY <1>10, <1>r DEF Judge
  <2> QED  BY <1>10, <2>1, <1>r DEF Judge, Places, Kinds
<1>11. CASE ChecksDone  BY <1>11, <1>r DEF ChecksDone, Places, Kinds
<1>12. CASE Allocate
  <2>1. todo' \in SUBSET Scopes  BY <1>12, <1>r DEF Allocate, Selections
  <2>2. /\ pc' \in {"next", "execute"} /\ phase' \in Phases /\ ahead' \in SUBSET Scopes
    BY <1>12, <1>r DEF Allocate, Loop, Phases
  <2> QED  BY <1>12, <2>1, <2>2, <1>r, SeenTypes DEF Allocate, Places, Kinds
<1>13. CASE AllocationFails
    BY <1>13, <1>r, SeenTypes DEF AllocationFails, Loop, Places, Kinds, Phases
<1>14. ASSUME NEW s \in Scopes, Execute(s) PROVE Rest'
  <2>1. db' \in [Intents -> DbStates] /\ stray' \in SUBSET Intents
    BY <1>14, <1>r DEF Execute, DbStates, Of, In
  <2>2. /\ pc' \in {"next", "execute"} /\ phase' \in Phases /\ ahead' \in SUBSET Scopes
    BY <1>14, <1>r DEF Execute, Loop, Phases
  <2>3. errs' \in SUBSET Scopes  BY <1>14, <1>r, <1>p DEF Execute
  <2> QED  BY <1>14, <2>1, <2>2, <2>3, <1>r DEF Execute, Places, Kinds
<1>15. CASE SaveRow  BY <1>15, <1>r DEF SaveRow, Places, Kinds
<1>16. CASE Finish  BY <1>16, <1>r, SeenTypes DEF Finish, Forget, Places, Kinds, Phases
<1>17. CASE Die
  <2>1. db' \in [Intents -> DbStates] /\ stray' \in SUBSET Intents
    BY <1>17, <1>r DEF Die, DbStates, Of, In
  <2> QED  BY <1>17, <2>1, <1>r, SeenTypes DEF Die, Forget, Places, Kinds, Phases
<1>18. ASSUME NEW s \in Scopes, DaemonLoad(s) \/ DaemonJudge(s) \/ DaemonEnds(s) PROVE Rest'
    BY <1>18, <1>r DEF DaemonLoad, DaemonJudge, DaemonEnds, cycle
<1>19. ASSUME NEW s \in Scopes, DaemonSubmits(s) PROVE Rest'
    BY <1>19, <1>r DEF DaemonSubmits, cycle, Of, In, DbStates
<1>20. ASSUME NEW s \in Scopes, View(s) \/ Reset(s) PROVE Rest'
    BY <1>20, <1>r DEF View, Reset, cycle
<1>21. CASE SaveView  BY <1>21, <1>r DEF SaveView, cycle
<1> QED
    BY <1>1, <1>2, <1>3, <1>4, <1>5, <1>6, <1>7, <1>8, <1>9, <1>10, <1>11, <1>12, <1>13, <1>14,
       <1>15, <1>16, <1>17, <1>18, <1>19, <1>20, <1>21 DEF Next, Runner, Daemon

LEMMA TypeNext == TypeInv /\ [Next]_vars => TypeInv'
BY RowsNext, RestNext DEF Rows, Rest, TypeInv, TypeOK

\* Every variable keeps its type.
THEOREM CycleTypeCorrect == Spec => []TypeOK
<1>1. TypeInv => TypeOK  BY DEF TypeInv
<1> QED  BY <1>1, TypeInit, TypeNext, PTL DEF Spec

\* No row of a breaker contradicts itself, whoever saves which stale copy.
THEOREM BreakersCoherent == Spec => []RowsCoherent
<1>1. TypeInv => RowsCoherent  BY DEF TypeInv
<1> QED  BY <1>1, TypeInit, TypeNext, PTL DEF Spec

-----------------------------------------------------------------------------
(* The caps.  What a count has found covers what it should have found, as  *)
(* nothing but an execution adds a known order, and executions come after  *)
(* the counts; the selection leaves room for what it selects.              *)

\* An order the ledger does not know is a stray one.
LostIsStray == In({"lost"}) \subseteq stray

\* Scopes are selected only while they are executed.
TodoInv == todo # {} => pc = "execute"

LEMMA LostTodoInit == Init => LostIsStray /\ TodoInv
BY DEF Init, LostIsStray, TodoInv, In

LEMMA LostTodoNext == TypeInv /\ LostIsStray /\ TodoInv /\ [Next]_vars => LostIsStray' /\ TodoInv'
<1> SUFFICES ASSUME TypeInv, LostIsStray, TodoInv, [Next]_vars PROVE LostIsStray' /\ TodoInv'
    OBVIOUS
<1> USE DEF TypeInv, TypeOK, LostIsStray, TodoInv, In, ledger
<1>1. ASSUME db' = db, stray \subseteq stray',
             todo' = {} \/ (todo' = todo /\ (pc = "execute" => pc' = "execute"))
      PROVE  LostIsStray' /\ TodoInv'
    BY <1>1
<1>2. CASE UNCHANGED vars \/ Tick \/ (\E w \in Switches : Toggle(w)) \/ Start \/ Scan \/ AssetQuotas
           \/ PortfolioQuota \/ Judge \/ ChecksDone \/ SaveRow \/ AllocationFails \/ Finish \/ SaveView
  <2>1. db' = db /\ stray \subseteq stray'
    BY <1>2 DEF vars, Tick, Toggle, Start, Scan, AssetQuotas, PortfolioQuota, Judge, ChecksDone,
       SaveRow, AllocationFails, Finish, SaveView
  <2>2. todo' = {} \/ (todo' = todo /\ (pc = "execute" => pc' = "execute"))
    BY <1>2 DEF vars, cycle, Tick, Toggle, Start, Scan, AssetQuotas, PortfolioQuota, Judge, ChecksDone,
       SaveRow, AllocationFails, Finish, SaveView, Forget, Kinds
  <2> QED  BY <1>1, <2>1, <2>2
<1>3. CASE Count
    BY <1>1, <1>3 DEF Count, Kinds
<1>4. CASE Allocate
    BY <1>4 DEF Allocate, Loop
<1>5. ASSUME NEW i \in Intents, Reconcile(i) PROVE LostIsStray' /\ TodoInv'
    BY <1>5 DEF Reconcile, cycle
<1>6. ASSUME NEW s \in Scopes, NextScope(s) PROVE LostIsStray' /\ TodoInv'
    BY <1>1, <1>6 DEF NextScope
<1>7. ASSUME NEW s \in Scopes, Execute(s) PROVE LostIsStray' /\ TodoInv'
  <2>1. TodoInv'  BY <1>7 DEF Execute, Loop
  <2>2. LostIsStray'  BY <1>7 DEF Execute, Of
  <2> QED  BY <2>1, <2>2
<1>8. CASE Die
    BY <1>8 DEF Die, Forget, Of
<1>9. ASSUME NEW s \in Scopes, DaemonSubmits(s) PROVE LostIsStray' /\ TodoInv'
    BY <1>9 DEF DaemonSubmits, Of, cycle
<1>10. ASSUME NEW s \in Scopes,
             DaemonLoad(s) \/ DaemonJudge(s) \/ DaemonEnds(s) \/ View(s) \/ Reset(s)
       PROVE LostIsStray' /\ TodoInv'
    BY <1>1, <1>10 DEF DaemonLoad, DaemonJudge, DaemonEnds, View, Reset, cycle
<1> QED
    BY <1>2, <1>3, <1>4, <1>5, <1>6, <1>7, <1>8, <1>9, <1>10 DEF Next, Runner, Daemon

\* The sets of states the caps are about.
Limited == {Live, Consuming, {"unknown"}}

\* Only an execution adds a known order.
LEMMA KnownShrinks ==
    ASSUME TypeInv, LostIsStray, [Next]_vars, \A s \in Scopes : ~Execute(s), NEW states \in Limited
    PROVE  Known(states)' \subseteq Known(states)
<1> USE DEF TypeInv, TypeOK, LostIsStray, In, Known, ledger, Limited, Live, Consuming
<1>1. ASSUME db' = db, stray \subseteq stray' PROVE Known(states)' \subseteq Known(states)
    BY <1>1
<1>2. ASSUME NEW i \in Intents, NEW st \in DbStates, db' = [db EXCEPT ![i] = st],
             stray' = stray \cup {i}
      PROVE  Known(states)' \subseteq Known(states)
    BY <1>2
<1>3. ASSUME NEW i \in Intents, Reconcile(i) PROVE Known(states)' \subseteq Known(states)
    BY <1>3 DEF Reconcile
<1>4. CASE UNCHANGED vars \/ Tick \/ (\E w \in Switches : Toggle(w)) \/ Start \/ Scan \/ AssetQuotas
           \/ PortfolioQuota \/ Judge \/ ChecksDone \/ SaveRow \/ AllocationFails \/ Finish \/ SaveView
           \/ Allocate \/ Count
    BY <1>1, <1>4 DEF vars, Tick, Toggle, Start, Scan, AssetQuotas, PortfolioQuota, Judge, ChecksDone,
       SaveRow, AllocationFails, Finish, SaveView, Allocate, Count
<1>5. ASSUME NEW s \in Scopes, NextScope(s) \/ DaemonLoad(s) \/ DaemonJudge(s) \/ DaemonEnds(s)
                               \/ View(s) \/ Reset(s)
      PROVE  Known(states)' \subseteq Known(states)
    BY <1>1, <1>5 DEF NextScope, DaemonLoad, DaemonJudge, DaemonEnds, View, Reset
<1>6. CASE Die
    BY <1>1, <1>2, <1>6 DEF Die, Of, DbStates
<1>7. ASSUME NEW s \in Scopes, DaemonSubmits(s) PROVE Known(states)' \subseteq Known(states)
    BY <1>2, <1>7 DEF DaemonSubmits, Of, DbStates
<1> QED
    BY <1>3, <1>4, <1>5, <1>6, <1>7 DEF Next, Runner, Daemon

-----------------------------------------------------------------------------
\* The counts of a cycle that are past the queries `places' for a scope.
CountedYet(s, places) ==
    /\ pc \notin {"idle", "scan", "execute"}
    /\ \/ phase = "check"
       \/ phase \in {"asset", "portfolio"} /\ s \notin ahead /\ ~(s = scope /\ pc \in places)

ToDone    == {"done"}
ToPending == {"done", "pending"}
ToOpen    == {"done", "pending", "open"}

SeenDone(s)    == Of({s}, Known(Consuming)) \subseteq seen["done"]
SeenPending(s) == Of({s}, Known({"unknown"})) \subseteq seen["pending"]
SeenOpen(s)    == Of({s}, Known(Live)) \subseteq seen["pending"] \cup seen["open"]

\* What has been counted covers what is there.
SeenInv ==
    /\ \A s \in Scopes : /\ CountedYet(s, ToDone) => SeenDone(s)
                         /\ CountedYet(s, ToPending) => SeenPending(s)
                         /\ CountedYet(s, ToOpen) => SeenOpen(s)
    /\ pc = "allocate" => phase = "check"

LEMMA SeenInit == Init => SeenInv
BY DEF Init, SeenInv, CountedYet

LEMMA SeenNext == TypeInv /\ LostIsStray /\ SeenInv /\ [Next]_vars => SeenInv'
<1> SUFFICES ASSUME TypeInv, LostIsStray, SeenInv, [Next]_vars PROVE SeenInv'
    OBVIOUS
<1>1. ASSUME \A s \in Scopes : ~Execute(s)
      PROVE  /\ Known(Consuming)' \subseteq Known(Consuming) /\ Known(Live)' \subseteq Known(Live)
             /\ Known({"unknown"})' \subseteq Known({"unknown"})
    BY <1>1, KnownShrinks DEF Limited
<1>2. ASSUME \A s \in Scopes : ~Execute(s), seen' = seen,
             \A s \in Scopes : \A P \in {ToDone, ToPending, ToOpen} : CountedYet(s, P)' => CountedYet(s, P),
             pc' = "allocate" => phase' = "check"
      PROVE  SeenInv'
    BY <1>1, <1>2 DEF SeenInv, SeenDone, SeenPending, SeenOpen, Of
<1>3. ASSUME pc' \in {"idle", "scan", "execute"} \/ phase' = "record", pc' # "allocate" PROVE SeenInv'
    BY <1>3 DEF SeenInv, CountedYet
<1>4. ASSUME ahead' = Scopes, phase' # "check", pc' # "allocate" PROVE SeenInv'
    BY <1>4 DEF SeenInv, CountedYet
<1>5. CASE UNCHANGED vars \/ Tick \/ (\E w \in Switches : Toggle(w)) \/ (\E i \in Intents : Reconcile(i))
           \/ SaveView
           \/ \E s \in Scopes : DaemonLoad(s) \/ DaemonJudge(s) \/ DaemonSubmits(s) \/ DaemonEnds(s)
                              \/ View(s) \/ Reset(s)
  <2>1. UNCHANGED <<pc, phase, ahead, scope, seen, todo>>
    BY <1>5 DEF vars, cycle, Tick, Toggle, Reconcile, SaveView, DaemonLoad, DaemonJudge, DaemonSubmits,
       DaemonEnds, View, Reset
  <2>2. \A s \in Scopes : ~Execute(s)
    BY <2>1 DEF Execute
  <2> QED  BY <1>2, <2>1, <2>2 DEF CountedYet, SeenInv
<1>6. CASE Start \/ Scan \/ Allocate \/ AllocationFails \/ Finish \/ Die \/ AssetQuotas
           \/ \E s \in Scopes : Execute(s)
    BY <1>3, <1>4, <1>6
    DEF Start, Scan, Allocate, AllocationFails, Finish, Die, AssetQuotas, Execute, Loop, Forget
<1>7. CASE PortfolioQuota \/ Judge \/ ChecksDone \/ SaveRow
  <2>1. /\ pc # "execute" /\ seen' = seen
        /\ \A s \in Scopes : \A P \in {ToDone, ToPending, ToOpen} : CountedYet(s, P)' => CountedYet(s, P)
        /\ pc' = "allocate" => phase' = "check"
    BY <1>7
    DEF PortfolioQuota, Judge, ChecksDone, SaveRow, Loop, CountedYet, ToDone, ToPending, ToOpen
  <2> QED  BY <1>2, <2>1 DEF Execute
<1>8. ASSUME NEW s \in Scopes, NextScope(s) PROVE SeenInv'
  <2>1. pc = "next" /\ seen' = seen /\ phase' = phase /\ pc' = FirstStep[phase]
        /\ ahead' = ahead \ {s} /\ scope' = s
    BY <1>8 DEF NextScope
  <2>2. phase \in {"asset", "portfolio"} => pc' = "done"
    BY <2>1 DEF FirstStep
  <2>3. pc' # "allocate"
    BY <2>1 DEF FirstStep, TypeInv, TypeOK, Phases
  <2>4. \A t \in Scopes : \A P \in {ToDone, ToPending, ToOpen} : CountedYet(t, P)' => CountedYet(t, P)
    BY <2>1, <2>2 DEF CountedYet, ToDone, ToPending, ToOpen
  <2> QED  BY <1>2, <2>1, <2>3, <2>4 DEF Execute
<1>9. CASE Count
  <2>1. /\ pc \in Kinds /\ pc' = AfterCount[pc]
        /\ UNCHANGED <<db, phase, ahead, scope>>
        /\ seen \in [Kinds -> SUBSET Intents]
    BY <1>9 DEF Count, TypeInv, TypeOK
  <2>2. \A t \in Scopes : ~Execute(t)
    BY <2>1 DEF Execute, Kinds
  <2> DEFINE found == Of({scope}, In(Counted[pc]))
  <2>3. /\ seen' = [seen EXCEPT ![pc] = @ \cup found] \/ seen' = seen
        /\ stray \subseteq stray' /\ Known(Consuming)' \subseteq Known(Consuming)
        /\ Known(Live)' \subseteq Known(Live) /\ Known({"unknown"})' \subseteq Known({"unknown"})
        /\ found \ stray' \subseteq seen'[pc]
    BY <1>1, <2>1, <2>2, <1>9 DEF Count
  <2>4. \A kind \in Kinds : seen[kind] \subseteq seen'[kind]
    BY <2>1, <2>3
  <2>5. pc' # "allocate"
    BY <2>1 DEF AfterCount, Kinds
  <2> HIDE DEF found
  <2> SUFFICES ASSUME NEW t \in Scopes
               PROVE  /\ CountedYet(t, ToDone)' => SeenDone(t)'
                      /\ CountedYet(t, ToPending)' => SeenPending(t)'
                      /\ CountedYet(t, ToOpen)' => SeenOpen(t)'
    BY <2>5 DEF SeenInv
  <2>6. /\ SeenDone(t) => SeenDone(t)'
        /\ SeenPending(t) => SeenPending(t)'
        /\ SeenOpen(t) => SeenOpen(t)'
    BY <2>3, <2>4 DEF SeenDone, SeenPending, SeenOpen, Of, Kinds
  <2>0. /\ CountedYet(t, ToDone) => SeenDone(t)
        /\ CountedYet(t, ToPending) => SeenPending(t)
        /\ CountedYet(t, ToOpen) => SeenOpen(t)
    BY DEF SeenInv
  <2>7. CASE pc = "done"
    <3>1. pc' = "pending"  BY <2>1, <2>7 DEF AfterCount
    <3>2. /\ CountedYet(t, ToPending)' => CountedYet(t, ToPending)
          /\ CountedYet(t, ToOpen)' => CountedYet(t, ToOpen)
          /\ CountedYet(t, ToDone)' => CountedYet(t, ToDone) \/ t = scope
      BY <3>1, <2>1, <2>7 DEF CountedYet, ToDone, ToPending, ToOpen
    <3>3. t = scope => SeenDone(t)'
      <4>1. found = {i \in Intents : db[i] \in Consuming /\ i[1] = scope}
        BY <2>7 DEF found, Counted, Of, In
      <4>2. {i \in Intents : db'[i] \in Consuming /\ i[1] = scope} \ stray' \subseteq seen'[pc]
        BY <2>1, <2>3, <4>1
      <4> QED  BY <2>7, <4>2 DEF SeenDone, Of, Known, In
    <3> QED  BY <3>2, <3>3, <2>6, <2>0
  <2>8. CASE pc = "pending"
    <3>1. pc' = "open"  BY <2>1, <2>8 DEF AfterCount
    <3>2. /\ CountedYet(t, ToDone)' => CountedYet(t, ToDone)
          /\ CountedYet(t, ToOpen)' => CountedYet(t, ToOpen)
          /\ CountedYet(t, ToPending)' => CountedYet(t, ToPending) \/ t = scope
      BY <3>1, <2>1, <2>8 DEF CountedYet, ToDone, ToPending, ToOpen
    <3>3. t = scope => SeenPending(t)'
      <4>1. found = {i \in Intents : db[i] \in {"unknown"} /\ i[1] = scope}
        BY <2>8 DEF found, Counted, Of, In
      <4>2. {i \in Intents : db'[i] \in {"unknown"} /\ i[1] = scope} \ stray' \subseteq seen'[pc]
        BY <2>1, <2>3, <4>1
      <4> QED  BY <2>8, <4>2 DEF SeenPending, Of, Known, In
    <3> QED  BY <3>2, <3>3, <2>6, <2>0
  <2>9. CASE pc = "open"
    <3>1. pc' = "next"  BY <2>1, <2>9 DEF AfterCount
    <3>2. /\ CountedYet(t, ToDone)' => CountedYet(t, ToDone)
          /\ CountedYet(t, ToPending)' => CountedYet(t, ToPending)
          /\ CountedYet(t, ToOpen)' => CountedYet(t, ToOpen) \/ (t = scope /\ CountedYet(t, ToPending))
      BY <3>1, <2>1, <2>9 DEF CountedYet, ToDone, ToPending, ToOpen
    <3>3. t = scope /\ SeenPending(t)' => SeenOpen(t)'
      <4>1. found = {i \in Intents : db[i] \in {"open"} /\ i[1] = scope}
        BY <2>9 DEF found, Counted, Of, In
      <4>2. {i \in Intents : db'[i] \in {"open"} /\ i[1] = scope} \ stray' \subseteq seen'[pc]
        BY <2>1, <2>3, <4>1
      <4> QED  BY <2>9, <4>2 DEF SeenPending, SeenOpen, Of, Known, In, Live
    <3> QED  BY <3>2, <3>3, <2>6, <2>0
  <2> QED  BY <2>1, <2>7, <2>8, <2>9 DEF Kinds
<1> QED
    BY <1>5, <1>6, <1>7, <1>8, <1>9 DEF Next, Runner, Daemon

-----------------------------------------------------------------------------
LEMMA Smaller ==
    ASSUME NEW A, NEW B, IsFiniteSet(A), B \subseteq A
    PROVE  Cardinality(B) <= Cardinality(A)
BY FS_Subset

LEMMA Together ==
    ASSUME NEW A, NEW B, IsFiniteSet(A), IsFiniteSet(B)
    PROVE  /\ IsFiniteSet(A \cup B)
           /\ Cardinality(A \cup B) <= Cardinality(A) + Cardinality(B)
<1>1. /\ IsFiniteSet(A \cup B)
      /\ Cardinality(A \cup B) = Cardinality(A) + Cardinality(B) - Cardinality(A \cap B)
    BY FS_Union
<1>2. Cardinality(A) \in Nat /\ Cardinality(B) \in Nat /\ Cardinality(A \cap B) \in Nat
    BY FS_Intersection, FS_CardinalityType
<1> QED  BY <1>1, <1>2

LEMMA OneMore ==
    ASSUME NEW A, NEW B, NEW x, IsFiniteSet(A), B \subseteq A \cup {x}
    PROVE  Cardinality(B) <= Cardinality(A) + 1
<1>1. IsFiniteSet({x}) /\ Cardinality({x}) = 1  BY FS_Singleton
<1>2. IsFiniteSet(A \cup {x}) /\ Cardinality(A \cup {x}) <= Cardinality(A) + 1
    BY <1>1, Together
<1>3. Cardinality(B) <= Cardinality(A \cup {x}) /\ IsFiniteSet(B)
    BY <1>2, FS_Subset
<1> QED  BY <1>2, <1>3, FS_CardinalityType

LEMMA OneLess ==
    ASSUME NEW A, NEW B, NEW x \in A, IsFiniteSet(A), B \subseteq A \ {x}
    PROVE  Cardinality(B) <= Cardinality(A) - 1
<1>1. IsFiniteSet(A \ {x}) /\ Cardinality(A \ {x}) = Cardinality(A) - 1
    BY FS_RemoveElement, FS_CardinalityType
<1>2. Cardinality(B) <= Cardinality(A \ {x})
    BY <1>1, FS_Subset
<1> QED  BY <1>1, <1>2

\* Intents of the ledger, and scopes, are finitely many.
LEMMA Finite ==
    ASSUME NEW A, A \subseteq Intents \/ A \subseteq Scopes
    PROVE  IsFiniteSet(A) /\ Cardinality(A) \in Nat
BY PortfolioAssumption, FS_Subset, FS_CardinalityType

\* A scope that is not barred has trades left today.
BarredInv ==
    pc \notin {"idle", "scan", "execute"} /\ phase \in {"portfolio", "check"} =>
        \A s \in Scopes \ barred : Cardinality(Of({s}, Known(Consuming))) < ScopeTrades

LEMMA BarredInit == Init => BarredInv
BY DEF Init, BarredInv

LEMMA BarredNext ==
    TypeInv /\ LostIsStray /\ SeenInv /\ BarredInv /\ [Next]_vars => BarredInv'
<1> SUFFICES ASSUME TypeInv, LostIsStray, SeenInv, BarredInv, [Next]_vars PROVE BarredInv'
    OBVIOUS
<1>0. ASSUME \A s \in Scopes : ~Execute(s), NEW t \in Scopes
      PROVE  /\ Cardinality(Of({t}, Known(Consuming)))' <= Cardinality(Of({t}, Known(Consuming)))
             /\ Cardinality(Of({t}, Known(Consuming))) \in Nat
             /\ Cardinality(Of({t}, Known(Consuming)))' \in Nat
  <2>1. Known(Consuming)' \subseteq Known(Consuming)  BY <1>0, KnownShrinks DEF Limited
  <2>2. Of({t}, Known(Consuming))' \subseteq Of({t}, Known(Consuming))  BY <2>1 DEF Of
  <2>3. Of({t}, Known(Consuming)) \subseteq Intents  BY DEF Of, Known, In
  <2> QED  BY <2>2, <2>3, Finite, Smaller
<1>1. ASSUME \A s \in Scopes : ~Execute(s), barred \subseteq barred',
             pc' \notin {"idle", "scan", "execute"} /\ phase' \in {"portfolio", "check"} =>
                 pc \notin {"idle", "scan", "execute"} /\ phase \in {"portfolio", "check"}
      PROVE  BarredInv'
  <2> SUFFICES ASSUME pc' \notin {"idle", "scan", "execute"} /\ phase' \in {"portfolio", "check"},
                      NEW s \in Scopes \ barred'
               PROVE  Cardinality(Of({s}, Known(Consuming)))' < ScopeTrades
    BY DEF BarredInv
  <2>1. Cardinality(Of({s}, Known(Consuming))) < ScopeTrades
    BY <1>1 DEF BarredInv
  <2> QED  BY <1>0, <1>1, <2>1, PortfolioAssumption
<1>2. ASSUME pc' \in {"idle", "scan", "execute"} \/ phase' \in {"record", "asset"} PROVE BarredInv'
    BY <1>2 DEF BarredInv
<1>3. CASE UNCHANGED vars \/ Tick \/ (\E w \in Switches : Toggle(w)) \/ (\E i \in Intents : Reconcile(i))
           \/ SaveView
           \/ \E s \in Scopes : DaemonLoad(s) \/ DaemonJudge(s) \/ DaemonSubmits(s) \/ DaemonEnds(s)
                              \/ View(s) \/ Reset(s)
  <2>1. UNCHANGED <<pc, phase, barred, todo>>
    BY <1>3 DEF vars, cycle, Tick, Toggle, Reconcile, SaveView, DaemonLoad, DaemonJudge, DaemonSubmits,
       DaemonEnds, View, Reset
  <2>2. \A s \in Scopes : ~Execute(s)  BY <2>1 DEF Execute
  <2> QED  BY <1>1, <2>1, <2>2
<1>4. CASE Start \/ Scan \/ Allocate \/ AllocationFails \/ Finish \/ Die
           \/ \E s \in Scopes : Execute(s)
    BY <1>2, <1>4 DEF Start, Scan, Allocate, AllocationFails, Finish, Die, Execute, Loop, Forget
<1>5. CASE PortfolioQuota \/ Judge \/ ChecksDone \/ SaveRow \/ Count
  <2>1. /\ pc \notin {"idle", "scan", "execute"} /\ barred \subseteq barred'
        /\ phase' = phase \/ phase = "portfolio"
    BY <1>5 DEF PortfolioQuota, Judge, ChecksDone, SaveRow, Count, Loop, Kinds
  <2> QED  BY <1>1, <2>1 DEF Execute
<1>6. ASSUME NEW s \in Scopes, NextScope(s) PROVE BarredInv'
    BY <1>1, <1>6 DEF NextScope, Execute
<1>7. CASE AssetQuotas
  <2>1. /\ pc = "next" /\ ahead = {} /\ phase = "asset" /\ barred' = {s \in Scopes : OverQuota(s)}
    BY <1>7 DEF AssetQuotas
  <2>2. ASSUME NEW s \in Scopes \ barred'
        PROVE  Cardinality(Of({s}, Known(Consuming)))' < ScopeTrades
    <3>1. CountedYet(s, ToDone)  BY <2>1 DEF CountedYet, ToDone
    <3>2. Of({s}, Known(Consuming)) \subseteq Of({s}, seen["done"])
      BY <3>1 DEF SeenInv, SeenDone, Of
    <3>3. Of({s}, seen["done"]) \subseteq Intents  BY DEF Of, TypeInv, TypeOK, Kinds
    <3>4. Cardinality(Of({s}, seen["done"])) < ScopeTrades /\ Cardinality(Of({s}, seen["done"])) \in Nat
      <4>1. ~OverQuota(s)  BY <2>1, <2>2
      <4>2. Cardinality(Of({s}, seen["done"])) \in Nat  BY <3>3, Finite
      <4> QED  BY <4>1, <4>2, PortfolioAssumption DEF OverQuota, SeenOf
    <3>5. Cardinality(Of({s}, Known(Consuming))) <= Cardinality(Of({s}, seen["done"]))
      BY <3>2, <3>3, Finite, Smaller
    <3> QED  BY <1>0, <2>1, <3>4, <3>5, PortfolioAssumption DEF Execute
  <2> QED  BY <2>2 DEF BarredInv
<1> QED
    BY <1>3, <1>4, <1>5, <1>6, <1>7 DEF Next, Runner, Daemon

-----------------------------------------------------------------------------
\* The known orders of some scopes and the executions that may add to them.
Load(group, states) == Cardinality(Of(group, Known(states))) + Cardinality(todo \cap group)

CapInv ==
    /\ \A g \in Groups : Load(g.members, Live) <= g.cap
    /\ Load(Scopes, Live) < MaxPositions + MaxPending
    /\ Load(Scopes, Consuming) <= MaxTrades
    /\ \A s \in Scopes : Load({s}, Consuming) <= ScopeTrades

LEMMA LoadType ==
    ASSUME NEW group, group \subseteq Scopes, NEW states
    PROVE  /\ IsFiniteSet(Of(group, Known(states))) /\ IsFiniteSet(todo \cap group)
           /\ Cardinality(Of(group, Known(states))) \in Nat /\ Cardinality(todo \cap group) \in Nat
           /\ Cardinality(Of(group, Known(states)))' \in Nat /\ Cardinality(todo \cap group)' \in Nat
           /\ Load(group, states) \in Nat /\ Load(group, states)' \in Nat
<1>1. Of(group, Known(states)) \subseteq Intents /\ todo \cap group \subseteq Scopes
    BY DEF Of, Known, In
<1>2. Of(group, Known(states))' \subseteq Intents /\ (todo \cap group)' \subseteq Scopes
    BY DEF Of, Known, In
<1> QED  BY <1>1, <1>2, Finite DEF Load

\* An execution adds no more to a load than it takes off; nothing else but the
\* selection adds to one.
LEMMA LoadNext ==
    ASSUME TypeInv, LostIsStray, [Next]_vars, todo' \subseteq todo,
           NEW group, group \subseteq Scopes, NEW states \in {Live, Consuming}
    PROVE  Load(group, states)' <= Load(group, states)
<1> DEFINE A == Of(group, Known(states))
           T == todo \cap group
<1>0. /\ IsFiniteSet(A) /\ IsFiniteSet(T) /\ Cardinality(A) \in Nat /\ Cardinality(T) \in Nat
      /\ Cardinality(A)' \in Nat /\ Cardinality(T)' \in Nat
    BY LoadType
<1>1. Cardinality(T)' <= Cardinality(T)
    BY <1>0, Smaller
<1>2. ASSUME A' \subseteq A PROVE Load(group, states)' <= Load(group, states)
  <2>1. Cardinality(A)' <= Cardinality(A)  BY <1>0, <1>2, Smaller
  <2> QED  BY <1>0, <1>1, <2>1 DEF Load
<1>3. CASE \A s \in Scopes : ~Execute(s)
  <2>1. Known(states)' \subseteq Known(states)  BY <1>3, KnownShrinks DEF Limited
  <2> QED  BY <1>2, <2>1 DEF Of
<1>4. ASSUME NEW s \in Scopes, Execute(s) PROVE Load(group, states)' <= Load(group, states)
  <2>1. s \in todo /\ todo' = todo \ {s}  BY <1>4 DEF Execute
  <2>2. PICK i : i[1] = s /\ Known(states)' \subseteq Known(states) \cup {i}
    <3>0. \E i : i[1] = s
      <4>1. <<s>>[1] = s  OBVIOUS
      <4> QED  BY <4>1
    <3>1. CASE UNCHANGED ledger
      BY <3>0, <3>1 DEF ledger, Known, In
    <3>2. ASSUME NEW i \in Of({s}, In({"none"})), NEW st, db' = [db EXCEPT ![i] = st], stray \subseteq stray'
          PROVE  i[1] = s /\ Known(states)' \subseteq Known(states) \cup {i}
      BY <3>2 DEF Of, Known, In, TypeInv, TypeOK
    <3> QED  BY <1>4, <3>1, <3>2 DEF Execute, Of
  <2>3. CASE s \notin group
    BY <1>2, <2>2, <2>3 DEF Of
  <2>4. CASE s \in group
    <3>1. Cardinality(T)' <= Cardinality(T) - 1
      BY <2>1, <2>4, <1>0, OneLess
    <3>2. Cardinality(A)' <= Cardinality(A) + 1
      <4>1. A' \subseteq A \cup {i}  BY <2>2 DEF Of
      <4> QED  BY <4>1, <1>0, OneMore
    <3> QED  BY <1>0, <3>1, <3>2 DEF Load
  <2> QED  BY <2>3, <2>4
<1> QED  BY <1>3, <1>4

LEMMA CapFrame ==
    ASSUME TypeInv, LostIsStray, CapInv, [Next]_vars, todo' \subseteq todo
    PROVE  CapInv'
<1>1. \A g \in Groups : g.members \subseteq Scopes /\ g.cap \in Nat
    BY PortfolioAssumption
<1>2. ASSUME NEW g \in Groups PROVE Load(g.members, Live)' <= g.cap
  <2>1. Load(g.members, Live)' <= Load(g.members, Live)  BY <1>1, LoadNext
  <2>2. Load(g.members, Live) \in Nat /\ Load(g.members, Live)' \in Nat  BY <1>1, LoadType
  <2> QED  BY <1>1, <2>1, <2>2 DEF CapInv
<1>3. Load(Scopes, Live)' < MaxPositions + MaxPending /\ Load(Scopes, Consuming)' <= MaxTrades
  <2>1. Load(Scopes, Live)' <= Load(Scopes, Live) /\ Load(Scopes, Consuming)' <= Load(Scopes, Consuming)
    BY LoadNext
  <2>2. /\ Load(Scopes, Live) \in Nat /\ Load(Scopes, Live)' \in Nat
        /\ Load(Scopes, Consuming) \in Nat /\ Load(Scopes, Consuming)' \in Nat
    BY LoadType
  <2> QED  BY <2>1, <2>2, PortfolioAssumption DEF CapInv
<1>4. ASSUME NEW s \in Scopes PROVE Load({s}, Consuming)' <= ScopeTrades
  <2>1. Load({s}, Consuming)' <= Load({s}, Consuming)  BY LoadNext
  <2>2. Load({s}, Consuming) \in Nat /\ Load({s}, Consuming)' \in Nat  BY LoadType
  <2> QED  BY <2>1, <2>2, PortfolioAssumption DEF CapInv
<1> QED  BY <1>2, <1>3, <1>4 DEF CapInv

LEMMA CapInit == Init => CapInv
<1> SUFFICES ASSUME Init PROVE CapInv
    OBVIOUS
<1>1. ASSUME NEW group, NEW states \in {Live, Consuming} PROVE Load(group, states) = 0
  <2>1. Of(group, Known(states)) = {} /\ todo \cap group = {}
    BY <1>1 DEF Init, Of, Known, In, Live, Consuming
  <2> QED  BY <2>1, FS_EmptySet DEF Load
<1>2. /\ \A g \in Groups : Load(g.members, Live) = 0
      /\ Load(Scopes, Live) = 0 /\ Load(Scopes, Consuming) = 0
      /\ \A s \in Scopes : Load({s}, Consuming) = 0
    BY <1>1
<1> QED  BY <1>2, PortfolioAssumption DEF CapInv

\* A selection keeps the caps: what the counts found is at least what there is.
LEMMA CapAllocate ==
    ASSUME TypeInv, LostIsStray, SeenInv, BarredInv, CapInv, [Next]_vars,
           NEW C, C \subseteq Scopes \ barred, C # {}, HasRoom(C), Fits(C),
           todo' = C, UNCHANGED <<db, stray>>, pc = "allocate"
    PROVE  CapInv'
<1>1. phase = "check"
    BY DEF SeenInv
<1>2. \A s \in Scopes : SeenDone(s) /\ SeenPending(s) /\ SeenOpen(s)
    BY <1>1 DEF SeenInv, CountedYet
<1>3. ASSUME NEW states PROVE Known(states)' = Known(states)
    BY DEF Known, In
<1>4. /\ seen["done"] \subseteq Intents /\ seen["pending"] \subseteq Intents
      /\ seen["open"] \subseteq Intents
    BY DEF TypeInv, TypeOK, Kinds
<1>5. Known(Live) \subseteq Intents /\ Known(Consuming) \subseteq Intents
    BY DEF Known, In
<1>6. \A i \in Intents : i[1] \in Scopes
    BY PortfolioAssumption
<1>7. IsFiniteSet(C) /\ Cardinality(C) \in Nat /\ Cardinality(C) >= 1
  <2>1. IsFiniteSet(C) /\ Cardinality(C) \in Nat  BY Finite
  <2>2. Cardinality(C) # 0  BY <2>1, FS_EmptySet
  <2> QED  BY <2>1, <2>2
\* The orders of a group are among those that were counted.
<1>8. ASSUME NEW group, group \subseteq Scopes
      PROVE  /\ Cardinality(Of(group, Known(Live))) <= SeenOf("pending", group) + SeenOf("open", group)
             /\ SeenOf("pending", group) \in Nat /\ SeenOf("open", group) \in Nat
  <2>1. Of(group, Known(Live)) \subseteq Of(group, seen["pending"]) \cup Of(group, seen["open"])
    BY <1>2, <1>5, <1>6, <1>8 DEF SeenOpen, Of
  <2>2. Of(group, seen["pending"]) \subseteq Intents /\ Of(group, seen["open"]) \subseteq Intents
    BY <1>4 DEF Of
  <2>3. /\ IsFiniteSet(Of(group, seen["pending"])) /\ IsFiniteSet(Of(group, seen["open"]))
        /\ SeenOf("pending", group) \in Nat /\ SeenOf("open", group) \in Nat
    BY <2>2, Finite DEF SeenOf
  <2>4. /\ IsFiniteSet(Of(group, seen["pending"]) \cup Of(group, seen["open"]))
        /\ Cardinality(Of(group, seen["pending"]) \cup Of(group, seen["open"]))
              <= SeenOf("pending", group) + SeenOf("open", group)
    BY <2>3, Together DEF SeenOf
  <2>5. Cardinality(Of(group, Known(Live)))
           <= Cardinality(Of(group, seen["pending"]) \cup Of(group, seen["open"]))
    BY <2>1, <2>4, Smaller
  <2>6. /\ Cardinality(Of(group, Known(Live))) \in Nat
        /\ Cardinality(Of(group, seen["pending"]) \cup Of(group, seen["open"])) \in Nat
    BY <1>8, <2>4, LoadType, FS_CardinalityType
  <2> QED  BY <2>3, <2>4, <2>5, <2>6
<1>9. /\ Of(Scopes, Known(Live)) = Known(Live) /\ Of(Scopes, Known(Consuming)) = Known(Consuming)
      /\ Of(Scopes, seen["pending"]) = seen["pending"] /\ Of(Scopes, seen["open"]) = seen["open"]
      /\ C \cap Scopes = C
    BY <1>4, <1>5, <1>6 DEF Of
<1>10. ASSUME NEW g \in Groups PROVE Load(g.members, Live)' <= g.cap
  <2>0. g.members \subseteq Scopes /\ g.cap \in Nat /\ g.cycle \in Nat  BY PortfolioAssumption
  <2>1. /\ Load(g.members, Live)' = Cardinality(Of(g.members, Known(Live))) + Cardinality(C \cap g.members)
        /\ Cardinality(Of(g.members, Known(Live))) \in Nat
    BY <1>3, <2>0, LoadType DEF Load, Of
  <2>2. Cardinality(C \cap g.members) \in Nat
    BY <2>0, Finite
  <2>3. CASE Cardinality(C \cap g.members) > 0
    <3>1. Cardinality(C \cap g.members) + SeenOf("pending", g.members) + SeenOf("open", g.members)
              <= g.cap
      BY <2>3 DEF Fits
    <3> QED  BY <1>8, <2>0, <2>1, <2>2, <3>1
  <2>4. CASE Cardinality(C \cap g.members) = 0
    <3>1. /\ Load(g.members, Live) <= g.cap /\ Cardinality(todo \cap g.members) \in Nat
          /\ Load(g.members, Live) = Cardinality(Of(g.members, Known(Live))) + Cardinality(todo \cap g.members)
      BY <2>0, LoadType DEF CapInv, Load
    <3> QED  BY <2>0, <2>1, <2>4, <3>1
  <2> QED  BY <2>2, <2>3, <2>4
<1>11. Load(Scopes, Live)' < MaxPositions + MaxPending
  <2>1. Load(Scopes, Live)' = Cardinality(Known(Live)) + Cardinality(C)
    BY <1>3, <1>9 DEF Load, Of
  <2>2. /\ Cardinality(Known(Live)) <= Cardinality(seen["pending"]) + Cardinality(seen["open"])
        /\ Cardinality(seen["pending"]) \in Nat /\ Cardinality(seen["open"]) \in Nat
        /\ Cardinality(Known(Live)) \in Nat
    BY <1>5, <1>8, <1>9, Finite DEF SeenOf
  <2> QED  BY <1>7, <2>1, <2>2, PortfolioAssumption DEF HasRoom
<1>12. Load(Scopes, Consuming)' <= MaxTrades
  <2>1. Load(Scopes, Consuming)' = Cardinality(Known(Consuming)) + Cardinality(C)
    BY <1>3, <1>9 DEF Load, Of
  <2>2. Known(Consuming) \subseteq seen["done"]
    BY <1>2, <1>5, <1>6 DEF SeenDone, Of
  <2>3. /\ Cardinality(Known(Consuming)) <= Cardinality(seen["done"])
        /\ Cardinality(Known(Consuming)) \in Nat /\ Cardinality(seen["done"]) \in Nat
    BY <1>4, <1>5, <2>2, Finite, Smaller
  <2> QED  BY <1>7, <2>1, <2>3, PortfolioAssumption DEF HasRoom
<1>13. ASSUME NEW s \in Scopes PROVE Load({s}, Consuming)' <= ScopeTrades
  <2>1. /\ Load({s}, Consuming)' = Cardinality(Of({s}, Known(Consuming))) + Cardinality(C \cap {s})
        /\ Cardinality(Of({s}, Known(Consuming))) \in Nat
    BY <1>3, LoadType DEF Load, Of
  <2>2. CASE s \in C
    <3>1. Cardinality(Of({s}, Known(Consuming))) < ScopeTrades
      <4>1. s \in Scopes \ barred  BY <2>2
      <4>2. pc \notin {"idle", "scan", "execute"} /\ phase \in {"portfolio", "check"}  BY <1>1
      <4> QED  BY <4>1, <4>2 DEF BarredInv
    <3>2. C \cap {s} = {s} /\ Cardinality({s}) = 1
      BY <2>2, FS_Singleton
    <3> QED  BY <2>1, <3>1, <3>2, PortfolioAssumption
  <2>3. CASE s \notin C
    <3>1. C \cap {s} = {} /\ Cardinality({}) = 0
      BY <2>3, FS_EmptySet
    <3>2. /\ Load({s}, Consuming) <= ScopeTrades /\ Cardinality(todo \cap {s}) \in Nat
          /\ Load({s}, Consuming) = Cardinality(Of({s}, Known(Consuming))) + Cardinality(todo \cap {s})
      BY LoadType DEF CapInv, Load
    <3> QED  BY <2>1, <3>1, <3>2, PortfolioAssumption
  <2> QED  BY <2>2, <2>3
<1> QED  BY <1>10, <1>11, <1>12, <1>13 DEF CapInv

CycleInv == TypeInv /\ LostIsStray /\ TodoInv /\ SeenInv /\ BarredInv /\ CapInv

LEMMA CycleInit == Init => CycleInv
BY TypeInit, LostTodoInit, SeenInit, BarredInit, CapInit DEF CycleInv

LEMMA CapNext == CycleInv /\ [Next]_vars => CapInv'
<1> SUFFICES ASSUME CycleInv, [Next]_vars PROVE CapInv'
    OBVIOUS
<1> USE DEF CycleInv
<1>1. CASE todo' \subseteq todo
    BY <1>1, CapFrame
<1>2. CASE Allocate
  <2>1. PICK C \in Selections : todo' = IF sampled = {} THEN C ELSE {}
    BY <1>2 DEF Allocate
  <2>2. CASE todo' = {}
    BY <1>1, <2>2
  <2>3. CASE todo' # {}
    <3>1. todo' = C /\ C # {}  BY <2>1, <2>3
    <3>2. C \subseteq wants \ barred /\ HasRoom(C) /\ Fits(C)
      BY <3>1 DEF Selections, Allowed
    <3>3. C \subseteq Scopes \ barred /\ pc = "allocate" /\ UNCHANGED <<db, stray>>
      BY <1>2, <3>2 DEF Allocate, ledger, TypeInv, TypeOK
    <3> QED  BY <3>1, <3>2, <3>3, CapAllocate
  <2> QED  BY <2>2, <2>3
<1>3. ASSUME ~Allocate PROVE todo' \subseteq todo
  <2>1. CASE UNCHANGED vars \/ Tick \/ (\E w \in Switches : Toggle(w)) \/ Start \/ Scan \/ AssetQuotas
           \/ PortfolioQuota \/ Judge \/ ChecksDone \/ SaveRow \/ AllocationFails \/ SaveView
           \/ (\E i \in Intents : Reconcile(i)) \/ Count
    BY <2>1 DEF vars, cycle, Tick, Toggle, Start, Scan, AssetQuotas, PortfolioQuota, Judge, ChecksDone,
       SaveRow, AllocationFails, SaveView, Reconcile, Count
  <2>2. CASE Finish \/ Die
    BY <2>2 DEF Finish, Die, Forget
  <2>3. ASSUME NEW s \in Scopes, Execute(s) PROVE todo' \subseteq todo
    BY <2>3 DEF Execute
  <2>4. ASSUME NEW s \in Scopes, NextScope(s) \/ DaemonLoad(s) \/ DaemonJudge(s) \/ DaemonSubmits(s)
                                 \/ DaemonEnds(s) \/ View(s) \/ Reset(s)
        PROVE  todo' \subseteq todo
    BY <2>4 DEF NextScope, DaemonLoad, DaemonJudge, DaemonSubmits, DaemonEnds, View, Reset, cycle
  <2> QED
    BY <1>3, <2>1, <2>2, <2>3, <2>4 DEF Next, Runner, Daemon
<1> QED  BY <1>1, <1>2, <1>3

LEMMA CycleNext == CycleInv /\ [Next]_vars => CycleInv'
BY TypeNext, LostTodoNext, SeenNext, BarredNext, CapNext DEF CycleInv

LEMMA CycleInvariant == Spec => []CycleInv
BY CycleInit, CycleNext, PTL DEF Spec

\* The caps of assets and clusters hold, whatever happens between the counts.
THEOREM GroupsCapped == Spec => []GroupExposure
<1>1. CycleInv => GroupExposure
  <2> SUFFICES ASSUME CycleInv, NEW g \in Groups
               PROVE  Cardinality(Of(g.members, Known(Live))) <= g.cap
    BY DEF GroupExposure
  <2>1. g.members \subseteq Scopes /\ g.cap \in Nat  BY PortfolioAssumption
  <2>2. /\ Load(g.members, Live) <= g.cap
        /\ Cardinality(Of(g.members, Known(Live))) \in Nat
        /\ Cardinality(todo \cap g.members) \in Nat
    BY <2>1, LoadType DEF CycleInv, CapInv
  <2> QED  BY <2>1, <2>2 DEF Load
<1> QED  BY <1>1, CycleInvariant, PTL

\* The two limits of the portfolio bound what is live by their sum.
THEOREM PortfolioCapped == Spec => []TotalExposure
<1>1. CycleInv => TotalExposure
  <2> SUFFICES ASSUME CycleInv PROVE TotalExposure
    OBVIOUS
  <2>1. Of(Scopes, Known(Live)) = Known(Live)
    BY PortfolioAssumption DEF Of, Known, In
  <2>2. /\ Load(Scopes, Live) < MaxPositions + MaxPending
        /\ Cardinality(Of(Scopes, Known(Live))) \in Nat
        /\ Cardinality(todo \cap Scopes) \in Nat
    BY LoadType DEF CycleInv, CapInv
  <2> QED  BY <2>1, <2>2, PortfolioAssumption DEF Load, TotalExposure
<1> QED  BY <1>1, CycleInvariant, PTL

\* The trades of a day stay within the quotas of the portfolio and its scopes.
THEOREM DayCapped == Spec => []DayTrades
<1>1. CycleInv => DayTrades
  <2> SUFFICES ASSUME CycleInv PROVE DayTrades
    OBVIOUS
  <2>1. Of(Scopes, Known(Consuming)) = Known(Consuming)
    BY PortfolioAssumption DEF Of, Known, In
  <2>2. /\ Load(Scopes, Consuming) <= MaxTrades
        /\ Cardinality(Of(Scopes, Known(Consuming))) \in Nat
        /\ Cardinality(todo \cap Scopes) \in Nat
    BY LoadType DEF CycleInv, CapInv
  <2>3. ASSUME NEW s \in Scopes PROVE Cardinality(Of({s}, Known(Consuming))) <= ScopeTrades
    <3>1. /\ Load({s}, Consuming) <= ScopeTrades
          /\ Cardinality(Of({s}, Known(Consuming))) \in Nat
          /\ Cardinality(todo \cap {s}) \in Nat
      BY LoadType DEF CycleInv, CapInv
    <3> QED  BY <3>1, PortfolioAssumption DEF Load
  <2> QED  BY <2>1, <2>2, <2>3, PortfolioAssumption DEF Load, DayTrades
<1> QED  BY <1>1, CycleInvariant, PTL
=============================================================================
