-------------------------- MODULE SubmitGateProofs --------------------------
(***************************************************************************)
(* Proofs about SubmitGate, for any number of scopes, signals and kills:   *)
(* its types, the exclusion of the submit lock, and how far the limits     *)
(* that are read outside the lock can be exceeded.                         *)
(***************************************************************************)
EXTENDS SubmitGate, FiniteSetTheorems, TLAPS

\* The places a note goes through are places of the lock, before or after it.
LEMMA NotePlaces ==
    \A f \in Files :
        /\ LoadPlace[f] \in Noting /\ SavePlace[f] \in Noting /\ AfterNote[f] \in Noting
        /\ LoadPlace[f] # "idle" /\ SavePlace[f] # "idle"
<1> SUFFICES ASSUME NEW f \in Files
             PROVE  /\ LoadPlace[f] \in Noting /\ SavePlace[f] \in Noting /\ AfterNote[f] \in Noting
                    /\ LoadPlace[f] # "idle" /\ SavePlace[f] # "idle"
    OBVIOUS
<1>1. CASE f = "guard"  BY <1>1 DEF LoadPlace, SavePlace, AfterNote, Noting
<1>2. CASE f = "protection"  BY <1>2 DEF LoadPlace, SavePlace, AfterNote, Noting
<1> QED  BY <1>1, <1>2 DEF Files

\* The list a note writes back holds times.
LEMMA NoteType ==
    ASSUME TypeOK, NEW s \in Scopes, NEW f \in Files, stamp[s] \in Times
    PROVE  WithNote(s, f) \in [Intents -> Times \cup {NoTime}]
BY DEF TypeOK, WithNote

\* Stamps are within the clock, but while the recommended delay runs.
StampInTime == \A s \in Scopes : pc[s] # "delay" => stamp[s] \in Times

\* A run has an intent in hand.
InHand == \A s \in Scopes : pc[s] # "idle" => Cur(s) \in Intents

TypeInv == TypeOK /\ StampInTime /\ InHand

LEMMA TypeInit == Init => TypeInv
<1> SUFFICES ASSUME Init PROVE TypeInv
    OBVIOUS
<1>1. NoNotes \in [Intents -> Times \cup {NoTime}]
    BY DEF NoNotes
<1>2. /\ noted \in [Files -> [Intents -> Times \cup {NoTime}]]
      /\ copy \in [Scopes -> [Intents -> Times \cup {NoTime}]]
      /\ asked \in [Intents -> Times \cup {NoTime}]
    BY <1>1 DEF Init
<1>3. /\ db \in [Intents -> DbStates] /\ pc \in [Scopes -> Places]
      /\ last \in [Files -> Times \cup {NoTime}]
    BY DEF Init, DbStates, Places
<1>4. /\ now \in Times /\ kills + faults <= MaxMishaps
      /\ stamp \in [Scopes -> 0..(MaxTime + MaxDelay)]
      /\ \A s \in Scopes : stamp[s] \in Times
    BY GateAssumption DEF Init, Times
<1> QED
    BY <1>2, <1>3, <1>4 DEF Init, TypeInv, TypeOK, StampInTime, InHand

LEMMA TypeNext == TypeInv /\ [Next]_vars => TypeOK' /\ StampInTime'
<1> SUFFICES ASSUME TypeInv, [Next]_vars PROVE TypeOK' /\ StampInTime'
    OBVIOUS
<1> USE DEF TypeInv, TypeOK, StampInTime, Times
<1>1. CASE UNCHANGED vars
    BY <1>1 DEF vars, ledger, files, work
<1>2. CASE Tick
    BY <1>2, GateAssumption DEF Tick, ledger, files, work
<1>3. CASE ToggleHalt
    BY <1>3 DEF ToggleHalt, ledger, files, work
<1>4. ASSUME NEW i \in Intents, Reconcile(i) PROVE TypeOK' /\ StampInTime'
    BY <1>4 DEF Reconcile, files, work, DbStates, Open, Answers, Lost
<1>5. ASSUME NEW s \in Scopes, Begin(s) PROVE TypeOK' /\ StampInTime'
  <2>1. PICK c \in Candles : /\ candle' = [candle EXCEPT ![s] = c]
                             /\ db' = [db EXCEPT ![<<s, c>>] = "planned"]
                             /\ <<s, c>> \in Intents
    BY <1>5 DEF Begin, In
  <2>2. db' \in [Intents -> DbStates]  BY <2>1 DEF DbStates
  <2>3. candle' \in [Scopes -> Candles \cup {0}]  BY <2>1
  <2> QED
    BY <1>5, <2>2, <2>3 DEF Begin, HaltSeen, GoTo, files, Places, Unsent
<1>6. ASSUME NEW s \in Scopes, Gate(s) PROVE TypeOK' /\ StampInTime'
    BY <1>6 DEF Gate, Refuse, Expire, Leave, GoTo, files, DbStates, Places, Unsent
<1>7. ASSUME NEW s \in Scopes, Protect(s) PROVE TypeOK' /\ StampInTime'
  <2>1. stamp' \in [Scopes -> 0..(MaxTime + MaxDelay)]
    BY <1>7, GateAssumption DEF Protect, Delays
  <2>2. db' \in [Intents -> DbStates]  BY <1>7 DEF Protect, Refuse, DbStates
  <2>3. /\ pc' \in [Scopes -> Places] /\ sampled' \in [Scopes -> BOOLEAN]
    BY <1>7 DEF Protect, Refuse, Leave, GoTo, Places, Unsent
  <2>4. StampInTime'
    BY <1>7 DEF Protect, Refuse, Leave, GoTo
  <2> QED
    BY <1>7, <2>1, <2>2, <2>3, <2>4 DEF Protect, files
<1>8. ASSUME NEW s \in Scopes, CountOpen(s) PROVE TypeOK' /\ StampInTime'
  <2>1. /\ stamp' \in [Scopes -> 0..(MaxTime + MaxDelay)] /\ StampInTime'
    BY <1>8, GateAssumption DEF CountOpen, Refuse, Expire, Leave, GoTo
  <2>2. db' \in [Intents -> DbStates]  BY <1>8 DEF CountOpen, Refuse, DbStates
  <2>3. /\ pc' \in [Scopes -> Places] /\ sampled' \in [Scopes -> BOOLEAN]
    BY <1>8 DEF CountOpen, Refuse, Leave, GoTo, Places, Unsent
  <2> QED
    BY <1>8, <2>1, <2>2, <2>3 DEF CountOpen, files
<1>9. ASSUME NEW s \in Scopes, CountUnknown(s) PROVE TypeOK' /\ StampInTime'
    BY <1>9 DEF CountUnknown, Refuse, Leave, GoTo, files, DbStates, Places, Unsent
<1>10. ASSUME NEW s \in Scopes, TakeLock(s) PROVE TypeOK' /\ StampInTime'
    BY <1>10 DEF TakeLock, GoTo, ledger, files, work, Places, Unsent
<1>11. ASSUME NEW s \in Scopes, Send(s) PROVE TypeOK' /\ StampInTime'
    BY <1>11, GateAssumption DEF Send, GoTo, ledger, files, Places
<1>12. ASSUME NEW s \in Scopes, RecordAttempt(s) PROVE TypeOK' /\ StampInTime'
  <2>1. stamp[s] \in Times  BY <1>12 DEF RecordAttempt
  <2>2. /\ stamp' \in [Scopes -> 0..(MaxTime + MaxDelay)] /\ StampInTime'
  <3>1. stamp' = [stamp EXCEPT ![s] = 0] /\ pc' = [pc EXCEPT ![s] = "save"]
    BY <1>12 DEF RecordAttempt, GoTo
  <3>2. stamp' \in [Scopes -> 0..(MaxTime + MaxDelay)]  BY <3>1, GateAssumption
  <3>3. ASSUME NEW t \in Scopes, pc'[t] # "delay" PROVE stamp'[t] \in Times
    <4>1. CASE t = s  BY <4>1, <3>1, GateAssumption
    <4>2. CASE t # s  BY <4>2, <3>1, <3>3
    <4> QED  BY <4>1, <4>2
  <3> QED  BY <3>2, <3>3
  <2>3. asked' \in [Intents -> Times \cup {NoTime}]  BY <1>12, <2>1 DEF RecordAttempt
  <2>4. failed' \in SUBSET Intents
    BY <1>12 DEF RecordAttempt, InHand
  <2> QED
    BY <1>12, <2>2, <2>3, <2>4 DEF RecordAttempt, GoTo, files, Places
<1>17. ASSUME NEW s \in Scopes, SaveIntent(s) PROVE TypeOK' /\ StampInTime'
  <2>1. db' \in [Intents -> DbStates]  BY <1>17 DEF SaveIntent, DbStates
  <2> QED
    BY <1>17, <2>1 DEF SaveIntent, GoTo, files, work, Places, Noting
<1>13. ASSUME NEW s \in Scopes, NEW f \in Files, LoadNotes(s, f) PROVE TypeOK' /\ StampInTime'
  <2>1. SavePlace[f] \in Places  BY NotePlaces DEF Places
  <2> QED  BY <1>13, <2>1, GateAssumption DEF LoadNotes, GoTo, ledger, files
<1>14. ASSUME NEW s \in Scopes, NEW f \in Files, SaveNotes(s, f) PROVE TypeOK' /\ StampInTime'
  <2>1. AfterNote[f] \in Places  BY NotePlaces DEF Places
  <2>2. stamp[s] \in Times
    <3>1. SavePlace[f] # "delay"  BY NotePlaces DEF Noting
    <3> QED  BY <1>14, <3>1 DEF SaveNotes
  <2>3. WithNote(s, f) \in [Intents -> Times \cup {NoTime}]  BY <2>2, NoteType
  <2>4. NoNotes \in [Intents -> Times \cup {NoTime}]  BY DEF NoNotes
  <2>5. /\ noted' \in [Files -> [Intents -> Times \cup {NoTime}]]
        /\ last' \in [Files -> Times \cup {NoTime}]
    BY <1>14, <2>2, <2>3 DEF SaveNotes, files
  <2>6. faults' \in Nat /\ kills' \in Nat /\ kills' + faults' <= MaxMishaps
    BY <1>14, GateAssumption DEF SaveNotes
  <2>7. stamp' \in [Scopes -> 0..(MaxTime + MaxDelay)] /\ StampInTime'
  <3>1. stamp' = [stamp EXCEPT ![s] = 0] /\ pc' = [pc EXCEPT ![s] = AfterNote[f]]
    BY <1>14 DEF SaveNotes, GoTo
  <3> QED  BY <3>1, GateAssumption
  <2> QED
    BY <1>14, <2>1, <2>4, <2>5, <2>6, <2>7 DEF SaveNotes, GoTo, ledger
<1>15. ASSUME NEW s \in Scopes, Release(s) PROVE TypeOK' /\ StampInTime'
    BY <1>15 DEF Release, Leave, GoTo, ledger, files, Places
<1>16. ASSUME NEW s \in Scopes, Kill(s) PROVE TypeOK' /\ StampInTime'
  <2>1. NoNotes \in [Intents -> Times \cup {NoTime}]  BY DEF NoNotes
  <2>2. kills' \in Nat /\ kills' + faults' <= MaxMishaps
    BY <1>16, GateAssumption DEF Kill
  <2>3. Cur(s) \in Intents /\ kills + 1 \in 1..MaxMishaps /\ kills' = kills + 1
    BY <1>16, GateAssumption DEF Kill, InHand
  <2>4. lost' \in SUBSET (Intents \X (1..MaxMishaps)) /\ \A x \in lost' : x[2] <= kills'
    BY <1>16, <2>3 DEF Kill
  <2> QED
    BY <1>16, <2>1, <2>2, <2>4, GateAssumption DEF Kill, FreedByKill, Leave, GoTo, files, Places
<1> QED
    BY <1>1, <1>2, <1>3, <1>4, <1>5, <1>6, <1>7, <1>8, <1>9, <1>10, <1>11, <1>12, <1>13, <1>14,
       <1>15, <1>16, <1>17 DEF Next, Step, InLock

LEMMA HandNext == TypeInv /\ [Next]_vars => InHand'
<1> SUFFICES ASSUME TypeInv, [Next]_vars PROVE InHand'
    OBVIOUS
<1> USE DEF TypeInv, TypeOK
<1>1. ASSUME NEW s \in Scopes, Begin(s) PROVE InHand'
  <2>1. PICK c \in Candles : candle' = [candle EXCEPT ![s] = c] /\ <<s, c>> \in Intents
    BY <1>1 DEF Begin, In
  <2>2. pc' = [pc EXCEPT ![s] = "gate"]  BY <1>1 DEF Begin, GoTo
  <2> QED  BY <2>1, <2>2 DEF InHand, Cur
<1>2. ASSUME candle' = candle, \A s \in Scopes : pc'[s] # "idle" => pc[s] # "idle"
      PROVE  InHand'
    BY <1>2 DEF InHand, Cur
<1>3. ASSUME UNCHANGED vars \/ Tick \/ ToggleHalt \/ \E i \in Intents : Reconcile(i)
      PROVE  InHand'
    BY <1>2, <1>3 DEF vars, work, Tick, ToggleHalt, Reconcile
<1>4. ASSUME NEW s \in Scopes, Gate(s) \/ Protect(s) \/ CountOpen(s) \/ CountUnknown(s) \/ Kill(s)
      PROVE  InHand'
    BY <1>2, <1>4 DEF Gate, Protect, CountOpen, CountUnknown, Kill, Refuse, Expire, Leave, GoTo
<1>5. ASSUME NEW s \in Scopes, TakeLock(s) \/ Send(s) \/ RecordAttempt(s) \/ SaveIntent(s)
                               \/ Release(s)
      PROVE  InHand'
    BY <1>2, <1>5 DEF TakeLock, Send, RecordAttempt, SaveIntent, Release, Leave, GoTo, work
<1>6. ASSUME NEW s \in Scopes, NEW f \in Files, LoadNotes(s, f) \/ SaveNotes(s, f) PROVE InHand'
    BY <1>2, <1>6, NotePlaces DEF LoadNotes, SaveNotes, GoTo
<1> QED
    BY <1>1, <1>3, <1>4, <1>5, <1>6 DEF Next, Step, InLock

\* Every variable of the gates keeps its type.
THEOREM GateTypeCorrect == Spec => []TypeOK
<1>1. TypeInv => TypeOK  BY DEF TypeInv
<1>2. TypeInv /\ [Next]_vars => TypeInv'  BY TypeNext, HandNext DEF TypeInv
<1> QED  BY <1>1, <1>2, TypeInit, PTL DEF Spec

-----------------------------------------------------------------------------
(* The submit lock and the halt.                                           *)

LockInv == Serialized => \A s \in Scopes : pc[s] \in Locked => lock = s

LEMMA LockInit == Init => LockInv
BY DEF Init, LockInv, Locked, Noting

LEMMA LockNext == TypeInv /\ LockInv /\ [Next]_vars => LockInv'
<1> SUFFICES ASSUME TypeInv, LockInv, [Next]_vars PROVE LockInv'
    OBVIOUS
<1> USE GateAssumption DEF TypeInv, TypeOK, LockInv, Locked
<1>1. CASE UNCHANGED vars \/ Tick \/ ToggleHalt \/ \E i \in Intents : Reconcile(i)
    BY <1>1 DEF vars, Tick, ToggleHalt, Reconcile
<1>2. ASSUME NEW s \in Scopes, Begin(s) \/ Gate(s) \/ Protect(s) \/ CountOpen(s) \/ CountUnknown(s)
      PROVE  LockInv'
  <2>1. \A t \in Scopes : pc'[t] \in Locked => pc[t] \in Locked
    BY <1>2 DEF Begin, Gate, Protect, CountOpen, CountUnknown, Refuse, Expire, Leave, GoTo, Noting
  <2>2. lock' = lock  BY <1>2 DEF Begin, Gate, Protect, CountOpen, CountUnknown
  <2> QED  BY <2>1, <2>2
<1>3. ASSUME NEW s \in Scopes, TakeLock(s) PROVE LockInv'
    BY <1>3 DEF TakeLock, GoTo
<1>4. ASSUME NEW s \in Scopes, Send(s) \/ RecordAttempt(s) \/ SaveIntent(s) PROVE LockInv'
    BY <1>4 DEF Send, RecordAttempt, SaveIntent, GoTo, Noting
<1>5. ASSUME NEW s \in Scopes, NEW f \in Files, LoadNotes(s, f) \/ SaveNotes(s, f) PROVE LockInv'
    BY <1>5, NotePlaces DEF LoadNotes, SaveNotes, GoTo
<1>6. ASSUME NEW s \in Scopes, Release(s) \/ Kill(s) PROVE LockInv'
  <2>1. /\ lock' = IF lock = s THEN NoScope ELSE lock
        /\ pc' = [pc EXCEPT ![s] = "idle"]
    BY <1>6 DEF Release, Kill, FreedByKill, Leave, GoTo
  <2> QED  BY <2>1 DEF Noting
<1> QED
    BY <1>1, <1>2, <1>3, <1>4, <1>5, <1>6 DEF Next, Step, InLock

\* One submit of a REAL account at a time: the submit lock is exclusive, and a
\* killed holder lets go of it.
THEOREM OneSubmitAtATime == Spec => []OneInLock
<1>1. LockInv => OneInLock  BY DEF LockInv, OneInLock, At
<1>2. TypeInv /\ [Next]_vars => TypeInv'  BY TypeNext, HandNext DEF TypeInv
<1> QED  BY <1>1, <1>2, TypeInit, LockInit, LockNext, PTL DEF Spec

\* Past the gate a run had not seen the halt.
SawNoHalt == \A s \in Scopes : pc[s] \in Unsent \ {"gate"} => ~sampled[s]
HaltInv == HaltLeavesOne /\ SawNoHalt

LEMMA HaltNext == TypeInv /\ HaltInv /\ [Next]_vars => HaltInv'
<1> SUFFICES ASSUME TypeInv, HaltInv, [Next]_vars PROVE HaltInv'
    OBVIOUS
<1> USE DEF TypeInv, TypeOK, HaltInv, HaltLeavesOne, SawNoHalt, Unsent
<1>1. CASE UNCHANGED vars \/ Tick \/ ToggleHalt \/ \E i \in Intents : Reconcile(i)
    BY <1>1 DEF vars, work, Tick, ToggleHalt, Reconcile
<1>2. ASSUME NEW s \in Scopes, Begin(s) PROVE HaltInv'
    BY <1>2 DEF Begin, HaltSeen, GoTo
<1>3. ASSUME NEW s \in Scopes, Gate(s) PROVE HaltInv'
    BY <1>3 DEF Gate, Refuse, Expire, Leave, GoTo
<1>8. ASSUME UNCHANGED <<halted, spent>>,
             \A t \in Scopes : pc'[t] \in Unsent =>
                /\ pc[t] \in Unsent /\ sampled'[t] = sampled[t]
                /\ pc'[t] = "gate" <=> pc[t] = "gate"
      PROVE  HaltInv'
    BY <1>8
<1>4. ASSUME NEW s \in Scopes, Protect(s) \/ CountOpen(s) \/ CountUnknown(s) PROVE HaltInv'
  <2>1. UNCHANGED <<halted, spent>>  BY <1>4 DEF Protect, CountOpen, CountUnknown
  <2>2. pc[s] \in {"protect", "delay", "count"}  BY <1>4 DEF Protect, CountOpen, CountUnknown
  <2>3. \/ pc' = [pc EXCEPT ![s] = "idle"] /\ sampled' = [sampled EXCEPT ![s] = FALSE]
        \/ \E place \in {"delay", "count", "lock"} :
              pc' = [pc EXCEPT ![s] = place] /\ sampled' = sampled
    BY <1>4 DEF Protect, CountOpen, CountUnknown, Refuse, Leave, GoTo
  <2> QED  BY <2>1, <2>2, <2>3, <1>8
<1>5. ASSUME NEW s \in Scopes, TakeLock(s) \/ Send(s) \/ RecordAttempt(s) \/ SaveIntent(s)
      PROVE  HaltInv'
  <2>1. CASE TakeLock(s)  BY <2>1, <1>8 DEF TakeLock, GoTo, work
  <2>2. CASE Send(s)  BY <2>2 DEF Send, GoTo
  <2>3. CASE RecordAttempt(s)  BY <2>3, <1>8 DEF RecordAttempt, GoTo
  <2>4. CASE SaveIntent(s)  BY <2>4, <1>8 DEF SaveIntent, GoTo, work
  <2> QED  BY <1>5, <2>1, <2>2, <2>3, <2>4
<1>6. ASSUME NEW s \in Scopes, NEW f \in Files, LoadNotes(s, f) \/ SaveNotes(s, f) PROVE HaltInv'
  <2>1. SavePlace[f] \notin Unsent /\ AfterNote[f] \notin Unsent  BY NotePlaces DEF Noting
  <2>2. /\ UNCHANGED <<halted, spent, sampled>>
        /\ \E place \in {SavePlace[f], AfterNote[f]} : pc' = [pc EXCEPT ![s] = place]
    BY <1>6 DEF LoadNotes, SaveNotes, GoTo
  <2> QED  BY <2>1, <2>2, <1>8
<1>7. ASSUME NEW s \in Scopes, Release(s) \/ Kill(s) PROVE HaltInv'
  <2>1. /\ UNCHANGED <<halted, spent>>
        /\ pc' = [pc EXCEPT ![s] = "idle"] /\ sampled' = [sampled EXCEPT ![s] = FALSE]
    BY <1>7 DEF Release, Kill, Leave, GoTo
  <2> QED  BY <2>1, <1>8
<1> QED
    BY <1>1, <1>2, <1>3, <1>4, <1>5, <1>6, <1>7 DEF Next, Step, InLock

\* After the kill switch or drain mode is engaged a scope submits at most once.
THEOREM HaltIsBounded == Spec => []HaltLeavesOne
<1>1. Init => HaltInv  BY DEF Init, HaltInv, HaltLeavesOne, SawNoHalt
<1>2. HaltInv => HaltLeavesOne  BY DEF HaltInv
<1>3. Init => TypeInv  BY TypeInit
<1>4. TypeInv /\ [Next]_vars => TypeInv'  BY TypeNext, HandNext DEF TypeInv
<1> QED  BY <1>1, <1>2, <1>3, <1>4, HaltNext, PTL DEF Spec

-----------------------------------------------------------------------------
(* How far the limits can be exceeded.                                     *)

LEMMA SetsFinite ==
    /\ \A st : IsFiniteSet(In(st)) /\ Cardinality(In(st)) \in Nat
    /\ \A pl : /\ IsFiniteSet(At(pl)) /\ Cardinality(At(pl)) \in Nat
              /\ Cardinality(At(pl)) <= Cardinality(Scopes)
    /\ Cardinality(Scopes) \in Nat
<1>1. ASSUME NEW st PROVE IsFiniteSet(In(st)) /\ Cardinality(In(st)) \in Nat
  <2>1. In(st) \in SUBSET Intents  BY DEF In
  <2> QED  BY <2>1, FS_Subset, FS_CardinalityType, GateAssumption
<1>2. ASSUME NEW pl PROVE /\ IsFiniteSet(At(pl)) /\ Cardinality(At(pl)) \in Nat
                          /\ Cardinality(At(pl)) <= Cardinality(Scopes)
  <2>1. At(pl) \in SUBSET Scopes  BY DEF At
  <2> QED  BY <2>1, FS_Subset, FS_CardinalityType, GateAssumption
<1> QED  BY <1>1, <1>2, FS_CardinalityType, GateAssumption

\* The same of the next state.
LEMMA SetsFiniteNext ==
    /\ \A st : IsFiniteSet(In(st)') /\ Cardinality(In(st)') \in Nat
    /\ \A pl : /\ IsFiniteSet(At(pl)') /\ Cardinality(At(pl)') \in Nat
              /\ Cardinality(At(pl)') <= Cardinality(Scopes)
<1>1. ASSUME NEW st PROVE IsFiniteSet(In(st)') /\ Cardinality(In(st)') \in Nat
  <2>1. In(st)' \in SUBSET Intents  BY DEF In
  <2> QED  BY <2>1, FS_Subset, FS_CardinalityType, GateAssumption
<1>2. ASSUME NEW pl PROVE /\ IsFiniteSet(At(pl)') /\ Cardinality(At(pl)') \in Nat
                          /\ Cardinality(At(pl)') <= Cardinality(Scopes)
  <2>1. At(pl)' \in SUBSET Scopes  BY DEF At
  <2> QED  BY <2>1, FS_Subset, FS_CardinalityType, GateAssumption
<1> QED  BY <1>1, <1>2

LEMMA Smaller ==
    ASSUME NEW A, NEW B, IsFiniteSet(A), B \subseteq A
    PROVE  Cardinality(B) <= Cardinality(A)
BY FS_Subset

LEMMA OneMore ==
    ASSUME NEW A, NEW B, NEW x, IsFiniteSet(A), B \subseteq A \cup {x}
    PROVE  Cardinality(B) <= Cardinality(A) + 1
<1>0. Cardinality(A) \in Nat
    BY FS_CardinalityType
<1>1. IsFiniteSet(A \cup {x}) /\ Cardinality(A \cup {x}) <= Cardinality(A) + 1
  <2>1. /\ IsFiniteSet(A \cup {x})
        /\ Cardinality(A \cup {x}) = IF x \in A THEN Cardinality(A) ELSE Cardinality(A) + 1
    BY FS_AddElement
  <2> QED  BY <2>1, <1>0
<1>2. Cardinality(B) <= Cardinality(A \cup {x}) /\ IsFiniteSet(B)
    BY <1>1, FS_Subset
<1> QED  BY <1>1, <1>2, FS_CardinalityType

LEMMA Together ==
    ASSUME NEW A, NEW B, IsFiniteSet(A), IsFiniteSet(B)
    PROVE  /\ IsFiniteSet(A \cup B)
           /\ Cardinality(A \cup B) <= Cardinality(A) + Cardinality(B)
<1>1. /\ IsFiniteSet(A \cup B)
      /\ Cardinality(A \cup B) = Cardinality(A) + Cardinality(B) - Cardinality(A \cap B)
    BY FS_Union
<1>2. Cardinality(A) \in Nat /\ Cardinality(B) \in Nat /\ Cardinality(A \cap B) \in Nat
    BY FS_Intersection, FS_CardinalityType
<1> QED  BY <1>1, <1>2

LEMMA OneLess ==
    ASSUME NEW A, NEW B, NEW x \in A, IsFiniteSet(A), B \subseteq A \ {x}
    PROVE  Cardinality(B) <= Cardinality(A) - 1
<1>1. IsFiniteSet(A \ {x}) /\ Cardinality(A \ {x}) = Cardinality(A) - 1
    BY FS_RemoveElement, FS_CardinalityType
<1>2. Cardinality(B) <= Cardinality(A \ {x})
    BY <1>1, FS_Subset
<1> QED  BY <1>1, <1>2

\* The submits alive that the ledger lists for their answers.
Listed == In({"open", "unknown"})

LostBound    == IsFiniteSet(lost) /\ Cardinality(lost) <= kills
ClearedBound ==
    Cardinality(In({"unknown"})) + Cardinality(At(Cleared)) <= MaxUnknown - 1 + Cardinality(Scopes)
CountedBound ==
    Cardinality(Listed) + Cardinality(lost) + Cardinality(At(Counted))
        <= MaxOpen + MaxUnknown - 2 + 2 * Cardinality(Scopes) + kills

\* The runs that are past a count have still to be added to what it counted.
LimitInv == LostBound /\ ClearedBound /\ CountedBound

\* A step that adds nothing to what is counted, and nobody past a count.
LEMMA LimitFrame ==
    ASSUME TypeInv, TypeInv', LimitInv, kills' >= kills,
           lost' \subseteq lost, In({"unknown"})' \subseteq In({"unknown"}),
           Listed' \subseteq Listed,
           At(Cleared)' \subseteq At(Cleared), At(Counted)' \subseteq At(Counted)
    PROVE  LimitInv'
<1>1. /\ Cardinality(In({"unknown"})') <= Cardinality(In({"unknown"}))
      /\ Cardinality(Listed') <= Cardinality(Listed)
      /\ Cardinality(At(Cleared)') <= Cardinality(At(Cleared))
      /\ Cardinality(At(Counted)') <= Cardinality(At(Counted))
    BY Smaller, SetsFinite DEF Listed
<1>2. /\ IsFiniteSet(lost') /\ Cardinality(lost') <= Cardinality(lost)
      /\ Cardinality(lost') \in Nat /\ Cardinality(lost) \in Nat
    BY FS_Subset, FS_CardinalityType DEF LimitInv, LostBound
<1>3. /\ Cardinality(Listed) \in Nat /\ Cardinality(Listed') \in Nat
    BY SetsFinite, SetsFiniteNext DEF Listed
<1> QED
    BY <1>1, <1>2, <1>3, SetsFinite, SetsFiniteNext, GateAssumption
    DEF LimitInv, LostBound, ClearedBound, CountedBound, TypeInv, TypeOK

\* The submits cut off are finitely many, since a kill leaves one.
LEMMA LostFinite ==
    ASSUME LimitInv
    PROVE  IsFiniteSet(lost) /\ Cardinality(lost) \in Nat
BY FS_CardinalityType DEF LimitInv, LostBound

LEMMA LimitNext == TypeInv /\ TypeInv' /\ LimitInv /\ [Next]_vars => LimitInv'
<1> SUFFICES ASSUME TypeInv, TypeInv', LimitInv, [Next]_vars PROVE LimitInv'
    OBVIOUS
<1>1. CASE UNCHANGED vars \/ Tick \/ ToggleHalt
  <2>1. UNCHANGED <<db, lost, pc, kills>>  BY <1>1 DEF vars, ledger, Tick, ToggleHalt
  <2> QED  BY <2>1, LimitFrame DEF Listed, In, At, TypeInv, TypeOK
<1>2. ASSUME NEW i \in Intents, Reconcile(i) PROVE LimitInv'
  <2>1. UNCHANGED <<pc, kills>>  BY <1>2 DEF Reconcile
  <2>2. /\ lost' \subseteq lost /\ In({"unknown"})' \subseteq In({"unknown"})
        /\ Listed' \subseteq Listed
    BY <1>2 DEF Reconcile, Listed, In, Lost, TypeInv, TypeOK
  <2> QED  BY <2>1, <2>2, LimitFrame DEF At, TypeInv, TypeOK
<1>3. ASSUME NEW s \in Scopes, Begin(s) \/ Gate(s) \/ Protect(s) PROVE LimitInv'
  <2>1. /\ At(Cleared)' \subseteq At(Cleared) /\ At(Counted)' \subseteq At(Counted)
        /\ kills' = kills
    BY <1>3 DEF Begin, Gate, Protect, Refuse, Expire, Leave, GoTo, At, Cleared, Counted, TypeInv, TypeOK
  <2>2. /\ lost' \subseteq lost /\ In({"unknown"})' \subseteq In({"unknown"})
        /\ Listed' \subseteq Listed
    BY <1>3 DEF Begin, Gate, Protect, Refuse, Expire, Listed, In, TypeInv, TypeOK
  <2> QED  BY <2>1, <2>2, LimitFrame DEF TypeInv, TypeOK
<1>4. ASSUME NEW s \in Scopes, CountOpen(s) PROVE LimitInv'
  <2>1. CASE Refuse(s)
    <3>1. /\ At(Cleared)' \subseteq At(Cleared) /\ At(Counted)' \subseteq At(Counted)
          /\ kills' = kills
      BY <1>4, <2>1 DEF CountOpen, Refuse, Leave, GoTo, At, Cleared, Counted, TypeInv, TypeOK
    <3>2. /\ lost' \subseteq lost /\ In({"unknown"})' \subseteq In({"unknown"})
          /\ Listed' \subseteq Listed
      BY <1>4, <2>1 DEF CountOpen, Refuse, Listed, In, TypeInv, TypeOK
    <3> QED  BY <3>1, <3>2, LimitFrame DEF TypeInv, TypeOK
  <2>2. CASE ~Refuse(s)
    <3>1. /\ Cardinality(In(Open)) < MaxOpen
          /\ pc' = [pc EXCEPT ![s] = "count"] /\ UNCHANGED <<db, lost, kills>>
      BY <1>4, <2>2 DEF CountOpen, GoTo
    <3>2. Listed \subseteq In(Open) \cup In({"unknown"})
      BY DEF Listed, In, Open
    <3>3. Cardinality(Listed) <= Cardinality(In(Open)) + Cardinality(In({"unknown"}))
      <4>1. /\ IsFiniteSet(In(Open) \cup In({"unknown"}))
            /\ Cardinality(In(Open) \cup In({"unknown"}))
                 <= Cardinality(In(Open)) + Cardinality(In({"unknown"}))
        BY SetsFinite, Together
      <4>2. Cardinality(Listed) <= Cardinality(In(Open) \cup In({"unknown"}))
        BY <3>2, <4>1, Smaller
      <4>3. /\ Cardinality(In(Open) \cup In({"unknown"})) \in Nat
            /\ Cardinality(Listed) \in Nat
        BY <4>1, SetsFinite, FS_CardinalityType DEF Listed
      <4> QED  BY <4>1, <4>2, <4>3, SetsFinite
    <3>4. Listed' = Listed /\ In({"unknown"})' = In({"unknown"})
      BY <3>1 DEF Listed, In
    <3>5. At(Cleared)' \subseteq At(Cleared)
      BY <3>1 DEF At, Cleared, TypeInv, TypeOK
    <3>6. Cardinality(At(Cleared)') <= Cardinality(At(Cleared))
      BY <3>5, Smaller, SetsFinite
    <3> QED
      BY <3>1, <3>3, <3>4, <3>6, LostFinite, SetsFinite, SetsFiniteNext, GateAssumption
      DEF LimitInv, LostBound, ClearedBound, CountedBound, TypeInv, TypeOK, Listed
  <2> QED  BY <2>1, <2>2
<1>5. ASSUME NEW s \in Scopes, CountUnknown(s) PROVE LimitInv'
  <2>1. CASE Refuse(s)
    <3>1. /\ At(Cleared)' \subseteq At(Cleared) /\ At(Counted)' \subseteq At(Counted)
          /\ kills' = kills
      BY <1>5, <2>1 DEF CountUnknown, Refuse, Leave, GoTo, At, Cleared, Counted, TypeInv, TypeOK
    <3>2. /\ lost' \subseteq lost /\ In({"unknown"})' \subseteq In({"unknown"})
          /\ Listed' \subseteq Listed
      BY <1>5, <2>1 DEF CountUnknown, Refuse, Listed, In, TypeInv, TypeOK
    <3> QED  BY <3>1, <3>2, LimitFrame DEF TypeInv, TypeOK
  <2>2. CASE ~Refuse(s)
    <3>1. /\ Cardinality(In({"unknown"})) < MaxUnknown /\ pc[s] = "count"
          /\ pc' = [pc EXCEPT ![s] = "lock"] /\ UNCHANGED <<db, lost, kills>>
      BY <1>5, <2>2 DEF CountUnknown, HardeningOpen, GoTo
    <3>2. Listed' = Listed /\ In({"unknown"})' = In({"unknown"})
      BY <3>1 DEF Listed, In
    <3>3. At(Counted)' \subseteq At(Counted)
      BY <3>1 DEF At, Counted, Cleared, TypeInv, TypeOK
    <3>4. Cardinality(At(Counted)') <= Cardinality(At(Counted))
      BY <3>3, Smaller, SetsFinite
    <3> QED
      BY <3>1, <3>2, <3>4, LostFinite, SetsFinite, SetsFiniteNext, GateAssumption
      DEF LimitInv, LostBound, ClearedBound, CountedBound, TypeInv, TypeOK, Listed
  <2> QED  BY <2>1, <2>2
<1>6. ASSUME NEW s \in Scopes, TakeLock(s) \/ Send(s) \/ RecordAttempt(s) PROVE LimitInv'
  <2>1. /\ At(Cleared)' \subseteq At(Cleared) /\ At(Counted)' \subseteq At(Counted)
        /\ UNCHANGED <<db, lost, kills>>
    BY <1>6 DEF TakeLock, Send, RecordAttempt, GoTo, ledger, At, Cleared, Counted, TypeInv, TypeOK
  <2> QED  BY <2>1, LimitFrame DEF Listed, In, TypeInv, TypeOK
<1>7. ASSUME NEW s \in Scopes, SaveIntent(s) PROVE LimitInv'
  <2>1. /\ pc[s] = "save" /\ pc' = [pc EXCEPT ![s] = "loadGuard"] /\ UNCHANGED <<lost, kills>>
        /\ \E st \in Answers : db' = [db EXCEPT ![Cur(s)] = st]
    BY <1>7 DEF SaveIntent, GoTo
  <2>2. /\ In({"unknown"})' \subseteq In({"unknown"}) \cup {Cur(s)}
        /\ Listed' \subseteq Listed \cup {Cur(s)}
    BY <2>1 DEF Listed, In, TypeInv, TypeOK
  <2>3. /\ At(Cleared)' \subseteq At(Cleared) \ {s} /\ At(Counted)' \subseteq At(Counted) \ {s}
        /\ s \in At(Cleared) /\ s \in At(Counted)
    BY <2>1 DEF At, Cleared, Counted, TypeInv, TypeOK
  <2>4. /\ Cardinality(In({"unknown"})') <= Cardinality(In({"unknown"})) + 1
        /\ Cardinality(Listed') <= Cardinality(Listed) + 1
    BY <2>2, OneMore, SetsFinite DEF Listed
  <2>5. /\ Cardinality(At(Cleared)') <= Cardinality(At(Cleared)) - 1
        /\ Cardinality(At(Counted)') <= Cardinality(At(Counted)) - 1
    BY <2>3, OneLess, SetsFinite
  <2> QED
    BY <2>1, <2>4, <2>5, LostFinite, SetsFinite, SetsFiniteNext, GateAssumption
    DEF LimitInv, LostBound, ClearedBound, CountedBound, TypeInv, TypeOK, Listed
<1>8. ASSUME NEW s \in Scopes, NEW f \in Files, LoadNotes(s, f) \/ SaveNotes(s, f) PROVE LimitInv'
  <2>1. SavePlace[f] \notin Counted /\ AfterNote[f] \notin Counted
    BY NotePlaces DEF Noting, Counted, Cleared
  <2>2. UNCHANGED <<db, lost, kills>> /\ \E place \in {SavePlace[f], AfterNote[f]} : pc' = [pc EXCEPT ![s] = place]
    BY <1>8 DEF LoadNotes, SaveNotes, GoTo, ledger
  <2>3. At(Cleared)' \subseteq At(Cleared) /\ At(Counted)' \subseteq At(Counted)
    BY <2>1, <2>2 DEF At, Cleared, Counted, TypeInv, TypeOK
  <2> QED  BY <2>2, <2>3, LimitFrame DEF Listed, In, TypeInv, TypeOK
<1>9. ASSUME NEW s \in Scopes, Release(s) \/ Kill(s) PROVE LimitInv'
  <2>1. pc' = [pc EXCEPT ![s] = "idle"] /\ UNCHANGED db
    BY <1>9 DEF Release, Kill, Leave, GoTo, ledger
  <2>2. At(Cleared)' \subseteq At(Cleared) /\ At(Counted)' \subseteq At(Counted)
    BY <2>1 DEF At, Cleared, Counted, TypeInv, TypeOK
  <2>3. Listed' = Listed /\ In({"unknown"})' = In({"unknown"})  BY <2>1 DEF Listed, In
  <2>4. CASE UNCHANGED lost
    <3>1. kills' >= kills  BY <1>9 DEF Release, Kill, TypeInv, TypeOK
    <3> QED  BY <2>2, <2>3, <2>4, <3>1, LimitFrame
  <2>5. CASE kills' = kills + 1 /\ lost' = lost \cup {<<Cur(s), kills + 1>>}
    <3>1. /\ IsFiniteSet(lost') /\ Cardinality(lost') \in Nat
          /\ Cardinality(lost') <= Cardinality(lost) + 1
      BY <2>5, LostFinite, OneMore, FS_AddElement, FS_CardinalityType
    <3>2. /\ Cardinality(At(Cleared)') <= Cardinality(At(Cleared))
          /\ Cardinality(At(Counted)') <= Cardinality(At(Counted))
      BY <2>2, Smaller, SetsFinite
    <3> QED
      BY <2>3, <2>5, <3>1, <3>2, LostFinite, SetsFinite, SetsFiniteNext, GateAssumption
      DEF LimitInv, LostBound, ClearedBound, CountedBound, TypeInv, TypeOK, Listed
  <2> QED  BY <1>9, <2>4, <2>5 DEF Release, Kill, ledger
<1> QED
    BY <1>1, <1>2, <1>3, <1>4, <1>5, <1>6, <1>7, <1>8, <1>9 DEF Next, Step, InLock

LEMMA LimitInit == Init => LimitInv
<1> SUFFICES ASSUME Init PROVE LimitInv
    OBVIOUS
<1>1. lost = {} /\ In({"unknown"}) = {} /\ Listed = {}
    BY DEF Init, Listed, In
<1>2. At(Cleared) = {} /\ At(Counted) = {}
    BY DEF Init, At, Cleared, Counted
<1>3. kills = 0 /\ IsFiniteSet({}) /\ Cardinality({}) = 0  BY FS_EmptySet DEF Init
<1>4. /\ IsFiniteSet(lost) /\ Cardinality(lost) = 0
      /\ Cardinality(In({"unknown"})) = 0 /\ Cardinality(Listed) = 0
      /\ Cardinality(At(Cleared)) = 0 /\ Cardinality(At(Counted)) = 0
    BY <1>1, <1>2, <1>3
<1> QED
    BY <1>3, <1>4, SetsFinite, GateAssumption DEF LimitInv, LostBound, ClearedBound, CountedBound

LEMMA LimitAlways == Spec => [](TypeInv /\ LimitInv)
<1>1. Init => TypeInv /\ LimitInv  BY TypeInit, LimitInit
<1>2. TypeInv /\ LimitInv /\ [Next]_vars => (TypeInv /\ LimitInv)'
    BY TypeNext, HandNext, LimitNext DEF TypeInv
<1> QED  BY <1>1, <1>2, PTL DEF Spec

\* max_pending_unknown_total is exceeded by at most the number of scopes less one.
THEOREM UnknownIsBounded == Spec => []UnknownBound
<1>1. LimitInv => UnknownBound
    BY SetsFinite, GateAssumption DEF LimitInv, ClearedBound, UnknownBound
<1> QED  BY <1>1, LimitAlways, PTL

\* All submits of the account that may be alive, unknown ones and those of killed
\* runs included, each time a signal was sent, against the limits as they are read.
THEOREM ExposureIsBounded == Spec => []ExposureBound
<1>1. TypeInv /\ LimitInv => ExposureBound
    BY LostFinite, SetsFinite, GateAssumption
    DEF LimitInv, CountedBound, ExposureBound, Exposure, Listed, TypeInv, TypeOK
<1> QED  BY <1>1, LimitAlways, PTL

-----------------------------------------------------------------------------
(* The notes.                                                              *)

\* Under the submit lock nobody writes a file between a load and a save.
NoteInv ==
    /\ \A f \in Files : \A i \in Intents : noted[f][i] <= now
    /\ \A s \in Scopes, f \in Files :
          pc[s] = SavePlace[f] =>
             /\ stamp[s] <= now
             /\ \A i \in Intents : copy[s][i] <= stamp[s]
             /\ Serialized => copy[s] = noted[f]

LEMMA PlacesDiffer ==
    \A f, g \in Files :
        /\ SavePlace[f] \in Locked /\ AfterNote[f] # SavePlace[f]
        /\ LoadPlace[f] # SavePlace[g] /\ AfterNote[f] # SavePlace[g]
        /\ SavePlace[f] = SavePlace[g] => f = g
<1> SUFFICES ASSUME NEW f \in Files, NEW g \in Files
             PROVE  /\ SavePlace[f] \in Locked /\ AfterNote[f] # SavePlace[f]
                    /\ LoadPlace[f] # SavePlace[g] /\ AfterNote[f] # SavePlace[g]
                    /\ SavePlace[f] = SavePlace[g] => f = g
    OBVIOUS
<1> USE DEF LoadPlace, SavePlace, AfterNote, Noting, Locked
<1>1. CASE f = "guard" /\ g = "guard"  BY <1>1
<1>2. CASE f = "guard" /\ g = "protection"  BY <1>2
<1>3. CASE f = "protection" /\ g = "guard"  BY <1>3
<1>4. CASE f = "protection" /\ g = "protection"  BY <1>4
<1> QED  BY <1>1, <1>2, <1>3, <1>4 DEF Files

LEMMA NoteInit == Init => NoteInv
<1> SUFFICES ASSUME Init PROVE NoteInv
    OBVIOUS
<1>1. \A f \in Files : \A i \in Intents : noted[f][i] = NoTime
    BY DEF Init, NoNotes
<1>2. \A s \in Scopes, f \in Files : pc[s] # SavePlace[f]
    BY NotePlaces DEF Init
<1>3. now >= NoTime  BY DEF Init, NoTime
<1> QED  BY <1>1, <1>2, <1>3 DEF NoteInv

LEMMA NoteNext == TypeInv /\ LockInv /\ NoteInv /\ [Next]_vars => NoteInv'
<1> SUFFICES ASSUME TypeInv, LockInv, NoteInv, [Next]_vars PROVE NoteInv'
    OBVIOUS
<1> USE DEF TypeInv, TypeOK, NoteInv
<1>0. ASSUME UNCHANGED noted, now' >= now,
             \A t \in Scopes, g \in Files :
                pc'[t] = SavePlace[g] =>
                   pc[t] = SavePlace[g] /\ copy'[t] = copy[t] /\ stamp'[t] = stamp[t]
      PROVE  NoteInv'
  <2>1. now \in Int /\ now' \in Int
    BY TypeNext, GateAssumption DEF Times
  <2>2. \A f \in Files : \A i \in Intents : noted[f][i] \in Int
    BY DEF Times, NoTime
  <2>3. \A t \in Scopes : stamp[t] \in Int
    BY GateAssumption
  <2> QED  BY <1>0, <2>1, <2>2, <2>3
<1>1. CASE UNCHANGED vars \/ ToggleHalt \/ Tick \/ \E i \in Intents : Reconcile(i)
  <2>1. UNCHANGED <<noted, pc, copy, stamp>> /\ now' >= now
    BY <1>1, GateAssumption DEF vars, files, work, ToggleHalt, Tick, Reconcile, Times
  <2> QED  BY <2>1, <1>0
<1>2. ASSUME NEW s \in Scopes, Begin(s) \/ Gate(s) \/ Protect(s) \/ CountOpen(s) \/ CountUnknown(s)
                               \/ TakeLock(s) \/ Send(s) \/ RecordAttempt(s) \/ SaveIntent(s)
      PROVE  NoteInv'
  <2>1. /\ UNCHANGED <<noted, now, copy>>
        /\ \E place \in Places \ {"saveGuard", "saveProtection"} : pc' = [pc EXCEPT ![s] = place]
        /\ \A t \in Scopes : t # s => stamp'[t] = stamp[t]
    BY <1>2 DEF Begin, Gate, Protect, CountOpen, CountUnknown, TakeLock, Send, RecordAttempt,
                SaveIntent, Refuse, Expire, Leave, GoTo, files, work, Places, Unsent, Noting
  <2>2. \A g \in Files : SavePlace[g] \in {"saveGuard", "saveProtection"}
    BY DEF Files, SavePlace
  <2>3. now' >= now  BY <2>1, GateAssumption DEF Times
  <2> QED  BY <2>1, <2>2, <2>3, <1>0
<1>3. ASSUME NEW s \in Scopes, Release(s) \/ Kill(s) PROVE NoteInv'
  <2>1. /\ UNCHANGED <<noted, now>> /\ pc' = [pc EXCEPT ![s] = "idle"]
        /\ \A t \in Scopes : t # s => stamp'[t] = stamp[t] /\ copy'[t] = copy[t]
    BY <1>3 DEF Release, Kill, Leave, GoTo, files
  <2>2. now' >= now  BY <2>1, GateAssumption DEF Times
  <2> QED  BY <2>1, <2>2, <1>0, NotePlaces
<1>4. ASSUME NEW s \in Scopes, NEW f \in Files, LoadNotes(s, f) PROVE NoteInv'
  <2>1. /\ UNCHANGED <<noted, now>> /\ pc' = [pc EXCEPT ![s] = SavePlace[f]]
        /\ stamp' = [stamp EXCEPT ![s] = now] /\ copy' = [copy EXCEPT ![s] = noted[f]]
    BY <1>4 DEF LoadNotes, GoTo, files
  <2>2. ASSUME NEW t \in Scopes, NEW g \in Files, pc'[t] = SavePlace[g]
        PROVE  /\ stamp'[t] <= now'
               /\ \A i \in Intents : copy'[t][i] <= stamp'[t]
               /\ Serialized => copy'[t] = noted'[g]
    <3>1. CASE t = s
      <4>1. f = g  BY <2>1, <2>2, <3>1, PlacesDiffer
      <4> QED  BY <2>1, <3>1, <4>1, GateAssumption DEF Times
    <3>2. CASE t # s  BY <2>1, <2>2, <3>2
    <3> QED  BY <3>1, <3>2
  <2> QED  BY <2>1, <2>2
<1>5. ASSUME NEW s \in Scopes, NEW f \in Files, SaveNotes(s, f) PROVE NoteInv'
  <2>1. /\ UNCHANGED now /\ pc[s] = SavePlace[f] /\ pc' = [pc EXCEPT ![s] = AfterNote[f]]
        /\ stamp' = [stamp EXCEPT ![s] = 0] /\ copy' = [copy EXCEPT ![s] = NoNotes]
        /\ \/ noted' = [noted EXCEPT ![f] = WithNote(s, f)]
           \/ noted' = noted
    BY <1>5 DEF SaveNotes, GoTo, files
  <2>2. \A i \in Intents : WithNote(s, f)[i] <= now
    <3>1. stamp[s] <= now /\ \A i \in Intents : copy[s][i] <= stamp[s]
      BY <2>1
    <3>2. now \in Int /\ now >= NoTime /\ stamp[s] \in Int
      BY GateAssumption DEF Times, NoTime
    <3>3. \A i \in Intents : copy[s][i] \in Int  BY DEF Times, NoTime
    <3> QED  BY <3>1, <3>2, <3>3 DEF WithNote
  <2>3. \A g \in Files : \A i \in Intents : noted'[g][i] <= now'
    BY <2>1, <2>2
  <2>4. ASSUME NEW t \in Scopes, NEW g \in Files, pc'[t] = SavePlace[g]
        PROVE  /\ stamp'[t] <= now'
               /\ \A i \in Intents : copy'[t][i] <= stamp'[t]
               /\ Serialized => copy'[t] = noted'[g]
    <3>1. t # s /\ pc[t] = SavePlace[g]
      BY <2>1, <2>4, PlacesDiffer
    <3>2. ~Serialized
      BY <2>1, <3>1, PlacesDiffer DEF LockInv
    <3> QED  BY <2>1, <3>1, <3>2
  <2> QED  BY <2>3, <2>4
<1> QED
    BY <1>1, <1>2, <1>3, <1>4, <1>5 DEF Next, Step, InLock

\* No submit is lost from the guards' files while it counts: whoever saves a
\* file has read it under the lock.
THEOREM NotesAreKept == Spec => KeepsNotes
<1> DEFINE Kept == Serialized => \A f \in Files : \A i \in Recent(noted[f], KeepFor(f)) :
                      noted'[f][i] >= noted[f][i] \/ now' - noted[f][i] > KeepFor(f)
<1>1. TypeInv /\ LockInv /\ NoteInv /\ [Next]_vars => [Kept]_vars
  <2> SUFFICES ASSUME TypeInv, LockInv, NoteInv, Next, Serialized,
                      NEW f \in Files, NEW i \in Recent(noted[f], KeepFor(f))
               PROVE  noted'[f][i] >= noted[f][i] \/ now' - noted[f][i] > KeepFor(f)
    OBVIOUS
  <2>1. /\ i \in Intents /\ noted[f][i] \in Int /\ now - noted[f][i] <= KeepFor(f)
        /\ KeepFor(f) \in Int
    BY GateAssumption DEF Recent, TypeInv, TypeOK, Times, NoTime, KeepFor
  <2>2. CASE noted' = noted  BY <2>1, <2>2
  <2>3. ASSUME NEW s \in Scopes, NEW g \in Files, SaveNotes(s, g), noted' # noted
        PROVE  noted'[f][i] >= noted[f][i]
    <3>1. /\ pc[s] = SavePlace[g] /\ noted' = [noted EXCEPT ![g] = WithNote(s, g)]
      BY <2>3 DEF SaveNotes, files
    <3>2. CASE f # g  BY <2>1, <3>1, <3>2 DEF TypeInv, TypeOK
    <3>3. CASE f = g
      <4>1. /\ copy[s] = noted[f] /\ stamp[s] <= now /\ copy[s][i] <= stamp[s]
        BY <2>1, <3>1, <3>3 DEF NoteInv
      <4>2. now \in Int /\ stamp[s] \in Int
        BY GateAssumption DEF TypeInv, TypeOK, Times
      <4>3. WithNote(s, f)[i] \in {stamp[s], noted[f][i]}
        BY <2>1, <4>1, <4>2, <3>3 DEF WithNote
      <4>4. noted'[f] = WithNote(s, f)
        BY <3>1, <3>3 DEF TypeInv, TypeOK
      <4> QED  BY <2>1, <4>1, <4>2, <4>3, <4>4
    <3> QED  BY <3>2, <3>3
  <2>4. noted' = noted \/ \E s \in Scopes, g \in Files : SaveNotes(s, g)
    BY DEF Next, Step, InLock, Tick, ToggleHalt, Reconcile, Begin, Gate, Protect, CountOpen, CountUnknown,
           TakeLock, Send, RecordAttempt, SaveIntent, LoadNotes, Release, Kill, files, work
  <2> QED  BY <2>2, <2>3, <2>4
<1>2. TypeInv /\ [Next]_vars => TypeInv'  BY TypeNext, HandNext DEF TypeInv
<1>3. Spec => [][Kept]_vars
    BY <1>1, <1>2, TypeInit, LockInit, NoteInit, LockNext, NoteNext, PTL DEF Spec
<1> QED  BY <1>3 DEF KeepsNotes

-----------------------------------------------------------------------------
(* The rate.                                                               *)

\* Places between the recorded attempt and the guard's note, and between the guard
\* and the recorded attempt.
Owing  == {"save", "loadGuard", "saveGuard"}
Passed == {"protect", "delay", "count", "lock", "submit", "wire"}

\* The attempts that count against max_submit_per_minute, those whose run is
\* about to note them, and those the guard's file will never know.
Rated  == Recent(asked, RateWindow)
Held   == {i \in Intents : \E s \in At(Owing) : i = Cur(s)}
Missed == {i \in Rated : noted["guard"][i] < asked[i] /\ i \notin Held}

\* An attempt is not older than the note of it.
AskInv ==
    /\ \A i \in Intents : asked[i] <= now
    /\ \A s \in Scopes : /\ pc[s] = "wire" => stamp[s] <= now
                         /\ pc[s] = "saveGuard" => asked[Cur(s)] <= stamp[s]

\* Only a kill or a failed write loses a note.
MissBound == Serialized => Cardinality(Missed) <= kills + faults

\* Whoever passed the guard counts as an attempt already.
RateBound ==
    Serialized => Cardinality(Rated) + Cardinality(At(Passed))
                     <= RateCap - 1 + Cardinality(Scopes) + kills + faults

LEMMA AskNext == TypeInv /\ NoteInv /\ AskInv /\ [Next]_vars => AskInv'
<1> SUFFICES ASSUME TypeInv, NoteInv, AskInv, [Next]_vars PROVE AskInv'
    OBVIOUS
<1> USE DEF TypeInv, TypeOK, AskInv
<1>0. /\ now \in Int /\ \A i \in Intents : asked[i] \in Int
      /\ \A s \in Scopes : stamp[s] \in Int
    BY GateAssumption DEF Times, NoTime
<1>1. ASSUME UNCHANGED asked, now' \in Int, now' >= now,
             \A t \in Scopes :
                /\ pc'[t] = "wire" => pc[t] = "wire" /\ stamp'[t] = stamp[t]
                /\ pc'[t] = "saveGuard" =>
                      pc[t] = "saveGuard" /\ stamp'[t] = stamp[t] /\ candle'[t] = candle[t]
      PROVE  AskInv'
  <2>1. \A i \in Intents : asked'[i] <= now'
    BY <1>0, <1>1
  <2>2. ASSUME NEW t \in Scopes
        PROVE  /\ pc'[t] = "wire" => stamp'[t] <= now'
               /\ pc'[t] = "saveGuard" => asked'[Cur(t)'] <= stamp'[t]
    <3>1. pc'[t] = "saveGuard" => Cur(t)' = Cur(t)  BY <1>1 DEF Cur
    <3> QED  BY <1>0, <1>1, <3>1
  <2> QED  BY <2>1, <2>2
<1>2. CASE UNCHANGED vars \/ ToggleHalt \/ Tick \/ \E i \in Intents : Reconcile(i)
  <2>1. UNCHANGED <<asked, pc, candle, stamp>> /\ now' \in Int /\ now' >= now
    BY <1>2, <1>0 DEF vars, ledger, work, ToggleHalt, Tick, Reconcile
  <2> QED  BY <2>1, <1>1
<1>3. ASSUME NEW s \in Scopes, Begin(s) \/ Gate(s) \/ Protect(s) \/ CountOpen(s) \/ CountUnknown(s)
                               \/ TakeLock(s) \/ SaveIntent(s)
      PROVE  AskInv'
  <2>1. /\ UNCHANGED <<asked, now>>
        /\ \E place \in Places \ {"wire", "saveGuard"} : pc' = [pc EXCEPT ![s] = place]
        /\ \A t \in Scopes : t # s => stamp'[t] = stamp[t] /\ candle'[t] = candle[t]
    BY <1>3 DEF Begin, Gate, Protect, CountOpen, CountUnknown, TakeLock, SaveIntent, Refuse, Expire,
                Leave, GoTo, ledger, work, Places, Unsent, Noting
  <2> QED  BY <2>1, <1>0, <1>1
<1>4. ASSUME NEW s \in Scopes, Send(s) PROVE AskInv'
  <2>1. /\ UNCHANGED <<asked, now, candle>> /\ pc' = [pc EXCEPT ![s] = "wire"]
        /\ stamp' = [stamp EXCEPT ![s] = now]
    BY <1>4 DEF Send, GoTo, ledger
  <2> QED  BY <2>1, <1>0 DEF Cur
<1>5. ASSUME NEW s \in Scopes, RecordAttempt(s) PROVE AskInv'
  <2>1. /\ UNCHANGED <<now, candle>> /\ pc[s] = "wire" /\ pc' = [pc EXCEPT ![s] = "save"]
        /\ stamp' = [stamp EXCEPT ![s] = 0] /\ asked' = [asked EXCEPT ![Cur(s)] = stamp[s]]
    BY <1>5 DEF RecordAttempt, GoTo
  <2>2. \A t \in Scopes : t # s => Cur(t) # Cur(s)
    BY DEF Cur
  <2>3. \A i \in Intents : asked'[i] <= now'
    BY <2>1, <1>0
  <2>4. ASSUME NEW t \in Scopes, t # s
        PROVE  /\ pc'[t] = "wire" => stamp'[t] <= now'
               /\ pc'[t] = "saveGuard" => asked'[Cur(t)'] <= stamp'[t]
    <3>1. /\ pc'[t] = pc[t] /\ stamp'[t] = stamp[t] /\ Cur(t)' = Cur(t)
          /\ asked'[Cur(t)] = asked[Cur(t)] \/ pc[t] = "idle"
      BY <2>1, <2>2, <2>4 DEF Cur, InHand
    <3> QED  BY <2>1, <3>1, <1>0
  <2>5. pc'[s] = "save"  BY <2>1
  <2> QED  BY <2>3, <2>4, <2>5
<1>6. ASSUME NEW s \in Scopes, NEW f \in Files, LoadNotes(s, f) PROVE AskInv'
  <2>1. /\ UNCHANGED <<asked, now, candle>> /\ pc[s] # "idle" /\ pc' = [pc EXCEPT ![s] = SavePlace[f]]
        /\ stamp' = [stamp EXCEPT ![s] = now] /\ SavePlace[f] # "wire"
    BY <1>6, NotePlaces DEF LoadNotes, GoTo, ledger, Noting
  <2>2. Cur(s) \in Intents  BY <2>1 DEF InHand
  <2> QED  BY <2>1, <2>2, <1>0 DEF Cur
<1>7. ASSUME NEW s \in Scopes, NEW f \in Files, SaveNotes(s, f) PROVE AskInv'
  <2>1. /\ UNCHANGED <<asked, now, candle>> /\ pc' = [pc EXCEPT ![s] = AfterNote[f]]
        /\ stamp' = [stamp EXCEPT ![s] = 0]
        /\ AfterNote[f] # "wire" /\ AfterNote[f] # SavePlace["guard"]
    BY <1>7, NotePlaces, PlacesDiffer DEF SaveNotes, GoTo, ledger, Noting, Files
  <2>2. AfterNote[f] # "saveGuard"  BY <2>1 DEF SavePlace
  <2> QED  BY <2>1, <2>2, <1>0, <1>1
<1>8. ASSUME NEW s \in Scopes, Release(s) \/ Kill(s) PROVE AskInv'
  <2>1. /\ UNCHANGED <<asked, now, candle>> /\ pc' = [pc EXCEPT ![s] = "idle"]
        /\ \A t \in Scopes : t # s => stamp'[t] = stamp[t]
    BY <1>8 DEF Release, Kill, Leave, GoTo, ledger
  <2> QED  BY <2>1, <1>0, <1>1
<1> QED
    BY <1>2, <1>3, <1>4, <1>5, <1>6, <1>7, <1>8 DEF Next, Step, InLock

LEMMA RatedFinite ==
    /\ IsFiniteSet(Rated) /\ Cardinality(Rated) \in Nat
    /\ IsFiniteSet(Missed) /\ Cardinality(Missed) \in Nat
    /\ IsFiniteSet(Rated') /\ Cardinality(Rated') \in Nat
    /\ IsFiniteSet(Missed') /\ Cardinality(Missed') \in Nat
<1>1. /\ Rated \in SUBSET Intents /\ Missed \in SUBSET Intents
      /\ Rated' \in SUBSET Intents /\ Missed' \in SUBSET Intents
    BY DEF Rated, Missed, Recent
<1> QED  BY <1>1, FS_Subset, FS_CardinalityType, GateAssumption

\* What an intent must be to be recent, in numbers.
LEMMA InRated ==
    ASSUME TypeInv
    PROVE  \A i \in Intents :
              /\ i \in Rated <=> asked[i] # NoTime /\ now - asked[i] <= RateWindow
              /\ asked[i] \in Int /\ (asked[i] # NoTime => asked[i] >= 0)
              /\ noted["guard"][i] \in Int
BY GateAssumption DEF TypeInv, TypeOK, Rated, Recent, Times, NoTime, Files

\* A step that neither asks nor writes the guard's file misses a note only when
\* its process leaves the places of the note.
LEMMA MissedFrame ==
    ASSUME TypeInv, TypeInv', UNCHANGED <<asked, noted>>, now' >= now,
           NEW s \in Scopes, \A t \in Scopes \ {s} : pc'[t] = pc[t] /\ candle'[t] = candle[t]
    PROVE  /\ Missed' \subseteq Missed \cup {Cur(s)}
           /\ (pc[s] \in Owing => pc'[s] \in Owing /\ candle'[s] = candle[s]) => Missed' \subseteq Missed
<1>1. Rated' \subseteq Rated
  <2> SUFFICES ASSUME NEW i \in Rated' PROVE i \in Rated
    OBVIOUS
  <2>1. i \in Intents /\ asked'[i] # NoTime /\ now' - asked'[i] <= RateWindow
    BY DEF Rated, Recent
  <2>2. now \in Int /\ now' \in Int /\ RateWindow \in Int
    BY GateAssumption DEF TypeInv, TypeOK, Times
  <2> QED  BY <2>1, <2>2, InRated
<1>2. ASSUME NEW i \in Missed', i \notin Missed
      PROVE  /\ pc[s] \in Owing /\ i = Cur(s)
             /\ ~(pc'[s] \in Owing /\ candle'[s] = candle[s])
  <2>1. i \in Rated /\ noted["guard"][i] < asked[i] /\ i \notin Held' /\ i \in Intents
    BY <1>1, <1>2 DEF Missed, Rated, Recent
  <2>2. PICK t \in At(Owing) : i = Cur(t)
    BY <1>2, <2>1 DEF Missed, Held
  <2>3. t = s
    <3>1. CASE t # s
      <4>1. t \in At(Owing)' /\ Cur(t)' = Cur(t)
        BY <2>2, <3>1 DEF At, Cur
      <4> QED  BY <2>1, <2>2, <4>1 DEF Held
    <3> QED  BY <3>1
  <2>4. ASSUME pc'[s] \in Owing, candle'[s] = candle[s] PROVE FALSE
    <3>1. s \in At(Owing)' /\ Cur(s)' = Cur(s)
      BY <2>4 DEF At, Cur
    <3> QED  BY <2>1, <2>2, <2>3, <3>1 DEF Held
  <2> QED  BY <2>2, <2>3, <2>4 DEF At
<1> QED  BY <1>2

\* A recorded attempt is among those held, and no other changes.
LEMMA MissedByRecord ==
    ASSUME TypeInv, NEW s \in Scopes, RecordAttempt(s)
    PROVE  Missed' \subseteq Missed
<1>1. /\ UNCHANGED <<now, candle, noted>> /\ pc[s] = "wire" /\ pc' = [pc EXCEPT ![s] = "save"]
      /\ asked' = [asked EXCEPT ![Cur(s)] = stamp[s]]
    BY DEF RecordAttempt, GoTo, files
<1>2. pc \in [Scopes -> Places] /\ asked \in [Intents -> Times \cup {NoTime}]
    BY DEF TypeInv, TypeOK
<1>3. s \in At(Owing)' /\ Cur(s)' = Cur(s) /\ At(Owing) \subseteq At(Owing)'
    BY <1>1, <1>2 DEF At, Owing, Cur
<1>4. ASSUME NEW i \in Missed' PROVE i \in Missed
  <2>1. i \in Rated' /\ noted'["guard"][i] < asked'[i] /\ i \notin Held' /\ i \in Intents
    BY DEF Missed, Rated, Recent
  <2>2. i # Cur(s)
    BY <1>3, <2>1 DEF Held
  <2>3. asked'[i] = asked[i] /\ noted' = noted /\ now' = now
    BY <1>1, <1>2, <2>2, <2>1
  <2>4. i \in Rated /\ noted["guard"][i] < asked[i]
    BY <2>1, <2>3 DEF Rated, Recent
  <2>5. i \notin Held
    BY <1>1, <1>3, <2>1 DEF Held, Cur
  <2> QED  BY <2>4, <2>5 DEF Missed
<1> QED  BY <1>4

\* A note that is written misses nothing: its own attempt is in the list, and
\* what it dropped or what was older already is not missed by it.
LEMMA MissedBySave ==
    ASSUME TypeInv, NoteInv, AskInv, Serialized, NEW s \in Scopes,
           pc[s] = "saveGuard", noted' = [noted EXCEPT !["guard"] = WithNote(s, "guard")],
           UNCHANGED <<asked, now, candle>>, \A t \in Scopes \ {s} : pc'[t] = pc[t]
    PROVE  Missed' \subseteq Missed
<1>1. /\ stamp[s] <= now /\ copy[s] = noted["guard"] /\ asked[Cur(s)] <= stamp[s]
      /\ Cur(s) \in Intents
    BY DEF NoteInv, AskInv, SavePlace, Files, TypeInv, InHand
<1>2. now \in Int /\ stamp[s] \in Int /\ RateWindow \in Int
    BY GateAssumption DEF TypeInv, TypeOK, Times
<1>3. noted'["guard"] = WithNote(s, "guard")
    BY DEF TypeInv, TypeOK, Files
<1> SUFFICES ASSUME NEW i \in Missed' PROVE i \in Missed
    OBVIOUS
<1>4. /\ i \in Intents /\ i \in Rated /\ WithNote(s, "guard")[i] < asked[i] /\ i \notin Held'
    BY <1>3 DEF Missed, Rated, Recent
<1>5. /\ asked[i] \in Int /\ asked[i] >= 0 /\ now - asked[i] <= RateWindow
      /\ noted["guard"][i] \in Int
    BY <1>4, InRated
<1>6. i # Cur(s)
    BY <1>1, <1>2, <1>4, <1>5 DEF WithNote
<1>7. i \notin Held
  <2> SUFFICES ASSUME NEW t \in At(Owing), i = Cur(t) PROVE FALSE
    BY DEF Held
  <2>1. t \in At(Owing)' /\ Cur(t)' = Cur(t)
    BY <1>6 DEF At, Cur
  <2> QED  BY <1>4, <2>1 DEF Held
<1>8. noted["guard"][i] < asked[i]
  <2>1. CASE stamp[s] - noted["guard"][i] <= RateWindow
    BY <1>1, <1>4, <1>6, <2>1 DEF WithNote, KeepFor
  <2>2. CASE ~(stamp[s] - noted["guard"][i] <= RateWindow)
    BY <1>1, <1>2, <1>5, <2>2
  <2> QED  BY <2>1, <2>2
<1> QED  BY <1>4, <1>7, <1>8 DEF Missed

LEMMA MissNext ==
    TypeInv /\ TypeInv' /\ NoteInv /\ AskInv /\ MissBound /\ [Next]_vars => MissBound'
<1> SUFFICES ASSUME TypeInv, TypeInv', NoteInv, AskInv, MissBound, [Next]_vars, Serialized
             PROVE  Cardinality(Missed') <= kills' + faults'
    BY DEF MissBound
<1>0. /\ now \in Int /\ kills \in Int /\ faults \in Int /\ now' \in Int
      /\ Cardinality(Missed) <= kills + faults
      /\ pc \in [Scopes -> Places]
    BY GateAssumption DEF TypeInv, TypeOK, Times, MissBound
<1>1. ASSUME Missed' \subseteq Missed, UNCHANGED <<kills, faults>>
      PROVE  Cardinality(Missed') <= kills' + faults'
  <2>1. Cardinality(Missed') <= Cardinality(Missed)  BY <1>1, RatedFinite, Smaller
  <2>2. Cardinality(Missed') \in Int /\ Cardinality(Missed) \in Int  BY RatedFinite
  <2>3. Cardinality(Missed') <= kills + faults  BY <1>0, <2>1, <2>2
  <2> QED  BY <1>0, <1>1, <2>2, <2>3
<1>2. ASSUME NEW x, Missed' \subseteq Missed \cup {x}, kills' + faults' = kills + faults + 1
      PROVE  Cardinality(Missed') <= kills' + faults'
  <2>1. Cardinality(Missed') <= Cardinality(Missed) + 1  BY <1>2, RatedFinite, OneMore
  <2> QED  BY <1>0, <1>2, <2>1, RatedFinite
<1>3. CASE UNCHANGED vars \/ ToggleHalt \/ Tick \/ \E i \in Intents : Reconcile(i)
  <2>1. /\ UNCHANGED <<asked, noted, pc, candle, kills, faults>> /\ now' >= now
    BY <1>0, <1>3 DEF vars, ledger, files, work, ToggleHalt, Tick, Reconcile
  <2>2. Held' = Held  BY <2>1 DEF Held, At, Cur
  <2>3. Rated' \subseteq Rated
    <3> SUFFICES ASSUME NEW i \in Rated' PROVE i \in Rated
      OBVIOUS
    <3>1. i \in Intents /\ asked[i] # NoTime /\ now' - asked[i] <= RateWindow
      BY <2>1 DEF Rated, Recent
    <3>2. RateWindow \in Int  BY GateAssumption
    <3> QED  BY <1>0, <2>1, <3>1, <3>2, InRated
  <2>4. Missed' \subseteq Missed  BY <2>1, <2>2, <2>3 DEF Missed
  <2> QED  BY <1>0, <1>1, <2>1, <2>4
<1>4. ASSUME NEW s \in Scopes, Begin(s) \/ Gate(s) \/ Protect(s) \/ CountOpen(s) \/ CountUnknown(s)
                               \/ TakeLock(s) \/ Send(s) \/ Release(s)
      PROVE  Cardinality(Missed') <= kills' + faults'
  <2>1. /\ UNCHANGED <<asked, noted, now, kills, faults>> /\ pc[s] \notin Owing
    BY <1>4 DEF Begin, Gate, Protect, CountOpen, CountUnknown, TakeLock, Send, Release, ledger, files, Owing
  <2>2. \A t \in Scopes \ {s} : pc'[t] = pc[t] /\ candle'[t] = candle[t]
    <3>1. CASE Begin(s)  BY <1>0, <3>1 DEF Begin, GoTo, TypeInv, TypeOK
    <3>2. CASE Gate(s)  BY <1>0, <3>2 DEF Gate, Refuse, Expire, Leave, GoTo
    <3>3. CASE Protect(s) \/ CountOpen(s) \/ CountUnknown(s)
      BY <1>0, <3>3 DEF Protect, CountOpen, CountUnknown, Refuse, Leave, GoTo
    <3>4. CASE TakeLock(s) \/ Send(s) \/ Release(s)
      BY <1>0, <3>4 DEF TakeLock, Send, Release, Leave, GoTo, work
    <3> QED  BY <1>4, <3>1, <3>2, <3>3, <3>4
  <2>3. Missed' \subseteq Missed  BY <1>0, <2>1, <2>2, MissedFrame
  <2> QED  BY <1>0, <1>1, <2>1, <2>3
<1>5. ASSUME NEW s \in Scopes, RecordAttempt(s) PROVE Cardinality(Missed') <= kills' + faults'
  <2>1. Missed' \subseteq Missed  BY <1>5, MissedByRecord
  <2>2. UNCHANGED <<kills, faults>>  BY <1>5 DEF RecordAttempt
  <2> QED  BY <1>0, <1>1, <2>1, <2>2
<1>9. ASSUME NEW s \in Scopes, SaveIntent(s) PROVE Cardinality(Missed') <= kills' + faults'
  <2>1. /\ UNCHANGED <<asked, noted, now, candle, kills, faults>>
        /\ pc' = [pc EXCEPT ![s] = "loadGuard"]
    BY <1>9 DEF SaveIntent, GoTo, files, work
  <2>2. pc'[s] \in Owing  BY <1>0, <2>1 DEF Owing
  <2>3. Missed' \subseteq Missed  BY <1>0, <2>1, <2>2, MissedFrame
  <2> QED  BY <1>0, <1>1, <2>1, <2>3
<1>6. ASSUME NEW s \in Scopes, NEW f \in Files, LoadNotes(s, f)
      PROVE  Cardinality(Missed') <= kills' + faults'
  <2>1. /\ UNCHANGED <<asked, noted, now, candle, kills, faults>>
        /\ pc[s] = LoadPlace[f] /\ pc' = [pc EXCEPT ![s] = SavePlace[f]]
    BY <1>6 DEF LoadNotes, GoTo, ledger, files
  <2>2. LoadPlace[f] \in Owing => SavePlace[f] \in Owing
    BY DEF Files, LoadPlace, SavePlace, Owing
  <2>3. Missed' \subseteq Missed  BY <1>0, <2>1, <2>2, MissedFrame
  <2> QED  BY <1>0, <1>1, <2>1, <2>3
<1>7. ASSUME NEW s \in Scopes, NEW f \in Files, SaveNotes(s, f)
      PROVE  Cardinality(Missed') <= kills' + faults'
  <2>1. /\ UNCHANGED <<asked, now, candle, kills>>
        /\ pc[s] = SavePlace[f] /\ pc' = [pc EXCEPT ![s] = AfterNote[f]]
        /\ \/ noted' = [noted EXCEPT ![f] = WithNote(s, f)] /\ faults' = faults
           \/ noted' = noted /\ faults' = faults + 1
    BY <1>7 DEF SaveNotes, GoTo, ledger, files
  <2>2. CASE noted' = noted /\ faults' = faults + 1
    <3>1. Missed' \subseteq Missed \cup {Cur(s)}  BY <1>0, <2>1, <2>2, MissedFrame
    <3>2. kills' + faults' = kills + faults + 1  BY <1>0, <2>1, <2>2
    <3> QED  BY <1>2, <3>1, <3>2
  <2>3. CASE f = "guard" /\ noted' = [noted EXCEPT ![f] = WithNote(s, f)] /\ faults' = faults
    <3>1. pc[s] = "saveGuard"  BY <2>1, <2>3 DEF SavePlace
    <3>2. Missed' \subseteq Missed  BY <1>0, <2>1, <2>3, <3>1, MissedBySave
    <3> QED  BY <1>0, <1>1, <2>1, <2>3, <3>2
  <2>4. CASE f = "protection" /\ noted' = [noted EXCEPT ![f] = WithNote(s, f)] /\ faults' = faults
    <3>1. noted'["guard"] = noted["guard"] /\ pc[s] \notin Owing /\ AfterNote[f] \notin Owing
      BY <2>1, <2>4 DEF SavePlace, AfterNote, Owing, TypeInv, TypeOK, Files
    <3>2. Held' = Held
      BY <1>0, <2>1, <3>1 DEF Held, At, Cur
    <3>3. Missed' \subseteq Missed
      BY <2>1, <3>1, <3>2 DEF Missed, Rated, Recent
    <3> QED  BY <1>0, <1>1, <2>1, <2>4, <3>3
  <2> QED  BY <2>1, <2>2, <2>3, <2>4 DEF Files
<1>8. ASSUME NEW s \in Scopes, Kill(s) PROVE Cardinality(Missed') <= kills' + faults'
  <2>1. /\ UNCHANGED <<asked, noted, now, candle, faults>> /\ kills' = kills + 1
        /\ \A t \in Scopes \ {s} : pc'[t] = pc[t]
    BY <1>0, <1>8 DEF Kill, Leave, GoTo, files
  <2>2. Missed' \subseteq Missed \cup {Cur(s)}  BY <1>0, <2>1, MissedFrame
  <2> QED  BY <1>0, <1>2, <2>1, <2>2
<1> QED
    BY <1>3, <1>4, <1>5, <1>6, <1>7, <1>8, <1>9 DEF Next, Step, InLock

\* Under the lock at most one attempt waits for its note.
LEMMA OneHeld ==
    ASSUME TypeInv, LockInv, Serialized
    PROVE  IsFiniteSet(Held) /\ Cardinality(Held) <= Cardinality(At(Owing))
<1>1. \A s, t \in At(Owing) : s = t
    BY DEF At, Owing, LockInv, Locked, Noting
<1>2. CASE At(Owing) = {}
  <2>1. Held = {}  BY <1>2 DEF Held
  <2> QED  BY <1>2, <2>1, FS_EmptySet
<1>3. CASE At(Owing) # {}
  <2>1. PICK s : s \in At(Owing)  BY <1>3
  <2>2. At(Owing) = {s}  BY <1>1, <2>1
  <2>3. s \in Scopes /\ Cur(s) \in Intents
    BY <2>1 DEF At, Owing, TypeInv, InHand
  <2>4. Held = {Cur(s)}
    BY <2>2, <2>3 DEF Held
  <2>5. Cardinality(Held) = 1 /\ Cardinality(At(Owing)) = 1 /\ IsFiniteSet(Held)
    BY <2>2, <2>4, FS_Singleton
  <2> QED  BY <2>5
<1> QED  BY <1>2, <1>3

\* What counts is in the guard's file, waits for its note or is missed.
LEMMA RatedCovered ==
    ASSUME TypeInv, LockInv, Serialized
    PROVE  Cardinality(Rated) <=
              Cardinality(Recent(noted["guard"], RateWindow)) + Cardinality(At(Owing)) + Cardinality(Missed)
<1> DEFINE Known == Recent(noted["guard"], RateWindow)
<1>1. Rated \subseteq (Known \cup Held) \cup Missed
  <2> SUFFICES ASSUME NEW i \in Rated, i \notin Missed, i \notin Held PROVE i \in Known
    OBVIOUS
  <2>1. i \in Intents  BY DEF Rated, Recent
  <2>2. /\ asked[i] \in Int /\ asked[i] >= 0 /\ now - asked[i] <= RateWindow
        /\ noted["guard"][i] \in Int
    BY <2>1, InRated
  <2>3. noted["guard"][i] >= asked[i]
    BY <2>1, <2>2 DEF Missed
  <2>4. now \in Int /\ RateWindow \in Int
    BY GateAssumption DEF TypeInv, TypeOK, Times
  <2>5. noted["guard"][i] # NoTime /\ now - noted["guard"][i] <= RateWindow
    BY <2>2, <2>3, <2>4 DEF NoTime
  <2> QED  BY <2>1, <2>5 DEF Recent
<1>2. IsFiniteSet(Known)
  <2>1. Known \in SUBSET Intents  BY DEF Recent
  <2> QED  BY <2>1, FS_Subset, GateAssumption
<1>3. IsFiniteSet(Held) /\ Cardinality(Held) <= Cardinality(At(Owing))
    BY OneHeld
<1>4. /\ IsFiniteSet(Known \cup Held)
      /\ Cardinality(Known \cup Held) <= Cardinality(Known) + Cardinality(Held)
    BY <1>2, <1>3, Together
<1>5. /\ IsFiniteSet((Known \cup Held) \cup Missed)
      /\ Cardinality((Known \cup Held) \cup Missed) <= Cardinality(Known \cup Held) + Cardinality(Missed)
    BY <1>4, RatedFinite, Together
<1>6. Cardinality(Rated) <= Cardinality((Known \cup Held) \cup Missed)
    BY <1>1, <1>5, Smaller
<1>7. /\ Cardinality(Known) \in Nat /\ Cardinality(Held) \in Nat
      /\ Cardinality(Known \cup Held) \in Nat /\ Cardinality((Known \cup Held) \cup Missed) \in Nat
    BY <1>2, <1>3, <1>4, <1>5, FS_CardinalityType
<1> HIDE DEF Known
<1>8. Cardinality(Rated) <= Cardinality(Known) + Cardinality(At(Owing)) + Cardinality(Missed)
    BY <1>3, <1>4, <1>5, <1>6, <1>7, RatedFinite, SetsFinite
<1> QED  BY <1>8 DEF Known

LEMMA RateNext ==
    TypeInv /\ LockInv /\ MissBound /\ RateBound /\ [Next]_vars => RateBound'
<1> SUFFICES ASSUME TypeInv, LockInv, MissBound, RateBound, [Next]_vars, Serialized
             PROVE  Cardinality(Rated') + Cardinality(At(Passed)')
                       <= RateCap - 1 + Cardinality(Scopes) + kills' + faults'
    BY DEF RateBound
<1>0. /\ now \in Int /\ kills \in Int /\ faults \in Int /\ RateCap \in Int /\ RateWindow \in Int
      /\ Cardinality(Rated) + Cardinality(At(Passed))
            <= RateCap - 1 + Cardinality(Scopes) + kills + faults
      /\ pc \in [Scopes -> Places]
    BY GateAssumption DEF TypeInv, TypeOK, Times, RateBound
<1>1. ASSUME Rated' \subseteq Rated, At(Passed)' \subseteq At(Passed),
             kills' \in Int, faults' \in Int, kills' >= kills, faults' >= faults
      PROVE  Cardinality(Rated') + Cardinality(At(Passed)')
                <= RateCap - 1 + Cardinality(Scopes) + kills' + faults'
  <2>1. /\ Cardinality(Rated') <= Cardinality(Rated)
        /\ Cardinality(At(Passed)') <= Cardinality(At(Passed))
    BY <1>1, RatedFinite, SetsFinite, Smaller
  <2>2. /\ Cardinality(Rated') \in Int /\ Cardinality(Rated) \in Int
        /\ Cardinality(At(Passed)') \in Int /\ Cardinality(At(Passed)) \in Int
        /\ Cardinality(Scopes) \in Int
    BY RatedFinite, SetsFinite, SetsFiniteNext
  <2> QED  BY <1>0, <1>1, <2>1, <2>2
<1>2. CASE UNCHANGED vars \/ ToggleHalt \/ Tick \/ \E i \in Intents : Reconcile(i)
  <2>1. UNCHANGED <<asked, pc, kills, faults>> /\ now' \in Int /\ now' >= now
    BY <1>0, <1>2 DEF vars, ledger, ToggleHalt, Tick, Reconcile
  <2>2. ASSUME NEW i \in Rated' PROVE i \in Rated
    <3>1. i \in Intents /\ asked[i] # NoTime /\ now' - asked[i] <= RateWindow
      BY <2>1, <2>2 DEF Rated, Recent
    <3> QED  BY <1>0, <2>1, <3>1, InRated
  <2>3. At(Passed)' = At(Passed)  BY <2>1 DEF At
  <2> QED  BY <1>0, <1>1, <2>1, <2>2, <2>3
<1>3. ASSUME NEW s \in Scopes, Gate(s), pc'[s] \in Passed
      PROVE  Cardinality(Rated') + Cardinality(At(Passed)')
                <= RateCap - 1 + Cardinality(Scopes) + kills' + faults'
  <2>1. /\ GuardOpen /\ pc' = [pc EXCEPT ![s] = "protect"] /\ pc[s] = "gate"
        /\ UNCHANGED <<asked, now, kills, faults>>
    BY <1>0, <1>3 DEF Gate, Refuse, Expire, Leave, GoTo, Passed
  <2>2. Cardinality(Recent(noted["guard"], RateWindow)) <= RateCap - 1
    <3>1. Recent(noted["guard"], RateWindow) \in SUBSET Intents  BY DEF Recent
    <3>2. Cardinality(Recent(noted["guard"], RateWindow)) \in Nat
      BY <3>1, FS_Subset, FS_CardinalityType, GateAssumption
    <3> QED  BY <1>0, <2>1, <3>2 DEF GuardOpen
  <2>3. Rated' = Rated  BY <2>1 DEF Rated, Recent
  <2>4. Cardinality(At(Passed)') + Cardinality(At(Owing)) <= Cardinality(Scopes)
    <3>1. At(Passed)' \cap At(Owing) = {} /\ At(Passed)' \cup At(Owing) \subseteq Scopes
      BY <1>0, <2>1 DEF At, Passed, Owing
    <3>2. /\ IsFiniteSet(At(Passed)' \cup At(Owing))
          /\ Cardinality(At(Passed)' \cup At(Owing))
                = Cardinality(At(Passed)') + Cardinality(At(Owing)) - Cardinality(At(Passed)' \cap At(Owing))
      BY SetsFinite, SetsFiniteNext, FS_Union
    <3>3. Cardinality(At(Passed)' \cup At(Owing)) <= Cardinality(Scopes)
      BY <3>1, Smaller, GateAssumption
    <3>4. Cardinality(At(Passed)' \cap At(Owing)) = 0  BY <3>1, FS_EmptySet
    <3> QED  BY <3>2, <3>3, <3>4, SetsFinite, SetsFiniteNext
  <2>5. Cardinality(Rated) <=
           Cardinality(Recent(noted["guard"], RateWindow)) + Cardinality(At(Owing)) + Cardinality(Missed)
    BY RatedCovered
  <2>6. Cardinality(Missed) <= kills + faults  BY DEF MissBound
  <2>7. Cardinality(Recent(noted["guard"], RateWindow)) \in Int
    <3>1. Recent(noted["guard"], RateWindow) \in SUBSET Intents  BY DEF Recent
    <3> QED  BY <3>1, FS_Subset, FS_CardinalityType, GateAssumption
  <2>8. /\ Cardinality(Rated) \in Int /\ Cardinality(Missed) \in Int
        /\ Cardinality(At(Passed)') \in Int /\ Cardinality(At(Owing)) \in Int
        /\ Cardinality(Scopes) \in Int
    BY RatedFinite, SetsFinite, SetsFiniteNext
  <2>9. Cardinality(Rated) <= RateCap - 1 + Cardinality(At(Owing)) + kills + faults
    BY <1>0, <2>2, <2>5, <2>6, <2>7, <2>8
  <2>10. Cardinality(Rated) + Cardinality(At(Passed)')
            <= RateCap - 1 + Cardinality(Scopes) + kills + faults
    BY <1>0, <2>4, <2>8, <2>9
  <2> QED  BY <2>1, <2>3, <2>10
<1>4. ASSUME NEW s \in Scopes, Gate(s), pc'[s] \notin Passed
      PROVE  Rated' \subseteq Rated /\ At(Passed)' \subseteq At(Passed) /\ UNCHANGED <<kills, faults>>
  <2>1. UNCHANGED <<asked, now, kills, faults>> /\ \A t \in Scopes \ {s} : pc'[t] = pc[t]
    BY <1>0, <1>4 DEF Gate, Refuse, Expire, Leave, GoTo
  <2> QED  BY <1>4, <2>1 DEF Rated, Recent, At
<1>5. ASSUME NEW s \in Scopes, Begin(s) \/ Protect(s) \/ CountOpen(s) \/ CountUnknown(s)
                               \/ TakeLock(s) \/ Send(s) \/ SaveIntent(s)
      PROVE  Rated' \subseteq Rated /\ At(Passed)' \subseteq At(Passed) /\ UNCHANGED <<kills, faults>>
  <2>1. UNCHANGED <<asked, now, kills, faults>>
    BY <1>5 DEF Begin, Protect, CountOpen, CountUnknown, TakeLock, Send, SaveIntent, ledger
  <2>2. At(Passed)' \subseteq At(Passed)
    BY <1>0, <1>5
    DEF Begin, Protect, CountOpen, CountUnknown, TakeLock, Send, SaveIntent, Refuse, Leave, GoTo, At, Passed
  <2> QED  BY <2>1, <2>2 DEF Rated, Recent
<1>6. ASSUME NEW s \in Scopes, RecordAttempt(s)
      PROVE  Cardinality(Rated') + Cardinality(At(Passed)')
                <= RateCap - 1 + Cardinality(Scopes) + kills' + faults'
  <2>1. /\ UNCHANGED <<now, kills, faults>> /\ pc[s] = "wire" /\ pc' = [pc EXCEPT ![s] = "save"]
        /\ asked' = [asked EXCEPT ![Cur(s)] = stamp[s]]
    BY <1>6 DEF RecordAttempt, GoTo
  <2>2. Rated' \subseteq Rated \cup {Cur(s)}
    BY <2>1 DEF Rated, Recent, TypeInv, TypeOK
  <2>3. s \in At(Passed) /\ At(Passed)' \subseteq At(Passed) \ {s}
    BY <1>0, <2>1 DEF At, Passed
  <2>4. /\ Cardinality(Rated') <= Cardinality(Rated) + 1
        /\ Cardinality(At(Passed)') <= Cardinality(At(Passed)) - 1
    BY <2>2, <2>3, RatedFinite, SetsFinite, OneMore, OneLess
  <2>5. /\ Cardinality(Rated') \in Int /\ Cardinality(Rated) \in Int
        /\ Cardinality(At(Passed)') \in Int /\ Cardinality(At(Passed)) \in Int
        /\ Cardinality(Scopes) \in Int
    BY RatedFinite, SetsFinite, SetsFiniteNext
  <2> QED  BY <1>0, <2>1, <2>4, <2>5
<1>7. ASSUME NEW s \in Scopes, NEW f \in Files, LoadNotes(s, f) \/ SaveNotes(s, f)
      PROVE  /\ Rated' \subseteq Rated /\ At(Passed)' \subseteq At(Passed)
             /\ kills' = kills /\ faults' \in {faults, faults + 1}
  <2>1. /\ UNCHANGED <<asked, now, kills>> /\ faults' \in {faults, faults + 1}
        /\ \E place \in {SavePlace[f], AfterNote[f]} : pc' = [pc EXCEPT ![s] = place]
    BY <1>7 DEF LoadNotes, SaveNotes, GoTo, ledger
  <2>2. SavePlace[f] \notin Passed /\ AfterNote[f] \notin Passed
    BY NotePlaces DEF Noting, Passed
  <2>3. At(Passed)' \subseteq At(Passed)  BY <1>0, <2>1, <2>2 DEF At
  <2> QED  BY <2>1, <2>3 DEF Rated, Recent
<1>8. ASSUME NEW s \in Scopes, Release(s) \/ Kill(s)
      PROVE  /\ Rated' \subseteq Rated /\ At(Passed)' \subseteq At(Passed)
             /\ faults' = faults /\ kills' \in {kills, kills + 1}
  <2>1. /\ UNCHANGED <<asked, now, faults>> /\ kills' \in {kills, kills + 1}
        /\ pc' = [pc EXCEPT ![s] = "idle"]
    BY <1>8 DEF Release, Kill, Leave, GoTo, ledger
  <2>2. At(Passed)' \subseteq At(Passed)  BY <1>0, <2>1 DEF At, Passed
  <2> QED  BY <2>1, <2>2 DEF Rated, Recent
<1>9. ASSUME NEW s \in Scopes, Begin(s) \/ Step(s) \/ Kill(s)
      PROVE  Cardinality(Rated') + Cardinality(At(Passed)')
                <= RateCap - 1 + Cardinality(Scopes) + kills' + faults'
    BY <1>0, <1>1, <1>3, <1>4, <1>5, <1>6, <1>7, <1>8, <1>9 DEF Step, InLock
<1> QED  BY <1>2, <1>9 DEF Next

LEMMA RateInit == Init => AskInv /\ MissBound /\ RateBound
<1> SUFFICES ASSUME Init PROVE AskInv /\ MissBound /\ RateBound
    OBVIOUS
<1>1. now = 0 /\ (\A i \in Intents : asked[i] = NoTime) /\ \A s \in Scopes : pc[s] = "idle"
    BY DEF Init, NoNotes
<1>2. AskInv  BY <1>1 DEF AskInv, NoTime
<1>3. Rated = {} /\ Missed = {} /\ At(Passed) = {}
    BY <1>1 DEF Rated, Missed, Recent, At, Passed
<1>4. Cardinality(Rated) = 0 /\ Cardinality(Missed) = 0 /\ Cardinality(At(Passed)) = 0
    BY <1>3, FS_EmptySet
<1>5. kills = 0 /\ faults = 0  BY DEF Init
<1> QED  BY <1>2, <1>4, <1>5, SetsFinite, GateAssumption DEF MissBound, RateBound

\* max_submit_per_minute is exceeded by no more than the scopes that passed the
\* broker guard before the others' submits were noted, and the notes lost to a
\* kill or a failed write.
THEOREM RateIsBounded == Spec => []SubmitRate
<1> DEFINE RInv == TypeInv /\ LockInv /\ NoteInv /\ AskInv /\ MissBound /\ RateBound
<1>1. Init => RInv
    BY TypeInit, LockInit, NoteInit, RateInit
<1>2. RInv /\ [Next]_vars => RInv'
  <2>1. TypeInv /\ [Next]_vars => TypeInv'  BY TypeNext, HandNext DEF TypeInv
  <2> QED  BY <2>1, LockNext, NoteNext, AskNext, MissNext, RateNext
<1>3. RInv => SubmitRate
  <2> SUFFICES ASSUME TypeInv, RateBound, Serialized
               PROVE  Cardinality(Rated) <= RateCap - 1 + Cardinality(Scopes) + kills + faults
    BY DEF SubmitRate, Rated
  <2>1. /\ Cardinality(Rated) \in Nat /\ Cardinality(At(Passed)) \in Nat /\ Cardinality(Scopes) \in Nat
        /\ kills \in Nat /\ faults \in Nat /\ RateCap \in Nat
    BY RatedFinite, SetsFinite, GateAssumption DEF TypeInv, TypeOK
  <2> QED  BY <2>1 DEF RateBound
<1> QED  BY <1>1, <1>2, <1>3, PTL DEF Spec
=============================================================================
