--------------------------- MODULE LockFileProofs ---------------------------
(***************************************************************************)
(* The lock excludes as long as attempts to take it do not overlap: for    *)
(* any number of processes, kills, failing calls and recycled pids.        *)
(***************************************************************************)
EXTENDS LockFile, TLAPS

USE DEF vars, counts, GoTo, Fault, NoFault

LEMMA LockInitType == Init => TypeOK
BY LockAssumption DEF Init, TypeOK, Places, Gone

\* Every step keeps every variable's type.
LEMMA LockStepType == TypeOK /\ [Next]_vars => TypeOK'
<1> SUFFICES ASSUME TypeOK, [Next]_vars PROVE TypeOK'
  OBVIOUS
<1> USE DEF TypeOK, Places, Gone, Contending, Holding
<1>1. CASE UNCHANGED vars
  BY <1>1
<1>2. ASSUME NEW p \in Pids, Start(p) PROVE TypeOK'
  BY <1>2 DEF Start
<1>3. ASSUME NEW p \in Pids, Create(p) PROVE TypeOK'
  BY <1>3 DEF Create, NewFile
<1>4. ASSUME NEW p \in Pids, ReadOwner(p) PROVE TypeOK'
  BY <1>4 DEF ReadOwner, PidIn
<1>5. ASSUME NEW p \in Pids, CheckOwner(p) PROVE TypeOK'
  BY <1>5 DEF CheckOwner
<1>6. ASSUME NEW p \in Pids, UnlinkStale(p) PROVE TypeOK'
  BY <1>6, LockAssumption DEF UnlinkStale
<1>7. ASSUME NEW p \in Pids, Recreate(p) PROVE TypeOK'
  BY <1>7 DEF Recreate, NewFile
<1>8. ASSUME NEW p \in Pids, WriteOwner(p) PROVE TypeOK'
  BY <1>8, LockAssumption DEF WriteOwner
<1>9. ASSUME NEW p \in Pids, BeginRefresh(p) PROVE TypeOK'
  BY <1>9 DEF BeginRefresh
<1>10. ASSUME NEW p \in Pids, Truncate(p) PROVE TypeOK'
  BY <1>10 DEF Truncate
<1>11. ASSUME NEW p \in Pids, Rewrite(p) PROVE TypeOK'
  BY <1>11, LockAssumption DEF Rewrite
<1>12. ASSUME NEW p \in Pids, Release(p) PROVE TypeOK'
  BY <1>12, LockAssumption DEF Release
<1>13. ASSUME NEW p \in Pids, Kill(p) PROVE TypeOK'
  BY <1>13, LockAssumption DEF Kill
<1>14. ASSUME NEW p \in Pids, Recycle(p) PROVE TypeOK'
  BY <1>14, LockAssumption DEF Recycle
<1> QED
  BY <1>1, <1>2, <1>3, <1>4, <1>5, <1>6, <1>7, <1>8, <1>9, <1>10, <1>11, <1>12,
     <1>13, <1>14 DEF Next, Acquire

\* Every variable keeps its type.
THEOREM LockTypeCorrect == Spec => []TypeOK
<1> QED
  BY LockInitType, LockStepType, PTL DEF Spec

-----------------------------------------------------------------------------
LEMMA SerialInit == Init => SerialInv
BY DEF Init, SerialInv, Exclusive, Holders, Contending, Holding

\* One process at a time tries for the lock; then whoever holds it keeps its
\* file, and nobody removes a file that somebody holds.
LEMMA SerialStep ==
    ASSUME Overlap = FALSE, TypeOK, SerialInv, [Next]_vars
    PROVE  SerialInv'
<1> USE DEF SerialInv, Exclusive, Holders, OwnFile, PidIn, TypeOK, Contending, Holding
<1>1. CASE UNCHANGED vars
  BY <1>1
<1>2. ASSUME NEW p \in Pids, Start(p) PROVE SerialInv'
  BY <1>2 DEF Start, Fresh, Gone
<1>3. ASSUME NEW p \in Pids, Create(p) PROVE SerialInv'
  BY <1>3, LockAssumption DEF Create, NewFile, Unused
<1>4. ASSUME NEW p \in Pids, ReadOwner(p) PROVE SerialInv'
  BY <1>4 DEF ReadOwner
<1>5. ASSUME NEW p \in Pids, CheckOwner(p) PROVE SerialInv'
  BY <1>5 DEF CheckOwner, Stale, Running, Gone
<1>6. ASSUME NEW p \in Pids, UnlinkStale(p) PROVE SerialInv'
  BY <1>6 DEF UnlinkStale
<1>7. ASSUME NEW p \in Pids, Recreate(p) PROVE SerialInv'
  BY <1>7, LockAssumption DEF Recreate, NewFile, Unused
<1>8. ASSUME NEW p \in Pids, WriteOwner(p) PROVE SerialInv'
  BY <1>8 DEF WriteOwner
<1>9. ASSUME NEW p \in Pids, BeginRefresh(p) PROVE SerialInv'
  BY <1>9 DEF BeginRefresh
<1>10. ASSUME NEW p \in Pids, Truncate(p) PROVE SerialInv'
  BY <1>10, LockAssumption DEF Truncate
<1>11. ASSUME NEW p \in Pids, Rewrite(p) PROVE SerialInv'
  BY <1>11 DEF Rewrite
<1>12. ASSUME NEW p \in Pids, Release(p) PROVE SerialInv'
  BY <1>12 DEF Release
<1>13. ASSUME NEW p \in Pids, Kill(p) PROVE SerialInv'
  BY <1>13 DEF Kill
<1>14. ASSUME NEW p \in Pids, Recycle(p) PROVE SerialInv'
  BY <1>14 DEF Recycle, Gone
<1> QED
  BY <1>1, <1>2, <1>3, <1>4, <1>5, <1>6, <1>7, <1>8, <1>9, <1>10, <1>11, <1>12,
     <1>13, <1>14 DEF Next, Acquire

\* When attempts do not overlap, two runs never hold the lock together, kills,
\* stale takeovers, failing calls and recycled pids notwithstanding.
THEOREM ExclusiveWhenSerial ==
    ASSUME Overlap = FALSE
    PROVE  Spec => []Exclusive
<1>1. TypeOK /\ SerialInv /\ [Next]_vars => (TypeOK /\ SerialInv)'
  BY SerialStep, LockStepType
<1>2. SerialInv => Exclusive
  BY DEF SerialInv
<1> QED
  BY <1>1, <1>2, LockInitType, SerialInit, PTL DEF Spec
=============================================================================
