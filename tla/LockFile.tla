------------------------------ MODULE LockFile ------------------------------
(***************************************************************************)
(* The lock file of a scope's daemon and of the portfolio loop             *)
(* (ops/lockfile.py), one file-system call per step.                       *)
(*                                                                         *)
(* A process is one run of the program and is named by its pid.  The file  *)
(* at the lock's path is an inode; a process that has it open writes to    *)
(* that inode even after the path was unlinked.  All that is read of the   *)
(* contents is the pid; an empty or torn file has none.                    *)
(***************************************************************************)
EXTENDS Integers, FiniteSets

CONSTANTS
    Pids,       \* processes that use the lock
    Inodes,     \* files the path may stand for
    NoFile, NoPid,
    Overlap,    \* a process may try for the lock while another one does
    MaxKills,   \* bound on kills
    MaxFaults,  \* bound on failing unlinks and writes
    MaxAliens   \* bound on pids the system gives to an unrelated program

ASSUME LockAssumption ==
    /\ NoFile \notin Inodes /\ NoPid \notin Pids
    /\ Overlap \in BOOLEAN
    /\ MaxKills \in Nat /\ MaxFaults \in Nat /\ MaxAliens \in Nat

VARIABLES
    file,    \* the inode the path stands for
    text,    \* the pid each inode names
    pc,      \* where each process stands
    fd,      \* the inode it has open for writing
    seen,    \* the pid it read from a lock it found taken
    kills, faults, aliens

vars == <<file, text, pc, fd, seen, kills, faults, aliens>>
counts == <<kills, faults, aliens>>

\* "alien" is a pid that now belongs to another program.
Gone       == {"out", "dead"}
Contending == {"create", "read", "check", "unlink", "recreate", "write"}
Holding    == {"held", "refresh", "rewrite"}
Places     == Gone \cup Contending \cup Holding \cup {"alien"}

Running(p) == pc[p] \notin Gone
Holders    == {p \in Pids : pc[p] \in Holding}

\* Faulty variant: a file that has vanished is read all the same.
PidInMissing == IF file = NoFile THEN NoFile ELSE text[file]

\* _parse_lock_payload: a missing or unreadable file names nobody.
PidIn == IF file = NoFile THEN NoPid ELSE text[file]

\* Faulty variants: a file without a pid is as good as stale; or no process is
\* ever found to be gone.
StaleUnreadable(pid) == pid \in Pids => ~Running(pid)
StaleNever(pid) == FALSE

\* Only a lock that names a process no longer running is taken over.
Stale(pid) == pid # NoPid /\ ~Running(pid)

GoTo(p, place) == pc' = [pc EXCEPT ![p] = place]

-----------------------------------------------------------------------------
Init ==
    /\ file = NoFile
    /\ text = [n \in Inodes |-> NoPid]
    /\ pc = [p \in Pids |-> "out"]
    /\ fd = [p \in Pids |-> NoFile]
    /\ seen = [p \in Pids |-> NoPid]
    /\ kills = 0 /\ faults = 0 /\ aliens = 0

\* A new process has a pid that neither the file nor another process remembers: one
\* that finds its own pid in a stale file is refused (_pid_is_running of itself is true).
Fresh(p) ==
    /\ pc[p] \in Gone
    /\ PidIn # p
    /\ \A q \in Pids : seen[q] # p

Start(p) ==
    /\ Fresh(p)
    /\ Overlap \/ \A q \in Pids : pc[q] \notin Contending
    /\ GoTo(p, "create")
    /\ UNCHANGED <<file, text, fd, seen, counts>>

\* An inode with no name and no open descriptor.
Unused(n) == n # file /\ \A q \in Pids : fd[q] # n

\* open(O_CREAT) of a path with no file behind it: a new, empty one.
NewFile(p) ==
    \E n \in Inodes :
        /\ Unused(n)
        /\ file' = n
        /\ text' = [text EXCEPT ![n] = NoPid]
        /\ fd' = [fd EXCEPT ![p] = n]

\* _try_create for the first time: O_EXCL makes the empty file or finds one.
Create(p) ==
    /\ pc[p] = "create"
    /\ \/ file = NoFile /\ NewFile(p) /\ GoTo(p, "write")
       \/ file # NoFile /\ GoTo(p, "read") /\ UNCHANGED <<file, text, fd>>
    /\ UNCHANGED <<seen, counts>>

ReadOwner(p) ==
    /\ pc[p] = "read"
    /\ seen' = [seen EXCEPT ![p] = PidIn]
    /\ GoTo(p, "check")
    /\ UNCHANGED <<file, text, fd, counts>>

\* _pid_is_running on the pid read: refuse, or go on to remove the file.
CheckOwner(p) ==
    /\ pc[p] = "check"
    /\ seen' = [seen EXCEPT ![p] = NoPid]
    /\ \/ ~Stale(seen[p]) /\ GoTo(p, "out")
       \/ Stale(seen[p]) /\ GoTo(p, "unlink")
    /\ UNCHANGED <<file, text, fd, counts>>

\* A call the system may fail, which the code survives.
Fault == faults < MaxFaults /\ faults' = faults + 1
NoFault == UNCHANGED faults

\* The takeover removes whatever file has the path by now.
UnlinkStale(p) ==
    /\ pc[p] = "unlink"
    /\ \/ file' = NoFile /\ NoFault
       \/ UNCHANGED file /\ Fault
    /\ GoTo(p, "recreate")
    /\ UNCHANGED <<text, fd, seen, kills, aliens>>

\* _try_create for the second time: another file at the path is a refusal.
Recreate(p) ==
    /\ pc[p] = "recreate"
    /\ \/ file = NoFile /\ NewFile(p) /\ GoTo(p, "write")
       \/ file # NoFile /\ GoTo(p, "out") /\ UNCHANGED <<file, text, fd>>
    /\ UNCHANGED <<seen, counts>>

\* The payload is written and the lock is held; a write that fails is a
\* refusal that leaves the empty file behind.
WriteOwner(p) ==
    /\ pc[p] = "write"
    /\ \/ text' = [text EXCEPT ![fd[p]] = p] /\ GoTo(p, "held") /\ NoFault
       \/ UNCHANGED text /\ GoTo(p, "out") /\ Fault
    /\ fd' = [fd EXCEPT ![p] = NoFile]
    /\ UNCHANGED <<file, seen, kills, aliens>>

Acquire(p) ==
    Create(p) \/ ReadOwner(p) \/ CheckOwner(p) \/ UnlinkStale(p) \/ Recreate(p)
    \/ WriteOwner(p)

\* refresh_lock reads the file and goes on only if it names the caller; its
\* callers ignore a refusal.
BeginRefresh(p) ==
    /\ pc[p] = "held" /\ PidIn = p
    /\ GoTo(p, "refresh")
    /\ UNCHANGED <<file, text, fd, seen, counts>>

\* write_text opens the path again: the file there, emptied, or a new one.
Truncate(p) ==
    /\ pc[p] = "refresh"
    /\ \E n \in Inodes :
          /\ file # NoFile => n = file
          /\ file = NoFile => Unused(n)
          /\ file' = n
          /\ text' = [text EXCEPT ![n] = NoPid]
          /\ fd' = [fd EXCEPT ![p] = n]
    /\ GoTo(p, "rewrite")
    /\ UNCHANGED <<seen, counts>>

Rewrite(p) ==
    /\ pc[p] = "rewrite"
    /\ \/ text' = [text EXCEPT ![fd[p]] = p] /\ NoFault
       \/ UNCHANGED text /\ Fault
    /\ fd' = [fd EXCEPT ![p] = NoFile]
    /\ GoTo(p, "held")
    /\ UNCHANGED <<file, seen, kills, aliens>>

\* release_lock unlinks the path without looking at what is there.
Release(p) ==
    /\ pc[p] = "held"
    /\ \/ file' = NoFile /\ NoFault
       \/ UNCHANGED file /\ Fault
    /\ GoTo(p, "out")
    /\ UNCHANGED <<text, fd, seen, kills, aliens>>

\* A process is killed, at any step; its descriptors close.
Kill(p) ==
    /\ kills < MaxKills
    /\ pc[p] \in Contending \cup Holding
    /\ kills' = kills + 1
    /\ GoTo(p, "dead")
    /\ fd' = [fd EXCEPT ![p] = NoFile]
    /\ seen' = [seen EXCEPT ![p] = NoPid]
    /\ UNCHANGED <<file, text, faults, aliens>>

\* The pid of a process that is gone is given to an unrelated program.
Recycle(p) ==
    /\ aliens < MaxAliens
    /\ pc[p] \in Gone
    /\ aliens' = aliens + 1
    /\ GoTo(p, "alien")
    /\ UNCHANGED <<file, text, fd, seen, kills, faults>>

Next ==
    \E p \in Pids :
        \/ Start(p) \/ Acquire(p)
        \/ BeginRefresh(p) \/ Truncate(p) \/ Rewrite(p) \/ Release(p)
        \/ Kill(p) \/ Recycle(p)

Spec == Init /\ [][Next]_vars

\* Runs keep being started (the scheduler, the operator), and an attempt that
\* was begun goes on.  A holder need not ever let go.
FairSpec ==
    /\ Spec
    /\ WF_vars(\E p \in Pids : Start(p))
    /\ \A p \in Pids : WF_vars(Acquire(p))

-----------------------------------------------------------------------------
TypeOK ==
    /\ file \in Inodes \cup {NoFile}
    /\ text \in [Inodes -> Pids \cup {NoPid}]
    /\ pc \in [Pids -> Places]
    /\ fd \in [Pids -> Inodes \cup {NoFile}]
    /\ seen \in [Pids -> Pids \cup {NoPid}]
    /\ kills \in 0..MaxKills /\ faults \in 0..MaxFaults /\ aliens \in 0..MaxAliens

\* Two runs of one scope are never at work together: the documentation's
\* "lock exclusivo por scope".
Exclusive == \A p, q \in Holders : p = q

\* A lock left by a process that is gone does not stay: the next runs remove
\* it, unless its pid came to belong to another program.
NamesGone(p) == PidIn = p /\ ~Running(p)
StaleLockIsCleared == \A p \in Pids : NamesGone(p) ~> ~NamesGone(p)

\* The strengthening for attempts that do not overlap: whoever holds the lock
\* has its file at the path, empty only while or since it was rewritten, and a
\* process about to remove a file has seen that nobody holds the lock.
OwnFile(p) ==
    /\ file # NoFile
    /\ pc[p] = "rewrite" => fd[p] = file
    /\ PidIn \in {p, NoPid}

SerialInv ==
    /\ Exclusive
    /\ \A p, q \in Pids : pc[p] \in Contending /\ pc[q] \in Contending => p = q
    /\ \A p \in Holders : OwnFile(p)
    /\ \A p \in Pids :
          /\ pc[p] = "check" => Holders = {} \/ seen[p] \in Holders \cup {NoPid}
          /\ pc[p] \in {"unlink", "recreate", "write"} => Holders = {}
          /\ pc[p] = "write" => fd[p] = file /\ file # NoFile
=============================================================================
