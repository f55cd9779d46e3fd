----------------------------- MODULE SubmitGate -----------------------------
(***************************************************************************)
(* The gates in front of submit_order in process_latest_signal, and the    *)
(* state the processes of several scopes share while they pass them: the   *)
(* ledger's counts, the broker guard's and the account protection's files, *)
(* the submit lock, the kill switch and drain mode.                        *)
(*                                                                         *)
(* Every gate reads when it is its turn, and what it read may be old by    *)
(* the time of the submit.  The files are loaded and saved under short     *)
(* locks of their own that do not cover the change in between; only the    *)
(* submit lock of a REAL account does.                                     *)
(*                                                                         *)
(* The ledger's reconciliation is ExecutionLedger's: here an intent that   *)
(* is open or unknown changes by a step of its own.                        *)
(***************************************************************************)
EXTENDS Integers, FiniteSets

CONSTANTS
    Scopes,         \* scopes with a process of their own on one account
    Cluster,        \* correlation group of each scope
    Intents,        \* the trade signals: pairs of a scope and its nth candle
    Interval,       \* interval_sec
    EntryWindow,    \* seconds from a signal to its entry deadline
    MaxDelay,       \* cadence.max_delay_sec
    MaxTime,        \* bound on the clock
    Serialized,     \* live_submit_guard locks: REAL, live, serialize_submits
    MaxOpen,        \* max_open_positions_total
    MaxUnknown,     \* max_pending_unknown_total
    MaxFailures,    \* max_recent_transport_failures, 0 for no limit
    FailureWindow,  \* recent_failure_window_sec
    Spacing,        \* min_submit_spacing_sec of both guards
    RateCap,        \* max_submit_per_minute
    RateWindow,     \* that minute
    Protected,      \* security.protection.enabled
    ProtectRates,   \* its rates: window, cap of all scopes, cap of one scope
    MaxPerCluster,  \* max_active_per_cluster, max_pending_per_cluster
    DayCap,         \* max_submit_day_global
    OperatorHalts,  \* the operator uses the kill switch and drain mode
    HaltMishaps,    \* bound: kills and faults after which the operator uses them no more
    MaxMishaps,     \* bound on kills and notes that fail to be written
    NoScope

Candles == {i[2] : i \in Intents}
Times   == 0..MaxTime
NoTime  == -1
Files   == {"guard", "protection"}

ASSUME GateAssumption ==
    /\ IsFiniteSet(Scopes) /\ NoScope \notin Scopes
    /\ IsFiniteSet(Intents) /\ Intents \subseteq Scopes \X (Nat \ {0})
    /\ MaxTime \in Nat /\ MaxMishaps \in Nat /\ HaltMishaps \in Nat
    /\ MaxOpen \in Nat \ {0} /\ MaxUnknown \in Nat \ {0} /\ RateCap \in Nat \ {0}
    /\ RateWindow \in Nat /\ MaxDelay \in Nat
    /\ Serialized \in BOOLEAN /\ Protected \in BOOLEAN /\ OperatorHalts \in BOOLEAN

VARIABLES
    now,       \* the clock
    halted,    \* the kill switch or drain mode is on
    spent,     \* scopes that submitted since it went on
    db,        \* state of each order intent
    asked,     \* requested_at of its last recorded attempt
    failed,    \* intents whose last attempt ended in reject, timeout or exception
    lost,      \* submits cut off by a kill whose orders may live: intent, number of the kill
    noted,     \* the submit times each file lists
    last,      \* last_submit_at of each file
    lock,      \* holder of the submit lock
    kills, faults,
    pc,        \* where each scope's process stands
    candle,    \* the signal it has in hand
    sampled,   \* kill or drain as read at the start of the run
    stamp,     \* the time its present step works with
    copy       \* the notes it loaded

ledger == <<db, asked, failed, lost>>
files  == <<noted, last>>
work   == <<candle, sampled, stamp, copy>>
vars   == <<now, halted, spent, ledger, files, lock, kills, faults, pc, work>>

\* accepted_open is "open" by the answer to a submit, and "found" when reconciliation
\* met an order of a submit that was cut off.
Open     == {"open", "found"}
Answers  == {"open", "rejected", "unknown"}
DbStates == Open \cup Answers \cup {"none", "planned", "expired", "closed"}

\* Places: past the count of open positions, of unknown submissions, and in the lock.
Cleared == {"lock", "submit", "wire", "save"}
Counted == Cleared \cup {"count"}
Noting  == {"loadGuard", "saveGuard", "loadProtection", "saveProtection", "verify"}
Locked  == {"submit", "wire", "save"} \cup Noting
Unsent  == {"gate", "protect", "delay", "count", "lock", "submit"}
Places  == {"idle"} \cup Unsent \cup {"wire", "save"} \cup Noting

Cur(s)  == <<s, candle[s]>>
In(states) == {i \in Intents : db[i] \in states}
Lost(i) == {x \in lost : x[1] = i}
At(places) == {s \in Scopes : pc[s] \in places}
NoNotes == [i \in Intents |-> NoTime]

\* The entries of a list of submit times that are no older than a window.
Recent(notes, window) == {i \in Intents : notes[i] # NoTime /\ now - notes[i] <= window}
Own(s, set) == {i \in set : i[1] = s}

GoTo(s, place) == pc' = [pc EXCEPT ![s] = place]

\* The run is over and forgets what it sampled.
Leave(s) == GoTo(s, "idle") /\ sampled' = [sampled EXCEPT ![s] = FALSE]

-----------------------------------------------------------------------------
Init ==
    /\ now = 0 /\ halted = FALSE /\ spent = {}
    /\ db = [i \in Intents |-> "none"]
    /\ asked = NoNotes /\ failed = {} /\ lost = {}
    /\ noted = [f \in Files |-> NoNotes]
    /\ last = [f \in Files |-> NoTime]
    /\ lock = NoScope /\ kills = 0 /\ faults = 0
    /\ pc = [s \in Scopes |-> "idle"]
    /\ candle = [s \in Scopes |-> 0]
    /\ sampled = [s \in Scopes |-> FALSE]
    /\ stamp = [s \in Scopes |-> 0]
    /\ copy = [s \in Scopes |-> NoNotes]

Tick ==
    /\ now < MaxTime
    /\ now' = now + 1
    /\ UNCHANGED <<halted, spent, ledger, files, lock, kills, faults, pc, work>>

\* The operator engages or releases the kill switch or drain mode.
ToggleHalt ==
    /\ OperatorHalts /\ kills + faults <= HaltMishaps
    /\ halted' = ~halted
    /\ spent' = {}
    /\ UNCHANGED <<now, ledger, files, lock, kills, faults, pc, work>>

\* Reconciliation, the operator's included, learns what became of an intent, or an
\* order ends; one that was cut off may be found or not.
Reconcile(i) ==
    /\ \/ db[i] = "planned" /\ Lost(i) # {} /\ db' = [db EXCEPT ![i] = "found"] /\ UNCHANGED lost
       \/ db[i] = "unknown" /\ UNCHANGED lost
          /\ \E st \in {"open", "rejected"} : db' = [db EXCEPT ![i] = st]
       \/ db[i] = "open" /\ db' = [db EXCEPT ![i] = "closed"] /\ UNCHANGED lost
       \/ \E x \in Lost(i) :
             /\ lost' = lost \ {x}
             /\ db' = IF db[i] = "found" THEN [db EXCEPT ![i] = "closed"] ELSE db
    /\ UNCHANGED <<now, halted, spent, asked, failed, files, lock, kills, faults, pc, work>>

-----------------------------------------------------------------------------
(* One run of process_latest_signal.                                       *)

\* Faulty variant: the operator's halt is not looked at.
HaltIgnored == FALSE

\* is_kill_switch_active or is_drain_mode_active.
HaltSeen == halted

\* Kill switch and drain mode are read once, before the reconciliation, which may
\* miss what a killed run sent, and whose exception is swallowed: that signal, still
\* planned, is taken again.  Then latest_trade_row and ensure_intent: the newest
\* signal, if it is not dealt with.
Begin(s) ==
    /\ pc[s] = "idle"
    /\ \E c \in Candles :
          /\ c >= candle[s] /\ (c - 1) * Interval <= now
          /\ <<s, c>> \in In({"none", "planned"})
          /\ candle' = [candle EXCEPT ![s] = c]
          /\ db' = [db EXCEPT ![<<s, c>>] = "planned"]
    /\ sampled' = [sampled EXCEPT ![s] = HaltSeen]
    /\ GoTo(s, "gate")
    /\ UNCHANGED <<now, halted, spent, asked, failed, lost, files, lock, kills, faults, stamp, copy>>

\* _save_blocked_intent of a gate: the whole row is written as the run read it, and
\* stays planned, for a later run.
Refuse(s) ==
    /\ db' = [db EXCEPT ![Cur(s)] = "planned"]
    /\ Leave(s)

\* _save_blocked_intent with expired_unsubmitted.
Expire(s) ==
    /\ db' = [db EXCEPT ![Cur(s)] = "expired"]
    /\ Leave(s)

Late(s) == now >= (candle[s] - 1) * Interval + EntryWindow
Spaced(f) == last[f] = NoTime \/ now - last[f] >= Spacing

\* Faulty variant: one submit too many per minute.
GuardOpenOver == Spaced("guard") /\ Cardinality(Recent(noted["guard"], RateWindow)) <= RateCap

\* evaluate_submit_guard.
GuardOpen == Spaced("guard") /\ Cardinality(Recent(noted["guard"], RateWindow)) < RateCap

\* Kill and drain as sampled, deadline, broker guard, health of the broker
\* (its failure, and an exception of the guard, are a refusal).
Gate(s) ==
    /\ pc[s] = "gate"
    /\ \/ (sampled[s] \/ ~Late(s)) /\ Refuse(s)
       \/ ~sampled[s] /\ Late(s) /\ Expire(s)
       \/ ~sampled[s] /\ ~Late(s) /\ GuardOpen /\ GoTo(s, "protect")
          /\ UNCHANGED <<db, sampled>>
    /\ UNCHANGED <<now, halted, spent, asked, failed, lost, files, lock, kills, faults, candle, stamp, copy>>

\* Intents of the other scopes of the correlation group in some states.
Peers(s, states) == {i \in In(states) : i[1] # s /\ Cluster[i[1]] = Cluster[s]}

ProtectionOpen(s) ==
    /\ Spaced("protection")
    /\ \A rate \in ProtectRates :
          LET recent == Recent(noted["protection"], rate.window)
          IN  Cardinality(recent) < rate.all /\ Cardinality(Own(s, recent)) < rate.one
    /\ Cardinality(In(Open \cup {"unknown", "closed"})) < DayCap
    /\ Cardinality(Peers(s, Open)) < MaxPerCluster
    /\ Cardinality(Peers(s, {"unknown"})) < MaxPerCluster

\* Faulty variant: the components of the delay are added up without a limit.
DelaysUncapped == 0..(2 * MaxDelay + MaxTime)

\* recommended_delay_sec is at most max_delay_sec.
Delays == 0..MaxDelay

\* evaluate_account_protection and apply_recommended_delay.
Protect(s) ==
    /\ pc[s] = "protect"
    /\ \/ Protected /\ Refuse(s) /\ UNCHANGED stamp
       \/ /\ Protected => ProtectionOpen(s)
          /\ \E d \in Delays :
                /\ ~Protected => d = 0
                /\ stamp' = [stamp EXCEPT ![s] = now + d]
          /\ GoTo(s, "delay") /\ UNCHANGED <<db, sampled>>
    /\ UNCHANGED <<now, halted, spent, asked, failed, lost, files, lock, kills, faults, candle, copy>>

\* evaluate_execution_hardening, first read: the open positions of all scopes.
CountOpen(s) ==
    /\ pc[s] = "delay" /\ now >= stamp[s]
    /\ IF Cardinality(In(Open)) < MaxOpen
       THEN GoTo(s, "count") /\ UNCHANGED <<db, sampled>>
       ELSE Refuse(s)
    /\ stamp' = [stamp EXCEPT ![s] = 0]
    /\ UNCHANGED <<now, halted, spent, asked, failed, lost, files, lock, kills, faults, candle, copy>>

SubmitsSpaced == \A i \in Intents : asked[i] # NoTime => now - asked[i] >= Spacing
FailuresFew ==
    MaxFailures = 0 \/ Cardinality(failed \cap Recent(asked, FailureWindow)) < MaxFailures

\* Faulty variant: only the open positions are limited.
HardeningOpenNoUnknown == FailuresFew /\ SubmitsSpaced

\* Its later reads: unknown submissions, the last attempt, recent failures.
HardeningOpen ==
    /\ Cardinality(In({"unknown"})) < MaxUnknown
    /\ FailuresFew
    /\ SubmitsSpaced

CountUnknown(s) ==
    /\ pc[s] = "count"
    /\ IF HardeningOpen THEN GoTo(s, "lock") /\ UNCHANGED <<db, sampled>> ELSE Refuse(s)
    /\ UNCHANGED <<now, halted, spent, asked, failed, lost, files, lock, kills, faults, candle, stamp, copy>>

\* Faulty variant: the lock is taken without waiting for its holder.
TakeLockAnyway(s) ==
    /\ pc[s] = "lock"
    /\ lock' = IF Serialized THEN s ELSE lock
    /\ GoTo(s, "submit")
    /\ UNCHANGED <<now, halted, spent, ledger, files, kills, faults, work>>

\* live_submit_guard: flock waits; without a REAL account there is no lock.
TakeLock(s) ==
    /\ pc[s] = "lock"
    /\ Serialized => lock = NoScope
    /\ lock' = IF Serialized THEN s ELSE lock
    /\ GoTo(s, "submit")
    /\ UNCHANGED <<now, halted, spent, ledger, files, kills, faults, work>>

\* submit_intent up to the call of submit_order.
Send(s) ==
    /\ pc[s] = "submit"
    /\ stamp' = [stamp EXCEPT ![s] = now]
    /\ spent' = IF halted THEN spent \cup {s} ELSE spent
    /\ GoTo(s, "wire")
    /\ UNCHANGED <<now, halted, ledger, files, lock, kills, faults, candle, sampled, copy>>

\* submit_order has answered, or raised: record_attempt ...
RecordAttempt(s) ==
    /\ pc[s] = "wire"
    /\ asked' = [asked EXCEPT ![Cur(s)] = stamp[s]]
    /\ failed' \in {failed \cup {Cur(s)}, failed \ {Cur(s)}}
    /\ stamp' = [stamp EXCEPT ![s] = 0]
    /\ GoTo(s, "save")
    /\ UNCHANGED <<now, halted, spent, db, lost, files, lock, kills, faults, candle, sampled, copy>>

\* ... and save_intent, a commit of its own: the whole row, whatever it has become.
SaveIntent(s) ==
    /\ pc[s] = "save"
    /\ \E st \in Answers :
          /\ st = "open" <=> Cur(s) \notin failed
          /\ db' = [db EXCEPT ![Cur(s)] = st]
    /\ GoTo(s, "loadGuard")
    /\ UNCHANGED <<now, halted, spent, asked, failed, lost, files, lock, kills, faults, work>>

LoadPlace == [guard |-> "loadGuard", protection |-> "loadProtection"]
SavePlace == [guard |-> "saveGuard", protection |-> "saveProtection"]
AfterNote == [guard |-> IF Protected THEN "loadProtection" ELSE "verify", protection |-> "verify"]

\* note_submit_attempt, note_protection_submit_attempt: the file is read ...
LoadNotes(s, f) ==
    /\ pc[s] = LoadPlace[f]
    /\ copy' = [copy EXCEPT ![s] = noted[f]]
    /\ stamp' = [stamp EXCEPT ![s] = now]
    /\ GoTo(s, SavePlace[f])
    /\ UNCHANGED <<now, halted, spent, ledger, files, lock, kills, faults, candle, sampled>>

KeepFor(f) == IF f = "guard" THEN RateWindow ELSE MaxTime

\* Faulty variant: the list is written with the new submit alone.
WithNoteOnly(s, f) == [i \in Intents |-> IF i = Cur(s) THEN stamp[s] ELSE NoTime]

\* The list read, without its old entries and with this submit.
WithNote(s, f) ==
    [i \in Intents |->
        IF i = Cur(s) THEN stamp[s]
        ELSE IF stamp[s] - copy[s][i] <= KeepFor(f) THEN copy[s][i] ELSE NoTime]

\* ... and written back whole, or not at all: an exception is swallowed.
SaveNotes(s, f) ==
    /\ pc[s] = SavePlace[f]
    /\ \/ /\ noted' = [noted EXCEPT ![f] = WithNote(s, f)]
          /\ last' = [last EXCEPT ![f] = stamp[s]]
          /\ UNCHANGED faults
       \/ /\ kills + faults < MaxMishaps /\ faults' = faults + 1
          /\ UNCHANGED files
    /\ copy' = [copy EXCEPT ![s] = NoNotes]
    /\ stamp' = [stamp EXCEPT ![s] = 0]
    /\ GoTo(s, AfterNote[f])
    /\ UNCHANGED <<now, halted, spent, ledger, lock, kills, candle, sampled>>

\* verify_live_submit is over and the lock is let go.
Release(s) ==
    /\ pc[s] = "verify"
    /\ lock' = IF lock = s THEN NoScope ELSE lock
    /\ Leave(s)
    /\ UNCHANGED <<now, halted, spent, ledger, files, kills, faults, candle, stamp, copy>>

\* Faulty variant: the lock outlives its holder.
FreedByKillNever(s) == lock

\* flock ends with the descriptor.
FreedByKill(s) == IF lock = s THEN NoScope ELSE lock

\* The process is killed, or the runner's timeout kills it; a request on the wire may
\* have arrived, and its intent is still planned in the ledger.
Kill(s) ==
    /\ kills + faults < MaxMishaps /\ pc[s] # "idle"
    /\ kills' = kills + 1
    /\ lock' = FreedByKill(s)
    /\ \/ pc[s] \in {"wire", "save"} /\ lost' = lost \cup {<<Cur(s), kills + 1>>}
       \/ UNCHANGED lost
    /\ stamp' = [stamp EXCEPT ![s] = 0]
    /\ copy' = [copy EXCEPT ![s] = NoNotes]
    /\ Leave(s)
    /\ UNCHANGED <<now, halted, spent, db, asked, failed, files, faults, candle>>

InLock(s) ==
    \/ Send(s) \/ RecordAttempt(s) \/ SaveIntent(s) \/ Release(s)
    \/ \E f \in Files : LoadNotes(s, f) \/ SaveNotes(s, f)

Step(s) ==
    \/ Gate(s) \/ Protect(s) \/ CountOpen(s) \/ CountUnknown(s)
    \/ TakeLock(s) \/ InLock(s)

Next ==
    \/ Tick \/ ToggleHalt
    \/ \E i \in Intents : Reconcile(i)
    \/ \E s \in Scopes : Begin(s) \/ Step(s) \/ Kill(s)

Spec == Init /\ [][Next]_vars

\* A holder of the lock works on (the adapter's call times out and the poll of
\* verify_live_submit has a deadline).
FairSpec == Spec /\ \A s \in Scopes : WF_vars(InLock(s))

-----------------------------------------------------------------------------
TypeOK ==
    /\ now \in Times /\ halted \in BOOLEAN /\ spent \in SUBSET Scopes
    /\ db \in [Intents -> DbStates]
    /\ asked \in [Intents -> Times \cup {NoTime}] /\ failed \in SUBSET Intents
    /\ lost \in SUBSET (Intents \X (1..MaxMishaps)) /\ \A x \in lost : x[2] <= kills
    /\ noted \in [Files -> [Intents -> Times \cup {NoTime}]]
    /\ last \in [Files -> Times \cup {NoTime}]
    /\ lock \in Scopes \cup {NoScope}
    /\ kills \in Nat /\ faults \in Nat /\ kills + faults <= MaxMishaps
    /\ pc \in [Scopes -> Places]
    /\ candle \in [Scopes -> Candles \cup {0}]
    /\ sampled \in [Scopes -> BOOLEAN]
    /\ stamp \in [Scopes -> 0..(MaxTime + MaxDelay)]
    /\ copy \in [Scopes -> [Intents -> Times \cup {NoTime}]]

\* Unknown submissions exceed max_pending_unknown_total by no more than the runs
\* that counted them before any of the others had submitted.
UnknownBound == Cardinality(In({"unknown"})) <= MaxUnknown - 1 + Cardinality(Scopes)

\* How far the account can go beyond max_open_positions_total and
\* max_pending_unknown_total, which every run reads before the lock and one after
\* the other: unknown submissions may turn into positions between the two reads.
\* Counted are the submits that may be alive, those the ledger lists for their
\* answers and those a kill cut off, found or not, each time a signal was sent.  A
\* submit has as many orders as the client's buy has tries (iq_client.py:1290).
Exposure == Cardinality(In({"open", "unknown"})) + Cardinality(lost)
ExposureBound == Exposure <= MaxOpen + MaxUnknown - 2 + 2 * Cardinality(Scopes) + kills

\* One submit of a REAL account at a time, its notes included.
OneInLock == Serialized => \A s, t \in At(Locked) : s = t

\* A submit recorded in a file stays there for as long as it counts, whoever
\* else is writing the file.
KeepsNotes ==
    [][Serialized => \A f \in Files : \A i \in Recent(noted[f], KeepFor(f)) :
          noted'[f][i] >= noted[f][i] \/ now' - noted[f][i] > KeepFor(f)]_vars

\* The signals submitted in one minute exceed max_submit_per_minute by no more than
\* the runs that passed the guard together and the notes that were never written.  (One
\* sent again after a kill counts once, so that kills can add one submit more each.)
SubmitRate ==
    Serialized => Cardinality(Recent(asked, RateWindow))
                     <= RateCap - 1 + Cardinality(Scopes) + kills + faults

\* Once the kill switch or drain mode is on, a scope submits at most once more:
\* the run that had read it before.
HaltLeavesOne ==
    halted => \A s \in spent : pc[s] \in Unsent => pc[s] = "gate" /\ sampled[s]

\* The submit lock is let go again and again, whoever is killed holding it and
\* whatever note cannot be written.
LockIsFreed == []<>(lock = NoScope)
=============================================================================
