--------------------------- MODULE ExecutionLedger ---------------------------
(***************************************************************************)
(* The execution layer of one scope: processes that turn the latest trade  *)
(* signal into an order intent, submit it, and reconcile the ledger of     *)
(* intents with the broker's book.                                         *)
(*                                                                         *)
(* A worker runs process_latest_signal (reconcile, pick, gate, submit,     *)
(* reconcile again); a reconciler runs reconcile_payload or                *)
(* check_order_status_payload, the operator's commands, which take no lock.*)
(* Every database call commits on its own, so a process holds rows it read *)
(* earlier and writes whole rows back.  Any process may be killed between  *)
(* two of its steps.                                                       *)
(*                                                                         *)
(* Events, attempts and error texts are left out; the gates in front of    *)
(* submit_order other than the deadline are one nondeterministic refusal.  *)
(***************************************************************************)
EXTENDS BrokerBook, SignalLog

CONSTANTS
    Workers,        \* runs of process_latest_signal
    Reconcilers,    \* runs of the operator's commands
    NotFoundGrace,  \* not_found_grace_sec
    MatchDelta,     \* seconds of slack of match_fingerprint
    EnforceDeadline,\* _enforce_entry_deadline: FALSE for fake, paper, or by the setting
    AdapterMayFail, \* adapter and database calls may raise
    OperatorHalts,  \* the operator uses the kill switch and drain mode
    BuyRetries,     \* IQ_EXEC_BUY_RETRIES
    MaxCrashes,     \* bound on kills
    Lookalikes      \* pairs <<i, j>>: an order of j passes i's fingerprint

Processes == Workers \cup Reconcilers

ASSUME LedgerAssumption ==
    /\ Workers \cap Reconcilers = {}
    /\ NotFoundGrace \in Nat /\ MatchDelta \in Nat /\ MaxCrashes \in Nat
    /\ BuyRetries \in Nat \ {0}
    /\ EnforceDeadline \in BOOLEAN /\ AdapterMayFail \in BOOLEAN
    /\ OperatorHalts \in BOOLEAN
    /\ Provider = "fake" => ~EnforceDeadline
    /\ Lookalikes \subseteq Signals \X Signals

VARIABLES
    rows,     \* signals_v2
    intents,  \* order_intents: one row per signal
    links,    \* broker_orders.intent_id per order
    halted,   \* the kill switch or drain mode is on
    crashes,  \* kills so far
    pc,       \* where each process stands
    phase,    \* which reconcile pass it is in: "pre", "post" or "cli"
    since,    \* "now" as sampled at the start of that pass
    pending,  \* the pending rows that pass read and has not handled yet
    view,     \* the broker snapshots it fetched
    matched,  \* matched_external_ids
    sampled,  \* kill or drain as read at the start of the worker's run
    target,   \* the signal (or, for a status check, the order) in hand
    held,     \* the intent row the worker read
    call      \* the submit in progress: its last request, time, answer and tries

ledgerVars == <<rows, intents, links>>
passVars   == <<phase, since, pending, view, matched>>
workVars   == <<sampled, target, held, call>>
vars == <<now, brokerVars, ledgerVars, halted, crashes, pc, passVars, workVars>>

NoTime   == -1
Unlinked == -1   \* no row in broker_orders
NullLink == 0    \* a row whose intent_id is NULL

NoRow  == [st |-> "none", ext |-> NoOrder, sub |-> NoTime]
NoCall == [slot |-> NoOrder, at |-> 0, answer |-> "none", tries |-> 0]

\* A row as it is, in another state (dataclasses.replace).
RowIn(row, s) == [st |-> s, ext |-> row.ext, sub |-> row.sub]

IntentRows == [st : IntentStates \cup {"none"}, ext : Orders \cup {NoOrder},
               sub : Times \cup {NoTime}]

Answers == {"none", "ack", "reject", "unknown"}

Today == (now \div Interval) \div DayLen

-----------------------------------------------------------------------------
Init ==
    /\ now = 0
    /\ BrokerInit
    /\ rows = [i \in Signals |-> "none"]
    /\ intents = [i \in Signals |-> NoRow]
    /\ links = [o \in Orders |-> Unlinked]
    /\ halted = FALSE
    /\ crashes = 0
    /\ pc = [p \in Processes |-> "idle"]
    /\ phase = [p \in Processes |-> "cli"]
    /\ since = [p \in Processes |-> 0]
    /\ pending = [p \in Processes |-> [i \in Signals |-> NoRow]]
    /\ view = [p \in Processes |-> NoView]
    /\ matched = [p \in Processes |-> {}]
    /\ sampled = [p \in Processes |-> FALSE]
    /\ target = [p \in Processes |-> 0]
    /\ held = [p \in Processes |-> NoRow]
    /\ call = [p \in Processes |-> NoCall]

-----------------------------------------------------------------------------
(* Environment.                                                            *)

Tick ==
    /\ now < MaxTime
    /\ now' = now + 1
    /\ UNCHANGED <<brokerVars, ledgerVars, halted, crashes, pc, passVars, workVars>>

\* The observer writes the row of a candle; later candles come later.
Emit(i, verdict) ==
    /\ now >= Ts(i)
    /\ \A j \in Signals : j > i => rows[j] = "none"
    /\ ~PreserveExistingTrade(rows, i)
    /\ rows[i] # verdict
    /\ rows' = [rows EXCEPT ![i] = verdict]
    /\ UNCHANGED <<now, brokerVars, intents, links, halted, crashes, pc, passVars, workVars>>

\* The operator engages or releases the kill switch or the drain file.
ToggleHalt ==
    /\ OperatorHalts
    /\ halted' = ~halted
    /\ UNCHANGED <<now, brokerVars, ledgerVars, crashes, pc, passVars, workVars>>

\* The fake broker answers inside the caller's submit_order, so a request of
\* a killed caller is dropped by Crash and never accepted later.
Broker(o) ==
    /\ \/ BrokerAccept(o)
       \/ BrokerRefuse(o)
       \/ \E outcome \in {"closed", "cancelled"} : BrokerClose(o, outcome)
    /\ UNCHANGED <<now, ledgerVars, halted, crashes, pc, passVars, workVars>>

\* A process of another scope saves the bridge's file.
OtherScopeSaves(o) ==
    /\ BridgeForgets(o)
    /\ UNCHANGED <<now, ledgerVars, halted, crashes, pc, passVars, workVars>>

-----------------------------------------------------------------------------
(* One reconcile pass (reconcile_scope), the same for every process.       *)

\* Where the process goes when its pass is over, or when it raised: the
\* worker swallows the exception, the operator's command ends with it.
AfterPass(p) == IF phase[p] = "pre" THEN "pick" ELSE "idle"

\* Leaving a pass drops what it held.
EndPass(p) ==
    /\ pc' = [pc EXCEPT ![p] = AfterPass(p)]
    /\ since' = [since EXCEPT ![p] = 0]
    /\ pending' = [pending EXCEPT ![p] = [i \in Signals |-> NoRow]]
    /\ view' = [view EXCEPT ![p] = NoView]
    /\ matched' = [matched EXCEPT ![p] = {}]
    /\ phase' = [phase EXCEPT ![p] = IF @ = "pre" THEN "pre" ELSE "cli"]

\* Faulty variants: only submitted intents are reconciled, or every intent is.
PendingRowsSubmitted ==
    [i \in Signals |-> IF intents[i].st \in {"submitted_unknown", "accepted_open"}
                       THEN intents[i] ELSE NoRow]

PendingRowsAll == intents

PendingRows ==
    [i \in Signals |-> IF intents[i].st \in PendingStates THEN intents[i] ELSE NoRow]

\* The clock is read, then the pending intents; with none of them the broker
\* is not asked at all.
ListPending(p) ==
    /\ pc[p] = "list"
    /\ IF \E i \in Signals : intents[i].st \in PendingStates
       THEN /\ pc' = [pc EXCEPT ![p] = "scan"]
            /\ since' = [since EXCEPT ![p] = now]
            /\ pending' = [pending EXCEPT ![p] = PendingRows]
            /\ UNCHANGED <<phase, view, matched>>
       ELSE EndPass(p)
    /\ UNCHANGED <<now, brokerVars, ledgerVars, halted, crashes, workVars>>

\* fetch_open_orders and fetch_closed_orders; of two snapshots of an order
\* the later one counts, so the two calls are one step.
Scan(p) ==
    /\ pc[p] = "scan"
    /\ \E v \in ScanResults(since[p] - Lookback) :
          view' = [view EXCEPT ![p] = v]
    /\ pc' = [pc EXCEPT ![p] = "match"]
    /\ UNCHANGED <<now, brokerVars, ledgerVars, halted, crashes,
                   phase, since, pending, matched, workVars>>

\* An adapter or database call outside the per-intent try block raised.
PassRaises(p) ==
    /\ AdapterMayFail
    /\ pc[p] \in {"list", "scan", "orphans"}
    /\ EndPass(p)
    /\ UNCHANGED <<now, brokerVars, ledgerVars, halted, crashes, workVars>>

\* Pending intents are handled newest signal first.
Todo(p) == {i \in Signals : pending[p][i].st # "none"}
Current(p, i) == i \in Todo(p) /\ \A j \in Todo(p) : j <= i

Seen(p) == {o \in Orders : view[p][o].st # "absent"}

\* Faulty variant: the order's own parameters are not compared.
FingerprintTimeOnly(i, row, o) ==
    row.sub # NoTime => row.sub <= Expiry(i) + MatchDelta

\* match_fingerprint: asset, side, amount and expiry agree, and the intent,
\* if it was submitted, was so no later than just after its expiry.
Fingerprint(i, row, o) ==
    /\ orders[o].for = i \/ <<i, orders[o].for>> \in Lookalikes
    /\ row.sub # NoTime => row.sub <= Expiry(i) + MatchDelta

\* candidate_snapshots without the lookup by external id: the snapshots that
\* carry the intent's client key, else every snapshot with its fingerprint.
ScanCandidates(p, i) ==
    LET keyed == {o \in Seen(p) : view[p][o].keyed /\ orders[o].for = i}
    IN  IF keyed # {} THEN keyed
        ELSE {o \in Seen(p) : Fingerprint(i, pending[p][i], o)}

\* What the lookup by external id may return; "absent" falls through.
LookupViews(row) == IF row.ext = NoOrder THEN {"absent"} ELSE FetchViews(row.ext)

Handled(p, i) == pending' = [pending EXCEPT ![p][i] = NoRow]

\* apply_snapshot: the row read at the start of the pass is written back
\* whole, with the state and the order the snapshot gives it.  save_intent and
\* upsert_broker_snapshot are two commits in the code, and one step here.
ApplySnapshot(p, i, o, status) ==
    LET row == pending[p][i]
    IN  /\ intents' = [intents EXCEPT ![i] =
              [st |-> StateFromBroker(status, row.st), ext |-> o,
               sub |-> IF row.sub # NoTime THEN row.sub ELSE orders[o].opened]]
        /\ links' = [links EXCEPT ![o] = i]
        /\ matched' = [matched EXCEPT ![p] = @ \cup {o}]
        /\ Handled(p, i)

MatchById(p, i) ==
    /\ pc[p] = "match" /\ Current(p, i)
    /\ \E status \in LookupViews(pending[p][i]) \ {"absent"} :
          ApplySnapshot(p, i, pending[p][i].ext, status)
    /\ UNCHANGED <<now, brokerVars, rows, halted, crashes, pc,
                   phase, since, view, workVars>>

MatchByScan(p, i) ==
    /\ pc[p] = "match" /\ Current(p, i)
    /\ "absent" \in LookupViews(pending[p][i])
    /\ \E o \in Orders : /\ ScanCandidates(p, i) = {o}
                         /\ ApplySnapshot(p, i, o, view[p][o].st)
    /\ UNCHANGED <<now, brokerVars, rows, halted, crashes, pc,
                   phase, since, view, workVars>>

\* Two orders could be this intent's: neither is taken.
MatchAmbiguous(p, i) ==
    /\ pc[p] = "match" /\ Current(p, i)
    /\ "absent" \in LookupViews(pending[p][i])
    /\ \E o1, o2 \in ScanCandidates(p, i) : o1 # o2
    /\ intents' = [intents EXCEPT ![i] = RowIn(pending[p][i], "ambiguous")]
    /\ Handled(p, i)
    /\ UNCHANGED <<now, brokerVars, rows, links, halted, crashes, pc,
                   phase, since, view, matched, workVars>>

\* Faulty variant: only accepted intents are ever given up.
GraceOverAccepted(p, i, row) ==
    /\ row.st = "accepted_open"
    /\ since[p] >= Expiry(i) + SettleGrace \/ since[p] = MaxTime

\* The grace runs from the submit when there was one, else from the expiry.
GraceOver(p, i, row) ==
    LET grace  == IF row.st = "submitted_unknown" THEN NotFoundGrace ELSE SettleGrace
        anchor == IF row.sub # NoTime THEN row.sub ELSE Expiry(i)
        wait   == IF grace = 0 THEN 1 ELSE grace
    IN  since[p] >= anchor + wait \/ since[p] = MaxTime

\* No order found: a planned intent is dropped at its deadline, a submitted
\* one when its grace is over, and otherwise the row is left as it is.
MatchNone(p, i) ==
    LET row    == pending[p][i]
        unsent == row.st = "planned" /\ (since[p] >= Deadline(i) \/ since[p] = MaxTime)
        lost   == row.st \in {"submitted_unknown", "accepted_open"} /\ GraceOver(p, i, row)
    IN  /\ pc[p] = "match" /\ Current(p, i)
        /\ "absent" \in LookupViews(row)
        /\ ScanCandidates(p, i) = {}
        /\ \/ unsent /\ intents' = [intents EXCEPT ![i] = RowIn(row, "expired_unsubmitted")]
           \/ lost /\ intents' = [intents EXCEPT ![i] = RowIn(row, "expired_unconfirmed")]
           \/ ~unsent /\ ~lost /\ UNCHANGED intents
        /\ Handled(p, i)
        /\ UNCHANGED <<now, brokerVars, rows, links, halted, crashes, pc,
                       phase, since, view, matched, workVars>>

\* The lookup or the first write raised inside the per-intent try block.  An
\* exception after save_intent, or after the order was taken as matched, is left out.
MatchRaises(p, i) ==
    /\ AdapterMayFail
    /\ pc[p] = "match" /\ Current(p, i)
    /\ Handled(p, i)
    /\ UNCHANGED <<now, brokerVars, ledgerVars, halted, crashes, pc,
                   phase, since, view, matched, workVars>>

MatchDone(p) ==
    /\ pc[p] = "match" /\ Todo(p) = {}
    /\ pc' = [pc EXCEPT ![p] = "orphans"]
    /\ UNCHANGED <<now, brokerVars, ledgerVars, halted, crashes, passVars, workVars>>

\* Faulty variant: a snapshot that was not matched is stored with no intent.
OrphanLinkNone(p, o) == NullLink

\* The intent with the snapshot's client key, or no intent at all.
OrphanLink(p, o) ==
    IF view[p][o].keyed /\ intents[orders[o].for].st # "none"
    THEN orders[o].for ELSE NullLink

\* Every snapshot no intent of this pass took is stored.
OrphanPass(p) ==
    /\ pc[p] = "orphans"
    /\ links' = [o \in Orders |->
          IF o \in Seen(p) \ matched[p] THEN OrphanLink(p, o) ELSE links[o]]
    /\ EndPass(p)
    /\ UNCHANGED <<now, brokerVars, rows, intents, halted, crashes, workVars>>

Reconcile(p) ==
    \/ ListPending(p) \/ Scan(p) \/ PassRaises(p) \/ MatchDone(p) \/ OrphanPass(p)
    \/ \E i \in Signals : \/ MatchById(p, i) \/ MatchByScan(p, i)
                          \/ MatchAmbiguous(p, i) \/ MatchNone(p, i)
                          \/ MatchRaises(p, i)

-----------------------------------------------------------------------------
(* The worker (process_latest_signal).                                     *)

\* Kill switch and drain mode are read once, before the first reconcile pass.
StartWorker(w) ==
    /\ pc[w] = "idle"
    /\ pc' = [pc EXCEPT ![w] = "list"]
    /\ phase' = [phase EXCEPT ![w] = "pre"]
    /\ sampled' = [sampled EXCEPT ![w] = halted]
    /\ UNCHANGED <<now, brokerVars, ledgerVars, halted, crashes,
                   since, pending, view, matched, target, held, call>>

\* The run goes on to the second reconcile pass.
Finish(w) ==
    /\ pc' = [pc EXCEPT ![w] = "list"]
    /\ phase' = [phase EXCEPT ![w] = "post"]
    /\ sampled' = [sampled EXCEPT ![w] = FALSE]
    /\ target' = [target EXCEPT ![w] = 0]
    /\ held' = [held EXCEPT ![w] = NoRow]
    /\ call' = [call EXCEPT ![w] = NoCall]
    /\ UNCHANGED <<since, pending, view, matched>>

\* Faulty variant: an intent of unknown outcome is submitted again.
SubmittableUnconfirmed(i) == intents[i].st \in {"none", "planned", "submitted_unknown"}

\* Only an intent that is new or still planned goes on to the gates.
Submittable(i) == intents[i].st \in {"none", "planned"}

\* latest_trade_row, then the lookup half of ensure_intent.
PickSignal(w) ==
    /\ pc[w] = "pick"
    /\ \E i \in Signals \cup {0} :
          /\ i = LatestTradeRow(rows, Today)
          /\ IF i = 0 \/ ~Submittable(i)
             THEN Finish(w)
             ELSE /\ target' = [target EXCEPT ![w] = i]
                  /\ held' = [held EXCEPT ![w] = intents[i]]
                  /\ pc' = [pc EXCEPT ![w] = IF intents[i].st = "none"
                                             THEN "insert" ELSE "gate"]
                  /\ UNCHANGED <<sampled, call, passVars>>
    /\ UNCHANGED <<now, brokerVars, ledgerVars, halted, crashes>>

\* The write half of ensure_intent: an upsert on the intent id.
InsertIntent(w) ==
    /\ pc[w] = "insert"
    /\ LET row == RowIn(NoRow, "planned")
       IN  /\ intents' = [intents EXCEPT ![target[w]] = row]
           /\ held' = [held EXCEPT ![w] = row]
    /\ pc' = [pc EXCEPT ![w] = "gate"]
    /\ UNCHANGED <<now, brokerVars, rows, links, halted, crashes, passVars,
                   sampled, target, call>>

\* A gate refuses (kill or drain as sampled, broker guard, health, account
\* protection, hardening): the row read is written back, still planned.
GateBlocked(w) ==
    /\ pc[w] = "gate"
    /\ intents' = [intents EXCEPT ![target[w]] = held[w]]
    /\ Finish(w)
    /\ UNCHANGED <<now, brokerVars, rows, links, halted, crashes>>

DeadlinePassed(w) ==
    /\ pc[w] = "gate" /\ ~sampled[w]
    /\ EnforceDeadline /\ Due(Deadline(target[w]))
    /\ intents' = [intents EXCEPT ![target[w]] =
                      RowIn(held[w], "expired_unsubmitted")]
    /\ Finish(w)
    /\ UNCHANGED <<now, brokerVars, rows, links, halted, crashes>>

\* The deadline is looked at here; the protection delay and the submit
\* itself come later, without another look.
GatePass(w) ==
    /\ pc[w] = "gate" /\ ~sampled[w]
    /\ ~(EnforceDeadline /\ Due(Deadline(target[w])))
    /\ pc' = [pc EXCEPT ![w] = "submit"]
    /\ UNCHANGED <<now, brokerVars, ledgerVars, halted, crashes, passVars, workVars>>

\* A request for the row read before the gates, the nth of its submit.
SendRequest(w, n) ==
    /\ \E o \in Orders :
          /\ orders[o].st = "free"
          /\ \A q \in Orders : q < o => orders[q].st # "free"
          /\ orders' = [orders EXCEPT ![o] =
                [st |-> "inflight", for |-> target[w], tagged |-> FALSE, opened |-> 0]]
          /\ call' = [call EXCEPT ![w] =
                [slot |-> o, at |-> IF n = 1 THEN now ELSE @.at, answer |-> "none", tries |-> n]]
    /\ pc' = [pc EXCEPT ![w] = "sent"]
    /\ UNCHANGED <<now, ledgerVars, halted, crashes, passVars, sampled, target, held>>

\* submit_intent calls the adapter.
CallBroker(w) == pc[w] = "submit" /\ SendRequest(w, 1)

\* What the client tries for one submit; the fake broker has no client.
Tries == IF Provider = "fake" THEN 1 ELSE BuyRetries

\* Bound: a slot is left for every signal that may still be submitted.
MayAskAgain ==
    Cardinality({i \in Signals : OrdersOf(i) = {} /\ ~(EnforceDeadline /\ Due(Deadline(i)))})
        < Cardinality({o \in Orders : orders[o].st = "free"})

\* The client's buy raised and is tried again, whatever became of its request.
BuyAgain(w) ==
    /\ pc[w] = "sent"
    /\ call[w].tries < Tries /\ MayAskAgain
    /\ SendRequest(w, call[w].tries + 1)

\* adapter.submit_order returns.  An acknowledged order is recorded in the
\* bridge before the call returns; a timeout, an exception or a missing order
\* id says nothing about the order, which the live broker may accept later.
SubmitReturns(w) ==
    /\ pc[w] = "sent"
    /\ LET o == call[w].slot
       IN  \E answer \in {"ack", "reject", "unknown"} :
             /\ answer = "ack" => orders[o].st \in Accepted
             /\ answer = "reject" => orders[o].st = "refused"
             /\ Provider = "fake" => orders[o].st # "inflight"
             /\ orders' = IF answer # "ack" THEN orders
                ELSE [orders EXCEPT ![o] =
                        [st |-> @.st, for |-> @.for, tagged |-> TRUE, opened |-> @.opened]]
             /\ call' = [call EXCEPT ![w] =
                   [slot |-> o, at |-> @.at, answer |-> answer, tries |-> 0]]
    /\ pc' = [pc EXCEPT ![w] = "save"]
    /\ UNCHANGED <<now, ledgerVars, halted, crashes, passVars, sampled, target, held>>

\* record_attempt and save_intent: the row read before the gates is written
\* back whole, with the state the answer gives it.
SaveResult(w) ==
    /\ pc[w] = "save"
    /\ intents' = [intents EXCEPT ![target[w]] =
          [st  |-> StateFromTransport(call[w].answer),
           ext |-> IF call[w].answer = "ack" THEN call[w].slot ELSE held[w].ext,
           sub |-> IF held[w].sub # NoTime THEN held[w].sub ELSE call[w].at]]
    /\ Finish(w)
    /\ UNCHANGED <<now, brokerVars, rows, links, halted, crashes>>

Work(w) ==
    \/ StartWorker(w) \/ PickSignal(w) \/ InsertIntent(w) \/ GateBlocked(w)
    \/ DeadlinePassed(w) \/ GatePass(w) \/ CallBroker(w) \/ BuyAgain(w)
    \/ SubmitReturns(w) \/ SaveResult(w)

-----------------------------------------------------------------------------
(* The operator's commands.                                                *)

StartReconcile(r) ==
    /\ pc[r] = "idle"
    /\ pc' = [pc EXCEPT ![r] = "list"]
    /\ phase' = [phase EXCEPT ![r] = "cli"]
    /\ UNCHANGED <<now, brokerVars, ledgerVars, halted, crashes,
                   since, pending, view, matched, workVars>>

\* check_order_status: fetch one order and store it under the intent that
\* names it, or under none; the intent itself is not touched.
CheckOrderStatus(r, o) ==
    /\ pc[r] = "idle"
    /\ FetchViews(o) # {"absent"}
    /\ links' = [links EXCEPT ![o] =
          IF \E i \in Signals : intents[i].ext = o
          THEN CHOOSE i \in Signals : intents[i].ext = o ELSE NullLink]
    /\ UNCHANGED <<now, brokerVars, rows, intents, halted, crashes, pc, passVars, workVars>>

-----------------------------------------------------------------------------
\* A process is killed (the portfolio runner's timeout, a crash, a reboot):
\* what it held is gone.  A request already sent to the live broker is not.
Crash(p) ==
    /\ crashes < MaxCrashes
    /\ pc[p] # "idle"
    /\ crashes' = crashes + 1
    /\ pc' = [pc EXCEPT ![p] = "idle"]
    /\ phase' = [phase EXCEPT ![p] = "cli"]
    /\ since' = [since EXCEPT ![p] = 0]
    /\ pending' = [pending EXCEPT ![p] = [i \in Signals |-> NoRow]]
    /\ view' = [view EXCEPT ![p] = NoView]
    /\ matched' = [matched EXCEPT ![p] = {}]
    /\ sampled' = [sampled EXCEPT ![p] = FALSE]
    /\ target' = [target EXCEPT ![p] = 0]
    /\ held' = [held EXCEPT ![p] = NoRow]
    /\ call' = [call EXCEPT ![p] = NoCall]
    /\ orders' = [o \in Orders |->
          IF /\ Provider = "fake" /\ pc[p] = "sent"
             /\ o = call[p].slot /\ orders[o].st = "inflight"
          THEN OrderIn(o, "refused") ELSE orders[o]]
    /\ UNCHANGED <<now, ledgerVars, halted>>

Next ==
    \/ Tick
    \/ ToggleHalt
    \/ \E i \in Signals, verdict \in Verdicts : Emit(i, verdict)
    \/ \E o \in Orders : Broker(o) \/ OtherScopeSaves(o)
    \/ \E p \in Processes : Reconcile(p) \/ Crash(p)
    \/ \E w \in Workers : Work(w)
    \/ \E r \in Reconcilers : StartReconcile(r)
    \/ \E r \in Reconcilers, o \in Orders : CheckOrderStatus(r, o)

Spec == Init /\ [][Next]_vars

\* The scheduler keeps running workers, time passes, and the broker answers
\* every request and settles every order.  Nothing is assumed of the observer,
\* the operator or the killer.
FairSpec ==
    /\ Spec
    /\ WF_vars(Tick)
    /\ \A o \in Orders : WF_vars(Broker(o))
    /\ \A w \in Workers : WF_vars(Reconcile(w) \/ Work(w))

-----------------------------------------------------------------------------
(* Properties.                                                             *)

TypeOK ==
    /\ now \in Times
    /\ orders \in [Orders -> OrderRecords]
    /\ rows \in [Signals -> {"none"} \cup Verdicts]
    /\ intents \in [Signals -> IntentRows]
    /\ links \in [Orders -> {Unlinked, NullLink} \cup Signals]
    /\ halted \in BOOLEAN
    /\ crashes \in 0..MaxCrashes
    /\ pc \in [Processes -> {"idle", "list", "scan", "match", "orphans", "pick",
                              "insert", "gate", "submit", "sent", "save"}]
    /\ phase \in [Processes -> {"pre", "post", "cli"}]
    /\ since \in [Processes -> Times]
    /\ pending \in [Processes -> [Signals -> IntentRows]]
    /\ view \in [Processes -> [Orders -> [st : BrokerViews, keyed : BOOLEAN]]]
    /\ matched \in [Processes -> SUBSET Orders]
    /\ sampled \in [Processes -> BOOLEAN]
    /\ target \in [Processes -> Signals \cup {0}]
    /\ held \in [Processes -> IntentRows]
    /\ call \in [Processes -> [slot : Orders \cup {NoOrder}, at : Times,
                                answer : Answers, tries : 0..BuyRetries]]

\* A signal never puts more positions on the account than one submit can, which
\* is one unless the client tries its buy again: the worker that restarts or runs
\* again finds the order it sent before it would submit another.
NoDuplicateOrder == \A i \in Signals : Cardinality(Positions(i)) <= Tries

\* "The broker is the authority of the result": whatever interleaving of
\* passes over stale rows and stale snapshots wrote the row, an intent that
\* says settled names an order the broker has closed, one that says open an
\* order the broker did accept, and one rejected after it was accepted an
\* order the broker cancelled.
IntentTruth(i) ==
    LET row == intents[i]
    IN  /\ row.st = "settled" =>
              row.ext \in Orders /\ orders[row.ext].st = "closed"
        /\ row.st = "accepted_open" =>
              row.ext \in Orders /\ orders[row.ext].st \in Accepted
        /\ row.st = "rejected" /\ row.ext # NoOrder =>
              orders[row.ext].st = "cancelled"

BrokerTruth == \A i \in Signals : IntentTruth(i)

\* The order an intent names was sent for that intent, or for one its
\* fingerprint cannot be told from.
OwnOrder ==
    \A i \in Signals :
        LET o == intents[i].ext
        IN  o # NoOrder => orders[o].for = i \/ <<i, orders[o].for>> \in Lookalikes

\* The strengthening that makes both inductive.  It says of every row a process
\* may write back, read or computed, what the two say of the rows in the table,
\* and of every snapshot and answer in hand that the broker's book bears it out.
SentFor(book, i, o) ==
    /\ book[o].st # "free"
    /\ book[o].for = i \/ <<i, book[o].for>> \in Lookalikes

RowTruth(book, i, row) ==
    /\ row.st \in {"none", "planned", "submitted_unknown"} => row.ext = NoOrder
    /\ row.st = "settled" => row.ext \in Orders /\ book[row.ext].st = "closed"
    /\ row.st = "accepted_open" => row.ext \in Orders /\ book[row.ext].st \in Accepted
    /\ row.st = "rejected" /\ row.ext # NoOrder => book[row.ext].st = "cancelled"
    /\ row.ext # NoOrder => SentFor(book, i, row.ext)

ViewTruth(book, o, seen) ==
    /\ seen # "unknown"
    /\ seen # "absent" => book[o].st \in Accepted
    /\ seen \in {"closed", "cancelled"} => book[o].st = seen

CallTruth(book, at, signal, c) ==
    /\ at \in {"sent", "save"} => c.slot # NoOrder
    /\ at \notin {"sent", "save"} => c.slot = NoOrder
    /\ c.slot # NoOrder => book[c.slot].st # "free" /\ book[c.slot].for = signal
    /\ c.answer = "ack" => c.slot # NoOrder /\ book[c.slot].st \in Accepted

LedgerInv ==
    /\ \A i \in Signals : RowTruth(orders, i, intents[i])
    /\ \A p \in Processes :
          /\ \A i \in Signals : RowTruth(orders, i, pending[p][i])
          /\ \A o \in Orders : ViewTruth(orders, o, view[p][o].st)
          /\ held[p].st \in {"none", "planned"} /\ held[p].ext = NoOrder
          /\ CallTruth(orders, pc[p], target[p], call[p])

\* A planned intent that no process is submitting has no request at the broker
\* that could still become a position: only then is planned safe to submit.
IdlePlannedIsUnsent ==
    \A i \in Signals :
        (intents[i].st = "planned" /\ \A p \in Processes : target[p] # i)
            => \A o \in OrdersOf(i) : orders[o].st = "refused"

\* With one process at work a terminal intent is never rewritten: what settled,
\* was refused or was given up stays so, and the day's quota with it.
TerminalIsFinal ==
    [][\A i \in Signals :
          intents[i].st \in TerminalStates => intents'[i] = intents[i]]_vars

\* No pass gives an intent up together with an order that is still on record while its
\* settlement may only be late: the bridge answers for that order until its expiry plus
\* the settle grace, whatever another process has written in between.
NoEarlyWriteOff ==
    [][\A i \in Signals :
          LET o == intents'[i].ext
          IN  /\ intents'[i].st = "expired_unconfirmed" /\ intents'[i] # intents[i]
              /\ o # NoOrder /\ orders[o].tagged
              => Due(Expiry(orders[o].for) + SettleGrace)]_vars

\* The documentation's "the latest trade signal still produces an intent": a
\* run that has picked and is done leaves the newest trade with an intent.
LatestSignalProducesIntent ==
    [][\A w \in Workers :
          pc[w] = "pick" /\ pc'[w] = "list" =>
              \A i \in Signals :
                  (rows[i] = "trade" /\ \A j \in Signals : rows[j] = "trade" => j <= i)
                      => intents[i].st # "none"]_vars

\* The documentation keeps intent_id = NULL for orders "without a local intent":
\* an order that an intent names is stored under an intent.
NamedOrderIsLinked ==
    \A i \in Signals : intents[i].ext # NoOrder => links[intents[i].ext] # NullLink

\* Every intent leaves its pending states: the broker's answer is found, or
\* the deadline or the grace gives the intent up.
EventuallyResolved ==
    \A i \in Signals :
        intents[i].st \in PendingStates ~> intents[i].st \in TerminalStates
=============================================================================
