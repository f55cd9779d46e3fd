--------------------------- MODULE PortfolioCycle ---------------------------
(***************************************************************************)
(* The portfolio runner: one cycle after the other, in which it looks at   *)
(* every scope, counts what the ledger holds, asks each scope's circuit    *)
(* breaker, selects candidates under the portfolio's caps, has a child     *)
(* process execute each of them and records the outcome in the breakers.   *)
(*                                                                         *)
(* Every number it decides from is read by a query of its own, and the     *)
(* ledger moves on in between: reconciliation turns unknown submissions    *)
(* into positions.  A scope may have a daemon at the same time (the two    *)
(* hold different locks), and the operator looks at breakers and resets    *)
(* them; all of them load a breaker's row and save it later.               *)
(*                                                                         *)
(* The child process is the run of SubmitGate; here it is one step.        *)
(***************************************************************************)
EXTENDS CircuitBreaker, FiniteSets

CONSTANTS
    Scopes,        \* scopes of the portfolio
    Position,      \* of each in the configured list
    Intents,       \* order intents of the day: pairs of a scope and a number
    Groups,        \* assets and clusters: their scopes, exposure cap, cap per cycle
    TopK,          \* portfolio_topk_total
    MaxPositions,  \* portfolio_hard_max_positions
    MaxPending,    \* portfolio_hard_max_pending_unknown_total
    MaxTrades,     \* portfolio_hard_max_trades_per_day
    ScopeOpen, ScopePending, ScopeTrades,  \* the quota of one scope
    Deployments,   \* what a behaviour is about, see deploy
    NoScope

Switches == {"kill", "drain"}

ASSUME PortfolioAssumption ==
    /\ IsFiniteSet(Scopes) /\ Scopes # {} /\ NoScope \notin Scopes
    /\ Position \in [Scopes -> Nat]
    /\ IsFiniteSet(Intents) /\ Intents \subseteq Scopes \X Nat
    /\ Groups \subseteq [members : SUBSET Scopes, cap : Nat \ {0}, cycle : Nat \ {0}]
    /\ TopK \in Nat /\ MaxPositions \in Nat \ {0} /\ MaxPending \in Nat \ {0}
    /\ MaxTrades \in Nat /\ ScopeTrades \in Nat
    /\ ScopeOpen \in Nat \ {0} /\ ScopePending \in Nat \ {0}
    /\ Deployments \subseteq [trading : SUBSET Scopes, flaky : SUBSET Scopes,
                              daemons : SUBSET Scopes, switches : SUBSET Switches,
                              operator : BOOLEAN, faults : BOOLEAN]

VARIABLES
    deploy,   \* scopes with candidates, scopes whose steps fail or hang, scopes
              \* with a daemon, switches in use; whether an operator looks at
              \* breakers, whether queries fail
    halt,     \* of the kill switch and drain mode, those that are on
    db,       \* state of each intent
    stray,    \* history: orders that no count has been able to take in
    breaker,  \* the breaker rows
    pc, phase, ahead, scope,    \* the runner: its step, and its loop over the scopes
    sampled,  \* halt as read when the cycle began
    errs,     \* scopes an error of this cycle names
    wants,    \* scopes with a trade candidate
    seen,     \* what each of the three counts has found
    barred,   \* scopes barred by their quota or by the precheck
    todo,     \* selected scopes not yet executed
    row,      \* the breaker row in hand
    dpc, held,        \* each daemon and the row it carries through its cycle
    viewing, viewed   \* the operator's look at a breaker

ledger == <<db, stray>>
cycle  == <<pc, phase, ahead, scope, sampled, errs, wants, seen, barred, todo, row>>
daemon == <<dpc, held>>
view   == <<viewing, viewed>>
vars   == <<deploy, halt, ledger, breaker, cycle, daemon, view>>

Kinds    == {"done", "pending", "open"}
Phases   == {"asset", "portfolio", "check", "record"}
Places   == {"idle", "scan", "next", "judge", "allocate", "execute", "save"} \cup Kinds

\* "lost" is an order at the broker of which the ledger knows nothing.
DbStates == {"none", "lost", "unknown", "open", "closed", "dead"}

\* What has exposure, and what consumes the quota of the day.
Live      == {"unknown", "open"}
Consuming == {"unknown", "open", "closed"}

In(states) == {i \in Intents : db[i] \in states}
Of(group, set) == {i \in set : i[1] \in group}
NothingSeen == [kind \in Kinds |-> {}]

-----------------------------------------------------------------------------
Init ==
    /\ deploy \in Deployments
    /\ halt = {}
    /\ db = [i \in Intents |-> "none"] /\ stray = {}
    /\ breaker = [s \in Scopes |-> NewBreaker]
    /\ pc = "idle" /\ phase = "asset" /\ ahead = {} /\ scope = NoScope
    /\ sampled = {} /\ errs = {} /\ wants = {} /\ seen = NothingSeen
    /\ barred = {} /\ todo = {} /\ row = NewBreaker
    /\ dpc = [s \in Scopes |-> "idle"] /\ held = [s \in Scopes |-> NewBreaker]
    /\ viewing = NoScope /\ viewed = NewBreaker

\* Time passes for every cooldown, also in the copies.
Tick ==
    /\ breaker' = [s \in Scopes |-> Aged(breaker[s])]
    /\ row' = Aged(row)
    /\ held' = [s \in Scopes |-> Aged(held[s])]
    /\ viewed' = Aged(viewed)
    /\ UNCHANGED <<deploy, halt, ledger, pc, phase, ahead, scope, sampled, errs, wants,
                   seen, barred, todo, dpc, viewing>>

\* The operator creates or removes the file of a switch.
Toggle(w) ==
    /\ w \in deploy.switches
    /\ halt' = IF w \in halt THEN halt \ {w} ELSE halt \cup {w}
    /\ UNCHANGED <<deploy, ledger, breaker, cycle, daemon, view>>

\* Reconciliation, by a child or by the operator, and expiry.
Reconcile(i) ==
    /\ \/ db[i] = "lost" /\ db' = [db EXCEPT ![i] = "open"]
       \/ db[i] = "unknown" /\ \E st \in {"open", "dead"} : db' = [db EXCEPT ![i] = st]
       \/ db[i] = "open" /\ db' = [db EXCEPT ![i] = "closed"]
    /\ UNCHANGED <<deploy, halt, stray, breaker, cycle, daemon, view>>

-----------------------------------------------------------------------------
(* run_portfolio_cycle.                                                    *)

\* Kill switch and drain mode are read once.
Start ==
    /\ pc = "idle"
    /\ sampled' = halt
    /\ pc' = "scan"
    /\ UNCHANGED <<deploy, halt, ledger, breaker, phase, ahead, scope, errs, wants, seen,
                   barred, todo, row, daemon, view>>

Loop(ph) == pc' = "next" /\ phase' = ph /\ ahead' = Scopes

\* Prepare and candidate phases: the errors they leave and the candidates.
Scan ==
    /\ pc = "scan"
    /\ errs' \in SUBSET deploy.flaky
    /\ wants' \in SUBSET deploy.trading
    /\ Loop("asset")
    /\ UNCHANGED <<deploy, halt, ledger, breaker, scope, sampled, seen, barred, todo, row,
                   daemon, view>>

FirstStep == [asset |-> "done", portfolio |-> "done", check |-> "judge", record |-> "save"]

\* The next scope of a loop; the precheck and the recording load its breaker.
NextScope(s) ==
    /\ pc = "next" /\ s \in ahead
    /\ \A t \in ahead : Position[s] <= Position[t]
    /\ phase = "record" => "kill" \notin sampled
    /\ ahead' = ahead \ {s} /\ scope' = s
    /\ row' = IF phase \in {"check", "record"} THEN breaker[s] ELSE row
    /\ pc' = FirstStep[phase]
    /\ UNCHANGED <<deploy, halt, ledger, breaker, phase, sampled, errs, wants, seen, barred,
                   todo, daemon, view>>

Counted == [done |-> Consuming, pending |-> {"unknown"}, open |-> {"open"}]

\* Faulty variant: the open positions are counted before the unknown submissions.
AfterCountSwapped == [done |-> "open", open |-> "pending", pending |-> "next"]

\* The order of the three queries for a scope.
AfterCount == [done |-> "pending", pending |-> "open", open |-> "next"]

\* One query of compute_asset_quotas or compute_portfolio_quota for one scope;
\* when it raises it counts nothing.
Count ==
    /\ pc \in Kinds
    /\ LET found == Of({scope}, In(Counted[pc]))
       IN  \/ seen' = [seen EXCEPT ![pc] = @ \cup found] /\ UNCHANGED stray
           \/ deploy.faults /\ stray' = stray \cup found /\ UNCHANGED seen
    /\ pc' = AfterCount[pc]
    /\ UNCHANGED <<deploy, halt, db, breaker, phase, ahead, scope, sampled, errs, wants,
                   barred, todo, row, daemon, view>>

SeenOf(kind, group) == Cardinality(Of(group, seen[kind]))

\* The kind of a scope's quota is not open.
OverQuota(s) ==
    \/ SeenOf("pending", {s}) >= ScopePending
    \/ SeenOf("open", {s}) >= ScopeOpen
    \/ SeenOf("done", {s}) >= ScopeTrades

AssetQuotas ==
    /\ pc = "next" /\ ahead = {} /\ phase = "asset"
    /\ barred' = {s \in Scopes : OverQuota(s)}
    /\ seen' = NothingSeen
    /\ Loop("portfolio")
    /\ UNCHANGED <<deploy, halt, ledger, breaker, scope, sampled, errs, wants, todo, row,
                   daemon, view>>

PortfolioQuota ==
    /\ pc = "next" /\ ahead = {} /\ phase = "portfolio"
    /\ Loop("check")
    /\ UNCHANGED <<deploy, halt, ledger, breaker, scope, sampled, errs, wants, seen, barred,
                   todo, row, daemon, view>>

\* The rest of run_precheck: a row that changed is saved.
Judge ==
    /\ pc = "judge"
    /\ LET b == EvaluateCircuit(row)
       IN  /\ breaker' = IF b = row THEN breaker ELSE [breaker EXCEPT ![scope] = b]
           /\ barred' = IF halt # {} \/ b.state = "open" THEN barred \cup {scope} ELSE barred
    /\ row' = NewBreaker
    /\ pc' = "next"
    /\ UNCHANGED <<deploy, halt, ledger, phase, ahead, scope, sampled, errs, wants, seen,
                   todo, daemon, view>>

ChecksDone ==
    /\ pc = "next" /\ ahead = {} /\ phase = "check"
    /\ pc' = "allocate"
    /\ UNCHANGED <<deploy, halt, ledger, breaker, phase, ahead, scope, sampled, errs, wants,
                   seen, barred, todo, row, daemon, view>>

\* Faulty variant: the room for unknown submissions is not looked at.
HasRoomForUnknown(C) ==
    /\ Cardinality(C) <= TopK
    /\ Cardinality(C) + Cardinality(seen["open"]) <= MaxPositions
    /\ Cardinality(C) + Cardinality(seen["done"]) <= MaxTrades

\* Faulty variant: the trades of the day are not looked at.
HasRoomForTrades(C) ==
    /\ Cardinality(C) <= TopK
    /\ Cardinality(C) + Cardinality(seen["open"]) <= MaxPositions
    /\ Cardinality(C) + Cardinality(seen["pending"]) <= MaxPending

\* The portfolio's own quota.
HasRoom(C) ==
    /\ Cardinality(C) <= TopK
    /\ Cardinality(C) + Cardinality(seen["open"]) <= MaxPositions
    /\ Cardinality(C) + Cardinality(seen["done"]) <= MaxTrades
    /\ Cardinality(C) + Cardinality(seen["pending"]) <= MaxPending

\* The caps of the assets and clusters.
Fits(C) ==
    \A g \in Groups :
       LET picked == Cardinality(C \cap g.members)
       IN  picked > 0 => /\ picked <= g.cycle
                         /\ picked + SeenOf("pending", g.members) + SeenOf("open", g.members)
                               <= g.cap

Allowed(C) == C # {} => HasRoom(C) /\ Fits(C)

\* What going through the candidates by rank may select, whatever their ranks.
Selections ==
    {C \in SUBSET (wants \ barred) :
        Allowed(C) /\ \A s \in (wants \ barred) \ C : ~Allowed(C \cup {s})}

\* allocate, and the look at what was sampled before anything is executed.
Allocate ==
    /\ pc = "allocate"
    /\ \E C \in Selections :
          /\ todo' = IF sampled = {} THEN C ELSE {}
          /\ IF todo' = {} THEN Loop("record") ELSE pc' = "execute" /\ UNCHANGED <<phase, ahead>>
    /\ seen' = NothingSeen /\ barred' = {} /\ wants' = {}
    /\ UNCHANGED <<deploy, halt, ledger, breaker, scope, sampled, errs, row, daemon, view>>

\* An exception between the candidates and the execution: nothing is executed,
\* and no scope is named in the error.
AllocationFails ==
    /\ deploy.faults
    /\ pc \in Kinds \cup {"next", "judge", "allocate"} /\ phase # "record"
    /\ Loop("record")
    /\ seen' = NothingSeen /\ barred' = {} /\ wants' = {} /\ row' = NewBreaker
    /\ UNCHANGED <<deploy, halt, ledger, breaker, scope, sampled, errs, todo, daemon, view>>

\* execute_scope: the child refuses, or submits one order.  At its timeout it is
\* killed, possibly with an order the broker has taken.
Execute(s) ==
    /\ pc = "execute" /\ s \in todo
    /\ todo' = todo \ {s}
    /\ IF todo = {s} THEN Loop("record") ELSE UNCHANGED <<pc, phase, ahead>>
    /\ \/ UNCHANGED ledger
       \/ \E i \in Of({s}, In({"none"})), st \in {"unknown", "open", "dead"} :
             db' = [db EXCEPT ![i] = st] /\ UNCHANGED stray
       \/ \E i \in Of({s} \cap deploy.flaky, In({"none"})) :
             db' = [db EXCEPT ![i] = "lost"] /\ stray' = stray \cup {i}
    /\ errs' \in {errs, errs \cup ({s} \cap deploy.flaky)}
    /\ UNCHANGED <<deploy, halt, breaker, scope, sampled, wants, seen, barred, row, daemon,
                   view>>

\* What a cycle leaves behind: nothing.
Forget ==
    /\ pc' = "idle" /\ phase' = "asset" /\ ahead' = {} /\ scope' = NoScope
    /\ sampled' = {} /\ errs' = {} /\ wants' = {} /\ seen' = NothingSeen
    /\ barred' = {} /\ todo' = {} /\ row' = NewBreaker

\* record_success or record_failure, and save_breaker.
SaveRow ==
    /\ pc = "save"
    /\ breaker' = [breaker EXCEPT ![scope] =
                      IF scope \in errs THEN RecordFailure(row) ELSE NewBreaker]
    /\ row' = NewBreaker
    /\ pc' = "next"
    /\ UNCHANGED <<deploy, halt, ledger, phase, ahead, scope, sampled, errs, wants, seen,
                   barred, todo, daemon, view>>

\* The end of a cycle, which records nothing if it began under the kill switch;
\* an exception of the recording ends it too.
Finish ==
    /\ pc # "idle" /\ phase = "record"
    /\ (pc = "next" /\ (ahead = {} \/ "kill" \in sampled)) \/ deploy.faults
    /\ Forget
    /\ UNCHANGED <<deploy, halt, ledger, breaker, daemon, view>>

\* The runner is killed; a child it was waiting for goes on.
Die ==
    /\ deploy.faults /\ pc # "idle"
    /\ \/ UNCHANGED ledger
       \/ \E i \in Of(todo, In({"none"})) :
             db' = [db EXCEPT ![i] = "lost"] /\ stray' = stray \cup {i}
    /\ Forget
    /\ UNCHANGED <<deploy, halt, breaker, daemon, view>>

-----------------------------------------------------------------------------
(* The daemon of one scope.                                                *)

DaemonLoad(s) ==
    /\ s \in deploy.daemons /\ dpc[s] = "idle"
    /\ held' = [held EXCEPT ![s] = breaker[s]]
    /\ dpc' = [dpc EXCEPT ![s] = "judge"]
    /\ UNCHANGED <<deploy, halt, ledger, breaker, cycle, view>>

\* run_precheck; its quota and market context may block too.
DaemonJudge(s) ==
    /\ dpc[s] = "judge"
    /\ LET b == EvaluateCircuit(held[s])
       IN  /\ breaker' = IF b = held[s] THEN breaker ELSE [breaker EXCEPT ![s] = b]
           /\ \/ /\ held' = [held EXCEPT ![s] = NewBreaker]
                 /\ dpc' = [dpc EXCEPT ![s] = "idle"]
              \/ /\ halt = {} /\ b.state # "open"
                 /\ held' = [held EXCEPT ![s] = b]
                 /\ dpc' = [dpc EXCEPT ![s] = "run"]
    /\ UNCHANGED <<deploy, halt, ledger, cycle, view>>

\* A cycle of the daemon submits an order.
DaemonSubmits(s) ==
    /\ dpc[s] = "run" /\ s \in deploy.trading
    /\ \E i \in Of({s}, In({"none"})), st \in {"unknown", "open"} :
          db' = [db EXCEPT ![i] = st] /\ stray' = stray \cup {i}
    /\ UNCHANGED <<deploy, halt, breaker, cycle, daemon, view>>

\* It ends and saves the row it has held since its precheck, or dies.
DaemonEnds(s) ==
    /\ dpc[s] = "run"
    /\ \/ breaker' = [breaker EXCEPT ![s] = NewBreaker]
       \/ s \in deploy.flaky /\ breaker' = [breaker EXCEPT ![s] = RecordFailure(held[s])]
       \/ UNCHANGED breaker
    /\ held' = [held EXCEPT ![s] = NewBreaker]
    /\ dpc' = [dpc EXCEPT ![s] = "idle"]
    /\ UNCHANGED <<deploy, halt, ledger, cycle, view>>

-----------------------------------------------------------------------------
(* The operator: ops breaker status, which saves what it evaluated, changed  *)
(* or not, and reset, which also ends in a look at the breaker.              *)

View(s) ==
    /\ deploy.operator /\ viewing = NoScope
    /\ viewing' = s
    /\ viewed' = EvaluateCircuit(breaker[s])
    /\ UNCHANGED <<deploy, halt, ledger, breaker, cycle, daemon>>

SaveView ==
    /\ viewing # NoScope
    /\ breaker' = [breaker EXCEPT ![viewing] = viewed]
    /\ viewing' = NoScope /\ viewed' = NewBreaker
    /\ UNCHANGED <<deploy, halt, ledger, cycle, daemon>>

\* breaker_reset, and maybe_heal_breaker when it finds the row stale.
Reset(s) ==
    /\ deploy.operator
    /\ breaker' = [breaker EXCEPT ![s] = NewBreaker]
    /\ UNCHANGED <<deploy, halt, ledger, cycle, daemon, view>>

-----------------------------------------------------------------------------
Runner ==
    \/ Start \/ Scan \/ Count \/ AssetQuotas \/ PortfolioQuota \/ Judge
    \/ ChecksDone \/ Allocate \/ SaveRow \/ Finish
    \/ \E s \in Scopes : NextScope(s) \/ Execute(s)

Daemon(s) == DaemonLoad(s) \/ DaemonJudge(s) \/ DaemonSubmits(s) \/ DaemonEnds(s)

Next ==
    \/ Tick \/ Runner \/ AllocationFails \/ Die \/ SaveView
    \/ \E w \in Switches : Toggle(w)
    \/ \E i \in Intents : Reconcile(i)
    \/ \E s \in Scopes : Daemon(s) \/ View(s) \/ Reset(s)

Spec == Init /\ [][Next]_vars

\* Time passes, and every step of the runner ends (its children have timeouts).
FairSpec == Spec /\ WF_vars(Tick) /\ WF_vars(Runner)

-----------------------------------------------------------------------------
TypeOK ==
    /\ deploy \in Deployments /\ halt \in SUBSET Switches
    /\ db \in [Intents -> DbStates] /\ stray \in SUBSET Intents
    /\ breaker \in [Scopes -> Breakers] /\ row \in Breakers
    /\ pc \in Places /\ phase \in Phases
    /\ ahead \in SUBSET Scopes /\ scope \in Scopes \cup {NoScope}
    /\ sampled \in SUBSET Switches /\ errs \in SUBSET Scopes /\ wants \in SUBSET Scopes
    /\ seen \in [Kinds -> SUBSET Intents]
    /\ barred \in SUBSET Scopes /\ todo \in SUBSET Scopes
    /\ dpc \in [Scopes -> {"idle", "judge", "run"}] /\ held \in [Scopes -> Breakers]
    /\ viewing \in Scopes \cup {NoScope} /\ viewed \in Breakers

\* Orders a count of the ledger can take in.
Known(states) == In(states) \ stray

\* No asset or cluster has more live orders than its cap, although unknown
\* submissions turn into positions while they are being counted.
GroupExposure == \A g \in Groups : Cardinality(Of(g.members, Known(Live))) <= g.cap

\* The portfolio has fewer live orders than positions and unknown submissions
\* are allowed together: the two limits are checked one by one.
TotalExposure == Cardinality(Known(Live)) < MaxPositions + MaxPending

\* Nobody trades more often a day than the quotas say, a scope or the portfolio.
DayTrades ==
    /\ Cardinality(Known(Consuming)) <= MaxTrades
    /\ \A s \in Scopes : Cardinality(Of({s}, Known(Consuming))) <= ScopeTrades

\* No row and no copy of one, however stale when it is saved, is closed with too
\* many failures or open with too few.
RowsCoherent ==
    /\ \A s \in Scopes : Coherent(breaker[s]) /\ Coherent(held[s])
    /\ Coherent(row) /\ Coherent(viewed)

\* A breaker does not stay open: its cooldown ends even if every cycle fails and
\* stale rows are saved again.
BreakerRecovers == \A s \in Scopes : []<>(deploy.faults \/ breaker[s].state # "open")
=============================================================================
