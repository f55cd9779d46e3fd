---------------------------- MODULE IQConnection ----------------------------
(***************************************************************************)
(* IQClient's side of the transport: how one client logs in, calls the     *)
(* broker and retries, through which proxy, and what it reports to the     *)
(* NetworkTransportManager.                                                *)
(*                                                                         *)
(* The client is used by one thread; a call given up at a timeout of       *)
(* get_market_context goes on in a thread of its own beside it.  Both use  *)
(* the process environment, which the lock of apply_environment protects,  *)
(* and the client's fields, which nothing protects.                        *)
(*                                                                         *)
(* A login given up at its timeout goes on too, in a thread that is in no  *)
(* block of apply_environment: what it does to the API object is           *)
(* LateLogin, and the variables it runs with are nobody's.  A history      *)
(* request given up at its timeout changes nothing that is modelled.       *)
(***************************************************************************)
EXTENDS NetworkTransport

CONSTANTS
    Main, Late,      \* the caller's thread, and the one of a call given up
    NoThread,
    Retries,         \* attempts of a call
    ConnectRetries,  \* attempts of connect()
    MaxLate          \* bound: calls given up

Threads == {Main, Late}

ASSUME ConnectionAssumption ==
    /\ Main # Late /\ NoThread \notin Threads
    /\ Retries \in Nat \ {0} /\ ConnectRetries \in Nat \ {0} /\ MaxLate \in Nat

VARIABLES
    up,      \* environment: the endpoints that work once it is calm
    calm,    \* environment: endpoints go up and down no more, and the broker answers
    env,     \* endpoint whose variables os.environ holds
    holder,  \* thread that has the lock of apply_environment
    active,  \* _active_transport_binding
    api,     \* endpoint the API object is bridged to
    live,    \* the API object is connected
    adrift,  \* a login given up at its timeout still runs on the API object
    chosen,  \* change_balance has succeeded on the API object
    spare,   \* calls that may still be given up
    served,  \* the last operation begun has succeeded
    pc, op,           \* of each thread: its place, its operation,
    tries, logins,    \* the attempts left to the operation and to connect(),
    aim,              \* what it selects an endpoint for,
    bind, cbind,      \* the endpoints of the operation and of the login,
    probing,          \* endpoints it is to probe,
    saved             \* what it is to restore in os.environ

world   == <<failOpen, up, calm>>
object  == <<api, live, adrift, chosen>>
client  == <<active, object, spare, served>>
process == <<env, holder, saved>>
locals  == <<pc, op, tries, logins, aim, bind, cbind, probing>>
vars    == <<manager, world, client, process, locals>>

Ops  == {"call", "candles", "history", "ensure"}
Aims == {"op", "connect", "refresh"}
Pcs  == {"idle", "pick", "probe", "enter", "check", "connected", "again", "request",
         "build", "login", "answer", "raise", "sleep"}

Init ==
    /\ ManagerInit
    /\ up = Endpoints /\ calm = FALSE
    /\ env = NoEndpoint /\ holder = NoThread /\ saved = [t \in Threads |-> <<>>]
    /\ active = NoEndpoint /\ api = NoEndpoint /\ live = FALSE
    /\ adrift = FALSE /\ chosen = FALSE
    /\ spare = MaxLate /\ served = TRUE
    /\ pc = [t \in Threads |-> "idle"] /\ op = [t \in Threads |-> "ensure"]
    /\ tries = [t \in Threads |-> 0] /\ logins = [t \in Threads |-> 0]
    /\ aim = [t \in Threads |-> "op"]
    /\ bind = [t \in Threads |-> NoEndpoint] /\ cbind = [t \in Threads |-> NoEndpoint]
    /\ probing = [t \in Threads |-> {}]

-----------------------------------------------------------------------------
(* The environment.                                                        *)

\* Until here anything may work or fail; from here on what is up works, and only that.
Calm ==
    /\ ~calm /\ calm' = TRUE /\ up' \in SUBSET Endpoints \ {{}}
    /\ UNCHANGED <<manager, failOpen, client, process, locals>>

Works(e) == calm => e \in up
Breaks(e) == calm => e \notin up

\* A connection breaks; one through an endpoint that is down does so in the end.
Drop ==
    /\ live /\ Breaks(api)
    /\ live' = FALSE
    /\ UNCHANGED <<manager, world, active, api, adrift, chosen, spare, served, process, locals>>

\* The login in a thread left behind by _run_with_timeout succeeds in the end: the API
\* object is connected, and nobody chooses the balance.
LateLogin ==
    /\ adrift /\ Works(api)
    /\ live' = TRUE /\ adrift' = FALSE
    /\ UNCHANGED <<manager, world, active, api, chosen, spare, served, process, locals>>

Tick ==
    /\ \A t \in Threads : pc[t] = "idle"
    /\ TimePasses
    /\ UNCHANGED <<world, client, process, locals>>

-----------------------------------------------------------------------------
Goto(t, place) == pc' = [pc EXCEPT ![t] = place]

\* connect() is over for t.
Forget(t) ==
    /\ logins' = [logins EXCEPT ![t] = 0] /\ cbind' = [cbind EXCEPT ![t] = NoEndpoint]
    /\ aim' = [aim EXCEPT ![t] = "op"]

\* The operation of t is over.
End(t) ==
    /\ Goto(t, "idle")
    /\ op' = [op EXCEPT ![t] = "ensure"] /\ tries' = [tries EXCEPT ![t] = 0]
    /\ bind' = [bind EXCEPT ![t] = NoEndpoint]
    /\ Forget(t) /\ UNCHANGED probing

\* apply_environment: entering and leaving its block.
Enter(t, e) ==
    IF e = NoEndpoint THEN UNCHANGED process ELSE
    /\ holder \in {NoThread, t} /\ holder' = t
    /\ saved' = [saved EXCEPT ![t] = Append(@, env)]
    /\ env' = e

Leave(t) ==
    IF saved[t] = <<>> THEN UNCHANGED process ELSE
    /\ env' = saved[t][Len(saved[t])]
    /\ saved' = [saved EXCEPT ![t] = SubSeq(@, 1, Len(@) - 1)]
    /\ holder' = IF Len(saved[t]) = 1 THEN NoThread ELSE t

-----------------------------------------------------------------------------
\* The caller begins an operation; since its last one some time has passed.  A call
\* it gives up is begun by a thread of its own and left behind.
Begin(t, o) ==
    /\ pc[Main] = "idle" /\ pc[t] = "idle"
    /\ t = Late => o = "call" /\ spare > 0
    /\ IF t = Main THEN TimePasses ELSE UNCHANGED manager
    /\ spare' = IF t = Late THEN spare - 1 ELSE spare
    /\ served' = IF t = Main THEN FALSE ELSE served
    /\ op' = [op EXCEPT ![t] = o]
    /\ tries' = [tries EXCEPT ![t] = Retries]
    /\ Goto(t, IF o = "ensure" THEN "check" ELSE "pick")
    /\ UNCHANGED <<world, active, object, process, logins, aim, bind, cbind, probing>>

\* What a selection is followed by; _call_with_retries makes its binding the active one.
Selected(t, e) ==
    /\ bind' = IF aim[t] = "op" THEN [bind EXCEPT ![t] = e] ELSE bind
    /\ cbind' = IF aim[t] = "op" THEN cbind ELSE [cbind EXCEPT ![t] = e]
    /\ Goto(t, IF aim[t] = "op" THEN "enter" ELSE "build")
    /\ active' = IF aim[t] = "op" /\ op[t] = "call" THEN e ELSE active
    /\ UNCHANGED <<op, tries, logins, aim, probing>>

Keeps(t) == aim[t] # "connect" /\ active # NoEndpoint

\* _select_transport_binding, up to the health checks: only connect() selects
\* when a binding is active.
Pick(t) ==
    /\ pc[t] = "pick"
    /\ \/ Keeps(t) /\ Selected(t, active) /\ UNCHANGED manager
       \/ \E e \in Endpoints : ~Keeps(t) /\ Preferred(e) /\ Take(e) /\ Selected(t, e)
       \/ /\ ~Keeps(t) /\ Available = {}
          /\ probing' = [probing EXCEPT ![t] = Probeable] /\ Goto(t, "probe")
          /\ UNCHANGED <<manager, active, op, tries, logins, aim, bind, cbind>>
    /\ UNCHANGED <<world, object, spare, served, process>>

\* The endpoints are probed outside of the manager's lock.
Probe(t, e) ==
    /\ pc[t] = "probe" /\ e \in probing[t]
    /\ \E ok \in BOOLEAN : (IF ok THEN Works(e) ELSE Breaks(e)) /\ ProbeAnswers(e, ok)
    /\ probing' = [probing EXCEPT ![t] = @ \ {e}]
    /\ UNCHANGED <<world, client, process, pc, op, tries, logins, aim, bind, cbind>>

\* No endpoint: get_candles and the history go on with the active binding, if any.
Unavailable(t) ==
    \/ aim[t] = "connect" /\ Goto(t, "raise") /\ Forget(t)
       /\ UNCHANGED <<active, op, tries, bind, probing>>
    \/ aim[t] = "op" /\ op[t] \in {"candles", "history"} /\ Selected(t, active)
    \/ aim[t] # "connect" /\ op[t] = "call" /\ End(t) /\ UNCHANGED active

\* Only get_candles leaves allow_fail_open to the configuration.
TakesLastResort(t) == failOpen /\ op[t] = "candles" /\ aim[t] = "op"

Reselect(t) ==
    /\ pc[t] = "probe" /\ probing[t] = {}
    /\ \/ \E e \in Endpoints : Preferred(e) /\ Take(e) /\ Selected(t, e)
       \/ /\ Available = {} /\ TakesLastResort(t)
          /\ \E e \in Endpoints : LastResort(e) /\ Take(e) /\ Selected(t, e)
       \/ /\ Available = {} /\ ~TakesLastResort(t)
          /\ Unavailable(t) /\ UNCHANGED manager
    /\ UNCHANGED <<world, object, spare, served, process>>

EnterOp(t) ==
    /\ pc[t] = "enter"
    /\ Enter(t, bind[t])
    /\ Goto(t, "check")
    /\ UNCHANGED <<manager, world, client, op, tries, logins, aim, bind, cbind, probing>>

\* The connection is there: get_candles leaves the block it tested it in.
Connected(t) ==
    \/ op[t] = "candles" /\ Leave(t) /\ Goto(t, "again")
       /\ UNCHANGED <<op, tries, logins, aim, bind, cbind, probing>>
    \/ op[t] \in {"call", "history"} /\ Goto(t, "request") /\ UNCHANGED process
       /\ UNCHANGED <<op, tries, logins, aim, bind, cbind, probing>>
    \/ op[t] = "ensure" /\ End(t) /\ UNCHANGED process

\* ensure_connection.
Check(t) ==
    /\ \/ /\ pc[t] = "connected" \/ (pc[t] = "check" /\ live)
          /\ Connected(t)
          /\ served' = (served \/ (t = Main /\ op[t] = "ensure"))
       \/ /\ pc[t] = "check" /\ ~live
          /\ aim' = [aim EXCEPT ![t] = "connect"]
          /\ logins' = [logins EXCEPT ![t] = ConnectRetries]
          /\ Goto(t, "pick")
          /\ UNCHANGED <<process, op, tries, bind, cbind, probing, served>>
    /\ UNCHANGED <<manager, world, active, object, spare>>

\* get_candles resolves the asset's name, which may raise, and enters again.
Again(t) ==
    /\ pc[t] = "again"
    /\ \/ Enter(t, bind[t]) /\ Goto(t, "request")
       \/ ~calm /\ Goto(t, "raise") /\ UNCHANGED process
    /\ UNCHANGED <<manager, world, client, op, tries, logins, aim, bind, cbind, probing>>

-----------------------------------------------------------------------------
(* connect().                                                              *)

\* A new IQ_Option: a login still running on the old one no longer matters.
NewObject(e) == api' = e /\ live' = FALSE /\ adrift' = FALSE /\ chosen' = FALSE

\* _new_api, for a login or after a failed call; its block is over at once.
Build(t) ==
    /\ pc[t] = "build" /\ holder \in {NoThread, t}
    /\ NewObject(cbind[t])
    /\ \/ aim[t] = "connect" /\ Goto(t, "login") /\ UNCHANGED <<logins, aim, cbind>>
       \/ aim[t] = "refresh" /\ Goto(t, "sleep") /\ Forget(t)
    /\ UNCHANGED <<manager, world, active, spare, served, process, op, tries, bind, probing>>

Login(t) ==
    /\ pc[t] = "login"
    /\ Enter(t, cbind[t])
    /\ Goto(t, "answer")
    /\ UNCHANGED <<manager, world, client, op, tries, logins, aim, bind, cbind, probing>>

\* The login succeeds and with it the change of balance.
LoggedIn(t) ==
    /\ pc[t] = "answer" /\ Works(api)
    /\ live' = TRUE /\ chosen' = TRUE /\ active' = cbind[t]
    /\ RecordSuccess(cbind[t])
    /\ Leave(t)
    /\ Forget(t) /\ Goto(t, "connected")
    /\ UNCHANGED <<world, api, adrift, spare, served, op, tries, bind, probing>>

\* It fails, or is given up at its timeout and may go on by itself, or it succeeds and
\* the change of balance fails.
LoginFails(t) ==
    /\ pc[t] = "answer" /\ Breaks(api)
    /\ RecordFailure(cbind[t])
    /\ Leave(t)
    /\ \/ /\ logins[t] > 1 /\ active' = NoEndpoint /\ UNCHANGED live /\ adrift' \in BOOLEAN
          /\ logins' = [logins EXCEPT ![t] = @ - 1]
          /\ cbind' = [cbind EXCEPT ![t] = NoEndpoint]
          /\ Goto(t, "sleep") /\ UNCHANGED aim
       \/ /\ logins[t] = 1 /\ active' = NoEndpoint /\ UNCHANGED live /\ adrift' \in BOOLEAN
          /\ Goto(t, "raise") /\ Forget(t)
       \/ /\ Works(api) /\ live' = TRUE /\ UNCHANGED <<active, adrift>>
          /\ Goto(t, "raise") /\ Forget(t)
    /\ UNCHANGED <<world, api, chosen, spare, served, op, tries, bind, probing>>

-----------------------------------------------------------------------------
(* The request.                                                            *)

Answered(t) ==
    /\ pc[t] = "request" /\ live /\ Works(api)
    /\ RecordSuccess(bind[t])
    /\ Leave(t) /\ End(t)
    /\ served' = (served \/ t = Main)
    /\ UNCHANGED <<world, active, object, spare>>

RequestFails(t) ==
    /\ pc[t] = "request" /\ (live => Breaks(api))
    /\ Goto(t, "raise")
    /\ UNCHANGED <<manager, world, client, process, op, tries, logins, aim, bind, cbind, probing>>

\* Faulty variant: a call is tried again with the API object as it is.
RetryAsIs(t) ==
    /\ tries' = [tries EXCEPT ![t] = @ - 1]
    /\ IF op[t] = "call"
       THEN Goto(t, "sleep") /\ UNCHANGED <<aim, object>>
       ELSE Goto(t, "sleep") /\ UNCHANGED aim /\ NewObject(NoEndpoint)
    /\ bind' = [bind EXCEPT ![t] = NoEndpoint]
    /\ UNCHANGED <<op, logins, cbind, probing>>

\* Each attempt has a new API object; get_candles and the history have one without proxy.
Retry(t) ==
    /\ tries' = [tries EXCEPT ![t] = @ - 1]
    /\ IF op[t] = "call"
       THEN aim' = [aim EXCEPT ![t] = "refresh"] /\ Goto(t, "pick") /\ UNCHANGED object
       ELSE Goto(t, "sleep") /\ UNCHANGED aim /\ NewObject(NoEndpoint)
    /\ bind' = [bind EXCEPT ![t] = NoEndpoint]
    /\ UNCHANGED <<op, logins, cbind, probing>>

\* An empty batch of candles is retried, and nothing is recorded.
EmptyBatch(t) ==
    /\ pc[t] = "request" /\ op[t] = "candles" /\ ~calm
    /\ Leave(t)
    /\ \/ tries[t] > 1 /\ Retry(t)
       \/ tries[t] = 1 /\ End(t) /\ UNCHANGED object
    /\ UNCHANGED <<manager, world, active, spare, served>>

\* The except clauses: the endpoint of the operation gets the failure.  The
\* history gives up at a timeout, and its request goes on without anyone to answer.
Failed(t) ==
    /\ pc[t] = "raise"
    /\ RecordFailure(bind[t])
    /\ Leave(t)
    /\ active' = IF op[t] = "call" THEN NoEndpoint ELSE active
    /\ \/ tries[t] > 1 /\ op[t] # "ensure" /\ Retry(t)
       \/ (tries[t] = 1 \/ op[t] \in {"ensure", "history"}) /\ End(t) /\ UNCHANGED object
    /\ UNCHANGED <<world, spare, served>>

\* The wait before the next attempt.
Sleep(t) ==
    /\ pc[t] = "sleep"
    /\ TimePasses
    /\ Goto(t, "pick")
    /\ UNCHANGED <<world, client, process, op, tries, logins, aim, bind, cbind, probing>>

-----------------------------------------------------------------------------
Step(t) ==
    \/ Pick(t) \/ Reselect(t) \/ EnterOp(t) \/ Check(t) \/ Again(t)
    \/ Build(t) \/ Login(t) \/ LoggedIn(t) \/ LoginFails(t)
    \/ Answered(t) \/ RequestFails(t) \/ EmptyBatch(t) \/ Failed(t) \/ Sleep(t)
    \/ \E e \in Endpoints : Probe(t, e)

Next ==
    \/ Calm \/ Drop \/ LateLogin \/ Tick
    \/ \E t \in Threads : Step(t) \/ \E o \in Ops : Begin(t, o)

Spec == Init /\ [][Next]_vars

\* The caller goes on with one operation after the other, no step of a thread waits
\* for ever (all calls have timeouts), broken connections are noticed, and time passes;
\* a login given up need not ever come through.
FairSpec ==
    /\ Spec
    /\ WF_vars(Drop) /\ WF_vars(\E o \in Ops : Begin(Main, o))
    /\ \A t \in Threads : WF_vars(Step(t))

-----------------------------------------------------------------------------
(* Properties.                                                             *)

\* Everything has its type; of the manager's state, the time left of a quarantine stays
\* under quarantine_max_s whatever the penalties and probes were.
TypeOK ==
    /\ ManagerTypes
    /\ up \subseteq Endpoints /\ calm \in BOOLEAN
    /\ env \in Endpoints \cup {NoEndpoint} /\ holder \in Threads \cup {NoThread}
    /\ \A t \in Threads : saved[t] \in Seq(Endpoints \cup {NoEndpoint}) /\ Len(saved[t]) <= 2
    /\ {active, api} \subseteq Endpoints \cup {NoEndpoint}
    /\ {live, adrift, chosen, served} \subseteq BOOLEAN /\ spare \in 0..MaxLate
    /\ pc \in [Threads -> Pcs] /\ op \in [Threads -> Ops] /\ aim \in [Threads -> Aims]
    /\ tries \in [Threads -> 0..Retries] /\ logins \in [Threads -> 0..ConnectRetries]
    /\ {bind, cbind} \subseteq [Threads -> Endpoints \cup {NoEndpoint}]
    /\ probing \in [Threads -> SUBSET Endpoints]

\* A retry never goes out on a connection whose balance was never chosen: neither on the
\* one that a login given up has made meanwhile nor on the one whose change_balance has
\* failed.  (The first attempt of the next operation may: README, section 3.  With one
\* thread: a call given up shares the API object with its caller.)
RetryHasBalance ==
    MaxLate = 0 => \A t \in Threads : pc[t] = "request" /\ tries[t] < Retries => chosen

\* What a success is good for, with the setting of the profiles: the quarantine of an
\* endpoint ends early only by a health check of it or by a login or a request that went
\* through it, so that a client that has failed over stays there.
QuarantineIsEarned ==
    [][\A e \in Endpoints :
        ~failOpen /\ left[e] > 1 /\ left'[e] = 0
            => api = e \/ \E t \in Threads : probing'[t] # probing[t]]_vars

\* Once outages are over and an endpoint works, the caller is served again and again:
\* quarantines move it off the endpoints that stay down and let it back to the one that
\* works, whatever retries, health checks and inflight counts were left behind.  So it is
\* with fail_open_when_exhausted off, the setting of every profile; with it on the caller
\* may be refused for ever (README, section 3).
FailsOver == []<>(served \/ ~calm \/ failOpen)
=============================================================================
