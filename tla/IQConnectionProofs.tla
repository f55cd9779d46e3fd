------------------------- MODULE IQConnectionProofs -------------------------
(***************************************************************************)
(* AwaitedEnvIsOwn for any endpoints, settings, retries and outages, and   *)
(* with calls given up: the thread of such a call and the caller's share   *)
(* os.environ, and never meet in it.  What the manager records plays no    *)
(* part in that proof; that it stays within its limits is proved after it, *)
(* and then that a retry goes out with its balance mode set                *)
(* (RetryHasBalance), which needs both.                                    *)
(***************************************************************************)
EXTENDS IQConnection, SequenceTheorems, TLAPS

Any == Endpoints \cup {NoEndpoint}

Shape ==
    /\ pc \in [Threads -> Pcs] /\ op \in [Threads -> Ops] /\ aim \in [Threads -> Aims]
    /\ bind \in [Threads -> Any] /\ cbind \in [Threads -> Any]
    /\ saved \in [Threads -> Seq(Any)]
    /\ active \in Any /\ env \in Any /\ holder \in Threads \cup {NoThread}

\* Places where a thread is in no block of apply_environment, and those where it is
\* in the block of its operation (which is none if that has no endpoint).
Turning == {"pick", "probe", "build", "sleep"}
Outside(t) == pc[t] \in {"idle", "enter", "again"} \/ (pc[t] \in Turning /\ aim[t] # "connect")
Inside(t) ==
    \/ pc[t] \in {"check", "connected", "request", "login"}
    \/ pc[t] \in Turning /\ aim[t] = "connect"

\* What a thread in the block of its operation is to restore.
Outer(t) == IF bind[t] = NoEndpoint THEN <<>> ELSE <<NoEndpoint>>
Nested(t) == IF bind[t] = NoEndpoint THEN <<NoEndpoint>> ELSE <<NoEndpoint, bind[t]>>

AimInv(t) ==
    /\ pc[t] \notin Turning => aim[t] = IF pc[t] \in {"login", "answer"} THEN "connect" ELSE "op"
    /\ pc[t] \in {"build", "login", "answer"} => cbind[t] # NoEndpoint
    /\ pc[t] = "idle" => bind[t] = NoEndpoint
    /\ aim[t] = "refresh" => bind[t] = NoEndpoint
    /\ op[t] = "ensure" => bind[t] = NoEndpoint
    /\ op[t] = "ensure" /\ pc[t] \in Turning => aim[t] = "connect"

BlockInv(t) ==
    /\ saved[t] # <<>> <=> holder = t
    /\ Outside(t) => saved[t] = <<>>
    /\ Inside(t) => saved[t] = Outer(t) /\ (bind[t] # NoEndpoint => env = bind[t])
    /\ pc[t] = "answer" => saved[t] = Nested(t) /\ env = cbind[t]
    /\ pc[t] = "raise" => saved[t] \in {<<>>, <<NoEndpoint>>}

Own(t) == AimInv(t) /\ BlockInv(t)

EnvInv ==
    /\ Shape
    /\ holder = NoThread => env = NoEndpoint
    /\ \A t \in Threads : Own(t)

-----------------------------------------------------------------------------
LEMMA Tuples ==
    ASSUME NEW a \in Any, NEW b \in Any
    PROVE  /\ <<>> # <<a>> /\ <<>> # <<a, b>> /\ <<a>> # <<a, b>>
           /\ Len(<<>>) = 0 /\ Len(<<a>>) = 1 /\ Len(<<a, b>>) = 2
           /\ Append(<<>>, a) = <<a>> /\ Append(<<a>>, b) = <<a, b>>
           /\ SubSeq(<<a>>, 1, 0) = <<>> /\ SubSeq(<<a, b>>, 1, 1) = <<a>>
<1>1. <<>> # <<a>> /\ <<>> # <<a, b>> /\ <<a>> # <<a, b>>
    OBVIOUS
<1>2. Len(<<>>) = 0 /\ Len(<<a>>) = 1 /\ Len(<<a, b>>) = 2
    OBVIOUS
<1>3. Append(<<>>, a) = <<a>> /\ SubSeq(<<a>>, 1, 0) = <<>>
    OBVIOUS
<1>4. <<a>> \in Seq(Any) /\ <<a, b>> \in Seq(Any)
    OBVIOUS
<1>5. Append(<<a>>, b) = <<a, b>>
  <2>1. /\ Append(<<a>>, b) \in Seq(Any) /\ Len(Append(<<a>>, b)) = 2
        /\ Append(<<a>>, b)[1] = a /\ Append(<<a>>, b)[2] = b
    BY <1>2, <1>4
  <2>2. \A i \in 1..Len(Append(<<a>>, b)) : Append(<<a>>, b)[i] = <<a, b>>[i]
    BY <2>1
  <2>3. Len(Append(<<a>>, b)) = Len(<<a, b>>)
    BY <2>1, <1>2
  <2> QED
    BY <2>1, <2>2, <2>3, <1>4, SeqEqual, Zenon
<1>6. SubSeq(<<a, b>>, 1, 1) = <<a>>
  <2>1. \A i \in 1..1 : <<a, b>>[i] \in Any
    OBVIOUS
  <2>2. /\ SubSeq(<<a, b>>, 1, 1) \in Seq(Any) /\ Len(SubSeq(<<a, b>>, 1, 1)) = 1
        /\ SubSeq(<<a, b>>, 1, 1)[1] = a
    BY <2>1, SubSeqProperties
  <2>3. \A i \in 1..Len(SubSeq(<<a, b>>, 1, 1)) : SubSeq(<<a, b>>, 1, 1)[i] = <<a>>[i]
    BY <2>2
  <2>4. Len(SubSeq(<<a, b>>, 1, 1)) = Len(<<a>>)
    BY <2>2, <1>2
  <2> QED
    BY <2>2, <2>3, <2>4, <1>4, SeqEqual, Zenon
<1> QED
    BY <1>1, <1>2, <1>3, <1>5, <1>6

\* Entering a block puts the variables that were there aside.
LEMMA EnterBlock ==
    ASSUME Shape, NEW t \in Threads, NEW e \in Any, Enter(t, e)
    PROVE  /\ e = NoEndpoint => UNCHANGED process
           /\ e # NoEndpoint => /\ holder \in {NoThread, t} /\ holder' = t /\ env' = e
                                /\ saved'[t] = Append(saved[t], env)
           /\ \A u \in Threads : u # t =>
                 /\ saved'[u] = saved[u]
                 /\ (holder' = holder /\ env' = env) \/ (holder # u /\ holder' # u)
           /\ saved' \in [Threads -> Seq(Any)] /\ env' \in Any
           /\ holder' \in Threads \cup {NoThread}
<1>1. CASE e = NoEndpoint
    BY <1>1 DEF Shape, Enter, process
<1>2. CASE e # NoEndpoint
  <2>1. /\ holder \in {NoThread, t} /\ holder' = t /\ env' = e
        /\ saved' = [saved EXCEPT ![t] = Append(saved[t], env)]
    BY <1>2 DEF Enter
  <2>2. Append(saved[t], env) \in Seq(Any)
    BY DEF Shape
  <2> QED
    BY <1>2, <2>1, <2>2, ConnectionAssumption DEF Shape
<1> QED
    BY <1>1, <1>2

\* Leaving it puts them back.
LEMMA LeaveBlock ==
    ASSUME Shape, NEW t \in Threads, NEW b \in Any, Leave(t),
           saved[t] # <<>> => holder = t,
           saved[t] \in {<<>>, <<NoEndpoint>>, <<NoEndpoint, b>>}
    PROVE  /\ saved[t] = <<>> => UNCHANGED process
           /\ saved[t] = <<NoEndpoint>> =>
                 env' = NoEndpoint /\ holder' = NoThread /\ saved'[t] = <<>>
           /\ saved[t] = <<NoEndpoint, b>> =>
                 env' = b /\ holder' = t /\ saved'[t] = <<NoEndpoint>>
           /\ \A u \in Threads : u # t =>
                 /\ saved'[u] = saved[u]
                 /\ (holder' = holder /\ env' = env) \/ (holder # u /\ holder' # u)
           /\ saved' \in [Threads -> Seq(Any)] /\ env' \in Any
           /\ holder' \in Threads \cup {NoThread}
<1>1. CASE saved[t] = <<>>
    BY <1>1, Tuples DEF Shape, Leave, process
<1>2. CASE saved[t] = <<NoEndpoint>>
  <2>1. /\ env' = NoEndpoint /\ holder' = NoThread
        /\ saved' = [saved EXCEPT ![t] = <<>>]
    BY <1>2, Tuples DEF Leave
  <2> QED
    BY <1>2, <2>1, Tuples, ConnectionAssumption DEF Shape, Any
<1>3. CASE saved[t] = <<NoEndpoint, b>>
  <2>1. /\ env' = b /\ holder' = t
        /\ saved' = [saved EXCEPT ![t] = <<NoEndpoint>>]
    BY <1>3, Tuples DEF Leave
  <2>2. <<NoEndpoint>> \in Seq(Any)
    BY DEF Any
  <2> QED
    BY <1>3, <2>1, <2>2, Tuples DEF Shape
<1> QED
    BY <1>1, <1>2, <1>3
-----------------------------------------------------------------------------
\* The step of a thread changes only what is its own.
OnlyBy(t) ==
    \A u \in Threads : u # t =>
        /\ pc'[u] = pc[u] /\ op'[u] = op[u] /\ aim'[u] = aim[u]
        /\ bind'[u] = bind[u] /\ cbind'[u] = cbind[u]
        /\ saved'[u] = saved[u]
        /\ (holder' = holder /\ env' = env) \/ (holder # u /\ holder' # u)

LEMMA Threadwise ==
    ASSUME EnvInv, NEW t \in Threads, OnlyBy(t), Shape', Own(t)',
           holder' = NoThread => env' = NoEndpoint
    PROVE  EnvInv'
<1>1. ASSUME NEW u \in Threads, u # t PROVE Own(u)'
  <2>1. AimInv(u)'
    BY <1>1 DEF EnvInv, Own, AimInv, OnlyBy
  <2>2. saved'[u] # <<>> <=> holder' = u
    BY <1>1 DEF EnvInv, Own, BlockInv, OnlyBy
  <2>3. Outside(u)' => saved'[u] = <<>>
    BY <1>1 DEF EnvInv, Own, BlockInv, OnlyBy, Outside
  <2>4. Inside(u)' => saved'[u] = Outer(u)' /\ (bind'[u] # NoEndpoint => env' = bind'[u])
    <3> SUFFICES ASSUME Inside(u)' PROVE saved'[u] = Outer(u)' /\ (bind'[u] # NoEndpoint => env' = bind'[u])
        OBVIOUS
    <3>1. saved[u] = Outer(u) /\ (bind[u] # NoEndpoint => env = bind[u])
        BY <1>1 DEF EnvInv, Own, BlockInv, OnlyBy, Inside
    <3>2. bind[u] # NoEndpoint => holder = u
        BY <3>1 DEF EnvInv, Own, BlockInv, Outer
    <3> QED
        BY <1>1, <3>1, <3>2 DEF OnlyBy, Outer
  <2>5. pc'[u] = "answer" => saved'[u] = Nested(u)' /\ env' = cbind'[u]
    <3> SUFFICES ASSUME pc'[u] = "answer" PROVE saved'[u] = Nested(u)' /\ env' = cbind'[u]
        OBVIOUS
    <3>1. saved[u] = Nested(u) /\ env = cbind[u]
        BY <1>1 DEF EnvInv, Own, BlockInv, OnlyBy
    <3>2. Nested(u) # <<>>
        BY DEF Nested
    <3>3. holder = u
        BY <3>1, <3>2 DEF EnvInv, Own, BlockInv
    <3> QED
        BY <1>1, <3>1, <3>3 DEF OnlyBy, Nested
  <2>6. pc'[u] = "raise" => saved'[u] \in {<<>>, <<NoEndpoint>>}
    BY <1>1 DEF EnvInv, Own, BlockInv, OnlyBy
  <2> QED
    BY <2>1, <2>2, <2>3, <2>4, <2>5, <2>6 DEF Own, BlockInv
<1> QED
    BY <1>1 DEF EnvInv

LEMMA InitEnv == Init => EnvInv
BY ConnectionAssumption, TransportAssumption
   DEF Init, EnvInv, Shape, Any, Own, AimInv, BlockInv, Outside, Inside, Turning, Threads,
       Pcs, Aims, Ops

-----------------------------------------------------------------------------
(* Steps in which a thread enters or leaves no block.                      *)

LEMMA SelectedShape ==
    ASSUME EnvInv, NEW t \in Threads, NEW e \in Any, Selected(t, e), UNCHANGED process,
           pc[t] \in {"pick", "probe"}, aim[t] # "op" => e # NoEndpoint
    PROVE  EnvInv'
<1> USE DEF process
<1>1. Shape'
    BY DEF EnvInv, Shape, Selected, Goto, Pcs
<1>2. OnlyBy(t)
    BY DEF EnvInv, Shape, Selected, Goto, OnlyBy
<1>3. Own(t)'
  <2>1. CASE aim[t] = "op"
    BY <2>1 DEF EnvInv, Shape, Selected, Goto, Own, AimInv, BlockInv, Outside, Inside, Turning
  <2>2. CASE aim[t] # "op"
    BY <2>2 DEF EnvInv, Shape, Selected, Goto, Own, AimInv, BlockInv, Outside, Inside,
                Turning, Outer
  <2> QED
    BY <2>1, <2>2
<1> QED
    BY <1>1, <1>2, <1>3, Threadwise DEF EnvInv

\* The end of an operation outside of every block.
LEMMA EndOutside ==
    ASSUME EnvInv, NEW t \in Threads, End(t), UNCHANGED <<process>>, saved[t] = <<>>,
           active' \in Any
    PROVE  EnvInv'
<1> USE DEF process
<1>1. Shape'
    BY DEF EnvInv, Shape, End, Forget, Goto, Pcs, Aims, Ops, Any
<1>2. OnlyBy(t)
    BY DEF EnvInv, Shape, End, Forget, Goto, OnlyBy
<1>3. Own(t)'
    BY DEF EnvInv, Shape, End, Forget, Goto, Own, AimInv, BlockInv, Outside, Inside, Turning
<1> QED
    BY <1>1, <1>2, <1>3, Threadwise DEF EnvInv

LEMMA SelectKeeps ==
    ASSUME EnvInv, NEW t \in Threads, Pick(t) \/ Reselect(t) \/ \E e \in Endpoints : Probe(t, e)
    PROVE  EnvInv'
<1> USE DEF client, process, locals
<1>1. CASE Pick(t)
  <2>1. CASE Keeps(t) /\ Selected(t, active)
    BY <1>1, <2>1, SelectedShape DEF Pick, Keeps, EnvInv, Shape
  <2>2. CASE \E e \in Endpoints : Selected(t, e)
    BY <1>1, <2>2, SelectedShape, TransportAssumption DEF Pick, Any
  <2>3. CASE /\ Goto(t, "probe") /\ UNCHANGED <<active, op, aim, bind, cbind>>
    <3>1. Shape' /\ OnlyBy(t)
        BY <1>1, <2>3 DEF Pick, EnvInv, Shape, Goto, Pcs, OnlyBy
    <3>2. Own(t)'
        BY <1>1, <2>3 DEF Pick, EnvInv, Shape, Goto, Own, AimInv, BlockInv, Outside, Inside,
                          Turning, Outer
    <3> QED
        BY <1>1, <3>1, <3>2, Threadwise DEF EnvInv, Pick
  <2> QED
    BY <1>1, <2>1, <2>2, <2>3 DEF Pick
<1>2. CASE Reselect(t)
  <2>1. CASE \E e \in Endpoints : Selected(t, e)
    BY <1>2, <2>1, SelectedShape, TransportAssumption DEF Reselect, Any
  <2>2. CASE Unavailable(t)
    <3>1. CASE aim[t] = "connect" /\ Goto(t, "raise") /\ Forget(t) /\ UNCHANGED <<active, op, bind>>
        <4>1. Shape' /\ OnlyBy(t)
            BY <1>2, <3>1 DEF Reselect, EnvInv, Shape, Goto, Forget, Pcs, Aims, Ops, Any, OnlyBy
        <4>2. Own(t)'
            BY <1>2, <3>1 DEF Reselect, EnvInv, Shape, Goto, Forget, Own, AimInv, BlockInv,
                              Outside, Inside, Turning, Outer
        <4> QED
            BY <1>2, <4>1, <4>2, Threadwise DEF EnvInv, Reselect
    <3>2. CASE aim[t] = "op" /\ Selected(t, active)
        BY <1>2, <3>2, SelectedShape DEF Reselect, EnvInv, Shape
    <3>3. CASE aim[t] # "connect" /\ End(t) /\ UNCHANGED active
        BY <1>2, <3>3, EndOutside
           DEF Reselect, EnvInv, Shape, Own, BlockInv, Outside, Turning
    <3> QED
        BY <2>2, <3>1, <3>2, <3>3 DEF Unavailable
  <2> QED
    BY <1>2, <2>1, <2>2 DEF Reselect
<1>3. CASE \E e \in Endpoints : Probe(t, e)
    BY <1>3 DEF Probe, EnvInv, Shape, Own, AimInv, BlockInv, Outside, Inside, Turning, Outer, Nested
<1> QED
    BY <1>1, <1>2, <1>3

LEMMA BeginKeeps ==
    ASSUME EnvInv, NEW t \in Threads, NEW o \in Ops, Begin(t, o)
    PROVE  EnvInv'
<1> USE DEF process
<1>1. Shape' /\ OnlyBy(t)
    BY DEF Begin, EnvInv, Shape, Goto, Pcs, OnlyBy
<1>2. Own(t)'
    BY DEF Begin, EnvInv, Shape, Goto, Own, AimInv, BlockInv, Outside, Inside, Turning, Outer
<1> QED
    BY <1>1, <1>2, Threadwise DEF EnvInv, Begin

\* A new API object, a failed request and a wait.
LEMMA QuietKeeps ==
    ASSUME EnvInv, NEW t \in Threads, Build(t) \/ RequestFails(t) \/ Sleep(t)
    PROVE  EnvInv'
<1> USE DEF process, client
<1>1. Shape' /\ OnlyBy(t)
    BY DEF Build, RequestFails, Sleep, Forget, EnvInv, Shape, Goto, Pcs, Aims, Ops, Any, OnlyBy
<1>2. Own(t)'
  <2>1. CASE Build(t)
    BY <2>1 DEF Build, Forget, EnvInv, Shape, Goto, Own, AimInv, BlockInv, Outside, Inside,
                Turning, Outer
  <2>2. CASE RequestFails(t)
    BY <2>2 DEF RequestFails, EnvInv, Shape, Goto, Own, AimInv, BlockInv, Outside, Inside,
                Turning, Outer
  <2>3. CASE Sleep(t)
    BY <2>3 DEF Sleep, EnvInv, Shape, Goto, Own, AimInv, BlockInv, Outside, Inside,
                Turning, Outer
  <2> QED
    BY <2>1, <2>2, <2>3
<1> QED
    BY <1>1, <1>2, Threadwise DEF EnvInv, Build, RequestFails, Sleep

-----------------------------------------------------------------------------
(* Steps that enter a block.                                               *)

\* Into the block of an operation.
LEMMA EnterOuter ==
    ASSUME EnvInv, NEW t \in Threads, Enter(t, bind[t]), saved[t] = <<>>,
           pc' = [pc EXCEPT ![t] = "check"] \/ pc' = [pc EXCEPT ![t] = "request"],
           aim[t] = "op", UNCHANGED <<active, op, aim, bind, cbind>>
    PROVE  EnvInv'
<1>1. bind[t] \in Any /\ NoEndpoint \in Any
    BY DEF EnvInv, Shape, Any
<1>2. /\ saved' \in [Threads -> Seq(Any)] /\ env' \in Any
      /\ holder' \in Threads \cup {NoThread}
      /\ \A u \in Threads : u # t =>
            /\ saved'[u] = saved[u]
            /\ (holder' = holder /\ env' = env) \/ (holder # u /\ holder' # u)
    BY <1>1, EnterBlock DEF EnvInv
<1>5. Shape' /\ OnlyBy(t)
    BY <1>2 DEF EnvInv, Shape, Pcs, OnlyBy
<1>3. saved'[t] = Outer(t) /\ (saved'[t] # <<>> <=> holder' = t)
      /\ (bind[t] # NoEndpoint => env' = bind[t]) /\ (holder' = NoThread => env' = NoEndpoint)
  <2>1. holder # t
    BY DEF EnvInv, Own, BlockInv
  <2>2. CASE bind[t] = NoEndpoint
    BY <1>1, <2>1, <2>2, EnterBlock DEF Outer, process, EnvInv
  <2>3. CASE bind[t] # NoEndpoint
    <3>1. holder = NoThread /\ holder' = t /\ env' = bind[t] /\ saved'[t] = Append(<<>>, env)
        BY <1>1, <2>1, <2>3, EnterBlock DEF EnvInv
    <3>2. saved'[t] = <<NoEndpoint>> /\ <<NoEndpoint>> # <<>>
        BY <1>1, <3>1, Tuples DEF EnvInv
    <3> QED
        BY <2>3, <3>1, <3>2, ConnectionAssumption DEF Outer
  <2> QED
    BY <2>2, <2>3
<1>4. Own(t)'
    BY <1>3 DEF EnvInv, Shape, Own, AimInv, BlockInv, Outside, Inside, Turning, Outer
<1> QED
    BY <1>3, <1>4, <1>5, Threadwise

\* A login is nested in it.
LEMMA LoginKeeps ==
    ASSUME EnvInv, NEW t \in Threads, Login(t)
    PROVE  EnvInv'
<1>1. /\ bind[t] \in Any /\ NoEndpoint \in Any /\ cbind[t] \in Any /\ cbind[t] # NoEndpoint
      /\ aim[t] = "connect" /\ pc'[t] = "answer"
      /\ UNCHANGED <<active, op, aim, bind, cbind>> /\ Enter(t, cbind[t])
    BY DEF Login, EnvInv, Shape, Any, Own, AimInv, Turning, client, Goto
<1>2. /\ saved' \in [Threads -> Seq(Any)] /\ env' \in Any
      /\ holder' \in Threads \cup {NoThread}
      /\ \A u \in Threads : u # t =>
            /\ saved'[u] = saved[u]
            /\ (holder' = holder /\ env' = env) \/ (holder # u /\ holder' # u)
    BY <1>1, EnterBlock DEF EnvInv
<1>7. Shape' /\ OnlyBy(t)
    BY <1>1, <1>2 DEF Login, Goto, EnvInv, Shape, Pcs, OnlyBy
<1>3. holder \in {NoThread, t} /\ holder' = t /\ env' = cbind[t] /\ saved'[t] = Append(saved[t], env)
    BY <1>1, EnterBlock DEF EnvInv
<1>4. saved[t] = Outer(t) /\ (saved[t] # <<>> <=> holder = t) /\ (bind[t] # NoEndpoint => env = bind[t])
    BY DEF Login, EnvInv, Own, BlockInv, Inside
<1>5. saved'[t] = Nested(t) /\ saved'[t] # <<>>
  <2>1. CASE bind[t] = NoEndpoint
    <3>1. saved[t] = <<>> /\ holder = NoThread /\ env = NoEndpoint
        BY <1>3, <1>4, <2>1 DEF Outer, EnvInv
    <3> QED
        BY <1>1, <1>3, <2>1, <3>1, Tuples DEF Nested
  <2>2. CASE bind[t] # NoEndpoint
    <3>1. saved[t] = <<NoEndpoint>> /\ env = bind[t]
        BY <1>4, <2>2 DEF Outer
    <3>2. saved'[t] = <<NoEndpoint, bind[t]>> /\ <<NoEndpoint, bind[t]>> # <<>>
        BY <1>1, <1>3, <3>1, Tuples
    <3> QED
        BY <2>2, <3>2 DEF Nested
  <2> QED
    BY <2>1, <2>2
<1>6. Own(t)'
    BY <1>1, <1>3, <1>5 DEF EnvInv, Own, AimInv, BlockInv, Outside, Inside, Turning, Nested
<1> QED
    BY <1>3, <1>6, <1>7, Threadwise, ConnectionAssumption

-----------------------------------------------------------------------------
(* Steps that leave a block.                                               *)

\* What a step may do to the process environment.
Sound(t) ==
    /\ saved' \in [Threads -> Seq(Any)] /\ env' \in Any
    /\ holder' \in Threads \cup {NoThread}
    /\ \A u \in Threads : u # t =>
          /\ saved'[u] = saved[u]
          /\ (holder' = holder /\ env' = env) \/ (holder # u /\ holder' # u)
    /\ saved'[t] # <<>> <=> holder' = t
    /\ holder' = NoThread => env' = NoEndpoint

LEMMA LeaveOuter ==
    ASSUME EnvInv, NEW t \in Threads, Leave(t), saved[t] \in {<<>>, <<NoEndpoint>>}
    PROVE  Sound(t) /\ saved'[t] = <<>>
<1>1. /\ Shape /\ NoEndpoint \in Any
      /\ saved[t] # <<>> <=> holder = t
    BY DEF EnvInv, Own, BlockInv, Any
<1>2. CASE saved[t] = <<>>
  <2>1. UNCHANGED process
    BY <1>1, <1>2, LeaveBlock
  <2> QED
    BY <1>1, <1>2, <2>1 DEF EnvInv, Shape, Sound, process
<1>3. CASE saved[t] = <<NoEndpoint>>
  <2>1. /\ env' = NoEndpoint /\ holder' = NoThread /\ saved'[t] = <<>>
        /\ \A u \in Threads : u # t =>
              /\ saved'[u] = saved[u]
              /\ (holder' = holder /\ env' = env) \/ (holder # u /\ holder' # u)
        /\ saved' \in [Threads -> Seq(Any)]
    BY <1>1, <1>3, LeaveBlock
  <2> QED
    BY <1>1, <2>1, ConnectionAssumption DEF Sound
<1> QED
    BY <1>2, <1>3

LEMMA LeaveLogin ==
    ASSUME EnvInv, NEW t \in Threads, Leave(t), pc[t] = "answer"
    PROVE  /\ Sound(t) /\ saved'[t] = Outer(t)
           /\ bind[t] # NoEndpoint => env' = bind[t]
<1>1. /\ Shape /\ bind[t] \in Any /\ NoEndpoint \in Any
      /\ saved[t] = Nested(t)
      /\ saved[t] # <<>> <=> holder = t
    BY DEF EnvInv, Own, BlockInv, Shape, Any
<1>2. CASE bind[t] = NoEndpoint
  <2>1. saved[t] = <<NoEndpoint>>
    BY <1>1, <1>2 DEF Nested
  <2> QED
    BY <1>2, <2>1, LeaveOuter DEF Outer
<1>3. CASE bind[t] # NoEndpoint
  <2>1. saved[t] = <<NoEndpoint, bind[t]>> /\ saved[t] # <<>> /\ saved[t] # <<NoEndpoint>>
    BY <1>1, <1>3, Tuples DEF Nested
  <2>2. /\ env' = bind[t] /\ holder' = t /\ saved'[t] = <<NoEndpoint>>
        /\ \A u \in Threads : u # t =>
              /\ saved'[u] = saved[u]
              /\ (holder' = holder /\ env' = env) \/ (holder # u /\ holder' # u)
        /\ saved' \in [Threads -> Seq(Any)]
    BY <1>1, <2>1, LeaveBlock
  <2>3. t # NoThread /\ <<NoEndpoint>> # <<>>
    BY ConnectionAssumption
  <2> QED
    BY <1>1, <1>3, <2>2, <2>3 DEF Sound, Outer
<1> QED
    BY <1>2, <1>3

\* A step of t that leaves the others' places alone.
LEMMA SoundStep ==
    ASSUME EnvInv, NEW t \in Threads, Sound(t), Own(t)', active' \in Any,
           pc' \in [Threads -> Pcs], aim' \in [Threads -> Aims],
           bind' \in [Threads -> Any], cbind' \in [Threads -> Any],
           op' \in [Threads -> Ops],
           \A u \in Threads : u # t => /\ pc'[u] = pc[u] /\ op'[u] = op[u] /\ aim'[u] = aim[u]
                                       /\ bind'[u] = bind[u] /\ cbind'[u] = cbind[u]
    PROVE  EnvInv'
<1>1. Shape' /\ OnlyBy(t)
    BY DEF Sound, Shape, OnlyBy
<1> QED
    BY <1>1, Threadwise DEF Sound

LEMMA EndKeeps ==
    ASSUME EnvInv, NEW t \in Threads, Leave(t), End(t), saved[t] \in {<<>>, <<NoEndpoint>>},
           active' \in Any
    PROVE  EnvInv'
<1>1. Sound(t) /\ saved'[t] = <<>>
    BY LeaveOuter
<1>2. Own(t)'
    BY <1>1 DEF EnvInv, Shape, Sound, End, Forget, Goto, Own, AimInv, BlockInv, Outside, Inside,
                Turning
<1> QED
    BY <1>1, <1>2, SoundStep DEF EnvInv, Shape, End, Forget, Goto, Pcs, Aims, Ops, Any

LEMMA RetryKeeps ==
    ASSUME EnvInv, NEW t \in Threads, Leave(t), Retry(t), saved[t] \in {<<>>, <<NoEndpoint>>},
           active' \in Any, pc[t] \in {"request", "raise"}, op[t] # "ensure"
    PROVE  EnvInv'
<1>1. Sound(t) /\ saved'[t] = <<>>
    BY LeaveOuter
<1>2. aim[t] = "op"
    BY DEF EnvInv, Own, AimInv, Turning
<1>3. Own(t)'
    BY <1>1, <1>2 DEF EnvInv, Shape, Sound, Retry, Goto, Own, AimInv, BlockInv, Outside, Inside,
                      Turning
<1> QED
    BY <1>1, <1>3, SoundStep DEF EnvInv, Shape, Retry, Goto, Pcs, Aims, Ops, Any

LEMMA RequestStack ==
    ASSUME EnvInv, NEW t \in Threads, pc[t] \in {"check", "connected", "request", "raise"}
    PROVE  saved[t] \in {<<>>, <<NoEndpoint>>} /\ aim[t] = "op"
BY DEF EnvInv, Own, AimInv, BlockInv, Inside, Outer, Turning

LEMMA RequestKeeps ==
    ASSUME EnvInv, NEW t \in Threads, Answered(t) \/ EmptyBatch(t) \/ Failed(t)
    PROVE  EnvInv'
<1>1. pc[t] \in {"request", "raise"} /\ saved[t] \in {<<>>, <<NoEndpoint>>} /\ Leave(t)
    BY RequestStack DEF Answered, EmptyBatch, Failed
<1>2. active' \in Any
    BY DEF Answered, EmptyBatch, Failed, EnvInv, Shape, Any
<1>3. End(t) \/ (Retry(t) /\ op[t] # "ensure")
    BY DEF Answered, EmptyBatch, Failed
<1> QED
    BY <1>1, <1>2, <1>3, EndKeeps, RetryKeeps

LEMMA AnswerKeeps ==
    ASSUME EnvInv, NEW t \in Threads, LoggedIn(t) \/ LoginFails(t)
    PROVE  EnvInv'
<1>1. pc[t] = "answer" /\ Leave(t)
    BY DEF LoggedIn, LoginFails
<1>2. /\ Sound(t) /\ saved'[t] = Outer(t)
      /\ bind[t] # NoEndpoint => env' = bind[t]
    BY <1>1, LeaveLogin
<1>3. aim[t] = "connect"
    BY <1>1 DEF EnvInv, Own, AimInv, Turning
<1>4. bind' = bind /\ op' = op /\ active' \in Any /\ cbind' = [cbind EXCEPT ![t] = NoEndpoint]
    BY DEF LoggedIn, LoginFails, Forget, EnvInv, Shape, Any
<1>5. \/ pc' = [pc EXCEPT ![t] = "connected"] /\ aim' = [aim EXCEPT ![t] = "op"]
      \/ pc' = [pc EXCEPT ![t] = "raise"] /\ aim' = [aim EXCEPT ![t] = "op"]
      \/ pc' = [pc EXCEPT ![t] = "sleep"] /\ aim' = aim
    BY DEF LoggedIn, LoginFails, Forget, Goto
<1>6. Own(t)'
    BY <1>2, <1>3, <1>4, <1>5
       DEF EnvInv, Shape, Sound, Own, AimInv, BlockInv, Outside, Inside, Turning, Outer
<1>7. /\ pc' \in [Threads -> Pcs] /\ op' \in [Threads -> Ops] /\ aim' \in [Threads -> Aims]
      /\ bind' \in [Threads -> Any] /\ cbind' \in [Threads -> Any]
    BY <1>4, <1>5 DEF EnvInv, Shape, Pcs, Aims, Any
<1>8. \A u \in Threads : u # t => /\ pc'[u] = pc[u] /\ op'[u] = op[u] /\ aim'[u] = aim[u]
                                  /\ bind'[u] = bind[u] /\ cbind'[u] = cbind[u]
    BY <1>4, <1>5 DEF EnvInv, Shape
<1> QED
    BY <1>2, <1>4, <1>6, <1>7, <1>8, SoundStep

\* The connection is tested.
LEMMA CheckKeeps ==
    ASSUME EnvInv, NEW t \in Threads, Check(t)
    PROVE  EnvInv'
<1> USE DEF process
<1>1. /\ pc[t] \in {"check", "connected"} /\ saved[t] \in {<<>>, <<NoEndpoint>>}
      /\ aim[t] = "op" /\ active' \in Any
    BY RequestStack DEF Check, EnvInv, Shape
<1>2. CASE Leave(t) /\ Goto(t, "again") /\ UNCHANGED <<op, aim, bind, cbind>>
  <2>1. Sound(t) /\ saved'[t] = <<>>
    BY <1>1, <1>2, LeaveOuter
  <2>2. Own(t)'
    BY <1>1, <1>2, <2>1 DEF EnvInv, Shape, Sound, Goto, Own, AimInv, BlockInv, Outside, Inside,
                            Turning
  <2> QED
    BY <1>1, <1>2, <2>1, <2>2, SoundStep DEF EnvInv, Shape, Goto, Pcs
<1>3. CASE Goto(t, "request") /\ UNCHANGED <<process, op, aim, bind, cbind>>
  <2>1. Shape' /\ OnlyBy(t)
    BY <1>1, <1>3 DEF EnvInv, Shape, Goto, Pcs, OnlyBy
  <2>2. Own(t)'
    BY <1>1, <1>3 DEF EnvInv, Shape, Goto, Own, AimInv, BlockInv, Outside, Inside, Turning, Outer
  <2> QED
    BY <1>3, <2>1, <2>2, Threadwise DEF EnvInv
<1>4. CASE End(t) /\ UNCHANGED process /\ op[t] = "ensure"
  <2>1. saved[t] = <<>>
    BY <1>1, <1>4 DEF EnvInv, Own, AimInv, BlockInv, Inside, Outer
  <2> QED
    BY <1>1, <1>4, <2>1, EndOutside
<1>5. CASE /\ pc[t] = "check" /\ aim' = [aim EXCEPT ![t] = "connect"] /\ Goto(t, "pick")
           /\ UNCHANGED <<process, op, bind, cbind>>
  <2>1. Shape' /\ OnlyBy(t)
    BY <1>1, <1>5 DEF EnvInv, Shape, Goto, Pcs, Aims, Ops, OnlyBy
  <2>2. Own(t)'
    BY <1>1, <1>5 DEF EnvInv, Shape, Goto, Own, AimInv, BlockInv, Outside, Inside, Turning, Outer
  <2> QED
    BY <1>5, <2>1, <2>2, Threadwise DEF EnvInv
<1> QED
    BY <1>2, <1>3, <1>4, <1>5 DEF Check, Connected

\* get_candles enters a second time.
LEMMA AgainKeeps ==
    ASSUME EnvInv, NEW t \in Threads, EnterOp(t) \/ Again(t)
    PROVE  EnvInv'
<1> USE DEF client
<1>1. saved[t] = <<>> /\ aim[t] = "op"
    BY DEF EnterOp, Again, EnvInv, Own, AimInv, BlockInv, Outside, Turning
<1>2. CASE EnterOp(t) \/ (Again(t) /\ Enter(t, bind[t]) /\ Goto(t, "request"))
    BY <1>1, <1>2, EnterOuter DEF EnterOp, Again, Goto
<1>3. CASE Again(t) /\ Goto(t, "raise") /\ UNCHANGED process
  <2>1. Shape' /\ OnlyBy(t)
    BY <1>3 DEF Again, EnvInv, Shape, Goto, Pcs, OnlyBy, process
  <2>2. Own(t)'
    BY <1>1, <1>3 DEF Again, EnvInv, Shape, Goto, Own, AimInv, BlockInv, Outside, Inside, Turning,
                      process
  <2> QED
    BY <1>3, <2>1, <2>2, Threadwise DEF EnvInv, process
<1> QED
    BY <1>2, <1>3 DEF Again

-----------------------------------------------------------------------------
LEMMA NextEnv == EnvInv /\ [Next]_vars => EnvInv'
<1> SUFFICES ASSUME EnvInv, [Next]_vars PROVE EnvInv'
    OBVIOUS
<1>1. CASE UNCHANGED <<active, process, locals>>
    BY <1>1 DEF EnvInv, Shape, Own, AimInv, BlockInv, Outside, Inside, Turning, Outer, Nested,
                process, locals
<1>2. ASSUME NEW t \in Threads, Step(t) PROVE EnvInv'
    BY <1>2, SelectKeeps, QuietKeeps, LoginKeeps, AgainKeeps, CheckKeeps, AnswerKeeps,
       RequestKeeps DEF Step
<1>3. ASSUME NEW t \in Threads, NEW o \in Ops, Begin(t, o) PROVE EnvInv'
    BY <1>3, BeginKeeps
<1> QED
    BY <1>1, <1>2, <1>3 DEF Next, vars, Calm, Drop, LateLogin, Tick, world, client

\* apply_environment serializes the use of os.environ: a request or a login that has an
\* endpoint and whose caller still waits for it runs with that endpoint's variables, and
\* when nobody is inside, the variables are what they were before the first block.  A
\* login or a history request given up at its timeout is in no block any more, and runs
\* with whatever variables are there: this says nothing of it.
AwaitedEnvIsOwn ==
    /\ holder = NoThread => env = NoEndpoint
    /\ \A t \in Threads :
        /\ pc[t] = "request" /\ bind[t] # NoEndpoint => holder = t /\ env = bind[t]
        /\ pc[t] = "answer" => holder = t /\ env = cbind[t]

LEMMA EnvInvImplies == EnvInv => AwaitedEnvIsOwn
<1> SUFFICES ASSUME EnvInv PROVE AwaitedEnvIsOwn
    OBVIOUS
<1>1. ASSUME NEW t \in Threads, pc[t] = "request", bind[t] # NoEndpoint
      PROVE  holder = t /\ env = bind[t]
    BY <1>1 DEF EnvInv, Own, BlockInv, Inside, Outer
<1>2. ASSUME NEW t \in Threads, pc[t] = "answer" PROVE holder = t /\ env = cbind[t]
  <2>1. saved[t] = Nested(t) /\ env = cbind[t] /\ Nested(t) # <<>>
    BY <1>2 DEF EnvInv, Own, BlockInv, Nested
  <2> QED
    BY <2>1 DEF EnvInv, Own, BlockInv
<1> QED
    BY <1>1, <1>2 DEF EnvInv, AwaitedEnvIsOwn

\* Every request and every login of either thread runs, as long as it is waited for, with
\* the variables of its own endpoint, and its block leaves nothing of them in os.environ,
\* however a call given up and the caller's interleave and whatever fails on the way
\* (apply_environment and its callers).
THEOREM EnvironmentOwned == Spec => []AwaitedEnvIsOwn
BY InitEnv, NextEnv, EnvInvImplies, PTL DEF Spec

-----------------------------------------------------------------------------
(* What the manager records, and the rest of the state.                    *)

RecordTypes ==
    /\ fails \in [Endpoints -> 0..MaxFailures]
    /\ left \in [Endpoints -> 0..QuarantineMax]
    /\ inflight \in [Endpoints -> 0..MaxInflight]
    /\ wait \in [Endpoints -> 0..ProbeInterval]

\* No number of failures is punished by more than quarantine_max_s.
LEMMA PenaltyBounded == \A n \in 0..MaxFailures : Penalty(n) \in 0..QuarantineMax
<1> SUFFICES ASSUME NEW n \in 0..MaxFailures, n >= Threshold PROVE Penalty(n) \in 0..QuarantineMax
    BY TransportAssumption DEF Penalty
<1> DEFINE doubled == QuarantineBase * 2 ^ (n - Threshold)
<1>1. n - Threshold \in 0..MaxFailures
    BY TransportAssumption
<1>2. 2 ^ (n - Threshold) \in Nat
    BY <1>1, PowersAssumption
<1>3. doubled \in Nat
    BY <1>2, TransportAssumption
<1> HIDE DEF doubled
<1>4. AtMost(QuarantineMax, doubled) \in 0..QuarantineMax
    BY <1>3, TransportAssumption DEF AtMost
<1>5. ~(n < Threshold)
    BY TransportAssumption
<1> QED
    BY <1>4, <1>5 DEF Penalty, doubled

\* Every method of the manager keeps its records within their limits.
LEMMA ManagerKeeps ==
    ASSUME RecordTypes, NEW e \in Any,
           \/ TimePasses \/ RecordSuccess(e) \/ RecordFailure(e) \/ UNCHANGED manager
           \/ e \in Endpoints /\ (Take(e) \/ \E ok \in BOOLEAN : ProbeAnswers(e, ok))
    PROVE  RecordTypes'
<1> USE TransportAssumption DEF RecordTypes, Any
<1>1. CASE UNCHANGED manager
    BY <1>1 DEF manager
<1>2. CASE TimePasses
  <2>1. left' \in [Endpoints -> 0..QuarantineMax]
    BY <1>2 DEF TimePasses, AtLeast
  <2>2. wait' \in [Endpoints -> 0..ProbeInterval]
    BY <1>2 DEF TimePasses, AtLeast
  <2> QED
    BY <1>2, <2>1, <2>2 DEF TimePasses
<1>3. ASSUME e \in Endpoints, Take(e) PROVE RecordTypes'
  <2>1. AtMost(MaxInflight, inflight[e] + 1) \in 0..MaxInflight
    BY <1>3 DEF AtMost
  <2> QED
    BY <1>3, <2>1 DEF Take
<1>4. e # NoEndpoint => Released(e) \in [Endpoints -> 0..MaxInflight]
    BY DEF Released, AtLeast
<1>5. CASE RecordSuccess(e) /\ e # NoEndpoint
    BY <1>4, <1>5 DEF RecordSuccess
<1>6. CASE RecordFailure(e) /\ e # NoEndpoint
  <2> DEFINE n == AtMost(MaxFailures, fails[e] + 1)
  <2>1. n \in 0..MaxFailures
    BY <1>6 DEF AtMost
  <2>2. Penalty(n) \in 0..QuarantineMax
    BY <2>1, PenaltyBounded
  <2> HIDE DEF n
  <2>3. AtLeast(Penalty(n), left[e]) \in 0..QuarantineMax
    BY <1>6, <2>2 DEF AtLeast
  <2>4. /\ fails' = [fails EXCEPT ![e] = n] /\ inflight' = Released(e)
        /\ left' = [left EXCEPT ![e] = AtLeast(Penalty(n), left[e])] /\ wait' = wait
    BY <1>6 DEF RecordFailure, n
  <2> QED
    BY <1>4, <1>6, <2>1, <2>3, <2>4
<1>7. ASSUME e \in Endpoints, NEW ok \in BOOLEAN, ProbeAnswers(e, ok) PROVE RecordTypes'
  <2> DEFINE pause == AtLeast(AtMost(QuarantineMax, AtLeast(ProbeInterval, QuarantineBase)), left[e])
  <2>1. pause \in 0..QuarantineMax
    BY <1>7 DEF AtLeast, AtMost
  <2> HIDE DEF pause
  <2>2. /\ wait' = [wait EXCEPT ![e] = ProbeInterval] /\ inflight' = inflight
        /\ \/ fails' = [fails EXCEPT ![e] = 0] /\ left' = [left EXCEPT ![e] = 0]
           \/ fails' = fails /\ left' = [left EXCEPT ![e] = pause]
    BY <1>7 DEF ProbeAnswers, pause
  <2> QED
    BY <1>7, <2>1, <2>2
<1>8. CASE e = NoEndpoint /\ (RecordSuccess(e) \/ RecordFailure(e))
    BY <1>1, <1>8 DEF RecordSuccess, RecordFailure
<1> QED
    BY <1>1, <1>2, <1>3, <1>5, <1>6, <1>7, <1>8

LEMMA NextRecords == EnvInv /\ RecordTypes /\ [Next]_vars => RecordTypes'
<1> SUFFICES ASSUME EnvInv, RecordTypes, [Next]_vars PROVE RecordTypes'
    OBVIOUS
<1>1. NoEndpoint \in Any /\ Endpoints \subseteq Any
    BY DEF Any
<1>2. CASE UNCHANGED manager
    BY <1>1, <1>2, ManagerKeeps
<1>3. CASE TimePasses
    BY <1>1, <1>3, ManagerKeeps
<1>4. ASSUME NEW e \in Endpoints, Take(e) \/ \E ok \in BOOLEAN : ProbeAnswers(e, ok)
      PROVE  RecordTypes'
    BY <1>1, <1>4, ManagerKeeps
<1>5. ASSUME NEW e \in Any, RecordSuccess(e) \/ RecordFailure(e) PROVE RecordTypes'
    BY <1>5, ManagerKeeps
<1>6. ASSUME NEW t \in Threads, Step(t) PROVE RecordTypes'
  <2>1. bind[t] \in Any /\ cbind[t] \in Any
    BY DEF EnvInv, Shape
  <2>2. CASE Pick(t) \/ Reselect(t)
    BY <1>2, <1>4, <2>2 DEF Pick, Reselect
  <2>3. CASE LoggedIn(t) \/ LoginFails(t) \/ Answered(t) \/ Failed(t)
    BY <1>5, <2>1, <2>3 DEF LoggedIn, LoginFails, Answered, Failed
  <2>4. CASE EnterOp(t) \/ Check(t) \/ Again(t) \/ Build(t) \/ Login(t) \/ RequestFails(t) \/ EmptyBatch(t)
    BY <1>2, <2>4 DEF EnterOp, Check, Again, Build, Login, RequestFails, EmptyBatch
  <2>5. CASE Sleep(t)
    BY <1>3, <2>5 DEF Sleep
  <2>6. ASSUME NEW e \in Endpoints, Probe(t, e) PROVE RecordTypes'
    BY <1>4, <2>6 DEF Probe
  <2> QED
    BY <1>6, <2>2, <2>3, <2>4, <2>5, <2>6 DEF Step
<1>7. ASSUME NEW t \in Threads, NEW o \in Ops, Begin(t, o) PROVE RecordTypes'
    BY <1>2, <1>3, <1>7 DEF Begin
<1> QED
    BY <1>2, <1>3, <1>6, <1>7 DEF Next, vars, Calm, Drop, LateLogin, Tick

ClientTypes ==
    /\ failOpen \in BOOLEAN /\ up \subseteq Endpoints /\ calm \in BOOLEAN
    /\ api \in Any /\ live \in BOOLEAN /\ served \in BOOLEAN /\ spare \in 0..MaxLate
    /\ adrift \in BOOLEAN /\ chosen \in BOOLEAN

LEMMA NextClient == EnvInv /\ ClientTypes /\ [Next]_vars => ClientTypes'
<1> SUFFICES ASSUME EnvInv, ClientTypes, [Next]_vars PROVE ClientTypes'
    OBVIOUS
<1> USE DEF ClientTypes, world, client, object
<1>1. CASE UNCHANGED <<failOpen, up, calm, object, served, spare>>
    BY <1>1
<1>2. ASSUME NEW t \in Threads, Step(t) PROVE ClientTypes'
  <2>1. CASE Pick(t) \/ Reselect(t) \/ EnterOp(t) \/ Again(t) \/ Login(t) \/ RequestFails(t) \/ Sleep(t)
    BY <1>1, <2>1 DEF Pick, Reselect, EnterOp, Again, Login, RequestFails, Sleep
  <2>2. CASE Check(t) \/ LoggedIn(t) \/ LoginFails(t) \/ Answered(t)
    BY <2>2 DEF Check, LoggedIn, LoginFails, Answered
  <2>3. CASE Build(t) \/ EmptyBatch(t) \/ Failed(t)
    <3>1. cbind[t] \in Any /\ NoEndpoint \in Any
        BY DEF EnvInv, Shape, Any
    <3> QED
        BY <2>3, <3>1 DEF Build, EmptyBatch, Failed, Retry, NewObject
  <2>4. ASSUME NEW e \in Endpoints, Probe(t, e) PROVE ClientTypes'
    BY <1>1, <2>4 DEF Probe
  <2> QED
    BY <1>2, <2>1, <2>2, <2>3, <2>4 DEF Step
<1>3. ASSUME NEW t \in Threads, NEW o \in Ops, Begin(t, o) PROVE ClientTypes'
  <2>1. UNCHANGED <<failOpen, up, calm, object>>
    BY <1>3 DEF Begin
  <2>2. served' \in BOOLEAN
    BY <1>3 DEF Begin
  <2>3. spare' \in 0..MaxLate
    BY <1>3, ConnectionAssumption DEF Begin
  <2> QED
    BY <2>1, <2>2, <2>3
<1>4. CASE Calm \/ Drop \/ LateLogin
    BY <1>4 DEF Calm, Drop, LateLogin
<1> QED
    BY <1>1, <1>2, <1>3, <1>4 DEF Next, vars, Tick

CountTypes ==
    /\ tries \in [Threads -> 0..Retries] /\ logins \in [Threads -> 0..ConnectRetries]
    /\ probing \in [Threads -> SUBSET Endpoints]

LEMMA NextCounts == CountTypes /\ [Next]_vars => CountTypes'
<1> SUFFICES ASSUME CountTypes, [Next]_vars PROVE CountTypes'
    OBVIOUS
<1> USE ConnectionAssumption DEF CountTypes
<1>1. CASE UNCHANGED <<tries, logins, probing>>
    BY <1>1
<1>2. ASSUME NEW t \in Threads, NEW e, Selected(t, e) PROVE CountTypes'
    BY <1>1, <1>2 DEF Selected
<1>3. ASSUME NEW t \in Threads, End(t) PROVE CountTypes'
    BY <1>3 DEF End, Forget
<1>4. ASSUME NEW t \in Threads, Forget(t), UNCHANGED <<tries, probing>> PROVE CountTypes'
    BY <1>4 DEF Forget
<1>5. ASSUME NEW t \in Threads, Retry(t), tries[t] > 1 PROVE CountTypes'
    BY <1>5 DEF Retry
<1>6. ASSUME NEW t \in Threads, Step(t) PROVE CountTypes'
  <2>1. CASE Pick(t)
    BY <1>2, <2>1 DEF Pick, Probeable
  <2>2. CASE Reselect(t)
    BY <1>2, <1>3, <1>4, <2>2 DEF Reselect, Unavailable
  <2>3. CASE EnterOp(t) \/ Again(t) \/ Login(t) \/ RequestFails(t) \/ Sleep(t)
    BY <1>1, <2>3 DEF EnterOp, Again, Login, RequestFails, Sleep
  <2>4. CASE Check(t)
    BY <1>1, <1>3, <2>4 DEF Check, Connected
  <2>5. CASE Build(t) \/ LoggedIn(t)
    BY <1>1, <1>4, <2>5 DEF Build, LoggedIn
  <2>6. CASE LoginFails(t)
    BY <1>4, <2>6 DEF LoginFails
  <2>7. CASE Answered(t) \/ EmptyBatch(t) \/ Failed(t)
    BY <1>3, <1>5, <2>7 DEF Answered, EmptyBatch, Failed
  <2>8. ASSUME NEW e \in Endpoints, Probe(t, e) PROVE CountTypes'
    BY <2>8 DEF Probe
  <2> QED
    BY <1>6, <2>1, <2>2, <2>3, <2>4, <2>5, <2>6, <2>7, <2>8 DEF Step
<1>7. ASSUME NEW t \in Threads, NEW o \in Ops, Begin(t, o) PROVE CountTypes'
    BY <1>7 DEF Begin
<1> QED
    BY <1>1, <1>6, <1>7 DEF Next, vars, locals, Calm, Drop, LateLogin, Tick

\* No thread is in more than two blocks, that of its operation and that of a login.
LEMMA TwoBlocks == EnvInv => \A t \in Threads : Len(saved[t]) <= 2
<1> SUFFICES ASSUME EnvInv, NEW t \in Threads PROVE Len(saved[t]) <= 2
    OBVIOUS
<1>1. bind[t] \in Any /\ NoEndpoint \in Any /\ pc[t] \in Pcs /\ BlockInv(t)
    BY DEF EnvInv, Shape, Own, Any
<1>2. saved[t] \in {<<>>, <<NoEndpoint>>, <<NoEndpoint, bind[t]>>}
    BY <1>1 DEF BlockInv, Outside, Inside, Turning, Outer, Nested, Pcs
<1>3. /\ Len(<<>>) = 0 /\ Len(<<NoEndpoint>>) = 1
      /\ Len(<<NoEndpoint, bind[t]>>) = 2
    BY <1>1, Tuples
<1>4. Len(saved[t]) \in {0, 1, 2}
    BY <1>2, <1>3, Zenon
<1>5. ASSUME NEW n \in {0, 1, 2} PROVE n <= 2
    OBVIOUS
<1> QED
    BY <1>4, <1>5, Zenon

\* Every variable of the connection and of the manager keeps its type: no quarantine
\* exceeds quarantine_max_s, the bindings in flight are never negative however many
\* releases were not counted, and no retry counter goes below zero.
THEOREM ConnectionTypeCorrect == Spec => []TypeOK
<1> DEFINE CInv == EnvInv /\ RecordTypes /\ ClientTypes /\ CountTypes
<1>1. Init => CInv
  <2> SUFFICES ASSUME Init PROVE CInv
    OBVIOUS
  <2>1. RecordTypes
    BY TransportAssumption DEF Init, ManagerInit, RecordTypes
  <2>2. ClientTypes
    <3>1. failOpen \in BOOLEAN
        BY Zenon DEF Init, ManagerInit
    <3>4. calm = FALSE /\ live = FALSE /\ served = TRUE /\ adrift = FALSE /\ chosen = FALSE
        BY Zenon DEF Init
    <3>2. up \subseteq Endpoints /\ api \in Any
        BY DEF Init, Any
    <3>3. spare \in 0..MaxLate
        BY ConnectionAssumption DEF Init
    <3> QED
        BY <3>1, <3>2, <3>3, <3>4 DEF ClientTypes
  <2>3. CountTypes
    BY ConnectionAssumption DEF Init, CountTypes
  <2> QED
    BY <2>1, <2>2, <2>3, InitEnv
<1>2. CInv /\ [Next]_vars => CInv'
    BY NextEnv, NextRecords, NextClient, NextCounts
<1>3. CInv => TypeOK
    BY TwoBlocks DEF TypeOK, ManagerTypes, EnvInv, Shape, Any, RecordTypes, ClientTypes, CountTypes
<1> QED
    BY <1>1, <1>2, <1>3, PTL DEF Spec

-----------------------------------------------------------------------------
(* The balance.                                                            *)

Retrying(t) == pc[t] # "idle" /\ tries[t] < Retries

\* The API object is one whose balance is chosen if it is, or may yet be, connected.
Clean == live \/ adrift => chosen

\* From the new API object of a retry to its request: until it logs in, nobody else can
\* connect that object, and only a login with its change of balance leads on.
ChosenOf(t) ==
    Retrying(t) =>
        /\ pc[t] \in {"enter", "check"} \/ (pc[t] \in Turning /\ aim[t] = "op") => Clean
        /\ pc[t] \in {"login", "answer"} => ~live /\ ~adrift
        /\ pc[t] \in {"connected", "again", "request"} => chosen

ChosenInv == MaxLate = 0 => spare = 0 /\ pc[Late] = "idle" /\ ChosenOf(Main)

LEMMA ChosenNext == EnvInv /\ CountTypes /\ ChosenInv /\ [Next]_vars => ChosenInv'
<1> SUFFICES ASSUME EnvInv, CountTypes, ChosenInv, [Next]_vars, MaxLate = 0
             PROVE  spare' = 0 /\ pc'[Late] = "idle" /\ ChosenOf(Main)'
    BY DEF ChosenInv
<1>0. /\ spare = 0 /\ pc[Late] = "idle" /\ ChosenOf(Main)
      /\ Main \in Threads /\ Late \in Threads /\ Main # Late
      /\ pc \in [Threads -> Pcs] /\ aim \in [Threads -> Aims] /\ tries \in [Threads -> 0..Retries]
    BY ConnectionAssumption DEF ChosenInv, Threads, EnvInv, Shape, CountTypes
<1>1. ASSUME UNCHANGED <<object, spare, pc, tries, aim>>
      PROVE  spare' = 0 /\ pc'[Late] = "idle" /\ ChosenOf(Main)'
    BY <1>0, <1>1 DEF object, ChosenOf, Retrying, Clean
<1>2. CASE Drop \/ LateLogin
  <2>1. UNCHANGED <<spare, pc, tries, aim, chosen>> /\ (live' \/ adrift' => live \/ adrift)
    BY <1>2 DEF Drop, LateLogin, locals
  <2>2. live' => live \/ adrift
    BY <2>1
  <2>3. pc[Main] \in {"login", "answer"} /\ Retrying(Main) => ~live' /\ ~adrift'
    BY <1>0, <2>1 DEF ChosenOf
  <2> QED
    BY <1>0, <2>1, <2>3 DEF ChosenOf, Retrying, Clean
<1>3. ASSUME NEW t \in Threads, NEW o \in Ops, Begin(t, o)
      PROVE  spare' = 0 /\ pc'[Late] = "idle" /\ ChosenOf(Main)'
  <2>1. t = Main
    BY <1>0, <1>3 DEF Begin, Threads
  <2>2. /\ spare' = 0 /\ pc'[Late] = "idle" /\ tries'[Main] = Retries
    BY <1>0, <1>3, <2>1 DEF Begin, Goto
  <2> QED
    BY <2>2, ConnectionAssumption DEF ChosenOf, Retrying
<1>4. ASSUME NEW t \in Threads, Step(t)
      PROVE  spare' = 0 /\ pc'[Late] = "idle" /\ ChosenOf(Main)'
  <2>1. pc[t] # "idle"
    BY <1>4 DEF Step, Pick, Reselect, EnterOp, Check, Again, Build, Login, LoggedIn, LoginFails,
                Answered, RequestFails, EmptyBatch, Failed, Sleep, Probe
  <2>2. t = Main
    BY <1>0, <2>1 DEF Threads
  <2>3. ASSUME NEW place, pc' = [pc EXCEPT ![Main] = place]
        PROVE  pc'[Late] = "idle" /\ pc'[Main] = place
    BY <1>0, <2>3
  <2>4. CASE Pick(t) \/ Reselect(t)
    <3>1. UNCHANGED <<object, spare>>
        BY <2>4 DEF Pick, Reselect
    <3>2. ASSUME NEW e, Selected(t, e), pc[t] \in {"pick", "probe"}
          PROVE  pc'[Late] = "idle" /\ ChosenOf(Main)'
      <4>1. pc' = [pc EXCEPT ![Main] = IF aim[Main] = "op" THEN "enter" ELSE "build"]
            /\ UNCHANGED <<tries, aim>>
          BY <2>2, <3>2 DEF Selected, Goto
      <4> QED
          BY <1>0, <2>2, <2>3, <3>1, <3>2, <4>1 DEF ChosenOf, Retrying, Clean, Turning, object
    <3>3. ASSUME End(t) PROVE pc'[Late] = "idle" /\ ChosenOf(Main)'
        BY <1>0, <2>2, <3>3 DEF End, Goto, ChosenOf, Retrying
    <3>4. ASSUME Goto(t, "raise") PROVE pc'[Late] = "idle" /\ ChosenOf(Main)'
        BY <1>0, <2>2, <3>4 DEF Goto, ChosenOf, Turning
    <3>5. ASSUME Goto(t, "probe"), pc[t] = "pick", UNCHANGED <<tries, aim>>
          PROVE  pc'[Late] = "idle" /\ ChosenOf(Main)'
        BY <1>0, <2>2, <3>1, <3>5 DEF Goto, ChosenOf, Retrying, Clean, Turning, object
    <3> QED
        BY <1>0, <2>4, <3>1, <3>2, <3>3, <3>4, <3>5 DEF Pick, Reselect, Unavailable
  <2>5. ASSUME NEW e \in Endpoints, Probe(t, e)
        PROVE  spare' = 0 /\ pc'[Late] = "idle" /\ ChosenOf(Main)'
    BY <1>1, <2>5 DEF Probe, client
  <2>6. CASE EnterOp(t) \/ Again(t) \/ Login(t) \/ RequestFails(t) \/ Sleep(t)
    <3>1. UNCHANGED <<object, spare, tries, aim>>
        BY <2>6 DEF EnterOp, Again, Login, RequestFails, Sleep, client
    <3>2. /\ pc'[Late] = "idle"
          /\ \/ pc[Main] = "enter" /\ pc'[Main] = "check"
             \/ pc[Main] = "again" /\ pc'[Main] = "request"
             \/ pc[Main] = "login" /\ pc'[Main] = "answer"
             \/ pc[Main] = "sleep" /\ pc'[Main] = "pick"
             \/ pc'[Main] = "raise"
        BY <1>0, <2>2, <2>6 DEF EnterOp, Again, Login, RequestFails, Sleep, Goto
    <3> QED
        BY <1>0, <3>1, <3>2 DEF ChosenOf, Retrying, Clean, Turning, object
  <2>7. CASE Check(t)
    <3>1. UNCHANGED <<object, spare>>
        BY <2>7 DEF Check
    <3>2. CASE Connected(t) /\ (pc[t] = "connected" \/ (pc[t] = "check" /\ live))
      <4>1. Retrying(Main) => chosen
          BY <1>0, <2>2, <3>2 DEF ChosenOf, Clean
      <4>2. CASE End(t)
          BY <1>0, <2>2, <3>1, <4>2 DEF End, Goto, ChosenOf, Retrying
      <4>3. CASE (Goto(t, "again") \/ Goto(t, "request")) /\ UNCHANGED tries
          BY <1>0, <2>1, <2>2, <3>1, <4>1, <4>3 DEF Goto, ChosenOf, Retrying, Turning, object
      <4> QED
          BY <3>2, <4>2, <4>3 DEF Connected
    <3>3. CASE aim' = [aim EXCEPT ![t] = "connect"] /\ Goto(t, "pick")
        BY <1>0, <2>2, <3>1, <3>3 DEF Goto, ChosenOf, Turning
    <3> QED
        BY <2>7, <3>2, <3>3 DEF Check
  <2>8. CASE Build(t)
    BY <1>0, <2>2, <2>8 DEF Build, NewObject, Goto, ChosenOf, Clean, Turning
  <2>9. CASE LoggedIn(t)
    BY <1>0, <2>2, <2>9 DEF LoggedIn, Goto, ChosenOf, Turning
  <2>10. CASE LoginFails(t)
    <3>1. aim[Main] = "connect"
        BY <2>2, <2>10 DEF LoginFails, EnvInv, Own, AimInv, Turning
    <3>2. /\ spare' = spare /\ pc'[Late] = "idle"
          /\ (pc'[Main] = "sleep" /\ aim' = aim) \/ pc'[Main] = "raise"
        BY <1>0, <2>2, <2>10 DEF LoginFails, Goto
    <3> QED
        BY <1>0, <3>1, <3>2 DEF ChosenOf, Turning
  <2>11. ASSUME End(t), UNCHANGED spare
         PROVE  spare' = 0 /\ pc'[Late] = "idle" /\ ChosenOf(Main)'
    BY <1>0, <2>2, <2>11 DEF End, Goto, ChosenOf, Retrying
  <2>12. ASSUME Retry(t), UNCHANGED spare
         PROVE  spare' = 0 /\ pc'[Late] = "idle" /\ ChosenOf(Main)'
    <3>1. CASE op[t] = "call"
        BY <1>0, <2>2, <2>12, <3>1 DEF Retry, Goto, ChosenOf, Turning
    <3>2. CASE op[t] # "call"
        BY <1>0, <2>2, <2>12, <3>2 DEF Retry, NewObject, Goto, ChosenOf, Clean, Turning
    <3> QED
        BY <3>1, <3>2
  <2>13. CASE Answered(t) \/ EmptyBatch(t) \/ Failed(t)
    BY <2>11, <2>12, <2>13 DEF Answered, EmptyBatch, Failed
  <2> QED
    BY <1>4, <2>4, <2>5, <2>6, <2>7, <2>8, <2>9, <2>10, <2>13 DEF Step
<1> QED
    BY <1>1, <1>2, <1>3, <1>4 DEF Next, vars, client, locals, Calm, Tick

\* A retry that reaches its request does so on a connection whose balance mode was set,
\* whatever logins and changes of balance failed or came through late before it (every
\* attempt has an API object of its own: iq_client.py:1097, and connect for each login).
THEOREM RetriesHaveBalance == Spec => []RetryHasBalance
<1> DEFINE RInv == EnvInv /\ CountTypes /\ ChosenInv
<1>1. Init => RInv
  <2> SUFFICES ASSUME Init PROVE RInv
    OBVIOUS
  <2>1. CountTypes
    BY ConnectionAssumption DEF Init, CountTypes
  <2>2. ChosenInv
    BY ConnectionAssumption DEF Init, ChosenInv, ChosenOf, Retrying, Threads
  <2> QED
    BY <2>1, <2>2, InitEnv
<1>2. RInv /\ [Next]_vars => RInv'
    BY NextEnv, NextCounts, ChosenNext
<1>3. RInv => RetryHasBalance
  <2> SUFFICES ASSUME RInv, MaxLate = 0, NEW t \in Threads, pc[t] = "request", tries[t] < Retries
               PROVE  chosen
    BY DEF RetryHasBalance
  <2>1. t = Main
    BY DEF ChosenInv, Threads
  <2> QED
    BY <2>1 DEF ChosenInv, ChosenOf, Retrying
<1> QED
    BY <1>1, <1>2, <1>3, PTL DEF Spec
=============================================================================
