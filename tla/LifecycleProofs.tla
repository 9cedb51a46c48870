-------------------------- MODULE LifecycleProofs --------------------------
(***************************************************************************)
(* NoSpin and NothingServedAgain, for every instance: the owner's thread   *)
(* and the pool's threads leave in the right order.                        *)
(***************************************************************************)
EXTENDS TcpServerProofs

\* A worker that has left its loop stays out of it.
ExitedStays == \A w \in Workers : pc[w] = "exited" => pc'[w] = "exited"

LEMMA AllExitedStays ==
    ASSUME ExitedStays, AllExited
    PROVE  AllExited'
  BY DEF ExitedStays, AllExited

\* No step of a handler is a step of the owner, stops the context or brings a
\* thread back.
LEMMA HandlersLeaveOwner ==
    ASSUME TypeOK, NEW w \in Workers, AcceptStep(w) \/ SessionStep(w)
    PROVE  UNCHANGED <<mainVars, stopped>> /\ ExitedStays
  <1>1. pc \in [Workers -> WorkerSteps]
    BY DEF TypeOK
  <1>2. CASE AcceptStep(w)
    <2>1. CASE Listen(w) \/ ConnectionTimeout(w) \/ InsertId(w)
      BY <1>1, <2>1 DEF Listen, ConnectionTimeout, InsertId, Goto, At, ExitedStays
    <2>2. CASE \/ ListenFull(w) \/ GetRandomSpareId(w) \/ AcceptFailed(w)
               \/ PostListen(w) \/ ArmTimer(w) \/ AsyncAccept(w)
      BY <1>1, <2>2 DEF ListenFull, GetRandomSpareId, AcceptFailed, PostListen, ArmTimer,
                        AsyncAccept, Return, At, ExitedStays
    <2>3. CASE PostIdTask(w) \/ PostHandshake(w)
      BY <1>1, <2>3 DEF PostIdTask, PostHandshake, At, ExitedStays
    <2>4. CASE AcceptorReady(w)
      BY <1>1, <2>4 DEF AcceptorReady, Return, At, ExitedStays
    <2>5. CASE AcceptorThrows(w)
      BY <2>5 DEF AcceptorThrows, Crash, ExitedStays, ioVars
    <2> QED
      BY <1>2, <2>1, <2>2, <2>3, <2>4, <2>5 DEF AcceptStep
  <1>3. CASE SessionStep(w)
    <2>1. CASE Initiate(w) \/ Respond(w)
      BY <1>1, <2>1 DEF Initiate, StartsOp, Respond, StartOp, Return, At, ExitedStays
    <2>2. CASE PostRead(w) \/ PostShutdown(w) \/ PostProcess(w) \/ Decrement(w)
      BY <1>1, <2>2 DEF PostRead, PostShutdown, PostProcess, Decrement, Return, At,
                        ExitedStays
    <2>3. CASE \/ CountConnection(w) \/ ProcessMessage(w) \/ EraseId(w)
               \/ CloseSocket(w)
      BY <1>1, <2>3 DEF CountConnection, ProcessMessage, EraseId, CloseSocket, Goto, At,
                        ExitedStays
    <2> QED
      BY <1>3, <2>1, <2>2, <2>3 DEF SessionStep
  <1> QED
    BY <1>2, <1>3

\* A step that leaves the owner's state alone keeps OwnerInv.
LEMMA OwnerUntouched ==
    ASSUME OwnerInv, UNCHANGED mainVars, ExitedStays, stopped' => ~guard
    PROVE  OwnerInv'
  BY AllExitedStays DEF OwnerInv, mainVars

LEMMA OwnerInvKept ==
    ASSUME TypeOK, OwnerInv, [Next]_vars
    PROVE  OwnerInv'
  <1>1. /\ pc \in [Workers -> WorkerSteps] /\ starts \in Nat /\ main \in MainSteps
        /\ (stopped => ~guard)
    BY DEF TypeOK, OwnerInv
  <1>2. ASSUME NEW w \in Workers, WorkerStep(w)
        PROVE  OwnerInv'
    <2>1. CASE EnterLoop(w) \/ Dequeue(w)
      BY <1>1, <2>1, OwnerUntouched DEF EnterLoop, Dequeue, Goto, At, ExitedStays
    <2>2. CASE RunReturns(w)
      BY <1>1, <2>2, OwnerUntouched DEF RunReturns, NoWork, At, ExitedStays
    <2>3. CASE AcceptStep(w) \/ SessionStep(w)
      BY <1>1, <2>3, HandlersLeaveOwner, OwnerUntouched
    <2> QED
      BY <1>2, <2>1, <2>2, <2>3 DEF WorkerStep
  <1>3. CASE CollectAcceptor \/ CollectTimer
    BY <1>1, <1>3, OwnerUntouched DEF CollectAcceptor, CollectTimer, ExitedStays
  <1>4. ASSUME NEW w \in Workers, NEW op \in Op, Complete(w, op)
        PROVE  OwnerInv'
    BY <1>1, <1>4, OwnerUntouched DEF Complete, At, ExitedStays
  <1>5. ASSUME NEW c \in Clients, Connect(c)
        PROVE  OwnerInv'
    BY <1>1, <1>5, OwnerUntouched DEF Connect, ExitedStays, ioVars
  <1>6. CASE UNCHANGED vars
    BY <1>1, <1>6, OwnerUntouched DEF vars, ExitedStays, ioVars
  <1>7. CASE OwnerStep
    <2>1. ExitedStays
      <3>1. CASE PostWorkers
        BY <3>1 DEF PostWorkers, ExitedStays
      <3>2. CASE ~PostWorkers
        BY <1>7, <3>2
        DEF OwnerStep, Start, ConfigureSsl, ConfigureAcceptor, BindThrows,
            PostFirstListen, Shutdown, ResetGuard, CancelAcceptor, CancelThrows,
            CloseAcceptor, StopContext, Join, Crash, ExitedStays, ioVars
      <3> QED
        BY <3>1, <3>2
    <2>2. CASE Start
      BY <1>1, <2>1, <2>2, AllExitedStays
      DEF Start, MainAt, OwnerInv, GuardDropped, ioVars
    <2>3. CASE PostWorkers \/ ConfigureSsl \/ ConfigureAcceptor \/ PostFirstListen
      BY <1>1, <2>1, <2>3, AllExitedStays
      DEF PostWorkers, ConfigureSsl, ConfigureAcceptor, PostFirstListen, MainAt,
          OwnerInv, GuardDropped, ioVars
    <2>4. CASE BindThrows \/ CancelThrows
      BY <1>1, <2>1, <2>4, OwnerUntouched DEF BindThrows, CancelThrows, Crash, ioVars
    <2>5. CASE Shutdown \/ ResetGuard
      BY <1>1, <2>1, <2>5, AllExitedStays
      DEF Shutdown, ResetGuard, MainAt, OwnerInv, GuardDropped, ioVars
    <2>6. CASE CancelAcceptor \/ CloseAcceptor \/ StopContext
      BY <1>1, <2>1, <2>6, AllExitedStays
      DEF CancelAcceptor, CloseAcceptor, StopContext, MainAt, OwnerInv, GuardDropped
    <2>7. CASE Join
      BY <1>1, <2>1, <2>7, AllExitedStays
      DEF Join, MainAt, OwnerInv, GuardDropped, ioVars
    <2> QED
      BY <1>7, <2>2, <2>3, <2>4, <2>5, <2>6, <2>7 DEF OwnerStep
  <1> QED
    BY <1>2, <1>3, <1>4, <1>5, <1>6, <1>7 DEF Next

\* OwnerInv is an invariant of the server.
THEOREM OwnerInvariant == Spec => []OwnerInv
  <1>1. Init => OwnerInv
    BY DEF Init, OwnerInv, GuardDropped
  <1>2. TypeOK /\ OwnerInv /\ [Next]_vars => OwnerInv'
    BY OwnerInvKept
  <1> QED
    BY <1>1, <1>2, TypeCorrect, PTL DEF Spec

\* A worker never loops on a stopped context while m_server_running holds: run()
\* returns for good only after shutdown() has cleared the flag.
THEOREM NeverSpins == Spec => []NoSpin
  <1>1. OwnerInv => NoSpin
    BY DEF OwnerInv, NoSpin, AllExited
  <1> QED
    BY <1>1, OwnerInvariant, PTL

-----------------------------------------------------------------------------
\* A thread that has left its loop runs no handler.
LEMMA ExitedDoNothing ==
    ASSUME AllExited, NEW w \in Workers
    PROVE  ~WorkerStep(w) /\ \A op \in Op : ~Complete(w, op)
  <1>1. pc[w] = "exited"
    BY DEF AllExited
  <1>2. ~EnterLoop(w) /\ ~Dequeue(w) /\ ~RunReturns(w) /\ \A op \in Op : ~Complete(w, op)
    BY <1>1 DEF EnterLoop, Dequeue, RunReturns, Complete, At
  <1>3. ~AcceptStep(w)
    BY <1>1
    DEF AcceptStep, Listen, AcceptorThrows, ListenFull, PostIdTask, AsyncAccept,
        AcceptorReady, GetRandomSpareId, AcceptFailed, InsertId, PostHandshake,
        PostListen, ConnectionTimeout, ArmTimer, At
  <1>4. ~SessionStep(w)
    BY <1>1
    DEF SessionStep, Initiate, StartsOp, CountConnection, PostRead, PostShutdown,
        PostProcess, ProcessMessage, Respond, EraseId, CloseSocket, Decrement, At
  <1> QED
    BY <1>2, <1>3, <1>4 DEF WorkerStep

\* Nobody joins the backlog, and a closed acceptor stays closed.
Closing == /\ \A c \in Clients : peer'[c] = "backlog" => peer[c] = "backlog"
           /\ acceptor = "closed" => acceptor' = "closed"

\* A handler accepts clients from the backlog and lets them go; it never puts one
\* there.
LEMMA HandlersClose ==
    ASSUME TypeOK, NEW w \in Workers, AcceptStep(w) \/ SessionStep(w)
    PROVE  Closing
  <1>1. peer \in [Clients -> {"new", "backlog", "open", "closed"}]
    BY DEF TypeOK
  <1>2. ASSUME NEW c \in Clients \cup {NoClient}, Accepted(c)
        PROVE  \A d \in Clients : peer'[d] = "backlog" => peer[d] = "backlog"
    BY <1>1, <1>2 DEF Accepted
  <1>3. CASE AcceptStep(w)
    <2>1. CASE AsyncAccept(w) \/ AcceptorReady(w)
      BY <1>2, <2>1 DEF AsyncAccept, AcceptorReady, Closing
    <2>2. CASE ~AsyncAccept(w) /\ ~AcceptorReady(w)
      BY <1>3, <2>2
      DEF AcceptStep, Listen, AcceptorThrows, Crash, ListenFull, PostIdTask,
          GetRandomSpareId, AcceptFailed, InsertId, PostHandshake, PostListen,
          ConnectionTimeout, ArmTimer, listenVars, Closing
    <2> QED
      BY <2>1, <2>2
  <1>4. CASE SessionStep(w)
    <2>1. CASE CloseSocket(w) \/ Decrement(w)
      BY <1>1, <2>1 DEF CloseSocket, Decrement, listenVars, Closing
    <2>2. CASE ~CloseSocket(w) /\ ~Decrement(w)
      BY <1>4, <2>2
      DEF SessionStep, Initiate, CountConnection, PostRead, PostShutdown, PostProcess,
          ProcessMessage, Respond, EraseId, listenVars, Closing
    <2> QED
      BY <2>1, <2>2
  <1> QED
    BY <1>3, <1>4

\* A step that is not the owner's keeps what shutdown() has closed, closed: when
\* the server has been started again, because it has no worker left to make one.
LEMMA ClosingKeeps ==
    ASSUME ClosedInv, Closing, UNCHANGED mainVars,
           starts > 1 => acceptor' = acceptor
    PROVE  ClosedInv'
  BY DEF ClosedInv, Closing, Backlog, mainVars

LEMMA ClosedInvKept ==
    ASSUME TypeOK, OwnerInv, ClosedInv, [Next]_vars
    PROVE  ClosedInv'
  <1>1. /\ starts \in Nat /\ main \in MainSteps
        /\ peer \in [Clients -> {"new", "backlog", "open", "closed"}]
        /\ starts > 1 => AllExited
    BY DEF TypeOK, OwnerInv
  <1>2. ASSUME NEW w \in Workers, WorkerStep(w)
        PROVE  ClosedInv'
    <2>1. ~(starts > 1)
      BY <1>1, <1>2, ExitedDoNothing
    <2>2. CASE EnterLoop(w) \/ Dequeue(w) \/ RunReturns(w)
      BY <2>1, <2>2, ClosingKeeps DEF EnterLoop, Dequeue, RunReturns, listenVars, Closing
    <2>3. CASE AcceptStep(w) \/ SessionStep(w)
      BY <2>1, <2>3, HandlersClose, HandlersLeaveOwner, ClosingKeeps
    <2> QED
      BY <1>2, <2>2, <2>3 DEF WorkerStep
  <1>3. CASE CollectAcceptor \/ CollectTimer
    BY <1>3, ClosingKeeps DEF CollectAcceptor, CollectTimer, Closing
  <1>4. ASSUME NEW w \in Workers, NEW op \in Op, Complete(w, op)
        PROVE  ClosedInv'
    BY <1>4, ClosingKeeps DEF Complete, listenVars, Closing
  <1>5. ASSUME NEW c \in Clients, Connect(c)
        PROVE  ClosedInv'
    BY <1>5 DEF Connect, ClosedInv, mainVars
  <1>6. CASE UNCHANGED vars
    BY <1>6, ClosingKeeps DEF vars, listenVars, Closing
  <1>7. CASE OwnerStep
    <2>1. CASE Start
      BY <1>1, <2>1 DEF Start, MainAt, OwnerInv, ClosedInv, listenVars, Backlog
    <2>2. CASE PostWorkers \/ ConfigureSsl \/ PostFirstListen
      BY <1>1, <2>2
      DEF PostWorkers, ConfigureSsl, PostFirstListen, ClosedInv, listenVars, Backlog
    <2>3. CASE ConfigureAcceptor
      BY <1>1, <2>3 DEF ConfigureAcceptor, ClosedInv, Backlog
    <2>4. CASE BindThrows \/ CancelThrows
      BY <2>4, ClosingKeeps DEF BindThrows, CancelThrows, Crash, listenVars, Closing
    <2>5. CASE Shutdown \/ ResetGuard \/ CancelAcceptor
      BY <1>1, <2>5 DEF Shutdown, ResetGuard, CancelAcceptor, ClosedInv, listenVars, Backlog
    <2>6. CASE CloseAcceptor
      BY <1>1, <2>6 DEF CloseAcceptor, ClosedInv, Backlog
    <2>7. CASE StopContext \/ Join
      BY <1>1, <2>7 DEF StopContext, Join, MainAt, ClosedInv, listenVars, Backlog
    <2> QED
      BY <1>7, <2>1, <2>2, <2>3, <2>4, <2>5, <2>6, <2>7 DEF OwnerStep
  <1> QED
    BY <1>2, <1>3, <1>4, <1>5, <1>6, <1>7 DEF Next

\* ClosedInv is an invariant of the server.
THEOREM ClosedInvariant == Spec => []ClosedInv
  <1>1. Init => ClosedInv
    BY DEF Init, ClosedInv
  <1>2. TypeOK /\ OwnerInv /\ ClosedInv /\ [Next]_vars => ClosedInv'
    BY ClosedInvKept
  <1> QED
    BY <1>1, <1>2, TypeCorrect, OwnerInvariant, PTL DEF Spec

\* What shutdown() leaves behind is left alone, and a server that is started again
\* serves nobody: no step of its second life touches a client.
THEOREM RestartServesNobody == Spec => NothingServedAgain
  <1>1. ASSUME TypeOK, OwnerInv, ClosedInv, [Next]_vars
        PROVE  [starts > 1 => UNCHANGED <<peer, idVars, ops, dataVars, countVars>>]_vars
    <2> SUFFICES ASSUME starts > 1
                 PROVE  UNCHANGED <<peer, idVars, ops, dataVars, countVars>>
      OBVIOUS
    <2>1. /\ AllExited /\ acceptor # "listening" /\ Backlog = {}
          /\ peer \in [Clients -> {"new", "backlog", "open", "closed"}]
      BY <1>1 DEF OwnerInv, ClosedInv, TypeOK
    <2>2. CASE OwnerStep
      <3>1. CASE CloseAcceptor
        <4>1. peer' = peer
          BY <2>1, <3>1 DEF CloseAcceptor
        <4> QED
          BY <3>1, <4>1 DEF CloseAcceptor
      <3>2. CASE ~CloseAcceptor
        BY <2>2, <3>2
        DEF OwnerStep, Start, PostWorkers, ConfigureSsl, ConfigureAcceptor, BindThrows,
            PostFirstListen, Shutdown, ResetGuard, CancelAcceptor, CancelThrows,
            StopContext, Join, Crash
      <3> QED
        BY <3>1, <3>2
    <2>3. CASE CollectAcceptor \/ CollectTimer
      BY <2>3 DEF CollectAcceptor, CollectTimer
    <2>4. \A c \in Clients : ~Connect(c)
      BY <2>1 DEF Connect
    <2>5. CASE UNCHANGED vars
      BY <2>5 DEF vars
    <2> QED
      BY <1>1, <2>1, <2>2, <2>3, <2>4, <2>5, ExitedDoNothing DEF Next
  <1>2. TypeOK /\ OwnerInv /\ ClosedInv /\ [Next]_vars
        => [starts > 1 => UNCHANGED <<peer, idVars, ops, dataVars, countVars>>]_vars
    BY <1>1
  <1> QED
    BY <1>2, TypeCorrect, OwnerInvariant, ClosedInvariant, PTL DEF Spec, NothingServedAgain
=============================================================================
