------------------------------ MODULE IdProofs ------------------------------
(***************************************************************************)
(* ActiveIdsExact, UniqueIds and AssertHolds, for every instance: an id is *)
(* drawn long before it is inserted, and still only one client has it.     *)
(***************************************************************************)
EXTENDS ListenerProofs

\* A handler or an operation holds the client's socket, and shutdown_socket has not
\* got past the erasure of its id.
Held(c) == \/ InQueue(c) \/ InOps(c)
           \/ \E w \in Workers :
                job[w].c = c /\ pc[w] \notin {"close_socket", "decrement"}

\* The ids stay exact when the same clients are held.
LEMMA HeldKeeps ==
    ASSUME ActiveIdsExact, UniqueIds, UNCHANGED idVars,
           \A c \in Clients : idOf[c] # NoId => (Held(c)' <=> Held(c))
    PROVE  ActiveIdsExact' /\ UniqueIds'
  <1>1. \A c \in Clients : Live(c)' <=> Live(c)
    BY DEF Live, Held, idVars
  <1>2. ActiveIdsExact'
    BY <1>1 DEF ActiveIdsExact, idVars
  <1>3. UniqueIds'
    BY <1>1 DEF UniqueIds, idVars
  <1> QED
    BY <1>2, <1>3

\* Sockets do not return to the backlog.
PeersStayOut == \A c \in Clients :
    peer'[c] \in {"new", "backlog"} => peer[c] \in {"new", "backlog"}

\* A handler with a client is passed on, belongs to a session or is an accept of a
\* client without id.
LEMMA CapturesPassedOn ==
    ASSUME IdComesWithAccept, NoClientElsewhere, PeersStayOut,
           \A c \in Clients : idOf[c] = NoId => idOf'[c] = NoId,
           \A i \in DOMAIN queue' :
               \/ \E j \in DOMAIN queue : queue'[i] = queue[j]
               \/ queue'[i].c = NoClient \/ queue'[i].k \in SessionSteps
               \/ queue'[i].k = "accept" /\ idOf'[queue'[i].c] = NoId,
           \A v \in Workers :
               \/ pc'[v] = pc[v] /\ job'[v] = job[v]
               \/ \E j \in DOMAIN queue : pc'[v] = queue[j].k /\ job'[v] = queue[j]
               \/ job'[v].c = NoClient \/ pc'[v] \in SessionSteps
               \/ pc'[v] = "accept" /\ idOf'[job'[v].c] = NoId
    PROVE  IdComesWithAccept' /\ NoClientElsewhere'
  <1>1. NoClient \notin Clients /\ "accept" \notin SessionSteps
    BY ConstantsAssumption DEF SessionSteps
  <1>2. NoClientElsewhere'
    BY DEF NoClientElsewhere, ClientSteps
  <1>3. ASSUME NEW c \in Clients, peer'[c] \in {"new", "backlog"}
        PROVE  idOf'[c] = NoId
    BY <1>3 DEF IdComesWithAccept, PeersStayOut
  <1>4. ASSUME NEW c \in Clients, NEW i \in DOMAIN queue',
               queue'[i].k = "accept", queue'[i].c = c
        PROVE  idOf'[c] = NoId
    BY <1>1, <1>4 DEF IdComesWithAccept
  <1>5. ASSUME NEW c \in Clients, NEW w \in Workers,
               pc'[w] = "accept", job'[w].c = c
        PROVE  idOf'[c] = NoId
    BY <1>1, <1>5 DEF IdComesWithAccept
  <1> QED
    BY <1>2, <1>3, <1>4, <1>5 DEF IdComesWithAccept
-----------------------------------------------------------------------------
\* The steps that move no client's work.
LEMMA NoClientMoves ==
    ASSUME IdInv, UNCHANGED <<idVars, ops>>, PeersStayOut, AssertHolds',
           \A i \in DOMAIN queue : i \in DOMAIN queue' /\ queue'[i] = queue[i],
           \A i \in DOMAIN queue' : i \in DOMAIN queue \/ queue'[i].c = NoClient,
           \A v \in Workers : \/ pc'[v] = pc[v] /\ job'[v] = job[v]
                              \/ job[v].c = NoClient /\ job'[v].c = NoClient
    PROVE  IdInv'
  <1>1. \A c \in Clients : Held(c)' <=> Held(c)
    <2>1. NoClient \notin Clients
      BY ConstantsAssumption
    <2>2. \A c \in Clients : InQueue(c)' <=> InQueue(c)
      BY <2>1 DEF InQueue
    <2>3. \A c \in Clients : InOps(c)' <=> InOps(c)
      BY DEF InOps
    <2>4. \A c \in Clients, v \in Workers :
              job'[v].c = c /\ pc'[v] \notin {"close_socket", "decrement"}
              <=> job[v].c = c /\ pc[v] \notin {"close_socket", "decrement"}
      BY <2>1
    <2> QED
      BY <2>2, <2>3, <2>4 DEF Held
  <1>2. ActiveIdsExact' /\ UniqueIds'
    BY <1>1, HeldKeeps DEF IdInv
  <1>3. IdComesWithAccept' /\ NoClientElsewhere'
    BY CapturesPassedOn DEF IdInv, idVars
  <1> QED
    BY <1>2, <1>3 DEF IdInv

\* The queue after a handler without a client is posted.
LEMMA PostNoClient ==
    ASSUME queue \in Seq(Task), NEW t \in Task, Post(t), t.c = NoClient
    PROVE  /\ \A i \in DOMAIN queue : i \in DOMAIN queue' /\ queue'[i] = queue[i]
           /\ \A i \in DOMAIN queue' : i \in DOMAIN queue \/ queue'[i].c = NoClient
  BY PostedPlaces

\* A session's handler hands its client on: to a handler it posts, to an operation
\* it starts, or to its own next step before the end.
LEMMA ClientHandedOn ==
    ASSUME IInv, IdInv, NEW w \in Workers, pc[w] \in SessionSteps,
           pc[w] \notin {"close_socket", "decrement"}, UNCHANGED <<idVars, peer>>,
           AssertHolds',
           NEW s, pc' = [pc EXCEPT ![w] = s],
           \/ /\ \E t \in Task : Post(t) /\ t.c = job[w].c /\ t.k \in SessionSteps
              /\ job' = [job EXCEPT ![w] = NoTask] /\ ops' = ops
           \/ \E kind \in OpKinds : StartOp(w, kind)
           \/ /\ s \in SessionSteps \ {"close_socket", "decrement"}
              /\ UNCHANGED <<queue, job, ops>>
    PROVE  IdInv'
  <1>1. /\ queue \in Seq(Task) /\ pc \in [Workers -> WorkerSteps]
        /\ job \in [Workers -> Task] /\ job[w].c \in Clients
        /\ NoTask.c = NoClient /\ NoClient \notin Clients
    BY SessionClient, TaskTypes, ConstantsAssumption DEF IInv, TypeOK
  <1>2. \A v \in Workers : v # w => pc'[v] = pc[v] /\ job'[v] = job[v]
    BY <1>1 DEF StartOp, Return
  <1>3. Held(job[w].c)
    BY DEF Held
  <1>4. CASE /\ \E t \in Task : Post(t) /\ t.c = job[w].c /\ t.k \in SessionSteps
             /\ job' = [job EXCEPT ![w] = NoTask] /\ ops' = ops
    <2>1. PICK t \in Task : Post(t) /\ t.c = job[w].c /\ t.k \in SessionSteps
      BY <1>4
    <2>2. job'[w].c = NoClient
      BY <1>1, <1>4
    <2>3. \A c \in Clients : InQueue(c)' <=> InQueue(c) \/ c = job[w].c
      BY <1>1, <2>1, PostedPlaces DEF InQueue
    <2>4. \A c \in Clients : Held(c)' <=> Held(c)
      BY <1>1, <1>2, <1>3, <1>4, <2>2, <2>3 DEF Held, InOps
    <2>5. \A i \in DOMAIN queue' :
              \/ \E j \in DOMAIN queue : queue'[i] = queue[j]
              \/ queue'[i].k \in SessionSteps
      BY <1>1, <2>1, PostedPlaces
    <2>6. IdComesWithAccept' /\ NoClientElsewhere'
      BY <1>2, <2>2, <2>5, CapturesPassedOn DEF IdInv, idVars, PeersStayOut
    <2> QED
      BY <2>4, <2>6, HeldKeeps DEF IdInv
  <1>5. ASSUME NEW kind \in OpKinds, StartOp(w, kind)
        PROVE  IdInv'
    <2>1. /\ ops' = ops \cup {[k |-> kind, c |-> job[w].c]} /\ queue' = queue
          /\ job'[w].c = NoClient
      BY <1>1, <1>5 DEF StartOp, Return
    <2>2. \A c \in Clients : InOps(c)' <=> InOps(c) \/ c = job[w].c
      <3>1. PICK o \in ops' : o.c = job[w].c /\ ops' = ops \cup {o}
        BY <2>1
      <3> QED
        BY <3>1 DEF InOps
    <2>3. \A c \in Clients : Held(c)' <=> Held(c)
      BY <1>1, <1>2, <1>3, <2>1, <2>2 DEF Held, InQueue
    <2>4. IdComesWithAccept' /\ NoClientElsewhere'
      BY <1>2, <2>1, CapturesPassedOn DEF IdInv, idVars, PeersStayOut
    <2> QED
      BY <2>3, <2>4, HeldKeeps DEF IdInv
  <1>6. CASE /\ s \in SessionSteps \ {"close_socket", "decrement"}
             /\ UNCHANGED <<queue, job, ops>>
    <2>1. pc'[w] = s /\ s \notin {"close_socket", "decrement"}
      BY <1>1, <1>6
    <2>2. \A c \in Clients : Held(c)' <=> Held(c)
      BY <1>2, <1>6, <2>1 DEF Held, InQueue, InOps
    <2>3. IdComesWithAccept' /\ NoClientElsewhere'
      BY <1>2, <1>6, <2>1, CapturesPassedOn DEF IdInv, idVars, PeersStayOut
    <2> QED
      BY <2>2, <2>3, HeldKeeps DEF IdInv
  <1> QED
    BY <1>4, <1>5, <1>6

\* The steps of a session that leave its id alone.
LEMMA SessionHandsOn ==
    ASSUME IInv, IdInv, NEW w \in Workers,
           \/ Initiate(w) \/ CountConnection(w) \/ PostRead(w) \/ PostShutdown(w)
           \/ PostProcess(w) \/ ProcessMessage(w) \/ Respond(w)
    PROVE  IdInv'
  <1>1. /\ pc[w] \in SessionSteps /\ pc[w] \notin {"close_socket", "decrement"}
        /\ UNCHANGED <<idVars, peer, crashed>>
    BY DEF Initiate, StartsOp, CountConnection, PostRead, PostShutdown, PostProcess,
           ProcessMessage, Respond, At, SessionSteps
  <1>2. AssertHolds' /\ job[w].c \in Clients /\ job[w].r \in Results
    BY <1>1, SessionClient DEF IdInv, AssertHolds, Task
  <1>3. CASE Initiate(w) \/ Respond(w)
    <2>1. PICK kind \in OpKinds : StartOp(w, kind)
      BY <1>3 DEF Initiate, StartsOp, Respond, OpKinds
    <2> QED
      BY <1>1, <1>2, <2>1, ClientHandedOn DEF StartOp, Return
  <1>4. CASE CountConnection(w) \/ ProcessMessage(w)
    <2>1. PICK s \in SessionSteps \ {"close_socket", "decrement"} :
              pc' = [pc EXCEPT ![w] = s] /\ UNCHANGED <<queue, job, ops>>
      BY <1>4 DEF CountConnection, ProcessMessage, Goto, SessionSteps
    <2> QED
      BY <1>1, <1>2, <2>1, ClientHandedOn
  <1>5. CASE PostRead(w) \/ PostShutdown(w) \/ PostProcess(w)
    <2>1. PICK k \in {"read", "shutdown", "process"}, r \in Results :
              Post(ClientTask(k, job[w].c, r))
      BY <1>2, <1>5 DEF PostRead, PostShutdown, PostProcess, Results
    <2>2. \E t \in Task : Post(t) /\ t.c = job[w].c /\ t.k \in SessionSteps
      BY <1>2, <2>1, TaskTypes DEF Kinds, SessionSteps
    <2>3. Return(w) /\ ops' = ops
      BY <1>5 DEF PostRead, PostShutdown, PostProcess
    <2> QED
      BY <1>1, <1>2, <2>2, <2>3, ClientHandedOn DEF Return
  <1> QED
    BY <1>3, <1>4, <1>5

\* The worker that holds a client is alone with it.
LEMMA OnlyHolder ==
    ASSUME IInv, NEW w \in Workers, job[w].c \in Clients
    PROVE  /\ ~InQueue(job[w].c) /\ ~InOps(job[w].c)
           /\ \A v \in Workers : job[v].c = job[w].c => v = w
  BY DEF IInv, OneContinuation, InWorker

\* shutdown_socket erases the id, which the assertion finds in the set.
LEMMA EraseIdKeepsIds ==
    ASSUME IInv, IdInv, NEW w \in Workers, EraseId(w)
    PROVE  IdInv'
  <1>. PICK d : d = job[w].c
    OBVIOUS
  <1>1. /\ pc[w] = "shutdown" /\ d \in Clients /\ idOf[d] \in Ids
        /\ pc \in [Workers -> WorkerSteps] /\ NoId \notin Ids
    BY SessionClient, ConstantsAssumption DEF EraseId, At, SessionSteps, IInv, TypeOK
  <1>2. Live(d)
    BY <1>1 DEF Live
  <1>3. idOf[d] \in activeIds /\ AssertHolds'
    BY <1>1, <1>2 DEF IdInv, ActiveIdsExact, EraseId, AssertHolds
  <1>4. /\ activeIds' = activeIds \ {idOf[d]} /\ UNCHANGED <<queue, job, ops, idOf, peer>>
        /\ pc' = [pc EXCEPT ![w] = "close_socket"]
    BY DEF EraseId, Goto
  <1>5. ~InQueue(d) /\ ~InOps(d) /\ \A v \in Workers : job[v].c = d => v = w
    BY <1>1, OnlyHolder
  <1>6. ~Live(d)'
    BY <1>1, <1>4, <1>5 DEF Live, InQueue, InOps
  <1>7. \A c \in Clients : c # d => (Live(c)' <=> Live(c))
    BY <1>1, <1>4 DEF Live, InQueue, InOps
  <1>8. \A c \in Clients : Live(c) /\ c # d => idOf[c] # idOf[d]
    BY <1>1, <1>2 DEF IdInv, UniqueIds
  <1>9. ActiveIdsExact'
    <2>1. ASSUME NEW i \in activeIds'
          PROVE  \E c \in Clients : Live(c)' /\ i = idOf'[c]
      BY <1>4, <1>7, <2>1 DEF IdInv, ActiveIdsExact
    <2>2. ASSUME NEW c \in Clients, Live(c)'
          PROVE  idOf'[c] \in activeIds'
      BY <1>4, <1>6, <1>7, <1>8, <2>2 DEF IdInv, ActiveIdsExact
    <2> QED
      BY <2>1, <2>2 DEF ActiveIdsExact
  <1>10. UniqueIds'
    BY <1>4, <1>6, <1>7 DEF IdInv, UniqueIds
  <1>11. IdComesWithAccept' /\ NoClientElsewhere'
    BY <1>1, <1>4, CapturesPassedOn DEF IdInv, PeersStayOut, SessionSteps
  <1> QED
    BY <1>3, <1>9, <1>10, <1>11 DEF IdInv

\* shutdown_socket closes the socket and lets the client go.
LEMMA SocketLetGo ==
    ASSUME IInv, IdInv, NEW w \in Workers, CloseSocket(w) \/ Decrement(w)
    PROVE  IdInv'
  <1>. PICK d : d = job[w].c
    OBVIOUS
  <1>1. /\ pc[w] \in {"close_socket", "decrement"} /\ d \in Clients
        /\ pc \in [Workers -> WorkerSteps] /\ job \in [Workers -> Task]
        /\ idOf \in [Clients -> Ids \cup {NoId}]
        /\ peer \in [Clients -> {"new", "backlog", "open", "closed"}]
    BY SessionClient DEF CloseSocket, Decrement, At, SessionSteps, IInv, TypeOK
  <1>2. /\ UNCHANGED <<queue, ops, activeIds, crashed>> /\ PeersStayOut
        /\ \A c \in Clients : c # d => idOf'[c] = idOf[c]
        /\ idOf'[d] \in {idOf[d], NoId}
        /\ \A v \in Workers : v # w => pc'[v] = pc[v] /\ job'[v] = job[v]
        /\ \/ job'[w].c = d /\ pc'[w] = "decrement"
           \/ job'[w].c = NoClient
    <2>1. CASE CloseSocket(w)
      BY <1>1, <2>1 DEF CloseSocket, Goto, PeersStayOut, idVars
    <2>2. CASE Decrement(w)
      BY <1>1, <2>2, TaskTypes DEF Decrement, Return, PeersStayOut
    <2> QED
      BY <2>1, <2>2
  <1>3. ~InQueue(d) /\ ~InOps(d) /\ \A v \in Workers : job[v].c = d => v = w
    BY <1>1, OnlyHolder
  <1>4. NoClient \notin Clients
    BY ConstantsAssumption
  <1>5. ~Live(d) /\ ~Live(d)'
    BY <1>1, <1>2, <1>3, <1>4 DEF Live, InQueue, InOps
  <1>6. \A c \in Clients : c # d => (Live(c)' <=> Live(c))
    BY <1>1, <1>2, <1>4 DEF Live, InQueue, InOps
  <1>7. ActiveIdsExact' /\ UniqueIds'
    <2>1. \A c \in Clients : (Live(c)' <=> Live(c)) /\ (Live(c) => idOf'[c] = idOf[c])
      BY <1>2, <1>5, <1>6
    <2>2. {idOf'[c] : c \in {e \in Clients : Live(e)'}}
          = {idOf[c] : c \in {e \in Clients : Live(e)}}
      BY <2>1
    <2> QED
      BY <1>2, <2>1, <2>2 DEF IdInv, ActiveIdsExact, UniqueIds
  <1>8. IdComesWithAccept' /\ NoClientElsewhere'
    <2>1. \A c \in Clients : idOf[c] = NoId => idOf'[c] = NoId
      BY <1>2
    <2>2. "decrement" \in SessionSteps
      BY DEF SessionSteps
    <2> QED
      BY <1>2, <2>1, <2>2, CapturesPassedOn DEF IdInv
  <1> QED
    BY <1>2, <1>7, <1>8 DEF IdInv, AssertHolds
-----------------------------------------------------------------------------
LEMMA CompleteKeepsIds ==
    ASSUME IInv, IdInv, NEW w \in Workers, NEW op \in Op, Complete(w, op)
    PROVE  IdInv'
  <1>1. /\ op \in ops /\ op.c \in Clients /\ op.k \in OpKinds /\ pc[w] = "idle"
        /\ pc \in [Workers -> WorkerSteps] /\ job \in [Workers -> Task]
    BY DEF Complete, At, Op, IInv, TypeOK
  <1>2. PICK r \in Outcomes(op) :
            job' = [job EXCEPT ![w] = ClientTask(HandlerOf[op.k], op.c, r)]
    BY DEF Complete
  <1>3. HandlerOf[op.k] \in SessionSteps \ {"close_socket", "decrement"}
    BY <1>1 DEF HandlerOf, OpKinds, SessionSteps
  <1>4. pc'[w] = HandlerOf[op.k] /\ job'[w].c = op.c
    BY <1>1, <1>2 DEF Complete, ClientTask
  <1>5. \A v \in Workers : v # w => pc'[v] = pc[v] /\ job'[v] = job[v]
    BY <1>1, <1>2 DEF Complete
  <1>6. ops' = ops \ {op} /\ UNCHANGED <<queue, idVars, peer, crashed>>
    BY DEF Complete
  <1>7. job[w].c = NoClient /\ NoClient \notin Clients
    BY <1>1, ConstantsAssumption DEF IdInv, NoClientElsewhere, ClientSteps, SessionSteps
  <1>8. \A c \in Clients : InOps(c)' \/ c = op.c <=> InOps(c)
    BY <1>1, <1>6 DEF InOps
  <1>9. \A c \in Clients : Held(c)' <=> Held(c)
    BY <1>3, <1>4, <1>5, <1>6, <1>7, <1>8 DEF Held, InQueue
  <1>10. IdComesWithAccept' /\ NoClientElsewhere'
    BY <1>3, <1>4, <1>5, <1>6, CapturesPassedOn DEF IdInv, idVars, PeersStayOut
  <1> QED
    BY <1>6, <1>9, <1>10, HeldKeeps DEF IdInv, AssertHolds

LEMMA DequeueKeepsIds ==
    ASSUME IInv, IdInv, NEW w \in Workers, Dequeue(w)
    PROVE  IdInv'
  <1>1. /\ pc[w] = "idle" /\ queue \in Seq(Task) /\ queue # <<>> /\ queue' = Tail(queue)
        /\ pc \in [Workers -> WorkerSteps] /\ job \in [Workers -> Task]
        /\ pc' = [pc EXCEPT ![w] = queue[1].k] /\ job' = [job EXCEPT ![w] = queue[1]]
        /\ UNCHANGED <<idVars, ops, peer, crashed>>
    BY DequeuedPlaces DEF Dequeue, At, IInv, TypeOK
  <1>2. /\ job[w].c = NoClient /\ NoClient \notin Clients
        /\ pc'[w] \notin {"close_socket", "decrement"}
    BY <1>1, DequeuedPlaces, ConstantsAssumption
    DEF IdInv, NoClientElsewhere, ClientSteps, SessionSteps, Task, Kinds
  <1>3. \A v \in Workers : v # w => pc'[v] = pc[v] /\ job'[v] = job[v]
    BY <1>1
  <1>4. pc'[w] = queue[1].k /\ job'[w] = queue[1] /\ 1 \in DOMAIN queue
    BY <1>1, DequeuedPlaces
  <1>5. \A c \in Clients : InQueue(c) <=> InQueue(c)' \/ c = queue[1].c
    <2>1. ASSUME NEW c \in Clients, NEW i \in DOMAIN queue, queue[i].c = c, i # 1
          PROVE  InQueue(c)'
      BY <1>1, <2>1, DequeuedPlaces DEF InQueue
    <2>2. ASSUME NEW c \in Clients, NEW i \in DOMAIN queue', queue'[i].c = c
          PROVE  InQueue(c)
      BY <1>1, <2>2, DequeuedPlaces DEF InQueue
    <2> QED
      BY <1>4, <2>1, <2>2 DEF InQueue
  <1>6. \A c \in Clients : Held(c)' <=> Held(c)
    BY <1>1, <1>2, <1>3, <1>4, <1>5 DEF Held, InOps
  <1>7. \A i \in DOMAIN queue' : \E j \in DOMAIN queue : queue'[i] = queue[j]
    BY <1>1, DequeuedPlaces
  <1>8. IdComesWithAccept' /\ NoClientElsewhere'
    BY <1>1, <1>3, <1>4, <1>7, CapturesPassedOn DEF IdInv, idVars, PeersStayOut
  <1> QED
    BY <1>1, <1>6, <1>8, HeldKeeps DEF IdInv, AssertHolds

\* A client that accept(2) hands out has no id, in whichever handler it is.
LEMMA AcceptKeepsIds ==
    ASSUME IInv, IdInv, NEW w \in Workers, job[w].c = NoClient,
           NEW c0 \in Clients, idOf[c0] = NoId, PeersStayOut,
           UNCHANGED <<idVars, ops, crashed>>, NEW t \in Task, t.k = "accept", t.c = c0,
           \/ Post(t) /\ Return(w)
           \/ /\ pc' = [pc EXCEPT ![w] = "accept"] /\ job' = [job EXCEPT ![w] = t]
              /\ UNCHANGED queue
    PROVE  IdInv'
  <1>1. /\ queue \in Seq(Task) /\ pc \in [Workers -> WorkerSteps]
        /\ job \in [Workers -> Task] /\ NoClient \notin Clients
        /\ NoTask.c = NoClient
    BY TaskTypes, ConstantsAssumption DEF IInv, TypeOK
  <1>2. \A v \in Workers : v # w => pc'[v] = pc[v] /\ job'[v] = job[v]
    BY <1>1 DEF Return
  <1>3. \/ job'[w].c = NoClient
        \/ pc'[w] = "accept" /\ job'[w].c = c0
    BY <1>1 DEF Return
  <1>4. \A i \in DOMAIN queue : i \in DOMAIN queue' /\ queue'[i] = queue[i]
    BY <1>1, PostedPlaces
  <1>5. \A i \in DOMAIN queue' : i \in DOMAIN queue \/ queue'[i] = t
    BY <1>1, PostedPlaces
  <1>6. \A c \in Clients : c # c0 => (InQueue(c)' <=> InQueue(c))
    BY <1>4, <1>5 DEF InQueue
  <1>7. \A c \in Clients : idOf[c] # NoId => (Held(c)' <=> Held(c))
    BY <1>1, <1>2, <1>3, <1>6 DEF Held, InOps
  <1>8. IdComesWithAccept' /\ NoClientElsewhere'
    <2>1. idOf'[c0] = NoId /\ \A c \in Clients : idOf[c] = NoId => idOf'[c] = NoId
      BY DEF idVars
    <2>2. \A i \in DOMAIN queue' : \/ \E j \in DOMAIN queue : queue'[i] = queue[j]
                                   \/ queue'[i].k = "accept" /\ idOf'[queue'[i].c] = NoId
      BY <1>4, <1>5, <2>1
    <2> QED
      BY <1>2, <1>3, <2>1, <2>2, CapturesPassedOn DEF IdInv
  <1> QED
    BY <1>7, <1>8, HeldKeeps DEF IdInv, AssertHolds

LEMMA AsyncAcceptKeepsIds ==
    ASSUME IInv, IdInv, NEW w \in Workers, AsyncAccept(w)
    PROVE  IdInv'
  <1>1. /\ job[w].c = NoClient /\ job[w].n \in Nat /\ Return(w)
        /\ UNCHANGED <<idVars, ops, crashed>> /\ queue \in Seq(Task)
        /\ pc \in [Workers -> WorkerSteps] /\ job \in [Workers -> Task]
        /\ peer \in [Clients -> {"new", "backlog", "open", "closed"}]
    BY DEF AsyncAccept, At, IdInv, NoClientElsewhere, ClientSteps, SessionSteps, IInv,
           TypeOK, Task
  <1>2. \A v \in Workers : \/ pc'[v] = pc[v] /\ job'[v] = job[v]
                           \/ job[v].c = NoClient /\ job'[v].c = NoClient
    BY <1>1, TaskTypes DEF Return
  <1>3. ASSUME Post(AcceptTask(job[w].n, NoClient)), UNCHANGED peer
        PROVE  IdInv'
    BY <1>1, <1>2, <1>3, PostNoClient, TaskTypes, NoClientMoves
    DEF IdInv, AssertHolds, PeersStayOut
  <1>4. ASSUME NEW c \in Backlog, peer' = [peer EXCEPT ![c] = "open"],
               Post(AcceptTask(job[w].n, c))
        PROVE  IdInv'
    <2>1. c \in Clients /\ idOf[c] = NoId
      BY DEF Backlog, IdInv, IdComesWithAccept
    <2>2. PeersStayOut
      BY <1>1, <1>4 DEF PeersStayOut
    <2> QED
      BY <1>1, <1>4, <2>1, <2>2, TaskTypes, AcceptKeepsIds
  <1>5. ASSUME UNCHANGED <<queue, peer>>
        PROVE  IdInv'
    BY <1>1, <1>2, <1>5, NoClientMoves DEF IdInv, AssertHolds, PeersStayOut
  <1> QED
    BY <1>3, <1>4, <1>5 DEF AsyncAccept, Accepted

LEMMA AcceptorReadyKeepsIds ==
    ASSUME IInv, IdInv, NEW w \in Workers, AcceptorReady(w)
    PROVE  IdInv'
  <1>1. /\ job[w].c = NoClient /\ UNCHANGED <<queue, idVars, ops, crashed>>
        /\ pc \in [Workers -> WorkerSteps] /\ job \in [Workers -> Task]
        /\ peer \in [Clients -> {"new", "backlog", "open", "closed"}]
    BY DEF AcceptorReady, At, IdInv, NoClientElsewhere, ClientSteps, SessionSteps, IInv,
           TypeOK
  <1>2. ASSUME Return(w), UNCHANGED peer
        PROVE  IdInv'
    BY <1>1, <1>2, NoClientMoves, TaskTypes DEF Return, IdInv, AssertHolds, PeersStayOut
  <1>3. ASSUME acceptOps # <<>>, NEW c \in Clients \cup {NoClient}, Accepted(c),
               job' = [job EXCEPT ![w] = AcceptTask(Head(acceptOps), c)],
               pc' = [pc EXCEPT ![w] = "accept"]
        PROVE  IdInv'
    <2>1. Head(acceptOps) \in Nat
      BY <1>3, HeadTailProperties DEF IInv, TypeOK
    <2>2. PICK t \in Task : /\ t = AcceptTask(Head(acceptOps), c)
                            /\ t.k = "accept" /\ t.c = c
      BY <2>1, TaskTypes
    <2>3. CASE c \in Backlog /\ peer' = [peer EXCEPT ![c] = "open"]
      <3>1. c \in Clients /\ idOf[c] = NoId
        BY <2>3 DEF Backlog, IdInv, IdComesWithAccept
      <3>2. PeersStayOut
        BY <1>1, <2>3 DEF PeersStayOut
      <3> QED
        BY <1>1, <1>3, <2>2, <3>1, <3>2, AcceptKeepsIds
    <2>4. CASE c = NoClient /\ UNCHANGED peer
      BY <1>1, <1>3, <2>2, <2>4, NoClientMoves DEF IdInv, AssertHolds, PeersStayOut
    <2> QED
      BY <1>3, <2>3, <2>4 DEF Accepted
  <1> QED
    BY <1>2, <1>3 DEF AcceptorReady

\* on_connection_attempt inserts an id that is still not active: only the round
\* that drew it could have used it.
LEMMA InsertIdKeepsIds ==
    ASSUME IInv, Listening, IdInv, NEW w \in Workers, InsertId(w)
    PROVE  IdInv'
  <1>. PICK d, i : d = job[w].c /\ i = promises[job[w].n]
    OBVIOUS
  <1>1. /\ pc[w] = "accept" /\ d \in Clients /\ pc \in [Workers -> WorkerSteps]
        /\ idOf \in [Clients -> Ids \cup {NoId}] /\ job[w].n \in DOMAIN promises
    BY DEF InsertId, At, IInv, TypeOK, Task, CapturesValid, WorkersFit, Fits, RoundSteps,
           IsRound
  <1>2. i # NoId /\ i \notin activeIds
    BY <1>1 DEF InsertId, Listening, OneDrawnId
  <1>3. /\ activeIds' = activeIds \cup {i} /\ idOf' = [idOf EXCEPT ![d] = i]
        /\ pc' = [pc EXCEPT ![w] = "post_handshake"]
        /\ UNCHANGED <<queue, job, ops, peer, crashed>>
    BY DEF InsertId, Goto
  <1>4. idOf[d] = NoId
    BY <1>1 DEF IdInv, IdComesWithAccept
  <1>5. ~InQueue(d) /\ ~InOps(d) /\ \A v \in Workers : job[v].c = d => v = w
    BY <1>1, OnlyHolder
  <1>6. ~Live(d) /\ Live(d)' /\ idOf'[d] = i
    BY <1>1, <1>2, <1>3, <1>4 DEF Live
  <1>7. \A c \in Clients : c # d => (Live(c)' <=> Live(c)) /\ idOf'[c] = idOf[c]
    BY <1>1, <1>3 DEF Live, InQueue, InOps
  <1>8. \A c \in Clients : Live(c) => idOf[c] \in activeIds /\ c # d
    BY <1>6 DEF IdInv, ActiveIdsExact
  <1>9. ActiveIdsExact'
    <2>1. ASSUME NEW j \in activeIds'
          PROVE  \E c \in Clients : Live(c)' /\ j = idOf'[c]
      BY <1>1, <1>3, <1>6, <1>7, <1>8, <2>1 DEF IdInv, ActiveIdsExact
    <2>2. ASSUME NEW c \in Clients, Live(c)'
          PROVE  idOf'[c] \in activeIds'
      BY <1>3, <1>6, <1>7, <1>8, <2>2
    <2> QED
      BY <2>1, <2>2 DEF ActiveIdsExact
  <1>10. UniqueIds'
    BY <1>2, <1>6, <1>7, <1>8 DEF IdInv, UniqueIds
  <1>11. NoClientElsewhere'
    BY <1>1, <1>3 DEF IdInv, NoClientElsewhere, ClientSteps, SessionSteps
  <1>12. IdComesWithAccept'
    <2>1. peer[d] \in {"open", "closed"}
      BY <1>1 DEF IInv, CapturesValid, BusyIsAccepted, Busy, InWorker
    <2>2. \A v \in Workers : pc'[v] = "accept" => job[v].c # d /\ pc[v] = "accept"
      BY <1>1, <1>3, <1>5
    <2>3. \A k \in DOMAIN queue : queue[k].c # d
      BY <1>5 DEF InQueue
    <2> QED
      BY <1>3, <1>7, <2>1, <2>2, <2>3 DEF IdInv, IdComesWithAccept
  <1> QED
    BY <1>3, <1>9, <1>10, <1>11, <1>12 DEF IdInv, AssertHolds

\* The other steps of the listening side move no client but to the handshake.
LEMMA AcceptStepKeepsIds ==
    ASSUME IInv, Listening, IdInv, NEW w \in Workers, AcceptStep(w)
    PROVE  IdInv'
  <1>1. /\ queue \in Seq(Task) /\ pc \in [Workers -> WorkerSteps]
        /\ job \in [Workers -> Task] /\ NoTask.c = NoClient /\ crashed # "assert"
    BY TaskTypes DEF IInv, TypeOK, IdInv, AssertHolds
  <1>2. pc[w] \notin ClientSteps => job[w].c = NoClient
    BY DEF IdInv, NoClientElsewhere
  <1>3. CASE AcceptorThrows(w)
    BY <1>1, <1>3, NoClientMoves
    DEF AcceptorThrows, Crash, PeersStayOut, AssertHolds, ioVars
  <1>4. CASE Listen(w) \/ GetRandomSpareId(w) \/ AcceptFailed(w) \/ ArmTimer(w)
    <2>1. /\ job[w].c = NoClient /\ UNCHANGED <<queue, idVars, ops, peer, crashed>>
          /\ \A v \in Workers : \/ pc'[v] = pc[v] /\ job'[v] = job[v]
                                \/ v = w /\ job'[v].c = NoClient
      BY <1>1, <1>2, <1>4
      DEF Listen, GetRandomSpareId, AcceptFailed, ArmTimer, At, Goto, Return, ClientSteps,
          SessionSteps
    <2> QED
      BY <1>1, <2>1, NoClientMoves DEF PeersStayOut, AssertHolds
  <1>5. CASE ConnectionTimeout(w)
    <2>1. acceptOps = <<>>
      BY <1>5, RunningAlone DEF ConnectionTimeout, At, ListenSteps, ListenKinds, IInv
    <2>2. queue' = queue
      BY <1>1, <1>5, <2>1, NothingToAbort DEF ConnectionTimeout
    <2>3. /\ job[w].c = NoClient /\ UNCHANGED <<job, idVars, ops, peer, crashed>>
          /\ \A v \in Workers : v # w => pc'[v] = pc[v]
      BY <1>1, <1>2, <1>5 DEF ConnectionTimeout, At, Goto, ClientSteps, SessionSteps
    <2> QED
      BY <1>1, <2>2, <2>3, NoClientMoves DEF PeersStayOut, AssertHolds
  <1>6. CASE ListenFull(w) \/ PostListen(w) \/ PostIdTask(w)
    <2>1. LastRound + 1 \in Nat
      BY LenProperties DEF LastRound, IInv, TypeOK
    <2>2. PICK t \in Task : t.c = NoClient /\ Post(t)
      BY <1>6, <2>1, TaskTypes DEF ListenFull, PostListen, PostIdTask, LastRound, Kinds
    <2>3. /\ job[w].c = NoClient /\ UNCHANGED <<idVars, ops, peer, crashed>>
          /\ \A v \in Workers : \/ pc'[v] = pc[v] /\ job'[v] = job[v]
                                \/ v = w /\ job'[v].c = NoClient
      BY <1>1, <1>2, <1>6, <2>1, TaskTypes
      DEF ListenFull, PostListen, PostIdTask, At, Return, ClientSteps, SessionSteps,
          LastRound
    <2> QED
      BY <1>1, <2>2, <2>3, PostNoClient, NoClientMoves DEF PeersStayOut, AssertHolds
  <1>7. CASE PostHandshake(w)
    <2>1. pc[w] \in SessionSteps /\ pc[w] \notin {"close_socket", "decrement"}
      BY <1>7 DEF PostHandshake, At, SessionSteps
    <2>2. job[w].c \in Clients
      BY <2>1, SessionClient
    <2>3. \E t \in Task : Post(t) /\ t.c = job[w].c /\ t.k \in SessionSteps
      BY <1>7, <2>2, TaskTypes DEF PostHandshake, Kinds, Results, SessionSteps
    <2> QED
      BY <1>1, <1>7, <2>1, <2>3, ClientHandedOn DEF PostHandshake, AssertHolds
  <1> QED
    BY <1>3, <1>4, <1>5, <1>6, <1>7, AsyncAcceptKeepsIds, AcceptorReadyKeepsIds,
       InsertIdKeepsIds DEF AcceptStep

LEMMA OwnerStepKeepsIds ==
    ASSUME IInv, IdInv, OwnerStep
    PROVE  IdInv'
  <1>1. queue \in Seq(Task) /\ crashed # "assert"
    BY DEF IInv, TypeOK, IdInv, AssertHolds
  <1>2. CASE \/ Start \/ ConfigureSsl \/ ConfigureAcceptor \/ Shutdown \/ ResetGuard
             \/ StopContext \/ Join
    BY <1>1, <1>2, NoClientMoves
    DEF Start, ConfigureSsl, ConfigureAcceptor, Shutdown, ResetGuard, StopContext, Join,
        PeersStayOut, AssertHolds, ioVars
  <1>3. CASE BindThrows \/ CancelThrows
    BY <1>3, NoClientMoves
    DEF BindThrows, CancelThrows, Crash, PeersStayOut, AssertHolds, ioVars
  <1>4. CASE PostWorkers
    <2>1. \A v \in Workers : pc[v] = "new" => job[v].c = NoClient
      BY DEF IdInv, NoClientElsewhere, ClientSteps, SessionSteps
    <2> QED
      BY <1>1, <1>4, <2>1, NoClientMoves DEF PostWorkers, PeersStayOut, AssertHolds
  <1>5. CASE PostFirstListen
    BY <1>1, <1>5, PostNoClient, TaskTypes, NoClientMoves
    DEF PostFirstListen, PeersStayOut, AssertHolds, Kinds
  <1>6. CASE CancelAcceptor \/ CloseAcceptor
    <2>1. /\ queue' = queue \o Aborted /\ UNCHANGED <<pc, job, ops, idVars, crashed>>
          /\ PeersStayOut
      BY <1>6 DEF CancelAcceptor, CloseAcceptor, PeersStayOut
    <2>2. /\ \A i \in DOMAIN queue : i \in DOMAIN queue' /\ queue'[i] = queue[i]
          /\ \A i \in DOMAIN queue' : i \in DOMAIN queue \/ queue'[i].c = NoClient
      <3>1. Aborted \in Seq(Task) /\ \A i \in DOMAIN Aborted : Aborted[i].c = NoClient
        <4>1. acceptOps \in Seq(Nat)
          BY DEF IInv, TypeOK
        <4>2. \A i \in DOMAIN acceptOps :
                  /\ AcceptTask(acceptOps[i], NoClient) \in Task
                  /\ AcceptTask(acceptOps[i], NoClient).c = NoClient
          BY <4>1, TaskTypes
        <4> QED
          BY <4>1, <4>2, LenProperties DEF Aborted
      <3> QED
        BY <1>1, <2>1, <3>1, ConcatProperties, LenProperties
    <2> QED
      BY <1>1, <2>1, <2>2, NoClientMoves DEF AssertHolds
  <1> QED
    BY <1>2, <1>3, <1>4, <1>5, <1>6 DEF OwnerStep

LEMMA IdInvKept ==
    ASSUME IInv, OwnerInv, ListenInv, IdInv, [Next]_vars
    PROVE  IdInv'
  <1>1. queue \in Seq(Task) /\ crashed # "assert" /\ starts \in Nat
    BY DEF IInv, TypeOK, IdInv, AssertHolds
  <1>2. ASSUME NEW w \in Workers, EnterLoop(w) \/ RunReturns(w)
        PROVE  IdInv'
    <2>1. pc \in [Workers -> WorkerSteps] /\ job[w].c = NoClient
      BY <1>2 DEF EnterLoop, RunReturns, At, IdInv, NoClientElsewhere, ClientSteps,
                  SessionSteps, IInv, TypeOK
    <2> QED
      BY <1>1, <1>2, <2>1, NoClientMoves
      DEF EnterLoop, RunReturns, Goto, PeersStayOut, AssertHolds
  <1>3. ASSUME NEW w \in Workers, AcceptStep(w)
        PROVE  IdInv'
    <2>1. pc[w] # "exited"
      BY <1>3 DEF AcceptStep, Listen, AcceptorThrows, ListenFull, PostIdTask, AsyncAccept,
                  AcceptorReady, GetRandomSpareId, AcceptFailed, InsertId, PostHandshake,
                  PostListen, ConnectionTimeout, ArmTimer, At
    <2>2. Listening
      BY <1>1, <2>1 DEF OwnerInv, AllExited, ListenInv
    <2> QED
      BY <1>3, <2>2, AcceptStepKeepsIds
  <1>4. CASE CollectAcceptor \/ CollectTimer
    BY <1>1, <1>4, PostNoClient, TaskTypes, NoClientMoves
    DEF CollectAcceptor, CollectTimer, PeersStayOut, AssertHolds, Kinds
  <1>5. ASSUME NEW c \in Clients, Connect(c)
        PROVE  IdInv'
    <2>1. PeersStayOut
      BY <1>5 DEF Connect, PeersStayOut, IInv, TypeOK
    <2> QED
      BY <1>1, <1>5, <2>1, NoClientMoves DEF Connect, AssertHolds, ioVars
  <1>6. CASE UNCHANGED vars
    BY <1>1, <1>6, NoClientMoves DEF vars, PeersStayOut, AssertHolds, ioVars
  <1> QED
    BY <1>2, <1>3, <1>4, <1>5, <1>6, OwnerStepKeepsIds, DequeueKeepsIds, CompleteKeepsIds,
       SessionHandsOn, EraseIdKeepsIds, SocketLetGo
    DEF Next, WorkerStep, SessionStep

\* IdInv is an invariant of the server.
THEOREM IdInvariant == Spec => []IdInv
  <1>1. Init => IdInv
    BY TaskTypes
    DEF Init, IdInv, IdComesWithAccept, NoClientElsewhere, ActiveIdsExact, UniqueIds,
        AssertHolds, Live
  <1>2. IInv /\ OwnerInv /\ ListenInv /\ IdInv /\ [Next]_vars => IdInv'
    BY IdInvKept
  <1> QED
    BY <1>1, <1>2, InductiveInvariant, OwnerInvariant, ListenInvariant, PTL DEF Spec

\* m_active_client_ids holds exactly the ids of the clients between
\* on_connection_attempt and shutdown_socket.
THEOREM IdsExact == Spec => []ActiveIdsExact
  <1>1. IdInv => ActiveIdsExact
    BY DEF IdInv
  <1> QED
    BY <1>1, IdInvariant, PTL

\* No two clients that are served at the same time have the same id, so they share
\* no entry of m_received_messages.
THEOREM IdsUnique == Spec => []UniqueIds
  <1>1. IdInv => UniqueIds
    BY DEF IdInv
  <1> QED
    BY <1>1, IdInvariant, PTL

\* The assertion of shutdown_socket never aborts the process.
THEOREM AssertNeverFails == Spec => []AssertHolds
  <1>1. IdInv => AssertHolds
    BY DEF IdInv
  <1> QED
    BY <1>1, IdInvariant, PTL
=============================================================================
