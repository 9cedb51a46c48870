-------------------------- MODULE TcpServerProofs --------------------------
EXTENDS ServerInvariants, SequenceTheorems, TLAPS

\* Every entry of the new queue that concerns a client was in the queue at the
\* same place, but for one for d at the end.
Queues(d) ==
    \A i \in DOMAIN queue' : queue'[i].c \in Clients =>
        \/ i \in DOMAIN queue /\ queue'[i].c = queue[i].c
        \/ i = Len(queue) + 1 /\ queue'[i].c = d

\* Nothing starts to work for a client other than d.
NewlyBusyOnly(d) == \A c \in Clients : Busy(c)' => Busy(c) \/ c = d

LEMMA PostQueues ==
    ASSUME queue \in Seq(Task), NEW t \in Task, Post(t)
    PROVE  Queues(t.c) /\ queue' \in Seq(Task)
  BY AppendProperties DEF Post, Queues, Task

\* A worker's handler goes on, posts a handler for the client or drops it.
LEMMA WorkerKeepsOne ==
    ASSUME TypeOK, OneContinuation,
           NEW w \in Workers, NEW d, NEW j \in Task,
           Queues(d), job' = [job EXCEPT ![w] = j], ops' = ops,
           d \in {NoClient, job[w].c}, j.c \in {NoClient, job[w].c},
           d = NoClient \/ j.c = NoClient
    PROVE  OneContinuation' /\ NewlyBusyOnly(NoClient)
  <1>1. NoClient \notin Clients
    BY ConstantsAssumption
  <1>2. job \in [Workers -> Task]
    BY DEF TypeOK
  <1>3. \A v \in Workers : job'[v].c \in Clients => job'[v].c = job[v].c
    BY <1>1, <1>2
  <1>4. \A i \in DOMAIN queue' : queue'[i].c \in Clients =>
            \/ i \in DOMAIN queue /\ queue'[i].c = queue[i].c
            \/ i = Len(queue) + 1 /\ queue'[i].c = job[w].c /\ job'[w].c = NoClient
    BY <1>1, <1>2 DEF Queues
  <1>5. ASSUME NEW c \in Clients
        PROVE  /\ InQueue(c)' => InQueue(c) \/ (job[w].c = c /\ job'[w].c = NoClient)
               /\ InWorker(c)' => InWorker(c)
               /\ InOps(c)' => InOps(c)
    BY <1>3, <1>4 DEF InQueue, InWorker, InOps
  <1>6. NewlyBusyOnly(NoClient)
    BY <1>5 DEF NewlyBusyOnly, Busy, InWorker
  <1>7. ASSUME NEW c \in Clients,
               InQueue(c)', InWorker(c)'
        PROVE  FALSE
    BY <1>1, <1>3, <1>5, <1>7 DEF InWorker, OneContinuation
  <1>8. ASSUME NEW c \in Clients, NEW i \in DOMAIN queue', NEW k \in DOMAIN queue',
               queue'[i].c = c, queue'[k].c = c
        PROVE  i = k
    BY <1>4, <1>8 DEF OneContinuation, InWorker, InQueue
  <1> QED
    BY <1>1, <1>3, <1>5, <1>6, <1>7, <1>8 DEF OneContinuation, InWorker, InOps

\* do_run_one moves a handler from the queue to a worker.
LEMMA DequeueKeepsOne ==
    ASSUME TypeOK, OneContinuation,
           NEW w \in Workers, queue # <<>>,
           queue' = Tail(queue), job' = [job EXCEPT ![w] = Head(queue)], ops' = ops
    PROVE  OneContinuation' /\ NewlyBusyOnly(NoClient)
  <1>1. job \in [Workers -> Task] /\ queue \in Seq(Task)
    BY DEF TypeOK
  <1>2. /\ DOMAIN queue' = 1 .. Len(queue) - 1
        /\ \A i \in DOMAIN queue' : i + 1 \in DOMAIN queue /\ queue'[i] = queue[i + 1]
        /\ 1 \in DOMAIN queue /\ job'[w] = queue[1]
        /\ \A i \in DOMAIN queue' : i \in Nat /\ i >= 1
    BY <1>1, HeadTailProperties, LenProperties
  <1>3. \A v \in Workers : v # w => job'[v] = job[v]
    BY <1>1
  <1>4. ASSUME NEW c \in Clients
        PROVE  /\ InQueue(c)' => InQueue(c)
               /\ InWorker(c)' => InWorker(c) \/ (InQueue(c) /\ queue[1].c = c)
               /\ InOps(c)' => InOps(c)
    BY <1>2, <1>3 DEF InQueue, InWorker, InOps
  <1>5. ASSUME NEW c \in Clients, NEW i \in DOMAIN queue', queue'[i].c = c
        PROVE  queue[1].c # c
    BY <1>2, <1>5 DEF OneContinuation
  <1>6. ASSUME NEW c \in Clients, InQueue(c)', InWorker(c)'
        PROVE  FALSE
    BY <1>4, <1>5, <1>6 DEF InQueue, InWorker, OneContinuation
  <1>7. ASSUME NEW c \in Clients, NEW u \in Workers, NEW v \in Workers,
               job'[u].c = c, job'[v].c = c
        PROVE  u = v
    BY <1>2, <1>3, <1>7 DEF OneContinuation, InQueue, InWorker
  <1>8. ASSUME NEW c \in Clients, NEW i \in DOMAIN queue', NEW k \in DOMAIN queue',
               queue'[i].c = c, queue'[k].c = c
        PROVE  i = k
    <2>1. i + 1 = k + 1
      BY <1>2, <1>8 DEF OneContinuation
    <2> QED
      BY <1>2, <2>1
  <1>9. NewlyBusyOnly(NoClient)
    BY <1>4 DEF NewlyBusyOnly, Busy
  <1> QED
    BY <1>4, <1>6, <1>7, <1>8, <1>9 DEF OneContinuation, InOps

\* A handler starts an asynchronous operation on its socket and returns.
LEMMA StartOpKeepsOne ==
    ASSUME TypeOK, OneContinuation,
           NEW w \in Workers, NEW kind, job[w].c \in Clients, StartOp(w, kind)
    PROVE  OneContinuation' /\ NewlyBusyOnly(NoClient)
  <1>1. job \in [Workers -> Task] /\ NoClient \notin Clients
    BY ConstantsAssumption DEF TypeOK
  <1>2. /\ ops' = ops \cup {[k |-> kind, c |-> job[w].c]}
        /\ queue' = queue
        /\ job'[w].c = NoClient
        /\ \A v \in Workers : v # w => job'[v] = job[v]
    BY <1>1 DEF StartOp, Return, NoTask, ServerTask
  <1>3. ASSUME NEW c \in Clients
        PROVE  /\ InQueue(c)' => InQueue(c)
               /\ InWorker(c)' => InWorker(c) /\ job[w].c # c
               /\ InOps(c)' => InOps(c) \/ (InWorker(c) /\ job[w].c = c)
    <2>1. InWorker(c)' => InWorker(c) /\ job[w].c # c
      BY <1>1, <1>2 DEF InWorker, OneContinuation
    <2> QED
      BY <1>2, <2>1 DEF InQueue, InWorker, InOps
  <1>4. \A c \in Clients : \A v, u \in Workers :
            job'[v].c = c /\ job'[u].c = c => v = u
    BY <1>1, <1>2 DEF OneContinuation
  <1>5. \A c \in Clients : \A o, p \in ops' : o.c = c /\ p.c = c => o = p
    BY <1>2 DEF OneContinuation, InOps, InWorker
  <1> QED
    BY <1>2, <1>3, <1>4, <1>5 DEF OneContinuation, NewlyBusyOnly, Busy

\* An operation completes, and a worker runs its handler.
LEMMA CompleteKeepsOne ==
    ASSUME TypeOK, OneContinuation,
           NEW w \in Workers, NEW op \in ops, NEW t \in Task, t.c = op.c,
           ops' = ops \ {op}, job' = [job EXCEPT ![w] = t], queue' = queue
    PROVE  OneContinuation' /\ NewlyBusyOnly(NoClient)
  <1>1. job \in [Workers -> Task]
    BY DEF TypeOK
  <1>2. /\ job'[w].c = op.c
        /\ \A v \in Workers : v # w => job'[v] = job[v]
    BY <1>1
  <1>3. ASSUME NEW c \in Clients
        PROVE  /\ InQueue(c)' => InQueue(c)
               /\ InWorker(c)' => InWorker(c) \/ (InOps(c) /\ op.c = c)
               /\ InOps(c)' => InOps(c) /\ op.c # c
    <2>1. InOps(c)' => InOps(c) /\ op.c # c
      BY DEF InOps, OneContinuation
    <2> QED
      BY <1>2, <2>1 DEF InQueue, InWorker, InOps
  <1>4. \A c \in Clients : \A v, u \in Workers :
            job'[v].c = c /\ job'[u].c = c => v = u
    BY <1>2 DEF OneContinuation, InOps, InWorker
  <1> QED
    BY <1>3, <1>4 DEF OneContinuation, NewlyBusyOnly, Busy

\* accept(2) hands out a client that nothing worked for: to a queued handler, or
\* to the worker that runs the handler in place.
LEMMA AcceptKeepsOne ==
    ASSUME TypeOK, OneContinuation,
           NEW w \in Workers, NEW c0 \in Clients \cup {NoClient}, NEW d,
           NEW j \in Task, Queues(d), job' = [job EXCEPT ![w] = j], ops' = ops,
           c0 \in Clients => ~Busy(c0),
           (d = c0 /\ j.c = NoClient) \/ (d = NoClient /\ j.c = c0)
    PROVE  OneContinuation' /\ NewlyBusyOnly(c0)
  <1>1. job \in [Workers -> Task] /\ NoClient \notin Clients
    BY ConstantsAssumption DEF TypeOK
  <1>2. /\ job'[w].c = j.c
        /\ \A v \in Workers : v # w => job'[v] = job[v]
    BY <1>1
  <1>3. ASSUME NEW c \in Clients
        PROVE  /\ InQueue(c)' => InQueue(c) \/ (c = c0 /\ d = c)
               /\ InWorker(c)' => InWorker(c) \/ (c = c0 /\ j.c = c)
               /\ InOps(c)' => InOps(c)
    BY <1>1, <1>2 DEF InQueue, InWorker, InOps, Queues
  <1>4. \A c \in Clients : \A v, u \in Workers :
            job'[v].c = c /\ job'[u].c = c => v = u
    BY <1>1, <1>2 DEF OneContinuation, Busy, InWorker
  <1>5. ASSUME NEW c \in Clients, NEW i \in DOMAIN queue', NEW k \in DOMAIN queue',
               queue'[i].c = c, queue'[k].c = c
        PROVE  i = k
    BY <1>1, <1>5 DEF Queues, OneContinuation, InQueue, Busy
  <1>6. \A c \in Clients : ~(InQueue(c)' /\ InWorker(c)')
    BY <1>1, <1>3 DEF OneContinuation, Busy
  <1> QED
    BY <1>1, <1>3, <1>4, <1>5, <1>6 DEF OneContinuation, NewlyBusyOnly, Busy, InOps
-----------------------------------------------------------------------------
\* The handlers the server posts are tasks.
LEMMA TaskTypes ==
    /\ NoTask \in Task /\ NoTask.c = NoClient
    /\ \A k \in Kinds : /\ ServerTask(k) \in Task
                        /\ ServerTask(k).k = k /\ ServerTask(k).c = NoClient
    /\ \A n \in Nat : /\ IdTask(n) \in Task
                      /\ IdTask(n).k = "id" /\ IdTask(n).c = NoClient
                      /\ IdTask(n).n = n
    /\ \A n \in Nat, c \in Clients \cup {NoClient} :
          /\ AcceptTask(n, c) \in Task
          /\ AcceptTask(n, c).k = "accept" /\ AcceptTask(n, c).c = c
          /\ AcceptTask(n, c).n = n
    /\ \A k \in Kinds, c \in Clients \cup {NoClient}, r \in Results :
          /\ ClientTask(k, c, r) \in Task
          /\ ClientTask(k, c, r).k = k /\ ClientTask(k, c, r).c = c
  BY DEF NoTask, ServerTask, IdTask, AcceptTask, ClientTask, Task, Kinds, Results

\* What was captured stays valid: ids are not taken away, rounds not forgotten.
Monotone == /\ \A c \in Clients : HasId(c) => HasId(c)'
            /\ DOMAIN promises \subseteq DOMAIN promises'

\* CapturesValid survives a step whose new handlers and operations fit.
LEMMA CapturesKept ==
    ASSUME TypeOK, CapturesValid, Monotone,
           \A i \in DOMAIN queue' :
               \/ i \in DOMAIN queue /\ queue'[i] = queue[i]
               \/ Fits(queue[i].k, queue[i])',
           \A v \in Workers : \/ pc'[v] = pc[v] /\ job'[v] = job[v]
                              \/ Fits(pc[v], job[v])',
           \A o \in ops' : o \in ops \/ HasId(o.c)',
           \A i \in DOMAIN acceptOps' :
               \/ i \in DOMAIN acceptOps /\ acceptOps'[i] = acceptOps[i]
               \/ IsRound(acceptOps[i])',
           BusyIsAccepted'
    PROVE  CapturesValid'
  <1>1. QueueFits'
    BY DEF CapturesValid, QueueFits, Fits, HasId, IsRound, Monotone
  <1>2. WorkersFit'
    BY DEF CapturesValid, WorkersFit, Fits, HasId, IsRound, Monotone
  <1>3. OpsFit'
    BY DEF CapturesValid, OpsFit, HasId, Monotone
  <1>4. AcceptsFit'
    BY DEF CapturesValid, AcceptsFit, IsRound, Monotone
  <1> QED
    BY <1>1, <1>2, <1>3, <1>4 DEF CapturesValid

\* No client that was accepted goes back to the backlog.
PeersMoveOn == \A c \in Clients :
    peer[c] \in {"open", "closed"} => peer'[c] \in {"open", "closed"}

\* Sockets only move on: a client that is busy was accepted before.
LEMMA BusyKept ==
    ASSUME BusyIsAccepted, PeersMoveOn, NEW d, NewlyBusyOnly(d),
           d \in Clients => peer'[d] = "open"
    PROVE  BusyIsAccepted'
  BY DEF BusyIsAccepted, NewlyBusyOnly, PeersMoveOn

\* A worker goes from one step of its handler to the next, or to another handler
\* for the same client, and may post one.
LEMMA WorkerMoves ==
    ASSUME IInv, NEW w \in Workers, NEW s, NEW j \in Task,
           NEW d \in {NoClient, job[w].c},
           pc' = [pc EXCEPT ![w] = s], job' = [job EXCEPT ![w] = j], ops' = ops,
           j.c \in {NoClient, job[w].c}, d = NoClient \/ j.c = NoClient,
           Queues(d),
           \A i \in DOMAIN queue' : \/ i \in DOMAIN queue /\ queue'[i] = queue[i]
                                    \/ Fits(queue[i].k, queue[i])',
           Fits(s, j)', Monotone, PeersMoveOn, AcceptsFit'
    PROVE  OneContinuation' /\ CapturesValid'
  <1>1. /\ pc \in [Workers -> WorkerSteps]
        /\ job \in [Workers -> Task]
    BY DEF IInv, TypeOK
  <1>2. OneContinuation' /\ NewlyBusyOnly(NoClient)
    BY WorkerKeepsOne DEF IInv
  <1>3. BusyIsAccepted'
    BY <1>2, BusyKept, ConstantsAssumption DEF IInv, CapturesValid
  <1>4. \A v \in Workers : \/ pc'[v] = pc[v] /\ job'[v] = job[v]
                           \/ Fits(pc[v], job[v])'
    BY <1>1 DEF Fits
  <1>5. CapturesValid'
    BY <1>3, <1>4, CapturesKept DEF IInv, AcceptsFit
  <1> QED
    BY <1>2, <1>5

\* The pattern "post a handler and return".
LEMMA PostReturnKeeps ==
    ASSUME IInv, NEW w \in Workers, NEW t \in Task,
           Post(t), Return(w), t.c \in {NoClient, job[w].c}, Fits(t.k, t),
           UNCHANGED <<listenVars, idVars, peer, ops>>
    PROVE  OneContinuation' /\ CapturesValid'
  <1>1. queue \in Seq(Task)
    BY DEF IInv, TypeOK
  <1>2. Queues(t.c)
    BY <1>1, PostQueues
  <1>3. Fits(t.k, t)' /\ Monotone /\ PeersMoveOn
    BY DEF Fits, HasId, IsRound, Monotone, PeersMoveOn, idVars, listenVars
  <1>4. AcceptsFit'
    BY DEF IInv, CapturesValid, AcceptsFit, IsRound, listenVars
  <1>5. \A i \in DOMAIN queue' : \/ i \in DOMAIN queue /\ queue'[i] = queue[i]
                                 \/ Fits(queue[i].k, queue[i])'
    BY <1>1, <1>3, AppendProperties DEF Post, Fits
  <1>6. Fits("idle", NoTask)'
    BY DEF Fits, SessionSteps, RoundSteps
  <1> QED
    BY <1>2, <1>3, <1>4, <1>5, <1>6, WorkerMoves, TaskTypes DEF Return

\* The pattern "go on with the handler", without posting.
LEMMA GotoKeeps ==
    ASSUME IInv, NEW w \in Workers, NEW s, NEW j \in Task,
           pc' = [pc EXCEPT ![w] = s], job' = [job EXCEPT ![w] = j],
           j.c \in {NoClient, job[w].c}, Fits(s, j)', Monotone, PeersMoveOn,
           queue' = queue, ops' = ops, acceptOps' = acceptOps
    PROVE  OneContinuation' /\ CapturesValid'
  <1>1. Queues(NoClient)
    BY DEF Queues
  <1>2. AcceptsFit'
    BY DEF IInv, CapturesValid, AcceptsFit, IsRound, Monotone
  <1> QED
    BY <1>1, <1>2, WorkerMoves

-----------------------------------------------------------------------------
(* The steps of a session keep the invariant. *)

\* The session's handlers are entered with a client that has an id.
LEMMA SessionClient ==
    ASSUME IInv, NEW w \in Workers, pc[w] \in SessionSteps
    PROVE  /\ job[w].c \in Clients /\ idOf[job[w].c] \in Ids
           /\ job[w] \in Task /\ HasId(job[w].c)
  BY DEF IInv, CapturesValid, WorkersFit, Fits, HasId, TypeOK

\* A session's handler starts an operation on its socket and returns.
LEMMA SessionStartsOp ==
    ASSUME IInv, NEW w \in Workers, pc[w] \in SessionSteps, NEW kind \in OpKinds,
           StartOp(w, kind), UNCHANGED <<listenVars, idVars, peer>>
    PROVE  OneContinuation' /\ CapturesValid' /\ ops' \subseteq Op
  <1>1. job[w].c \in Clients /\ idOf[job[w].c] \in Ids
    BY SessionClient
  <1>2. OneContinuation' /\ NewlyBusyOnly(NoClient)
    BY <1>1, StartOpKeepsOne DEF IInv
  <1>3. BusyIsAccepted'
    BY <1>2, BusyKept, ConstantsAssumption DEF IInv, CapturesValid, PeersMoveOn
  <1>4. /\ Monotone
        /\ \A o \in ops' : o \in ops \/ HasId(o.c)'
        /\ queue' = queue /\ acceptOps' = acceptOps
    BY <1>1 DEF Monotone, HasId, StartOp, idVars, listenVars
  <1>5. \A v \in Workers : \/ pc'[v] = pc[v] /\ job'[v] = job[v]
                           \/ Fits(pc[v], job[v])'
    BY DEF StartOp, Return, Fits, SessionSteps, RoundSteps, IInv, TypeOK
  <1>6. CapturesValid'
    BY <1>3, <1>4, <1>5, CapturesKept DEF IInv
  <1>7. ops' \subseteq Op
    BY <1>1 DEF StartOp, Op, IInv, TypeOK
  <1> QED
    BY <1>2, <1>6, <1>7

\* A session's handler goes on with its next access to shared state.
LEMMA SessionGoesOn ==
    ASSUME IInv, NEW w \in Workers, NEW s \in SessionSteps, pc[w] \in SessionSteps,
           Goto(w, s), queue' = queue, ops' = ops, acceptOps' = acceptOps,
           Monotone, PeersMoveOn
    PROVE  OneContinuation' /\ CapturesValid'
  <1>1. job[w] \in Task /\ HasId(job[w].c)
    BY SessionClient
  <1>2. PICK j \in Task : j = job[w]
    BY <1>1
  <1>3. Fits(s, j)'
    BY <1>1, <1>2 DEF Fits, HasId, RoundSteps, SessionSteps, Monotone
  <1>4. pc' = [pc EXCEPT ![w] = s] /\ job' = [job EXCEPT ![w] = j]
    BY <1>2 DEF Goto, IInv, TypeOK
  <1> QED
    BY <1>2, <1>3, <1>4, GotoKeeps

\* A session's handler posts the next one for its client and returns.
LEMMA SessionPosts ==
    ASSUME IInv, NEW w \in Workers, pc[w] \in SessionSteps,
           NEW k \in Kinds \cap SessionSteps, NEW r \in Results,
           Post(ClientTask(k, job[w].c, r)), Return(w),
           UNCHANGED <<mainVars, listenVars, idVars, peer, ops, dataVars, countVars,
                       crashed>>
    PROVE  IInv'
  <1>1. job[w].c \in Clients /\ HasId(job[w].c)
    BY SessionClient
  <1>2. PICK t \in Task : t = ClientTask(k, job[w].c, r)
    BY <1>1, TaskTypes
  <1>3. t.k = k /\ t.c = job[w].c
    BY <1>1, <1>2, TaskTypes
  <1>4. Fits(t.k, t)
    BY <1>1, <1>3 DEF Fits, RoundSteps, SessionSteps
  <1>5. OneContinuation' /\ CapturesValid'
    BY <1>2, <1>3, <1>4, PostReturnKeeps
  <1>6. queue' \in Seq(Task)
    BY <1>2, PostQueues DEF IInv, TypeOK
  <1>7. TypeOK'
    BY <1>6, TaskTypes
    DEF Return, IInv, TypeOK, WorkerSteps,
        mainVars, listenVars, idVars, dataVars, countVars
  <1> QED
    BY <1>5, <1>7 DEF IInv

LEMMA CountConnectionKeeps ==
    ASSUME IInv, NEW w \in Workers, CountConnection(w)
    PROVE  IInv'
  <1>1. pc[w] \in SessionSteps /\ "post_read" \in SessionSteps
    BY DEF CountConnection, At, SessionSteps
  <1>2. count' \in 0 .. CountMod - 1
    BY ConstantsAssumption DEF CountConnection, IInv, TypeOK
  <1>3. TypeOK'
    BY <1>1, <1>2, SessionClient
    DEF CountConnection, Goto, IInv, TypeOK, WorkerSteps,
        mainVars, listenVars, idVars, dataVars
  <1>4. OneContinuation' /\ CapturesValid'
    BY <1>1, SessionGoesOn
    DEF CountConnection, Monotone, HasId, PeersMoveOn, idVars, listenVars
  <1> QED
    BY <1>3, <1>4 DEF IInv

LEMMA PostReadKeeps ==
    ASSUME IInv, NEW w \in Workers, PostRead(w)
    PROVE  IInv'
  <1>1. pc[w] \in SessionSteps /\ "read" \in Kinds \cap SessionSteps /\ "ok" \in Results
    BY DEF PostRead, At, SessionSteps, Kinds, Results
  <1> QED
    BY <1>1, SessionPosts DEF PostRead

LEMMA PostShutdownKeeps ==
    ASSUME IInv, NEW w \in Workers, PostShutdown(w)
    PROVE  IInv'
  <1>1. /\ pc[w] \in SessionSteps /\ "ok" \in Results
        /\ "shutdown" \in Kinds \cap SessionSteps
    BY DEF PostShutdown, At, SessionSteps, Kinds, Results
  <1> QED
    BY <1>1, SessionPosts DEF PostShutdown

LEMMA PostProcessKeeps ==
    ASSUME IInv, NEW w \in Workers, PostProcess(w)
    PROVE  IInv'
  <1>1. pc[w] \in SessionSteps /\ "process" \in Kinds \cap SessionSteps
    BY DEF PostProcess, At, SessionSteps, Kinds
  <1>2. job[w].r \in Results
    BY <1>1, SessionClient DEF Task
  <1> QED
    BY <1>1, <1>2, SessionPosts DEF PostProcess

LEMMA ProcessMessageKeeps ==
    ASSUME IInv, NEW w \in Workers, ProcessMessage(w)
    PROVE  IInv'
  <1>1. pc[w] \in SessionSteps /\ "reply" \in SessionSteps
    BY DEF ProcessMessage, At, SessionSteps
  <1>2. job[w].c \in Clients /\ idOf[job[w].c] \in Ids
    BY <1>1, SessionClient
  <1>3. messages' \in [Ids -> Seq(Clients)]
    BY <1>2, AppendProperties DEF ProcessMessage, WithContent, IInv, TypeOK
  <1>4. TypeOK'
    BY <1>3
    DEF ProcessMessage, Goto, IInv, TypeOK, WorkerSteps,
        mainVars, listenVars, idVars, countVars
  <1>5. OneContinuation' /\ CapturesValid'
    BY <1>1, SessionGoesOn
    DEF ProcessMessage, Monotone, HasId, PeersMoveOn, idVars, listenVars
  <1> QED
    BY <1>4, <1>5 DEF IInv

LEMMA EraseIdKeeps ==
    ASSUME IInv, NEW w \in Workers, EraseId(w)
    PROVE  IInv'
  <1>1. pc[w] \in SessionSteps /\ "close_socket" \in SessionSteps
    BY DEF EraseId, At, SessionSteps
  <1>2. TypeOK'
    BY DEF EraseId, Goto, IInv, TypeOK, WorkerSteps,
           mainVars, listenVars, dataVars, countVars
  <1>3. OneContinuation' /\ CapturesValid'
    BY <1>1, SessionGoesOn
    DEF EraseId, Monotone, HasId, PeersMoveOn, listenVars
  <1> QED
    BY <1>2, <1>3 DEF IInv

LEMMA CloseSocketKeeps ==
    ASSUME IInv, NEW w \in Workers, CloseSocket(w)
    PROVE  IInv'
  <1>1. pc[w] \in SessionSteps /\ "decrement" \in SessionSteps
    BY DEF CloseSocket, At, SessionSteps
  <1>2. peer' \in [Clients -> {"new", "backlog", "open", "closed"}] /\ PeersMoveOn
    BY DEF CloseSocket, IInv, TypeOK, PeersMoveOn
  <1>3. TypeOK'
    BY <1>2
    DEF CloseSocket, Goto, IInv, TypeOK, WorkerSteps,
        mainVars, listenVars, idVars, dataVars, countVars
  <1>4. OneContinuation' /\ CapturesValid'
    BY <1>1, <1>2, SessionGoesOn
    DEF CloseSocket, Monotone, HasId, idVars, listenVars
  <1> QED
    BY <1>3, <1>4 DEF IInv

LEMMA InitiateKeeps ==
    ASSUME IInv, NEW w \in Workers, Initiate(w)
    PROVE  IInv'
  <1>1. PICK step \in DOMAIN StartsOp :
            /\ At(w, step) /\ StartOp(w, StartsOp[step])
    BY DEF Initiate
  <1>2. pc[w] \in SessionSteps /\ StartsOp[step] \in OpKinds
    BY <1>1 DEF At, StartsOp, SessionSteps, OpKinds
  <1>3. OneContinuation' /\ CapturesValid' /\ ops' \subseteq Op
    BY <1>1, <1>2, SessionStartsOp DEF Initiate
  <1>4. TypeOK'
    BY <1>1, <1>3, TaskTypes
    DEF Initiate, StartOp, Return, IInv, TypeOK, WorkerSteps,
        mainVars, listenVars, idVars, dataVars, countVars
  <1> QED
    BY <1>3, <1>4 DEF IInv

LEMMA RespondKeeps ==
    ASSUME IInv, NEW w \in Workers, Respond(w)
    PROVE  IInv'
  <1>1. pc[w] \in SessionSteps /\ "write" \in OpKinds
    BY DEF Respond, At, SessionSteps, OpKinds
  <1>2. OneContinuation' /\ CapturesValid' /\ ops' \subseteq Op
    BY <1>1, SessionStartsOp DEF Respond
  <1>3. job[w].c \in Clients /\ idOf[job[w].c] \in Ids
    BY <1>1, SessionClient
  <1>4. reply' \in [Clients -> Seq(Clients)]
    BY <1>3 DEF Respond, IInv, TypeOK
  <1>5. TypeOK'
    BY <1>2, <1>4, TaskTypes
    DEF Respond, StartOp, Return, IInv, TypeOK, WorkerSteps,
        mainVars, listenVars, idVars, countVars
  <1> QED
    BY <1>2, <1>5 DEF IInv

\* The last step of shutdown_socket takes the client's id away, which nothing else
\* works for by then.
LEMMA DecrementKeeps ==
    ASSUME IInv, NEW w \in Workers, Decrement(w)
    PROVE  IInv'
  <1> DEFINE d == job[w].c
  <1>1. d \in Clients /\ pc[w] \in SessionSteps
    BY SessionClient DEF Decrement, At, SessionSteps
  <1>2. count' \in 0 .. CountMod - 1
    BY ConstantsAssumption DEF Decrement, Decremented, IInv, TypeOK
  <1>3. TypeOK'
    BY <1>1, <1>2, TaskTypes
    DEF Decrement, Return, IInv, TypeOK, WorkerSteps, mainVars, listenVars, dataVars
  <1>4. /\ pc' = [pc EXCEPT ![w] = "idle"] /\ job' = [job EXCEPT ![w] = NoTask]
        /\ queue' = queue /\ ops' = ops /\ acceptOps' = acceptOps
        /\ promises' = promises /\ PeersMoveOn
        /\ \A c \in Clients : c # d => idOf'[c] = idOf[c]
    BY DEF Decrement, Return, listenVars, IInv, TypeOK, PeersMoveOn
  <1>5. OneContinuation' /\ NewlyBusyOnly(NoClient)
    BY <1>4, WorkerKeepsOne, TaskTypes DEF IInv, Queues
  <1>6. BusyIsAccepted'
    BY <1>4, <1>5, BusyKept, ConstantsAssumption DEF IInv, CapturesValid
  <1>7. ~InQueue(d) /\ ~InOps(d) /\ \A v \in Workers : v # w => job[v].c # d
    BY <1>1 DEF IInv, OneContinuation, InWorker
  <1>8. QueueFits'
    BY <1>4, <1>7 DEF IInv, CapturesValid, QueueFits, Fits, HasId, IsRound, InQueue
  <1>9. WorkersFit'
    BY <1>4, <1>7
    DEF IInv, CapturesValid, WorkersFit, Fits, HasId, IsRound, SessionSteps,
        RoundSteps, TypeOK
  <1>10. OpsFit' /\ AcceptsFit'
    BY <1>4, <1>7 DEF IInv, CapturesValid, OpsFit, AcceptsFit, HasId, IsRound, InOps
  <1> QED
    BY <1>3, <1>5, <1>6, <1>8, <1>9, <1>10 DEF IInv, CapturesValid

LEMMA SessionStepKeeps ==
    ASSUME IInv, NEW w \in Workers, SessionStep(w)
    PROVE  IInv'
  BY InitiateKeeps, CountConnectionKeeps, PostReadKeeps, PostShutdownKeeps,
     PostProcessKeeps, ProcessMessageKeeps, RespondKeeps, EraseIdKeeps,
     CloseSocketKeeps, DecrementKeeps
  DEF SessionStep
-----------------------------------------------------------------------------
(* The steps of the listening side keep the invariant. *)

\* std::terminate changes nothing but crashed.
LEMMA CrashKeeps ==
    ASSUME IInv, Crash("noexcept")
    PROVE  IInv'
  <1>1. TypeOK'
    BY DEF Crash, IInv, TypeOK, mainVars, ioVars, listenVars, idVars, dataVars, countVars
  <1>2. OneContinuation'
    BY DEF Crash, IInv, OneContinuation, InQueue, InWorker, InOps, ioVars
  <1>3. CapturesValid'
    BY DEF Crash, IInv, CapturesValid, QueueFits, WorkersFit, OpsFit, AcceptsFit,
           BusyIsAccepted, Busy, InQueue, InWorker, InOps, Fits, HasId, IsRound,
           ioVars, listenVars, idVars
  <1> QED
    BY <1>1, <1>2, <1>3 DEF IInv

\* Cancelled accepts become handlers that know their round and no client.
LEMMA AbortedQueues ==
    ASSUME IInv, queue' = queue \o Aborted
    PROVE  /\ queue' \in Seq(Task)
           /\ Queues(NoClient)
           /\ \A i \in DOMAIN queue' :
                 \/ i \in DOMAIN queue /\ queue'[i] = queue[i]
                 \/ queue'[i].k = "accept" /\ IsRound(queue'[i].n)
  <1>1. queue \in Seq(Task) /\ acceptOps \in Seq(Nat)
    BY DEF IInv, TypeOK
  <1>2. Aborted \in Seq(Task)
    <2>1. Len(acceptOps) \in Nat /\ DOMAIN acceptOps = 1 .. Len(acceptOps)
      BY <1>1, LenProperties
    <2>2. \A i \in DOMAIN acceptOps : AcceptTask(acceptOps[i], NoClient) \in Task
      BY <1>1, TaskTypes
    <2>3. Aborted \in [1 .. Len(acceptOps) -> Task]
      BY <2>1, <2>2 DEF Aborted
    <2> QED
      BY <2>1, <2>3, SeqDef
  <1>3. \A i \in DOMAIN Aborted : /\ Aborted[i].k = "accept" /\ Aborted[i].c = NoClient
                                  /\ IsRound(Aborted[i].n)
    BY <1>1, TaskTypes DEF Aborted, IInv, CapturesValid, AcceptsFit
  <1>4. \A i \in DOMAIN queue' : \/ i \in DOMAIN queue /\ queue'[i] = queue[i]
                                 \/ \E k \in DOMAIN Aborted : queue'[i] = Aborted[k]
    BY <1>1, <1>2, ConcatProperties, LenProperties
  <1> QED
    BY <1>1, <1>2, <1>3, <1>4, ConcatProperties, ConstantsAssumption DEF Queues

LEMMA ListenKeeps ==
    ASSUME IInv, NEW w \in Workers, Listen(w)
    PROVE  IInv'
  <1>1. TypeOK'
    BY DEF Listen, Goto, IInv, TypeOK, WorkerSteps,
           mainVars, idVars, dataVars, countVars
  <1>2. PICK j \in Task : j = job[w]
    BY DEF IInv, TypeOK
  <1>3. /\ pc' = [pc EXCEPT ![w] = "listen_check"] /\ job' = [job EXCEPT ![w] = j]
        /\ Fits("listen_check", j)'
        /\ Monotone /\ PeersMoveOn
    BY <1>2 DEF Listen, Goto, IInv, TypeOK, Fits, SessionSteps, RoundSteps,
                Monotone, HasId, PeersMoveOn, idVars
  <1>4. OneContinuation' /\ CapturesValid'
    BY <1>2, <1>3, GotoKeeps DEF Listen
  <1> QED
    BY <1>1, <1>4 DEF IInv

\* A handler posts one that needs no client and no round, and returns.
LEMMA ServerPosts ==
    ASSUME IInv, NEW w \in Workers, NEW k \in Kinds \ (SessionSteps \cup RoundSteps),
           Post(ServerTask(k)), Return(w),
           UNCHANGED <<mainVars, listenVars, idVars, peer, ops, dataVars, countVars,
                       crashed>>
    PROVE  IInv'
  <1>1. PICK t \in Task : t = ServerTask(k)
    BY TaskTypes
  <1>2. t.c = NoClient /\ Fits(t.k, t)
    BY <1>1, TaskTypes DEF Fits
  <1>3. OneContinuation' /\ CapturesValid'
    BY <1>1, <1>2, PostReturnKeeps
  <1>4. queue' \in Seq(Task)
    BY <1>1, PostQueues DEF IInv, TypeOK
  <1>5. TypeOK'
    BY <1>4, TaskTypes
    DEF Return, IInv, TypeOK, WorkerSteps,
        mainVars, listenVars, idVars, dataVars, countVars
  <1> QED
    BY <1>3, <1>5 DEF IInv

LEMMA PostIdTaskKeeps ==
    ASSUME IInv, NEW w \in Workers, PostIdTask(w)
    PROVE  IInv'
  <1> DEFINE n == Len(promises) + 1
  <1>1. /\ promises \in Seq(Ids \cup {NoId}) /\ n \in Nat /\ queue \in Seq(Task)
    BY LenProperties DEF IInv, TypeOK
  <1>2. /\ promises' \in Seq(Ids \cup {NoId}) /\ n \in DOMAIN promises'
        /\ DOMAIN promises \subseteq DOMAIN promises'
    BY <1>1, AppendProperties, LenProperties DEF PostIdTask
  <1>3. PICK t \in Task : t = IdTask(n)
    BY <1>1, TaskTypes
  <1>4. t.k = "id" /\ t.c = NoClient /\ t.n = n
    BY <1>1, <1>3, TaskTypes
  <1>5. Post(t)
    BY <1>3 DEF PostIdTask
  <1>6. Queues(NoClient) /\ queue' \in Seq(Task)
    BY <1>1, <1>4, <1>5, PostQueues
  <1>7. TypeOK'
    BY <1>2, <1>3, <1>6
    DEF PostIdTask, IInv, TypeOK, WorkerSteps, mainVars, idVars, dataVars, countVars
  <1>8. \A i \in DOMAIN queue' : \/ i \in DOMAIN queue /\ queue'[i] = queue[i]
                                 \/ queue'[i] = t
    BY <1>1, <1>5, AppendProperties DEF Post
  <1>9. Fits("async_accept", t)' /\ Fits("id", t)'
    BY <1>2, <1>4 DEF Fits, SessionSteps, RoundSteps, IsRound
  <1>10. Monotone /\ PeersMoveOn /\ AcceptsFit'
    BY <1>2 DEF PostIdTask, Monotone, PeersMoveOn, HasId, idVars, AcceptsFit, IsRound,
               IInv, CapturesValid
  <1>11. /\ pc' = [pc EXCEPT ![w] = "async_accept"] /\ job' = [job EXCEPT ![w] = t]
         /\ ops' = ops
    BY <1>3 DEF PostIdTask
  <1>12. \A i \in DOMAIN queue' : \/ i \in DOMAIN queue /\ queue'[i] = queue[i]
                                  \/ Fits(queue[i].k, queue[i])'
    BY <1>4, <1>8, <1>9 DEF Fits
  <1>13. OneContinuation' /\ CapturesValid'
    BY <1>4, <1>6, <1>9, <1>10, <1>11, <1>12, WorkerMoves
  <1> QED
    BY <1>7, <1>13 DEF IInv

\* A handler that is done with its client returns, or goes on without a client.
LEMMA ServerGoesOn ==
    ASSUME IInv, NEW w \in Workers, NEW s \in WorkerSteps \ (SessionSteps \cup RoundSteps),
           Goto(w, s) \/ (s = "idle" /\ Return(w)),
           Monotone, queue' = queue, UNCHANGED <<peer, ops, acceptOps>>
    PROVE  OneContinuation' /\ CapturesValid'
  <1>1. PICK j \in {NoTask, job[w]} : job' = [job EXCEPT ![w] = j]
    BY DEF Goto, Return, IInv, TypeOK
  <1>2. j \in Task /\ j.c \in {NoClient, job[w].c}
    BY <1>1, TaskTypes DEF IInv, TypeOK
  <1>3. pc' = [pc EXCEPT ![w] = s]
    BY DEF Goto, Return
  <1>4. Fits(s, j)' /\ PeersMoveOn
    BY DEF Fits, PeersMoveOn
  <1> QED
    BY <1>1, <1>2, <1>3, <1>4, GotoKeeps

LEMMA GetRandomSpareIdKeeps ==
    ASSUME IInv, NEW w \in Workers, GetRandomSpareId(w)
    PROVE  IInv'
  <1>1. /\ promises' \in Seq(Ids \cup {NoId})
        /\ DOMAIN promises' = DOMAIN promises
    <2>1. PICK i \in Ids : promises' = [promises EXCEPT ![job[w].n] = i]
      BY DEF GetRandomSpareId, SpareIds
    <2>2. job[w].n \in DOMAIN promises
      BY DEF GetRandomSpareId, At, IInv, CapturesValid, WorkersFit, Fits, RoundSteps,
             IsRound
    <2>3. promises \in Seq(Ids \cup {NoId}) /\ DOMAIN promises = 1 .. Len(promises)
      BY LenProperties DEF IInv, TypeOK
    <2> QED
      BY <2>1, <2>2, <2>3, ExceptSeq
  <1>2. TypeOK'
    BY <1>1, TaskTypes
    DEF GetRandomSpareId, Return, IInv, TypeOK, WorkerSteps,
        mainVars, idVars, dataVars, countVars
  <1>3. Monotone
    BY <1>1 DEF GetRandomSpareId, Monotone, HasId, idVars
  <1>4. "idle" \in WorkerSteps \ (SessionSteps \cup RoundSteps)
    BY DEF WorkerSteps, SessionSteps, RoundSteps
  <1>5. OneContinuation' /\ CapturesValid'
    BY <1>3, <1>4, ServerGoesOn DEF GetRandomSpareId
  <1> QED
    BY <1>2, <1>5 DEF IInv

LEMMA AcceptFailedKeeps ==
    ASSUME IInv, NEW w \in Workers, AcceptFailed(w)
    PROVE  IInv'
  <1>1. TypeOK'
    BY TaskTypes
    DEF AcceptFailed, Return, IInv, TypeOK, WorkerSteps,
        mainVars, listenVars, idVars, dataVars, countVars
  <1>2. "idle" \in WorkerSteps \ (SessionSteps \cup RoundSteps)
    BY DEF WorkerSteps, SessionSteps, RoundSteps
  <1>3. OneContinuation' /\ CapturesValid'
    BY <1>2, ServerGoesOn DEF AcceptFailed, Monotone, HasId, idVars, listenVars
  <1> QED
    BY <1>1, <1>3 DEF IInv

LEMMA ArmTimerKeeps ==
    ASSUME IInv, NEW w \in Workers, ArmTimer(w)
    PROVE  IInv'
  <1>1. TypeOK'
    BY TaskTypes
    DEF ArmTimer, Return, IInv, TypeOK, WorkerSteps,
        mainVars, idVars, dataVars, countVars
  <1>2. "idle" \in WorkerSteps \ (SessionSteps \cup RoundSteps)
    BY DEF WorkerSteps, SessionSteps, RoundSteps
  <1>3. OneContinuation' /\ CapturesValid'
    BY <1>2, ServerGoesOn DEF ArmTimer, Monotone, HasId, idVars
  <1> QED
    BY <1>1, <1>3 DEF IInv

\* on_connection_attempt takes the id out of the future it has waited for.
LEMMA InsertIdKeeps ==
    ASSUME IInv, NEW w \in Workers, InsertId(w)
    PROVE  IInv'
  <1> DEFINE n == job[w].n
             d == job[w].c
  <1>1. job[w] \in Task /\ pc[w] = "accept"
    BY DEF InsertId, At, IInv, TypeOK
  <1>2. n \in DOMAIN promises
    BY <1>1 DEF IInv, CapturesValid, WorkersFit, Fits, RoundSteps, IsRound
  <1>3. promises[n] \in Ids
    BY <1>2, ElementOfSeq DEF InsertId, IInv, TypeOK
  <1>4. d \in Clients
    BY <1>1 DEF InsertId, Task
  <1>5. /\ promises' \in Seq(Ids \cup {NoId}) /\ DOMAIN promises' = DOMAIN promises
        /\ idOf' \in [Clients -> Ids \cup {NoId}] /\ idOf'[d] \in Ids
        /\ Monotone
    BY <1>2, <1>3, <1>4, ExceptSeq DEF InsertId, IInv, TypeOK, Monotone, HasId
  <1>6. TypeOK'
    BY <1>3, <1>5
    DEF InsertId, Goto, IInv, TypeOK, WorkerSteps, mainVars, dataVars, countVars
  <1>7. PICK j \in Task : j = job[w]
    BY <1>1
  <1>8. /\ pc' = [pc EXCEPT ![w] = "post_handshake"] /\ job' = [job EXCEPT ![w] = j]
        /\ PeersMoveOn
    BY <1>7 DEF InsertId, Goto, IInv, TypeOK, PeersMoveOn
  <1>9. Fits("post_handshake", j)'
    BY <1>4, <1>5, <1>7 DEF Fits, HasId, RoundSteps
  <1>10. OneContinuation' /\ CapturesValid'
    BY <1>5, <1>7, <1>8, <1>9, GotoKeeps DEF InsertId
  <1> QED
    BY <1>6, <1>10 DEF IInv

LEMMA PostHandshakeKeeps ==
    ASSUME IInv, NEW w \in Workers, PostHandshake(w)
    PROVE  IInv'
  <1>1. HasId(job[w].c) /\ job[w].c \in Clients /\ queue \in Seq(Task)
    BY SessionClient DEF PostHandshake, At, SessionSteps, IInv, TypeOK
  <1>2. PICK t \in Task : t = ClientTask("handshake", job[w].c, "ok")
    BY <1>1, TaskTypes DEF Kinds, Results
  <1>3. t.k = "handshake" /\ t.c = job[w].c
    BY <1>2 DEF ClientTask
  <1>4. Post(t) /\ Queues(t.c) /\ queue' \in Seq(Task)
    BY <1>1, <1>2, PostQueues DEF PostHandshake
  <1>5. TypeOK'
    BY <1>4, TaskTypes
    DEF PostHandshake, IInv, TypeOK, WorkerSteps,
        mainVars, listenVars, idVars, dataVars, countVars
  <1>6. Fits(t.k, t)' /\ Fits("post_listen", NoTask)' /\ Monotone /\ PeersMoveOn
    BY <1>1, <1>3 DEF PostHandshake, Fits, HasId, RoundSteps, SessionSteps, Monotone,
                     PeersMoveOn, idVars, listenVars
  <1>7. \A i \in DOMAIN queue' : \/ i \in DOMAIN queue /\ queue'[i] = queue[i]
                                 \/ Fits(queue[i].k, queue[i])'
    BY <1>1, <1>4, <1>6, AppendProperties DEF Post, Fits
  <1>8. AcceptsFit'
    BY DEF PostHandshake, IInv, CapturesValid, AcceptsFit, IsRound, listenVars
  <1>9. OneContinuation' /\ CapturesValid'
    BY <1>3, <1>4, <1>6, <1>7, <1>8, WorkerMoves, TaskTypes DEF PostHandshake
  <1> QED
    BY <1>5, <1>9 DEF IInv

LEMMA ConnectionTimeoutKeeps ==
    ASSUME IInv, NEW w \in Workers, ConnectionTimeout(w)
    PROVE  IInv'
  <1>1. /\ queue' \in Seq(Task) /\ Queues(NoClient)
        /\ \A i \in DOMAIN queue' :
              \/ i \in DOMAIN queue /\ queue'[i] = queue[i]
              \/ queue'[i].k = "accept" /\ IsRound(queue'[i].n)
    BY AbortedQueues DEF ConnectionTimeout
  <1>2. acceptOps' \in Seq(Nat) /\ AcceptsFit'
    BY DEF ConnectionTimeout, AcceptsFit
  <1>3. TypeOK'
    BY <1>1, <1>2
    DEF ConnectionTimeout, Goto, IInv, TypeOK, WorkerSteps,
        mainVars, idVars, dataVars, countVars
  <1>4. PICK j \in Task : j = job[w]
    BY DEF IInv, TypeOK
  <1>5. /\ pc' = [pc EXCEPT ![w] = "arm_timer"] /\ job' = [job EXCEPT ![w] = j]
        /\ Fits("arm_timer", j)' /\ Monotone /\ PeersMoveOn
    BY <1>4 DEF ConnectionTimeout, Goto, IInv, TypeOK, Fits, SessionSteps, RoundSteps,
                Monotone, HasId, PeersMoveOn, idVars
  <1>6. \A i \in DOMAIN queue' : \/ i \in DOMAIN queue /\ queue'[i] = queue[i]
                                 \/ Fits(queue[i].k, queue[i])'
    BY <1>1 DEF Fits, SessionSteps, IsRound, ConnectionTimeout
  <1>7. OneContinuation' /\ CapturesValid'
    BY <1>1, <1>2, <1>4, <1>5, <1>6, WorkerMoves DEF ConnectionTimeout
  <1> QED
    BY <1>3, <1>7 DEF IInv

\* accept(2) takes a client out of the backlog, for which nothing can work yet.
LEMMA AcceptedClient ==
    ASSUME IInv, NEW c \in Clients \cup {NoClient}, Accepted(c)
    PROVE  /\ peer' \in [Clients -> {"new", "backlog", "open", "closed"}]
           /\ PeersMoveOn
           /\ c \in Clients => ~Busy(c) /\ peer'[c] = "open"
  <1>1. peer \in [Clients -> {"new", "backlog", "open", "closed"}]
    BY DEF IInv, TypeOK
  <1>2. c \in Clients => peer[c] = "backlog" /\ peer' = [peer EXCEPT ![c] = "open"]
    BY ConstantsAssumption DEF Accepted, Backlog
  <1>3. c \notin Clients => peer' = peer
    BY DEF Accepted, Backlog
  <1>4. c \in Clients => ~Busy(c)
    BY <1>2 DEF IInv, CapturesValid, BusyIsAccepted
  <1> QED
    BY <1>1, <1>2, <1>3, <1>4 DEF PeersMoveOn

\* An accept completes at once into a queued handler, or the descriptor's event
\* completes it in place.
LEMMA AcceptMoves ==
    ASSUME IInv, NEW w \in Workers, NEW c \in Clients \cup {NoClient}, Accepted(c),
           NEW d, NEW s, NEW j \in Task, Queues(d),
           pc' = [pc EXCEPT ![w] = s], job' = [job EXCEPT ![w] = j], ops' = ops,
           (d = c /\ j.c = NoClient) \/ (d = NoClient /\ j.c = c),
           \A i \in DOMAIN queue' : \/ i \in DOMAIN queue /\ queue'[i] = queue[i]
                                    \/ Fits(queue[i].k, queue[i])',
           Fits(s, j)', Monotone, AcceptsFit'
    PROVE  OneContinuation' /\ CapturesValid'
  <1>1. PeersMoveOn /\ (c \in Clients => ~Busy(c) /\ peer'[c] = "open")
    BY AcceptedClient
  <1>2. OneContinuation' /\ NewlyBusyOnly(c)
    BY <1>1, AcceptKeepsOne DEF IInv
  <1>3. BusyIsAccepted'
    BY <1>1, <1>2, BusyKept DEF IInv, CapturesValid
  <1>4. \A v \in Workers : \/ pc'[v] = pc[v] /\ job'[v] = job[v]
                           \/ Fits(pc[v], job[v])'
    BY DEF Fits, IInv, TypeOK
  <1>5. CapturesValid'
    BY <1>3, <1>4, CapturesKept DEF IInv, AcceptsFit
  <1> QED
    BY <1>2, <1>5

LEMMA AsyncAcceptKeeps ==
    ASSUME IInv, NEW w \in Workers, AsyncAccept(w)
    PROVE  IInv'
  <1> DEFINE n == job[w].n
  <1>1. job[w] \in Task /\ IsRound(n) /\ n \in Nat /\ queue \in Seq(Task)
    BY DEF AsyncAccept, At, IInv, TypeOK, Task, CapturesValid, WorkersFit, Fits,
           RoundSteps
  <1>2. /\ pc' = [pc EXCEPT ![w] = "idle"] /\ job' = [job EXCEPT ![w] = NoTask]
        /\ ops' = ops /\ Monotone
        /\ Fits("idle", NoTask)'
    BY DEF AsyncAccept, Return, Monotone, HasId, idVars, Fits, SessionSteps, RoundSteps
  <1>3. ASSUME queue' \in Seq(Task), acceptOps' \in Seq(Nat),
               peer' \in [Clients -> {"new", "backlog", "open", "closed"}]
        PROVE  TypeOK'
    BY <1>3, TaskTypes
    DEF AsyncAccept, Return, IInv, TypeOK, WorkerSteps,
        mainVars, idVars, dataVars, countVars
  <1>4. ASSUME NEW c \in Clients \cup {NoClient}, Post(AcceptTask(n, c))
        PROVE  /\ Queues(c) /\ queue' \in Seq(Task)
               /\ \A i \in DOMAIN queue' :
                     \/ i \in DOMAIN queue /\ queue'[i] = queue[i]
                     \/ Fits(queue[i].k, queue[i])'
    <2>1. PICK t \in Task : t = AcceptTask(n, c)
      BY <1>1, TaskTypes
    <2>2. t.k = "accept" /\ t.c = c /\ t.n = n
      BY <2>1, <1>1, TaskTypes
    <2>3. Fits(t.k, t)'
      BY <1>1, <2>2 DEF AsyncAccept, Fits, SessionSteps, IsRound
    <2>4. Queues(c) /\ queue' \in Seq(Task)
      BY <1>1, <1>4, <2>1, <2>2, PostQueues
    <2> QED
      BY <1>1, <1>4, <2>1, <2>3, <2>4, AppendProperties DEF Post, Fits
  <1>5. ASSUME acceptOps' = acceptOps
        PROVE  acceptOps' \in Seq(Nat) /\ AcceptsFit'
    BY <1>5 DEF AsyncAccept, IInv, TypeOK, CapturesValid, AcceptsFit, IsRound
  <1>6. CASE /\ Post(AcceptTask(n, NoClient))
             /\ UNCHANGED <<acceptOps, peer>>
    <2>1. OneContinuation' /\ CapturesValid'
      BY <1>2, <1>4, <1>5, <1>6, WorkerMoves, TaskTypes DEF PeersMoveOn
    <2>2. TypeOK'
      BY <1>3, <1>4, <1>5, <1>6 DEF IInv, TypeOK
    <2> QED
      BY <2>1, <2>2 DEF IInv
  <1>7. ASSUME NEW c \in Clients \cup {NoClient},
               Accepted(c), Post(AcceptTask(n, c)), UNCHANGED acceptOps
        PROVE  IInv'
    <2>1. OneContinuation' /\ CapturesValid'
      BY <1>2, <1>4, <1>5, <1>7, AcceptMoves, TaskTypes
    <2>2. TypeOK'
      BY <1>3, <1>4, <1>5, <1>7, AcceptedClient
    <2> QED
      BY <2>1, <2>2 DEF IInv
  <1>8. CASE acceptOps' = Append(acceptOps, n) /\ UNCHANGED <<queue, peer>>
    <2>1. acceptOps' \in Seq(Nat) /\ AcceptsFit'
      BY <1>1, <1>8, AppendProperties
      DEF AsyncAccept, IInv, TypeOK, CapturesValid, AcceptsFit, IsRound
    <2>2. OneContinuation' /\ CapturesValid'
      BY <1>2, <1>8, <2>1, WorkerMoves, TaskTypes DEF PeersMoveOn, Queues
    <2>3. TypeOK'
      BY <1>3, <1>8, <2>1 DEF IInv, TypeOK
    <2> QED
      BY <2>2, <2>3 DEF IInv
  <1> QED
    BY <1>6, <1>7, <1>8 DEF AsyncAccept

LEMMA AcceptorReadyKeeps ==
    ASSUME IInv, NEW w \in Workers, AcceptorReady(w)
    PROVE  IInv'
  <1>1. acceptOps \in Seq(Nat) /\ Monotone /\ Queues(NoClient)
    BY DEF AcceptorReady, IInv, TypeOK, Monotone, HasId, Queues, idVars
  <1>2. ASSUME acceptOps # <<>>, NEW c \in Clients \cup {NoClient}, Accepted(c),
               job' = [job EXCEPT ![w] = AcceptTask(Head(acceptOps), c)],
               acceptOps' = Tail(acceptOps), pc' = [pc EXCEPT ![w] = "accept"],
               UNCHANGED stopped
        PROVE  IInv'
    <2>1. /\ Head(acceptOps) \in Nat /\ IsRound(Head(acceptOps))
          /\ acceptOps' \in Seq(Nat) /\ AcceptsFit'
      BY <1>1, <1>2, HeadTailProperties, LenProperties
      DEF AcceptorReady, IInv, CapturesValid, AcceptsFit, IsRound
    <2>2. PICK j \in Task : j = AcceptTask(Head(acceptOps), c)
      BY <2>1, TaskTypes
    <2>3. j.c = c /\ j.n = Head(acceptOps)
      BY <2>1, <2>2, TaskTypes
    <2>4. Fits("accept", j)'
      BY <2>1, <2>3 DEF AcceptorReady, Fits, SessionSteps, IsRound
    <2>5. OneContinuation' /\ CapturesValid'
      BY <1>1, <1>2, <2>1, <2>2, <2>3, <2>4, AcceptMoves DEF AcceptorReady
    <2>6. TypeOK'
      BY <1>2, <2>1, <2>2, AcceptedClient
      DEF AcceptorReady, IInv, TypeOK, WorkerSteps, Kinds,
          mainVars, idVars, dataVars, countVars
    <2> QED
      BY <2>5, <2>6 DEF IInv
  <1>3. CASE Return(w) /\ UNCHANGED <<acceptOps, peer>>
    <2>1. "idle" \in WorkerSteps \ (SessionSteps \cup RoundSteps)
      BY DEF WorkerSteps, SessionSteps, RoundSteps
    <2>2. OneContinuation' /\ CapturesValid'
      BY <1>1, <1>3, <2>1, ServerGoesOn DEF AcceptorReady
    <2>3. TypeOK'
      BY <1>3, TaskTypes
      DEF AcceptorReady, Return, IInv, TypeOK, WorkerSteps,
          mainVars, idVars, dataVars, countVars
    <2> QED
      BY <2>2, <2>3 DEF IInv
  <1> QED
    BY <1>2, <1>3 DEF AcceptorReady

LEMMA AcceptStepKeeps ==
    ASSUME IInv, NEW w \in Workers, AcceptStep(w)
    PROVE  IInv'
  <1>1. {"timeout", "listen"} \subseteq Kinds \ (SessionSteps \cup RoundSteps)
    BY DEF Kinds, SessionSteps, RoundSteps
  <1>2. ListenFull(w) \/ PostListen(w) => IInv'
    BY <1>1, ServerPosts DEF ListenFull, PostListen
  <1>3. AcceptorThrows(w) => IInv'
    BY CrashKeeps DEF AcceptorThrows
  <1> QED
    BY <1>2, <1>3, ListenKeeps, PostIdTaskKeeps, AsyncAcceptKeeps, AcceptorReadyKeeps,
       GetRandomSpareIdKeeps, AcceptFailedKeeps, InsertIdKeeps, PostHandshakeKeeps,
       ConnectionTimeoutKeeps, ArmTimerKeeps
    DEF AcceptStep
-----------------------------------------------------------------------------
(* The steps of the io_context and of the owner's thread keep the invariant. *)

\* Nothing changes for the handlers that run: at most, handlers without a client
\* are queued.
LEMMA RunningUntouched ==
    ASSUME IInv, job' = job, ops' = ops, Queues(NoClient),
           \A i \in DOMAIN queue' : \/ i \in DOMAIN queue /\ queue'[i] = queue[i]
                                    \/ Fits(queue[i].k, queue[i])',
           \A v \in Workers : pc'[v] = pc[v] \/ Fits(pc[v], job[v])',
           Monotone, PeersMoveOn, AcceptsFit'
    PROVE  OneContinuation' /\ CapturesValid'
  <1>1. PICK w \in Workers : TRUE
    BY ConstantsAssumption
  <1>2. PICK j \in Task : j = job[w]
    BY DEF IInv, TypeOK
  <1>3. job' = [job EXCEPT ![w] = j]
    BY <1>2 DEF IInv, TypeOK
  <1>4. OneContinuation' /\ NewlyBusyOnly(NoClient)
    BY <1>2, <1>3, WorkerKeepsOne DEF IInv
  <1>5. BusyIsAccepted'
    BY <1>4, BusyKept, ConstantsAssumption DEF IInv, CapturesValid
  <1>6. CapturesValid'
    BY <1>5, CapturesKept DEF IInv, AcceptsFit
  <1> QED
    BY <1>4, <1>6

\* The steps that touch neither the queue nor what handlers have captured.
LEMMA NothingQueued ==
    ASSUME IInv, UNCHANGED <<queue, job, ops, idVars, acceptOps, promises>>,
           \A v \in Workers : pc'[v] = pc[v] \/ Fits(pc[v], job[v])',
           PeersMoveOn
    PROVE  OneContinuation' /\ CapturesValid'
  <1>1. Queues(NoClient) /\ Monotone
    BY DEF Queues, Monotone, HasId, idVars
  <1>2. AcceptsFit'
    BY DEF IInv, CapturesValid, AcceptsFit, IsRound
  <1> QED
    BY <1>1, <1>2, RunningUntouched

\* The steps that queue one handler without client and round.
LEMMA OneServerTaskQueued ==
    ASSUME IInv, NEW k \in Kinds \ (SessionSteps \cup RoundSteps), Post(ServerTask(k)),
           UNCHANGED <<pc, job, ops, idVars, acceptOps, promises, peer>>
    PROVE  OneContinuation' /\ CapturesValid' /\ queue' \in Seq(Task)
  <1>1. PICK t \in Task : t = ServerTask(k)
    BY TaskTypes
  <1>2. t.c = NoClient /\ t.k = k /\ queue \in Seq(Task)
    BY <1>1, TaskTypes DEF IInv, TypeOK
  <1>3. Queues(NoClient) /\ queue' \in Seq(Task)
    BY <1>1, <1>2, PostQueues
  <1>4. \A i \in DOMAIN queue' : \/ i \in DOMAIN queue /\ queue'[i] = queue[i]
                                 \/ Fits(queue[i].k, queue[i])'
    BY <1>1, <1>2, AppendProperties DEF Post, Fits
  <1>5. Monotone /\ PeersMoveOn /\ AcceptsFit'
    BY DEF Monotone, HasId, PeersMoveOn, idVars, IInv, CapturesValid, AcceptsFit, IsRound
  <1> QED
    BY <1>3, <1>4, <1>5, RunningUntouched

LEMMA DequeueKeeps ==
    ASSUME IInv, NEW w \in Workers, Dequeue(w)
    PROVE  IInv'
  <1>1. queue \in Seq(Task) /\ queue # <<>>
    BY DEF Dequeue, IInv, TypeOK
  <1>2. /\ Head(queue) \in Task /\ queue' \in Seq(Task)
        /\ Head(queue) = queue[1] /\ 1 \in DOMAIN queue
        /\ \A i \in DOMAIN queue' : i + 1 \in DOMAIN queue /\ queue'[i] = queue[i + 1]
    BY <1>1, HeadTailProperties, LenProperties DEF Dequeue
  <1>3. TypeOK'
    BY <1>2
    DEF Dequeue, IInv, TypeOK, WorkerSteps, Task,
        mainVars, listenVars, idVars, dataVars, countVars
  <1>4. OneContinuation' /\ NewlyBusyOnly(NoClient)
    BY <1>1, DequeueKeepsOne DEF Dequeue, IInv
  <1>5. BusyIsAccepted'
    BY <1>4, BusyKept, ConstantsAssumption
    DEF IInv, CapturesValid, Dequeue, PeersMoveOn
  <1>6. /\ Monotone /\ ops' = ops /\ acceptOps' = acceptOps
        /\ idOf' = idOf /\ promises' = promises
    BY DEF Dequeue, Monotone, HasId, idVars, listenVars
  <1>7. \A i \in DOMAIN queue' : Fits(queue[i].k, queue[i])'
    BY <1>2, <1>6 DEF IInv, CapturesValid, QueueFits, Fits, HasId, IsRound
  <1>8. \A v \in Workers : \/ pc'[v] = pc[v] /\ job'[v] = job[v]
                           \/ Fits(pc[v], job[v])'
    BY <1>2, <1>6 DEF Dequeue, IInv, CapturesValid, QueueFits, Fits, HasId, IsRound,
                      TypeOK
  <1>9. CapturesValid'
    BY <1>5, <1>6, <1>7, <1>8, CapturesKept DEF IInv
  <1> QED
    BY <1>3, <1>4, <1>9 DEF IInv

LEMMA RunReturnsKeeps ==
    ASSUME IInv, NEW w \in Workers, RunReturns(w)
    PROVE  IInv'
  <1>1. TypeOK'
    BY DEF RunReturns, IInv, TypeOK, WorkerSteps,
           mainVars, listenVars, idVars, dataVars, countVars
  <1>2. \A v \in Workers : pc'[v] = pc[v] \/ Fits(pc[v], job[v])'
    BY DEF RunReturns, Fits, SessionSteps, RoundSteps, IInv, TypeOK
  <1>3. OneContinuation' /\ CapturesValid'
    BY <1>2, NothingQueued DEF RunReturns, PeersMoveOn, listenVars
  <1> QED
    BY <1>1, <1>3 DEF IInv

LEMMA EnterLoopKeeps ==
    ASSUME IInv, NEW w \in Workers, EnterLoop(w)
    PROVE  IInv'
  <1>1. TypeOK'
    BY DEF EnterLoop, Goto, IInv, TypeOK, WorkerSteps,
           mainVars, listenVars, idVars, dataVars, countVars
  <1>2. \A v \in Workers : pc'[v] = pc[v] \/ Fits(pc[v], job[v])'
    BY DEF EnterLoop, Goto, Fits, SessionSteps, RoundSteps, IInv, TypeOK
  <1>3. OneContinuation' /\ CapturesValid'
    BY <1>2, NothingQueued DEF EnterLoop, Goto, PeersMoveOn, listenVars
  <1> QED
    BY <1>1, <1>3 DEF IInv

LEMMA CollectAcceptorKeeps ==
    ASSUME IInv, CollectAcceptor
    PROVE  IInv'
  <1>1. {"acceptor", "timer"} \subseteq Kinds \ (SessionSteps \cup RoundSteps)
    BY DEF Kinds, SessionSteps, RoundSteps
  <1>2. OneContinuation' /\ CapturesValid' /\ queue' \in Seq(Task)
    <2>1. CASE queue' = queue
      BY <2>1, NothingQueued DEF CollectAcceptor, PeersMoveOn, IInv, TypeOK
    <2>2. CASE Post(ServerTask("acceptor"))
      BY <1>1, <2>2, OneServerTaskQueued DEF CollectAcceptor
    <2> QED
      BY <2>1, <2>2 DEF CollectAcceptor
  <1>3. TypeOK'
    BY <1>2 DEF CollectAcceptor, IInv, TypeOK, mainVars, idVars, dataVars, countVars
  <1> QED
    BY <1>2, <1>3 DEF IInv

LEMMA CollectTimerKeeps ==
    ASSUME IInv, CollectTimer
    PROVE  IInv'
  <1>1. "timer" \in Kinds \ (SessionSteps \cup RoundSteps)
    BY DEF Kinds, SessionSteps, RoundSteps
  <1>2. OneContinuation' /\ CapturesValid' /\ queue' \in Seq(Task)
    BY <1>1, OneServerTaskQueued DEF CollectTimer
  <1>3. TypeOK'
    BY <1>2 DEF CollectTimer, IInv, TypeOK, mainVars, idVars, dataVars, countVars
  <1> QED
    BY <1>2, <1>3 DEF IInv

LEMMA CompleteKeeps ==
    ASSUME IInv, NEW w \in Workers, NEW op \in Op, Complete(w, op)
    PROVE  IInv'
  <1>1. op \in ops /\ op.c \in Clients /\ op.k \in OpKinds
    BY DEF Complete, Op, IInv, TypeOK
  <1>2. HandlerOf[op.k] \in Kinds \cap SessionSteps
    BY <1>1 DEF HandlerOf, OpKinds, Kinds, SessionSteps
  <1>3. PICK r \in Outcomes(op) :
            /\ job' = [job EXCEPT ![w] = ClientTask(HandlerOf[op.k], op.c, r)]
            /\ delivered' = IF op.k = "read" /\ r # "err"
                            THEN [delivered EXCEPT ![op.c] = @ + 1] ELSE delivered
    BY DEF Complete
  <1>4. r \in Results
    BY <1>1, <1>3 DEF Outcomes, Results, OpKinds
  <1>5. PICK t \in Task : t = ClientTask(HandlerOf[op.k], op.c, r)
    BY <1>1, <1>2, <1>4, TaskTypes
  <1>6. t.k = HandlerOf[op.k] /\ t.c = op.c
    BY <1>5 DEF ClientTask
  <1>7. /\ pc \in [Workers -> WorkerSteps] /\ job \in [Workers -> Task]
        /\ pc' = [pc EXCEPT ![w] = t.k] /\ job' = [job EXCEPT ![w] = t]
        /\ t.k \in WorkerSteps
    BY <1>2, <1>3, <1>5, <1>6 DEF Complete, IInv, TypeOK, WorkerSteps
  <1>8. delivered' \in [Clients -> Nat]
    <2>1. delivered \in [Clients -> Nat]
      BY DEF IInv, TypeOK
    <2>2. delivered[op.c] + 1 \in Nat
      BY <1>1, <2>1
    <2>3. CASE op.k = "read" /\ r # "err"
      BY <1>1, <1>3, <2>1, <2>2, <2>3
    <2>4. CASE ~(op.k = "read" /\ r # "err")
      BY <1>3, <2>1, <2>4
    <2> QED
      BY <2>3, <2>4
  <1>9. TypeOK'
    <2>1. pc' \in [Workers -> WorkerSteps] /\ job' \in [Workers -> Task]
      BY <1>7
    <2> QED
      BY <1>8, <2>1 DEF Complete, IInv, TypeOK, mainVars, listenVars, idVars, countVars
  <1>10. OneContinuation' /\ NewlyBusyOnly(NoClient)
    BY <1>1, <1>6, <1>7, CompleteKeepsOne DEF Complete, IInv
  <1>11. BusyIsAccepted'
    BY <1>10, BusyKept, ConstantsAssumption
    DEF IInv, CapturesValid, Complete, PeersMoveOn
  <1>12. HasId(op.c)
    BY <1>1 DEF IInv, CapturesValid, OpsFit
  <1>13. /\ Monotone /\ queue' = queue /\ acceptOps' = acceptOps
         /\ \A o \in ops' : o \in ops
         /\ Fits(t.k, t)'
    BY <1>2, <1>6, <1>12
    DEF Complete, Monotone, HasId, idVars, listenVars, Fits, SessionSteps, RoundSteps
  <1>14. \A v \in Workers : \/ pc'[v] = pc[v] /\ job'[v] = job[v]
                            \/ Fits(pc[v], job[v])'
    BY <1>7, <1>13 DEF Fits
  <1>15. CapturesValid'
    BY <1>11, <1>13, <1>14, CapturesKept DEF IInv
  <1> QED
    BY <1>9, <1>10, <1>15 DEF IInv

LEMMA ConnectKeeps ==
    ASSUME IInv, NEW c \in Clients, Connect(c)
    PROVE  IInv'
  <1>1. TypeOK'
    BY DEF Connect, IInv, TypeOK, mainVars, ioVars, idVars, dataVars, countVars
  <1>2. PeersMoveOn
    BY DEF Connect, IInv, TypeOK, PeersMoveOn
  <1>3. OneContinuation' /\ CapturesValid'
    BY <1>2, NothingQueued DEF Connect, ioVars
  <1> QED
    BY <1>1, <1>3 DEF IInv

LEMMA OwnerStepKeeps ==
    ASSUME IInv, OwnerStep
    PROVE  IInv'
  <1>1. Start \/ ConfigureSsl \/ Shutdown \/ ResetGuard \/ Join => IInv'
    <2> SUFFICES ASSUME Start \/ ConfigureSsl \/ Shutdown \/ ResetGuard \/ Join
                 PROVE  IInv'
      OBVIOUS
    <2>1. TypeOK'
      <3>1. /\ main' \in MainSteps /\ running' \in BOOLEAN /\ guard' \in BOOLEAN
            /\ starts' \in Nat
        <4>1. CASE Start
          BY <4>1 DEF Start, IInv, TypeOK, MainSteps
        <4>2. CASE ConfigureSsl
          BY <4>2 DEF ConfigureSsl, IInv, TypeOK, MainSteps
        <4>3. CASE Shutdown
          BY <4>3 DEF Shutdown, IInv, TypeOK, MainSteps
        <4>4. CASE ResetGuard
          BY <4>4 DEF ResetGuard, IInv, TypeOK, MainSteps
        <4>5. CASE Join
          BY <4>5 DEF Join, IInv, TypeOK, MainSteps
        <4> QED
          BY <4>1, <4>2, <4>3, <4>4, <4>5
      <3>2. UNCHANGED <<ioVars, listenVars, idVars, peer, ops, dataVars, countVars,
                        crashed>>
        BY DEF Start, ConfigureSsl, Shutdown, ResetGuard, Join
      <3> QED
        BY <3>1, <3>2 DEF IInv, TypeOK, ioVars, listenVars, idVars, dataVars, countVars
    <2>2. UNCHANGED <<ioVars, listenVars, idVars, peer, ops>>
      BY DEF Start, ConfigureSsl, Shutdown, ResetGuard, Join
    <2>3. OneContinuation' /\ CapturesValid'
      BY <2>2, NothingQueued DEF PeersMoveOn, ioVars, listenVars
    <2> QED
      BY <2>1, <2>3 DEF IInv
  <1>2. BindThrows \/ CancelThrows => IInv'
    BY CrashKeeps DEF BindThrows, CancelThrows
  <1>3. PostWorkers => IInv'
    <2> SUFFICES ASSUME PostWorkers PROVE IInv'
      OBVIOUS
    <2>1. TypeOK'
      BY DEF PostWorkers, IInv, TypeOK, MainSteps, WorkerSteps,
             listenVars, idVars, dataVars, countVars
    <2>2. \A v \in Workers : pc'[v] = pc[v] \/ Fits(pc[v], job[v])'
      BY DEF PostWorkers, Fits, SessionSteps, RoundSteps
    <2>3. OneContinuation' /\ CapturesValid'
      BY <2>2, NothingQueued DEF PostWorkers, PeersMoveOn, listenVars
    <2> QED
      BY <2>1, <2>3 DEF IInv
  <1>4. ConfigureAcceptor \/ StopContext => IInv'
    <2> SUFFICES ASSUME ConfigureAcceptor \/ StopContext PROVE IInv'
      OBVIOUS
    <2>1. TypeOK'
      BY DEF ConfigureAcceptor, StopContext, IInv, TypeOK, MainSteps,
             ioVars, listenVars, idVars, dataVars, countVars
    <2>2. OneContinuation' /\ CapturesValid'
      BY NothingQueued
      DEF ConfigureAcceptor, StopContext, PeersMoveOn, ioVars, listenVars
    <2> QED
      BY <2>1, <2>2 DEF IInv
  <1>5. PostFirstListen => IInv'
    <2> SUFFICES ASSUME PostFirstListen PROVE IInv'
      OBVIOUS
    <2>1. "listen" \in Kinds \ (SessionSteps \cup RoundSteps)
      BY DEF Kinds, SessionSteps, RoundSteps
    <2>2. OneContinuation' /\ CapturesValid' /\ queue' \in Seq(Task)
      BY <2>1, OneServerTaskQueued DEF PostFirstListen, listenVars
    <2>3. TypeOK'
      BY <2>2 DEF PostFirstListen, IInv, TypeOK, MainSteps,
                  listenVars, idVars, dataVars, countVars
    <2> QED
      BY <2>2, <2>3 DEF IInv
  <1>6. CancelAcceptor \/ CloseAcceptor => IInv'
    <2> SUFFICES ASSUME CancelAcceptor \/ CloseAcceptor PROVE IInv'
      OBVIOUS
    <2>1. /\ queue' \in Seq(Task) /\ Queues(NoClient)
          /\ \A i \in DOMAIN queue' :
                \/ i \in DOMAIN queue /\ queue'[i] = queue[i]
                \/ queue'[i].k = "accept" /\ IsRound(queue'[i].n)
      BY AbortedQueues DEF CancelAcceptor, CloseAcceptor
    <2>2. /\ acceptOps' \in Seq(Nat) /\ AcceptsFit' /\ promises' = promises
          /\ pc' = pc /\ job' = job /\ ops' = ops /\ Monotone
      <3>1. /\ acceptOps' = <<>> /\ promises' = promises /\ idOf' = idOf
            /\ pc' = pc /\ job' = job /\ ops' = ops
        BY DEF CancelAcceptor, CloseAcceptor, idVars
      <3> QED
        BY <3>1 DEF AcceptsFit, Monotone, HasId
    <2>3. /\ peer' \in [Clients -> {"new", "backlog", "open", "closed"}]
          /\ PeersMoveOn
      BY DEF CancelAcceptor, CloseAcceptor, Backlog, IInv, TypeOK, PeersMoveOn
    <2>4. TypeOK'
      BY <2>1, <2>2, <2>3
      DEF CancelAcceptor, CloseAcceptor, IInv, TypeOK, MainSteps,
          idVars, dataVars, countVars
    <2>5. \A i \in DOMAIN queue' : \/ i \in DOMAIN queue /\ queue'[i] = queue[i]
                                   \/ Fits(queue[i].k, queue[i])'
      BY <2>1, <2>2 DEF Fits, SessionSteps, IsRound
    <2>6. OneContinuation' /\ CapturesValid'
      BY <2>1, <2>2, <2>3, <2>5, RunningUntouched
    <2> QED
      BY <2>4, <2>6 DEF IInv
  <1> QED
    BY <1>1, <1>2, <1>3, <1>4, <1>5, <1>6 DEF OwnerStep
-----------------------------------------------------------------------------
LEMMA InitIInv == Init => IInv
  <1> SUFFICES ASSUME Init PROVE IInv
    OBVIOUS
  <1>1. TypeOK
    <2>1. /\ queue \in Seq(Task) /\ pc \in [Workers -> WorkerSteps]
          /\ job \in [Workers -> Task] /\ acceptOps \in Seq(Nat)
          /\ promises \in Seq(Ids \cup {NoId})
      BY TaskTypes DEF Init, WorkerSteps
    <2>2. /\ messages \in [Ids -> Seq(Clients)] /\ reply \in [Clients -> Seq(Clients)]
          /\ delivered \in [Clients -> Nat] /\ idOf \in [Clients -> Ids \cup {NoId}]
          /\ peer \in [Clients -> {"new", "backlog", "open", "closed"}]
      BY DEF Init
    <2>3. count \in 0 .. CountMod - 1
      BY ConstantsAssumption DEF Init
    <2> QED
      BY <2>1, <2>2, <2>3 DEF Init, TypeOK, MainSteps
  <1>2. OneContinuation
    BY ConstantsAssumption, TaskTypes DEF Init, OneContinuation, InQueue, InWorker, InOps
  <1>3. CapturesValid
    BY ConstantsAssumption, TaskTypes
    DEF Init, CapturesValid, QueueFits, WorkersFit, OpsFit, AcceptsFit, BusyIsAccepted,
        Busy, InQueue, InWorker, InOps, Fits, SessionSteps, RoundSteps
  <1> QED
    BY <1>1, <1>2, <1>3 DEF IInv

LEMMA StutterKeeps ==
    ASSUME IInv, UNCHANGED vars
    PROVE  IInv'
  <1>1. TypeOK'
    BY DEF vars, IInv, TypeOK, mainVars, ioVars, listenVars, idVars, dataVars, countVars
  <1>2. OneContinuation' /\ CapturesValid'
    BY NothingQueued DEF vars, ioVars, listenVars, PeersMoveOn
  <1> QED
    BY <1>1, <1>2 DEF IInv

LEMMA NextKeeps == IInv /\ [Next]_vars => IInv'
  BY OwnerStepKeeps, EnterLoopKeeps, DequeueKeeps, RunReturnsKeeps, AcceptStepKeeps,
     SessionStepKeeps, CollectAcceptorKeeps, CollectTimerKeeps, CompleteKeeps, ConnectKeeps, StutterKeeps
  DEF Next, WorkerStep

\* IInv is an invariant of the server: whatever the number of workers, clients and
\* connections, and whatever faults the environment is allowed.
THEOREM InductiveInvariant == Spec => []IInv
  BY InitIInv, NextKeeps, PTL DEF Spec

\* Every member of Tcp_server keeps its type, and m_active_connections its 32 bits.
THEOREM TypeCorrect == Spec => []TypeOK
  <1>1. IInv => TypeOK
    BY DEF IInv
  <1> QED
    BY <1>1, InductiveInvariant, PTL

\* The server never has two handlers or operations at work for one accepted client,
\* so no two threads use one ssl_socket although nothing locks it.
THEOREM SocketExclusive == Spec => []OneContinuation
  <1>1. IInv => OneContinuation
    BY DEF IInv
  <1> QED
    BY <1>1, InductiveInvariant, PTL

\* A handler finds what its lambda captured: a session's socket has its id, and a
\* round of listen() its client_id_task.
THEOREM CapturesStayValid == Spec => []CapturesValid
  <1>1. IInv => CapturesValid
    BY DEF IInv
  <1> QED
    BY <1>1, InductiveInvariant, PTL
=============================================================================
