---------------------------- MODULE ServiceProofs ----------------------------
(***************************************************************************)
(* What happens to the messages, for every instance:                       *)
(* NoInsertUnderSharedLock, BufferStable and EchoComplete, and that the    *)
(* server implements EchoService.  A step of the server moves at most one  *)
(* client from one stage of its session to the next; everything else is    *)
(* about those stages.                                                     *)
(***************************************************************************)
EXTENDS IdProofs, FiniteSetTheorems

\* After the step the client is at this stage and at no other.
Only(c, step, r) == \A l, s : Engaged(c, l, s)' <=> l = step /\ s = r

OthersStay(c) == \A d \in Clients \ {c} : \A l, s : Engaged(d, l, s)' <=> Engaged(d, l, s)

AllStay == \A d \in Clients : \A l, s : Engaged(d, l, s)' <=> Engaged(d, l, s)

LEMMA NoOpOf ==
    ASSUME NEW c, ~InOps(c)
    PROVE  \A l : [k |-> l, c |-> c] \notin ops
  BY DEF InOps

\* A worker that has the client's socket is the client's only stage.
LEMMA HolderStage ==
    ASSUME IInv, NEW w \in Workers, NEW c \in Clients, job[w].c = c
    PROVE  \A l, s : Engaged(c, l, s) <=> l = pc[w] /\ s = job[w].r
  BY OnlyHolder DEF Engaged, InQueue, InOps

\* So is a pending operation on it.
LEMMA OpStage ==
    ASSUME IInv, NEW op \in ops
    PROVE  /\ op.c \in Clients
           /\ \A l, s : Engaged(op.c, l, s) <=> l = op.k /\ s = "pending"
  <1>1. op \in Op /\ op.c \in Clients /\ op = [k |-> op.k, c |-> op.c]
    BY DEF IInv, TypeOK, Op
  <1>2. ~InQueue(op.c) /\ ~InWorker(op.c)
    BY <1>1 DEF IInv, OneContinuation, InOps
  <1>3. \A l : [k |-> l, c |-> op.c] \in ops <=> l = op.k
    BY <1>1 DEF IInv, OneContinuation
  <1> QED
    BY <1>1, <1>2, <1>3 DEF Engaged, InQueue, InWorker

\* Handlers without a client are nobody's stage.
LEMMA QuietStages ==
    ASSUME ops' = ops,
           \A i \in DOMAIN queue : i \in DOMAIN queue' /\ queue'[i] = queue[i],
           \A i \in DOMAIN queue' : i \in DOMAIN queue \/ queue'[i].c = NoClient,
           \A v \in Workers : \/ pc'[v] = pc[v] /\ job'[v] = job[v]
                              \/ job[v].c = NoClient /\ job'[v].c = NoClient
    PROVE  AllStay
  <1>1. NoClient \notin Clients
    BY ConstantsAssumption
  <1> QED
    BY <1>1 DEF AllStay, Engaged

\* A handler of the client posts the next one.
LEMMA PostStage ==
    ASSUME IInv, NEW w \in Workers, NEW c \in Clients, job[w].c = c, NEW t \in Task, Post(t),
           t.c = c, NEW step, pc' = [pc EXCEPT ![w] = step],
           job' = [job EXCEPT ![w] = NoTask], ops' = ops
    PROVE  Only(c, t.k, t.r) /\ OthersStay(c)
  <1>1. /\ queue \in Seq(Task) /\ pc \in [Workers -> WorkerSteps]
        /\ job \in [Workers -> Task] /\ job'[w].c = NoClient /\ NoClient \notin Clients
    BY TaskTypes, ConstantsAssumption DEF IInv, TypeOK
  <1>2. \A v \in Workers : v # w => pc'[v] = pc[v] /\ job'[v] = job[v]
    BY <1>1
  <1>3. /\ ~InQueue(c) /\ \A v \in Workers : job[v].c = c => v = w
        /\ \A l : [k |-> l, c |-> c] \notin ops
    BY OnlyHolder, NoOpOf
  <1>4. /\ \A i \in DOMAIN queue : i \in DOMAIN queue' /\ queue'[i] = queue[i]
        /\ \A i \in DOMAIN queue' : i \in DOMAIN queue \/ queue'[i] = t
        /\ \E i \in DOMAIN queue' : queue'[i] = t
    BY <1>1, PostedPlaces
  <1>5. Only(c, t.k, t.r)
    <2>1. \A v \in Workers : job'[v].c # c
      BY <1>1, <1>2, <1>3
    <2>2. \A l, s : (\E i \in DOMAIN queue' : /\ queue'[i].c = c
                                             /\ queue'[i].k = l /\ queue'[i].r = s)
                    <=> l = t.k /\ s = t.r
      BY <1>3, <1>4 DEF InQueue
    <2> QED
      BY <1>3, <2>1, <2>2 DEF Only, Engaged
  <1>6. OthersStay(c)
    BY <1>1, <1>2, <1>4 DEF OthersStay, Engaged
  <1> QED
    BY <1>5, <1>6

\* A handler of the client starts an operation.
LEMMA StartStage ==
    ASSUME IInv, NEW w \in Workers, NEW c \in Clients, job[w].c = c, NEW kind, StartOp(w, kind)
    PROVE  Only(c, kind, "pending") /\ OthersStay(c)
  <1>1. /\ pc \in [Workers -> WorkerSteps] /\ queue' = queue
        /\ job \in [Workers -> Task] /\ job'[w].c = NoClient /\ NoClient \notin Clients
        /\ ops' = ops \cup {[k |-> kind, c |-> c]}
    BY TaskTypes, ConstantsAssumption DEF IInv, TypeOK, StartOp, Return
  <1>2. \A v \in Workers : v # w => pc'[v] = pc[v] /\ job'[v] = job[v]
    BY <1>1 DEF StartOp, Return
  <1>3. /\ ~InQueue(c) /\ \A v \in Workers : job[v].c = c => v = w
        /\ \A l : [k |-> l, c |-> c] \notin ops
    BY OnlyHolder, NoOpOf
  <1>4. Only(c, kind, "pending")
    <2>1. \A v \in Workers : job'[v].c # c
      BY <1>1, <1>2, <1>3
    <2>2. \A l : [k |-> l, c |-> c] \in ops' <=> l = kind
      BY <1>1, <1>3
    <2> QED
      BY <1>1, <1>3, <2>1, <2>2 DEF Only, Engaged, InQueue
  <1>5. OthersStay(c)
    BY <1>1, <1>2 DEF OthersStay, Engaged
  <1> QED
    BY <1>4, <1>5

\* A handler of the client goes to its next step.
LEMMA GotoStage ==
    ASSUME IInv, NEW w \in Workers, NEW c \in Clients, job[w].c = c, NEW step, Goto(w, step),
           UNCHANGED <<queue, ops>>
    PROVE  Only(c, step, job[w].r) /\ OthersStay(c)
  <1>1. /\ pc \in [Workers -> WorkerSteps] /\ pc' = [pc EXCEPT ![w] = step] /\ job' = job
    BY DEF IInv, TypeOK, Goto
  <1>2. \A v \in Workers : v # w => pc'[v] = pc[v]
    BY <1>1
  <1>3. /\ ~InQueue(c) /\ \A v \in Workers : job[v].c = c => v = w
        /\ \A l : [k |-> l, c |-> c] \notin ops
    BY OnlyHolder, NoOpOf
  <1>4. Only(c, step, job[w].r)
    BY <1>1, <1>2, <1>3 DEF Only, Engaged, InQueue
  <1>5. OthersStay(c)
    BY <1>1, <1>2 DEF OthersStay, Engaged
  <1> QED
    BY <1>4, <1>5

\* The last handler of the client returns.
LEMMA ReturnStage ==
    ASSUME IInv, NEW w \in Workers, NEW c \in Clients, job[w].c = c, Return(w),
           UNCHANGED <<queue, ops>>
    PROVE  (\A l, s : ~Engaged(c, l, s)') /\ OthersStay(c)
  <1>1. /\ pc \in [Workers -> WorkerSteps] /\ job \in [Workers -> Task]
        /\ job'[w].c = NoClient /\ NoClient \notin Clients
    BY TaskTypes, ConstantsAssumption DEF IInv, TypeOK, Return
  <1>2. \A v \in Workers : v # w => pc'[v] = pc[v] /\ job'[v] = job[v]
    BY <1>1 DEF Return
  <1>3. /\ ~InQueue(c) /\ \A v \in Workers : job[v].c = c => v = w
        /\ \A l : [k |-> l, c |-> c] \notin ops
    BY OnlyHolder, NoOpOf
  <1>4. \A l, s : ~Engaged(c, l, s)'
    <2>1. \A v \in Workers : job'[v].c # c
      BY <1>1, <1>2, <1>3
    <2> QED
      BY <1>3, <2>1 DEF Engaged, InQueue
  <1>5. OthersStay(c)
    BY <1>1, <1>2 DEF OthersStay, Engaged
  <1> QED
    BY <1>4, <1>5

\* A pending operation completes, and a worker that was free runs its handler.
LEMMA CompleteStage ==
    ASSUME IInv, NEW op \in ops, NEW w \in Workers, job[w].c = NoClient,
           NEW t \in Task, t.c = op.c,
           pc' = [pc EXCEPT ![w] = t.k], job' = [job EXCEPT ![w] = t],
           ops' = ops \ {op}, queue' = queue
    PROVE  Only(op.c, t.k, t.r) /\ OthersStay(op.c)
  <1>1. /\ op \in Op /\ op.c \in Clients /\ op = [k |-> op.k, c |-> op.c]
        /\ pc \in [Workers -> WorkerSteps] /\ job \in [Workers -> Task]
        /\ NoClient \notin Clients
    BY ConstantsAssumption DEF IInv, TypeOK, Op
  <1>2. /\ ~InQueue(op.c) /\ ~InWorker(op.c)
        /\ \A o \in ops : o.c = op.c => o = op
    BY <1>1 DEF IInv, OneContinuation, InOps
  <1>3. /\ pc'[w] = t.k /\ job'[w] = t
        /\ \A v \in Workers : v # w => pc'[v] = pc[v] /\ job'[v] = job[v]
    BY <1>1
  <1>4. Only(op.c, t.k, t.r)
    <2>1. \A l : [k |-> l, c |-> op.c] \notin ops'
      BY <1>2
    <2>2. \A v \in Workers : job'[v].c = op.c => v = w
      BY <1>2, <1>3 DEF InWorker
    <2> QED
      BY <1>2, <1>3, <2>1, <2>2 DEF Only, Engaged, InQueue
  <1>5. OthersStay(op.c)
    <2>1. \A d \in Clients \ {op.c} : \A l : [k |-> l, c |-> d] # op
      BY <1>1
    <2> QED
      BY <1>1, <1>3, <2>1 DEF OthersStay, Engaged
  <1> QED
    BY <1>4, <1>5

\* A worker takes a handler from the queue: the stages stay.
LEMMA DequeueStage ==
    ASSUME IInv, IdInv, NEW w \in Workers, Dequeue(w)
    PROVE  AllStay
  <1>1. /\ pc[w] = "idle" /\ queue \in Seq(Task) /\ queue # <<>> /\ queue' = Tail(queue)
        /\ pc \in [Workers -> WorkerSteps] /\ job \in [Workers -> Task]
        /\ pc' = [pc EXCEPT ![w] = queue[1].k] /\ job' = [job EXCEPT ![w] = queue[1]]
        /\ ops' = ops
    BY DequeuedPlaces DEF Dequeue, At, IInv, TypeOK
  <1>2. /\ 1 \in DOMAIN queue
        /\ \A i \in DOMAIN queue' : i + 1 \in DOMAIN queue /\ queue'[i] = queue[i + 1]
        /\ \A i \in DOMAIN queue : i = 1 \/ (i - 1 \in DOMAIN queue' /\ queue'[i - 1] = queue[i])
    BY <1>1, DequeuedPlaces
  <1>3. job[w].c = NoClient /\ NoClient \notin Clients
    BY <1>1, ConstantsAssumption DEF IdInv, NoClientElsewhere, ClientSteps, SessionSteps
  <1>4. pc'[w] = queue[1].k /\ job'[w] = queue[1]
    BY <1>1
  <1>5. \A v \in Workers : v # w => pc'[v] = pc[v] /\ job'[v] = job[v]
    BY <1>1
  <1>6. ASSUME NEW d \in Clients, NEW l, NEW s
        PROVE  Engaged(d, l, s)' <=> Engaged(d, l, s)
    <2>1. (\E i \in DOMAIN queue : queue[i].c = d /\ queue[i].k = l /\ queue[i].r = s)
          <=> \/ \E i \in DOMAIN queue' : queue'[i].c = d /\ queue'[i].k = l /\ queue'[i].r = s
              \/ queue[1].c = d /\ queue[1].k = l /\ queue[1].r = s
      BY <1>2
    <2> QED
      BY <1>1, <1>3, <1>4, <1>5, <2>1 DEF Engaged
  <1> QED
    BY <1>6 DEF AllStay
-----------------------------------------------------------------------------
\* After the step the client is in this phase and in no other.
PhaseOnly(c, q) == \A x : InPhase(c, x)' <=> x = q

PhasesStay(d) == \A x : InPhase(d, x)' <=> InPhase(d, x)

\* One client goes from one phase to another.
PhaseMove(c, p, q) ==
    /\ \A x : InPhase(c, x) <=> x = p
    /\ PhaseOnly(c, q)
    /\ \A d \in Clients \ {c} : PhasesStay(d)

StageSteps == WorkerSteps \cup OpKinds
StageResults == Results \cup {"pending"}

LEMMA StagesThenPhases ==
    ASSUME NEW c \in Clients, NEW k \in StageSteps, NEW r \in StageResults,
           NEW l \in StageSteps, NEW s \in StageResults,
           \A x, y : Engaged(c, x, y) <=> x = k /\ y = r,
           Only(c, l, s), OthersStay(c)
    PROVE  PhaseMove(c, PhaseOf(k, r), PhaseOf(l, s))
  <1>1. \A x : InPhase(c, x) <=> x = PhaseOf(k, r)
    BY DEF InPhase, StageSteps, StageResults
  <1>2. PhaseOnly(c, PhaseOf(l, s))
    BY DEF PhaseOnly, InPhase, Only, StageSteps, StageResults
  <1>3. \A d \in Clients \ {c} : PhasesStay(d)
    BY DEF PhasesStay, InPhase, OthersStay
  <1> QED
    BY <1>1, <1>2, <1>3 DEF PhaseMove

LEMMA AllPhasesStay ==
    ASSUME AllStay
    PROVE  \A d \in Clients : PhasesStay(d)
  BY DEF AllStay, PhasesStay, InPhase

\* What a client's phase says of the client.
LEMMA PhaseFacts ==
    ASSUME IInv, IdInv, NEW c \in Clients
    PROVE  /\ Live(c) <=> idOf[c] # NoId /\ \E p \in Phases \ {"leaving"} : InPhase(c, p)
           /\ c \in Unstored <=> InPhase(c, "holding")
           /\ \A p, q : InPhase(c, p) /\ InPhase(c, q) => p = q
           /\ \A p : InPhase(c, p) => p \in Phases
           /\ \A p \in Phases \ {"accepted"} : InPhase(c, p) => idOf[c] \in Ids
           /\ InPhase(c, "accepted") => idOf[c] = NoId
           /\ \A p : InPhase(c, p) => peer[c] \in {"open", "closed"}
  <1>1. NoClient \notin Clients /\ NoId \notin Ids /\ ops \subseteq Op /\ queue \in Seq(Task)
        /\ job \in [Workers -> Task]
    BY ConstantsAssumption DEF IInv, TypeOK
  <1>2. \A i \in DOMAIN queue : queue[i] \in Task
    BY <1>1, ElementOfSeq, LenProperties
  <1>3. ASSUME NEW k, NEW r, Engaged(c, k, r)
        PROVE  \/ k \in ClientSteps /\ r \in Results
               \/ k \in OpKinds /\ r = "pending"
    BY <1>1, <1>2, <1>3 DEF Engaged, IdInv, NoClientElsewhere, Task, Op
  <1>4. ASSUME NEW k, NEW r, NEW l, NEW s, Engaged(c, k, r), Engaged(c, l, s)
        PROVE  k = l /\ r = s
    <2>1. (\E x : [k |-> x, c |-> c] \in ops) => InOps(c)
      BY DEF InOps
    <2>2. \A x, y : [k |-> x, c |-> c] \in ops /\ [k |-> y, c |-> c] \in ops => x = y
      BY DEF IInv, OneContinuation
    <2>3. CASE InQueue(c)
      BY <1>4, <2>1, <2>3 DEF Engaged, IInv, OneContinuation, InQueue, InWorker
    <2>4. CASE InWorker(c)
      BY <1>4, <2>1, <2>4 DEF Engaged, IInv, OneContinuation, InQueue, InWorker
    <2>5. CASE ~InQueue(c) /\ ~InWorker(c)
      BY <1>4, <2>2, <2>5 DEF Engaged, InQueue, InWorker
    <2> QED
      BY <2>3, <2>4, <2>5
  <1>5. \A p, q : InPhase(c, p) /\ InPhase(c, q) => p = q
    BY <1>4 DEF InPhase
  <1>6. ASSUME NEW k, NEW r, Engaged(c, k, r)
        PROVE  /\ PhaseOf(k, r) \in Phases /\ InPhase(c, PhaseOf(k, r))
               /\ PhaseOf(k, r) = "accepted" <=> k = "accept"
               /\ PhaseOf(k, r) = "leaving" <=> k \in {"close_socket", "decrement"}
               /\ PhaseOf(k, r) = "holding"
                      <=> k = "process" \/ (k = "on_read" /\ r # "err")
    <2>1. k \in StageSteps /\ r \in StageResults
      BY <1>3, <1>6 DEF StageSteps, StageResults, ClientSteps, SessionSteps, WorkerSteps, Kinds
    <2>2. InPhase(c, PhaseOf(k, r))
      BY <1>6, <2>1 DEF InPhase, StageSteps, StageResults
    <2>3. k \in SessionSteps \cup {"accept", "wait", "write"}
      BY <1>3, <1>6 DEF ClientSteps, OpKinds, SessionSteps
    <2>4. PhaseOf(k, r) \in Phases
      BY <2>3 DEF PhaseOf, Phases, SessionSteps
    <2>5. PhaseOf(k, r) = "accepted" <=> k = "accept"
      BY <2>3 DEF PhaseOf, SessionSteps
    <2>6. PhaseOf(k, r) = "leaving" <=> k \in {"close_socket", "decrement"}
      BY <2>3 DEF PhaseOf, SessionSteps
    <2>7. PhaseOf(k, r) = "holding" <=> k = "process" \/ (k = "on_read" /\ r # "err")
      BY <2>3 DEF PhaseOf, SessionSteps
    <2> QED
      BY <2>2, <2>4, <2>5, <2>6, <2>7
  <1>7. \A p : InPhase(c, p) => p \in Phases
    <2>1. SUFFICES ASSUME NEW p, InPhase(c, p)
                   PROVE  p \in Phases
      OBVIOUS
    <2>2. PICK k \in StageSteps, r \in StageResults : Engaged(c, k, r) /\ PhaseOf(k, r) = p
      BY <2>1 DEF InPhase, StageSteps, StageResults
    <2> QED
      BY <1>6, <2>2
  <1>8. Live(c) <=> idOf[c] # NoId /\ \E p \in Phases \ {"leaving"} : InPhase(c, p)
    <2>1. (\E p \in Phases \ {"leaving"} : InPhase(c, p))
          <=> \E k, r : Engaged(c, k, r) /\ k \notin {"close_socket", "decrement"}
      <3>1. ASSUME NEW p \in Phases \ {"leaving"}, InPhase(c, p)
            PROVE  \E k, r : Engaged(c, k, r) /\ k \notin {"close_socket", "decrement"}
        BY <1>6, <3>1 DEF InPhase
      <3>2. ASSUME NEW k, NEW r, Engaged(c, k, r), k \notin {"close_socket", "decrement"}
            PROVE  \E p \in Phases \ {"leaving"} : InPhase(c, p)
        BY <1>6, <3>2
      <3> QED
        BY <3>1, <3>2
    <2>2. InQueue(c) => \E k, r : Engaged(c, k, r) /\ k \notin {"close_socket", "decrement"}
      BY <1>2, ZenonT(30) DEF InQueue, Engaged, Task, Kinds
    <2>3. InOps(c) => \E k, r : Engaged(c, k, r) /\ k \notin {"close_socket", "decrement"}
      <3>1. SUFFICES ASSUME NEW op \in ops, op.c = c
                     PROVE  Engaged(c, op.k, "pending") /\ op.k \in OpKinds
        BY DEF InOps, OpKinds
      <3>2. op.k \in OpKinds /\ op = [k |-> op.k, c |-> op.c]
        BY <1>1 DEF Op
      <3> QED
        BY <3>1, <3>2 DEF Engaged
    <2>4. ASSUME NEW w \in Workers, job[w].c = c, pc[w] \notin {"close_socket", "decrement"}
          PROVE  Engaged(c, pc[w], job[w].r)
      BY <2>4 DEF Engaged
    <2>5. ASSUME NEW k, NEW r, Engaged(c, k, r), k \notin {"close_socket", "decrement"}
          PROVE  Held(c)
      BY <2>5 DEF Engaged, Held, InQueue, InOps
    <2>6. Held(c) <=> \E k, r : Engaged(c, k, r) /\ k \notin {"close_socket", "decrement"}
      BY <2>2, <2>3, <2>4, <2>5 DEF Held
    <2> QED
      BY <2>1, <2>6 DEF Live, Held
  <1>9. c \in Unstored <=> InPhase(c, "holding")
    <2>1. InPhase(c, "holding")
          <=> \E k, r : /\ Engaged(c, k, r)
                        /\ k = "process" \/ (k = "on_read" /\ r # "err")
      <3>1. ASSUME InPhase(c, "holding")
            PROVE  \E k, r : /\ Engaged(c, k, r)
                             /\ k = "process" \/ (k = "on_read" /\ r # "err")
        BY <1>6, <3>1 DEF InPhase
      <3>2. ASSUME NEW k, NEW r, Engaged(c, k, r), k = "process" \/ (k = "on_read" /\ r # "err")
            PROVE  InPhase(c, "holding")
        BY <1>6, <3>2
      <3> QED
        BY <3>1, <3>2
    <2>2. [k |-> "process", c |-> c] \notin ops /\ [k |-> "on_read", c |-> c] \notin ops
      <3>1. \A op \in ops : op.k \in OpKinds
        BY <1>1 DEF Op
      <3> QED
        BY <3>1 DEF OpKinds
    <2>3. \A r : /\ Engaged(c, "process", r) => c \in Unstored
                 /\ Engaged(c, "on_read", r) /\ r # "err" => c \in Unstored
      BY <2>2 DEF Unstored, Engaged
    <2>4. c \in Unstored =>
             \E r : Engaged(c, "process", r) \/ (Engaged(c, "on_read", r) /\ r # "err")
      BY DEF Unstored, Engaged
    <2> QED
      BY <2>1, <2>3, <2>4
  <1>10. \A p \in Phases \ {"accepted"} : InPhase(c, p) => idOf[c] \in Ids
    <2>1. ASSUME NEW k, NEW r, Engaged(c, k, r), k # "accept"
          PROVE  idOf[c] \in Ids
      <3>1. ASSUME NEW i \in DOMAIN queue, queue[i].c = c, queue[i].k = k
            PROVE  idOf[c] \in Ids
        BY <1>1, <2>1, <3>1 DEF IInv, CapturesValid, QueueFits, Fits, HasId, IdInv,
                                NoClientElsewhere, ClientSteps
      <3>2. ASSUME NEW w \in Workers, job[w].c = c, pc[w] = k
            PROVE  idOf[c] \in Ids
        BY <1>1, <2>1, <3>2 DEF IInv, CapturesValid, WorkersFit, Fits, HasId, IdInv,
                                NoClientElsewhere, ClientSteps
      <3>3. ASSUME NEW op \in ops, op.c = c
            PROVE  idOf[c] \in Ids
        BY <3>3 DEF IInv, CapturesValid, OpsFit, HasId
      <3> QED
        BY <2>1, <3>1, <3>2, <3>3 DEF Engaged
    <2> QED
      BY <1>6, <2>1 DEF InPhase
  <1>11. InPhase(c, "accepted") => idOf[c] = NoId
    <2>1. ASSUME NEW r, Engaged(c, "accept", r)
          PROVE  idOf[c] = NoId
      <3>1. [k |-> "accept", c |-> c] \notin ops
        <4>1. \A op \in ops : op.k \in OpKinds
          BY <1>1 DEF Op
        <4> QED
          BY <4>1 DEF OpKinds
      <3> QED
        BY <2>1, <3>1 DEF Engaged, IdInv, IdComesWithAccept
    <2> QED
      BY <1>6, <2>1 DEF InPhase
  <1>12. \A p : InPhase(c, p) => peer[c] \in {"open", "closed"}
    <2>1. (\E k, r : Engaged(c, k, r)) => Busy(c)
      BY DEF Engaged, Busy, InQueue, InWorker, InOps
    <2> QED
      BY <2>1 DEF InPhase, IInv, CapturesValid, BusyIsAccepted
  <1> QED
    BY <1>5, <1>7, <1>8, <1>9, <1>10, <1>11, <1>12
-----------------------------------------------------------------------------
\* The session's state that no step without a part in the session changes.
sessionVars == <<idOf, dataVars, countVars>>

\* A step in which no session gets on: at most its socket is closed at its end, and
\* clients enter the backlog or are reset there.
Passing ==
    /\ \A d \in Clients : PhasesStay(d)
    /\ \A d \in Clients : \/ peer'[d] = peer[d]
                          \/ peer[d] = "new" /\ peer'[d] = "backlog"
                          \/ peer[d] = "backlog" /\ peer'[d] = "closed"
                          \/ InPhase(d, "leaving") /\ peer'[d] = "closed"
    /\ UNCHANGED sessionVars

Taken(c) ==
    /\ peer[c] = "backlog" /\ peer' = [peer EXCEPT ![c] = "open"]
    /\ PhaseOnly(c, "accepted") /\ \A d \in Clients \ {c} : PhasesStay(d)
    /\ UNCHANGED sessionVars

Admitted(c) ==
    /\ PhaseMove(c, "accepted", "handshake")
    /\ \E i \in Ids \ activeIds : idOf' = [idOf EXCEPT ![c] = i]
    /\ UNCHANGED <<peer, dataVars, countVars>>

\* The moves that change nothing but the phase.
Plain(c) ==
    /\ \/ PhaseMove(c, "handshake", "failed") /\ "handshake_error" \in Env
       \/ PhaseMove(c, "failed", "ending")
       \/ PhaseMove(c, "reading", "ending")
       \/ PhaseMove(c, "stored", "reading")
       \/ PhaseMove(c, "sending", "ending")
       \/ PhaseMove(c, "ending", "leaving")
    /\ UNCHANGED <<peer, sessionVars>>

CountedIn(c) ==
    /\ PhaseMove(c, "handshake", "reading")
    /\ count' = (count + 1) % CountMod /\ counted' = counted \cup {c}
    /\ UNCHANGED <<peer, idOf, dataVars>>

Heard(c) ==
    /\ PhaseMove(c, "reading", "holding")
    /\ delivered' = [delivered EXCEPT ![c] = @ + 1]
    /\ UNCHANGED <<peer, idOf, messages, reply, countVars>>

StoredNow(c) ==
    /\ PhaseMove(c, "holding", "stored")
    /\ messages' = [messages EXCEPT ![idOf[c]] = Append(@, c)]
    /\ UNCHANGED <<peer, idOf, delivered, reply, countVars>>

Answered(c) ==
    /\ PhaseMove(c, "stored", "sending")
    /\ reply' = [reply EXCEPT ![c] = messages[idOf[c]]]
    /\ UNCHANGED <<peer, idOf, messages, delivered, countVars>>

Left(c) ==
    /\ InPhase(c, "leaving") /\ (\A x : ~InPhase(c, x)')
    /\ \A d \in Clients \ {c} : PhasesStay(d)
    /\ count' = Decremented(count) /\ counted' = counted \ {c}
    /\ peer' = [peer EXCEPT ![c] = "closed"] /\ idOf' = [idOf EXCEPT ![c] = NoId]
    /\ UNCHANGED dataVars

ServiceStep(c) ==
    \/ Taken(c) \/ Admitted(c) \/ Plain(c) \/ CountedIn(c) \/ Heard(c) \/ StoredNow(c)
    \/ Answered(c) \/ Left(c)

LEMMA PhaseTable ==
    \A r : /\ PhaseOf("accept", r) = "accepted" /\ PhaseOf("post_handshake", r) = "handshake"
           /\ PhaseOf("handshake", r) = "handshake" /\ PhaseOf("post_read", r) = "reading"
           /\ PhaseOf("on_handshake", r) = IF r = "err" THEN "failed" ELSE "handshake"
           /\ PhaseOf("read", r) = "reading" /\ PhaseOf("wait", r) = "reading"
           /\ PhaseOf("on_wait", r) = "reading"
           /\ PhaseOf("on_read", r) = IF r = "err" THEN "reading" ELSE "holding"
           /\ PhaseOf("process", r) = "holding" /\ PhaseOf("reply", r) = "stored"
           /\ PhaseOf("write", r) = "sending" /\ PhaseOf("on_write", r) = "sending"
           /\ PhaseOf("shutdown", r) = "ending" /\ PhaseOf("close_socket", r) = "leaving"
           /\ PhaseOf("decrement", r) = "leaving"
  BY DEF PhaseOf

\* A step inside a phase.
LEMMA SamePhase ==
    ASSUME NEW c \in Clients, NEW p, PhaseMove(c, p, p)
    PROVE  \A d \in Clients : PhasesStay(d)
  BY DEF PhaseMove, PhaseOnly, PhasesStay

LEMMA StepKinds ==
    /\ SessionSteps \subseteq StageSteps /\ OpKinds \subseteq StageSteps /\ "accept" \in StageSteps
    /\ Results \subseteq StageResults /\ "pending" \in StageResults
  BY DEF SessionSteps, StageSteps, WorkerSteps, Kinds, OpKinds, StageResults

\* What the handlers of a session make of their client.
LEMMA SessionStages ==
    ASSUME IInv, IdInv, NEW w \in Workers, SessionStep(w)
    PROVE  Passing \/ \E c \in Clients : ServiceStep(c)
  <1>. PICK c, k, r : c = job[w].c /\ k = pc[w] /\ r = job[w].r
    OBVIOUS
  <1>1. k \in SessionSteps
    BY DEF SessionStep, Initiate, StartsOp, CountConnection, PostRead, PostShutdown, PostProcess,
           ProcessMessage, Respond, EraseId, CloseSocket, Decrement, At, SessionSteps
  <1>2. c \in Clients /\ idOf[c] \in Ids /\ r \in Results
    BY <1>1, SessionClient DEF Task
  <1>3. k \in StageSteps /\ r \in StageResults
    BY <1>1, <1>2, StepKinds
  <1>4. \A x, y : Engaged(c, x, y) <=> x = k /\ y = r
    BY <1>2, HolderStage, ZenonT(30)
  <1>5. ASSUME NEW l \in StageSteps, NEW s \in StageResults, Only(c, l, s), OthersStay(c)
        PROVE  PhaseMove(c, PhaseOf(k, r), PhaseOf(l, s))
    BY <1>2, <1>3, <1>4, <1>5, StagesThenPhases
  <1>6. ASSUME NEW l \in SessionSteps, Goto(w, l), UNCHANGED <<queue, ops>>
        PROVE  PhaseMove(c, PhaseOf(k, r), PhaseOf(l, r))
    BY <1>2, <1>3, <1>5, <1>6, GotoStage, StepKinds
  <1>7. ASSUME NEW l \in {"read", "shutdown", "process"}, NEW s \in Results,
               Post(ClientTask(l, c, s)), Return(w), ops' = ops
        PROVE  PhaseMove(c, PhaseOf(k, r), PhaseOf(l, s))
    <2>1. PICK t \in Task : t = ClientTask(l, c, s)
      BY <1>2, TaskTypes DEF Kinds
    <2>2. t.k = l /\ t.c = c /\ t.r = s
      BY <2>1 DEF ClientTask
    <2>3. Only(c, l, s) /\ OthersStay(c)
      BY <1>2, <1>7, <2>1, <2>2, PostStage DEF Return
    <2> QED
      BY <1>5, <2>3, StepKinds DEF SessionSteps
  <1>8. ASSUME NEW kind \in OpKinds, StartOp(w, kind)
        PROVE  PhaseMove(c, PhaseOf(k, r), PhaseOf(kind, "pending"))
    BY <1>2, <1>5, <1>8, StartStage, StepKinds
  <1>9. ASSUME NEW p, PhaseMove(c, p, p), UNCHANGED <<peer, sessionVars>>
        PROVE  Passing
    BY <1>2, <1>9, SamePhase DEF Passing
  <1>10. CASE Initiate(w)
    <2>1. UNCHANGED <<peer, sessionVars>>
      BY <1>10 DEF Initiate, idVars, sessionVars
    <2>2. PICK step \in DOMAIN StartsOp : k = step /\ StartOp(w, StartsOp[step])
      BY <1>10 DEF Initiate, At
    <2>3. \/ k = "handshake" /\ StartOp(w, "handshake")
          \/ k = "read" /\ StartOp(w, "wait")
          \/ k = "on_wait" /\ StartOp(w, "read")
      BY <2>2 DEF StartsOp
    <2>4. PhaseMove(c, "handshake", "handshake") \/ PhaseMove(c, "reading", "reading")
      BY <1>8, <2>3, PhaseTable DEF OpKinds
    <2> QED
      BY <1>9, <2>1, <2>4
  <1>11. CASE CountConnection(w)
    <2>1. PhaseMove(c, "handshake", "reading")
      BY <1>6, <1>11, PhaseTable DEF CountConnection, At, SessionSteps
    <2> QED
      BY <1>2, <1>11, <2>1 DEF CountConnection, ServiceStep, CountedIn, idVars
  <1>12. CASE PostRead(w)
    <2>1. UNCHANGED <<peer, sessionVars>>
      BY <1>12 DEF PostRead, idVars, sessionVars
    <2>2. PhaseMove(c, "reading", "reading") \/ PhaseMove(c, "stored", "reading")
      BY <1>7, <1>12, PhaseTable DEF PostRead, At, Results
    <2> QED
      BY <1>2, <1>9, <2>1, <2>2 DEF ServiceStep, Plain
  <1>13. CASE PostShutdown(w)
    <2>1. UNCHANGED <<peer, sessionVars>>
      BY <1>13 DEF PostShutdown, idVars, sessionVars
    <2>2. \/ PhaseMove(c, "sending", "ending") \/ PhaseMove(c, "failed", "ending")
          \/ PhaseMove(c, "reading", "ending")
      BY <1>7, <1>13, PhaseTable DEF PostShutdown, At, Results
    <2> QED
      BY <1>2, <2>1, <2>2 DEF ServiceStep, Plain
  <1>14. CASE PostProcess(w)
    <2>1. UNCHANGED <<peer, sessionVars>>
      BY <1>14 DEF PostProcess, idVars, sessionVars
    <2>2. PhaseMove(c, "holding", "holding")
      BY <1>2, <1>7, <1>14, PhaseTable DEF PostProcess, At
    <2> QED
      BY <1>9, <2>1, <2>2
  <1>15. CASE ProcessMessage(w)
    <2>1. PhaseMove(c, "holding", "stored")
      BY <1>6, <1>15, PhaseTable DEF ProcessMessage, At, SessionSteps
    <2> QED
      BY <1>2, <1>15, <2>1 DEF ProcessMessage, WithContent, ServiceStep, StoredNow, idVars
  <1>16. CASE Respond(w)
    <2>1. PhaseMove(c, "stored", "sending")
      BY <1>8, <1>16, PhaseTable DEF Respond, At, OpKinds
    <2> QED
      BY <1>2, <1>16, <2>1 DEF Respond, ServiceStep, Answered, idVars
  <1>17. CASE EraseId(w)
    <2>1. PhaseMove(c, "ending", "leaving")
      BY <1>6, <1>17, PhaseTable DEF EraseId, At, SessionSteps
    <2> QED
      BY <1>2, <1>17, <2>1 DEF EraseId, ServiceStep, Plain, sessionVars
  <1>18. CASE CloseSocket(w)
    <2>1. PhaseMove(c, "leaving", "leaving")
      BY <1>6, <1>18, PhaseTable DEF CloseSocket, At, SessionSteps
    <2>2. \A d \in Clients : \/ peer'[d] = peer[d]
                             \/ InPhase(d, "leaving") /\ peer'[d] = "closed"
      BY <1>2, <1>18, <2>1 DEF CloseSocket, PhaseMove, IInv, TypeOK
    <2> QED
      BY <1>2, <1>18, <2>1, <2>2, SamePhase DEF CloseSocket, Passing, sessionVars, idVars
  <1>19. CASE Decrement(w)
    <2>1. InPhase(c, "leaving")
      BY <1>3, <1>4, <1>19, PhaseTable DEF Decrement, At, InPhase, StageSteps, StageResults
    <2>2. (\A l, s : ~Engaged(c, l, s)') /\ OthersStay(c)
      BY <1>2, <1>19, ReturnStage DEF Decrement
    <2>3. (\A x : ~InPhase(c, x)') /\ \A d \in Clients \ {c} : PhasesStay(d)
      BY <2>2 DEF InPhase, PhasesStay, OthersStay
    <2> QED
      BY <1>2, <1>19, <2>1, <2>3 DEF Decrement, ServiceStep, Left
  <1> QED
    BY <1>10, <1>11, <1>12, <1>13, <1>14, <1>15, <1>16, <1>17, <1>18, <1>19 DEF SessionStep

LEMMA CompleteStages ==
    ASSUME IInv, IdInv, NEW w \in Workers, NEW op \in Op, Complete(w, op)
    PROVE  Passing \/ \E c \in Clients : ServiceStep(c)
  <1>. PICK c, k : c = op.c /\ k = op.k
    OBVIOUS
  <1>1. /\ op \in ops /\ c \in Clients /\ k \in OpKinds /\ ops' = ops \ {op}
        /\ pc[w] = "idle" /\ pc' = [pc EXCEPT ![w] = HandlerOf[k]]
        /\ UNCHANGED <<queue, peer, idOf, messages, reply, countVars>>
    BY DEF Complete, At, Op, idVars
  <1>2. PICK r \in Outcomes(op) :
            /\ job' = [job EXCEPT ![w] = ClientTask(HandlerOf[k], c, r)]
            /\ delivered' = IF k = "read" /\ r # "err"
                            THEN [delivered EXCEPT ![c] = @ + 1] ELSE delivered
    BY DEF Complete
  <1>3. /\ r \in Results
        /\ k = "handshake" /\ r = "err" => "handshake_error" \in Env
    BY <1>1 DEF Outcomes, Results, OpKinds
  <1>4. HandlerOf[k] \in {"on_handshake", "on_wait", "on_read", "on_write"}
    BY <1>1 DEF HandlerOf, OpKinds
  <1>5. PICK t \in Task : t = ClientTask(HandlerOf[k], c, r)
    BY <1>1, <1>3, <1>4, TaskTypes DEF Kinds
  <1>6. t.k = HandlerOf[k] /\ t.c = c /\ t.r = r
    BY <1>5 DEF ClientTask
  <1>7. Only(c, HandlerOf[k], r) /\ OthersStay(c)
    <2>1. job[w].c = NoClient
      BY <1>1 DEF IdInv, NoClientElsewhere, ClientSteps, SessionSteps
    <2> QED
      BY <1>1, <1>2, <1>5, <1>6, <2>1, CompleteStage
  <1>8. \A x, y : Engaged(c, x, y) <=> x = k /\ y = "pending"
    BY <1>1, OpStage
  <1>9. /\ k \in StageSteps /\ HandlerOf[k] \in StageSteps /\ r \in StageResults
        /\ "pending" \in StageResults
    BY <1>1, <1>3, <1>4, StepKinds DEF SessionSteps
  <1>10. PhaseMove(c, PhaseOf(k, "pending"), PhaseOf(HandlerOf[k], r))
    BY <1>1, <1>7, <1>8, <1>9, StagesThenPhases
  <1>11. ASSUME NEW p, PhaseMove(c, p, p), UNCHANGED <<peer, sessionVars>>
         PROVE  Passing
    BY <1>1, <1>11, SamePhase DEF Passing
  <1>12. CASE k = "handshake"
    <2>1. UNCHANGED <<peer, sessionVars>>
      BY <1>1, <1>2, <1>12 DEF sessionVars, dataVars
    <2>2. CASE r = "err"
      <3>1. PhaseMove(c, "handshake", "failed")
        BY <1>10, <1>12, <2>2, PhaseTable DEF HandlerOf
      <3> QED
        BY <1>1, <1>3, <1>12, <2>1, <2>2, <3>1 DEF ServiceStep, Plain
    <2>3. CASE r # "err"
      <3>1. PhaseMove(c, "handshake", "handshake")
        BY <1>10, <1>12, <2>3, PhaseTable DEF HandlerOf
      <3> QED
        BY <1>11, <2>1, <3>1
    <2> QED
      BY <2>2, <2>3
  <1>13. CASE k = "wait" \/ k = "write" \/ (k = "read" /\ r = "err")
    <2>1. UNCHANGED <<peer, sessionVars>>
      BY <1>1, <1>2, <1>13 DEF sessionVars, dataVars
    <2>2. PhaseMove(c, "reading", "reading") \/ PhaseMove(c, "sending", "sending")
      BY <1>10, <1>13, PhaseTable DEF HandlerOf
    <2> QED
      BY <1>11, <2>1, <2>2
  <1>14. CASE k = "read" /\ r # "err"
    <2>1. PhaseMove(c, "reading", "holding")
      BY <1>10, <1>14, PhaseTable DEF HandlerOf
    <2> QED
      BY <1>1, <1>2, <1>14, <2>1 DEF ServiceStep, Heard
  <1> QED
    BY <1>1, <1>12, <1>13, <1>14 DEF OpKinds

\* A step without a part in any session.
LEMMA QuietPasses ==
    ASSUME ops' = ops,
           \A i \in DOMAIN queue : i \in DOMAIN queue' /\ queue'[i] = queue[i],
           \A i \in DOMAIN queue' : i \in DOMAIN queue \/ queue'[i].c = NoClient,
           \A v \in Workers : \/ pc'[v] = pc[v] /\ job'[v] = job[v]
                              \/ job[v].c = NoClient /\ job'[v].c = NoClient,
           \A d \in Clients : \/ peer'[d] = peer[d]
                              \/ peer[d] = "new" /\ peer'[d] = "backlog"
                              \/ peer[d] = "backlog" /\ peer'[d] = "closed",
           UNCHANGED <<idOf, dataVars, countVars>>
    PROVE  Passing
  <1>1. \A d \in Clients : PhasesStay(d)
    BY QuietStages, AllPhasesStay
  <1> QED
    BY <1>1 DEF Passing, sessionVars

\* accept(2) hands a client out: its only stage is the accept's handler.
LEMMA AcceptStage ==
    ASSUME IInv, NEW w \in Workers, job[w].c = NoClient,
           NEW c \in Clients, c \in Backlog, ops' = ops, NEW t \in Task,
           t.k = "accept", t.c = c, t.r = "ok",
           \/ Post(t) /\ Return(w)
           \/ /\ pc' = [pc EXCEPT ![w] = "accept"] /\ job' = [job EXCEPT ![w] = t]
              /\ UNCHANGED queue
    PROVE  PhaseOnly(c, "accepted") /\ \A d \in Clients \ {c} : PhasesStay(d)
  <1>1. /\ queue \in Seq(Task) /\ pc \in [Workers -> WorkerSteps]
        /\ job \in [Workers -> Task] /\ NoClient \notin Clients
        /\ NoTask.c = NoClient
    BY TaskTypes, ConstantsAssumption DEF IInv, TypeOK
  <1>2. \A v \in Workers : v # w => pc'[v] = pc[v] /\ job'[v] = job[v]
    BY <1>1 DEF Return
  <1>3. ~Busy(c)
    BY DEF Backlog, IInv, CapturesValid, BusyIsAccepted
  <1>4. /\ ~InQueue(c) /\ \A v \in Workers : job[v].c # c
        /\ \A l : [k |-> l, c |-> c] \notin ops
    BY <1>3, NoOpOf DEF Busy, InWorker
  <1>5. Only(c, "accept", "ok") /\ OthersStay(c)
    <2>1. CASE Post(t) /\ Return(w)
      <3>1. /\ \A i \in DOMAIN queue : i \in DOMAIN queue' /\ queue'[i] = queue[i]
            /\ \A i \in DOMAIN queue' : i \in DOMAIN queue \/ queue'[i] = t
            /\ \E i \in DOMAIN queue' : queue'[i] = t
        BY <1>1, <2>1, PostedPlaces
      <3>2. job'[w].c = NoClient /\ \A v \in Workers : job'[v].c # c
        BY <1>1, <1>2, <1>4, <2>1 DEF Return
      <3>3. \A l, s : (\E i \in DOMAIN queue' : /\ queue'[i].c = c
                                               /\ queue'[i].k = l /\ queue'[i].r = s)
                      <=> l = "accept" /\ s = "ok"
        BY <1>4, <3>1 DEF InQueue
      <3>4. Only(c, "accept", "ok")
        BY <1>4, <3>2, <3>3 DEF Only, Engaged
      <3>5. OthersStay(c)
        BY <1>1, <1>2, <3>1, <3>2 DEF OthersStay, Engaged
      <3> QED
        BY <3>4, <3>5
    <2>2. CASE /\ pc' = [pc EXCEPT ![w] = "accept"] /\ job' = [job EXCEPT ![w] = t]
               /\ UNCHANGED queue
      <3>1. pc'[w] = "accept" /\ job'[w] = t
        BY <1>1, <2>2
      <3>2. \A l, s : (\E v \in Workers : job'[v].c = c /\ pc'[v] = l /\ job'[v].r = s)
                      <=> l = "accept" /\ s = "ok"
        BY <1>2, <1>4, <3>1
      <3>3. Only(c, "accept", "ok")
        BY <1>4, <2>2, <3>2, ZenonT(60) DEF Only, Engaged, InQueue
      <3>4. OthersStay(c)
        BY <1>1, <1>2, <2>2, <3>1 DEF OthersStay, Engaged
      <3> QED
        BY <3>3, <3>4
    <2> QED
      BY <2>1, <2>2
  <1>6. "accept" \in StageSteps /\ "ok" \in StageResults
    BY StepKinds DEF Results
  <1>7. PhaseOnly(c, "accepted")
    BY <1>5, <1>6, PhaseTable DEF PhaseOnly, InPhase, Only, StageSteps, StageResults
  <1>8. \A d \in Clients \ {c} : PhasesStay(d)
    BY <1>5 DEF PhasesStay, InPhase, OthersStay
  <1> QED
    BY <1>7, <1>8

LEMMA AsyncAcceptStages ==
    ASSUME IInv, IdInv, NEW w \in Workers, AsyncAccept(w)
    PROVE  Passing \/ \E c \in Clients : ServiceStep(c)
  <1>1. /\ job[w].c = NoClient /\ job[w].n \in Nat /\ Return(w) /\ queue \in Seq(Task)
        /\ UNCHANGED <<idOf, ops, dataVars, countVars>>
        /\ pc \in [Workers -> WorkerSteps] /\ job \in [Workers -> Task]
    BY DEF AsyncAccept, At, IdInv, NoClientElsewhere, ClientSteps, SessionSteps, IInv,
           TypeOK, Task, idVars
  <1>2. \A v \in Workers : \/ pc'[v] = pc[v] /\ job'[v] = job[v]
                           \/ job[v].c = NoClient /\ job'[v].c = NoClient
    BY <1>1, TaskTypes DEF Return
  <1>3. ASSUME Post(AcceptTask(job[w].n, NoClient)), UNCHANGED peer
        PROVE  Passing
    BY <1>1, <1>2, <1>3, PostNoClient, TaskTypes, QuietPasses
  <1>4. ASSUME NEW c \in Backlog, peer' = [peer EXCEPT ![c] = "open"],
               Post(AcceptTask(job[w].n, c))
        PROVE  c \in Clients /\ ServiceStep(c)
    <2>1. c \in Clients /\ peer[c] = "backlog"
      BY DEF Backlog
    <2>2. PICK t \in Task : t = AcceptTask(job[w].n, c)
      BY <1>1, <2>1, TaskTypes
    <2>3. t.k = "accept" /\ t.c = c /\ t.r = "ok"
      BY <2>2 DEF AcceptTask
    <2>4. PhaseOnly(c, "accepted") /\ \A d \in Clients \ {c} : PhasesStay(d)
      BY <1>1, <1>4, <2>1, <2>2, <2>3, AcceptStage
    <2> QED
      BY <1>1, <1>4, <2>1, <2>4 DEF ServiceStep, Taken, sessionVars
  <1>5. ASSUME UNCHANGED <<queue, peer>>
        PROVE  Passing
    BY <1>1, <1>2, <1>5, QuietPasses
  <1> QED
    BY <1>3, <1>4, <1>5 DEF AsyncAccept, Accepted

LEMMA AcceptorReadyStages ==
    ASSUME IInv, IdInv, NEW w \in Workers, AcceptorReady(w)
    PROVE  Passing \/ \E c \in Clients : ServiceStep(c)
  <1>1. /\ job[w].c = NoClient /\ UNCHANGED <<queue, idOf, ops, dataVars, countVars>>
        /\ pc \in [Workers -> WorkerSteps] /\ job \in [Workers -> Task]
    BY DEF AcceptorReady, At, IdInv, NoClientElsewhere, ClientSteps, SessionSteps, IInv,
           TypeOK, idVars
  <1>2. ASSUME Return(w), UNCHANGED peer
        PROVE  Passing
    BY <1>1, <1>2, QuietPasses, TaskTypes DEF Return
  <1>3. ASSUME acceptOps # <<>>, NEW c \in Clients \cup {NoClient}, Accepted(c),
               job' = [job EXCEPT ![w] = AcceptTask(Head(acceptOps), c)],
               pc' = [pc EXCEPT ![w] = "accept"]
        PROVE  Passing \/ \E d \in Clients : ServiceStep(d)
    <2>1. Head(acceptOps) \in Nat
      BY <1>3, HeadTailProperties DEF IInv, TypeOK
    <2>2. PICK t \in Task : t = AcceptTask(Head(acceptOps), c)
      BY <2>1, TaskTypes
    <2>3. t.k = "accept" /\ t.c = c /\ t.r = "ok"
      BY <2>2 DEF AcceptTask
    <2>4. CASE c \in Backlog /\ peer' = [peer EXCEPT ![c] = "open"]
      <3>1. c \in Clients /\ peer[c] = "backlog"
        BY <2>4 DEF Backlog
      <3>2. PhaseOnly(c, "accepted") /\ \A d \in Clients \ {c} : PhasesStay(d)
        BY <1>1, <1>3, <2>2, <2>3, <2>4, <3>1, AcceptStage
      <3> QED
        BY <1>1, <2>4, <3>1, <3>2 DEF ServiceStep, Taken, sessionVars
    <2>5. CASE c = NoClient /\ UNCHANGED peer
      BY <1>1, <1>3, <2>2, <2>3, <2>5, QuietPasses
    <2> QED
      BY <1>3, <2>4, <2>5 DEF Accepted
  <1> QED
    BY <1>2, <1>3 DEF AcceptorReady

LEMMA InsertIdStages ==
    ASSUME IInv, Listening, IdInv, NEW w \in Workers, InsertId(w)
    PROVE  \E c \in Clients : ServiceStep(c)
  <1>. PICK c, i, r : c = job[w].c /\ i = promises[job[w].n] /\ r = job[w].r
    OBVIOUS
  <1>1. /\ pc[w] = "accept" /\ c \in Clients /\ job[w].n \in DOMAIN promises
        /\ r \in Results /\ promises \in Seq(Ids \cup {NoId})
    BY DEF InsertId, At, IInv, TypeOK, Task, CapturesValid, WorkersFit, Fits, RoundSteps,
           IsRound
  <1>2. i \in Ids \ activeIds
    <2>1. i # NoId /\ i \notin activeIds
      BY <1>1 DEF InsertId, Listening, OneDrawnId
    <2> QED
      BY <1>1, <2>1, ElementOfSeq, LenProperties
  <1>3. \A x, y : Engaged(c, x, y) <=> x = "accept" /\ y = r
    <2>1. \A x, y : Engaged(c, x, y) <=> x = pc[w] /\ y = job[w].r
      BY <1>1, HolderStage
    <2> QED
      BY <1>1, <2>1
  <1>4. Only(c, "post_handshake", r) /\ OthersStay(c)
    <2>1. Goto(w, "post_handshake") /\ UNCHANGED <<queue, ops>>
      BY DEF InsertId
    <2> QED
      BY <1>1, <2>1, GotoStage
  <1>5. /\ "accept" \in StageSteps /\ "post_handshake" \in StageSteps /\ r \in StageResults
    BY <1>1, StepKinds DEF SessionSteps
  <1>6. PhaseMove(c, "accepted", "handshake")
    BY <1>1, <1>3, <1>4, <1>5, StagesThenPhases, PhaseTable
  <1> QED
    BY <1>1, <1>2, <1>6 DEF InsertId, ServiceStep, Admitted

LEMMA PostHandshakeStages ==
    ASSUME IInv, IdInv, NEW w \in Workers, PostHandshake(w)
    PROVE  Passing
  <1>. PICK c, r : c = job[w].c /\ r = job[w].r
    OBVIOUS
  <1>1. pc[w] = "post_handshake" /\ pc[w] \in SessionSteps
    BY DEF PostHandshake, At, SessionSteps
  <1>2. c \in Clients /\ job[w] \in Task /\ r \in Results
    BY <1>1, SessionClient DEF Task
  <1>3. \A x, y : Engaged(c, x, y) <=> x = "post_handshake" /\ y = r
    <2>1. \A x, y : Engaged(c, x, y) <=> x = pc[w] /\ y = job[w].r
      BY <1>1, <1>2, HolderStage
    <2> QED
      BY <1>1, <2>1
  <1>4. PICK t \in Task : t = ClientTask("handshake", c, "ok")
    BY <1>2, TaskTypes DEF Kinds, Results
  <1>5. t.k = "handshake" /\ t.c = c /\ t.r = "ok"
    BY <1>4 DEF ClientTask
  <1>6. Only(c, "handshake", "ok") /\ OthersStay(c)
    BY <1>2, <1>4, <1>5, PostStage DEF PostHandshake
  <1>7. /\ "post_handshake" \in StageSteps /\ "handshake" \in StageSteps
        /\ r \in StageResults /\ "ok" \in StageResults
    BY <1>2, StepKinds DEF SessionSteps, Results
  <1>8. PhaseMove(c, "handshake", "handshake")
    BY <1>2, <1>3, <1>6, <1>7, StagesThenPhases, PhaseTable
  <1> QED
    BY <1>2, <1>8, SamePhase DEF PostHandshake, Passing, sessionVars, idVars

LEMMA AcceptStages ==
    ASSUME IInv, Listening, IdInv, NEW w \in Workers, AcceptStep(w)
    PROVE  Passing \/ \E c \in Clients : ServiceStep(c)
  <1>1. /\ queue \in Seq(Task) /\ pc \in [Workers -> WorkerSteps]
        /\ job \in [Workers -> Task] /\ NoTask.c = NoClient
    BY TaskTypes DEF IInv, TypeOK
  <1>2. pc[w] \notin ClientSteps => job[w].c = NoClient
    BY DEF IdInv, NoClientElsewhere
  <1>3. CASE AcceptorThrows(w)
    BY <1>1, <1>3, QuietPasses DEF AcceptorThrows, Crash, ioVars, idVars
  <1>4. CASE Listen(w) \/ GetRandomSpareId(w) \/ AcceptFailed(w) \/ ArmTimer(w)
    <2>1. /\ job[w].c = NoClient /\ UNCHANGED <<queue, idOf, ops, peer, dataVars, countVars>>
          /\ \A v \in Workers : \/ pc'[v] = pc[v] /\ job'[v] = job[v]
                                \/ v = w /\ job'[v].c = NoClient
      BY <1>1, <1>2, <1>4
      DEF Listen, GetRandomSpareId, AcceptFailed, ArmTimer, At, Goto, Return, ClientSteps,
          SessionSteps, idVars
    <2> QED
      BY <1>1, <2>1, QuietPasses
  <1>5. CASE ConnectionTimeout(w)
    <2>1. acceptOps = <<>>
      BY <1>5, RunningAlone DEF ConnectionTimeout, At, ListenSteps, ListenKinds, IInv
    <2>2. queue' = queue
      BY <1>1, <1>5, <2>1, NothingToAbort DEF ConnectionTimeout
    <2>3. /\ job[w].c = NoClient /\ UNCHANGED <<job, idOf, ops, peer, dataVars, countVars>>
          /\ \A v \in Workers : v # w => pc'[v] = pc[v]
      BY <1>1, <1>2, <1>5 DEF ConnectionTimeout, At, Goto, ClientSteps, SessionSteps, idVars
    <2> QED
      BY <1>1, <2>2, <2>3, QuietPasses
  <1>6. CASE ListenFull(w) \/ PostListen(w) \/ PostIdTask(w)
    <2>1. LastRound + 1 \in Nat
      BY LenProperties DEF LastRound, IInv, TypeOK
    <2>2. PICK t \in Task : t.c = NoClient /\ Post(t)
      BY <1>6, <2>1, TaskTypes DEF ListenFull, PostListen, PostIdTask, LastRound, Kinds
    <2>3. /\ job[w].c = NoClient /\ UNCHANGED <<idOf, ops, peer, dataVars, countVars>>
          /\ \A v \in Workers : \/ pc'[v] = pc[v] /\ job'[v] = job[v]
                                \/ v = w /\ job'[v].c = NoClient
      BY <1>1, <1>2, <1>6, <2>1, TaskTypes
      DEF ListenFull, PostListen, PostIdTask, At, Return, ClientSteps, SessionSteps,
          LastRound, idVars
    <2> QED
      BY <1>1, <2>2, <2>3, PostNoClient, QuietPasses
  <1> QED
    BY <1>3, <1>4, <1>5, <1>6, AsyncAcceptStages, AcceptorReadyStages, InsertIdStages,
       PostHandshakeStages DEF AcceptStep

LEMMA OwnerStages ==
    ASSUME IInv, IdInv, OwnerStep
    PROVE  Passing
  <1>1. queue \in Seq(Task)
    BY DEF IInv, TypeOK
  <1>2. CASE \/ Start \/ ConfigureSsl \/ ConfigureAcceptor \/ Shutdown \/ ResetGuard
             \/ StopContext \/ Join
    BY <1>1, <1>2, QuietPasses
    DEF Start, ConfigureSsl, ConfigureAcceptor, Shutdown, ResetGuard, StopContext, Join,
        ioVars, idVars
  <1>3. CASE BindThrows \/ CancelThrows
    BY <1>3, QuietPasses DEF BindThrows, CancelThrows, Crash, ioVars, idVars
  <1>4. CASE PostWorkers
    <2>1. \A v \in Workers : pc[v] = "new" => job[v].c = NoClient
      BY DEF IdInv, NoClientElsewhere, ClientSteps, SessionSteps
    <2> QED
      BY <1>1, <1>4, <2>1, QuietPasses DEF PostWorkers, idVars
  <1>5. CASE PostFirstListen
    BY <1>1, <1>5, PostNoClient, TaskTypes, QuietPasses DEF PostFirstListen, Kinds, idVars
  <1>6. CASE CancelAcceptor \/ CloseAcceptor
    <2>1. /\ queue' = queue \o Aborted
          /\ UNCHANGED <<pc, job, ops, idOf, dataVars, countVars>>
      BY <1>6 DEF CancelAcceptor, CloseAcceptor, idVars
    <2>2. \A d \in Clients : \/ peer'[d] = peer[d]
                             \/ peer[d] = "backlog" /\ peer'[d] = "closed"
      BY <1>6 DEF CancelAcceptor, CloseAcceptor, Backlog
    <2>3. /\ \A i \in DOMAIN queue : i \in DOMAIN queue' /\ queue'[i] = queue[i]
          /\ \A i \in DOMAIN queue' : i \in DOMAIN queue \/ queue'[i].c = NoClient
      <3>1. Aborted \in Seq(Task) /\ \A i \in DOMAIN Aborted : Aborted[i].c = NoClient
        <4>1. acceptOps \in Seq(Nat)
          BY DEF IInv, TypeOK
        <4>2. \A i \in DOMAIN acceptOps :
                  /\ AcceptTask(acceptOps[i], NoClient) \in Task
                  /\ AcceptTask(acceptOps[i], NoClient).c = NoClient
          BY <4>1, TaskTypes
        <4> QED
          BY <4>1, <4>2, LenProperties DEF Aborted
      <3> QED
        BY <1>1, <2>1, <3>1, ConcatProperties, LenProperties
    <2> QED
      BY <2>1, <2>2, <2>3, QuietPasses
  <1> QED
    BY <1>2, <1>3, <1>4, <1>5, <1>6 DEF OwnerStep

\* Every step of the server takes at most one client one phase further.
LEMMA StepStages ==
    ASSUME IInv, OwnerInv, ListenInv, IdInv, [Next]_vars
    PROVE  Passing \/ \E c \in Clients : ServiceStep(c)
  <1>1. queue \in Seq(Task) /\ starts \in Nat
    BY DEF IInv, TypeOK
  <1>2. ASSUME NEW w \in Workers, EnterLoop(w) \/ RunReturns(w)
        PROVE  Passing
    <2>1. pc \in [Workers -> WorkerSteps] /\ job[w].c = NoClient
      BY <1>2 DEF EnterLoop, RunReturns, At, IdInv, NoClientElsewhere, ClientSteps,
                  SessionSteps, IInv, TypeOK
    <2> QED
      BY <1>1, <1>2, <2>1, QuietPasses DEF EnterLoop, RunReturns, Goto, idVars
  <1>3. ASSUME NEW w \in Workers, AcceptStep(w)
        PROVE  Passing \/ \E c \in Clients : ServiceStep(c)
    <2>1. pc[w] # "exited"
      BY <1>3 DEF AcceptStep, Listen, AcceptorThrows, ListenFull, PostIdTask, AsyncAccept,
                  AcceptorReady, GetRandomSpareId, AcceptFailed, InsertId, PostHandshake,
                  PostListen, ConnectionTimeout, ArmTimer, At
    <2>2. Listening
      BY <1>1, <2>1 DEF OwnerInv, AllExited, ListenInv
    <2> QED
      BY <1>3, <2>2, AcceptStages
  <1>4. CASE CollectAcceptor \/ CollectTimer
    BY <1>1, <1>4, PostNoClient, TaskTypes, QuietPasses
    DEF CollectAcceptor, CollectTimer, Kinds, idVars
  <1>5. ASSUME NEW c \in Clients, Connect(c)
        PROVE  Passing
    <2>1. \A d \in Clients : \/ peer'[d] = peer[d]
                             \/ peer[d] = "new" /\ peer'[d] = "backlog"
      BY <1>5 DEF Connect, IInv, TypeOK
    <2> QED
      BY <1>1, <1>5, <2>1, QuietPasses DEF Connect, ioVars, idVars
  <1>6. CASE UNCHANGED vars
    BY <1>1, <1>6, QuietPasses DEF vars, ioVars, idVars
  <1>7. ASSUME NEW w \in Workers, Dequeue(w)
        PROVE  Passing
    <2>1. \A d \in Clients : PhasesStay(d)
      BY <1>7, DequeueStage, AllPhasesStay
    <2> QED
      BY <1>7, <2>1 DEF Dequeue, Passing, sessionVars, idVars
  <1> QED
    BY <1>2, <1>3, <1>4, <1>5, <1>6, <1>7, OwnerStages, CompleteStages, SessionStages
    DEF Next, WorkerStep

-----------------------------------------------------------------------------
\* The conclusion of PhaseFacts, to be had of the next state as well.
PhaseSays(c) ==
    /\ Live(c) <=> idOf[c] # NoId /\ \E p \in Phases \ {"leaving"} : InPhase(c, p)
    /\ c \in Unstored <=> InPhase(c, "holding")
    /\ \A p, q : InPhase(c, p) /\ InPhase(c, q) => p = q
    /\ \A p : InPhase(c, p) => p \in Phases
    /\ \A p \in Phases \ {"accepted"} : InPhase(c, p) => idOf[c] \in Ids
    /\ InPhase(c, "accepted") => idOf[c] = NoId
    /\ \A p : InPhase(c, p) => peer[c] \in {"open", "closed"}

PhasesSay == \A c \in Clients : PhaseSays(c)

LEMMA PhaseFactsNow == IInv /\ IdInv => PhasesSay
  BY PhaseFacts DEF PhasesSay, PhaseSays

LEMMA PhaseFactsNext == IInv' /\ IdInv' => PhasesSay'
  BY PhaseFactsNow, PTL

\* DataInv, client by client.
DataOf(c) ==
    /\ Outside(c) => delivered[c] = 0 /\ reply[c] = <<>>
    /\ InPhase(c, "accepted") => peer[c] = "open"
    /\ Live(c) => EndsWith(messages[idOf[c]], StoredOf(c), c)
    /\ InPhase(c, "holding") => delivered[c] > 0
    /\ InPhase(c, "stored") \/ InPhase(c, "sending") => messages[idOf[c]] # <<>>
    /\ \A p \in Phases : reply[c] # <<>> /\ InPhase(c, p) => p \in {"sending", "ending", "leaving"}
    /\ reply[c] # <<>> => EndsWith(reply[c], delivered[c], c)

DataOfAll == \A c \in Clients : DataOf(c)

LEMMA DataByClient == DataInv <=> DataOfAll
  <1>1. DataInv => DataOfAll
    BY DEF DataInv, NothingBefore, EntryEnds, HoldingWasRead, EntryThere, NothingAfter,
           EchoComplete, EndsWith, DataOf, DataOfAll
  <1>2. DataOfAll => DataInv
    BY DEF DataInv, NothingBefore, EntryEnds, HoldingWasRead, EntryThere, NothingAfter,
           EchoComplete, EndsWith, DataOf, DataOfAll
  <1> QED
    BY <1>1, <1>2

LEMMA DataByClientNext == DataInv' <=> DataOfAll'
  BY DataByClient, PTL

\* A client that the step does not concern.
LEMMA DataFrame ==
    ASSUME NEW d \in Clients, PhaseSays(d), PhaseSays(d)', DataOf(d), PhasesStay(d),
           delivered'[d] = delivered[d], reply'[d] = reply[d], idOf'[d] = idOf[d],
           Live(d) => messages'[idOf[d]] = messages[idOf[d]],
           peer'[d] \in {"new", "backlog"} => peer[d] \in {"new", "backlog"},
           InPhase(d, "accepted") => peer'[d] = peer[d]
    PROVE  DataOf(d)'
  <1>1. \A p : InPhase(d, p)' <=> InPhase(d, p)
    BY DEF PhasesStay
  <1>2. Live(d)' <=> Live(d)
    BY <1>1 DEF PhaseSays
  <1>3. StoredOf(d)' = StoredOf(d) /\ (Outside(d)' => Outside(d))
    BY <1>1 DEF StoredOf, Outside
  <1>4. InPhase(d, "stored") \/ InPhase(d, "sending") => Live(d)
    BY ConstantsAssumption DEF PhaseSays, Phases
  <1> QED
    BY <1>1, <1>2, <1>3, <1>4 DEF DataOf

\* The client that the step does concern, at its new phase.
LEMMA DataAtPhase ==
    ASSUME NEW c \in Clients, NEW q \in Phases, PhaseOnly(c, q),
           q = "accepted" => delivered'[c] = 0 /\ reply'[c] = <<>> /\ peer'[c] = "open",
           q # "accepted" => peer'[c] \in {"open", "closed"},
           Live(c)' => EndsWith(messages'[idOf'[c]],
                                IF q = "holding" THEN delivered'[c] - 1 ELSE delivered'[c], c),
           q = "holding" => delivered'[c] > 0,
           q \in {"stored", "sending"} => messages'[idOf'[c]] # <<>>,
           reply'[c] # <<>> => q \in {"sending", "ending", "leaving"},
           reply'[c] # <<>> => EndsWith(reply'[c], delivered'[c], c)
    PROVE  DataOf(c)'
  <1>1. \A p : InPhase(c, p)' <=> p = q
    BY DEF PhaseOnly
  <1>2. Outside(c)' <=> peer'[c] \in {"new", "backlog"} \/ q = "accepted"
    BY <1>1 DEF Outside
  <1>3. StoredOf(c)' = IF q = "holding" THEN delivered'[c] - 1 ELSE delivered'[c]
    BY <1>1 DEF StoredOf
  <1> QED
    BY <1>1, <1>2, <1>3 DEF DataOf

\* How an entry ends.
LEMMA EntryGrows ==
    ASSUME NEW c \in Clients, NEW s \in Seq(Clients)
    PROVE  /\ EndsWith(s, 0, c)
           /\ \A n \in Nat : EndsWith(s, n, c) => EndsWith(Append(s, c), n + 1, c)
           /\ Append(s, c) # <<>>
  <1>1. EndsWith(s, 0, c)
    BY LenProperties DEF EndsWith
  <1>2. ASSUME NEW n \in Nat, EndsWith(s, n, c)
        PROVE  EndsWith(Append(s, c), n + 1, c)
    <2>1. /\ Len(s) \in Nat /\ Len(Append(s, c)) = Len(s) + 1
          /\ \A i \in 1 .. Len(s) : Append(s, c)[i] = s[i]
          /\ Append(s, c)[Len(s) + 1] = c
      BY AppendProperties, LenProperties
    <2>2. n <= Len(s) /\ \A i \in Len(s) - n + 1 .. Len(s) : s[i] = c
      BY <1>2 DEF EndsWith
    <2>3. ASSUME NEW i \in Len(s) + 1 - (n + 1) + 1 .. Len(s) + 1
          PROVE  Append(s, c)[i] = c
      <3>1. CASE i = Len(s) + 1
        BY <2>1, <3>1
      <3>2. CASE i # Len(s) + 1
        <4>1. i \in Len(s) - n + 1 .. Len(s) /\ i \in 1 .. Len(s)
          BY <2>1, <2>2, <2>3, <3>2
        <4> QED
          BY <2>1, <2>2, <4>1
      <3> QED
        BY <3>1, <3>2
    <2>4. n + 1 <= Len(s) + 1
      BY <2>1, <2>2
    <2> QED
      BY <2>1, <2>3, <2>4 DEF EndsWith
  <1>3. Append(s, c) # <<>>
    BY AppendProperties
  <1> QED
    BY <1>1, <1>2, <1>3

\* One client's move, as seen by the client and by the others.
LEMMA DataOnMove ==
    ASSUME PhasesSay, PhasesSay', DataOfAll, NEW c \in Clients, DataOf(c)',
           \A d \in Clients \ {c} :
               /\ PhasesStay(d)
               /\ delivered'[d] = delivered[d] /\ reply'[d] = reply[d]
               /\ idOf'[d] = idOf[d] /\ peer'[d] = peer[d]
               /\ Live(d) => messages'[idOf[d]] = messages[idOf[d]]
    PROVE  DataOfAll'
  <1>1. ASSUME NEW d \in Clients, d # c
        PROVE  DataOf(d)'
    <2>1. PhaseSays(d) /\ PhaseSays(d)' /\ DataOf(d)
      BY DEF PhasesSay, DataOfAll
    <2> QED
      BY <1>1, <2>1, DataFrame
  <1> QED
    BY <1>1 DEF DataOfAll

LEMMA PassingKeepsData ==
    ASSUME PhasesSay, PhasesSay', DataOfAll, Passing
    PROVE  DataOfAll'
  <1>1. ASSUME NEW d \in Clients
        PROVE  DataOf(d)'
    <2>1. PhaseSays(d) /\ PhaseSays(d)' /\ DataOf(d)
      BY DEF PhasesSay, DataOfAll
    <2>2. PhasesStay(d) /\ UNCHANGED <<idOf, messages, delivered, reply>>
      BY DEF Passing, sessionVars, dataVars
    <2>3. /\ peer'[d] \in {"new", "backlog"} => peer[d] \in {"new", "backlog"}
          /\ InPhase(d, "accepted") => peer'[d] = peer[d]
      BY <2>1 DEF Passing, PhaseSays, DataOf
    <2> QED
      BY <2>1, <2>2, <2>3, DataFrame
  <1> QED
    BY <1>1 DEF DataOfAll

\* The moves that leave entries, reads and replies alone.
LEMMA ControlKeepsData ==
    ASSUME IInv, IdInv, PhasesSay, PhasesSay', DataOfAll, NEW c \in Clients,
           Taken(c) \/ Admitted(c) \/ Plain(c) \/ CountedIn(c) \/ Left(c)
    PROVE  DataOfAll'
  <1>1. /\ DataOf(c) /\ PhaseSays(c) /\ PhaseSays(c)' /\ NoId \notin Ids
        /\ idOf \in [Clients -> Ids \cup {NoId}] /\ messages \in [Ids -> Seq(Clients)]
        /\ peer \in [Clients -> {"new", "backlog", "open", "closed"}]
    BY ConstantsAssumption DEF DataOfAll, PhasesSay, IInv, TypeOK
  <1>2. UNCHANGED <<messages, delivered, reply>>
    BY DEF Taken, Admitted, Plain, CountedIn, Left, sessionVars, dataVars
  <1>3. \A d \in Clients \ {c} :
            PhasesStay(d) /\ idOf'[d] = idOf[d] /\ peer'[d] = peer[d]
    BY <1>1 DEF Taken, Admitted, Plain, CountedIn, Left, PhaseMove, sessionVars
  <1>4. ASSUME NEW p, NEW q, PhaseMove(c, p, q), UNCHANGED <<idOf, peer>>,
               <<p, q>> \in {<<"handshake", "failed">>, <<"failed", "ending">>,
                             <<"reading", "ending">>, <<"stored", "reading">>,
                             <<"sending", "ending">>, <<"ending", "leaving">>,
                             <<"handshake", "reading">>}
        PROVE  DataOf(c)'
    <2>1. /\ InPhase(c, p) /\ PhaseOnly(c, q) /\ p \in Phases /\ q \in Phases
          /\ p \notin {"accepted", "holding", "leaving"}
          /\ q \notin {"accepted", "holding", "stored", "sending"}
          /\ p \in {"sending", "ending", "leaving"} => q \in {"ending", "leaving"}
      BY <1>4 DEF PhaseMove, Phases
    <2>2. Live(c) /\ ~InPhase(c, "holding") /\ peer[c] \in {"open", "closed"}
      BY <1>1, <2>1 DEF PhaseSays
    <2>3. EndsWith(messages[idOf[c]], delivered[c], c)
      BY <1>1, <2>2 DEF DataOf, StoredOf
    <2>4. reply[c] # <<>> => q \in {"sending", "ending", "leaving"}
      BY <1>1, <2>1 DEF DataOf
    <2>5. reply[c] # <<>> => EndsWith(reply[c], delivered[c], c)
      BY <1>1 DEF DataOf
    <2> QED
      BY <1>2, <1>4, <2>1, <2>2, <2>3, <2>4, <2>5, DataAtPhase
  <1>5. CASE Taken(c)
    <2>1. delivered[c] = 0 /\ reply[c] = <<>> /\ idOf[c] = NoId
      BY <1>1, <1>5 DEF Taken, DataOf, Outside, IdInv, IdComesWithAccept
    <2>2. idOf' = idOf /\ peer'[c] = "open" /\ PhaseOnly(c, "accepted")
      BY <1>1, <1>5 DEF Taken, sessionVars
    <2>3. ~Live(c)'
      BY <1>1, <2>1, <2>2 DEF PhaseSays
    <2>4. DataOf(c)'
      BY <1>2, <2>1, <2>2, <2>3, DataAtPhase DEF Phases
    <2> QED
      BY <1>2, <1>3, <2>4, DataOnMove
  <1>6. CASE Admitted(c)
    <2>1. /\ InPhase(c, "accepted") /\ PhaseOnly(c, "handshake") /\ peer' = peer
      BY <1>6 DEF Admitted, PhaseMove
    <2>2. delivered[c] = 0 /\ reply[c] = <<>> /\ peer[c] = "open"
      BY <1>1, <2>1 DEF DataOf, Outside
    <2>3. idOf'[c] \in Ids
      BY <1>1, <1>6 DEF Admitted
    <2>4. EndsWith(messages[idOf'[c]], delivered[c], c)
      BY <1>1, <2>2, <2>3, EntryGrows
    <2>5. DataOf(c)'
      BY <1>2, <2>1, <2>2, <2>4, DataAtPhase DEF Phases
    <2> QED
      BY <1>2, <1>3, <2>5, DataOnMove
  <1>7. CASE Plain(c)
    <2>1. DataOf(c)'
      BY <1>4, <1>7 DEF Plain, sessionVars
    <2> QED
      BY <1>2, <1>3, <2>1, DataOnMove
  <1>8. CASE CountedIn(c)
    <2>1. DataOf(c)'
      BY <1>4, <1>8 DEF CountedIn
    <2> QED
      BY <1>2, <1>3, <2>1, DataOnMove
  <1>9. CASE Left(c)
    <2>1. (\A x : ~InPhase(c, x)') /\ peer'[c] = "closed"
      BY <1>1, <1>9 DEF Left
    <2>2. ~Live(c)' /\ ~Outside(c)'
      BY <1>1, <2>1 DEF PhaseSays, Outside
    <2>3. reply[c] # <<>> => EndsWith(reply[c], delivered[c], c)
      BY <1>1 DEF DataOf
    <2>4. DataOf(c)'
      BY <1>2, <2>1, <2>2, <2>3 DEF DataOf
    <2> QED
      BY <1>2, <1>3, <2>4, DataOnMove
  <1> QED
    BY <1>5, <1>6, <1>7, <1>8, <1>9

LEMMA HeardKeepsData ==
    ASSUME IInv, IdInv, PhasesSay, PhasesSay', DataOfAll, NEW c \in Clients, Heard(c)
    PROVE  DataOfAll'
  <1>1. /\ DataOf(c) /\ PhaseSays(c) /\ NoId \notin Ids
        /\ InPhase(c, "reading") /\ PhaseOnly(c, "holding")
        /\ delivered \in [Clients -> Nat] /\ delivered' = [delivered EXCEPT ![c] = @ + 1]
        /\ UNCHANGED <<peer, idOf, messages, reply>>
    BY ConstantsAssumption DEF DataOfAll, PhasesSay, IInv, TypeOK, Heard, PhaseMove
  <1>2. /\ delivered'[c] = delivered[c] + 1 /\ delivered[c] \in Nat
        /\ \A d \in Clients \ {c} : PhasesStay(d) /\ delivered'[d] = delivered[d]
    BY <1>1 DEF Heard, PhaseMove
  <1>3. Live(c) /\ ~InPhase(c, "holding") /\ peer[c] \in {"open", "closed"}
    BY <1>1 DEF PhaseSays, Phases
  <1>4. EndsWith(messages[idOf[c]], delivered[c], c) /\ reply[c] = <<>>
    BY <1>1, <1>3 DEF DataOf, StoredOf, Phases
  <1>5. delivered'[c] - 1 = delivered[c] /\ delivered'[c] > 0
    BY <1>2
  <1>6. DataOf(c)'
    BY <1>1, <1>3, <1>4, <1>5, DataAtPhase DEF Phases
  <1> QED
    BY <1>1, <1>2, <1>6, DataOnMove

LEMMA StoredKeepsData ==
    ASSUME IInv, IdInv, PhasesSay, PhasesSay', DataOfAll, NEW c \in Clients, StoredNow(c)
    PROVE  DataOfAll'
  <1>1. /\ DataOf(c) /\ PhaseSays(c) /\ NoId \notin Ids
        /\ InPhase(c, "holding") /\ PhaseOnly(c, "stored")
        /\ delivered \in [Clients -> Nat] /\ messages \in [Ids -> Seq(Clients)]
        /\ messages' = [messages EXCEPT ![idOf[c]] = Append(@, c)]
        /\ UNCHANGED <<peer, idOf, delivered, reply>>
    BY ConstantsAssumption DEF DataOfAll, PhasesSay, IInv, TypeOK, StoredNow, PhaseMove
  <1>2. Live(c) /\ idOf[c] \in Ids /\ peer[c] \in {"open", "closed"}
    BY <1>1 DEF PhaseSays, Phases
  <1>3. messages'[idOf[c]] = Append(messages[idOf[c]], c) /\ messages[idOf[c]] \in Seq(Clients)
    BY <1>1, <1>2
  <1>4. ASSUME NEW d \in Clients, d # c
        PROVE  /\ PhasesStay(d)
               /\ Live(d) => messages'[idOf[d]] = messages[idOf[d]]
    <2>1. Live(d) => idOf[d] # idOf[c] /\ idOf[d] \in Ids
      BY <1>2, <1>4 DEF IdInv, UniqueIds, Live, IInv, TypeOK
    <2> QED
      BY <1>1, <1>4, <2>1 DEF StoredNow, PhaseMove
  <1>5. /\ EndsWith(messages[idOf[c]], delivered[c] - 1, c) /\ delivered[c] > 0
        /\ delivered[c] \in Nat /\ reply[c] = <<>>
    BY <1>1, <1>2 DEF DataOf, StoredOf, Phases
  <1>6. delivered[c] - 1 \in Nat /\ delivered[c] - 1 + 1 = delivered[c]
    BY <1>5
  <1>7. EndsWith(messages'[idOf[c]], delivered[c], c) /\ messages'[idOf[c]] # <<>>
    BY <1>3, <1>5, <1>6, EntryGrows
  <1>8. DataOf(c)'
    BY <1>1, <1>2, <1>5, <1>7, DataAtPhase DEF Phases
  <1> QED
    BY <1>1, <1>4, <1>8, DataOnMove

LEMMA AnsweredKeepsData ==
    ASSUME IInv, IdInv, PhasesSay, PhasesSay', DataOfAll, NEW c \in Clients, Answered(c)
    PROVE  DataOfAll'
  <1>1. /\ DataOf(c) /\ PhaseSays(c) /\ NoId \notin Ids
        /\ InPhase(c, "stored") /\ PhaseOnly(c, "sending")
        /\ reply \in [Clients -> Seq(Clients)]
        /\ reply' = [reply EXCEPT ![c] = messages[idOf[c]]]
        /\ UNCHANGED <<peer, idOf, delivered, messages>>
    BY ConstantsAssumption DEF DataOfAll, PhasesSay, IInv, TypeOK, Answered, PhaseMove
  <1>2. /\ reply'[c] = messages[idOf[c]]
        /\ \A d \in Clients \ {c} : PhasesStay(d) /\ reply'[d] = reply[d]
    BY <1>1 DEF Answered, PhaseMove
  <1>3. Live(c) /\ ~InPhase(c, "holding") /\ peer[c] \in {"open", "closed"}
    BY <1>1 DEF PhaseSays, Phases
  <1>4. EndsWith(messages[idOf[c]], delivered[c], c) /\ messages[idOf[c]] # <<>>
    BY <1>1, <1>3 DEF DataOf, StoredOf
  <1>5. DataOf(c)'
    BY <1>1, <1>2, <1>3, <1>4, DataAtPhase DEF Phases
  <1> QED
    BY <1>1, <1>2, <1>5, DataOnMove

LEMMA DataInvKept ==
    ASSUME IInv, OwnerInv, ListenInv, IdInv, DataInv, [Next]_vars, IInv', IdInv'
    PROVE  DataInv'
  <1>1. PhasesSay /\ PhasesSay' /\ DataOfAll
    BY PhaseFactsNow, PhaseFactsNext, DataByClient
  <1>2. Passing \/ \E c \in Clients : ServiceStep(c)
    BY StepStages
  <1>3. DataOfAll'
    BY <1>1, <1>2, PassingKeepsData, ControlKeepsData, HeardKeepsData, StoredKeepsData,
       AnsweredKeepsData DEF ServiceStep
  <1> QED
    BY <1>3, DataByClientNext

\* What a client's entry and reply hold at every point of its session is an invariant
\* of the server.
THEOREM DataInvariant == Spec => []DataInv
  <1>1. Init => DataInv
    <2>1. ASSUME Init, NEW c \in Clients
          PROVE  /\ delivered[c] = 0 /\ reply[c] = <<>> /\ idOf[c] = NoId
                 /\ \A p : ~InPhase(c, p)
      <3>1. /\ queue = <<>> /\ ops = {} /\ \A w \in Workers : job[w].c = NoClient
            /\ delivered[c] = 0 /\ reply[c] = <<>> /\ idOf[c] = NoId /\ NoClient \notin Clients
        BY <2>1, TaskTypes, ConstantsAssumption DEF Init
      <3> QED
        BY <3>1 DEF InPhase, Engaged
    <2>2. ASSUME Init, NEW c \in Clients
          PROVE  DataOf(c)
      BY <2>1, <2>2 DEF DataOf, Live
    <2> QED
      BY <2>2, DataByClient DEF DataOfAll
  <1>2. /\ IInv /\ OwnerInv /\ ListenInv /\ IdInv /\ DataInv /\ [Next]_vars /\ IInv' /\ IdInv'
        => DataInv'
    BY DataInvKept
  <1> QED
    BY <1>1, <1>2, InductiveInvariant, OwnerInvariant, ListenInvariant, IdInvariant, PTL
    DEF Spec

\* The reply ends with everything that was read from the client, in order, whatever
\* else the workers do between its reads.
THEOREM ReplyComplete == Spec => []EchoComplete
  <1>1. DataInv => EchoComplete
    BY DEF DataInv
  <1> QED
    BY <1>1, DataInvariant, PTL

\* The client's phase at the steps that use its entry without the exclusive lock.
LEMMA EntryUsed ==
    ASSUME IInv, NEW w \in Workers, pc[w] \in {"reply", "on_write"}
    PROVE  /\ job[w].c \in Clients
           /\ pc[w] = "reply" => InPhase(job[w].c, "stored")
           /\ pc[w] = "on_write" => InPhase(job[w].c, "sending")
  <1>1. job[w].c \in Clients /\ job[w] \in Task /\ pc[w] \in SessionSteps
    BY SessionClient DEF SessionSteps
  <1>2. Engaged(job[w].c, pc[w], job[w].r)
    BY DEF Engaged
  <1>3. pc[w] \in StageSteps /\ job[w].r \in StageResults
    BY <1>1, StepKinds DEF Task
  <1> QED
    BY <1>1, <1>2, <1>3, PhaseTable DEF InPhase, StageSteps, StageResults

\* m_received_messages[client_id] under the shared lock never inserts an entry: the
\* handler that stored the client's first message came before.
THEOREM SharedLockReads == Spec => []NoInsertUnderSharedLock
  <1>1. IInv /\ DataInv => NoInsertUnderSharedLock
    BY EntryUsed DEF DataInv, EntryThere, NoInsertUnderSharedLock
  <1> QED
    BY <1>1, InductiveInvariant, DataInvariant, PTL

\* A client that is being written to is in the phase "sending".
LEMMA WritingPhase ==
    ASSUME IInv, NEW c \in Clients, Writing(c)
    PROVE  InPhase(c, "sending")
  <1>1. "write" \in StageSteps /\ "pending" \in StageResults
    BY StepKinds DEF SessionSteps, OpKinds
  <1>2. CASE [k |-> "write", c |-> c] \in ops
    <2>1. Engaged(c, "write", "pending")
      BY <1>2 DEF Engaged
    <2> QED
      BY <1>1, <2>1, PhaseTable DEF InPhase, StageSteps, StageResults
  <1>3. ASSUME NEW w \in Workers, pc[w] = "on_write", job[w].c = c
        PROVE  InPhase(c, "sending")
    BY <1>3, EntryUsed
  <1> QED
    BY <1>2, <1>3 DEF Writing

\* Nobody changes a client's entry from async_write to the end of on_write, which
\* read it without a lock.
THEOREM BufferNeverChanges == Spec => BufferStable
  <1>1. ASSUME IInv, OwnerInv, ListenInv, IdInv, [Next]_vars
        PROVE  [\A c \in Clients : Writing(c) /\ idOf[c] # NoId =>
                   messages'[idOf[c]] = messages[idOf[c]]]_vars
    <2>1. SUFFICES ASSUME NEW c \in Clients, Writing(c), idOf[c] # NoId
                   PROVE  messages'[idOf[c]] = messages[idOf[c]]
      OBVIOUS
    <2>2. InPhase(c, "sending") /\ PhasesSay
      BY <1>1, <2>1, WritingPhase, PhaseFactsNow
    <2>3. Live(c) /\ \A p : InPhase(c, p) => p = "sending"
      BY <2>1, <2>2 DEF PhasesSay, PhaseSays, Phases
    <2>4. CASE messages' = messages
      BY <2>4
    <2>5. ASSUME NEW d \in Clients, StoredNow(d)
          PROVE  messages'[idOf[c]] = messages[idOf[c]]
      <3>1. InPhase(d, "holding") /\ d # c
        BY <2>3, <2>5 DEF StoredNow, PhaseMove
      <3>2. Live(d)
        BY <2>2, <3>1, ConstantsAssumption DEF PhasesSay, PhaseSays, Phases
      <3>3. idOf[c] # idOf[d]
        BY <1>1, <2>3, <3>1, <3>2 DEF IdInv, UniqueIds
      <3>4. messages \in [Ids -> Seq(Clients)] /\ idOf[c] \in Ids
        BY <1>1, <2>1 DEF IInv, TypeOK
      <3> QED
        BY <2>5, <3>3, <3>4 DEF StoredNow
    <2>6. Passing \/ \E d \in Clients : ServiceStep(d)
      BY <1>1, StepStages
    <2> QED
      BY <2>4, <2>5, <2>6
      DEF ServiceStep, Passing, Taken, Admitted, Plain, CountedIn, Heard, Answered, Left,
          sessionVars, dataVars
  <1> QED
    BY <1>1, InductiveInvariant, OwnerInvariant, ListenInvariant, IdInvariant, PTL
    DEF Spec, BufferStable

-----------------------------------------------------------------------------
\* What EchoService sees of the server.
IdSeen(c) == IF Live(c) THEN idOf[c] ELSE NoId

\* A client of whom EchoService sees no change.
SeenSame(d) == /\ Live(d)' <=> Live(d)
               /\ d \in Unstored' <=> d \in Unstored
               /\ StatusOf(d)' = StatusOf(d) /\ IdSeen(d)' = IdSeen(d)

LEMMA SeenFrame ==
    ASSUME NEW d \in Clients, PhaseSays(d), PhaseSays(d)', PhasesStay(d),
           idOf'[d] = idOf[d]
    PROVE  /\ Live(d)' <=> Live(d)
           /\ d \in Unstored' <=> d \in Unstored
           /\ IdSeen(d)' = IdSeen(d)
           /\ peer'[d] = peer[d] => SeenSame(d)
  <1>1. \A p : InPhase(d, p)' <=> InPhase(d, p)
    BY DEF PhasesStay
  <1>2. Live(d)' <=> Live(d)
    BY <1>1 DEF PhaseSays
  <1>3. d \in Unstored' <=> d \in Unstored
    BY <1>1 DEF PhaseSays
  <1> QED
    BY <1>2, <1>3 DEF SeenSame, StatusOf, IdSeen

\* A step that EchoService does not see.
LEMMA SeenStutter ==
    ASSUME \A d \in Clients : SeenSame(d), UNCHANGED dataVars
    PROVE  UNCHANGED Service!vars
  <1>1. Unstored' = Unstored
    BY DEF SeenSame, Unstored
  <1>2. [c \in Clients |-> StatusOf(c)]' = [c \in Clients |-> StatusOf(c)]
    BY DEF SeenSame
  <1>3. [c \in Clients |-> IF Live(c) THEN idOf[c] ELSE NoId]'
        = [c \in Clients |-> IF Live(c) THEN idOf[c] ELSE NoId]
    BY DEF SeenSame, IdSeen
  <1> QED
    BY <1>1, <1>2, <1>3 DEF Service!vars, dataVars

LEMMA PassingSeen ==
    ASSUME IInv, IdInv, PhasesSay, PhasesSay', Passing
    PROVE  Service!TurnAway
  <1>. DEFINE S == {d \in Clients : peer[d] = "backlog" /\ peer'[d] = "closed"}
              status == [c \in Clients |-> StatusOf(c)]
  <1>1. ASSUME NEW d \in Clients
        PROVE  /\ PhaseSays(d) /\ PhaseSays(d)' /\ PhasesStay(d) /\ idOf'[d] = idOf[d]
    BY DEF PhasesSay, Passing, sessionVars
  <1>2. \A d \in Clients : /\ Live(d)' <=> Live(d)
                           /\ d \in Unstored' <=> d \in Unstored
                           /\ IdSeen(d)' = IdSeen(d)
    BY <1>1, SeenFrame
  <1>3. ASSUME NEW d \in S
        PROVE  StatusOf(d) = "new" /\ StatusOf(d)' = "gone"
    <2>1. d \in Clients /\ idOf[d] = NoId
      BY <1>3 DEF IdInv, IdComesWithAccept
    <2>2. ~Live(d)
      BY <2>1 DEF Live
    <2> QED
      BY <1>2, <1>3, <2>1, <2>2 DEF StatusOf
  <1>4. ASSUME NEW d \in Clients \ S
        PROVE  StatusOf(d)' = StatusOf(d)
    <2>1. CASE InPhase(d, "leaving") /\ peer'[d] = "closed"
      <3>1. ~Live(d) /\ idOf[d] # NoId
        BY <1>1, <2>1, ConstantsAssumption DEF PhaseSays, Phases
      <3> QED
        BY <1>1, <1>2, <3>1 DEF StatusOf
    <2>2. CASE peer'[d] = peer[d] \/ (peer[d] = "new" /\ peer'[d] = "backlog")
      BY <1>1, <1>2, <2>2 DEF StatusOf
    <2> QED
      BY <1>4, <2>1, <2>2 DEF Passing
  <1>5. S \in SUBSET {c \in Clients : status[c] = "new"}
    BY <1>3
  <1>6. status' = [c \in Clients |-> IF c \in S THEN "gone" ELSE status[c]]
    BY <1>3, <1>4
  <1>7. Unstored' = Unstored
    BY <1>2 DEF Unstored
  <1>8. [c \in Clients |-> IF Live(c) THEN idOf[c] ELSE NoId]'
        = [c \in Clients |-> IF Live(c) THEN idOf[c] ELSE NoId]
    BY <1>2 DEF IdSeen
  <1>9. UNCHANGED <<messages, delivered, reply>>
    BY DEF Passing, sessionVars, dataVars
  <1> QED
    BY <1>5, <1>6, <1>7, <1>8, <1>9 DEF Service!TurnAway

\* What EchoService sees of a step that concerns one client.
LEMMA SeenOfOne ==
    ASSUME NEW c \in Clients, \A d \in Clients \ {c} : SeenSame(d),
           NEW s, StatusOf(c)' = s, NEW i, IdSeen(c)' = i
    PROVE  /\ [d \in Clients |-> StatusOf(d)]'
                  = [[d \in Clients |-> StatusOf(d)] EXCEPT ![c] = s]
           /\ [d \in Clients |-> IF Live(d) THEN idOf[d] ELSE NoId]'
                  = [[d \in Clients |-> IF Live(d) THEN idOf[d] ELSE NoId] EXCEPT ![c] = i]
           /\ c \in Unstored' => Unstored' = Unstored \cup {c}
           /\ c \notin Unstored' => Unstored' = Unstored \ {c}
           /\ (c \in Unstored' <=> c \in Unstored) => Unstored' = Unstored
  <1>1. /\ c \in Unstored' => Unstored' = Unstored \cup {c}
        /\ c \notin Unstored' => Unstored' = Unstored \ {c}
        /\ (c \in Unstored' <=> c \in Unstored) => Unstored' = Unstored
    BY DEF SeenSame, Unstored
  <1>2. [d \in Clients |-> StatusOf(d)]'
            = [[d \in Clients |-> StatusOf(d)] EXCEPT ![c] = s]
    BY DEF SeenSame
  <1>3. [d \in Clients |-> IF Live(d) THEN idOf[d] ELSE NoId]'
            = [[d \in Clients |-> IF Live(d) THEN idOf[d] ELSE NoId] EXCEPT ![c] = i]
    BY DEF SeenSame, IdSeen
  <1> QED
    BY <1>1, <1>2, <1>3

\* What EchoService sees of a client in each phase.
LEMMA SeenInPhase ==
    ASSUME NEW c \in Clients, PhaseSays(c), NEW p \in Phases, InPhase(c, p)
    PROVE  /\ p \notin {"accepted", "leaving"} => /\ Live(c) /\ StatusOf(c) = "served"
                                                  /\ idOf[c] \in Ids
           /\ p = "leaving" => ~Live(c) /\ StatusOf(c) = "gone"
           /\ p = "accepted" => ~Live(c) /\ (peer[c] = "open" => StatusOf(c) = "new")
           /\ c \in Unstored <=> p = "holding"
  <1>1. NoId \notin Ids
    BY ConstantsAssumption
  <1>2. Live(c) <=> p \notin {"accepted", "leaving"}
    BY <1>1 DEF PhaseSays, Phases
  <1>3. p # "accepted" => idOf[c] \in Ids
    BY DEF PhaseSays
  <1>4. p = "accepted" => idOf[c] = NoId
    BY DEF PhaseSays
  <1>5. c \in Unstored <=> p = "holding"
    BY DEF PhaseSays
  <1> QED
    BY <1>1, <1>2, <1>3, <1>4, <1>5 DEF StatusOf

SeenNow == \A c \in Clients, p \in Phases : InPhase(c, p) =>
    /\ p \notin {"accepted", "leaving"} => /\ Live(c) /\ StatusOf(c) = "served"
                                           /\ idOf[c] \in Ids
    /\ p = "leaving" => ~Live(c) /\ StatusOf(c) = "gone"
    /\ p = "accepted" => ~Live(c) /\ (peer[c] = "open" => StatusOf(c) = "new")
    /\ c \in Unstored <=> p = "holding"

LEMMA SeenInPhaseNow == IInv /\ IdInv => SeenNow
  BY SeenInPhase, PhaseFactsNow DEF SeenNow, PhasesSay

LEMMA SeenInPhaseNext == IInv' /\ IdInv' => SeenNow'
  BY SeenInPhaseNow, PTL

LEMMA StepSeen ==
    ASSUME IInv, IdInv, DataInv, IInv', IdInv', NEW c \in Clients, ServiceStep(c)
    PROVE  Service!Next \/ UNCHANGED Service!vars
  <1>. DEFINE status == [d \in Clients |-> StatusOf(d)]
              id == [d \in Clients |-> IF Live(d) THEN idOf[d] ELSE NoId]
  <1>1. /\ PhasesSay /\ PhasesSay' /\ SeenNow /\ SeenNow' /\ DataOf(c) /\ NoId \notin Ids
        /\ idOf \in [Clients -> Ids \cup {NoId}]
        /\ peer \in [Clients -> {"new", "backlog", "open", "closed"}]
    BY PhaseFactsNow, PhaseFactsNext, SeenInPhaseNow, SeenInPhaseNext, DataByClient,
       ConstantsAssumption DEF DataOfAll, IInv, TypeOK
  <1>2. ASSUME NEW d \in Clients, d # c
        PROVE  SeenSame(d)
    <2>1. PhaseSays(d) /\ PhaseSays(d)'
      BY <1>1 DEF PhasesSay
    <2>2. PhasesStay(d)
      BY <1>2 DEF ServiceStep, Taken, Admitted, Plain, CountedIn, Heard, StoredNow, Answered,
                  Left, PhaseMove
    <2>3. idOf'[d] = idOf[d]
      BY <1>1, <1>2 DEF ServiceStep, Taken, Admitted, Plain, CountedIn, Heard, StoredNow,
                        Answered, Left, sessionVars
    <2>4. peer'[d] = peer[d]
      BY <1>1, <1>2 DEF ServiceStep, Taken, Admitted, Plain, CountedIn, Heard, StoredNow,
                        Answered, Left
    <2> QED
      BY <2>1, <2>2, <2>3, <2>4, SeenFrame
  <1>3. ASSUME NEW p \in Phases, NEW q \in Phases, PhaseMove(c, p, q)
        PROVE  /\ InPhase(c, p) /\ InPhase(c, q)'
               /\ p \notin {"accepted", "leaving"} =>
                      Live(c) /\ status[c] = "served" /\ idOf[c] \in Ids
               /\ q \notin {"accepted", "leaving"} => Live(c)' /\ StatusOf(c)' = "served"
               /\ q = "leaving" => ~Live(c)' /\ StatusOf(c)' = "gone"
               /\ c \in Unstored <=> p = "holding"
               /\ c \in Unstored' <=> q = "holding"
    BY <1>1, <1>3 DEF PhaseMove, PhaseOnly, SeenNow
  <1>4. ASSUME SeenSame(c), UNCHANGED dataVars
        PROVE  UNCHANGED Service!vars
    BY <1>2, <1>4, SeenStutter
  <1>5. CASE Taken(c)
    <2>1. idOf[c] = NoId /\ peer[c] = "backlog" /\ peer'[c] = "open" /\ idOf'[c] = NoId
      BY <1>1, <1>5 DEF Taken, sessionVars, IdInv, IdComesWithAccept
    <2>2. ~Live(c) /\ ~Live(c)'
      BY <2>1 DEF Live
    <2>3. c \notin Unstored
      BY <1>1, <2>1 DEF PhasesSay, PhaseSays
    <2>4. c \notin Unstored'
      BY <1>1, <1>5 DEF PhasesSay, PhaseSays, Taken, PhaseOnly
    <2>5. SeenSame(c)
      BY <2>1, <2>2, <2>3, <2>4 DEF SeenSame, StatusOf, IdSeen
    <2> QED
      BY <1>4, <1>5, <2>5 DEF Taken, sessionVars
  <1>6. CASE Admitted(c)
    <2>1. InPhase(c, "accepted") /\ "accepted" \in Phases /\ "handshake" \in Phases
      BY <1>6 DEF Admitted, PhaseMove, Phases
    <2>2. status[c] = "new"
      BY <1>1, <2>1 DEF SeenNow, DataOf
    <2>3. PICK i \in Ids \ activeIds : idOf' = [idOf EXCEPT ![c] = i]
      BY <1>6 DEF Admitted
    <2>4. idOf'[c] = i
      BY <1>1, <2>3
    <2>5. Live(c)' /\ StatusOf(c)' = "served" /\ IdSeen(c)' = i
      BY <1>3, <1>6, <2>1, <2>4 DEF Admitted, IdSeen
    <2>6. c \in Unstored' <=> c \in Unstored
      BY <1>3, <1>6, <2>1 DEF Admitted
    <2>7. \A d \in Clients : Live(d) => idOf[d] \in activeIds
      BY DEF IdInv, ActiveIdsExact
    <2>8. i \in Ids \ {id[d] : d \in Clients}
      BY <1>1, <2>7
    <2>9. /\ status' = [status EXCEPT ![c] = "served"] /\ id' = [id EXCEPT ![c] = i]
          /\ Unstored' = Unstored
      BY <1>2, <2>5, <2>6, SeenOfOne
    <2>10. UNCHANGED <<messages, delivered, reply>>
      BY <1>6 DEF Admitted, dataVars
    <2>11. Service!Admit(c)
      BY <2>2, <2>8, <2>9, <2>10 DEF Service!Admit
    <2> QED
      BY <2>11 DEF Service!Next
  <1>7. CASE CountedIn(c) \/ (Plain(c) /\ ~PhaseMove(c, "ending", "leaving"))
    <2>1. UNCHANGED <<idOf, peer, dataVars>>
      BY <1>7 DEF CountedIn, Plain, sessionVars
    <2>2. PICK p \in Phases \ {"accepted", "leaving", "holding"},
               q \in Phases \ {"accepted", "leaving", "holding"} : PhaseMove(c, p, q)
      BY <1>7 DEF CountedIn, Plain, Phases
    <2>3. SeenSame(c)
      BY <1>3, <2>1, <2>2 DEF SeenSame, IdSeen
    <2> QED
      BY <1>4, <2>1, <2>3
  <1>8. CASE Plain(c) /\ PhaseMove(c, "ending", "leaving")
    <2>1. "ending" \in Phases /\ "leaving" \in Phases
      BY DEF Phases
    <2>2. /\ status[c] = "served" /\ c \notin Unstored /\ c \notin Unstored'
          /\ StatusOf(c)' = "gone" /\ IdSeen(c)' = NoId
      BY <1>3, <1>8, <2>1 DEF IdSeen
    <2>3. /\ status' = [status EXCEPT ![c] = "gone"] /\ id' = [id EXCEPT ![c] = NoId]
          /\ Unstored' = Unstored
      BY <1>2, <2>2, SeenOfOne
    <2>4. UNCHANGED <<messages, delivered, reply>>
      BY <1>8 DEF Plain, sessionVars, dataVars
    <2>5. Service!Dismiss(c)
      BY <2>2, <2>3, <2>4 DEF Service!Dismiss
    <2> QED
      BY <2>5 DEF Service!Next
  <1>9. ASSUME NEW p \in Phases \ {"accepted", "leaving"},
               NEW q \in Phases \ {"accepted", "leaving"}, PhaseMove(c, p, q), idOf' = idOf
        PROVE  /\ status' = status /\ id' = id /\ status[c] = "served" /\ id[c] = idOf[c]
               /\ c \in Unstored' => Unstored' = Unstored \cup {c}
               /\ c \notin Unstored' => Unstored' = Unstored \ {c}
               /\ (c \in Unstored' <=> c \in Unstored) => Unstored' = Unstored
               /\ c \in Unstored <=> p = "holding"
               /\ c \in Unstored' <=> q = "holding"
    <2>1. StatusOf(c)' = StatusOf(c) /\ IdSeen(c)' = IdSeen(c) /\ Live(c)
      BY <1>3, <1>9 DEF IdSeen
    <2>2. /\ status' = [status EXCEPT ![c] = StatusOf(c)]
          /\ id' = [id EXCEPT ![c] = IdSeen(c)]
          /\ c \in Unstored' => Unstored' = Unstored \cup {c}
          /\ c \notin Unstored' => Unstored' = Unstored \ {c}
          /\ (c \in Unstored' <=> c \in Unstored) => Unstored' = Unstored
      BY <1>2, <2>1, SeenOfOne
    <2>3. status' = status /\ id' = id
      BY <2>2, ZenonT(30) DEF IdSeen
    <2> QED
      BY <1>3, <1>9, <2>1, <2>2, <2>3
  <1>10. CASE Heard(c)
    <2>1. "reading" \in Phases \ {"accepted", "leaving"} /\ "holding" \in Phases \ {"accepted", "leaving"}
      BY DEF Phases
    <2>2. PhaseMove(c, "reading", "holding") /\ idOf' = idOf
          /\ delivered' = [delivered EXCEPT ![c] = @ + 1] /\ UNCHANGED <<messages, reply>>
      BY <1>10 DEF Heard
    <2>3. reply[c] = <<>>
      BY <1>1, <1>3, <2>1, <2>2 DEF DataOf
    <2>4. /\ status' = status /\ id' = id /\ status[c] = "served" /\ c \notin Unstored
          /\ Unstored' = Unstored \cup {c}
      BY <1>9, <2>1, <2>2
    <2>5. Service!Hear(c)
      BY <2>2, <2>3, <2>4 DEF Service!Hear, Service!Idle
    <2> QED
      BY <2>5 DEF Service!Next
  <1>11. CASE StoredNow(c)
    <2>1. "stored" \in Phases \ {"accepted", "leaving"} /\ "holding" \in Phases \ {"accepted", "leaving"}
      BY DEF Phases
    <2>2. PhaseMove(c, "holding", "stored") /\ idOf' = idOf
          /\ messages' = [messages EXCEPT ![idOf[c]] = Append(@, c)]
          /\ UNCHANGED <<delivered, reply>>
      BY <1>11 DEF StoredNow
    <2>3. /\ status' = status /\ id' = id /\ c \in Unstored /\ id[c] = idOf[c]
          /\ Unstored' = Unstored \ {c}
      BY <1>9, <2>1, <2>2
    <2>4. Service!Store(c)
      BY <2>2, <2>3 DEF Service!Store
    <2> QED
      BY <2>4 DEF Service!Next
  <1>12. CASE Answered(c)
    <2>1. "stored" \in Phases \ {"accepted", "leaving"} /\ "sending" \in Phases \ {"accepted", "leaving"}
      BY DEF Phases
    <2>2. PhaseMove(c, "stored", "sending") /\ idOf' = idOf
          /\ reply' = [reply EXCEPT ![c] = messages[idOf[c]]]
          /\ UNCHANGED <<messages, delivered>>
      BY <1>12 DEF Answered
    <2>3. reply[c] = <<>>
      BY <1>1, <1>3, <2>1, <2>2 DEF DataOf
    <2>4. /\ status' = status /\ id' = id /\ status[c] = "served" /\ c \notin Unstored
          /\ Unstored' = Unstored /\ id[c] = idOf[c]
      BY <1>9, <2>1, <2>2
    <2>5. Service!Answer(c)
      BY <2>2, <2>3, <2>4 DEF Service!Answer, Service!Idle
    <2> QED
      BY <2>5 DEF Service!Next
  <1>13. CASE Left(c)
    <2>1. InPhase(c, "leaving") /\ (\A x : ~InPhase(c, x)') /\ peer'[c] = "closed"
      BY <1>1, <1>13 DEF Left
    <2>2. ~Live(c) /\ StatusOf(c) = "gone" /\ c \notin Unstored
      BY <1>1, <2>1 DEF SeenNow, Phases
    <2>3. ~Live(c)' /\ c \notin Unstored'
      BY <1>1, <2>1 DEF PhasesSay, PhaseSays
    <2>4. SeenSame(c)
      BY <2>1, <2>2, <2>3 DEF SeenSame, StatusOf, IdSeen
    <2> QED
      BY <1>4, <1>13, <2>4 DEF Left
  <1> QED
    BY <1>5, <1>6, <1>7, <1>8, <1>10, <1>11, <1>12, <1>13 DEF ServiceStep

\* The server implements EchoService: with any number of workers and clients, every
\* client is served as if by a thread of its own, under an id of its own, no message
\* is lost between on_read and process_message, and none is stored twice.
THEOREM ServerIsEchoService == Spec => IsEchoService
  <1>1. Init => Service!Init
    <2>1. SUFFICES ASSUME Init
                   PROVE  Service!Init
      OBVIOUS
    <2>2. /\ queue = <<>> /\ ops = {} /\ \A w \in Workers : job[w].c = NoClient
          /\ \A c \in Clients : idOf[c] = NoId /\ peer[c] = "new"
          /\ NoClient \notin Clients
      BY <2>1, TaskTypes, ConstantsAssumption DEF Init
    <2>3. \A c \in Clients : ~Live(c)
      BY <2>2 DEF Live
    <2>4. \A c \in Clients : StatusOf(c) = "new"
      BY <2>2, <2>3 DEF StatusOf
    <2>5. Unstored = {}
      BY <2>2 DEF Unstored
    <2> QED
      BY <2>1, <2>3, <2>4, <2>5 DEF Init, Service!Init
  <1>2. /\ IInv /\ OwnerInv /\ ListenInv /\ IdInv /\ DataInv /\ [Next]_vars
        /\ IInv' /\ IdInv'
        => [Service!Next]_Service!vars
    <2>1. SUFFICES ASSUME IInv, OwnerInv, ListenInv, IdInv, DataInv, [Next]_vars, IInv', IdInv'
                   PROVE  Service!Next \/ UNCHANGED Service!vars
      OBVIOUS
    <2>2. Passing => Service!Next
      BY <2>1, PassingSeen, PhaseFactsNow, PhaseFactsNext DEF Service!Next
    <2> QED
      BY <2>1, <2>2, StepStages, StepSeen
  <1> QED
    BY <1>1, <1>2, InductiveInvariant, OwnerInvariant, ListenInvariant, IdInvariant,
       DataInvariant, PTL
    DEF Spec, IsEchoService, Service!Spec

-----------------------------------------------------------------------------
\* CountInv, client by client.
CountOf(c) ==
    /\ ~InPhase(c, "failed")
    /\ Outside(c) \/ InPhase(c, "handshake") => c \notin counted
    /\ \A p \in CountedPhases : InPhase(c, p) => c \in counted

CountOfAll == \A c \in Clients : CountOf(c)

LEMMA CountByClient == CountInv <=> CountOfAll
  BY DEF CountInv, CountOf, CountOfAll

LEMMA CountByClientNext == CountInv' <=> CountOfAll'
  BY CountByClient, PTL

LEMMA CountFrame ==
    ASSUME NEW d \in Clients, CountOf(d), PhasesStay(d),
           d \in counted' <=> d \in counted,
           peer'[d] \in {"new", "backlog"} => peer[d] \in {"new", "backlog"}
    PROVE  CountOf(d)'
  BY DEF CountOf, PhasesStay, Outside

LEMMA CountAtPhase ==
    ASSUME NEW c \in Clients, NEW q \in {"accepted", "handshake"} \cup CountedPhases,
           PhaseOnly(c, q),
           q \in {"accepted", "handshake"} => c \notin counted',
           q \in CountedPhases => c \in counted' /\ peer'[c] \in {"open", "closed"}
    PROVE  CountOf(c)'
  <1>1. \A p : InPhase(c, p)' <=> p = q
    BY DEF PhaseOnly
  <1> QED
    BY <1>1 DEF CountOf, Outside, CountedPhases

\* If no handshake fails, the counter includes a client from on_handshake on.
LEMMA CountInvKept ==
    ASSUME "handshake_error" \notin Env, IInv, OwnerInv, ListenInv, IdInv, CountInv,
           [Next]_vars
    PROVE  CountInv'
  <1>1. /\ PhasesSay /\ CountOfAll /\ Env \subseteq EnvEvents
        /\ peer \in [Clients -> {"new", "backlog", "open", "closed"}]
    BY PhaseFactsNow, CountByClient, ConstantsAssumption DEF IInv, TypeOK
  <1>2. ASSUME Passing
        PROVE  CountOfAll'
    <2>1. ASSUME NEW d \in Clients
          PROVE  CountOf(d)'
      <3>1. /\ CountOf(d) /\ PhasesStay(d) /\ counted' = counted
            /\ peer'[d] \in {"new", "backlog"} => peer[d] \in {"new", "backlog"}
        BY <1>1, <1>2 DEF CountOfAll, Passing, sessionVars, countVars
      <3> QED
        BY <3>1, CountFrame
    <2> QED
      BY <2>1 DEF CountOfAll
  <1>3. ASSUME NEW c \in Clients, ServiceStep(c)
        PROVE  CountOfAll'
    <2>1. ASSUME NEW d \in Clients, d # c
          PROVE  CountOf(d)'
      <3>1. CountOf(d)
        BY <1>1 DEF CountOfAll
      <3>2. PhasesStay(d) /\ peer'[d] = peer[d]
        BY <1>1, <1>3, <2>1
        DEF ServiceStep, Taken, Admitted, Plain, CountedIn, Heard, StoredNow, Answered, Left,
            PhaseMove
      <3>3. d \in counted' <=> d \in counted
        BY <1>3, <2>1
        DEF ServiceStep, Taken, Admitted, Plain, CountedIn, Heard, StoredNow, Answered, Left,
            sessionVars, countVars
      <3> QED
        BY <3>1, <3>2, <3>3, CountFrame
    <2>2. CountOf(c) /\ PhaseSays(c)
      BY <1>1 DEF CountOfAll, PhasesSay
    <2>3. ASSUME NEW p \in CountedPhases, NEW q \in CountedPhases, PhaseMove(c, p, q),
                 UNCHANGED <<peer, counted>>
          PROVE  CountOf(c)'
      <3>1. InPhase(c, p) /\ PhaseOnly(c, q) /\ q \notin {"accepted", "handshake"}
        BY <2>3 DEF PhaseMove, CountedPhases
      <3>2. c \in counted /\ peer[c] \in {"open", "closed"}
        BY <2>2, <2>3, <3>1 DEF CountOf, PhaseSays
      <3> QED
        BY <2>3, <3>1, <3>2, CountAtPhase
    <2>4. CountOf(c)'
      <3>1. CASE Taken(c)
        <4>1. PhaseOnly(c, "accepted") /\ c \notin counted'
          BY <2>2, <3>1 DEF Taken, CountOf, Outside, sessionVars, countVars
        <4> QED
          BY <4>1, CountAtPhase DEF CountedPhases
      <3>2. CASE Admitted(c)
        <4>1. PhaseOnly(c, "handshake") /\ c \notin counted'
          BY <2>2, <3>2 DEF Admitted, CountOf, Outside, PhaseMove, countVars
        <4> QED
          BY <4>1, CountAtPhase DEF CountedPhases
      <3>3. CASE Plain(c)
        <4>1. ~PhaseMove(c, "failed", "ending")
          BY <2>2 DEF CountOf, PhaseMove
        <4>2. UNCHANGED <<peer, counted>>
          BY <3>3 DEF Plain, sessionVars, countVars
        <4> QED
          BY <2>3, <3>3, <4>1, <4>2 DEF Plain, CountedPhases
      <3>4. CASE CountedIn(c)
        <4>1. /\ PhaseOnly(c, "reading") /\ c \in counted' /\ InPhase(c, "handshake")
              /\ peer' = peer
          BY <3>4 DEF CountedIn, PhaseMove
        <4> QED
          BY <2>2, <4>1, CountAtPhase DEF CountedPhases, PhaseSays
      <3>5. CASE Heard(c) \/ StoredNow(c) \/ Answered(c)
        BY <2>3, <3>5 DEF Heard, StoredNow, Answered, CountedPhases, countVars
      <3>6. CASE Left(c)
        <4>1. (\A x : ~InPhase(c, x)') /\ peer'[c] = "closed"
          BY <1>1, <3>6 DEF Left
        <4> QED
          BY <4>1 DEF CountOf, Outside
      <3> QED
        BY <1>3, <3>1, <3>2, <3>3, <3>4, <3>5, <3>6 DEF ServiceStep
    <2> QED
      BY <2>1, <2>4 DEF CountOfAll
  <1>4. CountOfAll'
    BY <1>2, <1>3, StepStages
  <1> QED
    BY <1>4, CountByClientNext

\* Without a wrap-around the 32-bit counter counts.
LEMMA NoWrap ==
    ASSUME NEW m \in Nat, NEW n \in Nat, n < m
    PROVE  n % m = n /\ (n + m) % m = n
  OBVIOUS

LEMMA CountKept ==
    ASSUME "handshake_error" \notin Env, Cardinality(Clients) < CountMod,
           IInv, OwnerInv, ListenInv, IdInv, CountInv, CountTracksSessions, [Next]_vars, IInv'
    PROVE  CountTracksSessions'
  <1>1. /\ CountMod \in Nat /\ IsFiniteSet(Clients) /\ counted \subseteq Clients
        /\ counted' \subseteq Clients
    BY ConstantsAssumption DEF IInv, TypeOK
  <1>2. /\ IsFiniteSet(counted) /\ Cardinality(counted) \in Nat
        /\ Cardinality(counted') \in Nat /\ Cardinality(counted') < CountMod
    <2>1. Cardinality(Clients) \in Nat
      BY <1>1, FS_CardinalityType
    <2>2. /\ IsFiniteSet(counted) /\ IsFiniteSet(counted')
          /\ Cardinality(counted') <= Cardinality(Clients)
      BY <1>1, FS_Subset
    <2>3. Cardinality(counted) \in Nat /\ Cardinality(counted') \in Nat
      BY <2>2, FS_CardinalityType
    <2> QED
      BY <1>1, <2>1, <2>2, <2>3
  <1>3. CASE UNCHANGED countVars
    BY <1>3 DEF CountTracksSessions, countVars
  <1>4. ASSUME NEW c \in Clients, CountedIn(c)
        PROVE  CountTracksSessions'
    <2>1. c \notin counted
      BY <1>4, CountByClient DEF CountedIn, PhaseMove, CountOfAll, CountOf
    <2>2. Cardinality(counted') = Cardinality(counted) + 1
      BY <1>2, <1>4, <2>1, FS_AddElement DEF CountedIn
    <2>3. (count + 1) % CountMod = count + 1
      BY <1>1, <1>2, <2>2, NoWrap DEF CountTracksSessions
    <2> QED
      BY <1>4, <2>2, <2>3 DEF CountedIn, CountTracksSessions
  <1>5. ASSUME NEW c \in Clients, Left(c)
        PROVE  CountTracksSessions'
    <2>1. c \in counted
      BY <1>5, CountByClient DEF Left, CountOfAll, CountOf, CountedPhases
    <2>2. Cardinality(counted') = Cardinality(counted) - 1
      BY <1>2, <1>5, <2>1, FS_RemoveElement DEF Left
    <2>3. PICK n \in Nat : n = Cardinality(counted')
      BY <1>2
    <2>4. count + CountMod - 1 = n + CountMod
      BY <1>1, <1>2, <2>2, <2>3 DEF CountTracksSessions
    <2>5. (n + CountMod) % CountMod = n
      BY <1>1, <1>2, <2>3, NoWrap
    <2> QED
      BY <1>5, <2>3, <2>4, <2>5 DEF Left, Decremented, CountTracksSessions
  <1> QED
    BY <1>3, <1>4, <1>5, StepStages
    DEF ServiceStep, Passing, Taken, Admitted, Plain, Heard, StoredNow, Answered, sessionVars

\* m_active_connections is the number of clients between on_handshake and the end of
\* shutdown_socket, as long as no handshake fails (shutdown_socket decrements it for
\* a client that on_handshake never counted) and the counter cannot wrap around.
THEOREM CountExact ==
    ASSUME "handshake_error" \notin Env, Cardinality(Clients) < CountMod
    PROVE  Spec => []CountTracksSessions
  <1>1. Init => CountInv
    <2>1. ASSUME Init, NEW c \in Clients
          PROVE  c \notin counted /\ \A p : ~InPhase(c, p)
      <3>1. /\ queue = <<>> /\ ops = {} /\ \A w \in Workers : job[w].c = NoClient
            /\ counted = {} /\ NoClient \notin Clients
        BY <2>1, TaskTypes, ConstantsAssumption DEF Init
      <3> QED
        BY <3>1 DEF InPhase, Engaged
    <2> QED
      BY <2>1 DEF CountInv
  <1>2. Init => CountTracksSessions
    BY FS_EmptySet DEF Init, CountTracksSessions
  <1>3. IInv /\ OwnerInv /\ ListenInv /\ IdInv /\ CountInv /\ [Next]_vars => CountInv'
    BY CountInvKept
  <1>4. /\ IInv /\ OwnerInv /\ ListenInv /\ IdInv /\ CountInv /\ CountTracksSessions
        /\ [Next]_vars /\ IInv'
        => CountTracksSessions'
    BY CountKept
  <1> QED
    BY <1>1, <1>2, <1>3, <1>4, InductiveInvariant, OwnerInvariant, ListenInvariant,
       IdInvariant, PTL DEF Spec
=============================================================================
