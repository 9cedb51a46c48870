------------------------ MODULE SchedulerProperties ------------------------
(***************************************************************************)
(* What the scheduler guarantees, and that it implements Executor.         *)
(***************************************************************************)
EXTENDS Scheduler

Elements(s) == {s[i] : i \in DOMAIN s}

Running == {cur[t] : t \in Threads} \cap Ops
Waiting == UNION {Elements(pending[d]) : d \in Descriptors}
Ready ==
    Ops \cap (Elements(opQueue) \cup (UNION {Elements(privateQueue[t]) : t \in Threads})
              \cup (UNION {Elements(out[t]) : t \in Callers}))

\* Every variable keeps its type.
TypeOK ==
    /\ opQueue \in Seq(Entries) /\ privateQueue \in [Threads -> Seq(Entries)]
    /\ out \in [Callers -> Seq(Ops)] /\ pending \in [Descriptors -> Seq(Ops)]
    /\ fresh \subseteq Ops
    /\ privateWork \in [Threads -> Nat] /\ work \in Nat /\ guard \in BOOLEAN
    /\ events \subseteq Descriptors /\ interrupt \in BOOLEAN
    /\ stopped \in BOOLEAN /\ taskInterrupted \in BOOLEAN /\ signalled \in BOOLEAN
    /\ pc \in [Callers -> Steps] /\ cur \in [Callers -> Entries \cup {NoOp}]
    /\ asked \in BOOLEAN

\* The thread will look at the queue without a handler or an event coming first.
Awake(t) ==
    \/ pc[t] \in {"enter", "acquire", "loop", "woken", "flush", "task_poll", "task_done"}
    \/ pc[t] = "task_wait" /\ (interrupt \/ events # {})

\* The thread sleeps, in the event or in epoll_wait.
Asleep(t) == pc[t] = "wait" \/ (pc[t] = "task_wait" /\ ~interrupt /\ events = {})

\* A caller has still to give a signal, and a thread waits for one.
SignalDue ==
    /\ \E t \in Callers : pc[t] = "signal"
    /\ \E t \in Threads : pc[t] = "wait"

\* While something is queued, no thread sleeps unless another one is on its way to
\* the queue: a wake-up is not lost between the queue, the event and epoll, and a
\* queued operation never waits for the end of somebody else's handler.
NoLostWakeup ==
    opQueue # <<>> /\ ~stopped /\ (\E t \in Threads : Asleep(t))
        => SignalDue \/ \E t \in Threads : Awake(t)

\* stop() leaves no thread asleep.
StopWakesAll == stopped => ~\E t \in Threads : Asleep(t)

\* The reactor is in one place: in the queue once, or with one thread.
OneTask ==
    LET InQueue == {i \in DOMAIN opQueue : opQueue[i] = TaskOp}
        WithThread == {t \in Threads : cur[t] = TaskOp}
    IN /\ \A i, j \in InQueue : i = j
       /\ \A t, u \in WithThread : t = u
       /\ (InQueue = {}) # (WithThread = {})

\* epoll_reactor::run relies on it: when the reactor runs, no descriptor_state that
\* it returned earlier is still in a queue, so it may queue every one again.
DescriptorsDequeued ==
    \A t \in Threads : pc[t] \in {"task_poll", "task_wait"} =>
        Descriptors \cap (Elements(opQueue) \cup Elements(privateQueue[t])) = {}

\* A descriptor_state that found nothing to do, whose compensation is not settled.
Compensating == {t \in Threads : pc[t] = "handler" /\ cur[t] = NoOp}

\* The continuations that the thread's handler has posted and work_cleanup has not
\* settled yet.
Unsettled(t) ==
    IF pc[t] \in {"handler", "push", "signal"} THEN privateQueue[t] ELSE <<>>

\* The threads' counts are their own unsettled continuations and compensations, and
\* the context's count is everything else that is unfinished: no operation is
\* counted twice or not at all, so the count is zero exactly when no work is left.
WorkExact ==
    /\ \A t \in Threads :
         privateWork[t] = Len(Unsettled(t)) + IF t \in Compensating THEN 1 ELSE 0
    /\ work = Cardinality((Ready \cup Waiting \cup Running)
                          \ UNION {Elements(Unsettled(t)) : t \in Threads})
              + IF guard THEN 1 ELSE 0

\* Every operation that is ready is taken from the queues, unless the context stops.
ReadyIsTaken == Ready # {} ~> Ready = {} \/ stopped

\* After stop() every thread returns from run().
StopEndsRun == stopped ~> \A t \in Threads : pc[t] = "returned"
-----------------------------------------------------------------------------
StatusOf(op) ==
    IF op \in fresh THEN "new"
    ELSE IF op \in Waiting THEN "waiting"
    ELSE IF op \in Ready THEN "ready"
    ELSE IF op \in Running THEN "running" ELSE "done"

Status == [op \in Ops |-> StatusOf(op)]
Ended == IF ~stopped THEN "no" ELSE IF asked THEN "asked" ELSE "drained"
InRun == {t \in Threads : pc[t] # "returned"}

Executor == INSTANCE Executor WITH
    status <- Status, guarded <- guard, ended <- Ended, inRun <- InRun

\* The scheduler is an executor: no operation is lost, run twice or run before it
\* is posted, and the context does not run out of work while some is left.
IsExecutor == Executor!Spec
=============================================================================
