------------------------ MODULE SchedulerInvariants ------------------------
(***************************************************************************)
(* The strengthenings that make the scheduler's properties inductive:      *)
(* what a caller holds at each of its steps, that an operation is in one   *)
(* place at a time, that descriptors never follow the reactor in the       *)
(* queue, and what the event and the interrupter say of the queue.         *)
(***************************************************************************)
EXTENDS SchedulerProperties

\* The steps of a thread between two entries of the queue.
FreeSteps == {"enter", "acquire", "loop", "wait", "woken", "flush", "stop", "stop_enter",
              "leave", "returned"}

TaskSteps == {"task_poll", "task_wait", "task_done"}

\* What a thread of run() runs at each of its steps.
ThreadHolds(t) ==
    /\ pc[t] \in FreeSteps => cur[t] = NoOp
    /\ pc[t] \in TaskSteps => cur[t] = TaskOp
    /\ pc[t] = "push" => cur[t] \in Ops
    /\ pc[t] = "signal" => cur[t] \in Entries
    /\ pc[t] = "handler" => cur[t] # TaskOp
    /\ pc[t] # "outside"

\* The private queue holds a handler's continuations until they are flushed, or the
\* descriptors that the reactor has found until it goes back to the queue.
PrivateHolds(t) ==
    /\ privateQueue[t] # <<>> => cur[t] \in Ops \/ pc[t] \in {"task_done", "flush", "stop"}
    /\ \A i \in DOMAIN privateQueue[t] :
         privateQueue[t][i] \in IF pc[t] = "task_done" THEN Descriptors ELSE Ops

ControlInv ==
    /\ \A t \in Threads : ThreadHolds(t) /\ PrivateHolds(t)
    /\ pc[Main] \in {"outside", "signal", "push", "stop"} /\ cur[Main] = NoOp
    /\ \A t \in Callers : pc[t] # "push" => out[t] = <<>>
    /\ \A t \in Threads : pc[t] = "leave" => stopped

\* A step that caller t takes.
StepOf(t) ==
    \/ t \in Threads /\ (RunStep(t) \/ SpuriousWakeup(t))
    \/ CallStep(t) \/ ProgramStep(t)
    \/ t = Main /\ (ResetGuard \/ CallStop)

\* A step leaves the caller where it is, or only wakes it.
Undisturbed(u) ==
    /\ cur'[u] = cur[u] /\ out'[u] = out[u]
    /\ u \in Threads => /\ privateQueue'[u] = privateQueue[u]
                        /\ privateWork'[u] = privateWork[u]
    /\ \/ pc'[u] = pc[u]
       \/ u \in Threads /\ pc[u] = "wait" /\ pc'[u] = "woken"
-----------------------------------------------------------------------------
\* No descriptor comes after the reactor, and none is queued while a thread has it.
DescriptorsFirst ==
    /\ \A i, j \in DOMAIN opQueue :
         opQueue[i] = TaskOp /\ opQueue[j] \in Descriptors => j < i
    /\ (\E t \in Threads : cur[t] = TaskOp) =>
         \A i \in DOMAIN opQueue : opQueue[i] \notin Descriptors

ReactorInv == OneTask /\ DescriptorsFirst
-----------------------------------------------------------------------------
\* The event is set while something is queued, unless a thread has the mutex and
\* will look at the queue before it waits.
EventTells == opQueue # <<>> => signalled \/ Locked

\* task_interrupted_ is right about the thread in epoll_wait.
InterruptTells == \A t \in Threads : pc[t] = "task_wait" /\ taskInterrupted => interrupt

\* A thread about to enter run() is not needed to keep the promise of NoLostWakeup: it
\* may find that there is no work.
AwakeInRun(t) == Awake(t) /\ pc[t] # "enter"

WakeupComing ==
    opQueue # <<>> /\ ~stopped /\ (\E t \in Threads : Asleep(t))
        => SignalDue \/ \E t \in Threads : AwakeInRun(t)

WakeInv == /\ EventTells /\ InterruptTells /\ WakeupComing /\ StopWakesAll
           /\ stopped => signalled
-----------------------------------------------------------------------------
\* Where an operation is.
In(op, k, x) ==
    \/ k = "fresh" /\ x = NoOp /\ op \in fresh
    \/ k = "queue" /\ x = NoOp /\ op \in Elements(opQueue)
    \/ k = "private" /\ x \in Threads /\ op \in Elements(privateQueue[x])
    \/ k = "out" /\ x \in Callers /\ op \in Elements(out[x])
    \/ k = "waiting" /\ x \in Descriptors /\ op \in Elements(pending[x])
    \/ k = "running" /\ x \in Threads /\ op = cur[x]

\* A step leaves an operation where it is or ends it, or moves it from k, x to l, y.
Stays(op) == \A k, x : In(op, k, x)' => In(op, k, x)

Goes(op, k, x, l, y) ==
    /\ In(op, k, x)
    /\ \A m, z : In(op, m, z)' => (m = l /\ z = y) \/ (In(op, m, z) /\ ~(m = k /\ z = x))

NoRepeat(s) == \A i, j \in DOMAIN s : s[i] = s[j] /\ s[i] \in Ops => i = j

\* Every operation is in at most one place, and there once.
OnePlace ==
    /\ \A op \in Ops : \A k, x, l, y : In(op, k, x) /\ In(op, l, y) => k = l /\ x = y
    /\ NoRepeat(opQueue)
    /\ \A t \in Threads : NoRepeat(privateQueue[t])
    /\ \A t \in Callers : NoRepeat(out[t])
    /\ \A d \in Descriptors : NoRepeat(pending[d])
-----------------------------------------------------------------------------
Unfinished == Ready \cup Waiting \cup Running

\* The steps of a thread whose handler has not ended.
Holding == {"handler", "push", "signal"}

\* What a caller has that the context's count is for.
Keeps(t, op) ==
    \/ op \in Elements(out[t])
    \/ t \in Threads /\ op = cur[t]
    \/ t \in Threads /\ pc[t] \notin Holding /\ op \in Elements(privateQueue[t])

\* The operations that the context's count is for.
Counted ==
    {op \in Ops : \/ op \in Elements(opQueue) \/ op \in Waiting
                 \/ \E t \in Callers : Keeps(t, op)}

\* The part of it that a step of t can change, and the part it cannot.
Own(t, op) == op \in Elements(opQueue) \/ op \in Waiting \/ Keeps(t, op)

Elsewhere(t, op) == \E u \in Callers \ {t} : Keeps(u, op)

PrivateExact(t) ==
    privateWork[t] = Len(Unsettled(t)) + IF t \in Compensating THEN 1 ELSE 0

ContextExact ==
    /\ IsFiniteSet(Counted)
    /\ work = Cardinality(Counted) + IF guard THEN 1 ELSE 0

\* A caller about to stop the context for want of work is right, and stays so: nobody
\* is left who could make new work.
StopJustified ==
    \A t \in Callers : pc[t] \in {"stop", "stop_enter"} /\ ~asked =>
        ~guard /\ Counted = {}

WorkInv == (\A t \in Threads : PrivateExact(t)) /\ ContextExact /\ StopJustified
-----------------------------------------------------------------------------
\* The status of an operation, as Executor sees it, says where it is.
StatusTells ==
    \A op \in Ops :
        /\ Status[op] \in {"new", "waiting", "ready", "running", "done"}
        /\ (Status[op] = "new" <=> op \in fresh) /\ (Status[op] = "waiting" <=> op \in Waiting)
        /\ (Status[op] = "ready" <=> op \in Ready) /\ (Status[op] = "running" <=> op \in Running)

\* An operation is ready or runs where a step of t can change it.
ReadyAt(t, op) ==
    \/ op \in Elements(opQueue) \/ op \in Elements(out[t])
    \/ t \in Threads /\ op \in Elements(privateQueue[t])

RunsAt(t, op) == t \in Threads /\ op = cur[t]

\* A step of t leaves the operation's status alone.
KeptBy(t, op) ==
    /\ (op \in fresh)' <=> op \in fresh
    /\ (op \in Waiting)' <=> op \in Waiting
    /\ ReadyAt(t, op)' <=> ReadyAt(t, op)
    /\ RunsAt(t, op)' <=> RunsAt(t, op)
-----------------------------------------------------------------------------
SchedulerInv ==
    /\ TypeOK /\ ControlInv /\ ReactorInv /\ WakeInv
    /\ OnePlace /\ WorkInv
=============================================================================
