----------------------------- MODULE Scheduler -----------------------------
(***************************************************************************)
(* asio::detail::scheduler, the io_context under the server, with several  *)
(* threads in run(): the shared queue of operations, the threads' private  *)
(* queues, the count of outstanding work, the event idle threads wait on,  *)
(* and the reactor as a task that one thread at a time takes from the      *)
(* queue, runs in epoll_wait and puts back.                                *)
(*                                                                         *)
(* One action is a section under the mutex, an update of the atomic count, *)
(* or a call into the kernel.  pthread_cond_signal comes after the unlock  *)
(* and is a step of its own.  The mutex is held from one action to the     *)
(* next only by a thread at "loop".                                        *)
(***************************************************************************)
EXTENDS Integers, Sequences, FiniteSets, SequencesExt

CONSTANTS
    Threads,      \* the threads that call run()
    Main,         \* the thread that owns the io_context and its work guard
    Ops,          \* the operations the program makes, each one once
    Descriptors,  \* the sockets' descriptor_states
    TaskOp,       \* task_operation_, the reactor's place in the queue
    NoOp

Callers == Threads \cup {Main}
Entries == Ops \cup Descriptors \cup {TaskOp}

ASSUME SchedulerAssumption ==
    /\ Main \notin Threads
    /\ IsFiniteSet(Threads) /\ IsFiniteSet(Descriptors)
    /\ Ops \cap Descriptors = {}
    /\ TaskOp \notin Ops \cup Descriptors
    /\ NoOp \notin Entries

VARIABLES
    opQueue,          \* op_queue_
    privateQueue,     \* per thread, thread_info::private_op_queue
    privateWork,      \* per thread, thread_info::private_outstanding_work
    work,             \* outstanding_work_
    stopped,          \* stopped_
    taskInterrupted,  \* task_interrupted_
    signalled,        \* the low bit of the event's state_
    pc,               \* per caller, where it is
    cur,              \* per caller, the entry it runs
    out,              \* per caller, the operations it is about to push
    fresh,            \* operations not made yet
    pending,          \* per descriptor, the operations that wait with it
    events,           \* descriptors that epoll has an event of
    interrupt,        \* epoll has an event of the interrupter
    guard,            \* the executor_work_guard holds the context
    asked             \* history: stop() was called by the program

queues == <<opQueue, privateQueue, out, pending, fresh>>
counts == <<privateWork, work, guard>>
kernel == <<events, interrupt>>
vars == <<queues, counts, kernel, stopped, taskInterrupted, signalled, pc, cur,
          asked>>

Steps == {"enter", "acquire", "loop", "wait", "woken", "signal", "task_poll",
          "task_wait", "task_done", "handler", "push", "flush", "stop",
          "stop_enter", "leave", "returned", "outside"}

Init ==
    /\ opQueue = <<TaskOp>>
    /\ privateQueue = [t \in Threads |-> <<>>]
    /\ privateWork = [t \in Threads |-> 0]
    /\ work = 1 /\ guard = TRUE
    /\ stopped = FALSE /\ asked = FALSE
    /\ taskInterrupted = TRUE /\ interrupt = TRUE
    /\ signalled = TRUE
    /\ pc = [t \in Callers |-> IF t = Main THEN "outside" ELSE "enter"]
    /\ cur = [t \in Callers |-> NoOp]
    /\ out = [t \in Callers |-> <<>>]
    /\ fresh = Ops
    /\ pending = [d \in Descriptors |-> <<>>]
    /\ events = {}
-----------------------------------------------------------------------------
Goto(t, step) == pc' = [pc EXCEPT ![t] = step]

\* Another thread is between its lock and its unlock.
Locked == \E t \in Threads : pc[t] = "loop"

\* state_ counts a waiter until it has the mutex again.
Waiters(t) == {u \in Threads \ {t} : pc[u] \in {"wait", "woken"}}

\* reactor::interrupt, once for each run of the task
InterruptTask ==
    /\ interrupt' = (interrupt \/ ~taskInterrupted)
    /\ taskInterrupted' = TRUE

\* Mutated form: the signal for a waiter is forgotten.
WakeWithoutSignal(t, step) ==
    /\ signalled' = TRUE
    /\ Goto(t, step)
    /\ IF Waiters(t) # {} THEN UNCHANGED <<interrupt, taskInterrupted>> ELSE InterruptTask

\* wake_one_thread_and_unlock: leave the signal for a waiter to be given after
\* the unlock, or get the thread in the reactor out of epoll_wait
WakeOneThread(t, step) ==
    /\ signalled' = TRUE
    /\ IF Waiters(t) # {}
       THEN Goto(t, "signal") /\ UNCHANGED <<interrupt, taskInterrupted>>
       ELSE Goto(t, step) /\ InterruptTask

\* Where a caller goes on after a push or a signal.
Resume(t) ==
    IF t = Main THEN "outside" ELSE IF cur[t] = TaskOp THEN "task_poll" ELSE "handler"

\* pthread_cond_signal of the wakeup_event_
Signal(t) ==
    /\ pc[t] = "signal"
    /\ IF \E u \in Threads : pc[u] = "wait"
       THEN \E u \in Threads :
              /\ pc[u] = "wait"
              /\ pc' = [pc EXCEPT ![t] = Resume(t), ![u] = "woken"]
       ELSE Goto(t, Resume(t))
    /\ UNCHANGED <<queues, counts, kernel, stopped, taskInterrupted, signalled, cur,
                   asked>>

\* pthread_cond_wait may return without a signal.
SpuriousWakeup(t) ==
    /\ pc[t] = "wait"
    /\ Goto(t, "woken")
    /\ UNCHANGED <<queues, counts, kernel, stopped, taskInterrupted, signalled, cur,
                   asked>>

\* posix_event::wait: back under the mutex, wait again without the signalled bit
Relock(t) ==
    /\ pc[t] = "woken" /\ ~Locked
    /\ Goto(t, IF signalled THEN "loop" ELSE "wait")
    /\ UNCHANGED <<queues, counts, kernel, stopped, taskInterrupted, signalled, cur,
                   asked>>
-----------------------------------------------------------------------------
\* run(): without any work the context stops
Run(t) ==
    /\ pc[t] = "enter"
    /\ Goto(t, IF work = 0 THEN "stop_enter" ELSE "acquire")
    /\ UNCHANGED <<queues, counts, kernel, stopped, taskInterrupted, signalled, cur,
                   asked>>

\* The thread has the mutex at the top of do_run_one's loop.
AtLoop(t) == pc[t] = "loop" \/ (pc[t] = "acquire" /\ ~Locked)

\* run() returns: do_run_one found the context stopped, or run() itself stopped it.
RunReturns(t) ==
    /\ (AtLoop(t) /\ stopped) \/ pc[t] = "leave"
    /\ Goto(t, "returned")
    /\ UNCHANGED <<queues, counts, kernel, stopped, taskInterrupted, signalled, cur,
                   asked>>

\* do_run_one: nothing to do, clear the event and wait for it
Idle(t) ==
    /\ AtLoop(t) /\ ~stopped /\ opQueue = <<>>
    /\ signalled' = FALSE
    /\ Goto(t, "wait")
    /\ UNCHANGED <<queues, counts, kernel, stopped, taskInterrupted, cur, asked>>

\* Pops the first entry of the queue.
Pop(t) ==
    /\ AtLoop(t) /\ ~stopped /\ opQueue # <<>>
    /\ opQueue' = Tail(opQueue)
    /\ cur' = [cur EXCEPT ![t] = Head(opQueue)]
    /\ UNCHANGED <<privateQueue, out, pending, fresh, counts, events, stopped, asked>>

\* do_run_one takes the reactor: it blocks in epoll_wait only if the queue is
\* empty, and another thread is told about the rest of the queue.
TakeTask(t) ==
    /\ Pop(t) /\ Head(opQueue) = TaskOp
    /\ LET more == Tail(opQueue) # <<>>
       IN /\ taskInterrupted' = more
          /\ signalled' = (signalled \/ more)
          /\ Goto(t, CASE more /\ Waiters(t) # {} -> "signal"
                       [] more /\ Waiters(t) = {} -> "task_poll"
                       [] OTHER                   -> "task_wait")
    /\ UNCHANGED interrupt

\* do_run_one takes an operation or a descriptor_state.
TakeOp(t) ==
    /\ Pop(t) /\ Head(opQueue) # TaskOp
    /\ IF Tail(opQueue) # <<>>
       THEN WakeOneThread(t, "handler")
       ELSE Goto(t, "handler") /\ UNCHANGED <<signalled, interrupt, taskInterrupted>>
-----------------------------------------------------------------------------
\* epoll_reactor::run: epoll_wait reports the descriptors, in any order, and the
\* interrupter
EpollWait(t) ==
    /\ \/ pc[t] = "task_poll"
       \/ pc[t] = "task_wait" /\ (interrupt \/ events # {})
    /\ \E s \in SetToSeqs(events) : privateQueue' = [privateQueue EXCEPT ![t] = @ \o s]
    /\ events' = {} /\ interrupt' = FALSE
    /\ Goto(t, "task_done")
    /\ UNCHANGED <<opQueue, out, pending, fresh, counts, stopped, taskInterrupted,
                   signalled, cur, asked>>

\* Mutated forms: the task goes back ahead of what it has found, or only if it
\* has found nothing.
RequeueTaskFirst(t) == <<TaskOp>> \o privateQueue[t]
RequeueIdleTask(t) == IF privateQueue[t] = <<>> THEN <<TaskOp>> ELSE privateQueue[t]

\* What the reactor has found, and the reactor behind it.
Requeue(t) == privateQueue[t] \o <<TaskOp>>

\* task_cleanup: settle the count and requeue the reactor
TaskCleanup(t) ==
    /\ pc[t] = "task_done" /\ ~Locked
    /\ work' = work + privateWork[t]
    /\ privateWork' = [privateWork EXCEPT ![t] = 0]
    /\ taskInterrupted' = TRUE
    /\ opQueue' = opQueue \o Requeue(t)
    /\ privateQueue' = [privateQueue EXCEPT ![t] = <<>>]
    /\ cur' = [cur EXCEPT ![t] = NoOp]
    /\ Goto(t, "loop")
    /\ UNCHANGED <<out, pending, fresh, guard, kernel, stopped, signalled, asked>>

\* Mutated form: nothing makes up for the coming work_finished.
NoCompensation(n) == 0

\* compensating_work_started, when perform_io has finished no operation
Compensation(n) == IF n = 0 THEN 1 ELSE 0

\* descriptor_state::do_complete: perform_io finishes the first n operations that
\* wait with the descriptor; the first one's handler runs now, the others are to
\* be pushed, and without any the coming work_finished is compensated.
PerformIo(t) ==
    /\ pc[t] = "handler" /\ cur[t] \in Descriptors
    /\ LET d == cur[t]
       IN \E n \in 0 .. Len(pending[d]) :
            /\ pending' = [pending EXCEPT ![d] = SubSeq(@, n + 1, Len(@))]
            /\ cur' = [cur EXCEPT ![t] = IF n = 0 THEN NoOp ELSE pending[d][1]]
            /\ out' = [out EXCEPT ![t] = SubSeq(pending[d], 2, n)]
            /\ privateWork' = [privateWork EXCEPT ![t] = @ + Compensation(n)]
            /\ Goto(t, IF n > 1 THEN "push" ELSE "handler")
    /\ UNCHANGED <<opQueue, privateQueue, fresh, work, guard, kernel, stopped,
                   taskInterrupted, signalled, asked>>
-----------------------------------------------------------------------------
\* The program's own code runs in t: a handler, or the owner under its guard.
InProgram(t) == (pc[t] = "handler" /\ cur[t] \in Ops) \/ (pc[t] = "outside" /\ guard)

\* post_immediate_completion: count the work, then push
Post(t, op) ==
    /\ InProgram(t) /\ op \in fresh
    /\ fresh' = fresh \ {op}
    /\ work' = work + 1
    /\ out' = [out EXCEPT ![t] = <<op>>]
    /\ Goto(t, "push")
    /\ UNCHANGED <<opQueue, privateQueue, pending, privateWork, guard, kernel, stopped,
                   taskInterrupted, signalled, cur, asked>>

\* Mutated form: a continuation is not counted.
CountNothing(t) == UNCHANGED privateWork

\* A continuation is counted by its thread.
CountPrivately(t) == privateWork' = [privateWork EXCEPT ![t] = @ + 1]

\* post_immediate_completion of a continuation, from a thread of run()
PostContinuation(t, op) ==
    /\ pc[t] = "handler" /\ cur[t] \in Ops /\ op \in fresh
    /\ fresh' = fresh \ {op}
    /\ privateQueue' = [privateQueue EXCEPT ![t] = Append(@, op)]
    /\ CountPrivately(t)
    /\ UNCHANGED <<opQueue, out, pending, work, guard, kernel, stopped, taskInterrupted,
                   signalled, pc, cur, asked>>

\* epoll_reactor::start_op: the operation waits with its descriptor
StartOp(t, op, d) ==
    /\ InProgram(t) /\ op \in fresh
    /\ fresh' = fresh \ {op}
    /\ pending' = [pending EXCEPT ![d] = Append(@, op)]
    /\ work' = work + 1
    /\ UNCHANGED <<opQueue, privateQueue, out, privateWork, guard, kernel, stopped,
                   taskInterrupted, signalled, pc, cur, asked>>

\* epoll_reactor::cancel_ops, then post_deferred_completions
CancelOps(t, d) ==
    /\ (pc[t] = "handler" /\ cur[t] \in Ops) \/ pc[t] = "outside"
    /\ pending[d] # <<>>
    /\ out' = [out EXCEPT ![t] = pending[d]]
    /\ pending' = [pending EXCEPT ![d] = <<>>]
    /\ Goto(t, "push")
    /\ UNCHANGED <<opQueue, privateQueue, fresh, counts, kernel, stopped,
                   taskInterrupted, signalled, cur, asked>>

\* The locked half of the post functions.
Push(t) ==
    /\ pc[t] = "push" /\ ~Locked
    /\ opQueue' = opQueue \o out[t]
    /\ out' = [out EXCEPT ![t] = <<>>]
    /\ WakeOneThread(t, Resume(t))
    /\ UNCHANGED <<privateQueue, pending, fresh, counts, events, stopped, cur, asked>>

\* work_cleanup locks the mutex only to move the private queue.
AfterHandler(t) == IF privateQueue[t] = <<>> THEN "acquire" ELSE "flush"

\* work_cleanup: settle the count of the finished operation
HandlerReturns(t) ==
    /\ pc[t] = "handler" /\ cur[t] \notin Descriptors
    /\ cur' = [cur EXCEPT ![t] = NoOp]
    /\ work' = work + privateWork[t] - 1
    /\ privateWork' = [privateWork EXCEPT ![t] = 0]
    /\ Goto(t, IF privateWork[t] = 0 /\ work' = 0 THEN "stop" ELSE AfterHandler(t))
    /\ UNCHANGED <<queues, guard, kernel, stopped, taskInterrupted, signalled, asked>>

\* work_cleanup: the private queue goes to the shared one.  The mutex stays
\* locked then, and run() goes on with it.
Flush(t) ==
    /\ pc[t] = "flush" /\ ~Locked
    /\ Goto(t, "loop")
    /\ opQueue' = opQueue \o privateQueue[t]
    /\ privateQueue' = [privateQueue EXCEPT ![t] = <<>>]
    /\ UNCHANGED <<out, pending, fresh, counts, kernel, stopped, taskInterrupted,
                   signalled, cur, asked>>
-----------------------------------------------------------------------------
\* executor_work_guard::reset, work_finished
ResetGuard ==
    /\ pc[Main] = "outside" /\ guard
    /\ guard' = FALSE
    /\ work' = work - 1
    /\ Goto(Main, IF work' = 0 THEN "stop" ELSE "outside")
    /\ UNCHANGED <<queues, privateWork, kernel, stopped, taskInterrupted, signalled,
                   cur, asked>>

\* io_context::stop, called by the owner
CallStop ==
    /\ pc[Main] = "outside" /\ ~asked
    /\ asked' = TRUE
    /\ Goto(Main, "stop")
    /\ UNCHANGED <<queues, counts, kernel, stopped, taskInterrupted, signalled, cur>>

\* Mutated form: stop() wakes the waiters, not the thread in the reactor.
StopWaiters(t, step) ==
    /\ pc' = [u \in Callers |-> IF u = t THEN step
                                ELSE IF pc[u] = "wait" THEN "woken" ELSE pc[u]]
    /\ UNCHANGED <<interrupt, taskInterrupted>>

\* stop_all_threads: wake whoever waits, and the thread in epoll_wait
WakeAllThreads(t, step) ==
    /\ pc' = [u \in Callers |-> IF u = t THEN step
                                ELSE IF pc[u] = "wait" THEN "woken" ELSE pc[u]]
    /\ InterruptTask

\* stop(), from work_finished, from run() or from the program
Stop(t) ==
    /\ pc[t] \in {"stop", "stop_enter"} /\ ~Locked
    /\ stopped' = TRUE /\ signalled' = TRUE
    /\ WakeAllThreads(t, IF t = Main THEN "outside"
                         ELSE IF pc[t] = "stop" THEN AfterHandler(t) ELSE "leave")
    /\ UNCHANGED <<queues, counts, events, cur, asked>>

\* The kernel has an event of the socket, edge triggered.
SocketEvent(d) ==
    /\ d \notin events
    /\ events' = events \cup {d}
    /\ UNCHANGED <<queues, counts, interrupt, stopped, taskInterrupted, signalled, pc,
                   cur, asked>>
-----------------------------------------------------------------------------
\* What a thread of run() does by itself.
RunStep(t) ==
    \/ Run(t) \/ RunReturns(t) \/ Idle(t) \/ TakeTask(t) \/ TakeOp(t) \/ Relock(t)
    \/ EpollWait(t) \/ TaskCleanup(t) \/ PerformIo(t) \/ HandlerReturns(t) \/ Flush(t)

\* What a caller does to finish a call into the scheduler.
CallStep(t) == Signal(t) \/ Push(t) \/ Stop(t)

\* What the program may do in a handler or in the owner's thread.
ProgramStep(t) ==
    \/ \E op \in Ops : Post(t, op) \/ (t # Main /\ PostContinuation(t, op))
    \/ \E op \in Ops, d \in Descriptors : StartOp(t, op, d)
    \/ \E d \in Descriptors : CancelOps(t, d)

Next ==
    \/ \E t \in Threads : RunStep(t) \/ SpuriousWakeup(t)
    \/ \E t \in Callers : CallStep(t) \/ ProgramStep(t)
    \/ ResetGuard \/ CallStop
    \/ \E d \in Descriptors : SocketEvent(d)

Spec == Init /\ [][Next]_vars

(***************************************************************************)
(* Every thread is scheduled, a thread that wants the mutex gets it in the *)
(* end although others take it again and again (strong fairness), and      *)
(* every handler ends.  Nothing makes the program post or stop.            *)
(***************************************************************************)
FairSpec ==
    /\ Spec
    /\ \A t \in Threads : SF_vars(RunStep(t))
    /\ \A t \in Callers : SF_vars(CallStep(t))
=============================================================================
