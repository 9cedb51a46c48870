------------------------------ MODULE Reactor ------------------------------
(***************************************************************************)
(* asio::detail::epoll_reactor and one descriptor_state: the operations    *)
(* that wait with a socket, the guess whether trying one at once is worth  *)
(* it, the socket's edge-triggered item in epoll, and the events that are  *)
(* on their way from epoll_wait to perform_io in the scheduler's threads.  *)
(*                                                                         *)
(* Every section under the descriptor's mutex is one action.  A thread     *)
(* that has taken the descriptor_state from the scheduler's queue holds a  *)
(* copy of its events, and may be slow to lock that mutex: the descriptor  *)
(* may be queued again meanwhile, closed, and used for another socket.     *)
(*                                                                         *)
(* The program, as the server's sessions do, has at most one operation of  *)
(* each type at a time and does not receive again after the end of stream. *)
(***************************************************************************)
EXTENDS Naturals

CONSTANTS
    Threads,     \* the threads of the scheduler
    Room,        \* the bytes the socket's send buffer takes
    MaxData,     \* bound: bytes unread in the socket
    MaxSockets   \* bound: sockets that use the descriptor_state

ASSUME ReactorAssumption ==
    Room \in Nat \ {0} /\ MaxData \in Nat \ {0} /\ MaxSockets \in Nat

Types == {"read", "write"}
None == "none"

VARIABLES
    op,           \* per type, op_queue_: the operation that waits, or None
    speculative,  \* per type, try_speculative_
    outEvents,    \* registered_events_ has EPOLLOUT
    open,         \* ~shutdown_
    sockets,      \* how many sockets have used the descriptor_state
    data,         \* bytes the socket has to read
    fin,          \* the end of the stream has arrived behind them
    ended,        \* a receive has returned the end of the stream
    space,        \* bytes the socket takes at once
    full,         \* a send or a poll has found no room, so new room makes an edge
    listed,       \* the item is on epoll's list of what may be ready
    queued,       \* task_result_ of the descriptor_state in a queue, or {}
    held          \* per thread, the events it is about to perform

socket == <<data, fin, ended, space, full>>
vars == <<op, speculative, outEvents, open, sockets, socket, listed, queued, held>>

Readable == data > 0 \/ fin
Writable == space > 0

\* What epoll reports of the socket: what it is ready for now, of what is registered.
Ready == {e \in Types : \/ e = "read" /\ Readable
                        \/ e = "write" /\ Writable /\ outEvents}

Init ==
    /\ op = [e \in Types |-> None] /\ speculative = [e \in Types |-> TRUE]
    /\ outEvents = FALSE /\ open = FALSE /\ sockets = 0
    /\ data = 0 /\ fin = FALSE /\ ended = FALSE /\ space = 0 /\ full = FALSE
    /\ listed = FALSE /\ queued = {} /\ held = [t \in Threads |-> {}]
-----------------------------------------------------------------------------
\* register_descriptor for the next socket, which may have data already: the
\* descriptor_state comes from the pool, with the events on their way to it
Register ==
    /\ ~open /\ sockets < MaxSockets
    /\ open' = TRUE /\ sockets' = sockets + 1
    /\ speculative' = [e \in Types |-> TRUE]
    /\ outEvents' = FALSE
    /\ data' \in 0 .. MaxData
    /\ fin' = FALSE /\ ended' = FALSE /\ space' = Room /\ full' = FALSE
    /\ listed' = (data' > 0)
    /\ UNCHANGED <<op, queued, held>>

\* Data, or the end of the stream, reach the socket: an edge.
Arrive(n) ==
    /\ open /\ ~fin /\ data + n <= MaxData
    /\ data' = data + n
    /\ fin' = (n = 0)
    /\ listed' = TRUE
    /\ UNCHANGED <<op, speculative, outEvents, open, sockets, ended, space, full, queued,
                   held>>

\* The peer takes what was sent: an edge, if anyone has looked for room.
Drain ==
    /\ open /\ space = 0
    /\ space' = Room /\ full' = FALSE
    /\ listed' = (listed \/ (full /\ outEvents))
    /\ UNCHANGED <<op, speculative, outEvents, open, sockets, data, fin, ended, queued,
                   held>>
-----------------------------------------------------------------------------
\* Results of perform(): reactor_op::status.
NotDone == "not_done"
Done == "done"
Exhausted == "done_and_exhausted"

\* reactive_socket_recv_op: up to a buffer of bytes, or the end of the stream
Receive(status) ==
    \/ data > 0 /\ status = Done /\ data' \in 0 .. data - 1 /\ UNCHANGED ended
    \/ data = 0 /\ fin /\ status = Exhausted /\ ended' = TRUE /\ UNCHANGED data
    \/ ~Readable /\ status = NotDone /\ UNCHANGED <<data, ended>>

\* reactive_socket_send_op: all of its bytes, or as many as fit
Send(status) ==
    \/ space > 0 /\ status = Done /\ space' \in 0 .. space - 1 /\ UNCHANGED full
    \/ space > 0 /\ status = Exhausted /\ space' = 0 /\ full' = TRUE
    \/ space = 0 /\ status = NotDone /\ full' = TRUE /\ UNCHANGED space

\* try_speculative_ after perform()
Guess(guess, status) == IF status = Exhausted THEN FALSE ELSE guess

\* epoll_reactor::start_op with allow_speculative: done at once,
DoneAtOnce(e, status) ==
    /\ open /\ op[e] = None /\ speculative[e]
    /\ status # NotDone
    /\ speculative' = [speculative EXCEPT ![e] = Guess(@, status)]
    /\ UNCHANGED <<op, outEvents, open, sockets, fin, listed, queued, held>>

\* or queued, as it was tried in vain or is not worth it.
Enqueue(e, kind) ==
    /\ open /\ op[e] = None
    /\ op' = [op EXCEPT ![e] = kind]
    /\ UNCHANGED <<speculative, open, sockets, data, fin, ended, space, queued, held>>

\* async_read_some
StartReceive ==
    /\ ~ended
    /\ \/ \E status \in {Done, Exhausted} :
            DoneAtOnce("read", status) /\ Receive(status) /\ UNCHANGED <<space, full>>
       \/ /\ speculative["read"] => ~Readable
          /\ Enqueue("read", "receive")
          /\ UNCHANGED <<outEvents, full, listed>>

\* Mutated form: EPOLLOUT is not asked for.
NoOutEvents == UNCHANGED <<outEvents, listed>>

\* The first operation of type write that has to wait makes epoll report EPOLLOUT.
AddOutEvents ==
    /\ outEvents' = TRUE
    /\ listed' = (listed \/ (~outEvents /\ (Readable \/ Writable)))

\* async_write_some
StartSend ==
    \/ \E status \in {Done, Exhausted} :
         DoneAtOnce("write", status) /\ Send(status) /\ UNCHANGED <<data, ended>>
    \/ /\ speculative["write"] => ~Writable
       /\ Enqueue("write", "send")
       /\ AddOutEvents
       /\ full' = (full \/ ~Writable)

\* Mutated form: the wait relies on the next edge.
NotRearmed == UNCHANGED listed

\* EPOLL_CTL_MOD puts a socket that is ready on the list again.
Rearm == listed' = (listed \/ Ready # {})

\* async_wait(wait_read), start_op without allow_speculative: the item is armed again
StartWait ==
    /\ Enqueue("read", "wait")
    /\ Rearm
    /\ UNCHANGED <<outEvents, full>>

\* Mutated form: only what reads is aborted.
AbortReads == op' = [op EXCEPT !["read"] = None]

\* Every operation ends with operation_aborted.
AbortAll == op' = [e \in Types |-> None]

\* cancel_ops
CancelOps ==
    /\ open /\ AbortAll
    /\ UNCHANGED <<speculative, outEvents, open, sockets, socket, listed, queued, held>>

\* deregister_descriptor and cleanup_descriptor_data: the operations are aborted, the
\* close takes the socket out of epoll and the descriptor_state goes to the pool
Deregister ==
    /\ open /\ AbortAll
    /\ open' = FALSE /\ listed' = FALSE
    /\ data' = 0 /\ fin' = FALSE /\ ended' = FALSE /\ space' = 0 /\ full' = FALSE
    /\ UNCHANGED <<speculative, outEvents, sockets, queued, held>>
-----------------------------------------------------------------------------
\* epoll_reactor::run: the item leaves the list; if the socket is ready then, its
\* descriptor_state is queued with the events (it is in no queue when the task runs)
EpollWait ==
    /\ listed /\ queued = {}
    /\ listed' = FALSE
    /\ queued' = Ready
    /\ UNCHANGED <<op, speculative, outEvents, open, sockets, socket, held>>

\* do_run_one takes the descriptor_state and a copy of its events.
Take(t) ==
    /\ queued # {} /\ held[t] = {}
    /\ held' = [held EXCEPT ![t] = queued]
    /\ queued' = {}
    /\ UNCHANGED <<op, speculative, outEvents, open, sockets, socket, listed>>

\* Mutated form: an event that finds no operation is forgotten.
EventGuessTried(e) == speculative[e] \/ op[e] # None

\* try_speculative_[j] = true for what the event is about
EventGuess(e) == TRUE

\* perform_io, the loop for type read; a wait is done as soon as it is tried
PerformRead(events, status) ==
    \/ "read" \in events /\ op["read"] = "receive" /\ Receive(status)
    \/ "read" \in events /\ op["read"] = "wait" /\ status = Done /\ UNCHANGED <<data, ended>>
    \/ /\ "read" \notin events \/ op["read"] = None
       /\ status = NotDone /\ UNCHANGED <<data, ended>>

\* perform_io, the loop for type write
PerformWrite(events, status) ==
    \/ "write" \in events /\ op["write"] = "send" /\ Send(status)
    \/ /\ "write" \notin events \/ op["write"] = None
       /\ status = NotDone /\ UNCHANGED <<space, full>>

\* descriptor_state::perform_io: try what waits for the events that were collected
PerformIo(t) ==
    /\ held[t] # {}
    /\ \E status \in [Types -> {NotDone, Done, Exhausted}] :
         /\ PerformRead(held[t], status["read"]) /\ PerformWrite(held[t], status["write"])
         /\ op' = [e \in Types |-> IF status[e] = NotDone THEN op[e] ELSE None]
         /\ speculative' = [e \in Types |-> IF e \in held[t]
                                            THEN Guess(EventGuess(e), status[e])
                                            ELSE speculative[e]]
    /\ held' = [held EXCEPT ![t] = {}]
    /\ UNCHANGED <<outEvents, open, sockets, fin, listed, queued>>
-----------------------------------------------------------------------------
Next ==
    \/ Register \/ Deregister \/ Drain
    \/ \E n \in 0 .. MaxData : Arrive(n)
    \/ StartReceive \/ StartSend \/ StartWait \/ CancelOps
    \/ EpollWait
    \/ \E t \in Threads : Take(t) \/ PerformIo(t)

Spec == Init /\ [][Next]_vars

(***************************************************************************)
(* The scheduler runs the reactor and what it queues again and again, and  *)
(* the peer takes what is sent.  Nothing makes it send, or the program     *)
(* start an operation.                                                     *)
(***************************************************************************)
FairSpec ==
    /\ Spec
    /\ WF_vars(EpollWait) /\ WF_vars(\E t \in Threads : Take(t)) /\ WF_vars(Drain)
    /\ \A t \in Threads : WF_vars(PerformIo(t))
-----------------------------------------------------------------------------
OperationTypes ==
    /\ op \in [Types -> {None, "receive", "wait", "send"}]
    /\ op["read"] # "send" /\ op["write"] \in {None, "send"}
    /\ ~open => op = [e \in Types |-> None]
    /\ queued \subseteq Types /\ held \in [Threads -> SUBSET Types]

NumberTypes == sockets \in 0 .. MaxSockets /\ data \in 0 .. MaxData /\ space \in 0 .. Room

FlagTypes ==
    /\ speculative \in [Types -> BOOLEAN]
    /\ outEvents \in BOOLEAN /\ open \in BOOLEAN /\ listed \in BOOLEAN
    /\ fin \in BOOLEAN /\ ended \in BOOLEAN /\ full \in BOOLEAN

\* Every variable keeps its type; a closed descriptor_state has no operations.
TypeOK == OperationTypes /\ NumberTypes /\ FlagTypes

\* An event of type e is on its way: epoll has it still, or a thread of the
\* scheduler brings it.
Coming(e) == listed \/ e \in queued \/ \E t \in Threads : e \in held[t]

\* An operation that could be done does not wait for an edge that is gone: epoll
\* tells of data, of the end of the stream and of room once only, and the event is
\* shared out between threads, cancelled operations and speculative tries.
NoLostEdge ==
    /\ op["read"] # None /\ Readable => Coming("read")
    /\ op["write"] # None /\ Writable => Coming("write")

\* The guess that trying to send is not worth it is wrong only while an event that
\* corrects it is on its way.  (The guess about reading changes only at the end of
\* the stream, where it is right.)
GuessCorrected ==
    ~speculative["write"] /\ Writable /\ outEvents => Coming("write")

\* A receive or a wait ends once the socket has something to read, a send once the
\* peer has made room, or they are aborted.
ReadEnds == op["read"] # None /\ Readable ~> op["read"] = None
WriteEnds == op["write"] # None ~> op["write"] = None
=============================================================================
