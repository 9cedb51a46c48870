----------------------------- MODULE TcpServer -----------------------------
(***************************************************************************)
(* The server: the owner's thread, the workers, the reactor and the        *)
(* clients in one next-state relation, and what is claimed of it.          *)
(***************************************************************************)
EXTENDS AcceptLoop, Sessions, Lifecycle

WorkerStep(w) ==
    EnterLoop(w) \/ Dequeue(w) \/ RunReturns(w) \/ AcceptStep(w) \/ SessionStep(w)

\* Nothing is left to do: the process is gone, shutdown() has returned, or every
\* worker waits for a client that has not connected yet.
AtRest ==
    \/ crashed # "no"
    \/ main = "down"
    \/ /\ main = "up" /\ queue = <<>> /\ ops = {} /\ timers = 0 /\ ~edge
       /\ \A w \in Workers : pc[w] = "idle"

Next ==
    \/ OwnerStep
    \/ \E w \in Workers : WorkerStep(w)
    \/ CollectAcceptor \/ CollectTimer
    \/ \E w \in Workers, op \in Op : Complete(w, op)
    \/ \E c \in Clients : Connect(c)
    \/ AtRest /\ UNCHANGED vars

Spec == Init /\ [][Next]_vars

(***************************************************************************)
(* The operating system schedules every thread, epoll reports what is      *)
(* ready, a timer expires, and a client finishes what the server waits     *)
(* for.  Nothing makes a client connect or the owner call shutdown().      *)
(***************************************************************************)
Fairness ==
    /\ \A w \in Workers : WF_vars(WorkerStep(w))
    /\ WF_vars(main # "up" /\ OwnerStep)
    /\ WF_vars(CollectAcceptor \/ CollectTimer)
    /\ \A c \in Clients :
         WF_vars(\E w \in Workers, k \in OpKinds : Complete(w, [k |-> k, c |-> c]))

FairSpec == Spec /\ Fairness
-----------------------------------------------------------------------------
InQueue(c) == \E i \in DOMAIN queue : queue[i].c = c
InWorker(c) == \E w \in Workers : job[w].c = c
InOps(c) == \E op \in ops : op.c = c

\* Each accepted client has at most one thing going on: a queued handler, a
\* running handler or a pending operation.  Nothing but the order in which the
\* handlers post one another keeps two threads off one ssl_socket, which is not
\* thread safe, and off one entry of m_received_messages.
OneContinuation == \A c \in Clients :
    /\ \A i, j \in DOMAIN queue : queue[i].c = c /\ queue[j].c = c => i = j
    /\ \A v, w \in Workers : job[v].c = c /\ job[w].c = c => v = w
    /\ \A o, p \in ops : o.c = c /\ p.c = c => o = p
    /\ ~(InQueue(c) /\ InWorker(c))
    /\ ~(InQueue(c) /\ InOps(c))
    /\ ~(InWorker(c) /\ InOps(c))

ListenKinds == {"listen", "accept", "timeout", "timer"}
ListenSteps == ListenKinds \cup {"listen_check", "async_accept", "post_handshake",
                                 "post_listen", "arm_timer"}

ListenQueued == {i \in DOMAIN queue : queue[i].k \in ListenKinds}
ListenRunning == {w \in Workers : pc[w] \in ListenSteps}

\* One round of listen(), in whatever form: queued, running, a waiting accept or an
\* armed timer.
OneRound ==
    /\ \A i, j \in ListenQueued : i = j
    /\ \A v, w \in ListenRunning : v = w
    /\ Len(acceptOps) + timers <= 1
    /\ ListenQueued = {} \/ ListenRunning = {}
    /\ ListenQueued \cup ListenRunning # {} => Len(acceptOps) + timers = 0

\* There is one round of listen() at a time.  Two rounds would draw ids concurrently
\* (and the same one), and would wait in one another's accepts.
OneListener == starts <= 1 => OneRound

\* random_generator is a static mt19937 without a lock of its own: the shared
\* lock of get_random_spare_id does not keep two workers out of it.
GeneratorExclusive ==
    \A v, w \in Workers : pc[v] = "id" /\ pc[w] = "id" => v = w

\* The client c has been given an id and shutdown_socket has not erased it yet.
Live(c) ==
    /\ idOf[c] # NoId
    /\ \/ InQueue(c) \/ InOps(c)
       \/ \E w \in Workers :
            job[w].c = c /\ pc[w] \notin {"close_socket", "decrement"}

\* m_active_client_ids is exactly the ids of the live clients: no id of a client
\* is lost or left behind.
ActiveIdsExact == activeIds = {idOf[c] : c \in {d \in Clients : Live(d)}}

\* get_random_spare_id looks at the active ids long before on_connection_attempt
\* inserts the one it drew; still no two live clients share an id.
UniqueIds == \A c, d \in Clients : Live(c) /\ Live(d) /\ c # d => idOf[c] # idOf[d]

\* The assertion in shutdown_socket (src/tcp_server.cc:72) never fails.
AssertHolds == crashed # "assert"

\* The worker waits in client_id_task->get_future().get().
Waiting(w) ==
    /\ pc[w] = "accept" /\ job[w].c # NoClient
    /\ promises[job[w].n] = NoId

\* The task that on_connection_attempt waits for is never lost: it is queued or
\* another worker runs it.
PromiseKept == \A w \in Workers : Waiting(w) =>
    \/ \E i \in DOMAIN queue : queue[i] = IdTask(job[w].n)
    \/ \E v \in Workers : pc[v] = "id" /\ job[v].n = job[w].n

\* m_received_messages[client_id] is evaluated under a shared lock before
\* async_write and in on_write: the entry is there, so nothing is inserted.
NoInsertUnderSharedLock == \A w \in Workers :
    pc[w] = "on_write" \/ (pc[w] = "reply" /\ job[w].r = "eof")
        => messages[idOf[job[w].c]] # <<>>

Writing(c) ==
    \/ [k |-> "write", c |-> c] \in ops
    \/ \E w \in Workers : pc[w] = "on_write" /\ job[w].c = c

\* async_write and on_write use the client's entry without the lock: nobody
\* changes it while they do.
BufferStable ==
    [][\A c \in Clients : Writing(c) /\ idOf[c] # NoId =>
          messages'[idOf[c]] = messages[idOf[c]]]_vars

\* The response ends with everything that was read from the client, in order.
EchoComplete == \A c \in Clients : reply[c] # <<>> =>
    /\ delivered[c] <= Len(reply[c])
    /\ \A i \in Len(reply[c]) - delivered[c] + 1 .. Len(reply[c]) : reply[c][i] = c

\* m_active_connections is the number of clients with a completed handshake.
CountTracksSessions == count = Cardinality(counted)

\* No exception leaves a function that is declared noexcept.
NoexceptHolds == crashed # "noexcept"

\* A worker whose run() has returned leaves its loop: it never spins in
\* while(m_server_running) run() on a stopped context.
NoSpin == \A w \in Workers : pc[w] \in {"loop", "idle"} /\ stopped => ~running

\* What shutdown() leaves behind is left alone for good: the handlers still queued,
\* which hold sockets and ids, the pending operations and the connections.  start()
\* after shutdown() opens the acceptor and posts listen() again, but the pool has no
\* threads, the context stays stopped, and no client of the second life is served.
NothingServedAgain ==
    [][starts > 1 => UNCHANGED <<peer, idVars, ops, dataVars, countVars>>]_vars
-----------------------------------------------------------------------------
\* A worker that waits for an id gets it, unless shutdown() stops the context first.
AcceptUnblocks ==
    (\E w \in Workers : Waiting(w)) ~>
        \/ \A w \in Workers : ~Waiting(w)
        \/ stopped \/ crashed # "no"

\* A client in the backlog is accepted, after a connection timeout if need be.
ServesEveryone == \A c \in Clients : peer[c] = "backlog" ~> peer[c] # "backlog"

\* An accepted client is let go, and its id with it, unless shutdown() stops the
\* context first.
SessionEnds == \A c \in Clients :
    peer[c] = "open" ~> \/ peer[c] = "closed" /\ ~Live(c)
                        \/ stopped \/ crashed # "no"

\* shutdown() returns: join() does not wait for a worker forever.
ShutdownReturns == main = "join" ~> main = "down" \/ crashed # "no"

\* Only a worker in get(), whose id task is still queued in the stopped context,
\* can keep shutdown() from returning: every other handler ends, and its worker
\* leaves run() and the loop, wherever stop() finds it.
OnlyIdTaskBlocksJoin ==
    main = "join" ~> \/ main = "down" \/ crashed # "no"
                     \/ \E w \in Workers : /\ Waiting(w)
                                           /\ \E i \in DOMAIN queue :
                                                queue[i] = IdTask(job[w].n)
=============================================================================
