----------------------------- MODULE IoContext -----------------------------
(***************************************************************************)
(* The io_context as the server uses it: asio::post, the worker threads'   *)
(* run() loop, the reactor that turns readiness of sockets and timers into *)
(* queued handlers, and the clients' side of the sockets.                  *)
(*                                                                         *)
(* A worker runs one handler at a time.  pc[w] names the next access that  *)
(* the handler makes to state which other threads share, so a handler      *)
(* with several such accesses is several actions and interleaves with the  *)
(* handlers of the other workers and with the owner's thread.              *)
(***************************************************************************)
EXTENDS ServerState

Post(t) == queue' = Append(queue, t)

\* Worker w is about to make this step.  A crash ends every thread.
At(w, step) == crashed = "no" /\ pc[w] = step

Goto(w, step) == pc' = [pc EXCEPT ![w] = step] /\ UNCHANGED <<job, stopped>>

\* The handler returns to run(), its lambda and what it captured are destroyed.
Return(w) ==
    /\ pc' = [pc EXCEPT ![w] = "idle"]
    /\ job' = [job EXCEPT ![w] = NoTask]
    /\ UNCHANGED stopped

\* std::terminate or abort: no thread of the process makes another step.
Crash(why) ==
    /\ crashed' = why
    /\ UNCHANGED <<mainVars, ioVars, listenVars, idVars, peer, ops, dataVars,
                   countVars>>

\* epoll_wait is called by whichever worker has no handler to run.
ReactorRuns == ~stopped /\ \E w \in Workers : At(w, "idle")

\* The handlers of accept operations that are cancelled: operation_aborted.
Aborted == [i \in DOMAIN acceptOps |-> AcceptTask(acceptOps[i], NoClient)]

Backlog == {c \in Clients : peer[c] = "backlog"}

\* Mutated form: the server holds no work guard.
NoWorkUnguarded ==
    /\ \A i \in DOMAIN queue : queue[i].k = "acceptor"
    /\ \A w \in Workers : pc[w] \in {"new", "loop", "idle", "exited"}
    /\ acceptOps = <<>> /\ timers = 0 /\ ops = {}

\* scheduler::outstanding_work_ is zero.  The acceptor's descriptor event is
\* not counted as work.
NoWork ==
    /\ ~guard
    /\ \A i \in DOMAIN queue : queue[i].k = "acceptor"
    /\ \A w \in Workers : pc[w] \in {"new", "loop", "idle", "exited"}
    /\ acceptOps = <<>> /\ timers = 0 /\ ops = {}
-----------------------------------------------------------------------------
\* do_run_one takes the first handler of the queue.
Dequeue(w) ==
    /\ At(w, "idle") /\ ~stopped /\ queue # <<>>
    /\ pc' = [pc EXCEPT ![w] = Head(queue).k]
    /\ job' = [job EXCEPT ![w] = Head(queue)]
    /\ queue' = Tail(queue)
    /\ UNCHANGED <<mainVars, stopped, listenVars, idVars, peer, ops, dataVars,
                   countVars, crashed>>

\* Mutated form: the loop does not look at m_server_running.
EnterLoopAlways(w) ==
    /\ At(w, "loop")
    /\ Goto(w, "idle")
    /\ UNCHANGED <<mainVars, queue, listenVars, idVars, peer, ops, dataVars, countVars,
                   crashed>>

\* worker_thread: while(m_server_running) run()
EnterLoop(w) ==
    /\ At(w, "loop")
    /\ Goto(w, IF running THEN "idle" ELSE "exited")
    /\ UNCHANGED <<mainVars, queue, listenVars, idVars, peer, ops, dataVars, countVars,
                   crashed>>

\* run() returns because the context is stopped or out of work.
RunReturns(w) ==
    /\ At(w, "idle") /\ (stopped \/ NoWork)
    /\ stopped' = TRUE
    /\ pc' = [pc EXCEPT ![w] = "loop"]
    /\ UNCHANGED <<mainVars, queue, job, listenVars, idVars, peer, ops, dataVars,
                   countVars, crashed>>

\* epoll reports the acceptor: its descriptor_state is queued, once.
CollectAcceptor ==
    /\ ReactorRuns /\ edge
    /\ edge' = FALSE
    /\ IF \E i \in DOMAIN queue : queue[i].k = "acceptor"
       THEN UNCHANGED queue
       ELSE Post(ServerTask("acceptor"))
    /\ UNCHANGED <<mainVars, pc, job, stopped, acceptor, acceptOps, timers,
                   promises, idVars, peer, ops, dataVars, countVars, crashed>>

\* A connection timeout of timeout_seconds is over.
CollectTimer ==
    /\ ReactorRuns /\ timers > 0
    /\ timers' = timers - 1
    /\ Post(ServerTask("timer"))
    /\ UNCHANGED <<mainVars, pc, job, stopped, acceptor, edge, acceptOps, promises,
                   idVars, peer, ops, dataVars, countVars, crashed>>
-----------------------------------------------------------------------------
\* The handler that an operation completes into.
HandlerOf == [handshake |-> "on_handshake", wait |-> "on_wait",
              read |-> "on_read", write |-> "on_write"]

\* What the client and the network may make of an operation.  A read ends with
\* data ("ok", while the client has more to send), with data and eof, or
\* without data.
Outcomes(op) ==
    LET failing(e) == {"ok"} \cup IF e \in Env THEN {"err"} ELSE {}
    IN CASE op.k = "handshake" -> failing("handshake_error")
         [] op.k = "wait"      -> failing("wait_error")
         [] op.k = "write"     -> failing("write_error")
         [] op.k = "read"      ->
              (IF delivered[op.c] < MaxChunks THEN {"ok", "eof"} ELSE {})
              \cup (IF "read_error" \in Env \/ delivered[op.c] = MaxChunks
                    THEN {"err"} ELSE {})

\* perform_io of a client's descriptor: the operation is done and its handler runs
\* in place, whatever was queued meanwhile.  An operation that is done at once when
\* it starts has its handler posted; here it may complete at any time just as well.
Complete(w, op) ==
    /\ At(w, "idle") /\ ~stopped /\ op \in ops
    /\ ops' = ops \ {op}
    /\ pc' = [pc EXCEPT ![w] = HandlerOf[op.k]]
    /\ \E r \in Outcomes(op) :
         /\ job' = [job EXCEPT ![w] = ClientTask(HandlerOf[op.k], op.c, r)]
         /\ delivered' = IF op.k = "read" /\ r # "err"
                         THEN [delivered EXCEPT ![op.c] = @ + 1] ELSE delivered
    /\ UNCHANGED <<mainVars, queue, stopped, listenVars, idVars, peer, messages,
                   reply, countVars, crashed>>

\* The kernel completes a connection into the backlog of the listening socket.
Connect(c) ==
    /\ crashed = "no" /\ acceptor = "listening" /\ peer[c] = "new"
    /\ peer' = [peer EXCEPT ![c] = "backlog"]
    /\ edge' = TRUE
    /\ UNCHANGED <<mainVars, ioVars, acceptor, acceptOps, timers, promises, idVars,
                   ops, dataVars, countVars, crashed>>
=============================================================================
