----------------------------- MODULE Lifecycle -----------------------------
(***************************************************************************)
(* The owner's thread: start(), shutdown() (called by the destructor) and  *)
(* the two configure functions.  The workers run concurrently with it.     *)
(***************************************************************************)
EXTENDS IoContext

\* The owner's thread is about to make this step of start() or shutdown().
MainAt(step) == crashed = "no" /\ main = step

\* start(): set m_server_running
Start ==
    /\ (MainAt("new") \/ MainAt("down")) /\ ~running /\ starts < MaxStarts
    /\ running' = TRUE /\ starts' = starts + 1
    /\ main' = "post_workers"
    /\ UNCHANGED <<guard, ioVars, listenVars, idVars, peer, ops, dataVars, countVars,
                   crashed>>

\* start(): post worker_thread to the pool, whose threads exist until join()
PostWorkers ==
    /\ MainAt("post_workers")
    /\ pc' = [w \in Workers |-> IF pc[w] = "new" THEN "loop" ELSE pc[w]]
    /\ main' = "configure_ssl"
    /\ UNCHANGED <<running, guard, starts, queue, job, stopped, listenVars, idVars,
                   peer, ops, dataVars, countVars, crashed>>

\* configure_ssl_context(): without certificate files the catch block calls
\* shutdown()
ConfigureSsl ==
    /\ MainAt("configure_ssl")
    /\ \/ main' = "configure_acceptor"
       \/ "bad_certs" \in Env /\ main' = "shutdown"
    /\ UNCHANGED <<running, guard, starts, ioVars, listenVars, idVars, peer, ops,
                   dataVars, countVars, crashed>>

\* configure_acceptor(): open and bind.  epoll reports the new socket (EPOLLHUP)
\* before it listens.
ConfigureAcceptor ==
    /\ MainAt("configure_acceptor")
    /\ acceptor' = "bound" /\ edge' = TRUE
    /\ main' = "post_listen"
    /\ UNCHANGED <<running, guard, starts, ioVars, acceptOps, timers, promises,
                   idVars, peer, ops, dataVars, countVars, crashed>>

\* configure_acceptor(): bind throws, and the function is noexcept
BindThrows ==
    /\ MainAt("configure_acceptor") /\ "port_in_use" \in Env
    /\ Crash("noexcept")

\* start(): post the first listen()
PostFirstListen ==
    /\ MainAt("post_listen")
    /\ Post(ServerTask("listen"))
    /\ main' = "up"
    /\ UNCHANGED <<running, guard, starts, pc, job, stopped, listenVars, idVars,
                   peer, ops, dataVars, countVars, crashed>>
-----------------------------------------------------------------------------
\* shutdown(): clear m_server_running
Shutdown ==
    /\ MainAt("shutdown") \/ (MainAt("up") /\ "shutdown" \in Env)
    /\ running
    /\ running' = FALSE
    /\ main' = "reset_guard"
    /\ UNCHANGED <<guard, starts, ioVars, listenVars, idVars, peer, ops, dataVars,
                   countVars, crashed>>

\* shutdown(): m_executor_guard.reset()
ResetGuard ==
    /\ MainAt("reset_guard")
    /\ guard' = FALSE
    /\ main' = "cancel_acceptor"
    /\ UNCHANGED <<running, starts, ioVars, listenVars, idVars, peer, ops, dataVars,
                   countVars, crashed>>

\* shutdown(): m_acceptor.cancel()
CancelAcceptor ==
    /\ MainAt("cancel_acceptor") /\ acceptor # "closed"
    /\ queue' = queue \o Aborted
    /\ acceptOps' = <<>>
    /\ main' = "close_acceptor"
    /\ UNCHANGED <<running, guard, starts, pc, job, stopped, acceptor, edge, timers,
                   promises, idVars, peer, ops, dataVars, countVars, crashed>>

\* shutdown(): m_acceptor.cancel() throws on an acceptor that was never opened
CancelThrows ==
    /\ MainAt("cancel_acceptor") /\ acceptor = "closed"
    /\ Crash("noexcept")

\* Mutated form: shutdown() only cancels the accepts.
AcceptorLeftOpen ==
    /\ MainAt("close_acceptor")
    /\ main' = "stop_context"
    /\ UNCHANGED <<running, guard, starts, ioVars, listenVars, idVars, peer, ops,
                   dataVars, countVars, crashed>>

\* shutdown(): m_acceptor.close(); the kernel resets what is in the backlog
CloseAcceptor ==
    /\ MainAt("close_acceptor")
    /\ acceptor' = "closed" /\ edge' = FALSE
    /\ queue' = queue \o Aborted
    /\ acceptOps' = <<>>
    /\ peer' = [c \in Clients |-> IF c \in Backlog THEN "closed" ELSE peer[c]]
    /\ main' = "stop_context"
    /\ UNCHANGED <<running, guard, starts, pc, job, stopped, timers, promises,
                   idVars, ops, dataVars, countVars, crashed>>

\* shutdown(): m_io_context.stop()
StopContext ==
    /\ MainAt("stop_context")
    /\ stopped' = TRUE
    /\ main' = "join"
    /\ UNCHANGED <<running, guard, starts, queue, pc, job, listenVars, idVars, peer,
                   ops, dataVars, countVars, crashed>>

\* Every thread of the pool has left its worker_thread loop.
AllExited == \A w \in Workers : pc[w] = "exited"

\* shutdown(): m_thread_pool.join() returns when every worker has left its loop
Join ==
    /\ MainAt("join") /\ AllExited
    /\ main' = "down"
    /\ UNCHANGED <<running, guard, starts, ioVars, listenVars, idVars, peer, ops,
                   dataVars, countVars, crashed>>

OwnerStep ==
    \/ Start \/ PostWorkers \/ ConfigureSsl \/ ConfigureAcceptor \/ BindThrows
    \/ PostFirstListen \/ Shutdown \/ ResetGuard \/ CancelAcceptor \/ CancelThrows
    \/ CloseAcceptor \/ StopContext \/ Join
=============================================================================
