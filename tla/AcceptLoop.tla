----------------------------- MODULE AcceptLoop -----------------------------
(***************************************************************************)
(* The listening side of the server: listen(), the packaged task that      *)
(* draws a client id, on_connection_attempt and connection_timeout().      *)
(***************************************************************************)
EXTENDS IoContext

\* listen(): m_acceptor.listen()
Listen(w) ==
    /\ At(w, "listen") /\ acceptor # "closed"
    /\ acceptor' = "listening"
    /\ Goto(w, "listen_check")
    /\ UNCHANGED <<mainVars, queue, edge, acceptOps, timers, promises, idVars,
                   peer, ops, dataVars, countVars, crashed>>

\* m_acceptor.listen() and m_acceptor.cancel() throw bad_descriptor on a closed
\* acceptor; listen() and connection_timeout() are noexcept.
AcceptorThrows(w) ==
    /\ At(w, "listen") \/ At(w, "timeout")
    /\ acceptor = "closed"
    /\ Crash("noexcept")

\* Mutated form: the limit itself counts as too many.
FullAtLimit == count >= MaxConnections

\* listen() finds that max_connections is exceeded.
Full == count > MaxConnections

\* listen(): too many connections, go deaf for a while
ListenFull(w) ==
    /\ At(w, "listen_check") /\ Full
    /\ Post(ServerTask("timeout"))
    /\ Return(w)
    /\ UNCHANGED <<mainVars, listenVars, idVars, peer, ops, dataVars, countVars,
                   crashed>>

\* Mutated form: the client_id_task is made and never posted.
PostIdTaskForgotten(w) ==
    /\ At(w, "listen_check") /\ ~Full
    /\ promises' = Append(promises, NoId)
    /\ job' = [job EXCEPT ![w] = IdTask(Len(promises) + 1)]
    /\ pc' = [pc EXCEPT ![w] = "async_accept"]
    /\ UNCHANGED <<mainVars, queue, stopped, acceptor, edge, acceptOps, timers,
                   idVars, peer, ops, dataVars, countVars, crashed>>

\* listen(): make the client_id_task of this round and post it
PostIdTask(w) ==
    /\ At(w, "listen_check") /\ ~Full
    /\ LET n == Len(promises) + 1
       IN /\ promises' = Append(promises, NoId)
          /\ Post(IdTask(n))
          /\ job' = [job EXCEPT ![w] = IdTask(n)]
    /\ pc' = [pc EXCEPT ![w] = "async_accept"]
    /\ UNCHANGED <<mainVars, stopped, acceptor, edge, acceptOps, timers, idVars,
                   peer, ops, dataVars, countVars, crashed>>

\* What accept(2) makes of a round: a client of the backlog, or an error.
Accepted(c) ==
    \/ c \in Backlog /\ peer' = [peer EXCEPT ![c] = "open"]
    \/ c = NoClient /\ "accept_error" \in Env /\ UNCHANGED peer

\* listen(): async_accept.  epoll_reactor::start_op tries accept(2) at once and
\* posts the handler; otherwise the operation waits with the descriptor.
AsyncAccept(w) ==
    /\ At(w, "async_accept")
    /\ LET n == job[w].n
       IN \/ /\ acceptor = "closed"
             /\ Post(AcceptTask(n, NoClient))
             /\ UNCHANGED <<acceptOps, peer>>
          \/ /\ acceptor # "closed" /\ acceptOps = <<>>
             /\ \E c \in Clients \cup {NoClient} :
                  Accepted(c) /\ Post(AcceptTask(n, c))
             /\ UNCHANGED acceptOps
          \/ /\ acceptor # "closed" /\ (acceptOps # <<>> \/ Backlog = {})
             /\ acceptOps' = Append(acceptOps, n)
             /\ UNCHANGED <<queue, peer>>
    /\ Return(w)
    /\ UNCHANGED <<mainVars, acceptor, edge, timers, promises, idVars, ops,
                   dataVars, countVars, crashed>>

\* perform_io of the acceptor's descriptor: a waiting accept that succeeds now
\* has its handler run in place, ahead of everything queued meanwhile.
AcceptorReady(w) ==
    /\ At(w, "acceptor")
    /\ \/ /\ acceptOps # <<>>
          /\ \E c \in Clients \cup {NoClient} :
               /\ Accepted(c)
               /\ job' = [job EXCEPT ![w] = AcceptTask(Head(acceptOps), c)]
          /\ acceptOps' = Tail(acceptOps)
          /\ pc' = [pc EXCEPT ![w] = "accept"]
          /\ UNCHANGED stopped
       \/ /\ acceptOps = <<>> \/ Backlog = {}
          /\ Return(w)
          /\ UNCHANGED <<acceptOps, peer>>
    /\ UNCHANGED <<mainVars, queue, acceptor, edge, timers, promises, idVars, ops,
                   dataVars, countVars, crashed>>
-----------------------------------------------------------------------------
\* Mutated form: the drawn id is not compared with the active ones.
AnyId == Ids

\* The ids on which get_random_spare_id's loop ends.
SpareIds == Ids \ activeIds

\* The posted client_id_task runs get_random_spare_id() under the shared lock.
GetRandomSpareId(w) ==
    /\ At(w, "id")
    /\ \E i \in SpareIds : promises' = [promises EXCEPT ![job[w].n] = i]
    /\ Return(w)
    /\ UNCHANGED <<mainVars, queue, acceptor, edge, acceptOps, timers, idVars,
                   peer, ops, dataVars, countVars, crashed>>

\* on_connection_attempt with an error: nothing is posted
AcceptFailed(w) ==
    /\ At(w, "accept") /\ job[w].c = NoClient
    /\ Return(w)
    /\ UNCHANGED <<mainVars, queue, listenVars, idVars, peer, ops, dataVars,
                   countVars, crashed>>

\* on_connection_attempt: get() blocks the worker until the id is there, and
\* moves it out of the task
InsertId(w) ==
    /\ At(w, "accept") /\ job[w].c # NoClient
    /\ promises[job[w].n] # NoId
    /\ activeIds' = activeIds \cup {promises[job[w].n]}
    /\ idOf' = [idOf EXCEPT ![job[w].c] = promises[job[w].n]]
    /\ promises' = [promises EXCEPT ![job[w].n] = NoId]
    /\ Goto(w, "post_handshake")
    /\ UNCHANGED <<mainVars, queue, acceptor, edge, acceptOps, timers, peer, ops,
                   dataVars, countVars, crashed>>

\* on_connection_attempt: post attempt_handshake, then the next listen
PostHandshake(w) ==
    /\ At(w, "post_handshake")
    /\ Post(ClientTask("handshake", job[w].c, "ok"))
    /\ pc' = [pc EXCEPT ![w] = "post_listen"]
    /\ job' = [job EXCEPT ![w] = NoTask]
    /\ UNCHANGED <<mainVars, stopped, listenVars, idVars, peer, ops, dataVars,
                   countVars, crashed>>

\* Mutated form: two rounds of listen() are posted.
PostListenTwice(w) ==
    /\ At(w, "post_listen") \/ At(w, "timer")
    /\ queue' = queue \o <<ServerTask("listen"), ServerTask("listen")>>
    /\ Return(w)
    /\ UNCHANGED <<mainVars, listenVars, idVars, peer, ops, dataVars, countVars,
                   crashed>>

\* on_connection_attempt's last post, and the handler of the timeout's timer
PostListen(w) ==
    /\ At(w, "post_listen") \/ At(w, "timer")
    /\ Post(ServerTask("listen"))
    /\ Return(w)
    /\ UNCHANGED <<mainVars, listenVars, idVars, peer, ops, dataVars, countVars,
                   crashed>>

\* connection_timeout(): m_acceptor.cancel()
ConnectionTimeout(w) ==
    /\ At(w, "timeout") /\ acceptor # "closed"
    /\ queue' = queue \o Aborted
    /\ acceptOps' = <<>>
    /\ Goto(w, "arm_timer")
    /\ UNCHANGED <<mainVars, acceptor, edge, timers, promises, idVars, peer, ops,
                   dataVars, countVars, crashed>>

\* connection_timeout(): timeout_timer->async_wait
ArmTimer(w) ==
    /\ At(w, "arm_timer")
    /\ timers' = timers + 1
    /\ Return(w)
    /\ UNCHANGED <<mainVars, queue, acceptor, edge, acceptOps, promises, idVars,
                   peer, ops, dataVars, countVars, crashed>>

AcceptStep(w) ==
    \/ Listen(w) \/ AcceptorThrows(w) \/ ListenFull(w) \/ PostIdTask(w)
    \/ AsyncAccept(w) \/ AcceptorReady(w) \/ GetRandomSpareId(w)
    \/ AcceptFailed(w) \/ InsertId(w) \/ PostHandshake(w) \/ PostListen(w)
    \/ ConnectionTimeout(w) \/ ArmTimer(w)
=============================================================================
