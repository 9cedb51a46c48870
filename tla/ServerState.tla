---------------------------- MODULE ServerState ----------------------------
(***************************************************************************)
(* The state of one Tcp_server object (include/tcp_server.h), of the asio  *)
(* io_context its handlers run in and of the clients it talks to.          *)
(*                                                                         *)
(* A client is identified with the ssl_socket it is accepted into: every   *)
(* lambda of the server captures the socket, and the client_id next to it  *)
(* is the value of idOf.  A record of Task is a handler waiting in the     *)
(* io_context, together with what its lambda captured.                     *)
(***************************************************************************)
EXTENDS Integers, Sequences, FiniteSets

CONSTANTS
    Workers,         \* the m_thread_count threads that run the io_context
    Clients,         \* the clients that may connect
    Ids,             \* the values get_random_spare_id may draw (2^64 of them)
    NoClient, NoId,  \* "no such value"
    MaxConnections,  \* max_connections (100)
    CountMod,        \* 2^32: m_active_connections is an atomic_uint32_t
    MaxChunks,       \* bound: reads that deliver data, per client
    MaxStarts,       \* bound: calls of start()
    Env              \* the environment's events that may happen

EnvEvents == {"shutdown", "bad_certs", "port_in_use", "accept_error",
              "handshake_error", "wait_error", "read_error", "write_error",
              "peer_gone"}

ASSUME ConstantsAssumption ==
    /\ Workers # {}
    /\ IsFiniteSet(Clients)
    /\ NoClient \notin Clients
    /\ NoId \notin Ids
    /\ MaxConnections \in Nat
    /\ CountMod \in Nat
    /\ MaxConnections + 1 < CountMod
    /\ MaxChunks \in Nat
    /\ MaxStarts \in Nat
    /\ Env \subseteq EnvEvents

(* There are more ids than sockets, so get_random_spare_id finds a spare one. *)
ASSUME SpareIdAssumption ==
    IsFiniteSet(Ids) /\ Cardinality(Ids) > Cardinality(Clients)

VARIABLES
    main,       \* where the owner's thread is in start() and shutdown()
    running,    \* m_server_running
    guard,      \* m_executor_guard still holds the io_context
    starts,     \* calls of start() so far
    queue,      \* the io_context's handler queue (scheduler::op_queue_)
    pc,         \* per worker, the next step of the handler it runs
    job,        \* per worker, the Task it runs
    stopped,    \* scheduler::stopped_
    acceptor,   \* m_acceptor
    edge,       \* epoll has an event of the acceptor not yet collected
    acceptOps,  \* accept operations the acceptor's descriptor waits with
    timers,     \* armed steady_timers of connection_timeout
    promises,   \* per round of listen(), the id in its client_id_task's future
    activeIds,  \* m_active_client_ids
    idOf,       \* the client_id captured with a socket
    peer,       \* per client, its connection
    ops,        \* asynchronous operations pending on client sockets
    messages,   \* m_received_messages, absent keys mapped to <<>>
    delivered,  \* history: reads that delivered data of the client
    reply,      \* history: the buffer handed to async_write for the client
    count,      \* m_active_connections
    counted,    \* history: clients that count includes
    crashed     \* why the process died, or "no"

mainVars   == <<main, running, guard, starts>>
ioVars     == <<queue, pc, job, stopped>>
listenVars == <<acceptor, edge, acceptOps, timers, promises>>
idVars     == <<activeIds, idOf>>
dataVars   == <<messages, delivered, reply>>
countVars  == <<count, counted>>
vars == <<mainVars, ioVars, listenVars, idVars, peer, ops, dataVars, countVars,
          crashed>>
-----------------------------------------------------------------------------
Kinds == {"listen", "id", "accept", "acceptor", "timeout", "timer", "handshake",
          "on_handshake", "read", "on_wait", "on_read", "process", "on_write",
          "shutdown", "none"}

\* "ok": no error_code; "eof": data and then the end of the stream; "err": any
\* other error, or a read without data
Results == {"ok", "eof", "err"}

Task == [k : Kinds, c : Clients \cup {NoClient}, n : Nat, r : Results]

ServerTask(k) == [k |-> k, c |-> NoClient, n |-> 0, r |-> "ok"]
IdTask(n) == [k |-> "id", c |-> NoClient, n |-> n, r |-> "ok"]
AcceptTask(n, c) == [k |-> "accept", c |-> c, n |-> n, r |-> "ok"]
ClientTask(k, c, r) == [k |-> k, c |-> c, n |-> 0, r |-> r]
NoTask == ServerTask("none")

OpKinds == {"handshake", "wait", "read", "write"}
Op == [k : OpKinds, c : Clients]

MainSteps == {"new", "post_workers", "configure_ssl", "configure_acceptor",
              "post_listen", "up", "shutdown", "reset_guard", "cancel_acceptor",
              "close_acceptor", "stop_context", "join", "down"}

WorkerSteps == Kinds \cup
    {"new", "loop", "idle", "exited", "listen_check", "async_accept",
     "post_handshake", "post_listen", "arm_timer", "post_read", "reply",
     "close_socket", "decrement"}

Init ==
    /\ main = "new" /\ running = FALSE /\ guard = TRUE /\ starts = 0
    /\ queue = <<>> /\ stopped = FALSE
    /\ pc = [w \in Workers |-> "new"]
    /\ job = [w \in Workers |-> NoTask]
    /\ acceptor = "closed" /\ edge = FALSE /\ acceptOps = <<>> /\ timers = 0
    /\ promises = <<>> /\ activeIds = {}
    /\ idOf = [c \in Clients |-> NoId]
    /\ peer = [c \in Clients |-> "new"]
    /\ ops = {}
    /\ messages = [i \in Ids |-> <<>>]
    /\ delivered = [c \in Clients |-> 0]
    /\ reply = [c \in Clients |-> <<>>]
    /\ count = 0 /\ counted = {}
    /\ crashed = "no"

\* Every variable holds a value of the C++ member it stands for; the counter
\* stays inside its 32 bits although shutdown_socket may take it below zero.
TypeOK ==
    /\ main \in MainSteps /\ running \in BOOLEAN /\ guard \in BOOLEAN
    /\ starts \in Nat
    /\ queue \in Seq(Task) /\ stopped \in BOOLEAN
    /\ pc \in [Workers -> WorkerSteps]
    /\ job \in [Workers -> Task]
    /\ acceptor \in {"closed", "bound", "listening"} /\ edge \in BOOLEAN
    /\ acceptOps \in Seq(Nat) /\ timers \in Nat
    /\ promises \in Seq(Ids \cup {NoId})
    /\ activeIds \subseteq Ids
    /\ idOf \in [Clients -> Ids \cup {NoId}]
    /\ peer \in [Clients -> {"new", "backlog", "open", "closed"}]
    /\ ops \subseteq Op
    /\ messages \in [Ids -> Seq(Clients)]
    /\ delivered \in [Clients -> Nat]
    /\ reply \in [Clients -> Seq(Clients)]
    /\ count \in 0 .. CountMod - 1 /\ counted \subseteq Clients
    /\ crashed \in {"no", "noexcept", "assert"}
=============================================================================
