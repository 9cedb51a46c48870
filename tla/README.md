# A TLA+ model of the TCP echo server

The repository is a small asynchronous TLS echo server: one class, `Tcp_server`
(`include/tcp_server.h`, `src/tcp_server.cc`), a logger and a main program, on top of a
vendored copy of asio (`ext/asio`). All of its behaviour is in completion handlers that a
pool of threads runs from one `io_context`; the correctness of the server depends on which
handler posts which, and on what may happen between two of them.

## The parts of the system

| Part | State | Operations | Talks to |
|---|---|---|---|
| Lifecycle | `m_server_running`, `m_executor_guard`, `m_thread_pool`, the acceptor | `start`, `shutdown` (also from the destructor), `configure_ssl_context`, `configure_acceptor` | posts the workers and the first `listen` |
| Listening side | `m_acceptor`, `m_active_client_ids`, one `packaged_task` per round, the timer of the deaf state | `listen`, `on_connection_attempt`, `connection_timeout`, `get_random_spare_id` | reads the connection counter; posts `attempt_handshake` and the next `listen` |
| Client session | the `ssl_socket` and `client_id` captured by its handlers, its entry of `m_received_messages`, `m_active_connections` | `attempt_handshake`, `read_message`, `process_message`, `shutdown_socket` and the handlers `on_handshake`, `on_read_wait_over`, `on_read`, `on_write` | erases its id, counts itself |
| asio's scheduler (`io_context`) | shared and per-thread handler queues, counts of outstanding work, the event idle threads wait on, stopped flag | `run`, the post functions, `stop` | runs the handlers; one thread at a time runs the reactor |
| asio's epoll reactor | per socket a `descriptor_state`: waiting operations, the guess whether to try at once, registered events | `start_op`, `cancel_ops`, `register`/`deregister_descriptor`, `run`, `perform_io` | queues descriptors with the scheduler |
| TLS stream (`asio::ssl`) | input buffer, what OpenSSL has decrypted and not given out | `async_handshake`, `async_read_some`, `async_write_some` | reads the socket that the session also asks for `available()` |
| Logger | a mutex | four print functions | nothing depends on it |
| Main, build files, certificate script | - | construct, start, sleep, destroy | the lifecycle |

What is hard here:

* an id is drawn in one handler, waited for in a second and inserted there, so it is checked
  long before it is used;
* `get_future().get()` blocks a thread of the very pool that has to run the awaited task;
* the server listens only because each round posts the next one;
* nothing but the order of the handlers keeps two threads off one TLS stream, off the static
  random generator (shared lock only) and off the string that `async_write` sends from;
* `shutdown` closes the acceptor under running handlers, stops the context with handlers still
  queued, and every acceptor call throws on a closed one inside `noexcept` functions;
* one counter is incremented by one handler and decremented by another that also runs for
  clients that were never counted;
* `available()` counts ciphertext, `async_read` waits for as many bytes of plaintext, and
  `process_message` stores the whole buffer: leftovers, exact fits, short and empty reads differ;
* below, asio has to wake the right thread (in its event, in `epoll_wait`, on its way to either)
  for every handler, and epoll tells of readiness once only.

`PROJECT.json` lists these hazards line by line with the property that watches each.

## Modules

| Module | Models |
|---|---|
| `ServerState` | the constants and their assumptions, the variables, what a queued handler is (`Task`), `Init`, `TypeOK` |
| `IoContext` | asio as the server uses it: `Post`, `Dequeue`, `RunReturns`, `EnterLoop`, the reactor (`CollectAcceptor`, `CollectTimer`, `Complete`), and clients that connect |
| `AcceptLoop` | `listen`, the id task, `on_connection_attempt`, `connection_timeout` |
| `Sessions` | handshake, read, process, write and `shutdown_socket` of a client |
| `Lifecycle` | the owner's thread in `start` and `shutdown` |
| `TcpServer` | composes the four into `Next`, `Spec` and `FairSpec`, and states the properties |
| `EchoService` | abstract: each client served by itself, hear - store - answer - dismiss, under an id of its own |
| `ServiceRefinement` | the mapping under which `TcpServer` implements `EchoService` (`IsEchoService`) |
| `TlsSession` | one session byte by byte: records, ciphertext, plaintext, `available()`, the reads, the entry, the echo |
| `Scheduler` | `asio::detail::scheduler` and its event: `run`, `post_*_completion`, `work_cleanup`, `task_cleanup`, `stop` |
| `Executor` | abstract: what a program may expect of an `io_context` |
| `SchedulerProperties` | the scheduler's properties, and the mapping under which it implements `Executor` (`IsExecutor`) |
| `Reactor` | `epoll_reactor` and one `descriptor_state`, its socket, and threads that bring events late |
| `ServerInvariants` | the inductive strengthenings `IInv`, `OwnerInv`, `ClosedInv`, `ListenInv`, `IdInv`, `DataInv`, `CountInv`, and the phases of a session |
| `TcpServerProofs` | proofs about types, sockets and captured values (`IInv`) |
| `LifecycleProofs` | proofs about `start` and `shutdown` (`OwnerInv`, `ClosedInv`) |
| `ListenerProofs` | proofs about the rounds of `listen` (`ListenInv`) |
| `IdProofs` | proofs about the client ids (`IdInv`) |
| `ServiceProofs` | proofs about the messages and the counter (`DataInv`, `CountInv`), and that `TcpServer` implements `EchoService` |
| `TlsProofs` | proofs about a session's bytes (`IInv` of that module) |
| `ReactorProofs` | proofs about edges and guesses (`IInv` of that module) |
| `SchedulerInvariants` | the inductive strengthening `SchedulerInv` and its parts |
| `SchedulerProofs` | proofs about the scheduler (`SchedulerInv`), and that it implements `Executor` |
| `MCTcpServer`, `MCScheduler`, `MCReactor`, `MCTlsSession` | the root modules of the TLC runs; the symmetry set |

The models are layers. `TcpServer` uses asio as `IoContext` describes it (a FIFO of handlers, operations
that complete, a reactor that runs while a worker is free). `Scheduler` and `Reactor` are asio's own code
below that interface: that a posted handler is run once, by a thread that is awake, and that an operation
whose socket is ready completes, is what `IoContext` takes for granted and they establish. `TlsSession` is
the inside of what `Sessions` abstracts to the outcomes of a read.

**How code becomes actions.** A worker executes one handler at a time. `pc[w]` is the next
access that the handler makes to state shared with other threads, and one action is the code up
to and including that access: `shutdown_socket` is `EraseId` (under the lock), `CloseSocket` and
`Decrement`; `on_connection_attempt` is `InsertId` (which waits for the future), `PostHandshake`
and `PostListen`. Between two such actions every other thread may run. The owner's thread has its
own program counter `main`. A queued handler is a record of `Task`: its kind, the client whose
socket it captured, the round of `listen` it belongs to, the error code it is called with.

**What is abstracted.** A client stands for its socket. The content of a message is the client it
came from: enough to see whose bytes are in a buffer and in which order. A read ends with data, with
data and the end of the stream, or without data (`on_read`'s `received_valid_message` tells exactly
these apart); `TlsSession` shows how these come about. Log output is left out. A key of `m_received_messages` that is absent and one with an
empty string are the same value `<<>>`; no entry is ever set to an empty string, because a read
without bytes is not processed.

**What asio contributes.** Read from the vendored source: `asio::post` appends to one FIFO queue;
`async_accept` calls `accept` at once and posts its handler if that succeeds, otherwise the
operation waits with the descriptor; the descriptor's event, which may have been queued before
(epoll reports a new socket that does not listen yet), completes a waiting accept *in place*, ahead
of everything that was queued meanwhile - also ahead of the round's id task; likewise the handler of a
client's operation runs on the worker that performs the descriptor's event (`Complete`) and is not queued
again; descriptor events are not counted as work; `stop` leaves queued handlers in the queue; a pool that was joined never gets
threads again, so a second `start` has no worker.

**Bytes (`TlsSession`).** Bytes are counted, not named. A record of `n` bytes of plaintext is `n +
Overhead` bytes of ciphertext; TCP delivers any pieces; the stream takes up to `InputMax` bytes at a time
and gives out whole records only. `WaitOver` sets the size of `read_buffer` from `Available`, that is from
ciphertext, `ReadFull`, `ReadEof` and `ReadError` are the three ends of `async_read`, and `ProcessMessage`
stores the whole buffer (`Content`). With `Resumed` the client may send right behind its last handshake
message, so that the handshake takes application data from the socket. `event` is a reactor event that may
be late: it can end the wait although the bytes it was about are gone.

**asio (`Scheduler`, `Reactor`).** One action is a section under the mutex (the scheduler's, or the
descriptor's), one update of the atomic count, or one system call. `pthread_cond_signal` comes after the
unlock and is a step of its own; a wait may end without a signal. The program is arbitrary: any handler, and
the owner while it holds the work guard, may post, post a continuation, start an operation or cancel, the
owner may reset the guard and stop. In `Reactor` the socket is the kernel's: `listed` is the item's place on
epoll's ready list, which an edge or `EPOLL_CTL_MOD` of a ready socket sets; `EpollWait` takes it off and
copies what is ready *then*; a thread may hold that copy while the descriptor is queued again, closed, or
used for another socket.

**Faults.** `Env` selects what the environment may do: missing certificates, a port in use, a failed
`accept`, handshake, wait, read or write, a peer that is gone when its socket is shut down, and a
call of `shutdown` at any time after `start` has returned.

## Runs

All runs but `OneWorkerBlocks` use two workers: with two, one can be anywhere in its handler while the
other runs everything else. Two clients give two concurrent sessions; three ids are the fewest
that leave a spare one when both clients are live (`SpareIdAssumption`), and so few that ids are
reused. `CountMod = 8` stands for 2^32: large enough that a count of at most two clients never wraps
upwards, so that any wrap is one below zero. `MaxConnections` is 0 or 1, so that the limit is reached.
`MaxChunks` bounds the reads with data per client, `MaxStarts` the calls of `start`. `Sessions` uses
symmetry in workers, clients and ids, which no action or property tells apart; the runs of temporal
properties use none.

`Scheduler` has two threads, the owner, two operations and one socket: one thread can sleep in the event and
one in `epoll_wait` while the owner posts, and an operation can be in a private queue while the other waits
with the socket. `Reactor` has two threads, each of which may hold events, a send buffer and a receive
buffer of two bytes (so that an operation can take part of what is there), and two sockets for the reuse of a
descriptor. `TlsSession` has records of one and of four bytes with an overhead of two, up to six bytes in
all, and an input buffer of six, the larger record: records that are smaller, and larger, than the overhead
of the others, up to six of them, so that reads end inside, at the end of and beyond a record.

| Run | Expectation | What it shows |
|---|---|---|
| `Sessions` | pass | The listening side: one round of `listen` at a time (`OneListener`), so the unlocked generator is never shared (`GeneratorExclusive`) and ids are unique among live clients (`UniqueIds`) although they are inserted long after they were checked; the awaited task is always queued or running (`PromiseKept`). The sessions: one thing at a time per socket (`OneContinuation`), captured values still valid (`CapturesValid`), active ids exactly those of live clients (`ActiveIdsExact`), the `assert` of line 72 holds (`AssertHolds`), no insertion into the map under a shared lock, the echo buffer unchanged while it is sent (`BufferStable`), everything a client sent is in its reply and in order (`EchoComplete`), the counter exact when no handshake fails (`CountTracksSessions`). All of it together: `IsEchoService`. With connection timeouts and every fault but a failed handshake. |
| `Faults` | pass | One session under every fault, with `shutdown` and a second `start` at every point of it. Types (`TypeOK`, with the counter's wrap after a failed handshake). Unless the context is stopped first, a worker that waits for an id gets it (`AcceptUnblocks`) and an accepted client is let go with its id (`SessionEnds`). Workers never spin on a stopped context (`NoSpin`); the second life serves nobody, neither a new client nor those whose handlers the first one left in the queue (`NothingServedAgain`); and `shutdown` returns, or the process ends, unless a worker waits for an id task that is left in the queue (`OnlyIdTaskBlocksJoin`: `ShutdownHangs` shows the only way to hang). The process may stop here, so deadlock is not checked. |
| `Serving` | pass | Liveness: without faults every client of the backlog is accepted, after connection timeouts if need be (`ServesEveryone`). |
| `TlsSession` | pass | While the session reads on, its entry is what the stream has given out (`NoGaps`); an echo has all the client sent, then the unfilled rest of the last buffer (`EchoIsWhole`); one message that is there when the server first looks is answered (`OneMessageEchoed`); a client that keeps the connection loses its session without an echo only at a read without bytes (`EmptyReadEnds`); a session ends when its client has closed or is gone (`ClientLetGo`). |
| `Scheduler` | pass | While something is queued nobody sleeps unless somebody is on the way to the queue (`NoLostWakeup`), and what is ready is taken (`ReadyIsTaken`); `stop` leaves nobody asleep (`StopWakesAll`) and ends every `run` (`StopEndsRun`); the reactor is in one place (`OneTask`) behind the descriptors it has queued, as the comment in `epoll_reactor::run` relies on (`DescriptorsDequeued`); the shared and the private counts add up to what is unfinished (`WorkExact`); no operation is lost, run twice or early, and the context does not run out while there is work (`IsExecutor`). |
| `Reactor` | pass | An operation that could be done always has an event coming (`NoLostEdge`), the guess not to try a send at once is corrected by one (`GuessCorrected`), receives, waits and sends end (`ReadEnds`, `WriteEnds`). |
| `HandshakeErrorCount` | violation | A failed handshake makes the counter wrap below zero; `listen` then believes the limit exceeded. |
| `AcceptErrorDeaf` | violation | One failed `accept` ends the listening for good. |
| `ShutdownThrows` | violation | `listen` on the acceptor that `shutdown` has just closed throws out of a `noexcept` function. |
| `ShutdownHangs` | violation | `join` waits for a worker whose id task nobody runs after `stop`. |
| `OneWorkerBlocks` | violation | With one worker, which `minimum_thread_count` admits, the accept handler can run ahead of the id task and wait forever for a task that only its own thread could run: `AcceptUnblocks` needs two workers. |
| `EchoPadded` | violation | Every echo ends with the NUL bytes that the last read left in a buffer sized by ciphertext; the log in the repository's README shows 90 bytes sent for 61 received. |

The violations are described under "findings" in `PROJECT.json` with the line of the code or of its
documentation that says otherwise.

The models show more that no document of the repository rules out:

* the limit is passed: by one, since `listen` compares with `>`, and by every handshake in progress, since the
  next `listen` is posted before the handshake that will be counted. No bound on it could be stated as a
  property, so this hazard has none;
* entries of `m_received_messages` are never erased, so a client that draws the id of one that left is sent
  that one's messages ahead of its own (`EchoComplete` speaks of the end of the reply for this reason; ids
  are 64 bits wide, the chance is remote);
* a session may end without any echo although its client closed cleanly: when a read is filled exactly by
  what was sent, only the close_notify is left, the next read has no bytes and `on_read` shuts the socket
  down; the same when what is left is in the TLS stream, where `available()` does not see it;
* `async_wait` may end because of an event whose bytes are gone (`reactive_wait_op::do_perform` does not look
  at the socket): `available()` is 0, and the session of a client that is still sending is closed.

`EmptyReadEnds` says of the last two that nothing else takes the echo from a client that keeps the connection.

**Fairness.** In `TcpServer`: weak fairness for each worker (the operating system schedules every thread), for the
owner's thread except that nothing makes it call `shutdown`, for the reactor (a ready descriptor is
reported, a timer expires) and for the completion of each client's pending operation. The last is an
assumption about clients, not about the server, which sets no deadline for a handshake or a read: a
client that stays silent keeps its session. Nothing makes a client connect. In `TlsSession`: TCP delivers
what was sent and its end, and the handlers that are due run. In `Scheduler`: every thread that can take a
step again and again takes it (strong fairness, since a mutex that others take is free again and again
without staying free, and a thread is not kept out of it forever), and handlers end. In `Reactor`: the reactor runs again and again, what it has queued is taken and
performed, and the peer takes what was sent to it.

## Proofs

The first five modules are proved for any sets of workers, clients and ids and every set of faults, from
`ConstantsAssumption` alone (there need not even be more ids than clients), each building on the
invariants of the ones before it. One theorem, `CountExact`, has hypotheses of its own: no handshake fails,
which the run `HandshakeErrorCount` shows to be needed, and there are fewer clients than the counter can hold.
`SchedulerProofs` holds for any finite sets of threads and of descriptors and any operations, from
`SchedulerAssumption` (which says besides that the owner is not a thread of `run` and that operations, descriptors and the
reactor's entry are different things). `TlsProofs` holds for all sizes of records, overheads and buffers, from
`TlsAssumption`; `ReactorProofs` for all numbers of threads, sockets and bytes, from `ReactorAssumption`.

| Module | Invariant | Properties |
|---|---|---|
| `TcpServerProofs` | `IInv` (`InductiveInvariant`) | `TypeOK`, `OneContinuation`, `CapturesValid` |
| `LifecycleProofs` | `OwnerInv` (`OwnerInvariant`), `ClosedInv` (`ClosedInvariant`) | `NoSpin`, `NothingServedAgain` |
| `ListenerProofs` | `ListenInv` (`ListenInvariant`) | `OneListener`, `GeneratorExclusive`, `PromiseKept` |
| `IdProofs` | `IdInv` (`IdInvariant`) | `UniqueIds`, `ActiveIdsExact`, `AssertHolds` |
| `ServiceProofs` | `DataInv` (`DataInvariant`), `CountInv` | `EchoComplete`, `NoInsertUnderSharedLock`, `BufferStable`, `CountTracksSessions`, the refinement `IsEchoService` |
| `SchedulerProofs` | `SchedulerInv` (`SchedulerInvariant`) | `TypeOK`, `OneTask`, `DescriptorsDequeued`, `NoLostWakeup`, `StopWakesAll`, `WorkExact`, the refinement `IsExecutor` |
| `TlsProofs` | `IInv` (`SessionInvariant`) | `TypeOK`, `NoGaps`, `EchoIsWhole`, `OneMessageEchoed`, `EmptyReadEnds` |
| `ReactorProofs` | `IInv` (`ReactorInvariant`) | `TypeOK`, `NoLostEdge`, `GuessCorrected` |

**`IInv`.** None of its three parts is inductive alone. `TypeOK` fails to be preserved by `Respond`
unless the client still has an id, and by `InsertId` unless the round it names exists: that is
`CapturesValid`. That in turn is broken by `Decrement`, which takes the id of a client away, unless
nothing else works for the client: `OneContinuation`. And a new accept keeps `OneContinuation` only if
nothing works yet for a client of the backlog: `BusyIsAccepted`, the last conjunct of `CapturesValid`.
The proof has a lemma for each way in which work for a client moves (from the queue to a worker, from
a worker to the queue or to a pending operation, from an operation to a worker, from the backlog), a
lemma for each pattern of handler, and one per action.

**`OwnerInv`** orders the owner's steps: `m_server_running` is cleared before the guard is reset, the
context stops only without the guard, and `join` leaves no thread for a second `start`.

**`ClosedInv`** says what closing the acceptor is worth: nobody is in the backlog afterwards, and a second
`start` opens the acceptor but never has it listen. With `OwnerInv` (no thread is left) it gives
`NothingServedAgain`; without it a client could still connect to the acceptor of the second life and stay
in a backlog that nobody accepts from.

**`ListenInv`.** `OneRound` says that listening is one token: a queued handler, a running one, a waiting
accept or a timer. It is kept because each step of the listening side gives up the token before it makes
the next one, which includes a `connection_timeout` that cancels the acceptor: the token is in its hands,
so there is nothing to cancel. The other parts tie the ids to the token: there is at most one id task,
of the last round (`OneIdTask`); at most one drawn id that is not claimed, also of the last round, not
active, and no task is pending then (`OneDrawnId`); between two rounds there is neither (`QuietBetween`);
within a round there is one of the two (`RoundHasId`). The invariant speaks of the server's first life;
a second `start` has no thread (`OwnerInv`), so nothing happens to it there.

**`IdInv`.** When `InsertId` adds an id, `OneDrawnId` says that it is still not active, which keeps
`UniqueIds` and `ActiveIdsExact`; `EraseId` removes exactly one client's id because of `UniqueIds`, and
finds it because of `ActiveIdsExact`. `IdComesWithAccept` (a client has no id before
`on_connection_attempt`) and `NoClientElsewhere` (handlers of the listening side capture no client
socket) say which steps can make a client live or let it go.

**`DataInv`.** A client is engaged in one step at a time (`OneContinuation`), and `PhaseOf` gathers the steps
into the phases of a session: accepted, handshake, reading, holding a message, stored, sending, ending,
leaving. `StepStages` says of every step of the server that it moves at most one client, from one phase to the
next, and what it does to that client's data on the way; everything after it speaks of phases, not of queues
and workers. A live client's entry ends with what was read from the client, less the message it still holds
(`EntryEnds`); it is there from `process_message` to `on_write` (`EntryThere`), which is why the `operator[]`
under the shared lock does not insert; and after the reply nothing more is read (`NothingAfter`), so the reply
stays complete. All of it rests on `UniqueIds`: an entry is appended to by the one client that has its id.
`IsEchoService` follows phase by phase; the clients in the backlog when `shutdown` closes the acceptor are
turned away (`TurnAway`), all in one step.

**`CountInv`** says in which phases a client is counted. A failed handshake is the one way from an uncounted
phase into `shutdown_socket`, so without it the counter is the number of counted clients and cannot go below zero.

**`SchedulerInv`** has six parts. `ControlInv`: what a caller runs, has in its private queue and is about to
push, at each step. `ReactorInv`: `OneTask`, and no descriptor behind the reactor in the queue
(`DescriptorsFirst`), because `task_cleanup` puts the reactor back last. `WakeInv`: the event is set while
something is queued, unless a thread holds the mutex and will look (`EventTells`); `task_interrupted_` is right
about the thread in `epoll_wait` (`InterruptTells`); and a thread that is only entering `run` is not needed for
`NoLostWakeup` (`WakeupComing`), since it may find no work and stop. `OnePlace`: an operation is in one place,
once; a step moves it or leaves it (`Goes`, `Stays`). `WorkInv`: the context's count is the number of operations
in `Counted`, each thread's count its own unsettled continuations and compensation, and whoever is about to stop
the context for want of work is right and stays so (`StopJustified`) - nobody is left who could make work, since
a handler that posts is itself counted until it has returned. `WorkExact` states the counts thread by thread rather than as one sum: that is what
the code maintains, it is stronger, and it needs no induction over the set of threads.

**`IsExecutor`.** The places of `OnePlace` determine an operation's status (`StatusTells`); a step of a
caller leaves alone every status but those it names (`KeptBy`). That a thread free to run a handler leaves room
among the running ones counts threads (`RunningRoom`), hence finite `Threads`; that `Stop` without a call of
`stop` is `RunOut` is `StopJustified`.

**`IInv` of `TlsProofs`.** `EmptyReadEnds` is inductive with the rest: a read error needs the end of the
stream before the close_notify, which a clean client has sent first (`LastOnes`). The entry is exactly what was given out until a read ends early (`Reading`), and a
read ends early only at the close_notify, behind every record; the last record ends where the plaintext does
(`LastOnes`), so all of it has been decrypted and given out then, which is `EchoIsWhole`. `FirstRead` follows
the size of the first buffer: a session that got so many bytes, or ended without an answer, has seen a client
that sent at least as many - but a first buffer with a whole record in it is larger than the message.

**`IInv` of `ReactorProofs`** adds `RoomAnnounced` to the two properties: a send that waits has made epoll
report `EPOLLOUT`, and while there is no room for it, or for one that is not to be tried, somebody has looked
for room in vain, so that new room makes an edge. For reads every arrival makes one. `NoLostEdge` and
`GuessCorrected` need each other: a send that was not tried when it started relies on the event that
corrects the guess. The guess about reads needs no correction: it is dropped only at the end of the stream
(`ReadGuess`).

Only model-checked: the liveness properties (`ServesEveryone`, `SessionEnds`, `AcceptUnblocks`, `OnlyIdTaskBlocksJoin`,
`ReadyIsTaken`, `StopEndsRun`, `ReadEnds`, `WriteEnds`, `ClientLetGo`), since the prover handles neither fairness nor `ENABLED`.
Every safety invariant and action property of a passing run, and both refinements, are theorems.

## Not modelled

* The logger, the build files and the certificate script: no state of the server depends on them.
* `Tcp_server::respond`: declared, never defined.
* Exceptions from memory allocation or thread creation, and `available()` throwing.
* In the TLS stream: the messages of the handshake, the write side and renegotiation (an outcome each);
  OpenSSL itself is not in the repository.
* In asio: `run_one`, `poll`, `dispatch`, `restart`, out-of-band data, `EPOLLERR`, fork support and the
  timer queues (the server has one timer at a time, an armed or expired one in `IoContext`).
* Everything else in `ext/asio`, which is some 99% of the repository's lines: a general-purpose library of
  which the server uses the paths modelled here on one platform. The other reactors and the Windows code are
  not compiled; resolvers, serial ports, signals, coroutines and `read_until` are not called; buffers,
  executors and traits are types without state. A model of them would say nothing about this program, which
  is why the share of the repository's lines that the map covers stays small.

## Plan

Done: the server with its listening side, sessions and lifecycle; the bytes of a session; asio's scheduler and
reactor; two abstract specifications with their refinements; the runs above; the inductive invariants, and from
them every safety property of the runs. What is left:

1. Where a part of an inductive invariant says something a reviewer of the code would ask for by itself
   (`StopJustified`, `EntryThere`), state it as a property of its run and as a theorem.
2. Safety consequences of the liveness properties that need no fairness: that a session which has not ended has
   a handler, an operation or a queued event (the safety half of `SessionEnds`), and the same for `ReadyIsTaken`.
