-------------------------- MODULE ServerInvariants --------------------------
(***************************************************************************)
(* The strengthenings that make the proved properties inductive.  For      *)
(* TypeOK and OneContinuation: what a handler's lambda captured is still   *)
(* what the handler may rely on when it runs, however late that is.  For   *)
(* NoSpin and NothingServedAgain: what the owner's thread has done before  *)
(* each step of start() and shutdown().  For OneListener and the ids: only *)
(* the newest round of listen() has an id task or an unclaimed id.  For    *)
(* the messages: where a client is in its session says what its entry and  *)
(* its reply hold.                                                         *)
(***************************************************************************)
EXTENDS ServiceRefinement

\* The steps of handlers that work for an accepted client with an id.
SessionSteps == {"post_handshake", "handshake", "on_handshake", "post_read", "read",
                 "on_wait", "on_read", "process", "reply", "on_write", "shutdown",
                 "close_socket", "decrement"}

\* The steps of handlers that hold a round's client_id_task.
RoundSteps == {"id", "accept", "async_accept"}

HasId(c) == c \in Clients /\ idOf[c] \in Ids
IsRound(n) == n \in DOMAIN promises

Fits(step, t) == /\ step \in SessionSteps => HasId(t.c)
                 /\ step \in RoundSteps => IsRound(t.n)

QueueFits == \A i \in DOMAIN queue : Fits(queue[i].k, queue[i])
WorkersFit == \A w \in Workers : Fits(pc[w], job[w])
OpsFit == \A op \in ops : HasId(op.c)
AcceptsFit == \A i \in DOMAIN acceptOps : IsRound(acceptOps[i])

\* Some handler or operation works for the client.
Busy(c) == InQueue(c) \/ InWorker(c) \/ InOps(c)

\* The server works only for clients that accept(2) has handed out.
BusyIsAccepted == \A c \in Clients : Busy(c) => peer[c] \in {"open", "closed"}

\* A handler finds what it captured: a session's socket still has its id, which
\* only shutdown_socket's last step takes away, a round of listen() its task, and
\* nothing works for a client still in the backlog.
CapturesValid == /\ QueueFits /\ WorkersFit /\ OpsFit /\ AcceptsFit
                 /\ BusyIsAccepted

\* The inductive invariant.
IInv == TypeOK /\ OneContinuation /\ CapturesValid
-----------------------------------------------------------------------------
\* shutdown() has reset the work guard.
GuardDropped == {"cancel_acceptor", "close_acceptor", "stop_context", "join", "down"}

\* The owner's progress: shutdown() has cleared m_server_running before it resets
\* the guard, the context stops only without the guard, and a server that runs
\* without the guard is one that was started again, without any thread.
OwnerInv ==
    /\ main = "new" <=> starts = 0
    /\ main = "new" => guard
    /\ main \in GuardDropped \cup {"reset_guard"} => ~running
    /\ main \in GuardDropped => ~guard
    /\ ~guard => ~running \/ starts > 1
    /\ stopped => ~guard
    /\ main = "down" => AllExited
    /\ starts > 1 => AllExited

\* After m_acceptor.close() nobody waits in the backlog, and a second start() opens
\* the acceptor but finds no thread to make it listen.
ClosedInv ==
    /\ main \in {"stop_context", "join", "down"} => acceptor = "closed" /\ Backlog = {}
    /\ starts > 1 => acceptor # "listening" /\ Backlog = {}
-----------------------------------------------------------------------------
\* The owner has not posted the first listen() yet.
BeforeListen == {"new", "post_workers", "configure_ssl", "configure_acceptor",
                 "post_listen"}

IdQueued == {i \in DOMAIN queue : queue[i].k = "id"}
IdRunning == {w \in Workers : pc[w] = "id"}
IdPending == IdQueued # {} \/ IdRunning # {}

LastRound == Len(promises)

\* A round of listen() has made its task and not taken the id from it yet.
InRound == \/ acceptOps # <<>>
           \/ \E i \in DOMAIN queue : queue[i].k = "accept"
           \/ \E w \in Workers : pc[w] \in {"accept", "async_accept"}

BetweenKinds == {"listen", "timeout", "timer"}
BetweenSteps == BetweenKinds \cup {"listen_check", "arm_timer", "post_handshake",
                                  "post_listen"}

\* The last round has its client, and the next one has not begun.
BetweenRounds == \/ main \in BeforeListen \/ timers > 0
                 \/ \E i \in DOMAIN queue : queue[i].k \in BetweenKinds
                 \/ \E w \in Workers : pc[w] \in BetweenSteps

NoListenYet == main \in BeforeListen =>
    ListenQueued = {} /\ ListenRunning = {} /\ acceptOps = <<>> /\ timers = 0

\* At most one id task is pending, that of the last round.
OneIdTask ==
    /\ \A i, j \in IdQueued : i = j
    /\ \A v, w \in IdRunning : v = w
    /\ IdQueued = {} \/ IdRunning = {}
    /\ \A i \in IdQueued : queue[i] = IdTask(LastRound)
    /\ \A w \in IdRunning : job[w].n = LastRound

\* At most one drawn id waits to be claimed, and nobody has it meanwhile.
OneDrawnId == \A n \in DOMAIN promises : promises[n] # NoId =>
    n = LastRound /\ promises[n] \notin activeIds /\ ~IdPending

QuietBetween == BetweenRounds =>
    ~IdPending /\ \A n \in DOMAIN promises : promises[n] = NoId

\* The handlers of a round are those of the last one, and its id is drawn or the
\* task that draws it is pending.
RoundIsLast ==
    /\ \A i \in DOMAIN acceptOps : acceptOps[i] = LastRound
    /\ \A i \in DOMAIN queue : queue[i].k = "accept" => queue[i].n = LastRound
    /\ \A w \in Workers : pc[w] \in {"accept", "async_accept"} => job[w].n = LastRound

RoundHasId == InRound => IdPending \/ promises[LastRound] # NoId

Listening == /\ OneRound /\ NoListenYet /\ OneIdTask /\ OneDrawnId /\ QuietBetween
             /\ RoundIsLast /\ RoundHasId

\* Until the server is started a second time, which has no threads.
ListenInv == starts <= 1 => Listening
-----------------------------------------------------------------------------
\* A client without an id has not got one yet, or has no use for it any more.
IdComesWithAccept == \A c \in Clients :
    /\ peer[c] \in {"new", "backlog"} => idOf[c] = NoId
    /\ \A i \in DOMAIN queue : queue[i].k = "accept" /\ queue[i].c = c => idOf[c] = NoId
    /\ \A w \in Workers : pc[w] = "accept" /\ job[w].c = c => idOf[c] = NoId

\* The steps of handlers that captured a client's socket; the others have none.
ClientSteps == SessionSteps \cup {"accept"}

NoClientElsewhere ==
    /\ \A i \in DOMAIN queue : queue[i].k \notin ClientSteps => queue[i].c = NoClient
    /\ \A w \in Workers : pc[w] \notin ClientSteps => job[w].c = NoClient

IdInv == /\ IdComesWithAccept /\ NoClientElsewhere
         /\ ActiveIdsExact /\ UniqueIds /\ AssertHolds
-----------------------------------------------------------------------------
\* The client's handler or operation is at this step, with this result; an operation
\* has none yet.
Engaged(c, step, r) ==
    \/ \E i \in DOMAIN queue : queue[i].c = c /\ queue[i].k = step /\ queue[i].r = r
    \/ \E w \in Workers : job[w].c = c /\ pc[w] = step /\ job[w].r = r
    \/ r = "pending" /\ [k |-> step, c |-> c] \in ops

\* The phases of a session.
PhaseOf(step, r) ==
    CASE step = "accept"                                       -> "accepted"
      [] step \in {"post_handshake", "handshake"}              -> "handshake"
      [] step = "on_handshake" /\ r # "err"                    -> "handshake"
      [] step = "on_handshake" /\ r = "err"                    -> "failed"
      [] step \in {"post_read", "read", "wait", "on_wait"}     -> "reading"
      [] step = "on_read" /\ r = "err"                         -> "reading"
      [] step = "process" \/ (step = "on_read" /\ r # "err")   -> "holding"
      [] step = "reply"                                        -> "stored"
      [] step \in {"write", "on_write"}                        -> "sending"
      [] step = "shutdown"                                     -> "ending"
      [] step \in {"close_socket", "decrement"}                -> "leaving"
      [] OTHER                                                 -> "none"

Phases == {"accepted", "handshake", "failed", "reading", "holding", "stored", "sending",
           "ending", "leaving"}

InPhase(c, p) == \E step \in WorkerSteps \cup OpKinds, r \in Results \cup {"pending"} :
    Engaged(c, step, r) /\ PhaseOf(step, r) = p

\* The sequence ends with n messages of the client.
EndsWith(s, n, c) == n <= Len(s) /\ \A i \in Len(s) - n + 1 .. Len(s) : s[i] = c

\* How many of the messages read from the client are in its entry.
StoredOf(c) == IF InPhase(c, "holding") THEN delivered[c] - 1 ELSE delivered[c]

\* on_connection_attempt has not seen the client yet.
Outside(c) == peer[c] \in {"new", "backlog"} \/ InPhase(c, "accepted")

\* Nothing was read from such a client, and its socket is open when
\* on_connection_attempt gets it.
NothingBefore == \A c \in Clients :
    /\ Outside(c) => delivered[c] = 0 /\ reply[c] = <<>>
    /\ InPhase(c, "accepted") => peer[c] = "open"

\* A live client's entry ends with what was read from the client and stored.
EntryEnds == \A c \in Clients : Live(c) => EndsWith(messages[idOf[c]], StoredOf(c), c)

\* A message that is not stored yet was read.
HoldingWasRead == \A c \in Clients : InPhase(c, "holding") => delivered[c] > 0

\* From process_message to the end of on_write the entry is there.
EntryThere == \A c \in Clients :
    InPhase(c, "stored") \/ InPhase(c, "sending") => messages[idOf[c]] # <<>>

\* After the reply there is only the way out.
NothingAfter == \A c \in Clients, p \in Phases :
    reply[c] # <<>> /\ InPhase(c, p) => p \in {"sending", "ending", "leaving"}

DataInv == /\ NothingBefore /\ EntryEnds /\ HoldingWasRead /\ EntryThere /\ NothingAfter
           /\ EchoComplete
-----------------------------------------------------------------------------
\* m_active_connections includes a client from on_handshake to the end of
\* shutdown_socket, if no handshake fails.
CountedPhases == {"reading", "holding", "stored", "sending", "ending", "leaving"}

CountInv == \A c \in Clients :
    /\ ~InPhase(c, "failed")
    /\ Outside(c) \/ InPhase(c, "handshake") => c \notin counted
    /\ \A p \in CountedPhases : InPhase(c, p) => c \in counted
=============================================================================
