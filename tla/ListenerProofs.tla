--------------------------- MODULE ListenerProofs ---------------------------
(***************************************************************************)
(* OneListener, GeneratorExclusive and PromiseKept, for every instance:    *)
(* listen() is one token that the handlers pass on, and only the round     *)
(* that has it holds an id task or an unclaimed id.                        *)
(***************************************************************************)
EXTENDS LifecycleProofs

\* The places in the queue after a handler is posted.
LEMMA PostedPlaces ==
    ASSUME queue \in Seq(Task), NEW t \in Task, Post(t)
    PROVE  /\ \A i \in DOMAIN queue : i \in DOMAIN queue' /\ queue'[i] = queue[i]
           /\ Len(queue) + 1 \in DOMAIN queue' /\ queue'[Len(queue) + 1] = t
           /\ \A i \in DOMAIN queue' : i \in DOMAIN queue \/ i = Len(queue) + 1
           /\ Len(queue) + 1 \notin DOMAIN queue
  BY AppendProperties, LenProperties DEF Post

LEMMA PostedSets ==
    ASSUME queue \in Seq(Task), NEW t \in Task, Post(t)
    PROVE  /\ t.k \in ListenKinds => ListenQueued' = ListenQueued \cup {Len(queue) + 1}
           /\ t.k \notin ListenKinds => ListenQueued' = ListenQueued
           /\ t.k = "id" => IdQueued' = IdQueued \cup {Len(queue) + 1}
           /\ t.k # "id" => IdQueued' = IdQueued
  BY PostedPlaces DEF ListenQueued, IdQueued, ListenKinds

\* A worker that runs a step of listen() is all there is of the listening side.
LEMMA RunningAlone ==
    ASSUME TypeOK, Listening, NEW w \in Workers, pc[w] \in ListenSteps
    PROVE  /\ ListenQueued = {} /\ ListenRunning = {w} /\ acceptOps = <<>>
           /\ timers = 0 /\ main \notin BeforeListen /\ w \notin IdRunning
  <1>1. w \in ListenRunning /\ w \notin IdRunning
    BY DEF ListenRunning, IdRunning, ListenSteps, ListenKinds
  <1>2. Len(acceptOps) + timers = 0 /\ acceptOps \in Seq(Nat) /\ timers \in Nat
    BY <1>1 DEF Listening, OneRound, TypeOK
  <1>3. acceptOps = <<>> /\ timers = 0
    BY <1>2, EmptySeq, LenProperties
  <1> QED
    BY <1>1, <1>3 DEF Listening, OneRound, NoListenYet

\* The steps that do not concern the listening side.
Elsewhere ==
    /\ \A v \in Workers : \/ pc'[v] = pc[v] /\ job'[v] = job[v]
                          \/ /\ pc[v] \notin ListenSteps \cup {"id"}
                             /\ pc'[v] \notin ListenSteps \cup {"id"}
    /\ \A i \in DOMAIN queue : i \in DOMAIN queue' /\ queue'[i] = queue[i]
    /\ \A i \in DOMAIN queue' : \/ i \in DOMAIN queue
                                \/ queue'[i].k \notin ListenKinds \cup {"id"}
    /\ UNCHANGED <<acceptOps, timers, promises>>
    /\ activeIds' \subseteq activeIds
    /\ main' \in BeforeListen => main \in BeforeListen

LEMMA ElsewhereKeeps ==
    ASSUME TypeOK, Listening, Elsewhere
    PROVE  Listening'
  <1>1. /\ ListenQueued' = ListenQueued /\ IdQueued' = IdQueued
        /\ ListenRunning' = ListenRunning /\ IdRunning' = IdRunning
    BY DEF Elsewhere, ListenQueued, IdQueued, ListenRunning, IdRunning
  <1>2. OneRound' /\ NoListenYet'
    BY <1>1 DEF Listening, OneRound, NoListenYet, Elsewhere
  <1>3. OneIdTask'
    BY <1>1 DEF Listening, OneIdTask, Elsewhere, IdQueued, IdRunning, LastRound
  <1>4. OneDrawnId' /\ (IdPending' <=> IdPending)
    BY <1>1 DEF Listening, OneDrawnId, Elsewhere, IdPending, LastRound
  <1>5. BetweenRounds' => BetweenRounds
    BY DEF BetweenRounds, BetweenKinds, BetweenSteps, Elsewhere, ListenKinds, ListenSteps
  <1>6. QuietBetween'
    BY <1>4, <1>5 DEF Listening, QuietBetween, Elsewhere
  <1>7. RoundIsLast'
    BY DEF Listening, RoundIsLast, Elsewhere, ListenKinds, ListenSteps, LastRound
  <1>8. InRound' => InRound
    BY DEF InRound, Elsewhere, ListenKinds, ListenSteps
  <1>9. RoundHasId'
    BY <1>4, <1>8 DEF Listening, RoundHasId, Elsewhere, LastRound
  <1> QED
    BY <1>2, <1>3, <1>4, <1>6, <1>7, <1>9 DEF Listening
-----------------------------------------------------------------------------
(* Where the token is. *)
AtWorker(w) == /\ ListenQueued = {} /\ ListenRunning = {w}
               /\ acceptOps = <<>> /\ timers = 0
AtQueue(q) == /\ ListenQueued = {q} /\ ListenRunning = {}
              /\ acceptOps = <<>> /\ timers = 0
AtAcceptor == /\ ListenQueued = {} /\ ListenRunning = {}
              /\ Len(acceptOps) = 1 /\ timers = 0
AtTimer == /\ ListenQueued = {} /\ ListenRunning = {}
           /\ acceptOps = <<>> /\ timers = 1
Nowhere == /\ ListenQueued = {} /\ ListenRunning = {}
           /\ acceptOps = <<>> /\ timers = 0

\* Wherever it is, there is no other.
LEMMA OneToken ==
    ASSUME \/ \E w : AtWorker(w)'
           \/ \E q : AtQueue(q)'
           \/ AtAcceptor' \/ AtTimer' \/ Nowhere'
    PROVE  OneRound'
  <1>1. Len(<<>>) = 0
    OBVIOUS
  <1>2. ASSUME NEW w, AtWorker(w)'
        PROVE  OneRound'
    BY <1>1, <1>2 DEF AtWorker, OneRound
  <1>3. ASSUME NEW q, AtQueue(q)'
        PROVE  OneRound'
    BY <1>1, <1>3 DEF AtQueue, OneRound
  <1>4. CASE AtAcceptor'
    BY <1>4 DEF AtAcceptor, OneRound
  <1>5. CASE AtTimer'
    BY <1>1, <1>5 DEF AtTimer, OneRound
  <1>6. CASE Nowhere'
    BY <1>1, <1>6 DEF Nowhere, OneRound
  <1> QED
    BY <1>2, <1>3, <1>4, <1>5, <1>6

\* The token moves on between two rounds.
LEMMA BetweenKeeps ==
    ASSUME TypeOK, Listening, BetweenRounds, UNCHANGED promises, OneIdTask',
           IdPending' => IdPending, main' \notin BeforeListen,
           \/ \E w \in Workers : AtWorker(w)' /\ pc'[w] \in BetweenSteps
           \/ \E q \in DOMAIN queue' : AtQueue(q)' /\ queue'[q].k \in BetweenKinds
           \/ AtTimer'
    PROVE  Listening'
  <1>1. acceptOps' = <<>> /\ timers' \in {0, 1}
    BY DEF AtWorker, AtQueue, AtTimer
  <1>2. OneRound' /\ NoListenYet'
    BY OneToken DEF NoListenYet
  <1>3. ~IdPending /\ \A n \in DOMAIN promises : promises[n] = NoId
    BY DEF Listening, QuietBetween
  <1>4. OneDrawnId' /\ QuietBetween'
    BY <1>3 DEF OneDrawnId, QuietBetween
  <1>5. ~InRound' /\ RoundIsLast'
    BY <1>1 DEF InRound, RoundIsLast, AtWorker, AtQueue, AtTimer, ListenQueued,
                ListenRunning, ListenKinds, ListenSteps, BetweenKinds, BetweenSteps
  <1> QED
    BY <1>2, <1>4, <1>5 DEF Listening, RoundHasId

\* The token moves on within a round, or is dropped with it.
LEMMA RoundKeeps ==
    ASSUME TypeOK, Listening, InRound, UNCHANGED <<promises, activeIds>>, OneIdTask',
           IdPending' <=> IdPending, main' \notin BeforeListen,
           \/ \E w \in Workers : /\ AtWorker(w)' /\ job'[w].n = LastRound
                                 /\ pc'[w] \in {"accept", "async_accept"}
           \/ \E q \in DOMAIN queue' : /\ AtQueue(q)' /\ queue'[q].k = "accept"
                                       /\ queue'[q].n = LastRound
           \/ AtAcceptor' /\ acceptOps' = <<LastRound>>
           \/ Nowhere'
    PROVE  Listening'
  <1>1. Len(acceptOps') \in {0, 1} /\ timers' = 0
    BY DEF AtWorker, AtQueue, AtAcceptor, Nowhere
  <1>2. OneRound' /\ NoListenYet'
    BY OneToken DEF NoListenYet
  <1>3. OneDrawnId'
    BY DEF Listening, OneDrawnId, LastRound
  <1>4. ~BetweenRounds'
    BY <1>1 DEF BetweenRounds, AtWorker, AtQueue, AtAcceptor, Nowhere, ListenQueued,
                ListenRunning, ListenKinds, ListenSteps, BetweenKinds, BetweenSteps
  <1>5. RoundIsLast'
    BY DEF RoundIsLast, AtWorker, AtQueue, AtAcceptor, Nowhere, ListenQueued,
           ListenRunning, ListenKinds, ListenSteps, LastRound
  <1>6. RoundHasId'
    BY DEF Listening, RoundHasId, LastRound
  <1> QED
    BY <1>2, <1>3, <1>4, <1>5, <1>6 DEF Listening, QuietBetween

\* The id task stays where it is.
LEMMA IdTaskStays ==
    ASSUME Listening, UNCHANGED promises,
           IdQueued' = IdQueued, \A i \in IdQueued : queue'[i] = queue[i],
           IdRunning' = IdRunning, \A v \in IdRunning : job'[v] = job[v]
    PROVE  OneIdTask' /\ (IdPending' <=> IdPending)
  BY DEF Listening, OneIdTask, IdPending, LastRound
\* The worker that has the token makes a step of its handler.
LEMMA HolderMoves ==
    ASSUME TypeOK, Listening, NEW w \in Workers, pc[w] \in ListenSteps,
           NEW s, s # "id", pc' = [pc EXCEPT ![w] = s]
    PROVE  /\ AtWorker(w) /\ main \notin BeforeListen
           /\ IdRunning' = IdRunning /\ IdRunning \subseteq Workers \ {w}
           /\ s \in ListenSteps => ListenRunning' = {w}
           /\ s \notin ListenSteps => ListenRunning' = {}
  <1>1. /\ AtWorker(w) /\ main \notin BeforeListen /\ w \notin IdRunning
        /\ pc \in [Workers -> WorkerSteps]
    BY RunningAlone DEF AtWorker, TypeOK
  <1>2. IdRunning' = IdRunning /\ IdRunning \subseteq Workers \ {w}
    BY <1>1 DEF IdRunning
  <1>3. \A v \in Workers : v # w => v \notin ListenRunning /\ pc'[v] = pc[v]
    BY <1>1 DEF AtWorker
  <1> QED
    BY <1>1, <1>2, <1>3 DEF ListenRunning
-----------------------------------------------------------------------------
(* Between two rounds. *)

\* The handler goes on without posting.
LEMMA BetweenGoesOn ==
    ASSUME TypeOK, Listening, NEW w \in Workers, pc[w] \in BetweenSteps,
           NEW s \in BetweenSteps, pc' = [pc EXCEPT ![w] = s],
           UNCHANGED <<queue, job, acceptOps, timers, promises, main>>
    PROVE  Listening'
  <1>1. s \in ListenSteps /\ s # "id" /\ pc[w] \in ListenSteps
        /\ pc \in [Workers -> WorkerSteps]
    BY DEF BetweenSteps, BetweenKinds, ListenSteps, ListenKinds, TypeOK
  <1>2. AtWorker(w) /\ main \notin BeforeListen /\ w \notin IdRunning /\ BetweenRounds
    BY <1>1, RunningAlone DEF AtWorker, BetweenRounds
  <1>3. /\ ListenRunning' = {w} /\ IdRunning' = IdRunning
        /\ ListenQueued' = ListenQueued /\ IdQueued' = IdQueued
    BY <1>1, HolderMoves DEF ListenQueued, IdQueued
  <1>4. AtWorker(w)' /\ pc'[w] \in BetweenSteps
    BY <1>1, <1>2, <1>3 DEF AtWorker
  <1>5. OneIdTask' /\ (IdPending' <=> IdPending)
    BY <1>3, IdTaskStays
  <1> QED
    BY <1>2, <1>4, <1>5, BetweenKeeps

\* The handler posts the next one of the listening side and returns.
LEMMA BetweenPosts ==
    ASSUME TypeOK, Listening, NEW w \in Workers, pc[w] \in BetweenSteps,
           NEW k \in BetweenKinds, Post(ServerTask(k)), Return(w),
           UNCHANGED <<acceptOps, timers, promises, main>>
    PROVE  Listening'
  <1>1. /\ pc[w] \in ListenSteps /\ k \in ListenKinds /\ k # "id" /\ k \in Kinds
        /\ pc \in [Workers -> WorkerSteps] /\ job \in [Workers -> Task]
        /\ queue \in Seq(Task) /\ "idle" \notin ListenSteps
    BY DEF BetweenSteps, BetweenKinds, ListenSteps, ListenKinds, TypeOK, Kinds
  <1>2. AtWorker(w) /\ main \notin BeforeListen /\ w \notin IdRunning /\ BetweenRounds
    BY <1>1, RunningAlone DEF AtWorker, BetweenRounds
  <1>3. PICK t \in Task : t = ServerTask(k) /\ t.k = k
    BY <1>1, TaskTypes
  <1>4. /\ ListenRunning' = {} /\ IdRunning' = IdRunning
        /\ \A v \in IdRunning : job'[v] = job[v]
    BY <1>1, HolderMoves DEF Return
  <1>. PICK q \in Nat : q = Len(queue) + 1
    BY <1>1, LenProperties
  <1>5. /\ ListenQueued' = {q} /\ IdQueued' = IdQueued
        /\ q \in DOMAIN queue' /\ queue'[q] = t
        /\ \A i \in IdQueued : queue'[i] = queue[i]
    BY <1>1, <1>2, <1>3, PostedSets, PostedPlaces DEF AtWorker, IdQueued
  <1>6. AtQueue(q)'
    BY <1>2, <1>4, <1>5 DEF AtWorker, AtQueue
  <1>7. OneIdTask' /\ (IdPending' <=> IdPending)
    BY <1>4, <1>5, IdTaskStays
  <1> QED
    BY <1>2, <1>3, <1>5, <1>6, <1>7, BetweenKeeps

LEMMA NothingToAbort ==
    ASSUME queue \in Seq(Task), acceptOps = <<>>
    PROVE  queue \o Aborted = queue
  <1>1. Aborted = <<>>
    BY DEF Aborted
  <1> QED
    BY <1>1

LEMMA ListenBetween ==
    ASSUME TypeOK, Listening, NEW w \in Workers,
           \/ Listen(w) \/ ListenFull(w) \/ PostListen(w) \/ ConnectionTimeout(w)
    PROVE  Listening'
  <1>1. CASE Listen(w)
    BY <1>1, BetweenGoesOn DEF Listen, Goto, At, BetweenSteps, BetweenKinds, mainVars
  <1>2. CASE ListenFull(w)
    BY <1>2, BetweenPosts
    DEF ListenFull, At, BetweenSteps, BetweenKinds, mainVars, listenVars
  <1>3. CASE PostListen(w)
    BY <1>3, BetweenPosts
    DEF PostListen, At, BetweenSteps, BetweenKinds, mainVars, listenVars
  <1>4. CASE ConnectionTimeout(w)
    <2>1. pc[w] \in BetweenSteps \cap ListenSteps
      BY <1>4 DEF ConnectionTimeout, At, BetweenSteps, BetweenKinds, ListenSteps,
                  ListenKinds
    <2>2. acceptOps = <<>> /\ queue \in Seq(Task)
      BY <2>1, RunningAlone DEF TypeOK
    <2>3. UNCHANGED <<queue, acceptOps>>
      BY <1>4, <2>2, NothingToAbort DEF ConnectionTimeout
    <2> QED
      BY <1>4, <2>1, <2>3, BetweenGoesOn
      DEF ConnectionTimeout, Goto, BetweenSteps, BetweenKinds, mainVars
  <1> QED
    BY <1>1, <1>2, <1>3, <1>4

\* attempt_handshake is posted before the next listen().
LEMMA PostHandshakeListening ==
    ASSUME TypeOK, Listening, NEW w \in Workers, PostHandshake(w),
           job[w].c \in Clients
    PROVE  Listening'
  <1>1. /\ pc[w] \in ListenSteps /\ pc[w] \in BetweenSteps
        /\ "post_listen" \in ListenSteps /\ "post_listen" \in BetweenSteps
        /\ pc \in [Workers -> WorkerSteps] /\ job \in [Workers -> Task]
        /\ queue \in Seq(Task)
    BY DEF PostHandshake, At, BetweenSteps, BetweenKinds, ListenSteps, TypeOK
  <1>2. AtWorker(w) /\ main \notin BeforeListen /\ w \notin IdRunning /\ BetweenRounds
    BY <1>1, RunningAlone DEF AtWorker, BetweenRounds
  <1>3. PICK t \in Task : t = ClientTask("handshake", job[w].c, "ok") /\ t.k = "handshake"
    BY <1>1, TaskTypes DEF Kinds, Results
  <1>4. /\ ListenRunning' = {w} /\ IdRunning' = IdRunning /\ pc'[w] \in BetweenSteps
        /\ \A v \in IdRunning : job'[v] = job[v]
    BY <1>1, HolderMoves DEF PostHandshake
  <1>5. /\ ListenQueued' = {} /\ IdQueued' = IdQueued
        /\ \A i \in IdQueued : queue'[i] = queue[i]
    BY <1>1, <1>2, <1>3, PostedSets, PostedPlaces
    DEF AtWorker, IdQueued, PostHandshake, ListenKinds
  <1>6. AtWorker(w)' /\ UNCHANGED <<promises, main>>
    BY <1>2, <1>4, <1>5 DEF AtWorker, PostHandshake, listenVars, mainVars
  <1>7. OneIdTask' /\ (IdPending' <=> IdPending)
    BY <1>4, <1>5, <1>6, IdTaskStays
  <1> QED
    BY <1>2, <1>4, <1>6, <1>7, BetweenKeeps

LEMMA ArmTimerListening ==
    ASSUME TypeOK, Listening, NEW w \in Workers, ArmTimer(w)
    PROVE  Listening'
  <1>1. /\ pc[w] \in ListenSteps /\ pc[w] \in BetweenSteps /\ "idle" \notin ListenSteps
        /\ pc \in [Workers -> WorkerSteps] /\ job \in [Workers -> Task]
    BY DEF ArmTimer, At, BetweenSteps, ListenSteps, ListenKinds, TypeOK
  <1>2. AtWorker(w) /\ main \notin BeforeListen /\ w \notin IdRunning /\ BetweenRounds
    BY <1>1, RunningAlone DEF AtWorker, BetweenRounds
  <1>3. /\ ListenRunning' = {} /\ IdRunning' = IdRunning
        /\ ListenQueued' = ListenQueued /\ IdQueued' = IdQueued /\ queue' = queue
        /\ \A v \in IdRunning : job'[v] = job[v]
    BY <1>1, HolderMoves DEF ArmTimer, Return, ListenQueued, IdQueued
  <1>4. AtTimer' /\ UNCHANGED <<promises, main>>
    BY <1>2, <1>3 DEF AtWorker, AtTimer, ArmTimer, mainVars
  <1>5. OneIdTask' /\ (IdPending' <=> IdPending)
    BY <1>3, <1>4, IdTaskStays
  <1> QED
    BY <1>2, <1>4, <1>5, BetweenKeeps

\* The token comes from the owner or from the timer.
LEMMA TokenPosted ==
    ASSUME TypeOK, Listening, BetweenRounds, ListenQueued = {}, ListenRunning = {},
           NEW k \in BetweenKinds, Post(ServerTask(k)), UNCHANGED <<pc, job, promises>>,
           acceptOps' = <<>>, timers' = 0, main' \notin BeforeListen
    PROVE  Listening'
  <1>1. queue \in Seq(Task) /\ k \in ListenKinds /\ k # "id" /\ k \in Kinds
    BY DEF BetweenKinds, ListenKinds, TypeOK, Kinds
  <1>2. PICK t \in Task : t = ServerTask(k) /\ t.k = k
    BY <1>1, TaskTypes
  <1>. PICK q \in Nat : q = Len(queue) + 1
    BY <1>1, LenProperties
  <1>3. /\ ListenQueued' = {q} /\ IdQueued' = IdQueued
        /\ q \in DOMAIN queue' /\ queue'[q] = t
        /\ \A i \in IdQueued : queue'[i] = queue[i]
    BY <1>1, <1>2, PostedSets, PostedPlaces DEF IdQueued
  <1>4. ListenRunning' = {} /\ IdRunning' = IdRunning
    BY DEF ListenRunning, IdRunning
  <1>5. AtQueue(q)'
    BY <1>3, <1>4 DEF AtQueue
  <1>6. OneIdTask' /\ (IdPending' <=> IdPending)
    BY <1>3, <1>4, IdTaskStays
  <1> QED
    BY <1>2, <1>3, <1>5, <1>6, BetweenKeeps

LEMMA CollectTimerListening ==
    ASSUME TypeOK, Listening, CollectTimer
    PROVE  Listening'
  <1>1. /\ timers > 0 /\ timers' = timers - 1 /\ Post(ServerTask("timer"))
        /\ UNCHANGED <<pc, job, acceptOps, promises, main>>
    BY DEF CollectTimer, mainVars
  <1>2. acceptOps \in Seq(Nat) /\ timers \in Nat
    BY DEF TypeOK
  <1>3. Len(acceptOps) = 0 /\ timers = 1
    BY <1>1, <1>2, LenProperties DEF Listening, OneRound
  <1>4. ListenQueued = {} /\ ListenRunning = {}
    BY <1>3 DEF Listening, OneRound
  <1>5. acceptOps = <<>>
    BY <1>2, <1>3, EmptySeq
  <1>6. main \notin BeforeListen /\ BetweenRounds
    BY <1>1, <1>3 DEF Listening, NoListenYet, BetweenRounds
  <1>7. "timer" \in BetweenKinds /\ timers' = 0
    BY <1>1, <1>3 DEF BetweenKinds
  <1> QED
    BY <1>1, <1>4, <1>5, <1>6, <1>7, TokenPosted

LEMMA PostFirstListenListening ==
    ASSUME TypeOK, Listening, PostFirstListen
    PROVE  Listening'
  <1>1. /\ main \in BeforeListen /\ main' \notin BeforeListen
        /\ "listen" \in BetweenKinds
    BY DEF PostFirstListen, MainAt, BeforeListen, BetweenKinds
  <1>2. /\ ListenQueued = {} /\ ListenRunning = {} /\ acceptOps = <<>> /\ timers = 0
        /\ BetweenRounds
    BY <1>1 DEF Listening, NoListenYet, BetweenRounds
  <1> QED
    BY <1>1, <1>2, TokenPosted DEF PostFirstListen, listenVars
-----------------------------------------------------------------------------
(* Within a round. *)

\* listen() makes the id task of a new round.
LEMMA PostIdTaskListening ==
    ASSUME TypeOK, Listening, NEW w \in Workers, PostIdTask(w)
    PROVE  Listening'
  <1>. PICK n \in Nat : n = Len(promises) + 1
    BY LenProperties DEF TypeOK
  <1>1. /\ pc[w] \in ListenSteps /\ pc[w] \in BetweenSteps
        /\ "async_accept" \in ListenSteps /\ "id" \notin ListenKinds
        /\ pc \in [Workers -> WorkerSteps] /\ job \in [Workers -> Task]
        /\ queue \in Seq(Task) /\ promises \in Seq(Ids \cup {NoId})
    BY DEF PostIdTask, At, BetweenSteps, ListenSteps, ListenKinds, TypeOK
  <1>2. /\ pc' = [pc EXCEPT ![w] = "async_accept"]
        /\ job' = [job EXCEPT ![w] = IdTask(n)]
        /\ Post(IdTask(n)) /\ promises' = Append(promises, NoId)
        /\ UNCHANGED <<acceptOps, timers, main>>
    BY DEF PostIdTask, mainVars
  <1>3. /\ AtWorker(w) /\ main \notin BeforeListen /\ BetweenRounds
        /\ ~IdPending /\ \A m \in DOMAIN promises : promises[m] = NoId
    BY <1>1, RunningAlone DEF AtWorker, BetweenRounds, Listening, QuietBetween
  <1>4. /\ ListenRunning' = {w} /\ IdRunning' = {}
    BY <1>1, <1>2, <1>3, HolderMoves DEF IdPending
  <1>5. IdTask(n) \in Task /\ IdTask(n).k = "id" /\ IdTask(n).n = n
    BY TaskTypes
  <1>. PICK q \in Nat : q = Len(queue) + 1
    BY <1>1, LenProperties
  <1>6. /\ ListenQueued' = {} /\ IdQueued' = {q} /\ queue'[q] = IdTask(n)
    BY <1>1, <1>2, <1>3, <1>5, PostedSets, PostedPlaces DEF AtWorker, IdPending
  <1>7. LastRound' = n /\ \A m \in DOMAIN promises' : promises'[m] = NoId
    BY <1>1, <1>2, <1>3, AppendProperties, LenProperties DEF LastRound
  <1>8. AtWorker(w)' /\ main' \notin BeforeListen
    BY <1>2, <1>3, <1>4, <1>6 DEF AtWorker
  <1>9. OneRound' /\ NoListenYet'
    BY <1>8, OneToken DEF NoListenYet
  <1>10. OneIdTask' /\ IdPending'
    BY <1>4, <1>6, <1>7 DEF OneIdTask, IdPending
  <1>11. OneDrawnId'
    BY <1>7 DEF OneDrawnId
  <1>12. ~BetweenRounds' /\ RoundIsLast'
    BY <1>1, <1>2, <1>5, <1>7, <1>8
    DEF BetweenRounds, RoundIsLast, AtWorker, ListenQueued, ListenRunning, ListenKinds,
        ListenSteps, BetweenKinds, BetweenSteps
  <1> QED
    BY <1>9, <1>10, <1>11, <1>12 DEF Listening, QuietBetween, RoundHasId

\* The id task draws an id that is not active.
LEMMA GetRandomSpareIdListening ==
    ASSUME TypeOK, Listening, NEW w \in Workers, GetRandomSpareId(w),
           job[w].n \in DOMAIN promises
    PROVE  Listening'
  <1>1. /\ pc[w] = "id" /\ w \in IdRunning /\ "idle" \notin ListenSteps
        /\ "id" \notin ListenSteps
        /\ pc \in [Workers -> WorkerSteps] /\ job \in [Workers -> Task]
        /\ promises \in Seq(Ids \cup {NoId})
    BY DEF GetRandomSpareId, At, IdRunning, ListenSteps, ListenKinds, TypeOK
  <1>2. /\ IdRunning = {w} /\ IdQueued = {} /\ job[w].n = LastRound /\ IdPending
    BY <1>1 DEF Listening, OneIdTask, IdPending
  <1>3. PICK i \in Ids : i \notin activeIds /\ promises' = [promises EXCEPT ![LastRound] = i]
    BY <1>2 DEF GetRandomSpareId, SpareIds
  <1>4. /\ LastRound' = LastRound /\ LastRound \in DOMAIN promises /\ i # NoId
        /\ DOMAIN promises' = DOMAIN promises /\ promises'[LastRound] = i
        /\ \A m \in DOMAIN promises : m # LastRound => promises'[m] = NoId
    <2>1. \A m \in DOMAIN promises : promises[m] = NoId
      BY <1>2 DEF Listening, OneDrawnId
    <2>2. DOMAIN promises' = DOMAIN promises /\ promises' \in Seq(Ids \cup {NoId})
      BY <1>1, <1>2, <1>3, ExceptSeq
    <2> QED
      BY <1>1, <1>2, <1>3, <2>1, <2>2, ConstantsAssumption, LenProperties DEF LastRound
  <1>5. /\ UNCHANGED <<queue, acceptOps, timers, main, activeIds>>
        /\ pc' = [pc EXCEPT ![w] = "idle"] /\ job' = [job EXCEPT ![w] = NoTask]
    BY DEF GetRandomSpareId, Return, mainVars, idVars
  <1>6. /\ ListenRunning' = ListenRunning /\ IdRunning' = {}
        /\ ListenQueued' = ListenQueued /\ IdQueued' = {}
    BY <1>1, <1>2, <1>5 DEF ListenRunning, IdRunning, ListenQueued, IdQueued
  <1>7. ~IdPending' /\ OneIdTask' /\ OneRound' /\ NoListenYet'
    BY <1>5, <1>6 DEF IdPending, OneIdTask, Listening, OneRound, NoListenYet
  <1>8. OneDrawnId'
    BY <1>3, <1>4, <1>5, <1>7 DEF OneDrawnId
  <1>9. ~BetweenRounds'
    <2>1. ~BetweenRounds
      BY <1>2 DEF Listening, QuietBetween
    <2>2. \A v \in Workers : pc'[v] = pc[v] \/ pc'[v] \notin BetweenSteps
      BY <1>1, <1>5 DEF BetweenSteps, BetweenKinds
    <2> QED
      BY <1>5, <2>1, <2>2 DEF BetweenRounds
  <1>10. RoundIsLast'
    <2>1. \A v \in Workers : \/ pc'[v] = pc[v] /\ job'[v] = job[v]
                             \/ pc'[v] \notin {"accept", "async_accept"}
      BY <1>1, <1>5
    <2> QED
      BY <1>4, <1>5, <2>1 DEF Listening, RoundIsLast
  <1> QED
    BY <1>4, <1>7, <1>8, <1>9, <1>10 DEF Listening, QuietBetween, RoundHasId

\* on_connection_attempt claims the id, and the round is over.
LEMMA InsertIdListening ==
    ASSUME TypeOK, Listening, NEW w \in Workers, InsertId(w),
           job[w].n \in DOMAIN promises
    PROVE  Listening'
  <1>1. /\ pc[w] \in ListenSteps /\ "post_handshake" \in ListenSteps
        /\ pc \in [Workers -> WorkerSteps] /\ promises \in Seq(Ids \cup {NoId})
    BY DEF InsertId, At, ListenSteps, ListenKinds, TypeOK
  <1>2. /\ job[w].n = LastRound /\ promises[LastRound] # NoId
        /\ promises' = [promises EXCEPT ![LastRound] = NoId]
        /\ pc' = [pc EXCEPT ![w] = "post_handshake"]
        /\ UNCHANGED <<queue, job, acceptOps, timers, main>>
    BY DEF InsertId, At, Goto, Listening, RoundIsLast, mainVars
  <1>3. ~IdPending /\ \A m \in DOMAIN promises : m # LastRound => promises[m] = NoId
    BY <1>2 DEF Listening, OneDrawnId
  <1>4. \A m \in DOMAIN promises' : promises'[m] = NoId
    BY <1>1, <1>2, <1>3
  <1>5. /\ AtWorker(w) /\ main \notin BeforeListen
        /\ ListenRunning' = {w} /\ IdRunning' = IdRunning
        /\ ListenQueued' = ListenQueued /\ IdQueued' = IdQueued
    BY <1>1, <1>2, HolderMoves DEF ListenQueued, IdQueued
  <1>6. AtWorker(w)' /\ main' \notin BeforeListen /\ ~IdPending'
    BY <1>2, <1>3, <1>5 DEF AtWorker, IdPending
  <1>7. OneRound' /\ NoListenYet'
    BY <1>6, OneToken DEF NoListenYet
  <1>8. OneIdTask' /\ OneDrawnId' /\ QuietBetween'
    BY <1>4, <1>6 DEF OneIdTask, IdPending, OneDrawnId, QuietBetween
  <1>9. ~InRound' /\ RoundIsLast'
    BY <1>1, <1>2, <1>6
    DEF InRound, RoundIsLast, AtWorker, ListenQueued, ListenRunning, ListenKinds,
        ListenSteps
  <1> QED
    BY <1>7, <1>8, <1>9 DEF Listening, RoundHasId

\* A waiting accept operation is all there is of the listening side.
LEMMA WaitingAlone ==
    ASSUME TypeOK, Listening, acceptOps # <<>>
    PROVE  /\ AtAcceptor /\ acceptOps = <<LastRound>> /\ main \notin BeforeListen
           /\ InRound /\ LastRound \in Nat
  <1>1. acceptOps \in Seq(Nat) /\ timers \in Nat /\ LastRound \in Nat
    BY LenProperties DEF TypeOK, LastRound
  <1>2. Len(acceptOps) \in Nat /\ Len(acceptOps) # 0
    BY <1>1, LenProperties, EmptySeq
  <1>3. Len(acceptOps) = 1 /\ timers = 0
    <2>1. Len(acceptOps) + timers <= 1
      BY DEF Listening, OneRound
    <2>2. \A l, t \in Nat : l # 0 /\ l + t <= 1 => l = 1 /\ t = 0
      OBVIOUS
    <2> QED
      BY <1>1, <1>2, <2>1, <2>2
  <1>4. ListenQueued = {} /\ ListenRunning = {}
    BY <1>3 DEF Listening, OneRound
  <1>5. DOMAIN acceptOps = 1 .. 1 /\ acceptOps[1] = LastRound
    BY <1>1, <1>3, LenProperties DEF Listening, RoundIsLast
  <1>6. acceptOps = <<LastRound>>
    BY <1>1, <1>3, <1>5
  <1> QED
    BY <1>1, <1>3, <1>4, <1>6 DEF AtAcceptor, InRound, Listening, NoListenYet

\* The handler of an accept is posted, and nothing else changes but the worker
\* that posts it.
LEMMA AcceptPosted ==
    ASSUME TypeOK, Listening, InRound, ListenQueued = {},
           NEW c \in Clients \cup {NoClient}, Post(AcceptTask(LastRound, c)),
           UNCHANGED <<promises, activeIds>>, acceptOps' = <<>>, timers' = 0,
           ListenRunning' = {}, IdRunning' = IdRunning,
           \A v \in IdRunning : job'[v] = job[v], main' \notin BeforeListen
    PROVE  Listening'
  <1>1. queue \in Seq(Task) /\ LastRound \in Nat /\ "accept" \in ListenKinds
    BY LenProperties DEF TypeOK, LastRound, ListenKinds
  <1>2. PICK t \in Task : /\ t = AcceptTask(LastRound, c)
                          /\ t.k = "accept" /\ t.n = LastRound
    BY <1>1, TaskTypes
  <1>. PICK q \in Nat : q = Len(queue) + 1
    BY <1>1, LenProperties
  <1>3. /\ ListenQueued' = {q} /\ IdQueued' = IdQueued
        /\ q \in DOMAIN queue' /\ queue'[q] = t
        /\ \A i \in IdQueued : queue'[i] = queue[i]
    BY <1>1, <1>2, PostedSets, PostedPlaces DEF IdQueued
  <1>4. AtQueue(q)'
    BY <1>3 DEF AtQueue
  <1>5. OneIdTask' /\ (IdPending' <=> IdPending)
    BY <1>3, IdTaskStays
  <1> QED
    BY <1>2, <1>3, <1>4, <1>5, RoundKeeps

LEMMA AsyncAcceptListening ==
    ASSUME TypeOK, Listening, NEW w \in Workers, AsyncAccept(w)
    PROVE  Listening'
  <1>1. /\ pc[w] \in ListenSteps /\ "idle" \notin ListenSteps
        /\ pc \in [Workers -> WorkerSteps] /\ job \in [Workers -> Task]
    BY DEF AsyncAccept, At, ListenSteps, ListenKinds, TypeOK
  <1>2. /\ job[w].n = LastRound /\ InRound
        /\ pc' = [pc EXCEPT ![w] = "idle"] /\ job' = [job EXCEPT ![w] = NoTask]
        /\ UNCHANGED <<promises, activeIds, timers, main>>
    BY DEF AsyncAccept, At, Return, Listening, RoundIsLast, InRound, mainVars, idVars
  <1>3. /\ AtWorker(w) /\ main \notin BeforeListen
        /\ ListenRunning' = {} /\ IdRunning' = IdRunning
        /\ IdRunning \subseteq Workers \ {w}
    BY <1>1, <1>2, HolderMoves
  <1>4. \A v \in IdRunning : job'[v] = job[v]
    BY <1>1, <1>2, <1>3
  <1>5. ASSUME NEW c \in Clients \cup {NoClient}, Post(AcceptTask(LastRound, c)),
               UNCHANGED acceptOps
        PROVE  Listening'
    BY <1>2, <1>3, <1>4, <1>5, AcceptPosted DEF AtWorker
  <1>6. ASSUME UNCHANGED queue, acceptOps' = Append(acceptOps, LastRound)
        PROVE  Listening'
    <2>1. acceptOps' = <<LastRound>>
      BY <1>3, <1>6 DEF AtWorker
    <2>2. AtAcceptor'
      BY <1>2, <1>3, <1>6, <2>1 DEF AtWorker, AtAcceptor, ListenQueued
    <2>3. IdQueued' = IdQueued
      BY <1>6 DEF IdQueued
    <2>4. OneIdTask' /\ (IdPending' <=> IdPending)
      BY <1>2, <1>3, <1>4, <1>6, <2>3, IdTaskStays
    <2> QED
      BY <1>2, <1>3, <2>1, <2>2, <2>4, RoundKeeps
  <1> QED
    BY <1>2, <1>5, <1>6 DEF AsyncAccept

LEMMA AcceptFailedListening ==
    ASSUME TypeOK, Listening, NEW w \in Workers, AcceptFailed(w)
    PROVE  Listening'
  <1>1. /\ pc[w] \in ListenSteps /\ "idle" \notin ListenSteps /\ InRound
        /\ pc \in [Workers -> WorkerSteps] /\ job \in [Workers -> Task]
    BY DEF AcceptFailed, At, ListenSteps, ListenKinds, TypeOK, InRound
  <1>2. /\ pc' = [pc EXCEPT ![w] = "idle"] /\ job' = [job EXCEPT ![w] = NoTask]
        /\ UNCHANGED <<queue, promises, activeIds, acceptOps, timers, main>>
    BY DEF AcceptFailed, Return, mainVars, idVars, listenVars
  <1>3. /\ AtWorker(w) /\ main \notin BeforeListen
        /\ ListenRunning' = {} /\ IdRunning' = IdRunning
        /\ IdRunning \subseteq Workers \ {w}
    BY <1>1, <1>2, HolderMoves
  <1>4. /\ \A v \in IdRunning : job'[v] = job[v]
        /\ IdQueued' = IdQueued /\ ListenQueued' = ListenQueued
    BY <1>1, <1>2, <1>3 DEF IdQueued, ListenQueued
  <1>5. OneIdTask' /\ (IdPending' <=> IdPending)
    BY <1>2, <1>3, <1>4, IdTaskStays
  <1>6. Nowhere'
    BY <1>2, <1>3, <1>4 DEF AtWorker, Nowhere
  <1> QED
    BY <1>1, <1>2, <1>3, <1>5, <1>6, RoundKeeps

LEMMA AcceptorReadyListening ==
    ASSUME TypeOK, Listening, NEW w \in Workers, AcceptorReady(w)
    PROVE  Listening'
  <1>1. /\ pc[w] \notin ListenSteps \cup {"id"} /\ "accept" \in ListenSteps
        /\ "idle" \notin ListenSteps \cup {"id"}
        /\ pc \in [Workers -> WorkerSteps] /\ job \in [Workers -> Task]
        /\ UNCHANGED <<queue, promises, timers, activeIds, main>>
    BY DEF AcceptorReady, At, ListenSteps, ListenKinds, TypeOK, mainVars, idVars
  <1>2. ASSUME acceptOps # <<>>, NEW c \in Clients \cup {NoClient},
               job' = [job EXCEPT ![w] = AcceptTask(Head(acceptOps), c)],
               acceptOps' = Tail(acceptOps), pc' = [pc EXCEPT ![w] = "accept"]
        PROVE  Listening'
    <2>1. /\ AtAcceptor /\ acceptOps = <<LastRound>> /\ main \notin BeforeListen
          /\ InRound /\ LastRound \in Nat
      BY <1>2, WaitingAlone
    <2>2. /\ acceptOps' = <<>> /\ job' = [job EXCEPT ![w] = AcceptTask(LastRound, c)]
      BY <1>2, <2>1
    <2>3. job'[w].n = LastRound /\ pc'[w] = "accept"
      BY <1>1, <1>2, <2>1, <2>2, TaskTypes
    <2>4. /\ ListenRunning' = {w} /\ IdRunning' = IdRunning
          /\ ListenQueued' = {} /\ IdQueued' = IdQueued
      BY <1>1, <1>2, <2>1
      DEF AtAcceptor, ListenRunning, IdRunning, ListenQueued, IdQueued
    <2>5. \A v \in IdRunning : job'[v] = job[v]
      BY <1>1, <1>2 DEF IdRunning
    <2>6. OneIdTask' /\ (IdPending' <=> IdPending)
      BY <1>1, <2>4, <2>5, IdTaskStays
    <2>7. AtWorker(w)'
      BY <1>1, <2>1, <2>2, <2>4 DEF AtAcceptor, AtWorker
    <2> QED
      BY <1>1, <2>1, <2>3, <2>6, <2>7, RoundKeeps
  <1>3. ASSUME Return(w), UNCHANGED acceptOps
        PROVE  Listening'
    BY <1>1, <1>3, ElsewhereKeeps DEF Return, Elsewhere
  <1> QED
    BY <1>2, <1>3 DEF AcceptorReady

LEMMA OneToAbort ==
    ASSUME queue \in Seq(Task), NEW n \in Nat, acceptOps = <<n>>
    PROVE  queue \o Aborted = Append(queue, AcceptTask(n, NoClient))
  <1>1. Aborted = <<AcceptTask(n, NoClient)>>
    BY DEF Aborted
  <1>2. AcceptTask(n, NoClient) \in Task
    BY TaskTypes
  <1> QED
    BY <1>1, <1>2

\* The owner cancels and closes the acceptor: the waiting accept is aborted.
LEMMA CloseListening ==
    ASSUME TypeOK, Listening, CancelAcceptor \/ CloseAcceptor
    PROVE  Listening'
  <1>1. /\ queue' = queue \o Aborted /\ acceptOps' = <<>> /\ main' \notin BeforeListen
        /\ UNCHANGED <<pc, job, promises, activeIds, timers>>
        /\ queue \in Seq(Task)
    BY DEF CancelAcceptor, CloseAcceptor, BeforeListen, idVars, TypeOK
  <1>2. CASE acceptOps = <<>>
    <2>1. queue' = queue
      BY <1>1, <1>2, NothingToAbort
    <2> QED
      BY <1>1, <1>2, <2>1, ElsewhereKeeps DEF Elsewhere
  <1>3. CASE acceptOps # <<>>
    <2>1. /\ AtAcceptor /\ acceptOps = <<LastRound>> /\ InRound /\ LastRound \in Nat
      BY <1>3, WaitingAlone
    <2>2. Post(AcceptTask(LastRound, NoClient))
      BY <1>1, <2>1, OneToAbort DEF Post
    <2>3. ListenRunning' = {} /\ IdRunning' = IdRunning
      BY <1>1, <2>1 DEF AtAcceptor, ListenRunning, IdRunning
    <2> QED
      BY <1>1, <2>1, <2>2, <2>3, AcceptPosted DEF AtAcceptor
  <1> QED
    BY <1>2, <1>3
-----------------------------------------------------------------------------
(* do_run_one takes the first handler of the queue. *)

LEMMA DequeuedPlaces ==
    ASSUME queue \in Seq(Task), queue # <<>>, queue' = Tail(queue)
    PROVE  /\ 1 \in DOMAIN queue /\ Head(queue) = queue[1] /\ queue[1] \in Task
           /\ \A i \in DOMAIN queue' : /\ i \in Nat /\ i > 0 /\ i + 1 \in DOMAIN queue
                                       /\ queue'[i] = queue[i + 1]
           /\ \A i \in DOMAIN queue :
                  i = 1 \/ (i - 1 \in DOMAIN queue' /\ queue'[i - 1] = queue[i])
  BY HeadTailProperties, LenProperties

\* The id task is still the only one.
LEMMA DequeueIdTask ==
    ASSUME TypeOK, Listening, NEW w \in Workers, Dequeue(w)
    PROVE  OneIdTask' /\ (IdPending' <=> IdPending)
  <1>1. /\ pc[w] = "idle" /\ queue \in Seq(Task) /\ queue # <<>> /\ queue' = Tail(queue)
        /\ pc \in [Workers -> WorkerSteps] /\ job \in [Workers -> Task]
        /\ pc' = [pc EXCEPT ![w] = queue[1].k] /\ job' = [job EXCEPT ![w] = queue[1]]
        /\ promises' = promises
    BY DequeuedPlaces DEF Dequeue, At, TypeOK, listenVars
  <1>2. \A i \in IdQueued' : i + 1 \in IdQueued /\ queue'[i] = queue[i + 1] /\ i > 0
                             /\ i \in Nat
    BY <1>1, DequeuedPlaces DEF IdQueued
  <1>3. \A i, j \in IdQueued' : i = j
    <2>1. \A i, j \in IdQueued' : i + 1 = j + 1
      BY <1>2 DEF Listening, OneIdTask
    <2> QED
      BY <1>2, <2>1
  <1>4. /\ \A i \in IdQueued' : queue'[i] = IdTask(LastRound)'
        /\ LastRound' = LastRound
    BY <1>1, <1>2 DEF Listening, OneIdTask, LastRound, IdTask
  <1>5. CASE queue[1].k = "id"
    <2>1. 1 \in IdQueued
      BY <1>1, <1>5, DequeuedPlaces DEF IdQueued
    <2>2. IdRunning = {} /\ queue[1] = IdTask(LastRound) /\ IdPending
      BY <2>1 DEF Listening, OneIdTask, IdPending
    <2>3. IdQueued' = {}
      <3>1. \A i \in IdQueued' : i + 1 = 1
        BY <1>2, <2>1 DEF Listening, OneIdTask
      <3> QED
        BY <1>2, <3>1
    <2>4. IdRunning' = {w}
      BY <1>1, <1>5, <2>2 DEF IdRunning
    <2>5. job'[w].n = LastRound
      BY <1>1, <2>2 DEF IdTask
    <2> QED
      BY <1>3, <1>4, <2>2, <2>3, <2>4, <2>5 DEF OneIdTask, IdPending
  <1>6. CASE queue[1].k # "id"
    <2>1. IdRunning' = IdRunning /\ \A v \in IdRunning : job'[v] = job[v]
      BY <1>1, <1>6 DEF IdRunning
    <2>2. IdQueued = {} <=> IdQueued' = {}
      <3>1. ASSUME NEW i \in IdQueued
            PROVE  i - 1 \in IdQueued'
        BY <1>1, <1>6, DequeuedPlaces DEF IdQueued
      <3> QED
        BY <1>2, <3>1
    <2> QED
      BY <1>3, <1>4, <2>1, <2>2 DEF Listening, OneIdTask, IdPending
  <1> QED
    BY <1>5, <1>6

\* A queued handler of listen() is all there is of the listening side.
LEMMA QueuedAlone ==
    ASSUME TypeOK, Listening, NEW q \in ListenQueued
    PROVE  AtQueue(q) /\ main \notin BeforeListen
  <1>1. acceptOps \in Seq(Nat) /\ timers \in Nat /\ Len(acceptOps) \in Nat
    BY LenProperties DEF TypeOK
  <1>2. ListenQueued = {q} /\ ListenRunning = {} /\ Len(acceptOps) + timers = 0
    BY DEF Listening, OneRound
  <1>3. \A l, t \in Nat : l + t = 0 => l = 0 /\ t = 0
    OBVIOUS
  <1>4. acceptOps = <<>> /\ timers = 0
    BY <1>1, <1>2, <1>3, EmptySeq
  <1> QED
    BY <1>2, <1>4 DEF AtQueue, Listening, NoListenYet

LEMMA DequeueListening ==
    ASSUME TypeOK, Listening, NEW w \in Workers, Dequeue(w)
    PROVE  Listening'
  <1>1. /\ pc[w] = "idle" /\ queue \in Seq(Task) /\ queue # <<>> /\ queue' = Tail(queue)
        /\ pc \in [Workers -> WorkerSteps] /\ job \in [Workers -> Task]
        /\ pc' = [pc EXCEPT ![w] = queue[1].k] /\ job' = [job EXCEPT ![w] = queue[1]]
        /\ UNCHANGED <<promises, activeIds, acceptOps, timers, main>>
        /\ "idle" \notin ListenSteps \cup {"id"}
    BY DequeuedPlaces
    DEF Dequeue, At, TypeOK, listenVars, idVars, mainVars, ListenSteps, ListenKinds
  <1>2. OneIdTask' /\ (IdPending' <=> IdPending)
    BY DequeueIdTask
  <1>3. \A i \in ListenQueued' : i + 1 \in ListenQueued /\ i > 0 /\ i \in Nat
    BY <1>1, DequeuedPlaces DEF ListenQueued
  <1>4. CASE queue[1].k \in ListenKinds
    <2>1. 1 \in ListenQueued
      BY <1>1, <1>4, DequeuedPlaces DEF ListenQueued
    <2>2. AtQueue(1) /\ main \notin BeforeListen
      BY <2>1, QueuedAlone
    <2>3. ListenQueued' = {}
      <3>1. \A i \in ListenQueued' : i + 1 = 1
        BY <1>3, <2>2 DEF AtQueue
      <3> QED
        BY <1>3, <3>1
    <2>4. ListenRunning' = {w}
      BY <1>1, <1>4, <2>2 DEF AtQueue, ListenRunning, ListenSteps
    <2>5. AtWorker(w)'
      BY <1>1, <2>2, <2>3, <2>4 DEF AtQueue, AtWorker
    <2>6. CASE queue[1].k = "accept"
      <3>1. InRound /\ queue[1].n = LastRound
        BY <1>1, <2>1, <2>6 DEF InRound, ListenQueued, Listening, RoundIsLast
      <3>2. job'[w].n = LastRound /\ pc'[w] = "accept"
        BY <1>1, <2>6, <3>1
      <3> QED
        BY <1>1, <1>2, <2>2, <2>5, <3>1, <3>2, RoundKeeps
    <2>7. CASE queue[1].k # "accept"
      <3>1. queue[1].k \in BetweenKinds /\ pc'[w] \in BetweenSteps
        BY <1>1, <1>4, <2>7 DEF ListenKinds, BetweenKinds, BetweenSteps
      <3>2. BetweenRounds
        BY <2>1, <3>1 DEF BetweenRounds, ListenQueued
      <3> QED
        BY <1>1, <1>2, <2>2, <2>5, <3>1, <3>2, BetweenKeeps
    <2> QED
      BY <2>6, <2>7
  <1>5. CASE queue[1].k \notin ListenKinds
    <2>1. pc'[w] \notin ListenSteps
      BY <1>1, <1>5, DequeuedPlaces DEF ListenSteps, ListenKinds, Task, Kinds
    <2>2. ListenRunning' = ListenRunning
      BY <1>1, <2>1 DEF ListenRunning
    <2>3. \A i, j \in ListenQueued' : i = j
      <3>1. \A i, j \in ListenQueued' : i + 1 = j + 1
        BY <1>3 DEF Listening, OneRound
      <3> QED
        BY <1>3, <3>1
    <2>4. ListenQueued = {} => ListenQueued' = {}
      BY <1>3
    <2>5. OneRound' /\ NoListenYet'
      BY <1>1, <2>2, <2>3, <2>4 DEF Listening, OneRound, NoListenYet
    <2>6. OneDrawnId'
      BY <1>1, <1>2 DEF Listening, OneDrawnId, LastRound
    <2>7. \A v \in Workers : \/ pc'[v] = pc[v] /\ job'[v] = job[v]
                             \/ pc'[v] \notin ListenSteps
      BY <1>1, <2>1
    <2>8. \A i \in DOMAIN queue' : i + 1 \in DOMAIN queue /\ queue'[i] = queue[i + 1]
      BY <1>1, DequeuedPlaces
    <2>9. BetweenRounds' => BetweenRounds
      BY <1>1, <2>7, <2>8 DEF BetweenRounds, BetweenSteps, BetweenKinds, ListenSteps,
                              ListenKinds
    <2>10. RoundIsLast'
      BY <1>1, <2>7, <2>8 DEF Listening, RoundIsLast, LastRound, ListenSteps, ListenKinds
    <2>11. InRound' => InRound
      BY <1>1, <2>7, <2>8 DEF InRound, ListenSteps, ListenKinds
    <2> QED
      BY <1>1, <1>2, <2>5, <2>6, <2>9, <2>10, <2>11
      DEF Listening, QuietBetween, RoundHasId, LastRound
  <1> QED
    BY <1>4, <1>5
-----------------------------------------------------------------------------
(* All steps. *)

\* A handler posted for a session is none of the listening side.
LEMMA PostElsewhere ==
    ASSUME queue \in Seq(Task), NEW t \in Task, Post(t),
           t.k \notin ListenKinds \cup {"id"}
    PROVE  /\ \A i \in DOMAIN queue : i \in DOMAIN queue' /\ queue'[i] = queue[i]
           /\ \A i \in DOMAIN queue' : \/ i \in DOMAIN queue
                                       \/ queue'[i].k \notin ListenKinds \cup {"id"}
  BY PostedPlaces

\* The session's steps, but for "post_handshake", are none of the listening side.
LEMMA SessionElsewhere ==
    /\ "idle" \notin ListenSteps \cup {"id"}
    /\ \A s \in SessionSteps \ {"post_handshake"} : s \notin ListenSteps \cup {"id"}
    /\ \A k \in SessionSteps : k \notin ListenKinds \cup {"id"}
  BY DEF SessionSteps, ListenSteps, ListenKinds

LEMMA SessionStepListening ==
    ASSUME IInv, Listening, NEW w \in Workers, SessionStep(w)
    PROVE  Listening'
  <1>1. /\ TypeOK /\ queue \in Seq(Task) /\ pc \in [Workers -> WorkerSteps]
        /\ job \in [Workers -> Task]
    BY DEF IInv, TypeOK
  <1>2. pc[w] \in SessionSteps \ {"post_handshake"}
    BY DEF SessionStep, Initiate, StartsOp, CountConnection, PostRead, PostShutdown,
           PostProcess, ProcessMessage, Respond, EraseId, CloseSocket, Decrement, At,
           SessionSteps
  <1>3. job[w].c \in Clients /\ job[w].r \in Results
    BY <1>1, <1>2, SessionClient DEF Task
  <1>4. /\ UNCHANGED <<acceptOps, timers, promises, main>>
        /\ activeIds' \subseteq activeIds
    BY DEF SessionStep, Initiate, StartsOp, CountConnection, PostRead, PostShutdown,
           PostProcess, ProcessMessage, Respond, EraseId, CloseSocket, Decrement,
           listenVars, idVars, mainVars
  <1>5. \A v \in Workers : \/ pc'[v] = pc[v] /\ job'[v] = job[v]
                           \/ /\ pc[v] \notin ListenSteps \cup {"id"}
                              /\ pc'[v] \notin ListenSteps \cup {"id"}
    <2>1. CASE \/ Initiate(w) \/ PostRead(w) \/ PostShutdown(w) \/ PostProcess(w)
               \/ Respond(w) \/ Decrement(w)
      <3>1. Return(w)
        BY <2>1 DEF Initiate, StartOp, PostRead, PostShutdown, PostProcess, Respond,
                    Decrement
      <3> QED
        BY <1>1, <1>2, <3>1, SessionElsewhere DEF Return
    <2>2. CASE CountConnection(w) \/ ProcessMessage(w) \/ EraseId(w) \/ CloseSocket(w)
      <3>1. PICK s \in SessionSteps \ {"post_handshake"} : Goto(w, s)
        BY <2>2 DEF CountConnection, ProcessMessage, EraseId, CloseSocket, SessionSteps
      <3> QED
        BY <1>1, <1>2, <3>1, SessionElsewhere DEF Goto
    <2> QED
      BY <2>1, <2>2 DEF SessionStep
  <1>6. queue' = queue \/ \E t \in Task : Post(t) /\ t.k \in SessionSteps
    <2>1. CASE PostRead(w)
      BY <1>3, <2>1, TaskTypes DEF PostRead, Kinds, Results, SessionSteps
    <2>2. CASE PostShutdown(w)
      BY <1>3, <2>2, TaskTypes DEF PostShutdown, Kinds, Results, SessionSteps
    <2>3. CASE PostProcess(w)
      BY <1>3, <2>3, TaskTypes DEF PostProcess, Kinds, Results, SessionSteps
    <2>4. CASE ~(PostRead(w) \/ PostShutdown(w) \/ PostProcess(w))
      BY <2>4 DEF SessionStep, Initiate, StartOp, CountConnection, ProcessMessage,
                  Respond, EraseId, CloseSocket, Decrement
    <2> QED
      BY <2>1, <2>2, <2>3, <2>4
  <1>7. Elsewhere
    BY <1>1, <1>4, <1>5, <1>6, PostElsewhere, SessionElsewhere DEF Elsewhere
  <1> QED
    BY <1>1, <1>7, ElsewhereKeeps

LEMMA AcceptStepListening ==
    ASSUME IInv, Listening, NEW w \in Workers, AcceptStep(w)
    PROVE  Listening'
  <1>1. TypeOK
    BY DEF IInv
  <1>2. pc[w] \in {"id", "accept"} => job[w].n \in DOMAIN promises
    BY DEF IInv, CapturesValid, WorkersFit, Fits, RoundSteps, IsRound
  <1>3. CASE AcceptorThrows(w)
    BY <1>1, <1>3, ElsewhereKeeps
    DEF AcceptorThrows, Crash, Elsewhere, mainVars, ioVars, listenVars, idVars
  <1>4. CASE PostHandshake(w)
    <2>1. job[w].c \in Clients
      BY <1>4, SessionClient DEF PostHandshake, At, SessionSteps
    <2> QED
      BY <1>1, <1>4, <2>1, PostHandshakeListening
  <1>5. CASE GetRandomSpareId(w)
    BY <1>1, <1>2, <1>5, GetRandomSpareIdListening DEF GetRandomSpareId, At
  <1>6. CASE InsertId(w)
    BY <1>1, <1>2, <1>6, InsertIdListening DEF InsertId, At
  <1>7. CASE ~(AcceptorThrows(w) \/ PostHandshake(w) \/ GetRandomSpareId(w)
               \/ InsertId(w))
    BY <1>1, <1>7, ListenBetween, PostIdTaskListening, AsyncAcceptListening,
       AcceptorReadyListening, AcceptFailedListening, ArmTimerListening DEF AcceptStep
  <1> QED
    BY <1>3, <1>4, <1>5, <1>6, <1>7

LEMMA OwnerStepListening ==
    ASSUME TypeOK, Listening, OwnerStep, ~(Start /\ main # "new")
    PROVE  Listening'
  <1>1. CASE Start
    BY <1>1, ElsewhereKeeps
    DEF Start, MainAt, Elsewhere, BeforeListen, ioVars, listenVars, idVars
  <1>2. CASE PostWorkers
    BY <1>2, ElsewhereKeeps
    DEF PostWorkers, MainAt, Elsewhere, BeforeListen, ListenSteps, ListenKinds,
        listenVars, idVars
  <1>3. CASE ConfigureSsl \/ ConfigureAcceptor
    BY <1>3, ElsewhereKeeps
    DEF ConfigureSsl, ConfigureAcceptor, MainAt, Elsewhere, BeforeListen, ioVars,
        listenVars, idVars
  <1>4. CASE BindThrows \/ CancelThrows
    BY <1>4, ElsewhereKeeps
    DEF BindThrows, CancelThrows, Crash, Elsewhere, mainVars, ioVars, listenVars, idVars
  <1>5. CASE Shutdown \/ ResetGuard \/ StopContext \/ Join
    BY <1>5, ElsewhereKeeps
    DEF Shutdown, ResetGuard, StopContext, Join, Elsewhere, BeforeListen, ioVars,
        listenVars, idVars
  <1> QED
    BY <1>1, <1>2, <1>3, <1>4, <1>5, PostFirstListenListening, CloseListening
    DEF OwnerStep

LEMMA ListenInvKept ==
    ASSUME IInv, OwnerInv, ListenInv, [Next]_vars
    PROVE  ListenInv'
  <1>1. TypeOK
    BY DEF IInv
  <1>2. starts' <= 1 => starts <= 1 /\ ~(Start /\ main # "new")
    <2>1. starts \in Nat
      BY <1>1 DEF TypeOK
    <2>2. starts' = starts \/ Start
      BY <1>1, HandlersLeaveOwner
      DEF Next, OwnerStep, PostWorkers, ConfigureSsl, ConfigureAcceptor, BindThrows,
          PostFirstListen, Shutdown, ResetGuard, CancelAcceptor, CancelThrows,
          CloseAcceptor, StopContext, Join, Crash, WorkerStep, EnterLoop, Dequeue,
          RunReturns, CollectAcceptor, CollectTimer, Complete, Connect, vars, mainVars
    <2>3. Start => starts' = starts + 1 /\ (main # "new" => starts # 0)
      BY DEF Start, OwnerInv
    <2> QED
      BY <2>1, <2>2, <2>3
  <1> SUFFICES ASSUME Listening, ~(Start /\ main # "new")
               PROVE  Listening'
    BY <1>2 DEF ListenInv
  <1>3. CASE OwnerStep
    BY <1>1, <1>3, OwnerStepListening
  <1>4. ASSUME NEW w \in Workers, EnterLoop(w) \/ RunReturns(w)
        PROVE  Listening'
    BY <1>1, <1>4, ElsewhereKeeps
    DEF EnterLoop, RunReturns, Goto, At, Elsewhere, ListenSteps, ListenKinds, mainVars,
        listenVars, idVars, TypeOK
  <1>5. CASE CollectAcceptor
    <2>1. /\ queue \in Seq(Task) /\ ServerTask("acceptor") \in Task
          /\ ServerTask("acceptor").k \notin ListenKinds \cup {"id"}
      BY <1>1, TaskTypes DEF TypeOK, Kinds, ListenKinds
    <2>2. Elsewhere
      BY <1>5, <2>1, PostElsewhere DEF CollectAcceptor, Elsewhere, mainVars, idVars
    <2> QED
      BY <1>1, <2>2, ElsewhereKeeps
  <1>6. ASSUME NEW w \in Workers, NEW op \in Op, Complete(w, op)
        PROVE  Listening'
    <2>1. HandlerOf[op.k] \notin ListenSteps \cup {"id"}
      BY DEF Op, HandlerOf, OpKinds, ListenSteps, ListenKinds
    <2>2. pc[w] = "idle" /\ pc'[w] = HandlerOf[op.k]
      BY <1>1, <1>6 DEF Complete, At, TypeOK
    <2>3. \A v \in Workers : v # w => pc'[v] = pc[v] /\ job'[v] = job[v]
      BY <1>1, <1>6 DEF Complete, TypeOK
    <2>4. Elsewhere
      BY <1>6, <2>1, <2>2, <2>3
      DEF Complete, Elsewhere, ListenSteps, ListenKinds, mainVars, listenVars, idVars
    <2> QED
      BY <1>1, <2>4, ElsewhereKeeps
  <1>7. ASSUME NEW c \in Clients, Connect(c)
        PROVE  Listening'
    BY <1>1, <1>7, ElsewhereKeeps DEF Connect, Elsewhere, mainVars, ioVars, idVars
  <1>8. CASE UNCHANGED vars
    BY <1>1, <1>8, ElsewhereKeeps
    DEF vars, Elsewhere, mainVars, ioVars, listenVars, idVars
  <1> QED
    BY <1>1, <1>3, <1>4, <1>5, <1>6, <1>7, <1>8, DequeueListening, AcceptStepListening,
       SessionStepListening, CollectTimerListening
    DEF Next, WorkerStep

\* ListenInv is an invariant of the server.
THEOREM ListenInvariant == Spec => []ListenInv
  <1>1. Init => ListenInv
    BY DEF Init, ListenInv, Listening, OneRound, NoListenYet, OneIdTask, OneDrawnId,
           QuietBetween, RoundIsLast, RoundHasId, ListenQueued, ListenRunning, IdQueued,
           IdRunning, IdPending, InRound, ListenSteps, ListenKinds
  <1>2. IInv /\ OwnerInv /\ ListenInv /\ [Next]_vars => ListenInv'
    BY ListenInvKept
  <1> QED
    BY <1>1, <1>2, InductiveInvariant, OwnerInvariant, PTL DEF Spec

\* There is never more than one round of listen(), whatever fails and however the
\* handlers of the acceptor, the timer and shutdown() interleave.
THEOREM ListensOnce == Spec => []OneListener
  <1>1. ListenInv => OneListener
    BY DEF ListenInv, Listening, OneListener
  <1> QED
    BY <1>1, ListenInvariant, PTL

\* Two workers are never in the unlocked random generator at once.
THEOREM GeneratorUnshared == Spec => []GeneratorExclusive
  <1>1. TypeOK /\ OwnerInv /\ ListenInv => GeneratorExclusive
    <2>1. CASE starts <= 1
      BY <2>1 DEF ListenInv, Listening, OneIdTask, IdRunning, GeneratorExclusive
    <2>2. ASSUME TypeOK, OwnerInv, ~(starts <= 1)
          PROVE  GeneratorExclusive
      BY <2>2 DEF TypeOK, OwnerInv, AllExited, GeneratorExclusive
    <2> QED
      BY <2>1, <2>2
  <1> QED
    BY <1>1, TypeCorrect, OwnerInvariant, ListenInvariant, PTL

\* A worker that waits for an id never waits for a task that is lost.
THEOREM TaskNeverLost == Spec => []PromiseKept
  <1>1. TypeOK /\ OwnerInv /\ ListenInv => PromiseKept
    <2> SUFFICES ASSUME TypeOK, OwnerInv, ListenInv, NEW w \in Workers, Waiting(w)
                 PROVE  \/ \E i \in DOMAIN queue : queue[i] = IdTask(job[w].n)
                        \/ \E v \in Workers : pc[v] = "id" /\ job[v].n = job[w].n
      BY DEF PromiseKept
    <2>1. Listening
      BY DEF TypeOK, OwnerInv, AllExited, Waiting, ListenInv
    <2>2. job[w].n = LastRound /\ InRound /\ promises[LastRound] = NoId
      BY <2>1 DEF Waiting, Listening, RoundIsLast, InRound
    <2>3. IdPending
      BY <2>1, <2>2 DEF Listening, RoundHasId
    <2> QED
      BY <2>1, <2>2, <2>3 DEF IdPending, IdQueued, IdRunning, Listening, OneIdTask
  <1> QED
    BY <1>1, TypeCorrect, OwnerInvariant, ListenInvariant, PTL
=============================================================================
