--------------------------- MODULE ReactorProofs ---------------------------
(***************************************************************************)
(* The edge-triggered reactor loses no readiness, for any number of        *)
(* threads, sockets and bytes.                                             *)
(***************************************************************************)
EXTENDS Reactor, TLAPS

\* A send that waits has made epoll report EPOLLOUT, and while there is no room for
\* it, or for one that is not to be tried, new room makes an edge.
RoomAnnounced ==
    /\ op["write"] # None => outEvents
    /\ open /\ space = 0 /\ (op["write"] # None \/ ~speculative["write"]) => full

\* Only the end of the stream makes trying to read not worth it.
ReadGuess == open /\ ~speculative["read"] => ended

IInv == TypeOK /\ NoLostEdge /\ GuessCorrected /\ ReadGuess /\ RoomAnnounced

\* Each step keeps the types.
LEMMA TypeStep == TypeOK /\ [Next]_vars => TypeOK'
<1> SUFFICES ASSUME OperationTypes, NumberTypes, FlagTypes, [Next]_vars PROVE TypeOK'
    BY DEF TypeOK
<1> USE DEF Types, None, NotDone, Done, Exhausted
<1>1. CASE Register
  <2>1. OperationTypes'
      BY <1>1 DEF Register, OperationTypes
  <2>2. NumberTypes'
      BY <1>1, ReactorAssumption DEF Register, NumberTypes
  <2>3. listed' \in BOOLEAN
      BY <1>1 DEF Register
  <2>4. FlagTypes'
      BY <1>1, <2>3, Zenon DEF Register, FlagTypes
  <2> QED
      BY <2>1, <2>2, <2>4 DEF TypeOK
<1>2. CASE Deregister
  <2>1. OperationTypes'
      BY <1>2 DEF Deregister, AbortAll, OperationTypes
  <2>2. NumberTypes'
      BY <1>2, ReactorAssumption DEF Deregister, AbortAll, NumberTypes
  <2>3. FlagTypes'
      BY <1>2, Zenon DEF Deregister, AbortAll, FlagTypes
  <2> QED
      BY <2>1, <2>2, <2>3 DEF TypeOK
<1>3. CASE Drain
  <2>1. OperationTypes'
      BY <1>3 DEF Drain, OperationTypes
  <2>2. NumberTypes'
      BY <1>3, ReactorAssumption DEF Drain, NumberTypes
  <2>3. FlagTypes'
      BY <1>3, Zenon DEF Drain, FlagTypes
  <2> QED
      BY <2>1, <2>2, <2>3 DEF TypeOK
<1>4. ASSUME NEW n \in 0 .. MaxData, Arrive(n) PROVE TypeOK'
  <2>1. OperationTypes'
      BY <1>4 DEF Arrive, OperationTypes
  <2>2. NumberTypes'
      BY <1>4, ReactorAssumption DEF Arrive, NumberTypes
  <2>3. FlagTypes'
      BY <1>4, Zenon DEF Arrive, FlagTypes
  <2> QED
      BY <2>1, <2>2, <2>3 DEF TypeOK
<1>5. CASE StartReceive
  <2>0. open' = open /\ queued' = queued /\ held' = held
        /\ (op' = op \/ (open /\ op' = [op EXCEPT !["read"] = "receive"]))
      BY <1>5, Zenon DEF StartReceive, DoneAtOnce, Enqueue
  <2>1. OperationTypes'
      BY <2>0 DEF OperationTypes
  <2>2. NumberTypes'
      BY <1>5, ReactorAssumption DEF StartReceive, DoneAtOnce, Enqueue, Receive, Guess, NumberTypes
  <2>3. FlagTypes'
      BY <1>5, Zenon DEF StartReceive, DoneAtOnce, Enqueue, Receive, Guess, FlagTypes
  <2> QED
      BY <2>1, <2>2, <2>3 DEF TypeOK
<1>6. CASE StartSend
  <2>0. open' = open /\ queued' = queued /\ held' = held
        /\ (op' = op \/ (open /\ op' = [op EXCEPT !["write"] = "send"]))
      BY <1>6, Zenon DEF StartSend, DoneAtOnce, Enqueue
  <2>1. OperationTypes'
      BY <2>0 DEF OperationTypes
  <2>2. NumberTypes'
      BY <1>6, ReactorAssumption DEF StartSend, DoneAtOnce, Enqueue, Send, Guess, AddOutEvents, NumberTypes
  <2>3. FlagTypes'
      BY <1>6, Zenon DEF StartSend, DoneAtOnce, Enqueue, Send, Guess, AddOutEvents, FlagTypes
  <2> QED
      BY <2>1, <2>2, <2>3 DEF TypeOK
<1>7. CASE StartWait
  <2>1. OperationTypes'
      BY <1>7 DEF StartWait, Enqueue, Rearm, OperationTypes
  <2>2. NumberTypes'
      BY <1>7, ReactorAssumption DEF StartWait, Enqueue, Rearm, NumberTypes
  <2>3. FlagTypes'
      BY <1>7, Zenon DEF StartWait, Enqueue, Rearm, FlagTypes
  <2> QED
      BY <2>1, <2>2, <2>3 DEF TypeOK
<1>8. CASE CancelOps
  <2>1. OperationTypes'
      BY <1>8 DEF CancelOps, AbortAll, socket, OperationTypes
  <2>2. NumberTypes'
      BY <1>8, ReactorAssumption DEF CancelOps, AbortAll, socket, NumberTypes
  <2>3. FlagTypes'
      BY <1>8, Zenon DEF CancelOps, AbortAll, socket, FlagTypes
  <2> QED
      BY <2>1, <2>2, <2>3 DEF TypeOK
<1>9. CASE EpollWait
  <2>1. OperationTypes'
      BY <1>9 DEF EpollWait, Ready, socket, OperationTypes
  <2>2. NumberTypes'
      BY <1>9, ReactorAssumption DEF EpollWait, Ready, socket, NumberTypes
  <2>3. FlagTypes'
      BY <1>9, Zenon DEF EpollWait, Ready, socket, FlagTypes
  <2> QED
      BY <2>1, <2>2, <2>3 DEF TypeOK
<1>10. ASSUME NEW t \in Threads, Take(t) PROVE TypeOK'
  <2>1. OperationTypes'
      BY <1>10 DEF Take, socket, OperationTypes
  <2>2. NumberTypes'
      BY <1>10, ReactorAssumption DEF Take, socket, NumberTypes
  <2>3. FlagTypes'
      BY <1>10, Zenon DEF Take, socket, FlagTypes
  <2> QED
      BY <2>1, <2>2, <2>3 DEF TypeOK
<1>11. ASSUME NEW t \in Threads, PerformIo(t) PROVE TypeOK'
  <2> PICK status \in [Types -> {NotDone, Done, Exhausted}] :
        /\ PerformRead(held[t], status["read"]) /\ PerformWrite(held[t], status["write"])
        /\ op' = [e \in Types |-> IF status[e] = NotDone THEN op[e] ELSE None]
        /\ speculative' = [e \in Types |-> IF e \in held[t]
                                           THEN Guess(EventGuess(e), status[e])
                                           ELSE speculative[e]]
      BY <1>11 DEF PerformIo
  <2>1. OperationTypes'
      BY <1>11 DEF PerformIo, OperationTypes
  <2>a. data' = data \/ (data > 0 /\ data' \in 0 .. data - 1)
      BY Zenon DEF PerformRead, Receive
  <2>b. space' = space \/ space' = 0 \/ (space > 0 /\ space' \in 0 .. space - 1)
      BY Zenon DEF PerformWrite, Send
  <2>2. data' \in 0 .. MaxData
      BY <2>a, ReactorAssumption DEF NumberTypes
  <2>3. space' \in 0 .. Room
      BY <2>b, ReactorAssumption DEF NumberTypes
  <2>4. ended' \in BOOLEAN
      BY Zenon DEF PerformRead, Receive, FlagTypes
  <2>5. full' \in BOOLEAN
      BY Zenon DEF PerformWrite, Send, FlagTypes
  <2>6. speculative' \in [Types -> BOOLEAN]
      BY Zenon DEF Guess, EventGuess, FlagTypes
  <2>7. NumberTypes'
      BY <1>11, <2>2, <2>3 DEF PerformIo, NumberTypes
  <2>8. FlagTypes'
      BY <1>11, <2>4, <2>5, <2>6, Zenon DEF PerformIo, FlagTypes
  <2> QED
      BY <2>1, <2>7, <2>8 DEF TypeOK
<1>12. CASE UNCHANGED vars
  <2>1. OperationTypes'
      BY <1>12 DEF vars, socket, OperationTypes
  <2>2. NumberTypes'
      BY <1>12, ReactorAssumption DEF vars, socket, NumberTypes
  <2>3. FlagTypes'
      BY <1>12, Zenon DEF vars, socket, FlagTypes
  <2> QED
      BY <2>1, <2>2, <2>3 DEF TypeOK
<1> QED
    BY <1>1, <1>2, <1>3, <1>4, <1>5, <1>6, <1>7, <1>8, <1>9, <1>10, <1>11, <1>12 DEF Next

\* A step of perform_io keeps what is on its way and corrects the guesses.
LEMMA PerformStep ==
    ASSUME IInv, NEW t \in Threads, PerformIo(t)
    PROVE  NoLostEdge' /\ GuessCorrected' /\ ReadGuess' /\ RoomAnnounced'
<1> USE DEF Types, None, NotDone, Done, Exhausted
<1> PICK status \in [Types -> {NotDone, Done, Exhausted}] :
      /\ PerformRead(held[t], status["read"]) /\ PerformWrite(held[t], status["write"])
      /\ op' = [e \in Types |-> IF status[e] = NotDone THEN op[e] ELSE None]
      /\ speculative' = [e \in Types |-> IF e \in held[t]
                                         THEN Guess(EventGuess(e), status[e])
                                         ELSE speculative[e]]
    BY Zenon DEF PerformIo
<1> DEFINE R == status["read"]
           W == status["write"]
<1>0. /\ UNCHANGED <<outEvents, open, fin, listed, queued>>
      /\ held' = [held EXCEPT ![t] = {}]
      /\ PerformRead(held[t], R) /\ PerformWrite(held[t], W)
    BY Zenon DEF PerformIo
<1>1. /\ op'["read"] = IF R = NotDone THEN op["read"] ELSE None
      /\ op'["write"] = IF W = NotDone THEN op["write"] ELSE None
    OBVIOUS
<1>2. /\ "read" \in held[t] => speculative'["read"] = (R # Exhausted)
      /\ "read" \notin held[t] => speculative'["read"] = speculative["read"]
      /\ "write" \in held[t] => speculative'["write"] = (W # Exhausted)
      /\ "write" \notin held[t] => speculative'["write"] = speculative["write"]
    BY Zenon DEF Guess, EventGuess
<1>3. ASSUME NEW e \in Types, e \notin held[t], Coming(e) PROVE Coming(e)'
  <2>1. ASSUME NEW u \in Threads, e \in held[u] PROVE e \in held'[u]
      BY <1>0, <1>3, <2>1 DEF IInv, TypeOK, OperationTypes
  <2> QED
      BY <1>0, <1>3, <2>1, Zenon DEF Coming
<1>4. /\ op'["read"] # None /\ Readable' => Coming("read")'
      /\ ReadGuess'
  <2>1. CASE "read" \in held[t] /\ op["read"] # None
    <3>1. R = NotDone => ~Readable'
        BY <1>0, <2>1, Zenon DEF PerformRead, Receive, Readable
    <3>2. R = Exhausted => ended'
        BY <1>0, <2>1, Zenon DEF PerformRead, Receive
    <3> QED
        BY <1>1, <1>2, <2>1, <3>1, <3>2, Zenon DEF ReadGuess
  <2>2. CASE "read" \in held[t] /\ op["read"] = None
    <3>1. R = NotDone
        BY <1>0, <2>2, Zenon DEF PerformRead
    <3> QED
        BY <1>1, <1>2, <2>2, <3>1, Zenon DEF ReadGuess
  <2>3. CASE "read" \notin held[t]
    <3>1. R = NotDone /\ UNCHANGED <<data, ended>>
        BY <1>0, <2>3, Zenon DEF PerformRead
    <3>2. Readable' <=> Readable
        BY <1>0, <3>1, Zenon DEF Readable
    <3> QED
        BY <1>0, <1>1, <1>2, <1>3, <2>3, <3>1, <3>2, Zenon DEF IInv, NoLostEdge, ReadGuess
  <2> QED
      BY <2>1, <2>2, <2>3, Zenon
<1>5. /\ op'["write"] # None /\ Writable' => Coming("write")'
      /\ ~speculative'["write"] /\ Writable' /\ outEvents' => Coming("write")'
      /\ RoomAnnounced'
  <2>1. CASE "write" \in held[t] /\ op["write"] # None
    <3>1. op["write"] = "send"
        BY <2>1, Zenon DEF IInv, TypeOK, OperationTypes
    <3>2. Send(W)
        BY <1>0, <2>1, <3>1, Zenon DEF PerformWrite
    <3>3. /\ W = NotDone => ~Writable' /\ full'
          /\ W = Exhausted => ~Writable' /\ full'
        BY <3>2 DEF Send, Writable
    <3>4. op'["write"] # None => outEvents'
        BY <1>0, <1>1, <2>1, Zenon DEF IInv, RoomAnnounced
    <3> QED
        BY <1>1, <1>2, <2>1, <3>3, <3>4, Zenon DEF RoomAnnounced
  <2>2. CASE "write" \in held[t] /\ op["write"] = None
    <3>1. W = NotDone
        BY <1>0, <2>2, Zenon DEF PerformWrite
    <3> QED
        BY <1>1, <1>2, <2>2, <3>1, Zenon DEF RoomAnnounced
  <2>3. CASE "write" \notin held[t]
    <3>1. W = NotDone /\ UNCHANGED <<space, full>>
        BY <1>0, <2>3, Zenon DEF PerformWrite
    <3>2. Writable' <=> Writable
        BY <3>1, Zenon DEF Writable
    <3> QED
        BY <1>0, <1>1, <1>2, <1>3, <2>3, <3>1, <3>2, Zenon
        DEF IInv, NoLostEdge, GuessCorrected, ReadGuess, RoomAnnounced
  <2> QED
      BY <2>1, <2>2, <2>3, Zenon
<1> QED
    BY <1>4, <1>5, Zenon DEF NoLostEdge, GuessCorrected

Edges == NoLostEdge /\ GuessCorrected /\ ReadGuess /\ RoomAnnounced

\* What starts, ends or is delivered leaves an event on its way where one is needed.
LEMMA EdgeStep == ASSUME IInv, [Next]_vars PROVE Edges'
<1> USE DEF Types, None, NotDone, Done, Exhausted
<1>1. CASE Register
  <2>1. op' = op /\ op = [e \in Types |-> None] /\ speculative' = [e \in Types |-> TRUE]
        /\ space' = Room
      BY <1>1, Zenon DEF Register, IInv, TypeOK, OperationTypes
  <2>2. Room # 0
      BY ReactorAssumption
  <2> QED
      BY <2>1, <2>2 DEF Edges, NoLostEdge, GuessCorrected, ReadGuess, RoomAnnounced
<1>2. CASE Deregister
  <2>1. op' = [e \in Types |-> None] /\ ~open' /\ ~fin' /\ data' = 0 /\ space' = 0
      BY <1>2, Zenon DEF Deregister, AbortAll
  <2>2. ~Readable' /\ ~Writable'
      BY <2>1 DEF Readable, Writable
  <2> QED
      BY <2>1, <2>2 DEF Edges, NoLostEdge, GuessCorrected, ReadGuess, RoomAnnounced
<1>3. CASE Drain
  <2>0. space' # 0
      BY <1>3, ReactorAssumption DEF Drain
  <2>1. full /\ outEvents => Coming("write")'
      BY <1>3, Zenon DEF Drain, Coming
  <2>2. Coming("read") => Coming("read")'
      BY <1>3, Zenon DEF Drain, Coming
  <2>3. Readable' <=> Readable
      BY <1>3, Zenon DEF Drain, Readable
  <2>4. open /\ space = 0 /\ UNCHANGED <<op, speculative, outEvents, open, ended>>
      BY <1>3, Zenon DEF Drain
  <2> QED
      BY <2>0, <2>1, <2>2, <2>3, <2>4, Zenon
      DEF IInv, Edges, NoLostEdge, GuessCorrected, ReadGuess, RoomAnnounced
<1>4. ASSUME NEW n \in 0 .. MaxData, Arrive(n) PROVE Edges'
  <2>1. Coming("read")' /\ Coming("write")'
      BY <1>4, Zenon DEF Arrive, Coming
  <2> QED
      BY <1>4, <2>1, Zenon
      DEF Arrive, IInv, Edges, NoLostEdge, GuessCorrected, ReadGuess, RoomAnnounced
<1>5. CASE StartReceive
  <2>1. /\ UNCHANGED <<outEvents, open, fin, space, full, listed, queued, held>>
        /\ op["read"] = None /\ ~ended /\ open
      BY <1>5, Zenon DEF StartReceive, DoneAtOnce, Enqueue
  <2>2. /\ Coming("read") => Coming("read")'
        /\ Coming("write") => Coming("write")'
        /\ Writable' <=> Writable
      BY <2>1, Zenon DEF Coming, Writable
  <2>3. CASE \E status \in {Done, Exhausted} : DoneAtOnce("read", status) /\ Receive(status)
    <3>1. PICK status \in {Done, Exhausted} : DoneAtOnce("read", status) /\ Receive(status)
        BY <2>3
    <3>2. op' = op /\ speculative["read"]
          /\ speculative' = [speculative EXCEPT !["read"] = Guess(@, status)]
        BY <3>1, Zenon DEF DoneAtOnce
    <3>3. speculative'["write"] = speculative["write"]
          /\ speculative'["read"] = Guess(speculative["read"], status)
        BY <3>2, Zenon DEF IInv, TypeOK, FlagTypes
    <3>4. status = Exhausted => ended'
        BY <3>1, Zenon DEF Receive
    <3>5. status = Done => speculative'["read"]
        BY <3>2, <3>3, Zenon DEF Guess
    <3> QED
        BY <2>1, <2>2, <3>2, <3>3, <3>4, <3>5, Zenon
        DEF IInv, Edges, NoLostEdge, GuessCorrected, ReadGuess, RoomAnnounced
  <2>4. CASE (speculative["read"] => ~Readable) /\ Enqueue("read", "receive")
    <3>1. UNCHANGED <<speculative, data, fin, ended>>
          /\ op' = [op EXCEPT !["read"] = "receive"]
        BY <2>4, Zenon DEF Enqueue
    <3>2. op'["write"] = op["write"]
        BY <3>1, Zenon DEF IInv, TypeOK, OperationTypes
    <3>3. Readable' <=> Readable
        BY <3>1, Zenon DEF Readable
    <3> QED
        BY <2>1, <2>2, <2>4, <3>1, <3>2, <3>3, Zenon
        DEF IInv, Edges, NoLostEdge, GuessCorrected, ReadGuess, RoomAnnounced
  <2> QED
      BY <1>5, <2>3, <2>4, Zenon DEF StartReceive
<1>6. CASE StartSend
  <2>1. UNCHANGED <<open, data, fin, ended, queued, held>> /\ op["write"] = None /\ open
      BY <1>6, Zenon DEF StartSend, DoneAtOnce, Enqueue
  <2>2. Readable' <=> Readable
      BY <2>1, Zenon DEF Readable
  <2>3. CASE \E status \in {Done, Exhausted} : DoneAtOnce("write", status) /\ Send(status)
    <3>1. PICK status \in {Done, Exhausted} : DoneAtOnce("write", status) /\ Send(status)
        BY <2>3
    <3>2. UNCHANGED <<op, outEvents, listed>> /\ speculative["write"]
          /\ speculative' = [speculative EXCEPT !["write"] = Guess(@, status)]
        BY <3>1, Zenon DEF DoneAtOnce
    <3>3. speculative'["read"] = speculative["read"]
          /\ speculative'["write"] = Guess(speculative["write"], status)
        BY <3>2, Zenon DEF IInv, TypeOK, FlagTypes
    <3>4. status = Exhausted => ~Writable' /\ full'
        BY <3>1 DEF Send, Writable
    <3>5. status = Done => speculative'["write"]
        BY <3>2, <3>3, Zenon DEF Guess
    <3>6. Coming("read") => Coming("read")'
        BY <2>1, <3>2, Zenon DEF Coming
    <3> QED
        BY <2>1, <2>2, <3>2, <3>3, <3>4, <3>5, <3>6, Zenon
        DEF IInv, Edges, NoLostEdge, GuessCorrected, ReadGuess, RoomAnnounced
  <2>4. CASE /\ speculative["write"] => ~Writable
             /\ Enqueue("write", "send") /\ AddOutEvents /\ full' = (full \/ ~Writable)
    <3>1. UNCHANGED <<speculative, space>> /\ op' = [op EXCEPT !["write"] = "send"]
          /\ outEvents' /\ (listed => listed') /\ (~outEvents /\ Writable => listed')
          /\ (~Writable => full')
        BY <2>4, Zenon DEF Enqueue, AddOutEvents
    <3>2. op'["read"] = op["read"]
        BY <3>1, Zenon DEF IInv, TypeOK, OperationTypes
    <3>3. Writable' <=> Writable
        BY <3>1, Zenon DEF Writable
    <3>4. /\ Coming("read") => Coming("read")'
          /\ Coming("write") => Coming("write")'
          /\ ~outEvents /\ Writable => Coming("write")'
        BY <2>1, <3>1, Zenon DEF Coming
    <3>5. space' = 0 => full'
        BY <3>1 DEF Writable
    <3> QED
        BY <2>1, <2>2, <2>4, <3>1, <3>2, <3>3, <3>4, <3>5, Zenon
        DEF IInv, Edges, NoLostEdge, GuessCorrected, ReadGuess, RoomAnnounced
  <2> QED
      BY <1>6, <2>3, <2>4, Zenon DEF StartSend
<1>7. CASE StartWait
  <2>1. /\ UNCHANGED <<speculative, outEvents, open, data, fin, ended, space, full, queued,
                       held>>
        /\ op' = [op EXCEPT !["read"] = "wait"]
        /\ listed \/ Ready # {} => listed'
      BY <1>7, Zenon DEF StartWait, Enqueue, Rearm
  <2>2. op'["write"] = op["write"]
      BY <2>1, Zenon DEF IInv, TypeOK, OperationTypes
  <2>3. Readable => "read" \in Ready
      BY DEF Ready
  <2>4. /\ Coming("read") \/ Readable => Coming("read")'
        /\ Coming("write") => Coming("write")'
      BY <2>1, <2>3, Zenon DEF Coming
  <2>5. (Readable' <=> Readable) /\ (Writable' <=> Writable)
      BY <2>1, Zenon DEF Readable, Writable
  <2> QED
      BY <2>1, <2>2, <2>4, <2>5, Zenon
      DEF IInv, Edges, NoLostEdge, GuessCorrected, ReadGuess, RoomAnnounced
<1>8. CASE CancelOps
  <2>1. op' = [e \in Types |-> None]
        /\ UNCHANGED <<speculative, outEvents, open, data, fin, ended, space, full, listed,
                       queued, held>>
      BY <1>8, Zenon DEF CancelOps, AbortAll, socket
  <2>2. op'["read"] = None /\ op'["write"] = None
      BY <2>1
  <2>3. /\ Coming("read") => Coming("read")'
        /\ Coming("write") => Coming("write")'
        /\ (Readable' <=> Readable) /\ (Writable' <=> Writable)
      BY <2>1, Zenon DEF Coming, Readable, Writable
  <2> QED
      BY <2>1, <2>2, <2>3, Zenon
      DEF IInv, Edges, NoLostEdge, GuessCorrected, ReadGuess, RoomAnnounced
<1>9. CASE EpollWait
  <2>1. queued' = Ready
        /\ UNCHANGED <<op, speculative, outEvents, open, data, fin, ended, space, full>>
      BY <1>9, Zenon DEF EpollWait, socket
  <2>2. /\ Readable => "read" \in Ready
        /\ Writable /\ outEvents => "write" \in Ready
      BY DEF Ready
  <2>3. /\ Readable => Coming("read")'
        /\ Writable /\ outEvents => Coming("write")'
      BY <2>1, <2>2, Zenon DEF Coming
  <2>4. (Readable' <=> Readable) /\ (Writable' <=> Writable)
      BY <2>1, Zenon DEF Readable, Writable
  <2> QED
      BY <2>1, <2>3, <2>4, Zenon
      DEF IInv, Edges, NoLostEdge, GuessCorrected, ReadGuess, RoomAnnounced
<1>10. ASSUME NEW t \in Threads, Take(t) PROVE Edges'
  <2>1. /\ UNCHANGED <<op, speculative, outEvents, open, data, fin, ended, space, full,
                       listed>>
        /\ held' = [held EXCEPT ![t] = queued] /\ held[t] = {}
      BY <1>10, Zenon DEF Take, socket
  <2>2. held'[t] = queued /\ \A u \in Threads : held[u] \subseteq held'[u]
      BY <2>1 DEF IInv, TypeOK, OperationTypes
  <2>3. /\ Coming("read") => Coming("read")'
        /\ Coming("write") => Coming("write")'
      BY <2>1, <2>2, Zenon DEF Coming
  <2>4. (Readable' <=> Readable) /\ (Writable' <=> Writable)
      BY <2>1, Zenon DEF Readable, Writable
  <2> QED
      BY <2>1, <2>3, <2>4, Zenon
      DEF IInv, Edges, NoLostEdge, GuessCorrected, ReadGuess, RoomAnnounced
<1>11. ASSUME NEW t \in Threads, PerformIo(t) PROVE Edges'
    BY <1>11, PerformStep, Zenon DEF Edges
<1>12. CASE UNCHANGED vars
    BY <1>12, Zenon DEF vars, socket, IInv, Edges, NoLostEdge, GuessCorrected, ReadGuess, RoomAnnounced,
                        Coming, Readable, Writable
<1> QED
    BY <1>1, <1>2, <1>3, <1>4, <1>5, <1>6, <1>7, <1>8, <1>9, <1>10, <1>11, <1>12, Zenon
    DEF Next

\* Types, edges and guesses hold together in every state of epoll_reactor.
THEOREM ReactorInvariant == Spec => []IInv
<1>1. Init => IInv
  <2> SUFFICES ASSUME Init PROVE IInv
      OBVIOUS
  <2> USE DEF Init, Types, None
  <2>1. OperationTypes
      BY DEF OperationTypes
  <2>2. NumberTypes
      BY ReactorAssumption DEF NumberTypes
  <2>3. FlagTypes
      BY Zenon DEF FlagTypes
  <2>4. Edges
      BY DEF Edges, NoLostEdge, GuessCorrected, ReadGuess, RoomAnnounced, Readable, Writable
  <2> QED
      BY <2>1, <2>2, <2>3, <2>4, Zenon DEF IInv, TypeOK, Edges
<1>2. IInv /\ [Next]_vars => IInv'
    BY TypeStep, EdgeStep, Zenon DEF IInv, Edges
<1> QED
    BY <1>1, <1>2, PTL DEF Spec

\* The descriptor_state's variables keep their types, and a closed one keeps no
\* operation for the next socket.
THEOREM ReactorTypes == Spec => []TypeOK
<1>1. IInv => TypeOK
    BY DEF IInv
<1> QED
    BY <1>1, ReactorInvariant, PTL

\* No operation that could be done waits for an edge that is gone.
THEOREM EdgesKept == Spec => []NoLostEdge
<1>1. IInv => NoLostEdge
    BY DEF IInv
<1> QED
    BY <1>1, ReactorInvariant, PTL

\* A wrong try_speculative_ is about to be corrected.
THEOREM GuessesCorrected == Spec => []GuessCorrected
<1>1. IInv => GuessCorrected
    BY DEF IInv
<1> QED
    BY <1>1, ReactorInvariant, PTL
=============================================================================
