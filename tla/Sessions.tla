------------------------------ MODULE Sessions ------------------------------
(***************************************************************************)
(* One accepted client: attempt_handshake, read_message, process_message   *)
(* and shutdown_socket, with the completion handlers they install.         *)
(***************************************************************************)
EXTENDS IoContext

\* The handler starts an asynchronous operation on its socket and returns.
StartOp(w, kind) ==
    /\ ops' = ops \cup {[k |-> kind, c |-> job[w].c]}
    /\ Return(w)
    /\ UNCHANGED queue

\* Mutated form: on_read_wait_over waits again instead of reading.
StartsOpNoRead == [handshake |-> "handshake", read |-> "wait", on_wait |-> "wait"]

\* attempt_handshake(), read_message() and on_read_wait_over start the
\* operations async_handshake, async_wait and async_read.
StartsOp == [handshake |-> "handshake", read |-> "wait", on_wait |-> "read"]

Initiate(w) ==
    /\ \E step \in DOMAIN StartsOp :
         /\ At(w, step) /\ (step = "on_wait" => job[w].r = "ok")
         /\ StartOp(w, StartsOp[step])
    /\ UNCHANGED <<mainVars, listenVars, idVars, peer, dataVars, countVars, crashed>>

\* on_handshake without error: ++m_active_connections
CountConnection(w) ==
    /\ At(w, "on_handshake") /\ job[w].r = "ok"
    /\ count' = (count + 1) % CountMod
    /\ counted' = counted \cup {job[w].c}
    /\ Goto(w, "post_read")
    /\ UNCHANGED <<mainVars, queue, listenVars, idVars, peer, ops, dataVars, crashed>>

\* on_handshake and process_message post the next read_message
PostRead(w) ==
    /\ At(w, "post_read") \/ (At(w, "reply") /\ job[w].r = "ok")
    /\ Post(ClientTask("read", job[w].c, "ok"))
    /\ Return(w)
    /\ UNCHANGED <<mainVars, listenVars, idVars, peer, ops, dataVars, countVars,
                   crashed>>

\* on_handshake, on_read_wait_over and on_read after an error, and on_write in
\* every case, post shutdown_socket.
PostShutdown(w) ==
    /\ \/ At(w, "on_write")
       \/ /\ At(w, "on_handshake") \/ At(w, "on_wait") \/ At(w, "on_read")
          /\ job[w].r = "err"
    /\ Post(ClientTask("shutdown", job[w].c, "ok"))
    /\ Return(w)
    /\ UNCHANGED <<mainVars, listenVars, idVars, peer, ops, dataVars, countVars,
                   crashed>>

\* Mutated form: on_read goes on reading while the message is processed.
PostProcessAndRead(w) ==
    /\ At(w, "on_read") /\ job[w].r # "err"
    /\ queue' = queue \o <<ClientTask("process", job[w].c, job[w].r),
                           ClientTask("read", job[w].c, "ok")>>
    /\ Return(w)
    /\ UNCHANGED <<mainVars, listenVars, idVars, peer, ops, dataVars, countVars,
                   crashed>>

\* on_read with a valid message
PostProcess(w) ==
    /\ At(w, "on_read") /\ job[w].r # "err"
    /\ Post(ClientTask("process", job[w].c, job[w].r))
    /\ Return(w)
    /\ UNCHANGED <<mainVars, listenVars, idVars, peer, ops, dataVars, countVars,
                   crashed>>

\* Mutated forms: the content is dropped, or replaces the entry.
ContentDropped(entry, c) == entry
ContentReplaces(entry, c) == <<c>>

\* The client's entry after a message: += on an entry, = where there was none.
WithContent(entry, c) == Append(entry, c)

\* process_message(): add the content to the client's entry, under the lock
ProcessMessage(w) ==
    /\ At(w, "process")
    /\ messages' = [messages EXCEPT ![idOf[job[w].c]] = WithContent(@, job[w].c)]
    /\ Goto(w, "reply")
    /\ UNCHANGED <<mainVars, queue, listenVars, idVars, peer, ops, delivered, reply,
                   countVars, crashed>>

\* process_message() at the end of the stream: async_write of the whole entry
Respond(w) ==
    /\ At(w, "reply") /\ job[w].r = "eof"
    /\ reply' = [reply EXCEPT ![job[w].c] = messages[idOf[job[w].c]]]
    /\ StartOp(w, "write")
    /\ UNCHANGED <<mainVars, listenVars, idVars, peer, messages, delivered,
                   countVars, crashed>>
-----------------------------------------------------------------------------
\* shutdown_socket(): assert, then erase the id under the lock
EraseId(w) ==
    /\ At(w, "shutdown")
    /\ crashed' = IF idOf[job[w].c] \in activeIds THEN "no" ELSE "assert"
    /\ activeIds' = activeIds \ {idOf[job[w].c]}
    /\ Goto(w, "close_socket")
    /\ UNCHANGED <<mainVars, queue, listenVars, idOf, peer, ops, dataVars, countVars>>

\* shutdown_socket(): shutdown and close, unless shutdown throws (the peer is
\* gone) and the catch block skips close
CloseSocket(w) ==
    /\ At(w, "close_socket")
    /\ \/ peer' = [peer EXCEPT ![job[w].c] = "closed"]
       \/ "peer_gone" \in Env /\ UNCHANGED peer
    /\ Goto(w, "decrement")
    /\ UNCHANGED <<mainVars, queue, listenVars, idVars, ops, dataVars, countVars,
                   crashed>>

\* Mutated forms: a signed counter, a counter that is never decremented.
DecrementedSigned(n) == n - 1
NotDecremented(n) == n

\* --m_active_connections on an atomic_uint32_t
Decremented(n) == (n + CountMod - 1) % CountMod

\* shutdown_socket(): --m_active_connections; the socket and the id captured with
\* it go away with the handler, also a socket that close has skipped
Decrement(w) ==
    /\ At(w, "decrement")
    /\ count' = Decremented(count)
    /\ counted' = counted \ {job[w].c}
    /\ peer' = [peer EXCEPT ![job[w].c] = "closed"]
    /\ idOf' = [idOf EXCEPT ![job[w].c] = NoId]
    /\ Return(w)
    /\ UNCHANGED <<mainVars, queue, listenVars, activeIds, ops, dataVars, crashed>>

SessionStep(w) ==
    \/ Initiate(w) \/ CountConnection(w) \/ PostRead(w) \/ PostShutdown(w)
    \/ PostProcess(w) \/ ProcessMessage(w) \/ Respond(w) \/ EraseId(w)
    \/ CloseSocket(w) \/ Decrement(w)
=============================================================================
