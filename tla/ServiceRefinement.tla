-------------------------- MODULE ServiceRefinement --------------------------
(***************************************************************************)
(* The server's threads, queue and handlers implement EchoService.         *)
(***************************************************************************)
EXTENDS TcpServer

\* on_read and process_message have a message of the client.
Unstored ==
    {c \in Clients :
        \/ \E i \in DOMAIN queue :
             /\ queue[i].c = c
             /\ queue[i].k = "process" \/ (queue[i].k = "on_read" /\ queue[i].r # "err")
        \/ \E w \in Workers :
             /\ job[w].c = c
             /\ pc[w] = "process" \/ (pc[w] = "on_read" /\ job[w].r # "err")}

StatusOf(c) ==
    IF Live(c) THEN "served"
    ELSE IF peer[c] = "closed" \/ idOf[c] # NoId THEN "gone" ELSE "new"

Service == INSTANCE EchoService WITH
    status   <- [c \in Clients |-> StatusOf(c)],
    id       <- [c \in Clients |-> IF Live(c) THEN idOf[c] ELSE NoId],
    entries  <- messages,
    heard    <- delivered,
    unstored <- Unstored,
    answer   <- reply

\* However the workers share the handlers out, the server is an echo service: every
\* client is served as if by a thread of its own, under an id of its own, and no
\* message is lost between on_read and process_message or stored twice.
IsEchoService == Service!Spec
=============================================================================
