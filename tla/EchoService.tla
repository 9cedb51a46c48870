---------------------------- MODULE EchoService ----------------------------
(***************************************************************************)
(* The echo service as its clients may think of it: each client is served  *)
(* by itself, one message after the other, under an id that no other       *)
(* served client has.  A message that was heard is stored before anything  *)
(* else happens to its client, an entry changes only by a message of the   *)
(* client that has the entry's id, the answer is the entry as it is then,  *)
(* and after it there is only the dismissal.                               *)
(***************************************************************************)
EXTENDS Naturals, Sequences

CONSTANTS Clients, Ids, NoId

VARIABLES
    status,    \* per client: "new", "served" or "gone"
    id,        \* per client, its id while it is served
    entries,   \* per id, the messages stored
    heard,     \* per client, how many of its messages were heard
    unstored,  \* the clients whose last message is not stored yet
    answer     \* per client, what it was answered

vars == <<status, id, entries, heard, unstored, answer>>

Init ==
    /\ status = [c \in Clients |-> "new"] /\ id = [c \in Clients |-> NoId]
    /\ entries = [i \in Ids |-> <<>>]
    /\ heard = [c \in Clients |-> 0] /\ unstored = {}
    /\ answer = [c \in Clients |-> <<>>]

Admit(c) ==
    /\ status[c] = "new"
    /\ status' = [status EXCEPT ![c] = "served"]
    /\ \E i \in Ids \ {id[d] : d \in Clients} : id' = [id EXCEPT ![c] = i]
    /\ UNCHANGED <<entries, heard, unstored, answer>>

\* The client is served, and the service is done with what it sent so far.
Idle(c) == status[c] = "served" /\ c \notin unstored /\ answer[c] = <<>>

Hear(c) ==
    /\ Idle(c)
    /\ heard' = [heard EXCEPT ![c] = @ + 1]
    /\ unstored' = unstored \cup {c}
    /\ UNCHANGED <<status, id, entries, answer>>

Store(c) ==
    /\ c \in unstored
    /\ entries' = [entries EXCEPT ![id[c]] = Append(@, c)]
    /\ unstored' = unstored \ {c}
    /\ UNCHANGED <<status, id, heard, answer>>

Answer(c) ==
    /\ Idle(c)
    /\ answer' = [answer EXCEPT ![c] = entries[id[c]]]
    /\ UNCHANGED <<status, id, entries, heard, unstored>>

Dismiss(c) ==
    /\ status[c] = "served" /\ c \notin unstored
    /\ status' = [status EXCEPT ![c] = "gone"]
    /\ id' = [id EXCEPT ![c] = NoId]
    /\ UNCHANGED <<entries, heard, unstored, answer>>

\* Clients that were never admitted are turned away, together.
TurnAway ==
    /\ \E S \in SUBSET {c \in Clients : status[c] = "new"} :
         status' = [c \in Clients |-> IF c \in S THEN "gone" ELSE status[c]]
    /\ UNCHANGED <<id, entries, heard, unstored, answer>>

Next ==
    \/ \E c \in Clients : Admit(c) \/ Hear(c) \/ Store(c) \/ Answer(c) \/ Dismiss(c)
    \/ TurnAway

Spec == Init /\ [][Next]_vars
=============================================================================
