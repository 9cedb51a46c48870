----------------------------- MODULE TlsSession -----------------------------
(***************************************************************************)
(* One session of the server byte by byte: the client's TLS records on     *)
(* their way, the socket that the server asks how much ciphertext it has,  *)
(* the ssl::stream that takes ciphertext from the socket and gives out     *)
(* plaintext, and the loop read_message - process_message between them.    *)
(*                                                                         *)
(* A record carries n bytes of plaintext in n + Overhead bytes of          *)
(* ciphertext.  Bytes are counted, not named: every position is a distance *)
(* from the first byte of application data.                                *)
(***************************************************************************)
EXTENDS Integers

CONSTANTS
    Sizes,     \* the plaintext sizes a record may have
    Overhead,  \* what TLS adds to a record
    InputMax,  \* max_tls_record_size, the ssl::stream's input buffer
    MaxSent,   \* bound: the plaintext a client sends
    Resumed    \* an abbreviated handshake: its last message is the client's

NoReply == -1

ASSUME TlsAssumption ==
    /\ Sizes \subseteq Nat \ {0}
    /\ Overhead \in Nat \ {0} /\ InputMax \in Nat \ {0} /\ MaxSent \in Nat
    /\ Resumed \in BOOLEAN

VARIABLES
    client,   \* "open", "clean" (close_notify sent) or "gone" (without it)
    records,  \* where each record ends: in the ciphertext, in the plaintext
    sent,     \* plaintext the client has sent
    cipher,   \* ciphertext the client has sent
    arrived,  \* ciphertext that has reached the server's socket
    fin,      \* the end of the stream has reached it too, or a reset
    event,    \* a thread of the reactor brings an event of the socket, maybe late
    taken,    \* ciphertext the ssl::stream has taken from the socket
    plain,    \* plaintext that SSL_read has decrypted
    given,    \* plaintext that the stream has given to reads
    session,  \* where the session is
    size,     \* the size of read_buffer
    first,    \* history: the size of the first one
    got,      \* bytes_read of the last read
    eof,      \* its error code is eof
    stored,   \* the length of m_received_messages[client_id]
    reply     \* the bytes that async_write was given

clientVars == <<client, records, sent, cipher>>
network == <<arrived, fin, event>>
stream == <<taken, plain, given>>
read == <<size, first, got, eof>>
vars == <<clientVars, network, stream, read, session, stored, reply>>

Init ==
    /\ client = "open" /\ records = {} /\ sent = 0 /\ cipher = 0
    /\ arrived = 0 /\ fin = FALSE /\ event = FALSE /\ taken = 0 /\ plain = 0 /\ given = 0
    /\ session = "handshake" /\ size = 0 /\ first = 0 /\ got = 0 /\ eof = FALSE
    /\ stored = 0 /\ reply = NoReply
-----------------------------------------------------------------------------
\* A close_notify is an alert of two bytes, in a record of its own.
NotifySize == Overhead + 2

\* The client sends a record; before the server has finished the handshake only
\* if it need not wait for the server's last message.
ClientSend(n) ==
    /\ client = "open" /\ sent + n <= MaxSent
    /\ Resumed \/ session # "handshake"
    /\ sent' = sent + n
    /\ cipher' = cipher + n + Overhead
    /\ records' = records \cup {[c |-> cipher', p |-> sent']}
    /\ UNCHANGED <<client, network, stream, read, session, stored, reply>>

ClientClose ==
    /\ client = "open"
    /\ client' = "clean" /\ cipher' = cipher + NotifySize
    /\ UNCHANGED <<records, sent, network, stream, read, session, stored, reply>>

\* The client ends, or is cut off, without close_notify.
ClientGone ==
    /\ client = "open"
    /\ client' = "gone"
    /\ UNCHANGED <<records, sent, cipher, network, stream, read, session, stored, reply>>

\* TCP delivers the stream in pieces of any size,
Deliver(k) ==
    /\ ~fin /\ arrived + k <= cipher
    /\ arrived' = arrived + k /\ event' = TRUE
    /\ UNCHANGED <<clientVars, fin, stream, read, session, stored, reply>>

\* and its end after the last piece, or a reset instead of the rest.
DeliverFin ==
    /\ ~fin /\ \/ client = "clean" /\ arrived = cipher
               \/ client = "gone"
    /\ fin' = TRUE /\ event' = TRUE
    /\ UNCHANGED <<clientVars, arrived, stream, read, session, stored, reply>>

\* perform_io finds no wait to end with the event.
EventSpent ==
    /\ event /\ session # "wait"
    /\ event' = FALSE
    /\ UNCHANGED <<clientVars, arrived, fin, stream, read, session, stored, reply>>
-----------------------------------------------------------------------------
\* io_op: async_read_some of what the socket has, into the input buffer
TakeSome ==
    taken' = IF arrived - taken <= InputMax THEN arrived ELSE taken + InputMax

\* attempt_handshake, on_handshake: the read that got the client's last handshake
\* message may have taken records that came with it
Handshake ==
    /\ session = "handshake"
    /\ \/ TakeSome /\ session' = "wait"
       \/ fin /\ session' = "over" /\ UNCHANGED taken
    /\ UNCHANGED <<clientVars, network, plain, given, read, stored, reply>>

\* Mutated form: only data ends the wait.
ReadableData == arrived > taken

\* The socket has something to read, or its end.
Readable == arrived > taken \/ fin

\* available(), FIONREAD: the ciphertext in the socket's buffer
Available == arrived - taken

\* read_message, on_read_wait_over: a read_buffer of the size available() gives.  The
\* wait ends with any event, also with that of bytes which a read has taken since.
WaitOver ==
    /\ session = "wait" /\ (Readable \/ event)
    /\ event' \in {event, FALSE}
    /\ size' = Available
    /\ first' = IF first = 0 THEN size' ELSE first
    /\ session' = "read"
    /\ UNCHANGED <<clientVars, arrived, fin, stream, got, eof, stored, reply>>

\* async_read's loop: the plaintext there is does not fill the buffer.
Wanting == session = "read" /\ plain - given < size

\* The stream has taken a whole record that is not decrypted yet.
Undecrypted(r) == r.c <= taken /\ r.p > plain

\* engine::read: SSL_read decrypts the next record
SslRead ==
    /\ Wanting
    /\ \E r \in records :
         /\ Undecrypted(r)
         /\ \A s \in records : Undecrypted(s) => r.p <= s.p
         /\ plain' = r.p
    /\ UNCHANGED <<clientVars, network, taken, given, read, session, stored, reply>>

\* The close_notify, the client's last record, is in the stream.
Notified == client = "clean" /\ taken = cipher

\* SSL_read finds no whole record, nor the close_notify.
WantInput == Wanting /\ ~Notified /\ \A r \in records : ~Undecrypted(r)

\* want_input_and_retry: more ciphertext from the socket
ReadInput ==
    /\ WantInput /\ arrived > taken
    /\ TakeSome
    /\ UNCHANGED <<clientVars, network, plain, given, read, session, stored, reply>>

\* The socket's end comes first: stream_truncated, or the reset's error.
ReadError ==
    /\ WantInput /\ arrived = taken /\ fin
    /\ session' = "over"
    /\ UNCHANGED <<clientVars, network, stream, read, stored, reply>>

\* Mutated form: received_valid_message without eof.
OnReadNoEof(n, code) ==
    /\ got' = n /\ eof' = code
    /\ given' = given + n
    /\ session' = IF n > 0 /\ ~code THEN "process" ELSE "over"
    /\ UNCHANGED <<clientVars, network, taken, plain, size, first, stored, reply>>

\* on_read: without any bytes the session ends, even without an error.
OnRead(n, code) ==
    /\ got' = n /\ eof' = code
    /\ given' = given + n
    /\ session' = IF n > 0 THEN "process" ELSE "over"
    /\ UNCHANGED <<clientVars, network, taken, plain, size, first, stored, reply>>

\* Mutated forms: async_read_some, which may read less; the guard is lost.
ReadShort ==
    /\ session = "read" /\ (plain > given \/ size = 0)
    /\ OnRead(IF plain - given < size THEN plain - given ELSE size, FALSE)
ReadUnfilled == session = "read" /\ OnRead(size, FALSE)

\* async_read has filled the buffer; a buffer of no bytes is full at once.
ReadFull == session = "read" /\ plain - given >= size /\ OnRead(size, FALSE)

\* SSL_ERROR_ZERO_RETURN: async_read ends with eof and what it has
ReadEof ==
    /\ Wanting /\ Notified /\ \A r \in records : ~Undecrypted(r)
    /\ OnRead(plain - given, TRUE)

\* *message.content is the whole read_buffer, of which a read that ended early has
\* filled only a part.
Content == size

\* Mutated form: the content replaces the entry, as in the branch for the first one.
ProcessMessageReplaces ==
    /\ session = "process"
    /\ stored' = Content
    /\ reply' = IF eof THEN stored' ELSE reply
    /\ session' = IF eof THEN "over" ELSE "wait"
    /\ UNCHANGED <<clientVars, network, stream, read>>

\* process_message: add the content; at eof echo all there is and end the session,
\* else read on
ProcessMessage ==
    /\ session = "process"
    /\ stored' = stored + Content
    /\ reply' = IF eof THEN stored' ELSE reply
    /\ session' = IF eof THEN "over" ELSE "wait"
    /\ UNCHANGED <<clientVars, network, stream, read>>
-----------------------------------------------------------------------------
SessionStep ==
    \/ Handshake \/ WaitOver \/ SslRead \/ ReadInput \/ ReadError \/ ReadFull \/ ReadEof
    \/ ProcessMessage

Next ==
    \/ \E n \in Sizes : ClientSend(n)
    \/ ClientClose \/ ClientGone
    \/ \E k \in 1 .. cipher - arrived : Deliver(k)
    \/ DeliverFin \/ EventSpent
    \/ SessionStep

Spec == Init /\ [][Next]_vars

\* TCP delivers what was sent, and the threads of the pool run the handlers that
\* are due.
FairSpec ==
    /\ Spec
    /\ WF_vars(\E k \in 1 .. cipher - arrived : Deliver(k)) /\ WF_vars(DeliverFin)
    /\ WF_vars(SessionStep)
-----------------------------------------------------------------------------
Positions ==
    /\ records \subseteq [c : 1 .. cipher, p : 1 .. sent]
    /\ cipher \in Nat /\ arrived \in 0 .. cipher /\ taken \in 0 .. arrived
    /\ sent \in Nat /\ plain \in 0 .. sent /\ given \in 0 .. plain
    /\ size \in 0 .. arrived /\ first \in 0 .. arrived /\ got \in 0 .. given
    /\ stored \in Nat /\ reply \in Nat \cup {NoReply}

States ==
    /\ client \in {"open", "clean", "gone"}
    /\ session \in {"handshake", "wait", "read", "process", "over"}
    /\ fin \in BOOLEAN /\ event \in BOOLEAN /\ eof \in BOOLEAN

\* The session knows no more than has happened: the stream has at most what arrived,
\* SSL_read at most what was sent, the reads at most what was decrypted.
TypeOK == Positions /\ States

\* Between two reads the client's entry is what the stream has given out, byte by
\* byte: a read that ends early, and leaves a gap, is the session's last one.
NoGaps == session \in {"wait", "read"} => stored = given

\* An echo has everything the client sent, whatever the records, the pieces they
\* came in and the sizes of the reads were, and then what the last read left empty:
\* process_message answers at the close_notify, and the reads before it left
\* nothing out.
EchoIsWhole ==
    reply # NoReply => client = "clean" /\ given = sent /\ reply = sent + size - got

\* A client that sends one message, which is there as a whole when the server first
\* looks at the socket, and closes cleanly has been sent an echo when the session
\* is over: the overhead in available() makes the buffer too large for the message,
\* so the read goes on to the close_notify.
OneMessageEchoed ==
    \A n \in Sizes :
        /\ records = {[c |-> n + Overhead, p |-> n]}
        /\ client = "clean" /\ session = "over" /\ first >= n + Overhead
        => reply # NoReply

\* A client that does not break the connection loses its session without an echo in
\* one way only, by a read without bytes: at the close_notify, when the reads before
\* were filled exactly, or, while it has not closed, by a wait that ended with a late
\* event, so that available() was 0.  No read with bytes in it is thrown away.
EmptyReadEnds ==
    session = "over" /\ reply = NoReply /\ client # "gone" =>
        got = 0 /\ (client = "open" => size = 0)

\* A session ends when its client has closed or is gone.
ClientLetGo == client # "open" ~> session = "over"

\* README.md calls the program an echo server: what it sends back is as long as what
\* the client sent.
EchoExact == reply # NoReply => reply = sent
=============================================================================
