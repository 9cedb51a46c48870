----------------------------- MODULE TlsProofs -----------------------------
(***************************************************************************)
(* What a session sends back, for records, reads and pieces of any size.   *)
(***************************************************************************)
EXTENDS TlsSession, TLAPS

\* The last record ends where the plaintext does, and the end of a clean stream comes
\* after everything else.
LastOnes ==
    /\ sent > 0 => \E r \in records : r.p = sent
    /\ fin => client # "open" /\ (client = "clean" => arrived = cipher)

\* Where the bytes are in each state of the session.
Reading ==
    /\ session \in {"handshake", "wait", "read"} => stored = given /\ reply = NoReply /\ ~eof
    /\ session = "process" =>
         /\ given = stored + got /\ got > 0 /\ got <= size /\ reply = NoReply
         /\ eof => client = "clean" /\ given = sent
         /\ ~eof => got = size
    /\ reply # NoReply => session = "over"
    /\ session = "handshake" => got = 0

\* The first read asks for "first" bytes.  If it gets them, or another read follows,
\* there were as many.
FirstRead ==
    /\ session = "handshake" => given = 0 /\ first = 0
    /\ first = 0 => given = 0
    /\ session = "wait" /\ given = 0 => first = 0
    /\ session = "read" /\ given = 0 => size = first
    /\ given > 0 => first <= given \/ eof
    /\ session = "over" /\ first > 0 /\ reply = NoReply /\ client # "gone"
         => first <= sent \/ (sent = 0 /\ client = "clean")

IInv == TypeOK /\ LastOnes /\ Reading /\ FirstRead /\ EchoIsWhole /\ EmptyReadEnds

\* No step counts a byte before it is there.
LEMMA PositionStep == ASSUME IInv, [Next]_vars PROVE Positions'
<1> USE TlsAssumption DEF IInv, TypeOK, Positions, States
<1>1. ASSUME NEW n \in Sizes, ClientSend(n) PROVE Positions'
    BY <1>1 DEF ClientSend, clientVars, network, stream, read
<1>2. CASE ClientClose
    BY <1>2 DEF ClientClose, NotifySize, clientVars, network, stream, read
<1>3. CASE ClientGone
    BY <1>3 DEF ClientGone, clientVars, network, stream, read
<1>4. ASSUME NEW k \in 1 .. cipher - arrived, Deliver(k) PROVE Positions'
    BY <1>4 DEF Deliver, clientVars, network, stream, read
<1>5. CASE DeliverFin
    BY <1>5 DEF DeliverFin, clientVars, network, stream, read
<1>6. CASE EventSpent
    BY <1>6 DEF EventSpent, clientVars, network, stream, read
<1>7. CASE Handshake
    BY <1>7 DEF Handshake, TakeSome, clientVars, network, stream, read
<1>8. CASE WaitOver
    BY <1>8 DEF WaitOver, Readable, Available, clientVars, network, stream, read
<1>9. CASE SslRead
    BY <1>9 DEF SslRead, Undecrypted, Wanting, clientVars, network, stream, read
<1>10. CASE ReadInput
    BY <1>10 DEF ReadInput, WantInput, TakeSome, Wanting, clientVars, network, stream, read
<1>11. CASE ReadError
    BY <1>11 DEF ReadError, WantInput, Notified, Wanting, clientVars, network, stream, read
<1>12. CASE ReadFull
    BY <1>12 DEF ReadFull, OnRead, clientVars, network, stream, read
<1>13. CASE ReadEof
    BY <1>13 DEF ReadEof, OnRead, Wanting, Notified, Undecrypted, clientVars, network, stream, read
<1>14. CASE ProcessMessage
    BY <1>14 DEF ProcessMessage, Content, clientVars, network, stream, read
<1>15. CASE UNCHANGED vars
    BY <1>15 DEF vars, clientVars, network, stream, read
<1> QED
    BY <1>1, <1>2, <1>3, <1>4, <1>5, <1>6, <1>7, <1>8, <1>9, <1>10, <1>11, <1>12, <1>13, <1>14, <1>15 DEF Next, SessionStep

\* Each step goes from one state to another.
LEMMA StateStep == ASSUME IInv, [Next]_vars PROVE States'
<1> USE TlsAssumption DEF IInv, TypeOK, States
<1>1. ASSUME NEW n \in Sizes, ClientSend(n) PROVE States'
    BY <1>1 DEF ClientSend, clientVars, network, stream, read
<1>2. CASE ClientClose
    BY <1>2 DEF ClientClose, NotifySize, clientVars, network, stream, read
<1>3. CASE ClientGone
    BY <1>3 DEF ClientGone, clientVars, network, stream, read
<1>4. ASSUME NEW k \in 1 .. cipher - arrived, Deliver(k) PROVE States'
    BY <1>4 DEF Deliver, clientVars, network, stream, read
<1>5. CASE DeliverFin
    BY <1>5 DEF DeliverFin, clientVars, network, stream, read
<1>6. CASE EventSpent
    BY <1>6 DEF EventSpent, clientVars, network, stream, read
<1>7. CASE Handshake
    BY <1>7 DEF Handshake, TakeSome, clientVars, network, stream, read
<1>8. CASE WaitOver
    BY <1>8 DEF WaitOver, Readable, Available, clientVars, network, stream, read
<1>9. CASE SslRead
    BY <1>9 DEF SslRead, Undecrypted, Wanting, clientVars, network, stream, read
<1>10. CASE ReadInput
    BY <1>10 DEF ReadInput, WantInput, TakeSome, Wanting, clientVars, network, stream, read
<1>11. CASE ReadError
    BY <1>11 DEF ReadError, WantInput, Notified, Wanting, clientVars, network, stream, read
<1>12. CASE ReadFull
    BY <1>12 DEF ReadFull, OnRead, clientVars, network, stream, read
<1>13. CASE ReadEof
    BY <1>13 DEF ReadEof, OnRead, Wanting, Notified, Undecrypted, clientVars, network, stream, read
<1>14. CASE ProcessMessage
    BY <1>14 DEF ProcessMessage, Content, clientVars, network, stream, read
<1>15. CASE UNCHANGED vars
    BY <1>15 DEF vars, clientVars, network, stream, read
<1> QED
    BY <1>1, <1>2, <1>3, <1>4, <1>5, <1>6, <1>7, <1>8, <1>9, <1>10, <1>11, <1>12, <1>13, <1>14, <1>15 DEF Next, SessionStep

\* What was last stays last.
LEMMA LastStep == ASSUME IInv, [Next]_vars PROVE LastOnes'
<1> USE TlsAssumption DEF IInv, TypeOK, Positions, States, LastOnes
<1>1. ASSUME NEW n \in Sizes, ClientSend(n) PROVE LastOnes'
    <2>1. [c |-> cipher', p |-> sent'] \in records'
        BY <1>1 DEF ClientSend
    <2>2. \E r \in records' : r.p = sent'
        <3> WITNESS [c |-> cipher', p |-> sent'] \in records'
        <3> QED OBVIOUS
    <2>3. UNCHANGED <<client, fin, arrived>> /\ client = "open"
        BY <1>1 DEF ClientSend, network
    <2> QED BY <2>2, <2>3
<1>2. CASE ClientClose
    BY <1>2 DEF ClientClose, NotifySize, clientVars, network, stream, read
<1>3. CASE ClientGone
    BY <1>3 DEF ClientGone, clientVars, network, stream, read
<1>4. ASSUME NEW k \in 1 .. cipher - arrived, Deliver(k) PROVE LastOnes'
    BY <1>4 DEF Deliver, clientVars, network, stream, read
<1>5. CASE DeliverFin
    BY <1>5 DEF DeliverFin, clientVars, network, stream, read
<1>6. CASE EventSpent
    BY <1>6 DEF EventSpent, clientVars, network, stream, read
<1>7. CASE Handshake
    BY <1>7 DEF Handshake, TakeSome, clientVars, network, stream, read
<1>8. CASE WaitOver
    BY <1>8 DEF WaitOver, Readable, Available, clientVars, network, stream, read
<1>9. CASE SslRead
    BY <1>9 DEF SslRead, Undecrypted, Wanting, clientVars, network, stream, read
<1>10. CASE ReadInput
    BY <1>10 DEF ReadInput, WantInput, TakeSome, Wanting, clientVars, network, stream, read
<1>11. CASE ReadError
    BY <1>11 DEF ReadError, WantInput, Notified, Wanting, clientVars, network, stream, read
<1>12. CASE ReadFull
    BY <1>12 DEF ReadFull, OnRead, clientVars, network, stream, read
<1>13. CASE ReadEof
    BY <1>13 DEF ReadEof, OnRead, Wanting, Notified, Undecrypted, clientVars, network, stream, read
<1>14. CASE ProcessMessage
    BY <1>14 DEF ProcessMessage, Content, clientVars, network, stream, read
<1>15. CASE UNCHANGED vars
    BY <1>15 DEF vars, clientVars, network, stream, read
<1> QED
    BY <1>1, <1>2, <1>3, <1>4, <1>5, <1>6, <1>7, <1>8, <1>9, <1>10, <1>11, <1>12, <1>13, <1>14, <1>15 DEF Next, SessionStep

\* Each step moves its bytes on.
LEMMA ReadingStep == ASSUME IInv, [Next]_vars PROVE Reading'
<1> USE TlsAssumption DEF IInv, TypeOK, Positions, States, LastOnes, Reading
<1>1. ASSUME NEW n \in Sizes, ClientSend(n) PROVE Reading'
    BY <1>1 DEF ClientSend, clientVars, network, stream, read
<1>2. CASE ClientClose
    BY <1>2 DEF ClientClose, NotifySize, clientVars, network, stream, read
<1>3. CASE ClientGone
    BY <1>3 DEF ClientGone, clientVars, network, stream, read
<1>4. ASSUME NEW k \in 1 .. cipher - arrived, Deliver(k) PROVE Reading'
    BY <1>4 DEF Deliver, clientVars, network, stream, read
<1>5. CASE DeliverFin
    BY <1>5 DEF DeliverFin, clientVars, network, stream, read
<1>6. CASE EventSpent
    BY <1>6 DEF EventSpent, clientVars, network, stream, read
<1>7. CASE Handshake
    BY <1>7 DEF Handshake, TakeSome, clientVars, network, stream, read
<1>8. CASE WaitOver
    BY <1>8 DEF WaitOver, Readable, Available, clientVars, network, stream, read
<1>9. CASE SslRead
    BY <1>9 DEF SslRead, Undecrypted, Wanting, clientVars, network, stream, read
<1>10. CASE ReadInput
    BY <1>10 DEF ReadInput, WantInput, TakeSome, Wanting, clientVars, network, stream, read
<1>11. CASE ReadError
    BY <1>11 DEF ReadError, WantInput, Notified, Wanting, clientVars, network, stream, read
<1>12. CASE ReadFull
    BY <1>12 DEF ReadFull, OnRead, clientVars, network, stream, read
<1>13. CASE ReadEof
    BY <1>13 DEF ReadEof, OnRead, Wanting, Notified, Undecrypted, clientVars, network, stream, read
<1>14. CASE ProcessMessage
    BY <1>14 DEF ProcessMessage, Content, clientVars, network, stream, read
<1>15. CASE UNCHANGED vars
    BY <1>15 DEF vars, clientVars, network, stream, read
<1> QED
    BY <1>1, <1>2, <1>3, <1>4, <1>5, <1>6, <1>7, <1>8, <1>9, <1>10, <1>11, <1>12, <1>13, <1>14, <1>15 DEF Next, SessionStep

\* Each step keeps what is known of the first read.
LEMMA FirstStep == ASSUME IInv, [Next]_vars PROVE FirstRead'
<1> USE TlsAssumption DEF IInv, TypeOK, Positions, States, LastOnes, Reading, FirstRead
<1>1. ASSUME NEW n \in Sizes, ClientSend(n) PROVE FirstRead'
    BY <1>1 DEF ClientSend, clientVars, network, stream, read
<1>2. CASE ClientClose
    BY <1>2 DEF ClientClose, NotifySize, clientVars, network, stream, read
<1>3. CASE ClientGone
    BY <1>3 DEF ClientGone, clientVars, network, stream, read
<1>4. ASSUME NEW k \in 1 .. cipher - arrived, Deliver(k) PROVE FirstRead'
    BY <1>4 DEF Deliver, clientVars, network, stream, read
<1>5. CASE DeliverFin
    BY <1>5 DEF DeliverFin, clientVars, network, stream, read
<1>6. CASE EventSpent
    BY <1>6 DEF EventSpent, clientVars, network, stream, read
<1>7. CASE Handshake
    BY <1>7 DEF Handshake, TakeSome, clientVars, network, stream, read
<1>8. CASE WaitOver
    BY <1>8 DEF WaitOver, Readable, Available, clientVars, network, stream, read
<1>9. CASE SslRead
    BY <1>9 DEF SslRead, Undecrypted, Wanting, clientVars, network, stream, read
<1>10. CASE ReadInput
    BY <1>10 DEF ReadInput, WantInput, TakeSome, Wanting, clientVars, network, stream, read
<1>11. CASE ReadError
    BY <1>11 DEF ReadError, WantInput, Notified, Wanting, clientVars, network, stream, read
<1>12. CASE ReadFull
    BY <1>12 DEF ReadFull, OnRead, clientVars, network, stream, read
<1>13. CASE ReadEof
    BY <1>13 DEF ReadEof, OnRead, Wanting, Notified, Undecrypted, clientVars, network, stream, read
<1>14. CASE ProcessMessage
    BY <1>14 DEF ProcessMessage, Content, NoReply, clientVars, network, stream, read
<1>15. CASE UNCHANGED vars
    BY <1>15 DEF vars, clientVars, network, stream, read
<1> QED
    BY <1>1, <1>2, <1>3, <1>4, <1>5, <1>6, <1>7, <1>8, <1>9, <1>10, <1>11, <1>12, <1>13, <1>14, <1>15 DEF Next, SessionStep

\* Each step keeps the echo whole.
LEMMA EchoStep == ASSUME IInv, [Next]_vars PROVE EchoIsWhole'
<1> USE TlsAssumption DEF IInv, TypeOK, Positions, States, LastOnes, Reading, EchoIsWhole, NoReply
<1>1. ASSUME NEW n \in Sizes, ClientSend(n) PROVE EchoIsWhole'
    BY <1>1 DEF ClientSend, clientVars, network, stream, read
<1>2. CASE ClientClose
    BY <1>2 DEF ClientClose, NotifySize, clientVars, network, stream, read
<1>3. CASE ClientGone
    BY <1>3 DEF ClientGone, clientVars, network, stream, read
<1>4. ASSUME NEW k \in 1 .. cipher - arrived, Deliver(k) PROVE EchoIsWhole'
    BY <1>4 DEF Deliver, clientVars, network, stream, read
<1>5. CASE DeliverFin
    BY <1>5 DEF DeliverFin, clientVars, network, stream, read
<1>6. CASE EventSpent
    BY <1>6 DEF EventSpent, clientVars, network, stream, read
<1>7. CASE Handshake
    BY <1>7 DEF Handshake, TakeSome, clientVars, network, stream, read
<1>8. CASE WaitOver
    BY <1>8 DEF WaitOver, Readable, Available, clientVars, network, stream, read
<1>9. CASE SslRead
    BY <1>9 DEF SslRead, Undecrypted, Wanting, clientVars, network, stream, read
<1>10. CASE ReadInput
    BY <1>10 DEF ReadInput, WantInput, TakeSome, Wanting, clientVars, network, stream, read
<1>11. CASE ReadError
    BY <1>11 DEF ReadError, WantInput, Notified, Wanting, clientVars, network, stream, read
<1>12. CASE ReadFull
    BY <1>12 DEF ReadFull, OnRead, clientVars, network, stream, read
<1>13. CASE ReadEof
    BY <1>13 DEF ReadEof, OnRead, Wanting, Notified, Undecrypted, clientVars, network, stream, read
<1>14. CASE ProcessMessage
    BY <1>14 DEF ProcessMessage, Content, clientVars, network, stream, read
<1>15. CASE UNCHANGED vars
    BY <1>15 DEF vars, clientVars, network, stream, read
<1> QED
    BY <1>1, <1>2, <1>3, <1>4, <1>5, <1>6, <1>7, <1>8, <1>9, <1>10, <1>11, <1>12, <1>13, <1>14, <1>15 DEF Next, SessionStep

\* Each step that ends a session without an echo ends it at a read without bytes.
LEMMA EmptyStep == ASSUME IInv, [Next]_vars PROVE EmptyReadEnds'
<1> USE TlsAssumption DEF IInv, TypeOK, Positions, States, LastOnes, Reading, EmptyReadEnds, NoReply
<1>1. ASSUME NEW n \in Sizes, ClientSend(n) PROVE EmptyReadEnds'
    BY <1>1 DEF ClientSend, clientVars, network, stream, read
<1>2. CASE ClientClose
    BY <1>2 DEF ClientClose, NotifySize, clientVars, network, stream, read
<1>3. CASE ClientGone
    BY <1>3 DEF ClientGone, clientVars, network, stream, read
<1>4. ASSUME NEW k \in 1 .. cipher - arrived, Deliver(k) PROVE EmptyReadEnds'
    BY <1>4 DEF Deliver, clientVars, network, stream, read
<1>5. CASE DeliverFin
    BY <1>5 DEF DeliverFin, clientVars, network, stream, read
<1>6. CASE EventSpent
    BY <1>6 DEF EventSpent, clientVars, network, stream, read
<1>7. CASE Handshake
    BY <1>7 DEF Handshake, TakeSome, clientVars, network, stream, read
<1>8. CASE WaitOver
    BY <1>8 DEF WaitOver, Readable, Available, clientVars, network, stream, read
<1>9. CASE SslRead
    BY <1>9 DEF SslRead, Undecrypted, Wanting, clientVars, network, stream, read
<1>10. CASE ReadInput
    BY <1>10 DEF ReadInput, WantInput, TakeSome, Wanting, clientVars, network, stream, read
<1>11. CASE ReadError
    BY <1>11 DEF ReadError, WantInput, Notified, Wanting, clientVars, network, stream, read
<1>12. CASE ReadFull
    BY <1>12 DEF ReadFull, OnRead, clientVars, network, stream, read
<1>13. CASE ReadEof
    BY <1>13 DEF ReadEof, OnRead, Wanting, Notified, Undecrypted, clientVars, network, stream, read
<1>14. CASE ProcessMessage
    BY <1>14 DEF ProcessMessage, Content, clientVars, network, stream, read
<1>15. CASE UNCHANGED vars
    BY <1>15 DEF vars, clientVars, network, stream, read
<1> QED
    BY <1>1, <1>2, <1>3, <1>4, <1>5, <1>6, <1>7, <1>8, <1>9, <1>10, <1>11, <1>12, <1>13, <1>14, <1>15 DEF Next, SessionStep

\* A session starts with nothing sent and nothing read.
LEMMA InitIInv == Init => IInv
<1> SUFFICES ASSUME Init PROVE IInv OBVIOUS
<1>1. Positions
    BY DEF Init, Positions, NoReply
<1>2. States
    BY DEF Init, States
<1>3. LastOnes /\ Reading /\ FirstRead /\ EchoIsWhole /\ EmptyReadEnds
    BY DEF Init, LastOnes, Reading, FirstRead, EchoIsWhole, EmptyReadEnds, NoReply
<1> QED BY <1>1, <1>2, <1>3 DEF IInv, TypeOK

\* Every step of the client, the network and the session keeps the invariant.
LEMMA StepIInv == IInv /\ [Next]_vars => IInv'
BY PositionStep, StateStep, LastStep, ReadingStep, FirstStep, EchoStep, EmptyStep DEF IInv, TypeOK

\* The bytes of a session are where its state says they are, at all times.
THEOREM SessionInvariant == Spec => []IInv
BY InitIInv, StepIInv, PTL DEF Spec

\* No layer hands on more than the layer below has given it, and the type invariant holds.
THEOREM TlsTypes == Spec => []TypeOK
<1>1. IInv => TypeOK
    BY DEF IInv
<1> QED BY <1>1, SessionInvariant, PTL

\* The entry in m_received_messages has no gap as long as the session reads on, whatever
\* sizes available() has given for the buffers.
THEOREM EntryHasNoGaps == Spec => []NoGaps
<1>1. IInv => NoGaps
    BY DEF IInv, Reading, NoGaps
<1> QED BY <1>1, SessionInvariant, PTL

\* An echo starts with all that the client sent, whatever the sizes of the records,
\* of the pieces they arrived in and of the reads.
THEOREM EchoWhole == Spec => []EchoIsWhole
<1>1. IInv => EchoIsWhole
    BY DEF IInv
<1> QED BY <1>1, SessionInvariant, PTL

\* A session ends without an echo, though its client keeps the connection, only at a
\* read without bytes: at the close_notify, or after a wait that found nothing.
THEOREM OnlyEmptyReadsEnd == Spec => []EmptyReadEnds
<1>1. IInv => EmptyReadEnds
    BY DEF IInv
<1> QED BY <1>1, SessionInvariant, PTL

\* A single message that is there as a whole at the first read is answered before the
\* session of a client that closes cleanly is over.
THEOREM OneMessageAnswered == Spec => []OneMessageEchoed
<1>1. ASSUME IInv, NEW n \in Sizes, records = {[c |-> n + Overhead, p |-> n]},
             client = "clean", session = "over", first >= n + Overhead, reply = NoReply
      PROVE  FALSE
    <2>1. n \in Nat /\ n > 0 /\ Overhead \in Nat /\ Overhead > 0 /\ sent \in Nat /\ first \in Nat
        BY <1>1, TlsAssumption DEF IInv, TypeOK, Positions
    <2>2. [c |-> n + Overhead, p |-> n] \in [c : 1 .. cipher, p : 1 .. sent]
        BY <1>1 DEF IInv, TypeOK, Positions
    <2>3. n \in 1 .. sent
        BY <2>2
    <2>4. sent = n
        BY <1>1, <2>1, <2>3 DEF IInv, LastOnes
    <2>5. first <= sent
        BY <1>1, <2>1, <2>4 DEF IInv, FirstRead
    <2> QED BY <1>1, <2>1, <2>4, <2>5
<1>2. IInv => OneMessageEchoed
    BY <1>1 DEF OneMessageEchoed
<1> QED BY <1>2, SessionInvariant, PTL
=============================================================================
