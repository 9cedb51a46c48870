-------------------------- MODULE SchedulerProofs --------------------------
(***************************************************************************)
(* The scheduler for every number of threads, operations and descriptors:  *)
(* its types, that the reactor is in one place, that no wake-up is lost,   *)
(* that the counts of work are exact, and that it implements Executor.     *)
(***************************************************************************)
EXTENDS SchedulerInvariants, SequenceTheorems, FiniteSetTheorems, TLAPS

\* What the elements of a sequence are.
LEMMA ElementsOf ==
    ASSUME NEW S, NEW s \in Seq(S)
    PROVE  /\ Elements(<<>>) = {} /\ Elements(s) \subseteq S
           /\ (Elements(s) = {} <=> s = <<>>)
           /\ \A r \in Seq(S) : Elements(s \o r) = Elements(s) \cup Elements(r)
           /\ \A e \in S : Elements(Append(s, e)) = Elements(s) \cup {e}
           /\ \A e : Elements(<<e>>) = {e}
           /\ s # <<>> => /\ Head(s) = s[1] /\ s[1] \in S /\ Tail(s) \in Seq(S)
                          /\ Elements(s) = {s[1]} \cup Elements(Tail(s))
  <1>1. Elements(<<>>) = {} /\ \A e : Elements(<<e>>) = {e}
    BY DEF Elements
  <1>2. Elements(s) \subseteq S /\ (Elements(s) = {} <=> s = <<>>)
    BY ElementOfSeq, LenProperties, EmptySeq DEF Elements
  <1>3. ASSUME NEW r \in Seq(S)
        PROVE  Elements(s \o r) = Elements(s) \cup Elements(r)
    <2>1. /\ DOMAIN s = 1 .. Len(s) /\ DOMAIN r = 1 .. Len(r) /\ Len(s) \in Nat /\ Len(r) \in Nat
          /\ DOMAIN (s \o r) = 1 .. Len(s) + Len(r)
          /\ \A i \in 1 .. Len(s) + Len(r) :
                (s \o r)[i] = IF i <= Len(s) THEN s[i] ELSE r[i - Len(s)]
      BY ConcatProperties, LenProperties
    <2>2. ASSUME NEW i \in DOMAIN r
          PROVE  r[i] \in Elements(s \o r)
      <3>1. i + Len(s) \in DOMAIN (s \o r) /\ (s \o r)[i + Len(s)] = r[i]
        BY <2>1
      <3> QED
        BY <3>1 DEF Elements
    <2>3. ASSUME NEW i \in DOMAIN s
          PROVE  s[i] \in Elements(s \o r)
      <3>1. i \in DOMAIN (s \o r) /\ (s \o r)[i] = s[i]
        BY <2>1
      <3> QED
        BY <3>1 DEF Elements
    <2>4. ASSUME NEW i \in DOMAIN (s \o r)
          PROVE  (s \o r)[i] \in Elements(s) \cup Elements(r)
      <3>1. (i \in DOMAIN s /\ (s \o r)[i] = s[i])
            \/ (i - Len(s) \in DOMAIN r /\ (s \o r)[i] = r[i - Len(s)])
        BY <2>1
      <3> QED
        BY <3>1 DEF Elements
    <2> QED
      BY <2>2, <2>3, <2>4 DEF Elements
  <1>4. ASSUME NEW e \in S
        PROVE  Elements(Append(s, e)) = Elements(s) \cup {e}
    <2>1. /\ DOMAIN s = 1 .. Len(s) /\ Len(s) \in Nat /\ DOMAIN Append(s, e) = 1 .. Len(s) + 1
          /\ Append(s, e)[Len(s) + 1] = e /\ \A i \in 1 .. Len(s) : Append(s, e)[i] = s[i]
      BY AppendProperties, LenProperties
    <2>2. \A i \in 1 .. Len(s) + 1 : i \in 1 .. Len(s) \/ i = Len(s) + 1
      BY <2>1
    <2>3. Len(s) + 1 \in 1 .. Len(s) + 1 /\ 1 .. Len(s) \subseteq 1 .. Len(s) + 1
      BY <2>1
    <2> QED
      BY <2>1, <2>2, <2>3 DEF Elements
  <1>5. ASSUME s # <<>>
        PROVE  /\ Head(s) = s[1] /\ s[1] \in S /\ Tail(s) \in Seq(S)
               /\ Elements(s) = {s[1]} \cup Elements(Tail(s))
    <2>1. /\ DOMAIN s = 1 .. Len(s) /\ Len(s) \in Nat /\ Len(s) > 0
          /\ Head(s) = s[1] /\ s[1] \in S /\ Tail(s) \in Seq(S)
          /\ DOMAIN Tail(s) = 1 .. Len(s) - 1
          /\ \A i \in 1 .. Len(s) - 1 : Tail(s)[i] = s[i + 1]
      BY <1>5, HeadTailProperties, LenProperties, EmptySeq, ElementOfSeq
    <2>2. ASSUME NEW i \in DOMAIN s
          PROVE  s[i] \in {s[1]} \cup Elements(Tail(s))
      <3>1. i = 1 \/ (i - 1 \in DOMAIN Tail(s) /\ Tail(s)[i - 1] = s[i])
        BY <2>1
      <3> QED
        BY <3>1 DEF Elements
    <2>3. ASSUME NEW i \in DOMAIN Tail(s)
          PROVE  Tail(s)[i] \in Elements(s)
      <3>1. i + 1 \in DOMAIN s /\ Tail(s)[i] = s[i + 1]
        BY <2>1
      <3> QED
        BY <3>1 DEF Elements
    <2>4. s[1] \in Elements(s)
      BY <2>1 DEF Elements
    <2>5. Elements(s) = {s[1]} \cup Elements(Tail(s))
      BY <2>2, <2>3, <2>4 DEF Elements
    <2> QED
      BY <2>1, <2>5
  <1> QED
    BY <1>1, <1>2, <1>3, <1>4, <1>5

\* Sequences without repeated operations.
LEMMA NoRepeats ==
    ASSUME NEW S, NEW s \in Seq(S), NoRepeat(s)
    PROVE  /\ NoRepeat(<<>>) /\ \A e : NoRepeat(<<e>>)
           /\ \A e \in S : e \notin Elements(s) => NoRepeat(Append(s, e))
           /\ s # <<>> => /\ NoRepeat(Tail(s))
                          /\ s[1] \in Ops => s[1] \notin Elements(Tail(s))
           /\ \A r \in Seq(S) : NoRepeat(r) /\ Elements(s) \cap Elements(r) \cap Ops = {}
                                => NoRepeat(s \o r)
  <1>1. NoRepeat(<<>>) /\ \A e : NoRepeat(<<e>>)
    BY DEF NoRepeat
  <1>2. ASSUME NEW e \in S, e \notin Elements(s)
        PROVE  NoRepeat(Append(s, e))
    <2>1. /\ DOMAIN s = 1 .. Len(s) /\ Len(s) \in Nat /\ DOMAIN Append(s, e) = 1 .. Len(s) + 1
          /\ Append(s, e)[Len(s) + 1] = e /\ \A i \in 1 .. Len(s) : Append(s, e)[i] = s[i]
      BY AppendProperties, LenProperties
    <2>2. \A i \in 1 .. Len(s) + 1 : i \in 1 .. Len(s) \/ i = Len(s) + 1
      BY <2>1
    <2>3. \A i \in 1 .. Len(s) : s[i] # e
      BY <1>2, <2>1 DEF Elements
    <2> QED
      BY <2>1, <2>2, <2>3 DEF NoRepeat
  <1>3. ASSUME s # <<>>
        PROVE  NoRepeat(Tail(s)) /\ (s[1] \in Ops => s[1] \notin Elements(Tail(s)))
    <2>1. /\ DOMAIN s = 1 .. Len(s) /\ Len(s) \in Nat /\ Len(s) > 0
          /\ DOMAIN Tail(s) = 1 .. Len(s) - 1
          /\ \A i \in 1 .. Len(s) - 1 : Tail(s)[i] = s[i + 1]
      BY <1>3, HeadTailProperties, LenProperties, EmptySeq
    <2>2. NoRepeat(Tail(s))
      <3>1. SUFFICES ASSUME NEW i \in DOMAIN Tail(s), NEW j \in DOMAIN Tail(s),
                            Tail(s)[i] = Tail(s)[j], Tail(s)[i] \in Ops
                     PROVE  i = j
        BY DEF NoRepeat
      <3>2. i + 1 \in DOMAIN s /\ j + 1 \in DOMAIN s /\ s[i + 1] = s[j + 1] /\ s[i + 1] \in Ops
        BY <2>1, <3>1
      <3>3. i + 1 = j + 1
        BY <3>2 DEF NoRepeat
      <3> QED
        BY <2>1, <3>3
    <2>3. ASSUME s[1] \in Ops, NEW i \in DOMAIN Tail(s), Tail(s)[i] = s[1]
          PROVE  FALSE
      <3>1. i + 1 \in DOMAIN s /\ 1 \in DOMAIN s /\ s[i + 1] = s[1] /\ i + 1 # 1
        BY <2>1, <2>3
      <3> QED
        BY <2>3, <3>1 DEF NoRepeat
    <2> QED
      BY <2>2, <2>3 DEF Elements
  <1>4. ASSUME NEW r \in Seq(S), NoRepeat(r), Elements(s) \cap Elements(r) \cap Ops = {}
        PROVE  NoRepeat(s \o r)
    <2>1. /\ DOMAIN s = 1 .. Len(s) /\ DOMAIN r = 1 .. Len(r) /\ Len(s) \in Nat /\ Len(r) \in Nat
          /\ DOMAIN (s \o r) = 1 .. Len(s) + Len(r)
          /\ \A i \in 1 .. Len(s) + Len(r) :
                (s \o r)[i] = IF i <= Len(s) THEN s[i] ELSE r[i - Len(s)]
      BY ConcatProperties, LenProperties
    <2>2. SUFFICES ASSUME NEW i \in DOMAIN (s \o r), NEW j \in DOMAIN (s \o r),
                          (s \o r)[i] = (s \o r)[j], (s \o r)[i] \in Ops
                   PROVE  i = j
      BY DEF NoRepeat
    <2>3. \A k \in DOMAIN (s \o r) :
              \/ k \in DOMAIN s /\ (s \o r)[k] = s[k]
              \/ k - Len(s) \in DOMAIN r /\ (s \o r)[k] = r[k - Len(s)]
      BY <2>1
    <2>4. \A k \in DOMAIN s, m \in DOMAIN r : s[k] \in Ops => s[k] # r[m]
      BY <1>4 DEF Elements
    <2>5. CASE i \in DOMAIN s /\ (s \o r)[i] = s[i]
      BY <2>2, <2>3, <2>4, <2>5 DEF NoRepeat
    <2>6. CASE i - Len(s) \in DOMAIN r /\ (s \o r)[i] = r[i - Len(s)]
      <3>1. j - Len(s) \in DOMAIN r /\ (s \o r)[j] = r[j - Len(s)]
        BY <2>2, <2>3, <2>4, <2>6
      <3>2. i - Len(s) = j - Len(s)
        BY <1>4, <2>2, <2>6, <3>1 DEF NoRepeat
      <3> QED
        BY <2>1, <2>2, <3>2
    <2> QED
      BY <2>2, <2>3, <2>5, <2>6
  <1> QED
    BY <1>1, <1>2, <1>3, <1>4

\* What perform_io makes of a descriptor's operations: the first, the others that are
\* finished, the rest.
LEMMA Split ==
    ASSUME NEW S, NEW s \in Seq(S), NEW n \in 0 .. Len(s)
    PROVE  /\ SubSeq(s, n + 1, Len(s)) \in Seq(S) /\ SubSeq(s, 2, n) \in Seq(S)
           /\ n > 0 => s[1] \in S
           /\ n <= 1 => SubSeq(s, 2, n) = <<>>
           /\ n = 0 => SubSeq(s, n + 1, Len(s)) = s
           /\ n > 0 => Elements(s) = {s[1]} \cup Elements(SubSeq(s, 2, n))
                                     \cup Elements(SubSeq(s, n + 1, Len(s)))
           /\ NoRepeat(s) => NoRepeat(SubSeq(s, 2, n)) /\ NoRepeat(SubSeq(s, n + 1, Len(s)))
           /\ NoRepeat(s) /\ S \subseteq Ops /\ n > 0 =>
                 /\ s[1] \notin Elements(SubSeq(s, 2, n)) \cup Elements(SubSeq(s, n + 1, Len(s)))
                 /\ Elements(SubSeq(s, 2, n)) \cap Elements(SubSeq(s, n + 1, Len(s))) = {}
  <1>. DEFINE a == SubSeq(s, 2, n)
              b == SubSeq(s, n + 1, Len(s))
  <1>1. /\ DOMAIN s = 1 .. Len(s) /\ Len(s) \in Nat /\ n \in Nat /\ n <= Len(s)
        /\ \A i \in 1 .. Len(s) : s[i] \in S
    BY LenProperties, ElementOfSeq
  <1>2. /\ a \in Seq(S) /\ DOMAIN a = 1 .. n - 1 /\ \A i \in 1 .. n - 1 : a[i] = s[i + 1]
    BY <1>1
  <1>3. /\ b \in Seq(S) /\ DOMAIN b = 1 .. Len(s) - n
        /\ \A i \in 1 .. Len(s) - n : b[i] = s[i + n]
    BY <1>1
  <1>4. n > 0 => s[1] \in S /\ 1 \in DOMAIN s
    BY <1>1
  <1>5. n <= 1 => a = <<>>
    BY <1>1
  <1>6. n = 0 => b = s
    BY <1>1
  <1>7. ASSUME NEW i \in DOMAIN a
        PROVE  i + 1 \in DOMAIN s /\ a[i] = s[i + 1] /\ i + 1 # 1 /\ i + 1 <= n
    BY <1>1, <1>2
  <1>8. ASSUME NEW i \in DOMAIN b
        PROVE  i + n \in DOMAIN s /\ b[i] = s[i + n] /\ i + n > n
    BY <1>1, <1>3
  <1>9. ASSUME n > 0, NEW i \in DOMAIN s
        PROVE  \/ i = 1 \/ (i - 1 \in DOMAIN a /\ a[i - 1] = s[i])
               \/ (i - n \in DOMAIN b /\ b[i - n] = s[i])
    BY <1>1, <1>2, <1>3, <1>9, SMTT(30)
  <1>10. ASSUME n > 0
         PROVE  Elements(s) = {s[1]} \cup Elements(a) \cup Elements(b)
    <2>1. ASSUME NEW i \in DOMAIN s
          PROVE  s[i] \in {s[1]} \cup Elements(a) \cup Elements(b)
      BY <1>9, <1>10, <2>1 DEF Elements
    <2>2. {s[1]} \cup Elements(a) \cup Elements(b) \subseteq Elements(s)
      BY <1>4, <1>7, <1>8, <1>10 DEF Elements
    <2> QED
      BY <2>1, <2>2 DEF Elements
  <1>11. ASSUME NoRepeat(s)
         PROVE  NoRepeat(a) /\ NoRepeat(b)
    <2>1. ASSUME NEW i \in DOMAIN a, NEW j \in DOMAIN a, a[i] = a[j], a[i] \in Ops
          PROVE  i = j
      <3>1. i + 1 = j + 1
        BY <1>7, <1>11, <2>1 DEF NoRepeat
      <3> QED
        BY <1>2, <3>1
    <2>2. ASSUME NEW i \in DOMAIN b, NEW j \in DOMAIN b, b[i] = b[j], b[i] \in Ops
          PROVE  i = j
      <3>1. i + n = j + n
        BY <1>8, <1>11, <2>2 DEF NoRepeat
      <3> QED
        BY <1>1, <1>3, <3>1
    <2> QED
      BY <2>1, <2>2 DEF NoRepeat
  <1>12. ASSUME NoRepeat(s), S \subseteq Ops, n > 0
         PROVE  s[1] \notin Elements(a) \cup Elements(b) /\ Elements(a) \cap Elements(b) = {}
    <2>1. \A i, j \in DOMAIN s : s[i] = s[j] => i = j
      BY <1>1, <1>12 DEF NoRepeat
    <2>2. ASSUME NEW i \in DOMAIN a
          PROVE  a[i] # s[1]
      BY <1>4, <1>7, <1>12, <2>1
    <2>3. ASSUME NEW i \in DOMAIN b
          PROVE  b[i] # s[1]
      <3>1. i + n # 1
        BY <1>1, <1>3, <1>12
      <3> QED
        BY <1>4, <1>8, <1>12, <2>1, <3>1
    <2>4. ASSUME NEW i \in DOMAIN a, NEW j \in DOMAIN b
          PROVE  a[i] # b[j]
      <3>1. i + 1 # j + n
        BY <1>1, <1>2, <1>3
      <3> QED
        BY <1>7, <1>8, <2>1, <3>1
    <2> QED
      BY <2>2, <2>3, <2>4 DEF Elements
  <1> QED
    BY <1>2, <1>3, <1>4, <1>5, <1>6, <1>10, <1>11, <1>12

\* The same, of the parts by name.
Parts(s, n, a, b) ==
    n \in 0 .. Len(s) /\ a = SubSeq(s, 2, n) /\ b = SubSeq(s, n + 1, Len(s))

LEMMA Performed ==
    ASSUME NEW s \in Seq(Ops), NEW n, NEW a, NEW b, Parts(s, n, a, b)
    PROVE  /\ a \in Seq(Ops)
           /\ n = 0 => a = <<>> /\ b = s
           /\ n # 0 => s[1] \in Ops /\ Elements(s) = {s[1]} \cup Elements(a) \cup Elements(b)
           /\ NoRepeat(s) => NoRepeat(a) /\ NoRepeat(b)
           /\ NoRepeat(s) /\ n # 0 => /\ s[1] \notin Elements(a) \cup Elements(b)
                                     /\ Elements(a) \cap Elements(b) = {}
  <1>0. n \in 0 .. Len(s) /\ a = SubSeq(s, 2, n) /\ b = SubSeq(s, n + 1, Len(s))
    BY DEF Parts
  <1>1. a \in Seq(Ops) /\ (n > 0 => s[1] \in Ops)
    BY <1>0, Split
  <1>2. (n <= 1 => a = <<>>) /\ (n = 0 => b = s)
    BY <1>0, Split
  <1>3. (n = 0 => n <= 1) /\ (n # 0 => n > 0)
    BY <1>0, LenProperties
  <1>4. n > 0 => Elements(s) = {s[1]} \cup Elements(a) \cup Elements(b)
    BY <1>0, Split
  <1>5. NoRepeat(s) => NoRepeat(a) /\ NoRepeat(b)
    BY <1>0, Split
  <1>6. NoRepeat(s) /\ n > 0 => /\ s[1] \notin Elements(a) \cup Elements(b)
                               /\ Elements(a) \cap Elements(b) = {}
    BY <1>0, Split
  <1> QED
    BY <1>1, <1>2, <1>3, <1>4, <1>5, <1>6

-----------------------------------------------------------------------------
LEMMA Constants ==
    /\ Threads \subseteq Callers /\ Main \in Callers /\ Main \notin Threads
    /\ Ops \subseteq Entries /\ Descriptors \subseteq Entries /\ TaskOp \in Entries
    /\ NoOp \notin Ops /\ NoOp \notin Descriptors /\ NoOp # TaskOp
    /\ TaskOp \notin Ops /\ TaskOp \notin Descriptors /\ Ops \cap Descriptors = {}
    /\ \A t \in Callers : t \notin Threads => t = Main
  BY SchedulerAssumption DEF Callers, Entries

\* An entry at the front of the queue.
LEMMA Popped ==
    ASSUME TypeOK, NEW t \in Threads, Pop(t)
    PROVE  /\ Head(opQueue) = opQueue[1] /\ opQueue[1] \in Entries
           /\ opQueue' = Tail(opQueue) /\ opQueue' \in Seq(Entries)
           /\ Elements(opQueue) = {opQueue[1]} \cup Elements(opQueue')
           /\ cur' = [cur EXCEPT ![t] = opQueue[1]]
  <1>1. opQueue \in Seq(Entries) /\ opQueue # <<>>
    BY DEF TypeOK, Pop
  <1> QED
    BY <1>1, ElementsOf DEF Pop

\* The sequence of descriptors that epoll_wait reports.
LEMMA Reported ==
    ASSUME TypeOK, NEW s \in SetToSeqs(events)
    PROVE  s \in Seq(Descriptors) /\ Elements(s) \subseteq Descriptors
  <1>1. IsFiniteSet(events) /\ events \subseteq Descriptors
    BY SchedulerAssumption, FS_Subset DEF TypeOK
  <1>2. Cardinality(events) \in Nat
    BY <1>1, FS_CardinalityType
  <1>3. s \in [1 .. Cardinality(events) -> events]
    BY DEF SetToSeqs
  <1>4. s \in Seq(Descriptors)
    BY <1>1, <1>2, <1>3
  <1> QED
    BY <1>4, ElementsOf

LEMMA WakeTypes ==
    ASSUME TypeOK, NEW t \in Callers, NEW step \in Steps,
           WakeOneThread(t, step) \/ WakeAllThreads(t, step)
    PROVE  /\ pc' \in [Callers -> Steps] /\ interrupt' \in BOOLEAN
           /\ taskInterrupted' \in BOOLEAN
  BY ZenonT(30) DEF WakeOneThread, WakeAllThreads, InterruptTask, Goto, TypeOK, Steps

LEMMA RunStepTypes ==
    ASSUME TypeOK, ControlInv, NEW t \in Threads, RunStep(t), work' \in Nat
    PROVE  TypeOK'
  <1>1. t \in Callers
    BY Constants
  <1>2. CASE Run(t) \/ RunReturns(t) \/ Idle(t) \/ Relock(t)
    <2>1. pc' \in [Callers -> Steps]
      BY <1>1, <1>2 DEF Run, RunReturns, Idle, Relock, Goto, TypeOK, Steps
    <2>2. signalled' \in BOOLEAN
      BY <1>2 DEF Run, RunReturns, Idle, Relock, TypeOK
    <2> QED
      BY <1>2, <2>1, <2>2 DEF Run, RunReturns, Idle, Relock, TypeOK, queues, counts, kernel
  <1>3. CASE TakeTask(t)
    <2>1. opQueue' \in Seq(Entries) /\ cur' \in [Callers -> Entries \cup {NoOp}]
      BY <1>1, <1>3, Popped DEF TakeTask, TypeOK
    <2>2. pc' \in [Callers -> Steps] /\ signalled' \in BOOLEAN /\ taskInterrupted' \in BOOLEAN
      BY <1>1, <1>3 DEF TakeTask, Goto, TypeOK, Steps
    <2> QED
      BY <1>3, <2>1, <2>2 DEF TakeTask, Pop, TypeOK, counts
  <1>4. CASE TakeOp(t)
    <2>1. opQueue' \in Seq(Entries) /\ cur' \in [Callers -> Entries \cup {NoOp}]
      BY <1>1, <1>4, Popped DEF TakeOp, TypeOK
    <2>2. "handler" \in Steps
      BY DEF Steps
    <2>3. CASE WakeOneThread(t, "handler")
      <3>1. signalled' \in BOOLEAN
        BY <2>3 DEF WakeOneThread
      <3> QED
        BY <1>1, <1>4, <2>1, <2>2, <2>3, <3>1, WakeTypes DEF TakeOp, Pop, TypeOK, counts
    <2>4. CASE Goto(t, "handler") /\ UNCHANGED <<signalled, interrupt, taskInterrupted>>
      <3>1. pc' \in [Callers -> Steps]
        BY <1>1, <2>2, <2>4 DEF Goto, TypeOK
      <3> QED
        BY <1>4, <2>1, <2>4, <3>1 DEF TakeOp, Pop, TypeOK, counts
    <2> QED
      BY <1>4, <2>3, <2>4 DEF TakeOp
  <1>5. CASE EpollWait(t)
    <2>1. PICK s \in SetToSeqs(events) : privateQueue' = [privateQueue EXCEPT ![t] = @ \o s]
      BY <1>5 DEF EpollWait
    <2>2. s \in Seq(Entries)
      BY Reported, Constants
    <2>3. privateQueue' \in [Threads -> Seq(Entries)]
      BY <2>1, <2>2 DEF TypeOK
    <2>4. pc' \in [Callers -> Steps]
      BY <1>1, <1>5 DEF EpollWait, Goto, TypeOK, Steps
    <2> QED
      BY <1>5, <2>3, <2>4 DEF EpollWait, TypeOK, counts
  <1>6. CASE TaskCleanup(t)
    <2>1. opQueue' \in Seq(Entries) /\ privateQueue' \in [Threads -> Seq(Entries)]
      BY <1>6, Constants DEF TaskCleanup, Requeue, TypeOK
    <2>2. pc' \in [Callers -> Steps] /\ cur' \in [Callers -> Entries \cup {NoOp}]
      BY <1>1, <1>6 DEF TaskCleanup, Goto, TypeOK, Steps
    <2>3. privateWork' \in [Threads -> Nat]
      BY <1>6 DEF TaskCleanup, TypeOK
    <2> QED
      BY <1>6, <2>1, <2>2, <2>3 DEF TaskCleanup, TypeOK, kernel
  <1>7. CASE PerformIo(t)
    <2>. PICK d : d = cur[t]
      OBVIOUS
    <2>1. d \in Descriptors /\ pending[d] \in Seq(Ops)
      BY <1>7 DEF PerformIo, TypeOK
    <2>2. PICK n \in 0 .. Len(pending[d]) :
            /\ pending' = [pending EXCEPT ![d] = SubSeq(@, n + 1, Len(@))]
            /\ cur' = [cur EXCEPT ![t] = IF n = 0 THEN NoOp ELSE pending[d][1]]
            /\ out' = [out EXCEPT ![t] = SubSeq(pending[d], 2, n)]
            /\ privateWork' = [privateWork EXCEPT ![t] = @ + Compensation(n)]
            /\ Goto(t, IF n > 1 THEN "push" ELSE "handler")
      BY <1>7 DEF PerformIo
    <2>3. /\ SubSeq(pending[d], n + 1, Len(pending[d])) \in Seq(Ops)
          /\ SubSeq(pending[d], 2, n) \in Seq(Ops)
          /\ n > 0 => pending[d][1] \in Ops
      BY <2>1, Split
    <2>4. pending' \in [Descriptors -> Seq(Ops)] /\ out' \in [Callers -> Seq(Ops)]
      BY <1>1, <2>1, <2>2, <2>3 DEF TypeOK
    <2>5. n \in Nat /\ cur' \in [Callers -> Entries \cup {NoOp}]
      BY <1>1, <2>1, <2>2, <2>3, LenProperties, Constants, SMTT(30) DEF TypeOK
    <2>6. privateWork' \in [Threads -> Nat]
      BY <2>2 DEF TypeOK, Compensation
    <2>7. pc' \in [Callers -> Steps]
      BY <1>1, <2>2 DEF Goto, TypeOK, Steps
    <2> QED
      BY <1>7, <2>4, <2>5, <2>6, <2>7 DEF PerformIo, TypeOK, kernel
  <1>8. CASE HandlerReturns(t)
    <2>1. pc' \in [Callers -> Steps] /\ cur' \in [Callers -> Entries \cup {NoOp}]
      BY <1>1, <1>8 DEF HandlerReturns, AfterHandler, Goto, TypeOK, Steps
    <2>2. privateWork' \in [Threads -> Nat]
      BY <1>8 DEF HandlerReturns, TypeOK
    <2> QED
      BY <1>8, <2>1, <2>2 DEF HandlerReturns, TypeOK, kernel, queues
  <1>9. CASE Flush(t)
    <2>1. opQueue' \in Seq(Entries) /\ privateQueue' \in [Threads -> Seq(Entries)]
      BY <1>9, Constants DEF Flush, TypeOK
    <2>2. pc' \in [Callers -> Steps]
      BY <1>1, <1>9 DEF Flush, Goto, TypeOK, Steps
    <2> QED
      BY <1>9, <2>1, <2>2 DEF Flush, TypeOK, kernel, counts
  <1> QED
    BY <1>2, <1>3, <1>4, <1>5, <1>6, <1>7, <1>8, <1>9 DEF RunStep

LEMMA ResumeStep ==
    ASSUME NEW t
    PROVE  Resume(t) \in {"outside", "task_poll", "handler"} /\ Resume(t) \in Steps
  BY DEF Resume, Steps

LEMMA CallStepTypes ==
    ASSUME TypeOK, ControlInv, NEW t \in Callers, CallStep(t), work' \in Nat
    PROVE  TypeOK'
  <1>1. CASE Signal(t)
    <2>1. pc' \in [Callers -> Steps]
      <3>1. "woken" \in Steps /\ Threads \subseteq Callers /\ pc \in [Callers -> Steps]
        BY Constants DEF Steps, TypeOK
      <3> QED
        BY <1>1, <3>1, ResumeStep DEF Signal, Goto
    <2> QED
      BY <1>1, <2>1 DEF Signal, TypeOK, queues, counts, kernel
  <1>2. CASE Push(t)
    <2>1. opQueue' \in Seq(Entries) /\ out' \in [Callers -> Seq(Ops)]
      <3>1. out[t] \in Seq(Entries)
        BY Constants DEF TypeOK
      <3> QED
        BY <1>2, <3>1 DEF Push, TypeOK
    <2>2. /\ pc' \in [Callers -> Steps] /\ interrupt' \in BOOLEAN
          /\ taskInterrupted' \in BOOLEAN
      BY <1>2, ResumeStep, WakeTypes DEF Push
    <2>3. signalled' \in BOOLEAN
      BY <1>2 DEF Push, WakeOneThread
    <2> QED
      BY <1>2, <2>1, <2>2, <2>3 DEF Push, TypeOK, counts
  <1>3. CASE Stop(t)
    <2>1. PICK step \in Steps : WakeAllThreads(t, step)
      BY <1>3 DEF Stop, AfterHandler, Steps
    <2>2. /\ pc' \in [Callers -> Steps] /\ interrupt' \in BOOLEAN
          /\ taskInterrupted' \in BOOLEAN
      BY <2>1, WakeTypes
    <2> QED
      BY <1>3, <2>2 DEF Stop, TypeOK, counts, queues
  <1> QED
    BY <1>1, <1>2, <1>3 DEF CallStep

LEMMA ProgramStepTypes ==
    ASSUME TypeOK, ControlInv, NEW t \in Callers, ProgramStep(t), work' \in Nat
    PROVE  TypeOK'
  <1>1. ASSUME NEW op \in Ops, Post(t, op)
        PROVE  TypeOK'
    <2>1. out' \in [Callers -> Seq(Ops)] /\ pc' \in [Callers -> Steps] /\ fresh' \subseteq Ops
      BY <1>1 DEF Post, Goto, TypeOK, Steps
    <2> QED
      BY <1>1, <2>1 DEF Post, TypeOK, kernel
  <1>2. ASSUME NEW op \in Ops, t # Main, PostContinuation(t, op)
        PROVE  TypeOK'
    <2>1. /\ privateQueue' \in [Threads -> Seq(Entries)] /\ privateWork' \in [Threads -> Nat]
          /\ fresh' \subseteq Ops
      BY <1>2, Constants DEF PostContinuation, CountPrivately, TypeOK
    <2> QED
      BY <1>2, <2>1 DEF PostContinuation, TypeOK, kernel
  <1>3. ASSUME NEW op \in Ops, NEW d \in Descriptors, StartOp(t, op, d)
        PROVE  TypeOK'
    <2>1. pending' \in [Descriptors -> Seq(Ops)] /\ fresh' \subseteq Ops
      BY <1>3 DEF StartOp, TypeOK
    <2> QED
      BY <1>3, <2>1 DEF StartOp, TypeOK, kernel
  <1>4. ASSUME NEW d \in Descriptors, CancelOps(t, d)
        PROVE  TypeOK'
    <2>1. /\ pending' \in [Descriptors -> Seq(Ops)] /\ out' \in [Callers -> Seq(Ops)]
          /\ pc' \in [Callers -> Steps]
      BY <1>4 DEF CancelOps, Goto, TypeOK, Steps
    <2> QED
      BY <1>4, <2>1 DEF CancelOps, TypeOK, kernel, counts
  <1> QED
    BY <1>1, <1>2, <1>3, <1>4 DEF ProgramStep

LEMMA TypesKept ==
    ASSUME TypeOK, ControlInv, [Next]_vars, work' \in Nat
    PROVE  TypeOK'
  <1>1. ASSUME NEW t \in Threads, SpuriousWakeup(t)
        PROVE  TypeOK'
    <2>1. pc' \in [Callers -> Steps]
      BY <1>1, Constants DEF SpuriousWakeup, Goto, TypeOK, Steps
    <2> QED
      BY <1>1, <2>1 DEF SpuriousWakeup, TypeOK, queues, counts, kernel
  <1>2. CASE ResetGuard \/ CallStop
    <2>1. pc' \in [Callers -> Steps]
      BY <1>2, Constants DEF ResetGuard, CallStop, Goto, TypeOK, Steps
    <2> QED
      BY <1>2, <2>1 DEF ResetGuard, CallStop, TypeOK, queues, counts, kernel
  <1>3. ASSUME NEW d \in Descriptors, SocketEvent(d)
        PROVE  TypeOK'
    BY <1>3 DEF SocketEvent, TypeOK, queues, counts
  <1>4. CASE UNCHANGED vars
    BY <1>4 DEF vars, TypeOK, queues, counts, kernel
  <1> QED
    BY <1>1, <1>2, <1>3, <1>4, RunStepTypes, CallStepTypes, ProgramStepTypes DEF Next

-----------------------------------------------------------------------------
LEMMA StepCases ==
    ASSUME [Next]_vars
    PROVE  \/ \E t \in Callers : StepOf(t)
           \/ \E d \in Descriptors : SocketEvent(d)
           \/ UNCHANGED vars
  BY Constants DEF Next, StepOf

\* What a caller does leaves the others alone, but may wake them.
LEMMA OthersUndisturbed ==
    ASSUME TypeOK, ControlInv, NEW t \in Callers, StepOf(t)
    PROVE  \A u \in Callers \ {t} : Undisturbed(u)
  <1>. SUFFICES ASSUME NEW u \in Callers \ {t}
                PROVE  Undisturbed(u)
    OBVIOUS
  <1>. USE DEF TypeOK, Undisturbed, Goto, queues, counts
  <1>1. ASSUME t \in Threads, RunStep(t)
        PROVE  Undisturbed(u)
    <2>1. CASE Run(t) \/ RunReturns(t) \/ Idle(t) \/ Relock(t)
      BY <1>1, <2>1 DEF Run, RunReturns, Idle, Relock
    <2>2. CASE TakeTask(t)
      BY <1>1, <2>2 DEF TakeTask, Pop
    <2>3. CASE TakeOp(t)
      BY <1>1, <2>3 DEF TakeOp, Pop, WakeOneThread
    <2>4. CASE EpollWait(t)
      BY <1>1, <2>4 DEF EpollWait
    <2>5. CASE TaskCleanup(t)
      BY <1>1, <2>5 DEF TaskCleanup
    <2>6. CASE PerformIo(t)
      BY <1>1, <2>6 DEF PerformIo
    <2>7. CASE HandlerReturns(t)
      BY <1>1, <2>7 DEF HandlerReturns
    <2>8. CASE Flush(t)
      BY <1>1, <2>8 DEF Flush
    <2> QED
      BY <1>1, <2>1, <2>2, <2>3, <2>4, <2>5, <2>6, <2>7, <2>8 DEF RunStep
  <1>2. ASSUME t \in Threads, SpuriousWakeup(t)
        PROVE  Undisturbed(u)
    BY <1>2 DEF SpuriousWakeup
  <1>3. ASSUME Signal(t)
        PROVE  Undisturbed(u)
    BY <1>3 DEF Signal
  <1>4. ASSUME Push(t)
        PROVE  Undisturbed(u)
    BY <1>4 DEF Push, WakeOneThread
  <1>5. ASSUME Stop(t)
        PROVE  Undisturbed(u)
    BY <1>5, Constants DEF Stop, WakeAllThreads, ControlInv
  <1>6. ASSUME ProgramStep(t)
        PROVE  Undisturbed(u)
    BY <1>6 DEF ProgramStep, Post, PostContinuation, CountPrivately, StartOp, CancelOps
  <1>7. ASSUME t = Main, ResetGuard \/ CallStop
        PROVE  Undisturbed(u)
    BY <1>7 DEF ResetGuard, CallStop
  <1> QED
    BY <1>1, <1>2, <1>3, <1>4, <1>5, <1>6, <1>7 DEF StepOf, CallStep

LEMMA ControlOfOthers ==
    ASSUME ControlInv, stopped => stopped', NEW u \in Callers, Undisturbed(u)
    PROVE  /\ u \in Threads => /\ ThreadHolds(u)' /\ PrivateHolds(u)'
                               /\ (pc[u] = "leave" => stopped)'
           /\ u = Main => (pc[u] \in {"outside", "signal", "push", "stop"} /\ cur[u] = NoOp)'
           /\ (pc[u] # "push" => out[u] = <<>>)'
  <1>1. ASSUME u \in Threads
        PROVE  ThreadHolds(u)' /\ (pc[u] = "leave" => stopped)'
    BY <1>1 DEF ControlInv, Undisturbed, ThreadHolds, FreeSteps, TaskSteps
  <1>2. ASSUME u \in Threads
        PROVE  PrivateHolds(u)'
    BY <1>2 DEF ControlInv, Undisturbed, PrivateHolds
  <1> QED
    BY <1>1, <1>2, Constants DEF ControlInv, Undisturbed

\* What a caller's own step leaves it with.
OwnControl(t) ==
    /\ t \in Threads => ThreadHolds(t) /\ PrivateHolds(t) /\ (pc[t] = "leave" => stopped)
    /\ t = Main => pc[t] \in {"outside", "signal", "push", "stop"} /\ cur[t] = NoOp
    /\ pc[t] # "push" => out[t] = <<>>

LEMMA RunStepControl ==
    ASSUME TypeOK, ControlInv, NEW t \in Threads, RunStep(t)
    PROVE  OwnControl(t)'
  <1>1. t \in Callers /\ t # Main
    BY Constants
  <1>2. /\ ThreadHolds(t) /\ PrivateHolds(t) /\ (pc[t] = "leave" => stopped)
        /\ (pc[t] # "push" => out[t] = <<>>)
    BY <1>1 DEF ControlInv
  <1>. USE DEF OwnControl, ThreadHolds, PrivateHolds, FreeSteps, TaskSteps
  <1>3. CASE Run(t) \/ RunReturns(t) \/ Idle(t) \/ Relock(t)
    <2>1. UNCHANGED <<cur, privateQueue, out>> /\ pc[t] \in FreeSteps
      BY <1>3 DEF Run, RunReturns, Idle, Relock, AtLoop, queues
    <2>2. pc'[t] \in FreeSteps \ {"leave"}
      BY <1>1, <1>3 DEF Run, RunReturns, Idle, Relock, TypeOK, Goto
    <2>3. cur'[t] = NoOp /\ (privateQueue'[t] = <<>> \/ pc[t] \in {"flush", "stop"})
      BY <1>2, <2>1, Constants
    <2>4. pc[t] \notin {"flush", "stop"}
      BY <1>3 DEF Run, RunReturns, Idle, Relock, AtLoop
    <2> QED
      BY <1>1, <1>2, <2>1, <2>2, <2>3, <2>4
  <1>4. CASE TakeTask(t) \/ TakeOp(t)
    <2>1. Pop(t) /\ pc[t] \in {"loop", "acquire"}
      BY <1>4 DEF TakeTask, TakeOp, Pop, AtLoop
    <2>2. cur[t] = NoOp /\ privateQueue[t] = <<>> /\ out[t] = <<>>
      BY <1>2, <2>1, Constants
    <2>3. cur'[t] = opQueue[1] /\ opQueue[1] \in Entries /\ Head(opQueue) = opQueue[1]
      BY <1>1, <2>1, Popped DEF TypeOK
    <2>4. privateQueue'[t] = <<>> /\ out'[t] = <<>>
      BY <2>1, <2>2 DEF Pop
    <2>5. TakeTask(t) => pc'[t] \in {"signal", "task_poll", "task_wait"} /\ cur'[t] = TaskOp
      BY <1>1, <2>3 DEF TakeTask, Goto, TypeOK
    <2>6. TakeOp(t) => pc'[t] \in {"signal", "handler"} /\ cur'[t] # TaskOp
      BY <1>1, <2>3 DEF TakeOp, WakeOneThread, Goto, TypeOK
    <2>7. DOMAIN privateQueue'[t] = {}
      BY <2>4
    <2> QED
      BY <1>1, <1>4, <2>3, <2>4, <2>5, <2>6, <2>7
  <1>5. CASE EpollWait(t)
    <2>1. PICK s \in SetToSeqs(events) : privateQueue' = [privateQueue EXCEPT ![t] = @ \o s]
      BY <1>5 DEF EpollWait
    <2>2. s \in Seq(Descriptors) /\ privateQueue[t] = <<>> /\ cur[t] = TaskOp
      BY <1>2, <1>5, Reported, Constants DEF EpollWait
    <2>3. <<>> \o s = s
      BY <2>2
    <2>4. privateQueue'[t] = s
      BY <2>1, <2>2, <2>3 DEF TypeOK
    <2>5. pc'[t] = "task_done" /\ cur'[t] = TaskOp /\ out'[t] = <<>>
      BY <1>1, <1>2, <1>5, <2>2 DEF EpollWait, Goto, TypeOK
    <2>6. \A i \in DOMAIN s : s[i] \in Descriptors
      BY <2>2
    <2> QED
      BY <1>1, <2>4, <2>5, <2>6
  <1>6. CASE TaskCleanup(t) \/ Flush(t)
    <2>1. /\ privateQueue'[t] = <<>> /\ pc'[t] = "loop" /\ cur'[t] = NoOp /\ out'[t] = <<>>
      BY <1>1, <1>2, <1>6 DEF TaskCleanup, Flush, Goto, TypeOK
    <2>2. DOMAIN privateQueue'[t] = {}
      BY <2>1
    <2> QED
      BY <1>1, <2>1, <2>2
  <1>7. CASE PerformIo(t)
    <2>. PICK d : d = cur[t]
      OBVIOUS
    <2>1. d \in Descriptors /\ pending[d] \in Seq(Ops) /\ privateQueue' = privateQueue
      BY <1>7 DEF PerformIo, TypeOK
    <2>2. PICK n \in 0 .. Len(pending[d]) :
            /\ cur' = [cur EXCEPT ![t] = IF n = 0 THEN NoOp ELSE pending[d][1]]
            /\ out' = [out EXCEPT ![t] = SubSeq(pending[d], 2, n)]
            /\ Goto(t, IF n > 1 THEN "push" ELSE "handler")
      BY <1>7 DEF PerformIo
    <2>3. (n > 0 => pending[d][1] \in Ops) /\ (n <= 1 => SubSeq(pending[d], 2, n) = <<>>)
      BY <2>1, Split
    <2>4. n \in Nat
      BY <2>1, LenProperties
    <2>5. /\ cur'[t] = IF n = 0 THEN NoOp ELSE pending[d][1]
          /\ out'[t] = SubSeq(pending[d], 2, n)
          /\ pc'[t] = IF n > 1 THEN "push" ELSE "handler"
      BY <1>1, <2>2 DEF Goto, TypeOK
    <2>6. privateQueue[t] = <<>>
      BY <1>2, <1>7, <2>1, Constants DEF PerformIo
    <2>7. DOMAIN privateQueue'[t] = {}
      BY <2>1, <2>6
    <2>8. pc'[t] = "push" => cur'[t] \in Ops
      BY <2>3, <2>4, <2>5
    <2>9. cur'[t] # TaskOp /\ pc'[t] \in {"push", "handler"}
      BY <2>3, <2>4, <2>5, Constants
    <2>10. pc'[t] # "push" => out'[t] = <<>>
      BY <2>3, <2>4, <2>5
    <2> QED
      BY <1>1, <2>1, <2>6, <2>7, <2>8, <2>9, <2>10
  <1>8. CASE HandlerReturns(t)
    <2>1. privateQueue' = privateQueue /\ out'[t] = <<>> /\ pc[t] = "handler"
      BY <1>2, <1>8 DEF HandlerReturns, queues
    <2>2. cur'[t] = NoOp /\ pc'[t] \in {"stop", "acquire", "flush"}
          /\ (pc'[t] = "acquire" => privateQueue[t] = <<>>)
      BY <1>1, <1>8 DEF HandlerReturns, AfterHandler, Goto, TypeOK
    <2> QED
      BY <1>1, <1>2, <2>1, <2>2
  <1> QED
    BY <1>3, <1>4, <1>5, <1>6, <1>7, <1>8 DEF RunStep

LEMMA CallStepControl ==
    ASSUME TypeOK, ControlInv, NEW t \in Callers, CallStep(t)
    PROVE  OwnControl(t)'
  <1>1. OwnControl(t)
    BY DEF ControlInv, OwnControl
  <1>. USE DEF OwnControl, ThreadHolds, PrivateHolds, FreeSteps, TaskSteps
  <1>2. t \in Threads \/ t = Main
    BY Constants
  <1>3. CASE Signal(t)
    <2>1. UNCHANGED <<cur, privateQueue, out>> /\ pc[t] = "signal"
      BY <1>3 DEF Signal, queues
    <2>2. pc'[t] = Resume(t)
      BY <1>3, Constants DEF Signal, Goto, TypeOK
    <2> QED
      BY <1>1, <1>2, <2>1, <2>2, Constants DEF Resume
  <1>4. CASE Push(t)
    <2>1. UNCHANGED <<cur, privateQueue>> /\ pc[t] = "push" /\ out'[t] = <<>>
      BY <1>4 DEF Push, TypeOK
    <2>2. pc'[t] \in {"signal", Resume(t)}
      BY <1>4 DEF Push, WakeOneThread, Goto, TypeOK
    <2> QED
      BY <1>1, <1>2, <2>1, <2>2, Constants DEF Resume
  <1>5. CASE Stop(t)
    <2>1. UNCHANGED <<cur, privateQueue, out>> /\ pc[t] \in {"stop", "stop_enter"} /\ stopped'
      BY <1>5 DEF Stop, queues
    <2>2. pc'[t] = IF t = Main THEN "outside" ELSE IF pc[t] = "stop" THEN AfterHandler(t) ELSE "leave"
      BY <1>5 DEF Stop, WakeAllThreads
    <2> QED
      BY <1>1, <1>2, <2>1, <2>2, Constants DEF AfterHandler
  <1> QED
    BY <1>3, <1>4, <1>5 DEF CallStep

LEMMA ProgramStepControl ==
    ASSUME TypeOK, ControlInv, NEW t \in Callers, ProgramStep(t)
    PROVE  OwnControl(t)'
  <1>1. OwnControl(t)
    BY DEF ControlInv, OwnControl
  <1>. USE DEF OwnControl, ThreadHolds, PrivateHolds, FreeSteps, TaskSteps
  <1>2. t \in Threads \/ t = Main
    BY Constants
  <1>3. ASSUME NEW op \in Ops, Post(t, op)
        PROVE  OwnControl(t)'
    <2>1. UNCHANGED <<cur, privateQueue>> /\ pc'[t] = "push"
      BY <1>3 DEF Post, Goto, TypeOK
    <2>2. pc[t] \in {"handler", "outside"} /\ (t \in Threads => cur[t] \in Ops)
      BY <1>1, <1>3 DEF Post, InProgram
    <2> QED
      BY <1>1, <1>2, <2>1, <2>2, Constants
  <1>4. ASSUME NEW op \in Ops, t # Main, PostContinuation(t, op)
        PROVE  OwnControl(t)'
    <2>1. UNCHANGED <<pc, cur, out>> /\ pc[t] = "handler" /\ cur[t] \in Ops /\ t \in Threads
      BY <1>2, <1>4 DEF PostContinuation
    <2>2. privateQueue'[t] = Append(privateQueue[t], op) /\ privateQueue[t] \in Seq(Entries)
      BY <1>4, <2>1 DEF PostContinuation, TypeOK
    <2>3. \A i \in DOMAIN privateQueue[t] : privateQueue[t][i] \in Ops
      BY <1>1, <2>1
    <2>4. \A i \in DOMAIN privateQueue'[t] : privateQueue'[t][i] \in Ops
      BY <2>2, <2>3
    <2> QED
      BY <1>1, <1>4, <2>1, <2>4
  <1>5. ASSUME NEW op \in Ops, NEW d \in Descriptors, StartOp(t, op, d)
        PROVE  OwnControl(t)'
    BY <1>1, <1>5 DEF StartOp
  <1>6. ASSUME NEW d \in Descriptors, CancelOps(t, d)
        PROVE  OwnControl(t)'
    <2>1. UNCHANGED <<cur, privateQueue>> /\ pc'[t] = "push"
      BY <1>6 DEF CancelOps, Goto, TypeOK
    <2>2. pc[t] \in {"handler", "outside"} /\ (t \in Threads => cur[t] \in Ops)
      BY <1>1, <1>6 DEF CancelOps
    <2> QED
      BY <1>1, <1>2, <2>1, <2>2, Constants
  <1> QED
    BY <1>3, <1>4, <1>5, <1>6 DEF ProgramStep

LEMMA StoppedStays ==
    ASSUME TypeOK, NEW t \in Callers, StepOf(t), stopped
    PROVE  stopped'
  BY DEF StepOf, RunStep, SpuriousWakeup, CallStep, ProgramStep, ResetGuard, CallStop, Run,
         RunReturns, Idle, TakeTask, TakeOp, Pop, Relock, EpollWait, TaskCleanup, PerformIo,
         HandlerReturns, Flush, Signal, Push, Stop, Post, PostContinuation, StartOp, CancelOps

LEMMA ControlKept ==
    ASSUME TypeOK, ControlInv, [Next]_vars
    PROVE  ControlInv'
  <1>1. ASSUME NEW t \in Callers, StepOf(t)
        PROVE  ControlInv'
    <2>1. ASSUME NEW u \in Callers, u # t
          PROVE  OwnControl(u)'
      BY <1>1, <2>1, OthersUndisturbed, ControlOfOthers, StoppedStays DEF OwnControl
    <2>2. OwnControl(t)'
      <3>1. CASE t \in Threads /\ SpuriousWakeup(t)
        BY <3>1, Constants DEF SpuriousWakeup, OwnControl, ControlInv, ThreadHolds, PrivateHolds,
                               FreeSteps, TaskSteps, Goto, TypeOK, queues
      <3>2. CASE t = Main /\ (ResetGuard \/ CallStop)
        BY <3>2, Constants DEF ResetGuard, CallStop, OwnControl, ControlInv, Goto, TypeOK, queues
      <3> QED
        BY <1>1, <3>1, <3>2, RunStepControl, CallStepControl, ProgramStepControl DEF StepOf
    <2> QED
      BY <2>1, <2>2, Constants DEF ControlInv, OwnControl
  <1>2. ASSUME NEW d \in Descriptors, SocketEvent(d)
        PROVE  ControlInv'
    BY <1>2 DEF SocketEvent, ControlInv, ThreadHolds, PrivateHolds, queues
  <1>3. CASE UNCHANGED vars
    BY <1>3 DEF vars, ControlInv, ThreadHolds, PrivateHolds, queues
  <1> QED
    BY <1>1, <1>2, <1>3, StepCases

-----------------------------------------------------------------------------
\* The reactor stays where it is.
LEMMA ReactorFrame ==
    ASSUME TypeOK, ReactorInv, NEW s \in Seq(Ops), opQueue' = opQueue \o s,
           \A t \in Threads : cur'[t] = TaskOp <=> cur[t] = TaskOp
    PROVE  ReactorInv'
  <1>1. opQueue \in Seq(Entries) /\ s \in Seq(Entries)
    BY Constants DEF TypeOK
  <1>2. /\ DOMAIN opQueue = 1 .. Len(opQueue) /\ DOMAIN s = 1 .. Len(s)
        /\ Len(opQueue) \in Nat /\ Len(s) \in Nat
        /\ DOMAIN opQueue' = 1 .. Len(opQueue) + Len(s)
        /\ \A i \in 1 .. Len(opQueue) + Len(s) :
              opQueue'[i] = IF i <= Len(opQueue) THEN opQueue[i] ELSE s[i - Len(opQueue)]
    BY <1>1, ConcatProperties, LenProperties
  <1>3. ASSUME NEW i \in DOMAIN opQueue', opQueue'[i] = TaskOp \/ opQueue'[i] \in Descriptors
        PROVE  i \in DOMAIN opQueue /\ opQueue[i] = opQueue'[i]
    <2>1. i \in DOMAIN opQueue \/ i - Len(opQueue) \in DOMAIN s
      BY <1>2
    <2>2. i > Len(opQueue) => opQueue'[i] \in Ops
      BY <1>2
    <2> QED
      BY <1>2, <1>3, <2>2, Constants
  <1>4. ASSUME NEW i \in DOMAIN opQueue
        PROVE  i \in DOMAIN opQueue' /\ opQueue'[i] = opQueue[i]
    BY <1>2
  <1>5. OneTask'
    BY <1>3, <1>4 DEF ReactorInv, OneTask
  <1>6. DescriptorsFirst'
    BY <1>3, <1>4 DEF ReactorInv, DescriptorsFirst
  <1> QED
    BY <1>5, <1>6 DEF ReactorInv

LEMMA ReactorPopped ==
    ASSUME TypeOK, ControlInv, ReactorInv, NEW t \in Threads, Pop(t)
    PROVE  ReactorInv'
  <1>1. opQueue \in Seq(Entries) /\ opQueue # <<>> /\ opQueue' = Tail(opQueue)
    BY DEF TypeOK, Pop
  <1>2. /\ DOMAIN opQueue = 1 .. Len(opQueue) /\ Len(opQueue) \in Nat /\ Len(opQueue) > 0
        /\ DOMAIN opQueue' = 1 .. Len(opQueue) - 1
        /\ \A i \in 1 .. Len(opQueue) - 1 : opQueue'[i] = opQueue[i + 1]
    BY <1>1, HeadTailProperties, LenProperties, EmptySeq
  <1>3. ASSUME NEW i \in DOMAIN opQueue'
        PROVE  i + 1 \in DOMAIN opQueue /\ opQueue'[i] = opQueue[i + 1] /\ i + 1 # 1
    BY <1>2
  <1>4. ASSUME NEW i \in DOMAIN opQueue, i # 1
        PROVE  i - 1 \in DOMAIN opQueue' /\ opQueue'[i - 1] = opQueue[i]
    BY <1>2, <1>4
  <1>5. cur' = [cur EXCEPT ![t] = opQueue[1]] /\ t \in DOMAIN cur /\ 1 \in DOMAIN opQueue
    BY <1>2, Popped, Constants DEF TypeOK
  <1>6. cur[t] = NoOp
    BY DEF Pop, AtLoop, ControlInv, ThreadHolds, FreeSteps
  <1>7. \A u \in Threads : cur'[u] = TaskOp <=> cur[u] = TaskOp \/ (u = t /\ opQueue[1] = TaskOp)
    BY <1>5, <1>6, Constants DEF TypeOK
  <1>8. /\ \A i, j \in DOMAIN opQueue : opQueue[i] = TaskOp /\ opQueue[j] = TaskOp => i = j
        /\ \A u, v \in Threads : cur[u] = TaskOp /\ cur[v] = TaskOp => u = v
        /\ (\E i \in DOMAIN opQueue : opQueue[i] = TaskOp) <=> ~\E u \in Threads : cur[u] = TaskOp
    BY DEF ReactorInv, OneTask
  <1>9. DescriptorsFirst'
    <2>1. ASSUME NEW i \in DOMAIN opQueue', NEW j \in DOMAIN opQueue',
                 opQueue'[i] = TaskOp, opQueue'[j] \in Descriptors
          PROVE  j < i
      <3>1. j + 1 < i + 1
        BY <1>3, <2>1 DEF ReactorInv, DescriptorsFirst
      <3> QED
        BY <1>2, <3>1
    <2>2. ASSUME NEW u \in Threads, cur'[u] = TaskOp, NEW i \in DOMAIN opQueue',
                 opQueue'[i] \in Descriptors
          PROVE  FALSE
      <3>1. CASE cur[u] = TaskOp
        BY <1>3, <2>2, <3>1 DEF ReactorInv, DescriptorsFirst
      <3>2. CASE opQueue[1] = TaskOp
        <4>1. i + 1 < 1
          BY <1>3, <1>5, <2>2, <3>2 DEF ReactorInv, DescriptorsFirst
        <4> QED
          BY <1>2, <4>1
      <3> QED
        BY <1>7, <2>2, <3>1, <3>2
    <2> QED
      BY <2>1, <2>2 DEF DescriptorsFirst
  <1>10. \A i, j \in DOMAIN opQueue' : opQueue'[i] = TaskOp /\ opQueue'[j] = TaskOp => i = j
    <2>1. ASSUME NEW i \in DOMAIN opQueue', NEW j \in DOMAIN opQueue',
                 opQueue'[i] = TaskOp, opQueue'[j] = TaskOp
          PROVE  i = j
      <3>1. i + 1 = j + 1
        BY <1>3, <1>8, <2>1
      <3> QED
        BY <1>2, <3>1
    <2> QED
      BY <2>1
  <1>11. CASE opQueue[1] = TaskOp
    <2>1. \A u \in Threads : cur'[u] = TaskOp <=> u = t
      BY <1>5, <1>7, <1>8, <1>11
    <2>2. \A i \in DOMAIN opQueue' : opQueue'[i] # TaskOp
      BY <1>3, <1>5, <1>8, <1>11
    <2>3. OneTask'
      BY <2>1, <2>2 DEF OneTask
    <2> QED
      BY <1>9, <2>3 DEF ReactorInv
  <1>12. CASE opQueue[1] # TaskOp
    <2>1. \A u \in Threads : cur'[u] = TaskOp <=> cur[u] = TaskOp
      BY <1>7, <1>12
    <2>2. (\E i \in DOMAIN opQueue' : opQueue'[i] = TaskOp) <=> \E i \in DOMAIN opQueue : opQueue[i] = TaskOp
      BY <1>3, <1>4, <1>12
    <2>3. OneTask'
      BY <1>8, <1>10, <2>1, <2>2 DEF OneTask
    <2> QED
      BY <1>9, <2>3 DEF ReactorInv
  <1> QED
    BY <1>11, <1>12

\* The reactor goes back behind the descriptors that it has found.
LEMMA ReactorRequeued ==
    ASSUME TypeOK, ControlInv, ReactorInv, NEW t \in Threads, TaskCleanup(t)
    PROVE  ReactorInv'
  <1>0. PICK q : q = privateQueue[t] \o <<TaskOp>>
    OBVIOUS
  <1>1. /\ opQueue \in Seq(Entries) /\ privateQueue[t] \in Seq(Entries) /\ opQueue' = opQueue \o q
        /\ pc[t] = "task_done"
    BY <1>0 DEF TypeOK, TaskCleanup, Requeue
  <1>2. q \in Seq(Entries) /\ Len(q) = Len(privateQueue[t]) + 1
        /\ q[Len(q)] = TaskOp /\ \A i \in 1 .. Len(q) - 1 : q[i] = privateQueue[t][i]
    BY <1>0, <1>1, Constants
  <1>3. /\ DOMAIN opQueue = 1 .. Len(opQueue) /\ Len(opQueue) \in Nat
        /\ DOMAIN q = 1 .. Len(q) /\ Len(q) \in Nat /\ Len(q) > 0
        /\ DOMAIN opQueue' = 1 .. Len(opQueue) + Len(q)
        /\ \A i \in 1 .. Len(opQueue) + Len(q) :
              opQueue'[i] = IF i <= Len(opQueue) THEN opQueue[i] ELSE q[i - Len(opQueue)]
    <2>1. Len(privateQueue[t]) \in Nat
      BY <1>1, LenProperties
    <2>2. opQueue' \in Seq(Entries) /\ Len(opQueue') = Len(opQueue) + Len(q)
      BY <1>1, <1>2, ConcatProperties
    <2>3. DOMAIN opQueue' = 1 .. Len(opQueue')
      BY <2>2, LenProperties
    <2> QED
      BY <1>1, <1>2, <2>1, <2>2, <2>3, ConcatProperties, LenProperties
  <1>4. cur[t] = TaskOp /\ \A i \in DOMAIN privateQueue[t] : privateQueue[t][i] \in Descriptors
    BY <1>1 DEF ControlInv, ThreadHolds, TaskSteps, PrivateHolds
  <1>5. \A i \in 1 .. Len(opQueue) : opQueue[i] # TaskOp /\ opQueue[i] \notin Descriptors
    BY <1>3, <1>4 DEF ReactorInv, OneTask, DescriptorsFirst
  <1>6. \A i \in 1 .. Len(q) - 1 : q[i] # TaskOp
    <2>1. DOMAIN privateQueue[t] = 1 .. Len(q) - 1
      BY <1>1, <1>2, LenProperties
    <2> QED
      BY <1>2, <1>4, <2>1, Constants
  <1>. PICK n : n = Len(opQueue) + Len(q)
    OBVIOUS
  <1>7. \A i \in DOMAIN opQueue' : opQueue'[i] = TaskOp <=> i = n
    <2>1. ASSUME NEW i \in DOMAIN opQueue'
          PROVE  opQueue'[i] = TaskOp <=> i = n
      <3>1. CASE i <= Len(opQueue)
        BY <1>3, <1>5, <3>1
      <3>2. CASE i > Len(opQueue)
        <4>1. opQueue'[i] = q[i - Len(opQueue)] /\ i - Len(opQueue) \in 1 .. Len(q)
          BY <1>3, <3>2
        <4>2. q[i - Len(opQueue)] = TaskOp <=> i - Len(opQueue) = Len(q)
          BY <1>2, <1>3, <1>6, <4>1
        <4> QED
          BY <1>3, <4>1, <4>2
      <3> QED
        BY <1>3, <3>1, <3>2
    <2> QED
      BY <2>1
  <1>8. n \in DOMAIN opQueue' /\ \A i \in DOMAIN opQueue' : i # n => i < n
    BY <1>3
  <1>9. \A u \in Threads : cur'[u] # TaskOp
    <2>1. \A u \in Threads : cur[u] = TaskOp => u = t
      BY <1>4 DEF ReactorInv, OneTask
    <2> QED
      BY <2>1, Constants DEF TaskCleanup, TypeOK
  <1>10. OneTask'
    BY <1>7, <1>8, <1>9 DEF OneTask
  <1>11. DescriptorsFirst'
    BY <1>7, <1>8, <1>9, Constants DEF DescriptorsFirst
  <1> QED
    BY <1>10, <1>11 DEF ReactorInv

LEMMA ReactorKept ==
    ASSUME TypeOK, ControlInv, ReactorInv, [Next]_vars
    PROVE  ReactorInv'
  <1>1. opQueue \in Seq(Entries) /\ <<>> \in Seq(Ops)
    BY DEF TypeOK
  <1>2. ASSUME opQueue' = opQueue, \A t \in Threads : cur'[t] = TaskOp <=> cur[t] = TaskOp
        PROVE  ReactorInv'
    <2>1. opQueue' = opQueue \o <<>>
      BY <1>1, <1>2
    <2> QED
      BY <1>1, <1>2, <2>1, ReactorFrame
  <1>3. ASSUME UNCHANGED <<opQueue, cur>>
        PROVE  ReactorInv'
    BY <1>2, <1>3
  <1>4. ASSUME NEW t \in Threads, RunStep(t)
        PROVE  ReactorInv'
    <2>1. CASE TakeTask(t) \/ TakeOp(t)
      BY <1>4, <2>1, ReactorPopped DEF TakeTask, TakeOp
    <2>2. CASE TaskCleanup(t)
      BY <1>4, <2>2, ReactorRequeued
    <2>3. CASE Flush(t)
      <3>1. /\ pc[t] = "flush" /\ privateQueue[t] \in Seq(Entries)
            /\ opQueue' = opQueue \o privateQueue[t] /\ cur' = cur
        BY <2>3 DEF Flush, TypeOK
      <3>2. \A i \in DOMAIN privateQueue[t] : privateQueue[t][i] \in Ops
        BY <1>4, <3>1 DEF ControlInv, PrivateHolds
      <3>3. privateQueue[t] \in Seq(Ops)
        BY <3>1, <3>2
      <3> QED
        BY <3>1, <3>3, ReactorFrame
    <2>4. CASE PerformIo(t) \/ HandlerReturns(t)
      <3>1. pc[t] = "handler" /\ opQueue' = opQueue
        BY <2>4 DEF PerformIo, HandlerReturns, queues
      <3>2. cur[t] # TaskOp
        BY <1>4, <3>1 DEF ControlInv, ThreadHolds
      <3>3. PICK e : cur' = [cur EXCEPT ![t] = e] /\ e # TaskOp
        <4>1. CASE HandlerReturns(t)
          BY <4>1, Constants DEF HandlerReturns
        <4>2. CASE PerformIo(t)
          <5>1. PICK d \in Descriptors : d = cur[t]
            BY <4>2 DEF PerformIo
          <5>2. PICK n \in 0 .. Len(pending[d]) :
                    cur' = [cur EXCEPT ![t] = IF n = 0 THEN NoOp ELSE pending[d][1]]
            BY <4>2, <5>1 DEF PerformIo
          <5>3. pending[d] \in Seq(Ops)
            BY DEF TypeOK
          <5>4. n \in Nat /\ (n > 0 => pending[d][1] \in Ops)
            BY <5>3, Split, LenProperties
          <5>5. (IF n = 0 THEN NoOp ELSE pending[d][1]) # TaskOp
            BY <5>4, Constants
          <5> QED
            BY <5>2, <5>5
        <4> QED
          BY <2>4, <4>1, <4>2
      <3>4. \A u \in Threads : cur'[u] = TaskOp <=> cur[u] = TaskOp
        BY <3>2, <3>3, Constants DEF TypeOK
      <3> QED
        BY <1>2, <3>1, <3>4
    <2>5. CASE Run(t) \/ RunReturns(t) \/ Idle(t) \/ Relock(t) \/ EpollWait(t)
      BY <1>3, <2>5 DEF Run, RunReturns, Idle, Relock, EpollWait, queues
    <2> QED
      BY <1>4, <2>1, <2>2, <2>3, <2>4, <2>5 DEF RunStep
  <1>5. ASSUME NEW t \in Callers, CallStep(t)
        PROVE  ReactorInv'
    <2>1. CASE Push(t)
      BY <2>1, ReactorFrame DEF Push, TypeOK
    <2>2. CASE Signal(t) \/ Stop(t)
      BY <1>3, <2>2 DEF Signal, Stop, queues
    <2> QED
      BY <1>5, <2>1, <2>2 DEF CallStep
  <1>6. ASSUME NEW t \in Callers, ProgramStep(t)
        PROVE  UNCHANGED <<opQueue, cur>>
    BY <1>6 DEF ProgramStep, Post, PostContinuation, StartOp, CancelOps
  <1>7. ASSUME ResetGuard \/ CallStop \/ (\E t \in Threads : SpuriousWakeup(t))
               \/ (\E d \in Descriptors : SocketEvent(d)) \/ UNCHANGED vars
        PROVE  UNCHANGED <<opQueue, cur>>
    BY <1>7 DEF ResetGuard, CallStop, SpuriousWakeup, SocketEvent, vars, queues
  <1> QED
    BY <1>3, <1>4, <1>5, <1>6, <1>7 DEF Next

-----------------------------------------------------------------------------
\* Only the thread that has the reactor is in epoll_wait.
LEMMA SoleTask ==
    ASSUME ControlInv, ReactorInv
    PROVE  /\ \A t, u \in Threads : pc[t] \in TaskSteps /\ pc[u] \in TaskSteps => t = u
           /\ \A i \in DOMAIN opQueue, t \in Threads :
                 opQueue[i] = TaskOp => pc[t] \notin TaskSteps
  <1>1. \A t \in Threads : pc[t] \in TaskSteps => cur[t] = TaskOp
    BY DEF ControlInv, ThreadHolds
  <1>2. /\ \A t, u \in Threads : cur[t] = TaskOp /\ cur[u] = TaskOp => t = u
        /\ \A i \in DOMAIN opQueue, t \in Threads : opQueue[i] = TaskOp => cur[t] # TaskOp
    BY DEF ReactorInv, OneTask
  <1> QED
    BY <1>1, <1>2

\* The steps a caller takes without looking at the queue, the event or epoll.
LEMMA QuietStep ==
    ASSUME TypeOK, WakeInv,
           UNCHANGED <<opQueue, stopped, taskInterrupted, signalled, interrupt>>,
           events \subseteq events',
           \A u \in Callers :
              \/ pc'[u] = pc[u]
              \/ pc[u] \in {"enter", "handler", "outside"} /\ pc'[u] \notin {"wait", "task_wait"}
    PROVE  WakeInv'
  <1>0. Threads \subseteq Callers
    BY Constants
  <1>1. \A u \in Threads : Asleep(u)' => Asleep(u)
    BY <1>0 DEF Asleep
  <1>2. \A u \in Threads : AwakeInRun(u) => AwakeInRun(u)'
    BY <1>0 DEF AwakeInRun, Awake
  <1>3. SignalDue => SignalDue'
    BY <1>0 DEF SignalDue
  <1>4. Locked => Locked'
    BY <1>0 DEF Locked
  <1>5. EventTells'
    BY <1>4 DEF WakeInv, EventTells
  <1>6. InterruptTells'
    BY <1>0 DEF WakeInv, InterruptTells
  <1>7. WakeupComing' /\ StopWakesAll' /\ (stopped => signalled)'
    BY <1>1, <1>2, <1>3 DEF WakeInv, WakeupComing, StopWakesAll
  <1> QED
    BY <1>5, <1>6, <1>7 DEF WakeInv

\* After wake_one_thread_and_unlock nobody sleeps, or somebody has been woken, or a
\* signal is due.
LEMMA WakeOne ==
    ASSUME TypeOK, WakeInv, NEW t \in Callers, NEW step, WakeOneThread(t, step),
           pc[t] # "task_wait", pc[t] # "wait", step \notin {"wait", "task_wait"},
           UNCHANGED <<stopped, events>>
    PROVE  WakeInv'
  <1>0. Threads \subseteq Callers /\ signalled'
    BY Constants DEF WakeOneThread
  <1>1. \A u \in Callers \ {t} : pc'[u] = pc[u]
    BY DEF WakeOneThread, Goto, TypeOK
  <1>2. pc'[t] \in {"signal", step}
    BY DEF WakeOneThread, Goto, TypeOK
  <1>3. EventTells' /\ (stopped => signalled)'
    BY <1>0 DEF EventTells
  <1>4. ASSUME NEW u \in Threads, pc'[u] = "task_wait"
        PROVE  pc[u] = "task_wait" /\ (InterruptTask => interrupt') /\ (interrupt => interrupt')
    <2>1. pc[u] = "task_wait"
      BY <1>0, <1>1, <1>2, <1>4
    <2>2. taskInterrupted => interrupt
      BY <2>1 DEF WakeInv, InterruptTells
    <2> QED
      BY <2>1, <2>2 DEF WakeOneThread, InterruptTask, TypeOK
  <1>5. InterruptTells'
    BY <1>4 DEF InterruptTells, WakeInv, WakeOneThread
  <1>6. \A u \in Threads : Asleep(u)' => Asleep(u)
    BY <1>0, <1>1, <1>2, <1>4 DEF Asleep
  <1>7. StopWakesAll'
    BY <1>6 DEF StopWakesAll, WakeInv
  <1>8. WakeupComing'
    <2>1. CASE Waiters(t) # {}
      <3>1. PICK u \in Threads \ {t} : pc[u] \in {"wait", "woken"}
        BY <2>1 DEF Waiters
      <3>2. pc'[u] = pc[u] /\ pc'[t] = "signal"
        BY <1>0, <1>1, <2>1, <3>1 DEF WakeOneThread, Goto, TypeOK
      <3>3. pc[u] = "wait" => SignalDue'
        BY <3>1, <3>2 DEF SignalDue
      <3>4. pc[u] = "woken" => AwakeInRun(u)'
        BY <3>1, <3>2 DEF AwakeInRun, Awake
      <3> QED
        BY <3>1, <3>3, <3>4 DEF WakeupComing
    <2>2. CASE Waiters(t) = {}
      <3>1. InterruptTask
        BY <2>2 DEF WakeOneThread
      <3>2. \A u \in Threads : pc'[u] # "wait"
        BY <1>0, <1>1, <1>2, <2>2 DEF Waiters
      <3>3. \A u \in Threads : ~Asleep(u)'
        BY <1>4, <3>1, <3>2 DEF Asleep
      <3> QED
        BY <3>3 DEF WakeupComing
    <2> QED
      BY <2>1, <2>2
  <1> QED
    BY <1>3, <1>5, <1>7, <1>8 DEF WakeInv

\* A thread that is on its way to the queue needs nobody else.
LEMMA OnItsWay ==
    ASSUME NEW t \in Threads,
           pc'[t] \in {"acquire", "loop", "woken", "flush", "task_poll", "task_done"}
    PROVE  WakeupComing'
  <1>1. AwakeInRun(t)'
    BY DEF AwakeInRun, Awake
  <1> QED
    BY <1>1 DEF WakeupComing

LEMMA RunStepWakes ==
    ASSUME TypeOK, ControlInv, ReactorInv, WakeInv, NEW t \in Threads, RunStep(t)
    PROVE  WakeInv'
  <1>0. t \in Callers /\ Threads \subseteq Callers
    BY Constants
  <1>1. CASE Run(t) \/ PerformIo(t) \/ HandlerReturns(t)
    <2>1. /\ UNCHANGED <<opQueue, stopped, taskInterrupted, signalled, interrupt, events>>
          /\ pc[t] \in {"enter", "handler"}
      BY <1>1 DEF Run, PerformIo, HandlerReturns, queues, kernel
    <2>2. \A u \in Callers \ {t} : pc'[u] = pc[u]
      BY <1>1 DEF Run, PerformIo, HandlerReturns, Goto, TypeOK
    <2>3. pc'[t] \notin {"wait", "task_wait"}
      BY <1>0, <1>1 DEF Run, PerformIo, HandlerReturns, AfterHandler, Goto, TypeOK
    <2> QED
      BY <2>1, <2>2, <2>3, QuietStep
  <1>2. CASE RunReturns(t)
    <2>1. /\ stopped /\ signalled
          /\ UNCHANGED <<opQueue, stopped, taskInterrupted, signalled, interrupt, events>>
      BY <1>2 DEF RunReturns, ControlInv, WakeInv, queues, kernel
    <2>2. pc' = [pc EXCEPT ![t] = "returned"]
      BY <1>2 DEF RunReturns, Goto
    <2>3. \A u \in Threads : pc'[u] \in {"wait", "task_wait"} => pc'[u] = pc[u]
      BY <1>0, <2>2 DEF TypeOK
    <2>4. StopWakesAll' /\ InterruptTells'
      BY <2>1, <2>3 DEF StopWakesAll, InterruptTells, WakeInv, Asleep
    <2> QED
      BY <2>1, <2>4 DEF WakeInv, EventTells, WakeupComing
  <1>3. CASE Idle(t)
    <2>1. /\ opQueue' = <<>> /\ ~stopped /\ pc[t] \in {"loop", "acquire"}
          /\ UNCHANGED <<opQueue, stopped, taskInterrupted, interrupt, events>>
      BY <1>3 DEF Idle, AtLoop, queues, kernel
    <2>2. \A u \in Threads : pc'[u] = "task_wait" => pc[u] = "task_wait"
      BY <1>0, <1>3 DEF Idle, Goto, TypeOK
    <2> QED
      BY <2>1, <2>2 DEF WakeInv, EventTells, WakeupComing, StopWakesAll, InterruptTells
  <1>4. CASE TakeTask(t)
    <2>1. /\ opQueue # <<>> /\ opQueue' = Tail(opQueue) /\ Head(opQueue) = TaskOp
          /\ ~stopped /\ stopped' = stopped
      BY <1>4 DEF TakeTask, Pop
    <2>2. opQueue[1] = TaskOp /\ 1 \in DOMAIN opQueue
      BY <2>1 DEF TypeOK
    <2>3. \A u \in Threads : pc[u] # "task_wait"
      BY <2>2, SoleTask DEF TaskSteps
    <2>4. opQueue' # <<>> => signalled' /\ taskInterrupted'
      BY <1>4, <2>1 DEF TakeTask
    <2>5. \A u \in Callers \ {t} : pc'[u] = pc[u]
      BY <1>4 DEF TakeTask, Goto, TypeOK
    <2>6. EventTells' /\ StopWakesAll' /\ (stopped => signalled)'
      BY <2>1, <2>4 DEF EventTells, StopWakesAll
    <2>7. CASE opQueue' = <<>>
      <3>1. ~taskInterrupted'
        BY <1>4, <2>1, <2>7 DEF TakeTask
      <3> QED
        BY <2>6, <2>7, <3>1 DEF WakeInv, InterruptTells, WakeupComing
    <2>8. CASE opQueue' # <<>> /\ Waiters(t) = {}
      <3>1. pc'[t] = "task_poll"
        BY <1>0, <1>4, <2>1, <2>8 DEF TakeTask, Goto, TypeOK
      <3>2. InterruptTells'
        BY <1>0, <2>3, <2>5, <3>1 DEF InterruptTells
      <3> QED
        BY <2>6, <3>1, <3>2, OnItsWay DEF WakeInv
    <2>9. CASE opQueue' # <<>> /\ Waiters(t) # {}
      <3>1. pc'[t] = "signal"
        BY <1>0, <1>4, <2>1, <2>9 DEF TakeTask, Goto, TypeOK
      <3>2. InterruptTells'
        BY <1>0, <2>3, <2>5, <3>1 DEF InterruptTells
      <3>3. PICK u \in Threads \ {t} : pc[u] \in {"wait", "woken"}
        BY <2>9 DEF Waiters
      <3>4. pc'[u] = pc[u]
        BY <1>0, <2>5, <3>3
      <3>5. pc[u] = "wait" => SignalDue'
        BY <1>0, <3>1, <3>3, <3>4 DEF SignalDue
      <3>6. WakeupComing'
        BY <3>3, <3>4, <3>5, OnItsWay DEF WakeupComing
      <3> QED
        BY <2>6, <3>2, <3>6 DEF WakeInv
    <2> QED
      BY <2>7, <2>8, <2>9
  <1>5. CASE TakeOp(t)
    <2>1. /\ opQueue' = Tail(opQueue) /\ pc[t] \in {"loop", "acquire"}
          /\ ~stopped /\ UNCHANGED <<stopped, events>>
      BY <1>5 DEF TakeOp, Pop, AtLoop
    <2>2. CASE opQueue' # <<>>
      <3>1. WakeOneThread(t, "handler")
        BY <1>5, <2>1, <2>2 DEF TakeOp
      <3> QED
        BY <1>0, <2>1, <3>1, WakeOne
    <2>3. CASE opQueue' = <<>>
      <3>1. pc' = [pc EXCEPT ![t] = "handler"] /\ UNCHANGED <<signalled, interrupt, taskInterrupted>>
        BY <1>5, <2>1, <2>3 DEF TakeOp, Goto
      <3>2. \A u \in Threads : pc'[u] = "task_wait" => pc[u] = "task_wait"
        BY <1>0, <3>1 DEF TypeOK
      <3> QED
        BY <2>1, <2>3, <3>1, <3>2 DEF WakeInv, EventTells, WakeupComing, StopWakesAll, InterruptTells
    <2> QED
      BY <2>2, <2>3
  <1>6. CASE Relock(t)
    <2>1. /\ UNCHANGED <<opQueue, stopped, taskInterrupted, signalled, interrupt, events>>
          /\ pc[t] = "woken" /\ ~Locked /\ pc' = [pc EXCEPT ![t] = IF signalled THEN "loop" ELSE "wait"]
      BY <1>6 DEF Relock, Goto, queues, kernel
    <2>2. opQueue # <<>> \/ stopped => signalled
      BY <2>1 DEF WakeInv, EventTells
    <2>3. \A u \in Threads \ {t} : pc'[u] = pc[u]
      BY <1>0, <2>1 DEF TypeOK
    <2>4. pc'[t] = IF signalled THEN "loop" ELSE "wait"
      BY <1>0, <2>1 DEF TypeOK
    <2>5. EventTells' /\ InterruptTells' /\ (stopped => signalled)'
      BY <2>1, <2>2, <2>3, <2>4 DEF WakeInv, EventTells, InterruptTells
    <2>6. StopWakesAll'
      BY <2>1, <2>2, <2>3, <2>4 DEF WakeInv, StopWakesAll, Asleep
    <2>7. signalled => WakeupComing'
      BY <2>4, OnItsWay
    <2>8. ~signalled => opQueue' = <<>>
      BY <2>1, <2>2
    <2> QED
      BY <2>5, <2>6, <2>7, <2>8 DEF WakeInv, WakeupComing
  <1>7. CASE EpollWait(t)
    <2>1. /\ UNCHANGED <<opQueue, stopped, taskInterrupted, signalled>>
          /\ pc[t] \in {"task_poll", "task_wait"} /\ pc' = [pc EXCEPT ![t] = "task_done"]
      BY <1>7 DEF EpollWait, Goto
    <2>2. pc'[t] = "task_done" /\ \A u \in Threads \ {t} : pc'[u] = pc[u]
      BY <1>0, <2>1 DEF TypeOK
    <2>3. \A u \in Threads : pc'[u] # "task_wait"
      BY <2>1, <2>2, SoleTask DEF TaskSteps
    <2>4. Locked => Locked'
      BY <2>1, <2>2 DEF Locked
    <2>5. EventTells' /\ InterruptTells' /\ (stopped => signalled)'
      BY <2>1, <2>3, <2>4 DEF WakeInv, EventTells, InterruptTells
    <2>6. StopWakesAll'
      BY <2>1, <2>2, <2>3 DEF WakeInv, StopWakesAll, Asleep
    <2> QED
      BY <2>2, <2>5, <2>6, OnItsWay DEF WakeInv
  <1>8. CASE TaskCleanup(t) \/ Flush(t)
    <2>1. UNCHANGED <<stopped, signalled, interrupt, events>> /\ pc' = [pc EXCEPT ![t] = "loop"]
      BY <1>8 DEF TaskCleanup, Flush, Goto, kernel
    <2>2. pc'[t] = "loop" /\ \A u \in Threads \ {t} : pc'[u] = pc[u]
      BY <1>0, <2>1 DEF TypeOK
    <2>3. Locked'
      BY <2>2 DEF Locked
    <2>4. InterruptTells'
      <3>1. CASE TaskCleanup(t)
        <4>1. \A u \in Threads : pc'[u] # "task_wait"
          BY <2>2, <3>1, SoleTask DEF TaskSteps, TaskCleanup
        <4> QED
          BY <4>1 DEF InterruptTells
      <3>2. CASE Flush(t)
        BY <2>1, <2>2, <3>2 DEF InterruptTells, Flush, WakeInv
      <3> QED
        BY <1>8, <3>1, <3>2
    <2>5. StopWakesAll'
      BY <2>1, <2>2 DEF WakeInv, StopWakesAll, Asleep
    <2> QED
      BY <2>1, <2>2, <2>3, <2>4, <2>5, OnItsWay DEF WakeInv, EventTells
  <1> QED
    BY <1>1, <1>2, <1>3, <1>4, <1>5, <1>6, <1>7, <1>8 DEF RunStep

LEMMA CallStepWakes ==
    ASSUME TypeOK, ControlInv, ReactorInv, WakeInv, NEW t \in Callers, CallStep(t)
    PROVE  WakeInv'
  <1>0. Threads \subseteq Callers
    BY Constants
  <1>1. CASE Signal(t)
    <2>1. /\ UNCHANGED <<opQueue, stopped, taskInterrupted, signalled, interrupt, events>>
          /\ pc[t] = "signal"
      BY <1>1 DEF Signal, queues, kernel
    <2>2. \A u \in Threads : \/ u = t /\ pc'[u] \in {"outside", "task_poll", "handler"}
                             \/ pc'[u] = pc[u]
                             \/ pc[u] = "wait" /\ pc'[u] = "woken"
      BY <1>0, <1>1, <2>1, ResumeStep DEF Signal, Goto, TypeOK
    <2>3. Locked => Locked'
      BY <2>1, <2>2 DEF Locked
    <2>4. EventTells' /\ InterruptTells' /\ (stopped => signalled)'
      BY <2>1, <2>2, <2>3 DEF WakeInv, EventTells, InterruptTells
    <2>5. \A u \in Threads : Asleep(u)' => Asleep(u)
      BY <2>1, <2>2 DEF Asleep
    <2>6. StopWakesAll'
      BY <2>1, <2>5 DEF WakeInv, StopWakesAll
    <2>7. WakeupComing'
      <3>1. CASE \E u \in Threads : pc[u] = "wait"
        <4>1. PICK u \in Threads : pc[u] = "wait" /\ pc' = [pc EXCEPT ![t] = Resume(t), ![u] = "woken"]
          BY <1>1, <3>1 DEF Signal
        <4>2. pc'[u] = "woken"
          BY <1>0, <4>1 DEF TypeOK
        <4> QED
          BY <4>2, OnItsWay
      <3>2. CASE ~\E u \in Threads : pc[u] = "wait"
        <4>1. ~SignalDue
          BY <3>2 DEF SignalDue
        <4>2. \A u \in Threads : AwakeInRun(u) => AwakeInRun(u)'
          BY <2>1, <2>2, <3>2 DEF AwakeInRun, Awake
        <4> QED
          BY <2>1, <2>5, <4>1, <4>2 DEF WakeInv, WakeupComing
      <3> QED
        BY <3>1, <3>2
    <2> QED
      BY <2>4, <2>6, <2>7 DEF WakeInv
  <1>2. CASE Push(t)
    BY <1>2, ResumeStep, WakeOne DEF Push
  <1>3. CASE Stop(t)
    <2>1. pc[t] \in {"stop", "stop_enter"} /\ stopped' /\ signalled' /\ events' = events
      BY <1>3 DEF Stop
    <2>2. PICK step \in {"outside", "acquire", "flush", "leave"} : WakeAllThreads(t, step)
      BY <1>3 DEF Stop, AfterHandler
    <2>3. \A u \in Threads : pc'[u] # "wait" /\ (pc'[u] = "task_wait" => pc[u] = "task_wait")
      BY <1>0, <2>2 DEF WakeAllThreads
    <2>4. \A u \in Threads : pc'[u] = "task_wait" => interrupt'
      BY <2>2, <2>3 DEF WakeAllThreads, InterruptTask, WakeInv, InterruptTells, TypeOK
    <2>5. \A u \in Threads : ~Asleep(u)'
      BY <2>3, <2>4 DEF Asleep
    <2>6. InterruptTells'
      BY <2>4 DEF InterruptTells
    <2> QED
      BY <2>1, <2>5, <2>6 DEF WakeInv, EventTells, StopWakesAll, WakeupComing
  <1> QED
    BY <1>1, <1>2, <1>3 DEF CallStep

LEMMA WakeKept ==
    ASSUME TypeOK, ControlInv, ReactorInv, WakeInv, [Next]_vars
    PROVE  WakeInv'
  <1>1. ASSUME NEW t \in Threads, SpuriousWakeup(t)
        PROVE  WakeInv'
    <2>1. /\ UNCHANGED <<opQueue, stopped, taskInterrupted, signalled, interrupt, events>>
          /\ pc[t] = "wait" /\ pc' = [pc EXCEPT ![t] = "woken"]
      BY <1>1 DEF SpuriousWakeup, Goto, queues, kernel
    <2>2. pc'[t] = "woken" /\ \A u \in Threads \ {t} : pc'[u] = pc[u]
      BY <2>1, Constants DEF TypeOK
    <2>3. Locked => Locked'
      BY <2>1, <2>2 DEF Locked
    <2>4. EventTells' /\ InterruptTells' /\ (stopped => signalled)'
      BY <2>1, <2>2, <2>3 DEF WakeInv, EventTells, InterruptTells
    <2>5. StopWakesAll'
      BY <2>1, <2>2 DEF WakeInv, StopWakesAll, Asleep
    <2> QED
      BY <2>2, <2>4, <2>5, OnItsWay DEF WakeInv
  <1>2. ASSUME NEW t \in Callers, ProgramStep(t) \/ (t = Main /\ (ResetGuard \/ CallStop))
        PROVE  WakeInv'
    <2>1. /\ UNCHANGED <<opQueue, stopped, taskInterrupted, signalled, interrupt, events>>
          /\ pc[t] \in {"handler", "outside"}
      BY <1>2 DEF ProgramStep, Post, PostContinuation, StartOp, CancelOps, InProgram, ResetGuard,
                  CallStop, queues, kernel
    <2>2. \A u \in Callers \ {t} : pc'[u] = pc[u]
      BY <1>2 DEF ProgramStep, Post, PostContinuation, StartOp, CancelOps, ResetGuard,
                  CallStop, Goto, TypeOK
    <2>3. pc'[t] \notin {"wait", "task_wait"}
      BY <1>2, <2>1 DEF ProgramStep, Post, PostContinuation, StartOp, CancelOps, ResetGuard,
                        CallStop, Goto, TypeOK
    <2> QED
      BY <2>1, <2>2, <2>3, QuietStep
  <1>3. ASSUME NEW d \in Descriptors, SocketEvent(d)
        PROVE  WakeInv'
    BY <1>3, QuietStep DEF SocketEvent, queues
  <1>4. CASE UNCHANGED vars
    BY <1>4, QuietStep DEF vars, queues, kernel
  <1> QED
    BY <1>1, <1>2, <1>3, <1>4, StepCases, RunStepWakes, CallStepWakes DEF StepOf

-----------------------------------------------------------------------------
\* Operations that stay or move from one place to another are in one place.
LEMMA PlacesAfter ==
    ASSUME OnePlace, NEW op \in Ops,
           Stays(op) \/ \E k, x, l, y : Goes(op, k, x, l, y)
    PROVE  \A k, x, l, y : In(op, k, x)' /\ In(op, l, y)' => k = l /\ x = y
  <1>1. \A k, x, l, y : In(op, k, x) /\ In(op, l, y) => k = l /\ x = y
    BY DEF OnePlace
  <1>2. CASE Stays(op)
    BY <1>1, <1>2 DEF Stays
  <1>3. ASSUME NEW a, NEW b, NEW c, NEW d, Goes(op, a, b, c, d)
        PROVE  \A k, x, l, y : In(op, k, x)' /\ In(op, l, y)' => k = l /\ x = y
    <2>1. ASSUME NEW m, NEW z, In(op, m, z)'
          PROVE  m = c /\ z = d
      BY <1>1, <1>3, <2>1 DEF Goes
    <2> QED
      BY <2>1
  <1> QED
    BY <1>2, <1>3

\* Two sequences of different places have no operation in common.
LEMMA PlacesApart ==
    ASSUME OnePlace, NEW op \in Ops, NEW k, NEW x, NEW l, NEW y,
           In(op, k, x), k # l \/ x # y
    PROVE  ~In(op, l, y)
  BY DEF OnePlace

LEMMA PlacesOfRunSteps ==
    ASSUME TypeOK, ControlInv, OnePlace, NEW t \in Threads, RunStep(t)
    PROVE  OnePlace'
  <1>0. /\ t \in Callers /\ opQueue \in Seq(Entries) /\ privateQueue[t] \in Seq(Entries)
        /\ NoRepeat(opQueue) /\ NoRepeat(privateQueue[t])
        /\ \A u \in Threads : NoRepeat(privateQueue[u])
        /\ \A u \in Callers : NoRepeat(out[u])
        /\ \A d \in Descriptors : NoRepeat(pending[d])
    BY Constants DEF TypeOK, OnePlace
  <1>1. SUFFICES /\ \A op \in Ops : Stays(op) \/ \E k, x, l, y : Goes(op, k, x, l, y)
                 /\ NoRepeat(opQueue')
                 /\ \A u \in Threads : NoRepeat(privateQueue'[u])
                 /\ \A u \in Callers : NoRepeat(out'[u])
                 /\ \A d \in Descriptors : NoRepeat(pending'[d])
    <2>1. \A op \in Ops : \A k, x, l, y : In(op, k, x)' /\ In(op, l, y)' => k = l /\ x = y
      BY <1>1, PlacesAfter
    <2> QED
      BY <1>1, <2>1 DEF OnePlace, NoRepeat
  <1>2. CASE Run(t) \/ RunReturns(t) \/ Idle(t) \/ Relock(t)
    <2>1. UNCHANGED <<queues, cur>>
      BY <1>2 DEF Run, RunReturns, Idle, Relock
    <2>2. \A op \in Ops : Stays(op)
      BY <2>1 DEF Stays, In, queues
    <2> QED
      BY <1>0, <2>1, <2>2 DEF queues
  <1>3. CASE TakeTask(t) \/ TakeOp(t)
    <2>1. Pop(t)
      BY <1>3 DEF TakeTask, TakeOp
    <2>2. /\ opQueue # <<>> /\ opQueue' = Tail(opQueue) /\ UNCHANGED <<privateQueue, out, pending, fresh>>
          /\ Elements(opQueue) = {opQueue[1]} \cup Elements(opQueue')
          /\ cur' = [cur EXCEPT ![t] = opQueue[1]]
      BY <2>1, Popped DEF Pop
    <2>3. NoRepeat(opQueue') /\ (opQueue[1] \in Ops => opQueue[1] \notin Elements(opQueue'))
      BY <1>0, <2>2, NoRepeats
    <2>4. ASSUME NEW op \in Ops, op # opQueue[1]
          PROVE  Stays(op)
      BY <1>0, <2>2, <2>4, Constants DEF Stays, In, TypeOK
    <2>5. ASSUME NEW op \in Ops, op = opQueue[1]
          PROVE  Goes(op, "queue", NoOp, "running", t)
      <3>1. In(op, "queue", NoOp) /\ ~In(op, "queue", NoOp)'
        BY <2>2, <2>3, <2>5 DEF In
      <3>2. ASSUME NEW m, NEW z, In(op, m, z)'
            PROVE  (m = "running" /\ z = t) \/ (In(op, m, z) /\ ~(m = "queue" /\ z = NoOp))
        BY <1>0, <2>2, <2>3, <2>5, <3>2, Constants DEF In, TypeOK
      <3> QED
        BY <3>1, <3>2 DEF Goes
    <2> QED
      BY <1>0, <2>2, <2>3, <2>4, <2>5
  <1>4. CASE EpollWait(t)
    <2>1. PICK s \in SetToSeqs(events) : privateQueue' = [privateQueue EXCEPT ![t] = @ \o s]
      BY <1>4 DEF EpollWait
    <2>2. s \in Seq(Entries) /\ Elements(s) \cap Ops = {} /\ UNCHANGED <<opQueue, out, pending, fresh, cur>>
      BY <1>4, Reported, Constants DEF EpollWait
    <2>3. Elements(privateQueue[t] \o s) = Elements(privateQueue[t]) \cup Elements(s)
      BY <1>0, <2>2, ElementsOf
    <2>4. NoRepeat(s)
      BY <2>2 DEF NoRepeat, Elements
    <2>5. NoRepeat(privateQueue[t] \o s)
      BY <1>0, <2>2, <2>4, NoRepeats
    <2>6. /\ privateQueue'[t] = privateQueue[t] \o s
          /\ \A u \in Threads \ {t} : privateQueue'[u] = privateQueue[u]
      BY <2>1 DEF TypeOK
    <2>7. \A op \in Ops, u \in Threads :
              op \in Elements(privateQueue'[u]) => op \in Elements(privateQueue[u])
      BY <2>2, <2>3, <2>6
    <2>8. \A op \in Ops : Stays(op)
      BY <2>2, <2>7 DEF Stays, In
    <2> QED
      BY <1>0, <2>2, <2>5, <2>6, <2>8
  <1>5. CASE TaskCleanup(t)
    <2>1. /\ UNCHANGED <<out, pending, fresh>> /\ pc[t] = "task_done"
          /\ opQueue' = opQueue \o (privateQueue[t] \o <<TaskOp>>)
          /\ cur' = [cur EXCEPT ![t] = NoOp]
          /\ privateQueue'[t] = <<>> /\ \A u \in Threads \ {t} : privateQueue'[u] = privateQueue[u]
      BY <1>5 DEF TaskCleanup, Requeue, TypeOK
    <2>2. PICK q : q = privateQueue[t] \o <<TaskOp>>
      OBVIOUS
    <2>3. <<TaskOp>> \in Seq(Entries) /\ q \in Seq(Entries)
      BY <1>0, <2>2, Constants
    <2>4. Elements(q) = Elements(privateQueue[t]) \cup {TaskOp}
      <3>0. PICK r \in Seq(Entries) : r = <<TaskOp>>
        BY <2>3
      <3>1. Elements(r) = {TaskOp}
        BY <3>0, ElementsOf
      <3>2. Elements(privateQueue[t] \o r) = Elements(privateQueue[t]) \cup Elements(r)
        BY <1>0, ElementsOf
      <3>3. q = privateQueue[t] \o r
        BY <2>2, <3>0
      <3> QED
        BY <3>1, <3>2, <3>3
    <2>5. Elements(privateQueue[t]) \subseteq Descriptors
      BY <2>1 DEF ControlInv, PrivateHolds, Elements
    <2>6. Elements(q) \cap Ops = {}
      BY <2>4, <2>5, Constants
    <2>7. NoRepeat(q)
      BY <2>6 DEF NoRepeat, Elements
    <2>8. NoRepeat(opQueue') /\ NoRepeat(privateQueue'[t])
      BY <1>0, <2>1, <2>2, <2>3, <2>6, <2>7, NoRepeats
    <2>9. Elements(opQueue') = Elements(opQueue) \cup Elements(q) /\ Elements(privateQueue'[t]) = {}
      <3>1. opQueue' = opQueue \o q
        BY <2>1, <2>2
      <3>2. Elements(opQueue \o q) = Elements(opQueue) \cup Elements(q) /\ Elements(<<>>) = {}
        BY <1>0, <2>3, ElementsOf
      <3> QED
        BY <2>1, <3>1, <3>2
    <2>10. \A op \in Ops, u \in Threads :
              /\ op \in Elements(privateQueue'[u]) => op \in Elements(privateQueue[u])
              /\ op = cur'[u] => op = cur[u]
      BY <1>0, <2>1, <2>9, Constants DEF TypeOK
    <2>11. \A op \in Ops : Stays(op)
      BY <2>1, <2>6, <2>9, <2>10 DEF Stays, In
    <2> QED
      BY <1>0, <2>1, <2>8, <2>11
  <1>6. CASE Flush(t)
    <2>1. /\ UNCHANGED <<out, pending, fresh, cur>>
          /\ opQueue' = opQueue \o privateQueue[t]
          /\ privateQueue'[t] = <<>> /\ \A u \in Threads \ {t} : privateQueue'[u] = privateQueue[u]
      BY <1>6 DEF Flush, TypeOK
    <2>2. Elements(opQueue') = Elements(opQueue) \cup Elements(privateQueue[t]) /\ Elements(privateQueue'[t]) = {}
      BY <1>0, <2>1, ElementsOf
    <2>3. ASSUME NEW op \in Ops, op \in Elements(opQueue), op \in Elements(privateQueue[t])
          PROVE  FALSE
      BY <2>3, PlacesApart DEF In
    <2>4. NoRepeat(opQueue') /\ NoRepeat(privateQueue'[t])
      BY <1>0, <2>1, <2>3, NoRepeats
    <2>5. ASSUME NEW op \in Ops, op \notin Elements(privateQueue[t])
          PROVE  Stays(op)
      BY <2>1, <2>2, <2>5 DEF Stays, In
    <2>6. ASSUME NEW op \in Ops, op \in Elements(privateQueue[t])
          PROVE  Goes(op, "private", t, "queue", NoOp)
      <3>1. In(op, "private", t)
        BY <2>6 DEF In
      <3>2. ASSUME NEW m, NEW z, In(op, m, z)'
            PROVE  (m = "queue" /\ z = NoOp) \/ (In(op, m, z) /\ ~(m = "private" /\ z = t))
        BY <2>1, <2>2, <2>6, <3>2 DEF In
      <3> QED
        BY <3>1, <3>2 DEF Goes
    <2> QED
      BY <1>0, <2>1, <2>4, <2>5, <2>6
  <1>7. CASE HandlerReturns(t)
    <2>1. UNCHANGED queues /\ cur' = [cur EXCEPT ![t] = NoOp]
      BY <1>7 DEF HandlerReturns
    <2>2. \A op \in Ops : Stays(op)
      BY <1>0, <2>1, Constants DEF Stays, In, queues, TypeOK
    <2> QED
      BY <1>0, <2>1, <2>2 DEF queues
  <1>8. CASE PerformIo(t)
    <2>. PICK d : d = cur[t]
      OBVIOUS
    <2>1. /\ d \in Descriptors /\ pending[d] \in Seq(Ops) /\ NoRepeat(pending[d])
          /\ UNCHANGED <<opQueue, privateQueue, fresh>> /\ pc[t] = "handler"
      BY <1>0, <1>8 DEF PerformIo, TypeOK
    <2>2. PICK n \in 0 .. Len(pending[d]) :
            /\ pending' = [pending EXCEPT ![d] = SubSeq(@, n + 1, Len(@))]
            /\ cur' = [cur EXCEPT ![t] = IF n = 0 THEN NoOp ELSE pending[d][1]]
            /\ out' = [out EXCEPT ![t] = SubSeq(pending[d], 2, n)]
      BY <1>8 DEF PerformIo
    <2>3. PICK a, b : a = SubSeq(pending[d], 2, n) /\ b = SubSeq(pending[d], n + 1, Len(pending[d]))
      OBVIOUS
    <2>4. /\ NoRepeat(a) /\ NoRepeat(b)
          /\ n = 0 => a = <<>> /\ b = pending[d]
          /\ n > 0 => /\ pending[d][1] \in Ops
                      /\ Elements(pending[d]) = {pending[d][1]} \cup Elements(a) \cup Elements(b)
                      /\ pending[d][1] \notin Elements(a) \cup Elements(b)
                      /\ Elements(a) \cap Elements(b) = {}
      <3>1. PICK s \in Seq(Ops) : s = pending[d]
        BY <2>1
      <3>2. Parts(s, n, a, b)
        BY <2>3, <3>1 DEF Parts
      <3>3. /\ a \in Seq(Ops)
            /\ n = 0 => a = <<>> /\ b = s
            /\ n # 0 => s[1] \in Ops /\ Elements(s) = {s[1]} \cup Elements(a) \cup Elements(b)
            /\ NoRepeat(s) => NoRepeat(a) /\ NoRepeat(b)
            /\ NoRepeat(s) /\ n # 0 => /\ s[1] \notin Elements(a) \cup Elements(b)
                                      /\ Elements(a) \cap Elements(b) = {}
        BY <3>2, Performed
      <3> QED
        BY <2>1, <3>1, <3>3
    <2>5. /\ pending'[d] = b /\ \A e \in Descriptors \ {d} : pending'[e] = pending[e]
          /\ out'[t] = a /\ \A u \in Callers \ {t} : out'[u] = out[u]
          /\ \A u \in Threads \ {t} : cur'[u] = cur[u]
          /\ cur'[t] = IF n = 0 THEN NoOp ELSE pending[d][1]
      BY <1>0, <2>1, <2>2, <2>3, Constants DEF TypeOK
    <2>6. n \in Nat /\ Elements(<<>>) = {}
      BY <2>1, LenProperties DEF Elements
    <2>7. ASSUME n = 0
          PROVE  \A op \in Ops : Stays(op)
      <3>1. Elements(a) = {} /\ b = pending[d] /\ cur'[t] \notin Ops
        BY <2>4, <2>5, <2>6, <2>7, Constants
      <3>2. \A e \in Descriptors : pending'[e] = pending[e]
        BY <2>5, <3>1
      <3> QED
        BY <2>1, <2>5, <3>1, <3>2 DEF Stays, In
    <2>8. ASSUME n > 0, NEW op \in Ops
          PROVE  Stays(op) \/ \E k, x, l, y : Goes(op, k, x, l, y)
      <3>0. /\ cur'[t] = pending[d][1]
            /\ Elements(pending[d]) = {pending[d][1]} \cup Elements(a) \cup Elements(b)
            /\ pending[d][1] \notin Elements(a) \cup Elements(b)
            /\ Elements(a) \cap Elements(b) = {}
        BY <2>4, <2>5, <2>6, <2>8
      <3>1. CASE op \notin {pending[d][1]} \cup Elements(a)
        <4>1. Stays(op)
          BY <2>1, <2>5, <3>0, <3>1 DEF Stays, In
        <4> QED
          BY <4>1
      <3>2. CASE op = pending[d][1]
        <4>1. In(op, "waiting", d)
          BY <2>1, <3>0, <3>2 DEF In
        <4>2. ASSUME NEW m, NEW z, In(op, m, z)'
              PROVE  (m = "running" /\ z = t) \/ (In(op, m, z) /\ ~(m = "waiting" /\ z = d))
          BY <2>1, <2>5, <3>0, <3>2, <4>2 DEF In
        <4>3. Goes(op, "waiting", d, "running", t)
          BY <4>1, <4>2 DEF Goes
        <4> QED
          BY <4>3
      <3>3. CASE op \in Elements(a)
        <4>1. In(op, "waiting", d)
          BY <2>1, <3>0, <3>3 DEF In
        <4>2. ASSUME NEW m, NEW z, In(op, m, z)'
              PROVE  (m = "out" /\ z = t) \/ (In(op, m, z) /\ ~(m = "waiting" /\ z = d))
          BY <2>1, <2>5, <3>0, <3>3, <4>2 DEF In
        <4>3. Goes(op, "waiting", d, "out", t)
          BY <4>1, <4>2 DEF Goes
        <4> QED
          BY <4>3
      <3> QED
        BY <3>1, <3>2, <3>3
    <2>9. n = 0 \/ n > 0
      BY <2>6
    <2> QED
      BY <1>0, <2>1, <2>4, <2>5, <2>7, <2>8, <2>9
  <1> QED
    BY <1>2, <1>3, <1>4, <1>5, <1>6, <1>7, <1>8 DEF RunStep

LEMMA PlacesOfPush ==
    ASSUME TypeOK, OnePlace, NEW t \in Callers, Push(t)
    PROVE  OnePlace'
  <1>1. /\ UNCHANGED <<privateQueue, pending, fresh, cur>>
        /\ opQueue' = opQueue \o out[t]
        /\ out'[t] = <<>> /\ \A u \in Callers \ {t} : out'[u] = out[u]
    BY DEF Push, TypeOK
  <1>2. /\ opQueue \in Seq(Entries) /\ out[t] \in Seq(Entries)
        /\ NoRepeat(opQueue) /\ NoRepeat(out[t])
    BY Constants DEF TypeOK, OnePlace
  <1>3. Elements(opQueue') = Elements(opQueue) \cup Elements(out[t]) /\ Elements(out'[t]) = {}
    BY <1>1, <1>2, ElementsOf
  <1>4. ASSUME NEW op \in Ops, op \in Elements(opQueue), op \in Elements(out[t])
        PROVE  FALSE
    BY <1>4, PlacesApart DEF In
  <1>5. NoRepeat(opQueue') /\ NoRepeat(out'[t])
    BY <1>1, <1>2, <1>4, NoRepeats
  <1>6. ASSUME NEW op \in Ops, op \notin Elements(out[t])
        PROVE  Stays(op)
    BY <1>1, <1>3, <1>6 DEF Stays, In
  <1>7. ASSUME NEW op \in Ops, op \in Elements(out[t])
        PROVE  Goes(op, "out", t, "queue", NoOp)
    <2>1. In(op, "out", t)
      BY <1>7 DEF In
    <2>2. ASSUME NEW m, NEW z, In(op, m, z)'
          PROVE  (m = "queue" /\ z = NoOp) \/ (In(op, m, z) /\ ~(m = "out" /\ z = t))
      BY <1>1, <1>3, <1>7, <2>2 DEF In
    <2> QED
      BY <2>1, <2>2 DEF Goes
  <1>8. \A op \in Ops : \A k, x, l, y : In(op, k, x)' /\ In(op, l, y)' => k = l /\ x = y
    BY <1>6, <1>7, PlacesAfter
  <1> QED
    BY <1>1, <1>5, <1>8 DEF OnePlace, NoRepeat

LEMMA PlacesOfProgramSteps ==
    ASSUME TypeOK, ControlInv, OnePlace, NEW t \in Callers, ProgramStep(t)
    PROVE  OnePlace'
  <1>0. /\ NoRepeat(opQueue)
        /\ \A u \in Threads : NoRepeat(privateQueue[u])
        /\ \A u \in Callers : NoRepeat(out[u])
        /\ \A d \in Descriptors : NoRepeat(pending[d])
    BY DEF OnePlace
  <1>. DEFINE Placed ==
                /\ \A op \in Ops : Stays(op) \/ \E k, x, l, y : Goes(op, k, x, l, y)
                /\ NoRepeat(opQueue')
                /\ \A u \in Threads : NoRepeat(privateQueue'[u])
                /\ \A u \in Callers : NoRepeat(out'[u])
                /\ \A d \in Descriptors : NoRepeat(pending'[d])
  <1>1. SUFFICES Placed
    <2>1. \A op \in Ops : \A k, x, l, y : In(op, k, x)' /\ In(op, l, y)' => k = l /\ x = y
      BY <1>1, PlacesAfter
    <2> QED
      BY <1>1, <2>1 DEF OnePlace, NoRepeat
  <1>2. ASSUME NEW op \in Ops, Post(t, op)
        PROVE  Placed
    <2>1. /\ UNCHANGED <<opQueue, privateQueue, pending, cur>> /\ fresh' = fresh \ {op} /\ op \in fresh
          /\ out'[t] = <<op>> /\ \A u \in Callers \ {t} : out'[u] = out[u]
      BY <1>2 DEF Post, TypeOK
    <2>2. Elements(out'[t]) = {op} /\ NoRepeat(out'[t])
      BY <2>1 DEF Elements, NoRepeat
    <2>3. ASSUME NEW o \in Ops, o # op
          PROVE  Stays(o)
      BY <2>1, <2>2, <2>3 DEF Stays, In
    <2>4. Goes(op, "fresh", NoOp, "out", t)
      <3>1. In(op, "fresh", NoOp)
        BY <2>1 DEF In
      <3>2. ASSUME NEW m, NEW z, In(op, m, z)'
            PROVE  (m = "out" /\ z = t) \/ (In(op, m, z) /\ ~(m = "fresh" /\ z = NoOp))
        BY <2>1, <2>2, <3>2 DEF In
      <3> QED
        BY <3>1, <3>2 DEF Goes
    <2> QED
      BY <1>0, <2>1, <2>2, <2>3, <2>4
  <1>3. ASSUME NEW op \in Ops, t # Main, PostContinuation(t, op)
        PROVE  Placed
    <2>1. /\ UNCHANGED <<opQueue, out, pending, cur>> /\ fresh' = fresh \ {op} /\ op \in fresh
          /\ t \in Threads /\ privateQueue[t] \in Seq(Entries) /\ op \in Entries
          /\ privateQueue'[t] = Append(privateQueue[t], op)
          /\ \A u \in Threads \ {t} : privateQueue'[u] = privateQueue[u]
      BY <1>3, Constants DEF PostContinuation, TypeOK
    <2>2. op \notin Elements(privateQueue[t])
      BY <2>1, PlacesApart DEF In
    <2>3. Elements(privateQueue'[t]) = Elements(privateQueue[t]) \cup {op}
      BY <2>1, ElementsOf
    <2>4. NoRepeat(privateQueue'[t])
      BY <1>0, <2>1, <2>2, NoRepeats
    <2>5. ASSUME NEW o \in Ops, o # op
          PROVE  Stays(o)
      BY <2>1, <2>3, <2>5 DEF Stays, In
    <2>6. Goes(op, "fresh", NoOp, "private", t)
      <3>1. In(op, "fresh", NoOp)
        BY <2>1 DEF In
      <3>2. ASSUME NEW m, NEW z, In(op, m, z)'
            PROVE  (m = "private" /\ z = t) \/ (In(op, m, z) /\ ~(m = "fresh" /\ z = NoOp))
        BY <2>1, <3>2 DEF In
      <3> QED
        BY <3>1, <3>2 DEF Goes
    <2> QED
      BY <1>0, <2>1, <2>4, <2>5, <2>6
  <1>4. ASSUME NEW op \in Ops, NEW d \in Descriptors, StartOp(t, op, d)
        PROVE  Placed
    <2>1. /\ UNCHANGED <<opQueue, out, privateQueue, cur>> /\ fresh' = fresh \ {op} /\ op \in fresh
          /\ pending[d] \in Seq(Ops) /\ pending'[d] = Append(pending[d], op)
          /\ \A e \in Descriptors \ {d} : pending'[e] = pending[e]
      BY <1>4 DEF StartOp, TypeOK
    <2>2. op \notin Elements(pending[d])
      BY <2>1, PlacesApart DEF In
    <2>3. Elements(pending'[d]) = Elements(pending[d]) \cup {op}
      BY <2>1, ElementsOf
    <2>4. NoRepeat(pending'[d])
      BY <1>0, <2>1, <2>2, NoRepeats
    <2>5. ASSUME NEW o \in Ops, o # op
          PROVE  Stays(o)
      BY <2>1, <2>3, <2>5 DEF Stays, In
    <2>6. Goes(op, "fresh", NoOp, "waiting", d)
      <3>1. In(op, "fresh", NoOp)
        BY <2>1 DEF In
      <3>2. ASSUME NEW m, NEW z, In(op, m, z)'
            PROVE  (m = "waiting" /\ z = d) \/ (In(op, m, z) /\ ~(m = "fresh" /\ z = NoOp))
        BY <2>1, <3>2 DEF In
      <3> QED
        BY <3>1, <3>2 DEF Goes
    <2> QED
      BY <1>0, <2>1, <2>4, <2>5, <2>6
  <1>5. ASSUME NEW d \in Descriptors, CancelOps(t, d)
        PROVE  Placed
    <2>1. /\ UNCHANGED <<opQueue, privateQueue, fresh, cur>>
          /\ out'[t] = pending[d] /\ \A u \in Callers \ {t} : out'[u] = out[u]
          /\ pending'[d] = <<>> /\ \A e \in Descriptors \ {d} : pending'[e] = pending[e]
      BY <1>5 DEF CancelOps, TypeOK
    <2>2. Elements(pending'[d]) = {} /\ NoRepeat(pending'[d])
      BY <2>1 DEF Elements, NoRepeat
    <2>3. ASSUME NEW o \in Ops, o \notin Elements(pending[d])
          PROVE  Stays(o)
      BY <2>1, <2>2, <2>3 DEF Stays, In
    <2>4. ASSUME NEW o \in Ops, o \in Elements(pending[d])
          PROVE  Goes(o, "waiting", d, "out", t)
      <3>1. In(o, "waiting", d)
        BY <2>4 DEF In
      <3>2. ASSUME NEW m, NEW z, In(o, m, z)'
            PROVE  (m = "out" /\ z = t) \/ (In(o, m, z) /\ ~(m = "waiting" /\ z = d))
        BY <2>1, <2>2, <3>2 DEF In
      <3> QED
        BY <3>1, <3>2 DEF Goes
    <2> QED
      BY <1>0, <2>1, <2>2, <2>3, <2>4
  <1> QED
    BY <1>2, <1>3, <1>4, <1>5 DEF ProgramStep

LEMMA PlacesKept ==
    ASSUME TypeOK, ControlInv, OnePlace, [Next]_vars
    PROVE  OnePlace'
  <1>1. ASSUME UNCHANGED <<queues, cur>>
        PROVE  OnePlace'
    <2>1. \A op \in Ops : Stays(op)
      BY <1>1 DEF Stays, In, queues
    <2>2. \A op \in Ops : \A k, x, l, y : In(op, k, x)' /\ In(op, l, y)' => k = l /\ x = y
      BY <2>1, PlacesAfter
    <2> QED
      BY <1>1, <2>2 DEF OnePlace, NoRepeat, queues
  <1>2. ASSUME NEW t \in Callers, Signal(t) \/ Stop(t)
        PROVE  UNCHANGED <<queues, cur>>
    BY <1>2 DEF Signal, Stop
  <1>3. ASSUME ResetGuard \/ CallStop \/ (\E t \in Threads : SpuriousWakeup(t))
               \/ (\E d \in Descriptors : SocketEvent(d)) \/ UNCHANGED vars
        PROVE  UNCHANGED <<queues, cur>>
    BY <1>3 DEF ResetGuard, CallStop, SpuriousWakeup, SocketEvent, vars
  <1> QED
    BY <1>1, <1>2, <1>3, PlacesOfRunSteps, PlacesOfPush, PlacesOfProgramSteps DEF Next, CallStep

-----------------------------------------------------------------------------
\* A sequence of operations without repetitions has as many elements as places.
LEMMA ElementCount ==
    ASSUME NEW s \in Seq(Ops), NoRepeat(s)
    PROVE  IsFiniteSet(Elements(s)) /\ Cardinality(Elements(s)) = Len(s)
  <1>1. /\ Len(s) \in Nat /\ DOMAIN s = 1 .. Len(s) /\ s \in [1 .. Len(s) -> Ops]
        /\ \A i \in 1 .. Len(s) : s[i] \in Ops
    BY LenProperties
  <1>2. s \in [1 .. Len(s) -> Elements(s)]
    BY <1>1 DEF Elements
  <1>3. s \in Injection(1 .. Len(s), Elements(s))
    BY <1>1, <1>2 DEF Injection, IsInjective, NoRepeat
  <1>4. s \in Surjection(1 .. Len(s), Elements(s))
    BY <1>1, <1>2 DEF Surjection, Elements
  <1>5. ExistsBijection(1 .. Len(s), Elements(s))
    BY <1>3, <1>4 DEF ExistsBijection, Bijection
  <1> QED
    BY <1>1, <1>5, FS_NatBijection, FS_CountingElements

LEMMA ReadyPlaces ==
    ASSUME NEW op
    PROVE  op \in Ready <=>
             /\ op \in Ops
             /\ \/ op \in Elements(opQueue)
                \/ \E u \in Threads : op \in Elements(privateQueue[u])
                \/ \E u \in Callers : op \in Elements(out[u])
  <1>1. PICK A : A = UNION {Elements(privateQueue[u]) : u \in Threads}
    OBVIOUS
  <1>2. PICK B : B = UNION {Elements(out[u]) : u \in Callers}
    OBVIOUS
  <1>3. op \in A <=> \E u \in Threads : op \in Elements(privateQueue[u])
    BY <1>1
  <1>4. op \in B <=> \E u \in Callers : op \in Elements(out[u])
    BY <1>2
  <1>5. Ready = Ops \cap (Elements(opQueue) \cup A \cup B)
    BY <1>1, <1>2 DEF Ready
  <1> QED
    BY <1>3, <1>4, <1>5

\* The operations that are unfinished and in no thread's own count.
LEMMA CountedOnce ==
    ASSUME TypeOK, OnePlace
    PROVE  Counted = Unfinished \ UNION {Elements(Unsettled(t)) : t \in Threads}
  <1>1. ASSUME NEW op \in Counted
        PROVE  op \in Unfinished /\ \A u \in Threads : op \notin Elements(Unsettled(u))
    <2>1. op \in Ops
      BY DEF Counted
    <2>2. ASSUME NEW k, NEW x, In(op, k, x), k # "private", NEW u \in Threads
          PROVE  op \notin Elements(Unsettled(u))
      <3>1. ~In(op, "private", u)
        BY <2>1, <2>2, PlacesApart
      <3>2. Elements(<<>>) = {}
        BY DEF Elements
      <3> QED
        BY <3>1, <3>2 DEF In, Unsettled
    <2>3. CASE op \in Elements(opQueue)
      <3>1. In(op, "queue", NoOp)
        BY <2>3 DEF In
      <3> QED
        BY <2>1, <2>2, <2>3, <3>1, ReadyPlaces DEF Unfinished
    <2>4. CASE op \in Waiting
      <3>1. PICK d \in Descriptors : In(op, "waiting", d)
        BY <2>4 DEF In, Waiting
      <3> QED
        BY <2>2, <2>4, <3>1 DEF Unfinished
    <2>5. ASSUME NEW t \in Callers, op \in Elements(out[t])
          PROVE  op \in Unfinished /\ \A u \in Threads : op \notin Elements(Unsettled(u))
      <3>1. In(op, "out", t)
        BY <2>5 DEF In
      <3>2. op \in Ready
        BY <2>1, <2>5, ReadyPlaces
      <3> QED
        BY <2>2, <3>1, <3>2 DEF Unfinished
    <2>6. ASSUME NEW t \in Threads, op = cur[t]
          PROVE  op \in Unfinished /\ \A u \in Threads : op \notin Elements(Unsettled(u))
      <3>1. In(op, "running", t)
        BY <2>6 DEF In
      <3> QED
        BY <2>1, <2>2, <2>6, <3>1 DEF Unfinished, Running
    <2>7. ASSUME NEW t \in Threads, pc[t] \notin Holding, op \in Elements(privateQueue[t])
          PROVE  op \in Unfinished /\ \A u \in Threads : op \notin Elements(Unsettled(u))
      <3>1. In(op, "private", t)
        BY <2>7 DEF In
      <3>2. \A u \in Threads \ {t} : ~In(op, "private", u)
        BY <2>1, <3>1, PlacesApart
      <3>3. \A u \in Threads \ {t} : op \notin Elements(Unsettled(u))
        BY <3>2 DEF In, Unsettled, Elements
      <3>4. op \notin Elements(Unsettled(t))
        BY <2>7 DEF Unsettled, Elements, Holding
      <3> QED
        BY <2>1, <2>7, <3>3, <3>4, ReadyPlaces DEF Unfinished
    <2> QED
      BY <2>3, <2>4, <2>5, <2>6, <2>7 DEF Counted, Keeps
  <1>2. ASSUME NEW op \in Unfinished, \A u \in Threads : op \notin Elements(Unsettled(u))
        PROVE  op \in Counted
    <2>1. op \in Ops
      <3>1. \A d \in Descriptors : Elements(pending[d]) \subseteq Ops
        BY ElementsOf DEF TypeOK
      <3> QED
        BY <3>1 DEF Unfinished, Ready, Waiting, Running
    <2>2. \A u \in Threads : op \in Elements(privateQueue[u]) => Keeps(u, op)
      BY <1>2 DEF Unsettled, Keeps, Holding
    <2>3. CASE op \in Ready
      <3>1. \/ op \in Elements(opQueue) \/ \E u \in Threads : op \in Elements(privateQueue[u])
            \/ \E u \in Callers : op \in Elements(out[u])
        BY <2>3, ReadyPlaces
      <3>2. \A u \in Callers : op \in Elements(out[u]) => Keeps(u, op)
        BY DEF Keeps
      <3> QED
        BY <2>1, <2>2, <3>1, <3>2, Constants DEF Counted
    <2>4. CASE op \in Waiting
      BY <2>1, <2>4 DEF Counted
    <2>5. CASE op \in Running
      <3>1. PICK u \in Threads : op = cur[u]
        BY <2>5 DEF Running
      <3>2. Keeps(u, op)
        BY <3>1 DEF Keeps
      <3> QED
        BY <2>1, <3>2, Constants DEF Counted
    <2> QED
      BY <2>3, <2>4, <2>5 DEF Unfinished
  <1> QED
    BY <1>1, <1>2

\* Without counted operations there are none at all: a thread with continuations runs
\* the handler that has posted them.
LEMMA NothingLeft ==
    ASSUME TypeOK, ControlInv, OnePlace, Counted = {}
    PROVE  Unfinished = {}
  <1>1. ASSUME NEW t \in Threads
        PROVE  Unsettled(t) = <<>>
    <2>1. SUFFICES ASSUME pc[t] \in Holding, privateQueue[t] # <<>>
                   PROVE  FALSE
      BY DEF Unsettled, Holding
    <2>2. cur[t] \in Ops
      BY <2>1 DEF ControlInv, PrivateHolds, Holding
    <2> QED
      BY <2>2, Constants DEF Counted, Keeps
  <1>2. \A t \in Threads : Elements(Unsettled(t)) = {}
    BY <1>1 DEF Elements
  <1> QED
    BY <1>2, CountedOnce

-----------------------------------------------------------------------------
\* A step of t counts or discounts nothing that other callers have.
LEMMA CountedByStep ==
    ASSUME TypeOK, ControlInv, NEW t \in Callers, StepOf(t), NEW op \in Ops
    PROVE  /\ op \in Counted <=> Own(t, op) \/ Elsewhere(t, op)
           /\ op \in Counted' <=> Own(t, op)' \/ Elsewhere(t, op)
  <1>1. ASSUME NEW u \in Callers \ {t}
        PROVE  Keeps(u, op)' <=> Keeps(u, op)
    BY OthersUndisturbed DEF Undisturbed, Keeps, Holding
  <1>3. op \in Counted <=> Own(t, op) \/ Elsewhere(t, op)
    BY DEF Counted, Own, Elsewhere
  <1>4. op \in Counted' <=> Own(t, op)' \/ Elsewhere(t, op)
    BY <1>1 DEF Counted, Own, Elsewhere
  <1> QED
    BY <1>3, <1>4

LEMMA CountedSame ==
    ASSUME TypeOK, ControlInv, NEW t \in Callers, StepOf(t),
           \A op \in Ops : Own(t, op)' <=> Own(t, op)
    PROVE  Counted' = Counted
  <1>1. \A op \in Ops : op \in Counted' <=> op \in Counted
    BY CountedByStep
  <1>2. Counted \subseteq Ops /\ Counted' \subseteq Ops
    BY DEF Counted
  <1> QED
    BY <1>1, <1>2

LEMMA CountedOfRunSteps ==
    ASSUME TypeOK, ControlInv, NEW t \in Threads, RunStep(t), ~HandlerReturns(t)
    PROVE  Counted' = Counted
  <1>0. /\ t \in Callers /\ opQueue \in Seq(Entries) /\ privateQueue[t] \in Seq(Entries)
        /\ ThreadHolds(t) /\ PrivateHolds(t)
    BY Constants DEF TypeOK, ControlInv
  <1>1. SUFFICES ASSUME NEW op \in Ops
                 PROVE  Own(t, op)' <=> Own(t, op)
    BY <1>0, CountedSame DEF StepOf
  <1>2. op # NoOp /\ op # TaskOp /\ op \notin Descriptors
    BY Constants
  <1>3. CASE Run(t) \/ RunReturns(t) \/ Idle(t) \/ Relock(t)
    <2>1. UNCHANGED <<queues, cur>> /\ pc[t] \notin Holding
      BY <1>3 DEF Run, RunReturns, Idle, Relock, AtLoop, Holding
    <2>2. pc'[t] \notin Holding
      BY <1>0, <1>3 DEF Run, RunReturns, Idle, Relock, Goto, Holding, TypeOK
    <2> QED
      BY <2>1, <2>2 DEF Own, Keeps, Waiting, queues
  <1>4. CASE TakeTask(t) \/ TakeOp(t)
    <2>1. Pop(t)
      BY <1>4 DEF TakeTask, TakeOp
    <2>2. /\ UNCHANGED <<privateQueue, out, pending>> /\ cur'[t] = opQueue[1]
          /\ Elements(opQueue) = {opQueue[1]} \cup Elements(opQueue')
      BY <1>0, <2>1, Popped DEF Pop, TypeOK
    <2>3. cur[t] = NoOp /\ privateQueue[t] = <<>>
      BY <1>0, <2>1, Constants DEF Pop, AtLoop, ThreadHolds, PrivateHolds, FreeSteps
    <2>4. Elements(privateQueue[t]) = {}
      BY <2>3 DEF Elements
    <2>5. Waiting' = Waiting
      BY <2>2 DEF Waiting
    <2> QED
      BY <1>2, <2>2, <2>3, <2>4, <2>5 DEF Own, Keeps
  <1>5. CASE EpollWait(t)
    <2>1. PICK s \in SetToSeqs(events) : privateQueue' = [privateQueue EXCEPT ![t] = @ \o s]
      BY <1>5 DEF EpollWait
    <2>2. s \in Seq(Entries) /\ Elements(s) \subseteq Descriptors
      BY Reported, Constants
    <2>3. Elements(privateQueue[t] \o s) = Elements(privateQueue[t]) \cup Elements(s)
      BY <1>0, <2>2, ElementsOf
    <2>4. privateQueue'[t] = privateQueue[t] \o s
      BY <2>1 DEF TypeOK
    <2>5. op \in Elements(privateQueue'[t]) <=> op \in Elements(privateQueue[t])
      BY <1>2, <2>2, <2>3, <2>4
    <2>6. /\ UNCHANGED <<opQueue, out, pending, cur>> /\ pc[t] \notin Holding /\ pc'[t] \notin Holding
      BY <1>0, <1>5 DEF EpollWait, Goto, Holding, TypeOK
    <2>7. Waiting' = Waiting
      BY <2>6 DEF Waiting
    <2> QED
      BY <2>5, <2>6, <2>7 DEF Own, Keeps
  <1>6. CASE TaskCleanup(t)
    <2>0. PICK r \in Seq(Entries) : r = <<TaskOp>>
      <3>1. <<TaskOp>> \in Seq(Entries)
        BY Constants
      <3> QED
        BY <3>1
    <2>1. PICK q \in Seq(Entries) : q = privateQueue[t] \o r
      <3>1. privateQueue[t] \o r \in Seq(Entries)
        BY <1>0
      <3> QED
        BY <3>1
    <2>2. /\ UNCHANGED <<out, pending>> /\ pc[t] = "task_done" /\ cur'[t] = NoOp
          /\ privateQueue'[t] = <<>>
      BY <1>0, <1>6 DEF TaskCleanup, TypeOK
    <2>3. opQueue' = opQueue \o q
      BY <1>6, <2>0, <2>1 DEF TaskCleanup, Requeue
    <2>4. Elements(opQueue \o q) = Elements(opQueue) \cup Elements(q) /\ Elements(<<>>) = {}
      BY <1>0, ElementsOf
    <2>5. Elements(privateQueue[t] \o r) = Elements(privateQueue[t]) \cup Elements(r) /\ Elements(r) = {TaskOp}
      <3>1. Elements(privateQueue[t] \o r) = Elements(privateQueue[t]) \cup Elements(r)
        BY <1>0, ElementsOf
      <3>2. Elements(r) = {TaskOp}
        BY <2>0, ElementsOf
      <3> QED
        BY <3>1, <3>2
    <2>6. cur[t] = TaskOp /\ Elements(privateQueue[t]) \subseteq Descriptors
      BY <1>0, <2>2 DEF ThreadHolds, PrivateHolds, TaskSteps, Elements
    <2>7. op \in Elements(opQueue') <=> op \in Elements(opQueue)
      BY <1>2, <2>1, <2>3, <2>4, <2>5, <2>6
    <2>8. op \notin Elements(privateQueue'[t])
      BY <2>2, <2>4
    <2>9. Waiting' = Waiting
      BY <2>2 DEF Waiting
    <2> QED
      BY <1>2, <2>2, <2>6, <2>7, <2>8, <2>9 DEF Own, Keeps
  <1>7. CASE Flush(t)
    <2>1. /\ UNCHANGED <<out, pending, cur>> /\ opQueue' = opQueue \o privateQueue[t]
          /\ privateQueue'[t] = <<>> /\ pc[t] \notin Holding
      BY <1>7 DEF Flush, Holding, TypeOK
    <2>2. /\ Elements(opQueue') = Elements(opQueue) \cup Elements(privateQueue[t])
          /\ Elements(privateQueue'[t]) = {}
      BY <1>0, <2>1, ElementsOf
    <2>3. Waiting' = Waiting
      BY <2>1 DEF Waiting
    <2> QED
      BY <2>1, <2>2, <2>3 DEF Own, Keeps
  <1>8. CASE PerformIo(t)
    <2>. PICK d : d = cur[t]
      OBVIOUS
    <2>1. /\ d \in Descriptors /\ pending[d] \in Seq(Ops)
          /\ UNCHANGED <<opQueue, privateQueue>> /\ pc[t] = "handler"
      BY <1>8 DEF PerformIo, TypeOK
    <2>2. PICK n \in 0 .. Len(pending[d]) :
            /\ pending' = [pending EXCEPT ![d] = SubSeq(@, n + 1, Len(@))]
            /\ cur' = [cur EXCEPT ![t] = IF n = 0 THEN NoOp ELSE pending[d][1]]
            /\ out' = [out EXCEPT ![t] = SubSeq(pending[d], 2, n)]
      BY <1>8 DEF PerformIo
    <2>3. PICK a, b : a = SubSeq(pending[d], 2, n) /\ b = SubSeq(pending[d], n + 1, Len(pending[d]))
      OBVIOUS
    <2>4. /\ n = 0 => a = <<>> /\ b = pending[d]
          /\ n > 0 => Elements(pending[d]) = {pending[d][1]} \cup Elements(a) \cup Elements(b)
      <3>1. PICK s \in Seq(Ops) : s = pending[d]
        BY <2>1
      <3>2. Parts(s, n, a, b)
        BY <2>3, <3>1 DEF Parts
      <3>3. /\ a \in Seq(Ops)
            /\ n = 0 => a = <<>> /\ b = s
            /\ n # 0 => s[1] \in Ops /\ Elements(s) = {s[1]} \cup Elements(a) \cup Elements(b)
        BY <3>2, Performed
      <3> QED
        BY <2>1, <3>1, <3>3
    <2>5. /\ pending'[d] = b /\ \A e \in Descriptors \ {d} : pending'[e] = pending[e]
          /\ out'[t] = a
          /\ cur'[t] = IF n = 0 THEN NoOp ELSE pending[d][1]
      BY <1>0, <2>1, <2>2, <2>3 DEF TypeOK
    <2>6. n \in Nat /\ Elements(<<>>) = {}
      BY <2>1, LenProperties DEF Elements
    <2>7. out[t] = <<>> /\ privateQueue[t] = <<>>
      BY <1>0, <2>1, Constants DEF ControlInv, PrivateHolds
    <2>8. op \notin Elements(out[t]) /\ op # cur[t] /\ op \notin Elements(privateQueue[t])
          /\ op \notin Elements(privateQueue'[t])
      BY <1>2, <2>1, <2>6, <2>7
    <2>9. op \in Elements(pending[d]) <=>
             op \in Elements(pending'[d]) \/ op = cur'[t] \/ op \in Elements(out'[t])
      BY <1>2, <2>4, <2>5, <2>6
    <2>10. /\ op \in Waiting <=> op \in Elements(pending[d]) \/ \E e \in Descriptors \ {d} : op \in Elements(pending[e])
           /\ op \in Waiting' <=> op \in Elements(pending'[d]) \/ \E e \in Descriptors \ {d} : op \in Elements(pending[e])
      BY <2>1, <2>5 DEF Waiting
    <2> QED
      BY <2>1, <2>8, <2>9, <2>10 DEF Own, Keeps
  <1> QED
    BY <1>3, <1>4, <1>5, <1>6, <1>7, <1>8 DEF RunStep

\* The handler's operation is finished, and its continuations are counted from now on.
LEMMA CountedOfHandler ==
    ASSUME TypeOK, ControlInv, OnePlace, NEW t \in Threads, HandlerReturns(t)
    PROVE  /\ Counted' = (Counted \ {cur[t]}) \cup Elements(privateQueue[t])
           /\ Elements(privateQueue[t]) \cap Counted = {}
           /\ cur[t] \in Ops => cur[t] \in Counted /\ cur[t] \notin Elements(privateQueue[t])
  <1>0. /\ t \in Callers /\ StepOf(t) /\ pc[t] = "handler" /\ cur[t] \in Ops \cup {NoOp}
        /\ UNCHANGED queues /\ cur'[t] = NoOp
    BY Constants DEF StepOf, RunStep, HandlerReturns, TypeOK, ControlInv, ThreadHolds, Entries
  <1>1. pc'[t] \notin Holding /\ pc[t] \in Holding
    BY <1>0 DEF HandlerReturns, AfterHandler, Goto, Holding, TypeOK
  <1>2. Elements(privateQueue[t]) \subseteq Ops
    BY <1>0 DEF ControlInv, PrivateHolds, Elements
  <1>3. UNCHANGED <<opQueue, privateQueue, out, pending>> /\ Waiting' = Waiting
    BY <1>0 DEF queues, Waiting
  <1>4. ASSUME NEW op \in Ops
        PROVE  /\ Own(t, op)' <=> \/ op \in Elements(opQueue) \/ op \in Waiting
                                  \/ op \in Elements(out[t]) \/ op \in Elements(privateQueue[t])
               /\ Own(t, op) <=> \/ op \in Elements(opQueue) \/ op \in Waiting
                                 \/ op \in Elements(out[t]) \/ op = cur[t]
    BY <1>0, <1>1, <1>3, Constants DEF Own, Keeps
  <1>5. ASSUME NEW op \in Ops, NEW k, NEW x, In(op, k, x), k = "private" \/ k = "running", x = t
        PROVE  /\ op \notin Elements(opQueue) /\ op \notin Waiting /\ op \notin Elements(out[t])
               /\ ~Elsewhere(t, op)
    <2>1. op \notin Elements(opQueue) /\ op \notin Elements(out[t])
      BY <1>0, <1>5, PlacesApart DEF In
    <2>2. op \notin Waiting
      <3>1. \A d \in Descriptors : ~In(op, "waiting", d)
        BY <1>5, PlacesApart
      <3> QED
        BY <3>1 DEF In, Waiting
    <2>3. ASSUME NEW u \in Callers \ {t}
          PROVE  ~Keeps(u, op)
      <3>1. ~In(op, "out", u) /\ ~In(op, "running", u) /\ ~In(op, "private", u)
        BY <1>5, PlacesApart
      <3> QED
        BY <3>1 DEF In, Keeps
    <2> QED
      BY <2>1, <2>2, <2>3 DEF Elsewhere
  <1>6. ASSUME NEW op \in Ops, op = cur[t]
        PROVE  op \in Counted /\ op \notin Elements(privateQueue[t]) /\ op \notin Counted'
    <2>1. In(op, "running", t)
      BY <1>6 DEF In
    <2>2. ~In(op, "private", t)
      BY <2>1, PlacesApart
    <2>3. op \notin Elements(privateQueue[t])
      BY <2>2 DEF In
    <2> QED
      BY <1>0, <1>4, <1>5, <1>6, <2>1, <2>3, CountedByStep
  <1>7. ASSUME NEW op \in Ops, op \in Elements(privateQueue[t])
        PROVE  op \notin Counted /\ op \in Counted'
    <2>1. In(op, "private", t)
      BY <1>7 DEF In
    <2>2. op # cur[t]
      BY <1>6, <1>7
    <2> QED
      BY <1>0, <1>4, <1>5, <1>7, <2>1, <2>2, CountedByStep
  <1>8. ASSUME NEW op \in Ops, op # cur[t], op \notin Elements(privateQueue[t])
        PROVE  op \in Counted' <=> op \in Counted
    BY <1>0, <1>4, <1>8, CountedByStep
  <1>9. Counted \subseteq Ops /\ Counted' \subseteq Ops
    BY DEF Counted
  <1>10. \A op \in Ops : op \in Counted' <=> (op \in Counted /\ op # cur[t]) \/ op \in Elements(privateQueue[t])
    BY <1>6, <1>7, <1>8
  <1>11. Counted' = (Counted \ {cur[t]}) \cup Elements(privateQueue[t])
    BY <1>2, <1>9, <1>10
  <1> QED
    BY <1>2, <1>6, <1>7, <1>11

LEMMA CountedOfCallSteps ==
    ASSUME TypeOK, ControlInv, NEW t \in Callers, CallStep(t)
    PROVE  Counted' = Counted
  <1>0. StepOf(t) /\ (t \in Threads => ThreadHolds(t) /\ PrivateHolds(t))
    BY DEF StepOf, ControlInv
  <1>1. SUFFICES ASSUME NEW op \in Ops
                 PROVE  Own(t, op)' <=> Own(t, op)
    BY <1>0, CountedSame
  <1>2. CASE Signal(t)
    <2>1. UNCHANGED <<opQueue, privateQueue, out, pending, cur>> /\ pc[t] = "signal"
      BY <1>2 DEF Signal, queues
    <2>2. pc'[t] = Resume(t)
      BY <1>2, <2>1, Constants DEF Signal, Goto, TypeOK
    <2>3. t \in Threads => cur[t] \in Entries /\ (privateQueue[t] # <<>> => cur[t] \in Ops)
      BY <1>0, <2>1 DEF ThreadHolds, PrivateHolds
    <2>4. t \in Threads /\ pc'[t] \notin Holding => privateQueue[t] = <<>>
      BY <2>2, <2>3, Constants DEF Resume, Holding
    <2>5. t \in Threads /\ pc'[t] \notin Holding => op \notin Elements(privateQueue[t])
      BY <2>4 DEF Elements
    <2>6. Waiting' = Waiting /\ pc[t] \in Holding
      BY <2>1 DEF Waiting, Holding
    <2> QED
      BY <2>1, <2>5, <2>6 DEF Own, Keeps
  <1>3. CASE Push(t)
    <2>1. /\ UNCHANGED <<privateQueue, pending, cur>> /\ opQueue' = opQueue \o out[t]
          /\ out'[t] = <<>> /\ pc[t] = "push"
      BY <1>3 DEF Push, TypeOK
    <2>2. pc'[t] \in {"signal", Resume(t)}
      BY <1>3 DEF Push, WakeOneThread, Goto, TypeOK
    <2>3. t \in Threads => pc'[t] \in Holding
      BY <1>0, <2>1, <2>2, Constants DEF Resume, Holding, ThreadHolds
    <2>4. opQueue \in Seq(Entries) /\ out[t] \in Seq(Entries)
      BY Constants DEF TypeOK
    <2>5. Elements(opQueue') = Elements(opQueue) \cup Elements(out[t]) /\ Elements(out'[t]) = {}
      BY <2>1, <2>4, ElementsOf
    <2>6. Waiting' = Waiting /\ pc[t] \in Holding
      BY <2>1 DEF Waiting, Holding
    <2> QED
      BY <2>1, <2>3, <2>5, <2>6 DEF Own, Keeps
  <1>4. CASE Stop(t)
    <2>1. UNCHANGED <<opQueue, privateQueue, out, pending, cur>> /\ pc[t] \notin Holding
      BY <1>4 DEF Stop, queues, Holding
    <2>2. pc'[t] \notin Holding
      BY <1>4 DEF Stop, WakeAllThreads, AfterHandler, Holding
    <2>3. Waiting' = Waiting
      BY <2>1 DEF Waiting
    <2> QED
      BY <2>1, <2>2, <2>3 DEF Own, Keeps
  <1> QED
    BY <1>2, <1>3, <1>4 DEF CallStep

\* Posting or starting an operation counts it.
LEMMA CountedOfMaking ==
    ASSUME TypeOK, ControlInv, OnePlace, NEW t \in Callers, NEW op \in Ops,
           Post(t, op) \/ \E d \in Descriptors : StartOp(t, op, d)
    PROVE  Counted' = Counted \cup {op} /\ op \notin Counted
  <1>0. StepOf(t) /\ op \in fresh
    BY DEF StepOf, ProgramStep, Post, StartOp
  <1>1. op \notin Counted
    <2>1. In(op, "fresh", NoOp)
      BY <1>0 DEF In
    <2>2. \A k, x : k # "fresh" => ~In(op, k, x)
      BY <2>1, PlacesApart
    <2>3. op \notin Elements(opQueue)
      BY <2>2 DEF In
    <2>4. \A d \in Descriptors : op \notin Elements(pending[d])
      BY <2>2 DEF In
    <2>5. \A u \in Callers : ~Keeps(u, op)
      BY <2>2 DEF In, Keeps
    <2> QED
      BY <2>3, <2>4, <2>5 DEF Counted, Waiting
  <1>2. ASSUME NEW o \in Ops
        PROVE  Own(t, o)' <=> Own(t, o) \/ o = op
    <2>1. CASE Post(t, op)
      <3>1. /\ UNCHANGED <<opQueue, privateQueue, pending, cur>>
            /\ out'[t] = <<op>> /\ pc[t] \in {"handler", "outside"} /\ pc'[t] = "push"
        BY <2>1 DEF Post, InProgram, Goto, TypeOK
      <3>2. out[t] = <<>> /\ (t \in Threads => pc[t] = "handler")
        BY <3>1 DEF ControlInv, ThreadHolds
      <3>3. Elements(out'[t]) = {op} /\ Elements(out[t]) = {} /\ Waiting' = Waiting
        BY <3>1, <3>2 DEF Elements, Waiting
      <3> QED
        BY <3>1, <3>2, <3>3 DEF Own, Keeps, Holding
    <2>2. ASSUME NEW d \in Descriptors, StartOp(t, op, d)
          PROVE  Own(t, o)' <=> Own(t, o) \/ o = op
      <3>1. /\ UNCHANGED <<opQueue, privateQueue, out, cur, pc>>
            /\ pending[d] \in Seq(Ops) /\ pending'[d] = Append(pending[d], op)
            /\ \A e \in Descriptors \ {d} : pending'[e] = pending[e]
        BY <2>2 DEF StartOp, TypeOK
      <3>2. Elements(pending'[d]) = Elements(pending[d]) \cup {op}
        BY <3>1, ElementsOf
      <3>3. o \in Waiting' <=> o \in Waiting \/ o = op
        BY <3>1, <3>2 DEF Waiting
      <3> QED
        BY <3>1, <3>3 DEF Own, Keeps
    <2> QED
      BY <2>1, <2>2
  <1>3. \A o \in Ops : o \in Counted' <=> o \in Counted \/ o = op
    BY <1>0, <1>2, CountedByStep
  <1>4. Counted \subseteq Ops /\ Counted' \subseteq Ops
    BY DEF Counted
  <1>5. Counted' = Counted \cup {op}
    BY <1>3, <1>4
  <1> QED
    BY <1>1, <1>5

LEMMA CountedOfOtherSteps ==
    ASSUME TypeOK, ControlInv, NEW t \in Callers,
           \/ t \in Threads /\ SpuriousWakeup(t)
           \/ t = Main /\ (ResetGuard \/ CallStop)
           \/ t # Main /\ \E op \in Ops : PostContinuation(t, op)
           \/ \E d \in Descriptors : CancelOps(t, d)
    PROVE  Counted' = Counted
  <1>0. StepOf(t)
    BY DEF StepOf, ProgramStep
  <1>1. SUFFICES ASSUME NEW o \in Ops
                 PROVE  Own(t, o)' <=> Own(t, o)
    BY <1>0, CountedSame
  <1>2. CASE t \in Threads /\ SpuriousWakeup(t)
    <2>1. UNCHANGED <<opQueue, privateQueue, out, pending, cur>> /\ pc[t] = "wait" /\ pc'[t] = "woken"
      BY <1>2 DEF SpuriousWakeup, Goto, queues, TypeOK
    <2>2. Waiting' = Waiting
      BY <2>1 DEF Waiting
    <2> QED
      BY <2>1, <2>2 DEF Own, Keeps, Holding
  <1>3. CASE t = Main /\ (ResetGuard \/ CallStop)
    <2>1. UNCHANGED <<opQueue, out, pending>> /\ t \notin Threads
      BY <1>3, Constants DEF ResetGuard, CallStop, queues
    <2>2. Waiting' = Waiting
      BY <2>1 DEF Waiting
    <2> QED
      BY <2>1, <2>2 DEF Own, Keeps
  <1>4. ASSUME NEW op \in Ops, PostContinuation(t, op)
        PROVE  Own(t, o)' <=> Own(t, o)
    <2>1. UNCHANGED <<opQueue, out, pending, cur, pc>> /\ pc[t] = "handler"
      BY <1>4 DEF PostContinuation
    <2>2. Waiting' = Waiting
      BY <2>1 DEF Waiting
    <2> QED
      BY <2>1, <2>2 DEF Own, Keeps, Holding
  <1>5. ASSUME NEW d \in Descriptors, CancelOps(t, d)
        PROVE  Own(t, o)' <=> Own(t, o)
    <2>1. /\ UNCHANGED <<opQueue, privateQueue, cur>> /\ out'[t] = pending[d]
          /\ pending'[d] = <<>> /\ \A e \in Descriptors \ {d} : pending'[e] = pending[e]
          /\ pc[t] \in {"handler", "outside"} /\ pc'[t] = "push"
      BY <1>5 DEF CancelOps, Goto, TypeOK
    <2>2. out[t] = <<>> /\ (t \in Threads => pc[t] = "handler")
      BY <2>1 DEF ControlInv, ThreadHolds
    <2>3. Elements(out[t]) = {} /\ Elements(pending'[d]) = {}
      BY <2>1, <2>2 DEF Elements
    <2>4. o \in Waiting <=> o \in Waiting' \/ o \in Elements(out'[t])
      BY <2>1, <2>3 DEF Waiting
    <2> QED
      BY <2>1, <2>2, <2>3, <2>4 DEF Own, Keeps, Holding
  <1> QED
    BY <1>2, <1>3, <1>4, <1>5

-----------------------------------------------------------------------------
\* What a thread counts for itself, by where it is.
LEMMA PrivateCases ==
    ASSUME NEW t \in Threads
    PROVE  /\ pc[t] \notin Holding => (PrivateExact(t) <=> privateWork[t] = 0)
           /\ pc[t] \in Holding /\ ~(pc[t] = "handler" /\ cur[t] = NoOp) /\ Len(privateQueue[t]) \in Nat
                => (PrivateExact(t) <=> privateWork[t] = Len(privateQueue[t]))
           /\ pc[t] = "handler" /\ cur[t] = NoOp
                => (PrivateExact(t) <=> privateWork[t] = Len(privateQueue[t]) + 1)
  <1>1. Len(<<>>) = 0
    OBVIOUS
  <1>2. Unsettled(t) = IF pc[t] \in Holding THEN privateQueue[t] ELSE <<>>
    BY DEF Unsettled, Holding
  <1>3. t \in Compensating <=> pc[t] = "handler" /\ cur[t] = NoOp
    BY DEF Compensating
  <1>4. pc[t] = "handler" => pc[t] \in Holding
    BY DEF Holding
  <1>5. /\ t \in Compensating => (PrivateExact(t) <=> privateWork[t] = Len(Unsettled(t)) + 1)
        /\ t \notin Compensating => (PrivateExact(t) <=> privateWork[t] = Len(Unsettled(t)) + 0)
    BY DEF PrivateExact
  <1>6. \A n \in Nat : n + 0 = n
    OBVIOUS
  <1>7. pc[t] \notin Holding => Unsettled(t) = <<>>
    BY <1>2
  <1>8. pc[t] \in Holding => Unsettled(t) = privateQueue[t]
    BY <1>2
  <1>9. ASSUME pc[t] \notin Holding
        PROVE  PrivateExact(t) <=> privateWork[t] = 0
    <2>1. Len(Unsettled(t)) + 0 = 0
      BY <1>1, <1>7, <1>9
    <2>2. t \notin Compensating
      BY <1>3, <1>4, <1>9
    <2> QED
      BY <1>5, <2>1, <2>2
  <1> QED
    BY <1>3, <1>4, <1>5, <1>6, <1>8, <1>9

LEMMA PrivateCasesNext ==
    ASSUME NEW t \in Threads
    PROVE  /\ pc'[t] \notin Holding => (PrivateExact(t)' <=> privateWork'[t] = 0)
           /\ pc'[t] \in Holding /\ ~(pc'[t] = "handler" /\ cur'[t] = NoOp) /\ Len(privateQueue'[t]) \in Nat
                => (PrivateExact(t)' <=> privateWork'[t] = Len(privateQueue'[t]))
           /\ pc'[t] = "handler" /\ cur'[t] = NoOp
                => (PrivateExact(t)' <=> privateWork'[t] = Len(privateQueue'[t]) + 1)
  <1>1. Len(<<>>) = 0
    OBVIOUS
  <1>2. Unsettled(t)' = IF pc'[t] \in Holding THEN privateQueue'[t] ELSE <<>>
    BY DEF Unsettled, Holding
  <1>3. t \in Compensating' <=> pc'[t] = "handler" /\ cur'[t] = NoOp
    BY DEF Compensating
  <1>4. pc'[t] = "handler" => pc'[t] \in Holding
    BY DEF Holding
  <1>5. /\ t \in Compensating' => (PrivateExact(t)' <=> privateWork'[t] = Len(Unsettled(t)') + 1)
        /\ t \notin Compensating' => (PrivateExact(t)' <=> privateWork'[t] = Len(Unsettled(t)') + 0)
    BY DEF PrivateExact
  <1>6. \A n \in Nat : n + 0 = n
    OBVIOUS
  <1>7. pc'[t] \notin Holding => Unsettled(t)' = <<>>
    BY <1>2
  <1>8. pc'[t] \in Holding => Unsettled(t)' = privateQueue'[t]
    BY <1>2
  <1>9. ASSUME pc'[t] \notin Holding
        PROVE  PrivateExact(t)' <=> privateWork'[t] = 0
    <2>1. Len(Unsettled(t)') + 0 = 0
      BY <1>1, <1>7, <1>9
    <2>2. t \notin Compensating'
      BY <1>3, <1>4, <1>9
    <2> QED
      BY <1>5, <2>1, <2>2
  <1> QED
    BY <1>3, <1>4, <1>5, <1>6, <1>8, <1>9

LEMMA PrivateOfOthers ==
    ASSUME TypeOK, NEW u \in Threads, PrivateExact(u), Undisturbed(u)
    PROVE  PrivateExact(u)'
  <1>1. Len(privateQueue[u]) \in Nat
    BY LenProperties DEF TypeOK
  <1> QED
    BY <1>1, PrivateCases, PrivateCasesNext DEF Undisturbed, Holding

LEMMA PrivateOfRunSteps ==
    ASSUME TypeOK, ControlInv, NEW t \in Threads, PrivateExact(t), RunStep(t)
    PROVE  PrivateExact(t)'
  <1>0. /\ t \in Callers /\ privateQueue[t] \in Seq(Entries) /\ privateWork[t] \in Nat
        /\ ThreadHolds(t) /\ PrivateHolds(t) /\ Len(<<>>) = 0 /\ Len(privateQueue[t]) \in Nat
    BY Constants, LenProperties DEF TypeOK, ControlInv
  <1>1. CASE Run(t) \/ RunReturns(t) \/ Idle(t) \/ Relock(t)
    <2>1. UNCHANGED <<privateWork, privateQueue, cur>> /\ pc[t] \notin Holding
      BY <1>1 DEF Run, RunReturns, Idle, Relock, AtLoop, Holding, queues, counts
    <2>2. pc'[t] \notin Holding
      BY <1>0, <1>1 DEF Run, RunReturns, Idle, Relock, Goto, Holding, TypeOK
    <2> QED
      BY <2>1, <2>2, PrivateCases, PrivateCasesNext DEF Holding
  <1>2. CASE TakeTask(t) \/ TakeOp(t)
    <2>1. Pop(t) /\ pc[t] \in {"loop", "acquire"}
      BY <1>2 DEF TakeTask, TakeOp, Pop, AtLoop
    <2>2. /\ UNCHANGED <<privateWork, privateQueue>> /\ cur'[t] = opQueue[1] /\ opQueue[1] \in Entries
      BY <1>0, <2>1, Popped DEF Pop, counts, TypeOK
    <2>3. privateQueue[t] = <<>> /\ pc[t] \notin Holding
      BY <1>0, <2>1, Constants DEF ThreadHolds, PrivateHolds, FreeSteps, Holding
    <2>4. cur'[t] # NoOp
      BY <2>2, SchedulerAssumption
    <2> QED
      BY <1>0, <2>2, <2>3, <2>4, PrivateCases, PrivateCasesNext DEF Holding
  <1>3. CASE EpollWait(t)
    <2>1. privateWork' = privateWork /\ pc[t] \notin Holding /\ pc'[t] \notin Holding
      BY <1>0, <1>3 DEF EpollWait, counts, Goto, Holding, TypeOK
    <2> QED
      BY <2>1, PrivateCases, PrivateCasesNext DEF Holding
  <1>4. CASE TaskCleanup(t) \/ HandlerReturns(t)
    <2>1. privateWork'[t] = 0 /\ pc'[t] \notin Holding
      BY <1>0, <1>4 DEF TaskCleanup, HandlerReturns, AfterHandler, Goto, Holding, TypeOK
    <2> QED
      BY <2>1, PrivateCasesNext DEF Holding
  <1>5. CASE Flush(t)
    <2>1. privateWork' = privateWork /\ pc[t] \notin Holding /\ pc'[t] \notin Holding
      BY <1>0, <1>5 DEF Flush, counts, Goto, Holding, TypeOK
    <2> QED
      BY <2>1, PrivateCases, PrivateCasesNext DEF Holding
  <1>6. CASE PerformIo(t)
    <2>. PICK d : d = cur[t]
      OBVIOUS
    <2>1. /\ d \in Descriptors /\ pending[d] \in Seq(Ops)
          /\ privateQueue' = privateQueue /\ pc[t] = "handler"
      BY <1>6 DEF PerformIo, TypeOK
    <2>2. PICK n \in 0 .. Len(pending[d]) :
            /\ cur' = [cur EXCEPT ![t] = IF n = 0 THEN NoOp ELSE pending[d][1]]
            /\ privateWork' = [privateWork EXCEPT ![t] = @ + Compensation(n)]
            /\ Goto(t, IF n > 1 THEN "push" ELSE "handler")
      BY <1>6 DEF PerformIo
    <2>3. n \in Nat /\ (n > 0 => pending[d][1] \in Ops)
      BY <2>1, LenProperties, Split
    <2>4. /\ cur'[t] = IF n = 0 THEN NoOp ELSE pending[d][1]
          /\ privateWork'[t] = privateWork[t] + (IF n = 0 THEN 1 ELSE 0)
          /\ pc'[t] = IF n > 1 THEN "push" ELSE "handler"
      BY <1>0, <2>2 DEF Goto, Compensation, TypeOK
    <2>5. privateQueue[t] = <<>> /\ cur[t] # NoOp
      BY <1>0, <2>1, Constants DEF PrivateHolds
    <2>6. privateWork[t] = 0
      BY <1>0, <2>1, <2>5, PrivateCases
    <2>7. n > 0 => cur'[t] # NoOp
      BY <2>3, <2>4, Constants
    <2>8. pc'[t] \in Holding /\ privateQueue'[t] = <<>>
      BY <2>1, <2>4, <2>5 DEF Holding
    <2>9. n = 0 => pc'[t] = "handler" /\ cur'[t] = NoOp /\ privateWork'[t] = 1
      BY <2>4, <2>6
    <2>10. n > 0 => privateWork'[t] = 0
      BY <2>3, <2>4, <2>6
    <2> QED
      BY <1>0, <2>3, <2>7, <2>8, <2>9, <2>10, PrivateCasesNext
  <1> QED
    BY <1>1, <1>2, <1>3, <1>4, <1>5, <1>6 DEF RunStep

LEMMA PrivateOfOtherSteps ==
    ASSUME TypeOK, ControlInv, NEW t \in Threads, PrivateExact(t), StepOf(t), ~RunStep(t)
    PROVE  PrivateExact(t)'
  <1>0. /\ t \in Callers /\ t # Main /\ privateQueue[t] \in Seq(Entries) /\ privateWork[t] \in Nat
        /\ ThreadHolds(t) /\ PrivateHolds(t) /\ Len(<<>>) = 0 /\ Len(privateQueue[t]) \in Nat
    BY Constants, LenProperties DEF TypeOK, ControlInv
  <1>1. CASE SpuriousWakeup(t)
    <2>1. privateWork' = privateWork /\ pc[t] \notin Holding /\ pc'[t] \notin Holding
      BY <1>0, <1>1 DEF SpuriousWakeup, counts, Goto, Holding, TypeOK
    <2> QED
      BY <2>1, PrivateCases, PrivateCasesNext DEF Holding
  <1>2. CASE Signal(t) \/ Push(t)
    <2>1. UNCHANGED <<privateWork, privateQueue, cur>> /\ pc[t] \in {"signal", "push"}
      BY <1>2 DEF Signal, Push, queues, counts
    <2>2. pc'[t] \in {"signal", Resume(t)}
      BY <1>0, <1>2, <2>1, Constants DEF Signal, Push, WakeOneThread, Goto, TypeOK
    <2>3. cur[t] \in Entries /\ (privateQueue[t] # <<>> => cur[t] \in Ops)
      BY <1>0, <2>1, Constants DEF ThreadHolds, PrivateHolds
    <2>4. cur[t] # NoOp /\ (pc'[t] \in Holding \/ (pc'[t] = "task_poll" /\ privateQueue[t] = <<>>))
      BY <1>0, <2>2, <2>3, SchedulerAssumption, Constants DEF Resume, Holding
    <2> QED
      BY <1>0, <2>1, <2>4, PrivateCases, PrivateCasesNext DEF Holding
  <1>3. CASE Stop(t)
    <2>1. privateWork' = privateWork /\ pc[t] \notin Holding /\ pc'[t] \notin Holding
      BY <1>0, <1>3 DEF Stop, WakeAllThreads, AfterHandler, counts, Holding
    <2> QED
      BY <2>1, PrivateCases, PrivateCasesNext DEF Holding
  <1>4. ASSUME NEW op \in Ops, PostContinuation(t, op)
        PROVE  PrivateExact(t)'
    <2>1. /\ UNCHANGED <<pc, cur>> /\ pc[t] = "handler" /\ cur[t] \in Ops
          /\ privateWork'[t] = privateWork[t] + 1
          /\ privateQueue'[t] = Append(privateQueue[t], op)
      BY <1>4 DEF PostContinuation, CountPrivately, TypeOK
    <2>2. Len(privateQueue'[t]) = Len(privateQueue[t]) + 1 /\ Len(privateQueue[t]) \in Nat
      BY <1>0, <2>1
    <2> QED
      BY <2>1, <2>2, Constants, PrivateCases, PrivateCasesNext DEF Holding
  <1>5. CASE (\E op \in Ops : Post(t, op)) \/ (\E op \in Ops, d \in Descriptors : StartOp(t, op, d))
             \/ (\E d \in Descriptors : CancelOps(t, d))
    <2>1. UNCHANGED <<privateWork, privateQueue, cur>> /\ pc[t] \in {"handler", "outside"}
      BY <1>5 DEF Post, StartOp, CancelOps, InProgram, counts
    <2>2. pc[t] = "handler" /\ cur[t] \in Ops
      BY <1>0, <1>5, <2>1 DEF ThreadHolds, Post, StartOp, CancelOps, InProgram
    <2>3. pc'[t] \in {"handler", "push"}
      BY <1>0, <1>5, <2>2 DEF Post, StartOp, CancelOps, Goto, TypeOK
    <2> QED
      BY <2>1, <2>2, <2>3, Constants, PrivateCases, PrivateCasesNext DEF Holding
  <1> QED
    BY <1>0, <1>1, <1>2, <1>3, <1>4, <1>5 DEF StepOf, CallStep, ProgramStep

LEMMA PrivateKept ==
    ASSUME TypeOK, ControlInv, \A u \in Threads : PrivateExact(u), [Next]_vars
    PROVE  \A u \in Threads : PrivateExact(u)'
  <1>. SUFFICES ASSUME NEW u \in Threads
                PROVE  PrivateExact(u)'
    OBVIOUS
  <1>0. u \in Callers /\ PrivateExact(u)
    BY Constants
  <1>1. ASSUME NEW t \in Callers, StepOf(t), t # u
        PROVE  PrivateExact(u)'
    BY <1>0, <1>1, OthersUndisturbed, PrivateOfOthers
  <1>2. ASSUME StepOf(u)
        PROVE  PrivateExact(u)'
    BY <1>0, <1>2, PrivateOfRunSteps, PrivateOfOtherSteps
  <1>3. ASSUME NEW d \in Descriptors, SocketEvent(d)
        PROVE  PrivateExact(u)'
    BY <1>0, <1>3 DEF SocketEvent, PrivateExact, Unsettled, Compensating, queues, counts
  <1>4. CASE UNCHANGED vars
    BY <1>0, <1>4 DEF vars, PrivateExact, Unsettled, Compensating, queues, counts
  <1> QED
    BY <1>1, <1>2, <1>3, <1>4, StepCases

-----------------------------------------------------------------------------
\* The steps that neither make nor finish an operation.
LEMMA CountedKept ==
    ASSUME TypeOK, ControlInv, NEW t \in Callers, StepOf(t), ~HandlerReturns(t),
           \A op \in Ops : ~Post(t, op) /\ \A d \in Descriptors : ~StartOp(t, op, d)
    PROVE  Counted' = Counted
  <1>1. CASE t \in Threads /\ RunStep(t)
    BY <1>1, CountedOfRunSteps
  <1>2. CASE CallStep(t)
    BY <1>2, CountedOfCallSteps
  <1>3. CASE \/ t \in Threads /\ SpuriousWakeup(t)
             \/ t = Main /\ (ResetGuard \/ CallStop)
             \/ t # Main /\ \E op \in Ops : PostContinuation(t, op)
             \/ \E d \in Descriptors : CancelOps(t, d)
    BY <1>3, CountedOfOtherSteps
  <1> QED
    BY <1>1, <1>2, <1>3 DEF StepOf, ProgramStep

LEMMA ContextOfStep ==
    ASSUME TypeOK, ControlInv, OnePlace, WorkInv, NEW t \in Callers, StepOf(t)
    PROVE  ContextExact'
  <1>0. /\ IsFiniteSet(Counted) /\ Cardinality(Counted) \in Nat
        /\ work = Cardinality(Counted) + IF guard THEN 1 ELSE 0
        /\ guard \in BOOLEAN
    BY FS_CardinalityType DEF WorkInv, ContextExact, TypeOK
  <1>1. ASSUME NEW op \in Ops, Post(t, op) \/ \E d \in Descriptors : StartOp(t, op, d)
        PROVE  ContextExact'
    <2>1. Counted' = Counted \cup {op} /\ op \notin Counted
      BY <1>1, CountedOfMaking
    <2>2. work' = work + 1 /\ guard' = guard
      BY <1>1 DEF Post, StartOp
    <2>3. IsFiniteSet(Counted') /\ Cardinality(Counted') = Cardinality(Counted) + 1
      BY <1>0, <2>1, FS_AddElement
    <2> QED
      BY <1>0, <2>2, <2>3 DEF ContextExact
  <1>2. ASSUME t \in Threads, HandlerReturns(t)
        PROVE  ContextExact'
    <2>. PICK o : o = cur[t]
      OBVIOUS
    <2>. PICK E : E = Elements(privateQueue[t])
      OBVIOUS
    <2>1. /\ Counted' = (Counted \ {o}) \cup E /\ E \cap Counted = {}
          /\ o \in Ops => o \in Counted /\ o \notin E
      BY <1>2, CountedOfHandler
    <2>2. /\ work' = work + privateWork[t] - 1 /\ guard' = guard /\ pc[t] = "handler"
          /\ o \in Ops \cup {NoOp}
      BY <1>2, Constants DEF HandlerReturns, TypeOK, ControlInv, ThreadHolds, Entries
    <2>3. PrivateExact(t) /\ privateQueue[t] \in Seq(Entries) /\ NoRepeat(privateQueue[t])
          /\ PrivateHolds(t)
      BY <1>2 DEF WorkInv, TypeOK, OnePlace, ControlInv
    <2>4. \A i \in DOMAIN privateQueue[t] : privateQueue[t][i] \in Ops
      BY <2>2, <2>3 DEF PrivateHolds
    <2>5. privateQueue[t] \in Seq(Ops)
      BY <2>3, <2>4
    <2>6. IsFiniteSet(E) /\ Cardinality(E) = Len(privateQueue[t]) /\ Len(privateQueue[t]) \in Nat
      BY <2>3, <2>5, ElementCount, LenProperties
    <2>7. CASE o \in Ops
      <3>1. privateWork[t] = Len(privateQueue[t])
        BY <1>2, <2>2, <2>3, <2>6, <2>7, Constants, PrivateCases DEF Holding
      <3>2. PICK R : R = Counted \ {o}
        OBVIOUS
      <3>3. IsFiniteSet(R) /\ Cardinality(R) = Cardinality(Counted) - 1
        BY <1>0, <2>1, <2>7, <3>2, FS_RemoveElement
      <3>4. R \cap E = {} /\ Counted' = R \cup E
        BY <2>1, <3>2
      <3>5. /\ IsFiniteSet(R \cup E)
            /\ Cardinality(R \cup E) = Cardinality(R) + Cardinality(E) - Cardinality(R \cap E)
        BY <2>6, <3>3, FS_Union
      <3>6. Cardinality(R \cap E) = 0
        BY <3>4, FS_EmptySet
      <3>7. /\ IsFiniteSet(Counted')
            /\ Cardinality(Counted') = Cardinality(Counted) - 1 + Len(privateQueue[t])
        BY <1>0, <2>6, <3>3, <3>4, <3>5, <3>6
      <3>8. PICK n \in Nat, m \in Nat, g \in {0, 1} :
               n = Cardinality(Counted) /\ m = Len(privateQueue[t]) /\ g = IF guard THEN 1 ELSE 0
        BY <1>0, <2>6
      <3>9. work' = n + g + m - 1 /\ Cardinality(Counted') = n - 1 + m
        BY <1>0, <2>2, <3>1, <3>7, <3>8
      <3>10. work' = Cardinality(Counted') + g
        BY <3>9
      <3> QED
        BY <2>2, <3>7, <3>8, <3>10 DEF ContextExact
    <2>8. CASE o = NoOp
      <3>1. privateQueue[t] = <<>>
        BY <2>2, <2>3, <2>8, Constants DEF PrivateHolds
      <3>2. privateWork[t] = Len(privateQueue[t]) + 1 /\ Len(privateQueue[t]) = 0
        BY <1>2, <2>2, <2>3, <2>8, <3>1, PrivateCases
      <3>3. E = {} /\ NoOp \notin Counted
        BY <3>1, Constants DEF Elements, Counted
      <3>4. Counted' = Counted
        BY <2>1, <2>8, <3>3
      <3>5. work' = work
        BY <1>0, <2>2, <3>2
      <3> QED
        BY <1>0, <2>2, <3>4, <3>5 DEF ContextExact
    <2> QED
      BY <2>2, <2>7, <2>8
  <1>3. ASSUME t \in Threads, TaskCleanup(t)
        PROVE  UNCHANGED <<work, guard>>
    <2>1. pc[t] = "task_done" /\ work' = work + privateWork[t] /\ guard' = guard
      BY <1>3 DEF TaskCleanup
    <2>2. PrivateExact(t)
      BY <1>3 DEF WorkInv
    <2>3. privateWork[t] = 0
      BY <1>3, <2>1, <2>2, PrivateCases DEF Holding
    <2> QED
      BY <1>0, <2>1, <2>3
  <1>4. ASSUME ResetGuard, t = Main
        PROVE  ContextExact'
    <2>1. Counted' = Counted
      BY <1>4, CountedOfOtherSteps
    <2>2. work' = work - 1 /\ guard = TRUE /\ guard' = FALSE
      BY <1>4 DEF ResetGuard, TypeOK
    <2> QED
      BY <1>0, <2>1, <2>2 DEF ContextExact
  <1>5. ASSUME Counted' = Counted, UNCHANGED <<work, guard>>
        PROVE  ContextExact'
    BY <1>0, <1>5 DEF ContextExact
  <1>6. ASSUME t \in Threads, RunStep(t)
        PROVE  HandlerReturns(t) \/ (Counted' = Counted /\ UNCHANGED <<work, guard>>)
    <2>1. HandlerReturns(t) \/ UNCHANGED <<work, guard>>
      BY <1>3, <1>6 DEF RunStep, Run, RunReturns, Idle, TakeTask, TakeOp, Pop, Relock, EpollWait,
                        PerformIo, Flush, counts
    <2> QED
      BY <1>6, <2>1, CountedOfRunSteps
  <1>7. ASSUME CallStep(t)
        PROVE  Counted' = Counted /\ UNCHANGED <<work, guard>>
    BY <1>7, CountedOfCallSteps DEF CallStep, Signal, Push, Stop, counts
  <1>8. ASSUME \/ t \in Threads /\ SpuriousWakeup(t)
               \/ t = Main /\ CallStop
               \/ t # Main /\ \E op \in Ops : PostContinuation(t, op)
               \/ \E d \in Descriptors : CancelOps(t, d)
        PROVE  Counted' = Counted /\ UNCHANGED <<work, guard>>
    <2>1. Counted' = Counted
      BY <1>8, CountedOfOtherSteps
    <2>2. UNCHANGED <<work, guard>>
      BY <1>8 DEF SpuriousWakeup, CallStop, PostContinuation, CancelOps, counts
    <2> QED
      BY <2>1, <2>2
  <1> QED
    BY <1>1, <1>2, <1>4, <1>5, <1>6, <1>7, <1>8 DEF StepOf, ProgramStep

\* Without the guard and without work nobody makes any.
LEMMA NoWorkStays ==
    ASSUME TypeOK, ControlInv, OnePlace, NEW t \in Callers, StepOf(t), ~guard, Counted = {}
    PROVE  ~guard' /\ Counted' = {}
  <1>1. ASSUME NEW u \in Threads
        PROVE  cur[u] \notin Ops
    BY Constants DEF Counted, Keeps
  <1>2. ASSUME pc[t] = "handler" /\ cur[t] \in Ops
        PROVE  FALSE
    BY <1>1, <1>2, Constants DEF ControlInv
  <1>3. \A op \in Ops : ~Post(t, op) /\ \A d \in Descriptors : ~StartOp(t, op, d)
    BY <1>2 DEF Post, StartOp, InProgram
  <1>4. ~guard'
    BY DEF StepOf, RunStep, SpuriousWakeup, CallStep, ProgramStep, ResetGuard, CallStop, Run,
           RunReturns, Idle, TakeTask, TakeOp, Pop, Relock, EpollWait, TaskCleanup, PerformIo,
           HandlerReturns, Flush, Signal, Push, Stop, Post, PostContinuation, StartOp, CancelOps,
           counts
  <1>5. CASE t \in Threads /\ HandlerReturns(t)
    <2>1. privateQueue[t] = <<>>
      BY <1>1, <1>5 DEF ControlInv, PrivateHolds, HandlerReturns
    <2>2. Elements(privateQueue[t]) = {}
      BY <2>1 DEF Elements
    <2> QED
      BY <1>4, <1>5, <2>2, CountedOfHandler
  <1>6. CASE ~HandlerReturns(t)
    BY <1>3, <1>4, <1>6, CountedKept
  <1>7. t \notin Threads => ~HandlerReturns(t)
    BY Constants DEF HandlerReturns, ControlInv
  <1> QED
    BY <1>5, <1>6, <1>7

\* A caller goes to stop() when the count is zero, or when it is asked to.
LEMMA StopsForAReason ==
    ASSUME TypeOK, ControlInv, NEW t \in Callers, StepOf(t), pc'[t] \in {"stop", "stop_enter"}
    PROVE  work' = 0 \/ asked'
  <1>1. CASE t \in Threads /\ RunStep(t)
    <2>1. HandlerReturns(t) => work' = 0
      BY <1>1 DEF HandlerReturns, AfterHandler, Goto, TypeOK
    <2>2. Run(t) => work' = 0
      BY DEF Run, Goto, TypeOK, counts
    <2>3. ~RunReturns(t) /\ ~Idle(t) /\ ~Relock(t)
      BY DEF RunReturns, Idle, Relock, Goto, TypeOK
    <2>4. ~TakeTask(t) /\ ~TakeOp(t)
      BY DEF TakeTask, TakeOp, WakeOneThread, Goto, TypeOK
    <2>5. ~EpollWait(t) /\ ~TaskCleanup(t) /\ ~PerformIo(t) /\ ~Flush(t)
      BY DEF EpollWait, TaskCleanup, PerformIo, Flush, Goto, TypeOK
    <2> QED
      BY <1>1, <2>1, <2>2, <2>3, <2>4, <2>5 DEF RunStep
  <1>2. ~(t \in Threads /\ SpuriousWakeup(t))
    BY DEF SpuriousWakeup, Goto, TypeOK
  <1>3. ~CallStep(t)
    <2>1. ~Signal(t)
      BY ResumeStep, Constants, ZenonT(30) DEF Signal, Goto, TypeOK
    <2>2. ~Push(t)
      BY ResumeStep, ZenonT(30) DEF Push, WakeOneThread, Goto, TypeOK
    <2>3. ~Stop(t)
      BY DEF Stop, WakeAllThreads, AfterHandler
    <2> QED
      BY <2>1, <2>2, <2>3 DEF CallStep
  <1>4. ~ProgramStep(t)
    BY DEF ProgramStep, Post, PostContinuation, StartOp, CancelOps, InProgram, Goto, TypeOK
  <1>5. CASE t = Main /\ (ResetGuard \/ CallStop)
    BY <1>5 DEF ResetGuard, CallStop, Goto, TypeOK
  <1> QED
    BY <1>1, <1>2, <1>3, <1>4, <1>5 DEF StepOf

LEMMA WorkKept ==
    ASSUME TypeOK, ControlInv, OnePlace, WorkInv, [Next]_vars
    PROVE  WorkInv'
  <1>1. \A u \in Threads : PrivateExact(u)'
    BY PrivateKept DEF WorkInv
  <1>2. ASSUME UNCHANGED <<opQueue, pending, out, privateQueue, cur, pc, work, guard, asked>>
        PROVE  WorkInv'
    <2>1. Counted' = Counted
      BY <1>2 DEF Counted, Keeps, Waiting
    <2>2. ContextExact' /\ StopJustified'
      BY <1>2, <2>1 DEF WorkInv, ContextExact, StopJustified
    <2> QED
      BY <1>1, <2>2 DEF WorkInv
  <1>3. ASSUME NEW t \in Callers, StepOf(t)
        PROVE  WorkInv'
    <2>1. ContextExact'
      BY <1>3, ContextOfStep
    <2>2. ASSUME NEW u \in Callers, pc'[u] \in {"stop", "stop_enter"}, ~asked'
          PROVE  ~guard' /\ Counted' = {}
      <3>1. CASE u = t
        <4>1. work' = 0
          BY <1>3, <2>2, <3>1, StopsForAReason
        <4>2. Cardinality(Counted') \in Nat /\ IsFiniteSet(Counted')
          BY <2>1, FS_CardinalityType DEF ContextExact
        <4>3. ~guard' /\ Cardinality(Counted') = 0
          BY <2>1, <4>1, <4>2 DEF ContextExact
        <4> QED
          BY <4>2, <4>3, FS_EmptySet
      <3>2. CASE u # t
        <4>1. pc[u] = pc'[u]
          BY <1>3, <2>2, <3>2, OthersUndisturbed DEF Undisturbed
        <4>2. ~asked
          BY <1>3, <2>2 DEF StepOf, RunStep, SpuriousWakeup, CallStep, ProgramStep, ResetGuard,
               CallStop, Run, RunReturns, Idle, TakeTask, TakeOp, Pop, Relock, EpollWait,
               TaskCleanup, PerformIo, HandlerReturns, Flush, Signal, Push, Stop, Post,
               PostContinuation, StartOp, CancelOps
        <4>3. ~guard /\ Counted = {}
          BY <2>2, <4>1, <4>2 DEF WorkInv, StopJustified
        <4> QED
          BY <1>3, <4>3, NoWorkStays
      <3> QED
        BY <3>1, <3>2
    <2> QED
      BY <1>1, <2>1, <2>2 DEF WorkInv, StopJustified
  <1>4. ASSUME NEW d \in Descriptors, SocketEvent(d)
        PROVE  WorkInv'
    BY <1>2, <1>4 DEF SocketEvent, queues, counts
  <1>5. CASE UNCHANGED vars
    BY <1>2, <1>5 DEF vars, queues, counts
  <1> QED
    BY <1>3, <1>4, <1>5, StepCases

-----------------------------------------------------------------------------
LEMMA InitInv ==
    ASSUME Init
    PROVE  SchedulerInv
  <1>1. /\ opQueue = <<TaskOp>> /\ \A t \in Threads : privateQueue[t] = <<>>
        /\ \A t \in Callers : out[t] = <<>> /\ cur[t] = NoOp
        /\ \A d \in Descriptors : pending[d] = <<>>
        /\ \A t \in Threads : pc[t] = "enter"
        /\ pc[Main] = "outside"
    BY Constants DEF Init
  <1>2. /\ Elements(opQueue) = {TaskOp} /\ \A t \in Threads : Elements(privateQueue[t]) = {}
        /\ \A t \in Callers : Elements(out[t]) = {}
        /\ \A d \in Descriptors : Elements(pending[d]) = {}
    BY <1>1 DEF Elements
  <1>3. TypeOK
    <2>1. opQueue \in Seq(Entries)
      BY <1>1, Constants
    <2>2. privateQueue \in [Threads -> Seq(Entries)] /\ privateWork \in [Threads -> Nat]
      BY DEF Init
    <2>3. out \in [Callers -> Seq(Ops)] /\ pending \in [Descriptors -> Seq(Ops)] /\ fresh \subseteq Ops
      BY DEF Init
    <2>4. pc \in [Callers -> Steps] /\ cur \in [Callers -> Entries \cup {NoOp}]
      BY DEF Init, Steps
    <2> QED
      BY <2>1, <2>2, <2>3, <2>4 DEF Init, TypeOK
  <1>4. ControlInv
    <2>1. \A t \in Threads : ThreadHolds(t) /\ PrivateHolds(t)
      BY <1>1, Constants DEF ThreadHolds, PrivateHolds, FreeSteps, TaskSteps
    <2> QED
      BY <1>1, <2>1, Constants DEF ControlInv
  <1>5. ReactorInv
    <2>1. DOMAIN opQueue = {1} /\ opQueue[1] = TaskOp /\ \A t \in Threads : cur[t] # TaskOp
      BY <1>1, Constants
    <2> QED
      BY <2>1, Constants DEF ReactorInv, OneTask, DescriptorsFirst
  <1>6. WakeInv
    <2>1. ~stopped /\ signalled /\ \A t \in Threads : ~Asleep(t) /\ pc[t] # "task_wait"
      BY <1>1 DEF Init, Asleep
    <2> QED
      BY <2>1 DEF WakeInv, EventTells, InterruptTells, WakeupComing, StopWakesAll
  <1>7. OnePlace
    <2>1. ASSUME NEW op \in Ops, NEW k, NEW x, In(op, k, x)
          PROVE  k = "fresh" /\ x = NoOp
      BY <1>1, <1>2, <2>1, Constants DEF In
    <2>2. NoRepeat(opQueue) /\ NoRepeat(<<>>)
      BY <1>1 DEF NoRepeat
    <2> QED
      BY <1>1, <2>1, <2>2 DEF OnePlace
  <1>8. WorkInv
    <2>1. \A t \in Threads : PrivateExact(t)
      BY <1>1, PrivateCases DEF Init, Holding
    <2>2. Counted = {}
      BY <1>1, <1>2, Constants DEF Counted, Keeps, Waiting
    <2>3. ContextExact
      <3>1. work = 1 /\ guard = TRUE
        BY DEF Init
      <3> QED
        BY <2>2, <3>1, FS_EmptySet DEF ContextExact
    <2>4. \A t \in Callers : pc[t] \notin {"stop", "stop_enter"}
      BY <1>1, Constants
    <2> QED
      BY <2>1, <2>3, <2>4 DEF WorkInv, StopJustified
  <1> QED
    BY <1>3, <1>4, <1>5, <1>6, <1>7, <1>8 DEF SchedulerInv

LEMMA StepInv ==
    ASSUME SchedulerInv, [Next]_vars
    PROVE  SchedulerInv'
  <1>1. TypeOK /\ ControlInv /\ ReactorInv /\ WakeInv /\ OnePlace /\ WorkInv
    BY DEF SchedulerInv
  <1>2. ControlInv' /\ ReactorInv' /\ WakeInv' /\ OnePlace' /\ WorkInv'
    BY <1>1, ControlKept, ReactorKept, WakeKept, PlacesKept, WorkKept
  <1>3. work' \in Nat
    <2>1. /\ IsFiniteSet(Counted') /\ work' = Cardinality(Counted') + IF guard' THEN 1 ELSE 0
      BY <1>2 DEF WorkInv, ContextExact
    <2>2. Cardinality(Counted') \in Nat
      BY <2>1, FS_CardinalityType
    <2> QED
      BY <2>1, <2>2
  <1>4. TypeOK'
    BY <1>1, <1>3, TypesKept
  <1> QED
    BY <1>2, <1>4 DEF SchedulerInv

\* The scheduler's inductive invariant, for every number of threads, operations and
\* descriptors.
THEOREM SchedulerInvariant == Spec => []SchedulerInv
  <1>1. Init => SchedulerInv
    BY InitInv
  <1>2. SchedulerInv /\ [Next]_vars => SchedulerInv'
    BY StepInv
  <1> QED
    BY <1>1, <1>2, PTL DEF Spec

\* Every variable keeps its type; in particular the count of outstanding work, an
\* atomic that work_finished decrements, never goes below zero.
THEOREM SchedulerTypes == Spec => []TypeOK
  <1>1. SchedulerInv => TypeOK
    BY DEF SchedulerInv
  <1> QED
    BY <1>1, SchedulerInvariant, PTL

\* task_operation_ is in the queue once, or with one thread: two threads are never in
\* epoll_wait together, and the reactor is never lost.
THEOREM ReactorInOnePlace == Spec => []OneTask
  <1>1. SchedulerInv => OneTask
    BY DEF SchedulerInv, ReactorInv
  <1> QED
    BY <1>1, SchedulerInvariant, PTL

\* When epoll_reactor::run runs, no descriptor_state is queued, so it may queue each.
THEOREM DescriptorsFree == Spec => []DescriptorsDequeued
  <1>1. ASSUME SchedulerInv, NEW t \in Threads, pc[t] \in {"task_poll", "task_wait"}
        PROVE  Descriptors \cap (Elements(opQueue) \cup Elements(privateQueue[t])) = {}
    <2>1. ThreadHolds(t) /\ PrivateHolds(t) /\ ReactorInv
      BY <1>1 DEF SchedulerInv, ControlInv
    <2>2. cur[t] = TaskOp
      BY <1>1, <2>1 DEF ThreadHolds, TaskSteps
    <2>3. privateQueue[t] = <<>>
      BY <1>1, <2>1, <2>2, Constants DEF PrivateHolds
    <2>4. \A i \in DOMAIN opQueue : opQueue[i] \notin Descriptors
      BY <2>1, <2>2 DEF ReactorInv, DescriptorsFirst
    <2> QED
      BY <2>3, <2>4 DEF Elements
  <1>2. SchedulerInv => DescriptorsDequeued
    BY <1>1 DEF DescriptorsDequeued
  <1> QED
    BY <1>2, SchedulerInvariant, PTL

\* No wake-up is lost between the queue, the event and epoll: while something is
\* queued, no thread sleeps unless another is on its way or a signal is due.
THEOREM NoWakeupLost == Spec => []NoLostWakeup
  <1>1. SchedulerInv => NoLostWakeup
    <2>1. SchedulerInv => WakeupComing
      BY DEF SchedulerInv, WakeInv
    <2>2. \A t \in Threads : AwakeInRun(t) => Awake(t)
      BY DEF AwakeInRun
    <2> QED
      BY <2>1, <2>2 DEF WakeupComing, NoLostWakeup
  <1> QED
    BY <1>1, SchedulerInvariant, PTL

\* After stop() no thread sleeps, in the event or in epoll_wait.
THEOREM StopLeavesNoSleeper == Spec => []StopWakesAll
  <1>1. SchedulerInv => StopWakesAll
    BY DEF SchedulerInv, WakeInv
  <1> QED
    BY <1>1, SchedulerInvariant, PTL

\* outstanding_work_ and the threads' private counts are exactly the unfinished
\* operations, so that the context stops for want of work only when none is left.
THEOREM WorkCountedExactly == Spec => []WorkExact
  <1>1. ASSUME SchedulerInv
        PROVE  WorkExact
    <2>1. /\ \A t \in Threads : PrivateExact(t)
          /\ work = Cardinality(Counted) + IF guard THEN 1 ELSE 0
      BY <1>1 DEF SchedulerInv, WorkInv, ContextExact
    <2>2. Counted = (Ready \cup Waiting \cup Running) \ UNION {Elements(Unsettled(t)) : t \in Threads}
      BY <1>1, CountedOnce DEF SchedulerInv, Unfinished
    <2> QED
      BY <2>1, <2>2 DEF WorkExact, PrivateExact
  <1> QED
    BY <1>1, SchedulerInvariant, PTL

-----------------------------------------------------------------------------
LEMMA StatusPlaces == TypeOK /\ OnePlace => StatusTells
  <1>. SUFFICES ASSUME TypeOK, OnePlace, NEW op \in Ops
                PROVE  /\ Status[op] \in {"new", "waiting", "ready", "running", "done"}
                       /\ (Status[op] = "new" <=> op \in fresh)
                       /\ (Status[op] = "waiting" <=> op \in Waiting)
                       /\ (Status[op] = "ready" <=> op \in Ready)
                       /\ (Status[op] = "running" <=> op \in Running)
    BY DEF StatusTells
  <1>1. op \in fresh <=> In(op, "fresh", NoOp)
    BY DEF In
  <1>2. op \in Waiting <=> \E d \in Descriptors : In(op, "waiting", d)
    BY DEF In, Waiting
  <1>3. op \in Ready <=> \/ In(op, "queue", NoOp) \/ \E u \in Threads : In(op, "private", u)
                         \/ \E u \in Callers : In(op, "out", u)
    BY ReadyPlaces DEF In
  <1>4. op \in Running <=> \E u \in Threads : In(op, "running", u)
    BY DEF In, Running
  <1>5. /\ op \in fresh => op \notin Waiting /\ op \notin Ready /\ op \notin Running
        /\ op \in Waiting => op \notin Ready /\ op \notin Running
        /\ op \in Ready => op \notin Running
    BY <1>1, <1>2, <1>3, <1>4 DEF OnePlace
  <1>6. Status[op] = StatusOf(op)
    BY DEF Status
  <1> QED
    BY <1>5, <1>6 DEF StatusOf

LEMMA StatusPlacesNext == TypeOK' /\ OnePlace' => StatusTells'
  BY StatusPlaces, PTL

LEMMA ReadyPlacesNext ==
    ASSUME NEW op
    PROVE  op \in Ready' <=>
             /\ op \in Ops
             /\ \/ op \in Elements(opQueue')
                \/ \E u \in Threads : op \in Elements(privateQueue'[u])
                \/ \E u \in Callers : op \in Elements(out'[u])
  <1>1. PICK A : A = UNION {Elements(privateQueue'[u]) : u \in Threads}
    OBVIOUS
  <1>2. PICK B : B = UNION {Elements(out'[u]) : u \in Callers}
    OBVIOUS
  <1>3. op \in A <=> \E u \in Threads : op \in Elements(privateQueue'[u])
    BY <1>1
  <1>4. op \in B <=> \E u \in Callers : op \in Elements(out'[u])
    BY <1>2
  <1>5. Ready' = Ops \cap (Elements(opQueue') \cup A \cup B)
    BY <1>1, <1>2 DEF Ready
  <1> QED
    BY <1>3, <1>4, <1>5

\* An operation that a step of t leaves alone keeps its status.
LEMMA StatusKept ==
    ASSUME TypeOK, ControlInv, StatusTells, StatusTells', NEW t \in Callers,
           \A u \in Callers \ {t} : Undisturbed(u), NEW op \in Ops, KeptBy(t, op)
    PROVE  Status'[op] = Status[op]
  <1>0. Threads \subseteq Callers
    BY Constants
  <1>1. \A u \in Callers \ {t} : out'[u] = out[u] /\ cur'[u] = cur[u]
    BY DEF Undisturbed
  <1>2. \A u \in Threads \ {t} : privateQueue'[u] = privateQueue[u]
    BY <1>0 DEF Undisturbed
  <1>3. PICK E : E <=> \/ \E u \in Threads \ {t} : op \in Elements(privateQueue[u])
                       \/ \E u \in Callers \ {t} : op \in Elements(out[u])
    OBVIOUS
  <1>4. op \in Ready <=> ReadyAt(t, op) \/ E
    BY <1>3, ReadyPlaces DEF ReadyAt
  <1>5. op \in Ready' <=> ReadyAt(t, op)' \/ E
    BY <1>1, <1>2, <1>3, ReadyPlacesNext DEF ReadyAt
  <1>6. op \in Running' <=> op \in Running
    <2>1. op \in Running <=> RunsAt(t, op) \/ \E u \in Threads \ {t} : op = cur[u]
      BY DEF Running, RunsAt
    <2>2. op \in Running' <=> RunsAt(t, op)' \/ \E u \in Threads \ {t} : op = cur[u]
      BY <1>0, <1>1 DEF Running, RunsAt
    <2> QED
      BY <2>1, <2>2 DEF KeptBy
  <1>7. op \in Ready' <=> op \in Ready
    BY <1>4, <1>5 DEF KeptBy
  <1>8. (op \in fresh' <=> op \in fresh) /\ (op \in Waiting' <=> op \in Waiting)
    BY DEF KeptBy
  <1> QED
    BY <1>6, <1>7, <1>8 DEF StatusTells

\* The steps that change no operation's status.
LEMMA QuietStatus ==
    ASSUME TypeOK, ControlInv, NEW t \in Callers, NEW op \in Ops,
           \/ t \in Threads /\ \/ Run(t) \/ RunReturns(t) \/ Idle(t) \/ Relock(t) \/ EpollWait(t)
                               \/ TaskCleanup(t) \/ Flush(t) \/ SpuriousWakeup(t)
           \/ CallStep(t)
           \/ t = Main /\ (ResetGuard \/ CallStop)
    PROVE  KeptBy(t, op)
  <1>0. /\ opQueue \in Seq(Entries) /\ out[t] \in Seq(Entries)
        /\ op # NoOp /\ op # TaskOp /\ op \notin Descriptors
    BY Constants DEF TypeOK
  <1>1. ASSUME UNCHANGED <<queues, cur>>
        PROVE  KeptBy(t, op)
    BY <1>1 DEF KeptBy, ReadyAt, RunsAt, Waiting, queues
  <1>2. CASE \/ t \in Threads /\ (Run(t) \/ RunReturns(t) \/ Idle(t) \/ Relock(t) \/ SpuriousWakeup(t))
             \/ Signal(t) \/ Stop(t) \/ (t = Main /\ (ResetGuard \/ CallStop))
    BY <1>1, <1>2 DEF Run, RunReturns, Idle, Relock, SpuriousWakeup, Signal, Stop, ResetGuard, CallStop
  <1>3. CASE t \in Threads /\ EpollWait(t)
    <2>1. PICK s \in SetToSeqs(events) : privateQueue' = [privateQueue EXCEPT ![t] = @ \o s]
      BY <1>3 DEF EpollWait
    <2>2. s \in Seq(Entries) /\ Elements(s) \subseteq Descriptors /\ privateQueue[t] \in Seq(Entries)
      BY <1>3, Reported, Constants DEF TypeOK
    <2>3. Elements(privateQueue[t] \o s) = Elements(privateQueue[t]) \cup Elements(s)
      BY <2>2, ElementsOf
    <2>4. privateQueue'[t] = privateQueue[t] \o s
      BY <1>3, <2>1 DEF TypeOK
    <2>5. op \in Elements(privateQueue'[t]) <=> op \in Elements(privateQueue[t])
      BY <1>0, <2>2, <2>3, <2>4
    <2>6. UNCHANGED <<opQueue, out, pending, fresh, cur>> /\ Waiting' = Waiting
      BY <1>3 DEF EpollWait, Waiting
    <2> QED
      BY <2>5, <2>6 DEF KeptBy, ReadyAt, RunsAt
  <1>4. CASE t \in Threads /\ TaskCleanup(t)
    <2>0. PICK r \in Seq(Entries) : r = <<TaskOp>>
      <3>1. <<TaskOp>> \in Seq(Entries)
        BY Constants
      <3> QED
        BY <3>1
    <2>1. PICK q \in Seq(Entries) : q = privateQueue[t] \o r
      <3>1. privateQueue[t] \o r \in Seq(Entries)
        BY <1>4 DEF TypeOK
      <3> QED
        BY <3>1
    <2>2. /\ UNCHANGED <<out, pending, fresh>> /\ pc[t] = "task_done" /\ cur'[t] = NoOp
          /\ privateQueue'[t] = <<>> /\ privateQueue[t] \in Seq(Entries)
      BY <1>4 DEF TaskCleanup, TypeOK
    <2>3. opQueue' = opQueue \o q
      BY <1>4, <2>0, <2>1 DEF TaskCleanup, Requeue
    <2>4. Elements(opQueue \o q) = Elements(opQueue) \cup Elements(q) /\ Elements(<<>>) = {}
      BY <1>0, ElementsOf
    <2>5. Elements(privateQueue[t] \o r) = Elements(privateQueue[t]) \cup Elements(r)
      BY <2>2, ElementsOf
    <2>6. Elements(r) = {TaskOp}
      BY <2>0, ElementsOf
    <2>7. cur[t] = TaskOp /\ Elements(privateQueue[t]) \subseteq Descriptors
      BY <1>4, <2>2 DEF ControlInv, ThreadHolds, PrivateHolds, TaskSteps, Elements
    <2>8. op \notin Elements(q) /\ op \notin Elements(privateQueue[t])
      BY <1>0, <2>1, <2>5, <2>6, <2>7
    <2>9. op \in Elements(opQueue') <=> op \in Elements(opQueue)
      BY <2>3, <2>4, <2>8
    <2>10. op \notin Elements(privateQueue'[t])
      BY <2>2, <2>4
    <2>11. Waiting' = Waiting
      BY <2>2 DEF Waiting
    <2> QED
      BY <1>0, <2>2, <2>7, <2>8, <2>9, <2>10, <2>11 DEF KeptBy, ReadyAt, RunsAt
  <1>5. CASE t \in Threads /\ Flush(t)
    <2>1. /\ UNCHANGED <<out, pending, fresh, cur>> /\ opQueue' = opQueue \o privateQueue[t]
          /\ privateQueue'[t] = <<>> /\ privateQueue[t] \in Seq(Entries)
      BY <1>5 DEF Flush, TypeOK
    <2>2. /\ Elements(opQueue') = Elements(opQueue) \cup Elements(privateQueue[t])
          /\ Elements(privateQueue'[t]) = {}
      BY <1>0, <2>1, ElementsOf
    <2>3. Waiting' = Waiting
      BY <2>1 DEF Waiting
    <2> QED
      BY <1>5, <2>1, <2>2, <2>3 DEF KeptBy, ReadyAt, RunsAt
  <1>6. CASE Push(t)
    <2>1. /\ UNCHANGED <<privateQueue, pending, fresh, cur>> /\ opQueue' = opQueue \o out[t]
          /\ out'[t] = <<>>
      BY <1>6 DEF Push, TypeOK
    <2>2. Elements(opQueue') = Elements(opQueue) \cup Elements(out[t]) /\ Elements(out'[t]) = {}
      BY <1>0, <2>1, ElementsOf
    <2>3. Waiting' = Waiting
      BY <2>1 DEF Waiting
    <2> QED
      BY <2>1, <2>2, <2>3 DEF KeptBy, ReadyAt, RunsAt
  <1> QED
    BY <1>2, <1>3, <1>4, <1>5, <1>6 DEF CallStep

\* Taking an entry makes the operation run, and touches no other.
LEMMA TakenStatus ==
    ASSUME TypeOK, ControlInv, NEW t \in Threads, Pop(t)
    PROVE  /\ \A op \in Ops : op # opQueue[1] => KeptBy(t, op)
           /\ opQueue[1] \in Ops => opQueue[1] \in Ready /\ opQueue[1] \in Running'
  <1>1. /\ UNCHANGED <<privateQueue, out, pending, fresh>> /\ cur'[t] = opQueue[1]
        /\ Elements(opQueue) = {opQueue[1]} \cup Elements(opQueue')
    BY Popped, Constants DEF Pop, TypeOK
  <1>2. cur[t] = NoOp /\ Waiting' = Waiting
    BY <1>1 DEF Pop, AtLoop, ControlInv, ThreadHolds, FreeSteps, Waiting
  <1>3. \A op \in Ops : op # opQueue[1] => KeptBy(t, op)
    BY <1>1, <1>2, Constants DEF KeptBy, ReadyAt, RunsAt
  <1>4. opQueue[1] \in Ops => opQueue[1] \in Ready /\ opQueue[1] \in Running'
    BY <1>1, ReadyPlaces DEF Running
  <1> QED
    BY <1>3, <1>4

\* perform_io: the first operation runs, the others that are finished are ready.
LEMMA IoStatus ==
    ASSUME TypeOK, ControlInv, OnePlace, NEW t \in Threads, PerformIo(t)
    PROVE  \/ \A op \in Ops : KeptBy(t, op)
           \/ \E first \in Ops, S \in SUBSET Ops :
                 /\ first \in Waiting /\ first \in Running' /\ first \notin S
                 /\ S \subseteq Waiting /\ S \subseteq Ready'
                 /\ \A op \in Ops : op # first /\ op \notin S => KeptBy(t, op)
  <1>. PICK d : d = cur[t]
    OBVIOUS
  <1>1. /\ d \in Descriptors /\ pending[d] \in Seq(Ops) /\ NoRepeat(pending[d])
        /\ UNCHANGED <<opQueue, privateQueue, fresh>> /\ pc[t] = "handler" /\ t \in Callers
    BY Constants DEF PerformIo, TypeOK, OnePlace
  <1>2. PICK n \in 0 .. Len(pending[d]) :
          /\ pending' = [pending EXCEPT ![d] = SubSeq(@, n + 1, Len(@))]
          /\ cur' = [cur EXCEPT ![t] = IF n = 0 THEN NoOp ELSE pending[d][1]]
          /\ out' = [out EXCEPT ![t] = SubSeq(pending[d], 2, n)]
    BY DEF PerformIo
  <1>3. PICK a, b : a = SubSeq(pending[d], 2, n) /\ b = SubSeq(pending[d], n + 1, Len(pending[d]))
    OBVIOUS
  <1>4. /\ a \in Seq(Ops)
        /\ n = 0 => a = <<>> /\ b = pending[d]
        /\ n > 0 => /\ pending[d][1] \in Ops
                    /\ Elements(pending[d]) = {pending[d][1]} \cup Elements(a) \cup Elements(b)
                    /\ pending[d][1] \notin Elements(a)
    <2>1. PICK s \in Seq(Ops) : s = pending[d]
      BY <1>1
    <2>2. Parts(s, n, a, b)
      BY <1>3, <2>1 DEF Parts
    <2>3. /\ a \in Seq(Ops)
          /\ n = 0 => a = <<>> /\ b = s
          /\ n # 0 => s[1] \in Ops /\ Elements(s) = {s[1]} \cup Elements(a) \cup Elements(b)
          /\ NoRepeat(s) => NoRepeat(a) /\ NoRepeat(b)
          /\ NoRepeat(s) /\ n # 0 => /\ s[1] \notin Elements(a) \cup Elements(b)
                                    /\ Elements(a) \cap Elements(b) = {}
      BY <2>2, Performed
    <2> QED
      BY <1>1, <2>1, <2>3
  <1>5. /\ pending'[d] = b /\ \A e \in Descriptors \ {d} : pending'[e] = pending[e]
        /\ out'[t] = a
        /\ cur'[t] = IF n = 0 THEN NoOp ELSE pending[d][1]
    BY <1>1, <1>2, <1>3 DEF TypeOK
  <1>6. n \in Nat /\ Elements(<<>>) = {} /\ out[t] = <<>>
    BY <1>1, LenProperties DEF Elements, ControlInv
  <1>7. CASE n = 0
    <2>1. pending' = pending
      BY <1>2, <1>3, <1>4, <1>7 DEF TypeOK
    <2>2. Waiting' = Waiting /\ Elements(out'[t]) = {} /\ Elements(out[t]) = {} /\ cur'[t] = NoOp
      BY <1>4, <1>5, <1>6, <1>7, <2>1 DEF Waiting
    <2> QED
      BY <1>1, <2>2, Constants DEF KeptBy, ReadyAt, RunsAt
  <1>8. CASE n > 0
    <2>1. /\ cur'[t] = pending[d][1] /\ pending[d][1] \in Ops
          /\ Elements(pending[d]) = {pending[d][1]} \cup Elements(a) \cup Elements(b)
          /\ pending[d][1] \notin Elements(a)
      BY <1>4, <1>5, <1>6, <1>8
    <2>2. Elements(a) \subseteq Ops
      BY <1>4, ElementsOf
    <2>3. pending[d][1] \in Waiting /\ pending[d][1] \in Running'
      BY <1>1, <2>1 DEF Waiting, Running
    <2>4. Elements(a) \subseteq Waiting
      BY <1>1, <2>1 DEF Waiting
    <2>5. Elements(a) \subseteq Ready'
      BY <1>1, <1>5, <2>2, ReadyPlacesNext
    <2>6. ASSUME NEW op \in Ops, op # pending[d][1], op \notin Elements(a)
          PROVE  KeptBy(t, op)
      <3>1. op \in Waiting' <=> op \in Waiting
        BY <1>1, <1>5, <2>1, <2>6 DEF Waiting
      <3>2. op \notin Elements(out[t]) /\ op \notin Elements(out'[t]) /\ op # cur[t] /\ op # cur'[t]
        BY <1>1, <1>5, <1>6, <2>1, <2>6, Constants
      <3> QED
        BY <1>1, <3>1, <3>2 DEF KeptBy, ReadyAt, RunsAt
    <2> QED
      BY <2>1, <2>2, <2>3, <2>4, <2>5, <2>6
  <1> QED
    BY <1>6, <1>7, <1>8

\* The handler's operation is done.
LEMMA HandledStatus ==
    ASSUME TypeOK, ControlInv, OnePlace, StatusTells, NEW t \in Threads, HandlerReturns(t)
    PROVE  /\ \A op \in Ops : op # cur[t] => KeptBy(t, op)
           /\ cur[t] \in Ops => /\ cur[t] \in Running /\ cur[t] \notin Running'
                                /\ cur[t] \notin fresh' /\ cur[t] \notin Waiting' /\ cur[t] \notin Ready'
  <1>1. UNCHANGED queues /\ cur' = [cur EXCEPT ![t] = NoOp] /\ t \in Callers
    BY Constants DEF HandlerReturns
  <1>2. cur'[t] = NoOp /\ \A u \in Threads \ {t} : cur'[u] = cur[u]
    BY <1>1, Constants DEF TypeOK
  <1>3. UNCHANGED <<opQueue, privateQueue, out, pending, fresh>> /\ Waiting' = Waiting /\ Ready' = Ready
    BY <1>1 DEF queues, Waiting, Ready
  <1>4. \A op \in Ops : op # cur[t] => KeptBy(t, op)
    BY <1>2, <1>3, Constants DEF KeptBy, ReadyAt, RunsAt
  <1>5. ASSUME NEW o \in Ops, o = cur[t]
        PROVE  o \in Running /\ o \notin Running' /\ o \notin fresh' /\ o \notin Waiting' /\ o \notin Ready'
    <2>1. o \in Running
      BY <1>5 DEF Running
    <2>2. o \notin fresh /\ o \notin Waiting /\ o \notin Ready
      BY <2>1 DEF StatusTells
    <2>3. In(o, "running", t)
      BY <1>5 DEF In
    <2>4. \A u \in Threads \ {t} : ~In(o, "running", u)
      BY <2>3, PlacesApart
    <2>5. \A u \in Threads \ {t} : cur[u] # o
      BY <2>4 DEF In
    <2>6. o \notin Running'
      BY <1>2, <2>5, Constants DEF Running
    <2> QED
      BY <1>3, <2>1, <2>2, <2>6
  <1> QED
    BY <1>4, <1>5

\* What the program makes, starts or cancels.
LEMMA ProgramStatus ==
    ASSUME TypeOK, ControlInv, NEW t \in Callers, ProgramStep(t)
    PROVE  \/ \E made \in Ops :
                 /\ made \in fresh /\ (made \in Ready' \/ made \in Waiting')
                 /\ \A op \in Ops : op # made => KeptBy(t, op)
                 /\ guard \/ Running # {}
           \/ \E S \in SUBSET Ops :
                 /\ S \subseteq Waiting /\ S \subseteq Ready'
                 /\ \A op \in Ops : op \notin S => KeptBy(t, op)
  <1>0. t \in Threads \/ t = Main
    BY Constants
  <1>1. ASSUME InProgram(t) \/ (pc[t] = "handler" /\ cur[t] \in Ops)
        PROVE  guard \/ Running # {}
    <2>1. guard \/ (pc[t] = "handler" /\ cur[t] \in Ops)
      BY <1>1 DEF InProgram
    <2>2. pc[t] = "handler" => t \in Threads
      BY <1>0 DEF ControlInv
    <2> QED
      BY <2>1, <2>2 DEF Running
  <1>2. ASSUME NEW made \in Ops, Post(t, made)
        PROVE  /\ made \in fresh /\ made \in Ready'
               /\ \A op \in Ops : op # made => KeptBy(t, op)
               /\ guard \/ Running # {}
    <2>1. /\ UNCHANGED <<opQueue, privateQueue, pending, cur>> /\ fresh' = fresh \ {made}
          /\ out'[t] = <<made>> /\ made \in fresh /\ InProgram(t)
      BY <1>2 DEF Post, TypeOK
    <2>2. out[t] = <<>>
      BY <2>1 DEF ControlInv, InProgram
    <2>3. Elements(out'[t]) = {made} /\ Elements(out[t]) = {} /\ Waiting' = Waiting
      BY <2>1, <2>2 DEF Elements, Waiting
    <2>4. made \in Ready'
      BY <2>3, ReadyPlacesNext
    <2>5. \A op \in Ops : op # made => KeptBy(t, op)
      BY <2>1, <2>3 DEF KeptBy, ReadyAt, RunsAt
    <2> QED
      BY <1>1, <2>1, <2>4, <2>5
  <1>3. ASSUME NEW made \in Ops, t # Main, PostContinuation(t, made)
        PROVE  /\ made \in fresh /\ made \in Ready'
               /\ \A op \in Ops : op # made => KeptBy(t, op)
               /\ guard \/ Running # {}
    <2>1. /\ UNCHANGED <<opQueue, out, pending, cur>> /\ fresh' = fresh \ {made}
          /\ made \in fresh /\ pc[t] = "handler" /\ cur[t] \in Ops /\ t \in Threads
          /\ privateQueue[t] \in Seq(Entries) /\ made \in Entries
          /\ privateQueue'[t] = Append(privateQueue[t], made)
      BY <1>0, <1>3, Constants DEF PostContinuation, TypeOK
    <2>2. Elements(privateQueue'[t]) = Elements(privateQueue[t]) \cup {made} /\ Waiting' = Waiting
      BY <2>1, ElementsOf DEF Waiting
    <2>3. made \in Ready'
      BY <2>1, <2>2, ReadyPlacesNext
    <2>4. \A op \in Ops : op # made => KeptBy(t, op)
      BY <2>1, <2>2 DEF KeptBy, ReadyAt, RunsAt
    <2> QED
      BY <1>1, <2>1, <2>3, <2>4
  <1>4. ASSUME NEW made \in Ops, NEW d \in Descriptors, StartOp(t, made, d)
        PROVE  /\ made \in fresh /\ made \in Waiting'
               /\ \A op \in Ops : op # made => KeptBy(t, op)
               /\ guard \/ Running # {}
    <2>1. /\ UNCHANGED <<opQueue, out, privateQueue, cur>> /\ fresh' = fresh \ {made}
          /\ made \in fresh /\ InProgram(t)
          /\ pending[d] \in Seq(Ops) /\ pending'[d] = Append(pending[d], made)
          /\ \A e \in Descriptors \ {d} : pending'[e] = pending[e]
      BY <1>4 DEF StartOp, TypeOK
    <2>2. Elements(pending'[d]) = Elements(pending[d]) \cup {made}
      BY <2>1, ElementsOf
    <2>3. made \in Waiting' /\ \A op \in Ops : op # made => (op \in Waiting' <=> op \in Waiting)
      BY <2>1, <2>2 DEF Waiting
    <2>4. \A op \in Ops : op # made => KeptBy(t, op)
      BY <2>1, <2>3 DEF KeptBy, ReadyAt, RunsAt
    <2> QED
      BY <1>1, <2>1, <2>3, <2>4
  <1>5. ASSUME NEW d \in Descriptors, CancelOps(t, d)
        PROVE  /\ Elements(pending[d]) \subseteq Ops /\ Elements(pending[d]) \subseteq Waiting
               /\ Elements(pending[d]) \subseteq Ready'
               /\ \A op \in Ops : op \notin Elements(pending[d]) => KeptBy(t, op)
    <2>1. /\ UNCHANGED <<opQueue, privateQueue, fresh, cur>> /\ out'[t] = pending[d]
          /\ pending[d] \in Seq(Ops) /\ pc[t] # "push"
          /\ pending'[d] = <<>> /\ \A e \in Descriptors \ {d} : pending'[e] = pending[e]
      BY <1>5 DEF CancelOps, TypeOK
    <2>2. Elements(out[t]) = {} /\ Elements(pending'[d]) = {} /\ Elements(pending[d]) \subseteq Ops
      BY <2>1, ElementsOf DEF Elements, ControlInv
    <2>3. Elements(pending[d]) \subseteq Waiting
      BY DEF Waiting
    <2>4. Elements(pending[d]) \subseteq Ready'
      BY <2>1, <2>2, ReadyPlacesNext
    <2>5. ASSUME NEW op \in Ops, op \notin Elements(pending[d])
          PROVE  KeptBy(t, op)
      <3>1. op \in Waiting' <=> op \in Waiting
        BY <2>1, <2>2, <2>5 DEF Waiting
      <3> QED
        BY <2>1, <2>2, <2>5, <3>1 DEF KeptBy, ReadyAt, RunsAt
    <2> QED
      BY <2>2, <2>3, <2>4, <2>5
  <1> QED
    BY <1>2, <1>3, <1>4, <1>5 DEF ProgramStep

-----------------------------------------------------------------------------
\* FiniteSets in Executor is the scheduler's.
LEMMA SameCardinality ==
    ASSUME NEW S
    PROVE  Executor!Cardinality(S) = Cardinality(S)
  BY DEF Executor!Cardinality, Cardinality

\* A thread in run() that runs no operation has room for one.
LEMMA RunningRoom ==
    ASSUME TypeOK, ControlInv, StatusTells, NEW t \in Threads, cur[t] \notin Ops,
           pc[t] # "returned"
    PROVE  Cardinality(Executor!With("running")) < Cardinality(InRun)
  <1>1. PICK A : A = {u \in Threads : cur[u] \in Ops}
    OBVIOUS
  <1>2. PICK f : f = [u \in A |-> cur[u]]
    OBVIOUS
  <1>3. Executor!With("running") = Running
    BY DEF Executor!With, StatusTells, Running
  <1>4. f \in Surjection(A, Running)
    BY <1>1, <1>2 DEF Surjection, Running
  <1>5. A \subseteq InRun \ {t}
    BY <1>1, Constants DEF InRun, ControlInv, ThreadHolds, FreeSteps
  <1>6. IsFiniteSet(InRun) /\ t \in InRun
    <2>1. IsFiniteSet(Threads) /\ InRun \in SUBSET Threads
      BY SchedulerAssumption DEF InRun
    <2> QED
      BY <2>1, FS_Subset DEF InRun
  <1>7. /\ IsFiniteSet(InRun \ {t}) /\ Cardinality(InRun) \in Nat
        /\ Cardinality(InRun \ {t}) = Cardinality(InRun) - 1
    BY <1>6, FS_RemoveElement, FS_CardinalityType
  <1>8. IsFiniteSet(A) /\ Cardinality(A) <= Cardinality(InRun \ {t})
    BY <1>5, <1>7, FS_Subset
  <1>9. IsFiniteSet(Running) /\ Cardinality(Running) <= Cardinality(A)
    BY <1>4, <1>8, FS_Surjection
  <1>10. Cardinality(A) \in Nat /\ Cardinality(Running) \in Nat
    BY <1>8, <1>9, FS_CardinalityType
  <1> QED
    BY <1>3, <1>7, <1>8, <1>9, <1>10

\* A thread leaves run() only where run() returns.
LEMMA LeavesByReturning ==
    ASSUME TypeOK, ControlInv, NEW t \in Threads, StepOf(t)
    PROVE  /\ pc[t] # "returned"
           /\ RunReturns(t) \/ pc'[t] # "returned"
  <1>0. t \in Callers /\ t # Main /\ pc[t] # "outside"
    BY Constants DEF ControlInv, ThreadHolds
  <1>. USE DEF TypeOK, Goto
  <1>1. CASE Run(t) \/ Idle(t) \/ Relock(t)
    BY <1>0, <1>1 DEF Run, Idle, Relock, AtLoop
  <1>2. CASE RunReturns(t)
    BY <1>2 DEF RunReturns, AtLoop
  <1>3. CASE TakeTask(t)
    BY <1>0, <1>3 DEF TakeTask, Pop, AtLoop
  <1>4. CASE TakeOp(t)
    BY <1>0, <1>4 DEF TakeOp, Pop, AtLoop, WakeOneThread
  <1>5. CASE EpollWait(t) \/ TaskCleanup(t) \/ Flush(t) \/ SpuriousWakeup(t)
    BY <1>0, <1>5 DEF EpollWait, TaskCleanup, Flush, SpuriousWakeup
  <1>6. CASE PerformIo(t)
    BY <1>0, <1>6 DEF PerformIo
  <1>7. CASE HandlerReturns(t)
    BY <1>0, <1>7 DEF HandlerReturns, AfterHandler
  <1>8. CASE Signal(t)
    BY <1>0, <1>8 DEF Signal, Resume
  <1>9. CASE Push(t)
    BY <1>0, <1>9 DEF Push, WakeOneThread, Resume
  <1>10. CASE Stop(t)
    BY <1>0, <1>10 DEF Stop, WakeAllThreads, AfterHandler
  <1>11. CASE ProgramStep(t)
    BY <1>0, <1>11 DEF ProgramStep, Post, PostContinuation, StartOp, CancelOps, InProgram
  <1> QED
    BY <1>0, <1>1, <1>2, <1>3, <1>4, <1>5, <1>6, <1>7, <1>8, <1>9, <1>10, <1>11
    DEF StepOf, RunStep, CallStep

LEMMA InRunAfter ==
    ASSUME TypeOK, ControlInv, NEW t \in Callers, StepOf(t)
    PROVE  /\ t \in Threads /\ RunReturns(t) => t \in InRun /\ InRun' = InRun \ {t}
           /\ ~(t \in Threads /\ RunReturns(t)) => InRun' = InRun
  <1>1. \A u \in Threads \ {t} : pc'[u] # "returned" <=> pc[u] # "returned"
    BY OthersUndisturbed, Constants DEF Undisturbed
  <1>2. t \in Threads => pc[t] # "returned" /\ (RunReturns(t) \/ pc'[t] # "returned")
    BY LeavesByReturning
  <1>3. t \in Threads /\ RunReturns(t) => pc'[t] = "returned"
    BY DEF RunReturns, Goto, TypeOK
  <1> QED
    BY <1>1, <1>2, <1>3 DEF InRun

\* Only stop() ends the context, and only the owner gives up the guard.
LEMMA EndsByStopping ==
    ASSUME NEW t \in Callers, StepOf(t)
    PROVE  Stop(t) \/ (t = Main /\ (ResetGuard \/ CallStop)) \/ UNCHANGED <<stopped, asked, guard>>
  <1>. USE DEF counts
  <1>1. CASE RunStep(t) \/ SpuriousWakeup(t)
    BY <1>1 DEF RunStep, SpuriousWakeup, Run, RunReturns, Idle, TakeTask, TakeOp, Pop, Relock,
       EpollWait, TaskCleanup, PerformIo, HandlerReturns, Flush
  <1>2. CASE Signal(t) \/ Push(t)
    BY <1>2 DEF Signal, Push
  <1>3. CASE ProgramStep(t)
    BY <1>3 DEF ProgramStep, Post, PostContinuation, StartOp, CancelOps
  <1> QED
    BY <1>1, <1>2, <1>3 DEF StepOf, CallStep

-----------------------------------------------------------------------------
\* What the mapped steps have in common: the statuses of operations left alone stay.
LEMMA StatusesKept ==
    ASSUME SchedulerInv, SchedulerInv', NEW t \in Callers, StepOf(t)
    PROVE  /\ StatusTells /\ StatusTells'
           /\ \A op \in Ops : KeptBy(t, op) => Status'[op] = Status[op]
           /\ Status = [op \in Ops |-> Status[op]] /\ Status' = [op \in Ops |-> Status'[op]]
  <1>1. TypeOK /\ ControlInv /\ OnePlace /\ TypeOK' /\ OnePlace'
    BY DEF SchedulerInv
  <1>2. StatusTells /\ StatusTells'
    BY <1>1, StatusPlaces, StatusPlacesNext
  <1>3. \A u \in Callers \ {t} : Undisturbed(u)
    BY <1>1, OthersUndisturbed
  <1>4. \A op \in Ops : KeptBy(t, op) => Status'[op] = Status[op]
    BY <1>1, <1>2, <1>3, StatusKept
  <1>5. Status = [op \in Ops |-> Status[op]] /\ Status' = [op \in Ops |-> Status'[op]]
    BY DEF Status
  <1> QED
    BY <1>2, <1>4, <1>5

\* The abstract steps of taking entries, of looking after a socket and of a handler's end.
LEMMA HandlingMaps ==
    ASSUME SchedulerInv, SchedulerInv', NEW t \in Threads, StepOf(t),
           TakeTask(t) \/ TakeOp(t) \/ PerformIo(t) \/ HandlerReturns(t),
           InRun' = InRun, Ended' = Ended, guard' = guard
    PROVE  Executor!Next \/ UNCHANGED Executor!vars
  <1>0. TypeOK /\ ControlInv /\ OnePlace /\ t \in Callers /\ pc[t] # "returned"
    BY LeavesByReturning, Constants DEF SchedulerInv
  <1>1. /\ StatusTells /\ StatusTells'
        /\ \A op \in Ops : KeptBy(t, op) => Status'[op] = Status[op]
        /\ Status = [op \in Ops |-> Status[op]] /\ Status' = [op \in Ops |-> Status'[op]]
    BY <1>0, StatusesKept
  <1>2. ASSUME \A op \in Ops : KeptBy(t, op)
        PROVE  UNCHANGED Executor!vars
    <2>1. Status' = Status
      BY <1>1, <1>2
    <2> QED
      BY <2>1 DEF Executor!vars
  <1>3. cur[t] \notin Ops =>
          Executor!Cardinality(Executor!With("running")) < Executor!Cardinality(InRun)
    BY <1>0, <1>1, RunningRoom, SameCardinality
  <1>4. CASE TakeTask(t) \/ TakeOp(t)
    <2>1. Pop(t) /\ ~stopped /\ cur[t] \notin Ops
      BY <1>0, <1>4, Constants DEF TakeTask, TakeOp, Pop, AtLoop, ControlInv, ThreadHolds, FreeSteps
    <2>2. /\ \A op \in Ops : op # opQueue[1] => KeptBy(t, op)
          /\ opQueue[1] \in Ops => opQueue[1] \in Ready /\ opQueue[1] \in Running'
      BY <1>0, <2>1, TakenStatus
    <2>3. CASE opQueue[1] \notin Ops
      BY <1>2, <2>2, <2>3
    <2>4. ASSUME NEW op \in Ops, op = opQueue[1]
          PROVE  Executor!Next
      <3>1. Status[op] = "ready" /\ Status'[op] = "running"
        BY <1>1, <2>2, <2>4 DEF StatusTells
      <3>2. Status' = [Status EXCEPT ![op] = "running"]
        BY <1>1, <2>2, <2>4, <3>1
      <3>3. Ended = "no"
        BY <2>1 DEF Ended
      <3>4. Executor!Handle(op)
        BY <1>3, <2>1, <3>1, <3>2, <3>3 DEF Executor!Handle, Executor!Move
      <3> QED
        BY <3>4 DEF Executor!Next
    <2> QED
      BY <2>3, <2>4
  <1>5. CASE HandlerReturns(t)
    <2>1. /\ \A op \in Ops : op # cur[t] => KeptBy(t, op)
          /\ cur[t] \in Ops => /\ cur[t] \in Running /\ cur[t] \notin Running'
                               /\ cur[t] \notin fresh' /\ cur[t] \notin Waiting' /\ cur[t] \notin Ready'
      BY <1>0, <1>1, <1>5, HandledStatus
    <2>2. CASE cur[t] \notin Ops
      BY <1>2, <2>1, <2>2
    <2>3. ASSUME NEW op \in Ops, op = cur[t]
          PROVE  Executor!Next
      <3>1. Status[op] = "running" /\ Status'[op] = "done"
        BY <1>1, <2>1, <2>3 DEF StatusTells
      <3>2. Status' = [Status EXCEPT ![op] = "done"]
        BY <1>1, <2>1, <2>3, <3>1
      <3>3. Executor!Finish(op)
        BY <3>1, <3>2 DEF Executor!Finish, Executor!Move
      <3> QED
        BY <3>3 DEF Executor!Next
    <2> QED
      BY <2>2, <2>3
  <1>6. CASE PerformIo(t)
    <2>1. CASE \A op \in Ops : KeptBy(t, op)
      BY <1>2, <2>1
    <2>2. ASSUME NEW first \in Ops, NEW S \in SUBSET Ops,
                 first \in Waiting, first \in Running', first \notin S,
                 S \subseteq Waiting, S \subseteq Ready',
                 \A op \in Ops : op # first /\ op \notin S => KeptBy(t, op)
          PROVE  Executor!Next
      <3>1. Status[first] = "waiting" /\ Status'[first] = "running"
        BY <1>1, <2>2 DEF StatusTells
      <3>2. \A op \in S : Status[op] = "waiting" /\ Status'[op] = "ready"
        BY <1>1, <2>2 DEF StatusTells
      <3>3. Status' = [o \in Ops |-> IF o = first THEN "running"
                                     ELSE IF o \in S THEN "ready" ELSE Status[o]]
        BY <1>1, <2>2, <3>1, <3>2
      <3>4. S \in SUBSET Executor!With("waiting")
        BY <3>2 DEF Executor!With
      <3>5. cur[t] \notin Ops
        BY <1>6, Constants DEF PerformIo
      <3>6. Executor!HandleInPlace(first)
        BY <1>3, <3>1, <3>3, <3>4, <3>5 DEF Executor!HandleInPlace
      <3> QED
        BY <3>6 DEF Executor!Next
    <2> QED
      BY <1>0, <1>6, <2>1, <2>2, IoStatus
  <1> QED
    BY <1>4, <1>5, <1>6

\* The abstract steps of what the program does.
LEMMA MakingMaps ==
    ASSUME SchedulerInv, SchedulerInv', NEW t \in Callers, StepOf(t), ProgramStep(t),
           InRun' = InRun, Ended' = Ended, guard' = guard
    PROVE  Executor!Next
  <1>0. TypeOK /\ ControlInv
    BY DEF SchedulerInv
  <1>1. /\ StatusTells /\ StatusTells'
        /\ \A op \in Ops : KeptBy(t, op) => Status'[op] = Status[op]
        /\ Status = [op \in Ops |-> Status[op]] /\ Status' = [op \in Ops |-> Status'[op]]
    BY StatusesKept
  <1>2. ASSUME NEW made \in Ops, made \in fresh, made \in Ready' \/ made \in Waiting',
               \A op \in Ops : op # made => KeptBy(t, op), guard \/ Running # {}
        PROVE  Executor!Next
    <2>1. Status[made] = "new" /\ (Status'[made] = "ready" \/ Status'[made] = "waiting")
      BY <1>1, <1>2 DEF StatusTells
    <2>2. Status' = [Status EXCEPT ![made] = Status'[made]]
      BY <1>1, <1>2
    <2>3. guard \/ Executor!With("running") # {}
      BY <1>1, <1>2 DEF Executor!With, StatusTells, Running
    <2>4. Executor!Make(made)
      BY <2>1, <2>2, <2>3 DEF Executor!Make, Executor!Move
    <2> QED
      BY <2>4 DEF Executor!Next
  <1>3. ASSUME NEW S \in SUBSET Ops, S \subseteq Waiting, S \subseteq Ready',
               \A op \in Ops : op \notin S => KeptBy(t, op)
        PROVE  Executor!Next
    <2>1. \A op \in S : Status[op] = "waiting" /\ Status'[op] = "ready"
      BY <1>1, <1>3 DEF StatusTells
    <2>2. Status' = [op \in Ops |-> IF op \in S THEN "ready" ELSE Status[op]]
      BY <1>1, <1>3, <2>1
    <2>3. S \in SUBSET Executor!With("waiting")
      BY <2>1 DEF Executor!With
    <2>4. Executor!Wake
      BY <2>2, <2>3 DEF Executor!Wake
    <2> QED
      BY <2>4 DEF Executor!Next
  <1> QED
    BY <1>0, <1>2, <1>3, ProgramStatus

\* The abstract steps of the stopping context: somebody asks for it, or nothing is left.
LEMMA StoppingMaps ==
    ASSUME SchedulerInv, NEW t \in Callers, InRun' = InRun, Status' = Status,
           Stop(t) \/ CallStop \/ ResetGuard
    PROVE  Executor!Next \/ UNCHANGED Executor!vars
  <1>0. TypeOK /\ ControlInv /\ OnePlace /\ stopped \in BOOLEAN /\ asked \in BOOLEAN
    BY DEF SchedulerInv, TypeOK
  <1>1. CASE ResetGuard
    <2>1. guard /\ guard' = FALSE /\ Ended' = Ended
      BY <1>1 DEF ResetGuard, Ended
    <2>2. Executor!Release
      BY <2>1 DEF Executor!Release
    <2> QED
      BY <2>2 DEF Executor!Next
  <1>2. CASE CallStop
    <2>1. guard' = guard /\ stopped' = stopped /\ asked' /\ ~asked
      BY <1>2 DEF CallStop, counts
    <2>2. CASE ~stopped
      <3>1. Ended' = Ended
        BY <2>1, <2>2 DEF Ended
      <3> QED
        BY <2>1, <3>1 DEF Executor!vars
    <2>3. CASE stopped
      <3>1. Ended # "asked" /\ Ended' = "asked"
        BY <2>1, <2>3 DEF Ended
      <3>2. Executor!StopAsked
        BY <2>1, <3>1 DEF Executor!StopAsked
      <3> QED
        BY <3>2 DEF Executor!Next
    <2> QED
      BY <2>2, <2>3
  <1>3. CASE Stop(t)
    <2>1. guard' = guard /\ stopped' /\ asked' = asked /\ pc[t] \in {"stop", "stop_enter"}
      BY <1>3 DEF Stop, counts
    <2>2. CASE stopped
      <3>1. Ended' = Ended
        BY <2>1, <2>2 DEF Ended
      <3> QED
        BY <2>1, <3>1 DEF Executor!vars
    <2>3. CASE ~stopped /\ asked
      <3>1. Ended # "asked" /\ Ended' = "asked"
        BY <2>1, <2>3 DEF Ended
      <3>2. Executor!StopAsked
        BY <2>1, <3>1 DEF Executor!StopAsked
      <3> QED
        BY <3>2 DEF Executor!Next
    <2>4. CASE ~stopped /\ ~asked
      <3>1. ~guard /\ Counted = {}
        BY <2>1, <2>4 DEF SchedulerInv, WorkInv, StopJustified
      <3>2. Ready = {} /\ Waiting = {} /\ Running = {}
        BY <1>0, <3>1, NothingLeft DEF Unfinished
      <3>3. StatusTells
        BY <1>0, StatusPlaces
      <3>4. \A op \in Ops : Status[op] \in {"new", "done"}
        BY <3>2, <3>3 DEF StatusTells
      <3>5. Ended = "no" /\ Ended' = "drained"
        BY <2>1, <2>4 DEF Ended
      <3>6. Executor!RunOut
        BY <2>1, <3>1, <3>4, <3>5 DEF Executor!RunOut, Executor!NoWork
      <3> QED
        BY <3>6 DEF Executor!Next
    <2> QED
      BY <1>0, <2>2, <2>3, <2>4
  <1> QED
    BY <1>1, <1>2, <1>3

\* Every step of a caller is a step of Executor or leaves what it sees alone.
LEMMA StepMaps ==
    ASSUME SchedulerInv, SchedulerInv', NEW t \in Callers, StepOf(t)
    PROVE  Executor!Next \/ UNCHANGED Executor!vars
  <1>0. TypeOK /\ ControlInv
    BY DEF SchedulerInv
  <1>1. /\ \A op \in Ops : KeptBy(t, op) => Status'[op] = Status[op]
        /\ Status = [op \in Ops |-> Status[op]] /\ Status' = [op \in Ops |-> Status'[op]]
    BY StatusesKept
  <1>2. ASSUME \A op \in Ops : KeptBy(t, op)
        PROVE  Status' = Status
    BY <1>1, <1>2
  <1>3. ASSUME UNCHANGED <<stopped, asked, guard>>
        PROVE  Ended' = Ended /\ guard' = guard
    BY <1>3 DEF Ended
  <1>4. CASE t \in Threads /\ RunReturns(t)
    <2>1. t \in InRun /\ InRun' = InRun \ {t}
      BY <1>0, <1>4, InRunAfter
    <2>2. Status' = Status
      BY <1>0, <1>2, <1>4, QuietStatus
    <2>3. stopped /\ Ended' = Ended /\ guard' = guard
      BY <1>0, <1>3, <1>4 DEF RunReturns, ControlInv, counts
    <2>4. Ended # "no"
      BY <2>3 DEF Ended
    <2>5. Executor!Return(t)
      BY <2>1, <2>2, <2>3, <2>4 DEF Executor!Return
    <2> QED
      BY <1>4, <2>5 DEF Executor!Next
  <1>5. CASE ~(t \in Threads /\ RunReturns(t))
    <2>1. InRun' = InRun
      BY <1>0, <1>5, InRunAfter
    <2>2. CASE Stop(t) \/ (t = Main /\ (ResetGuard \/ CallStop))
      <3>1. Status' = Status
        BY <1>0, <1>2, <2>2, QuietStatus DEF CallStep
      <3> QED
        BY <2>1, <2>2, <3>1, StoppingMaps
    <2>3. CASE UNCHANGED <<stopped, asked, guard>>
      <3>1. Ended' = Ended /\ guard' = guard
        BY <1>3, <2>3
      <3>2. CASE t \in Threads /\ (TakeTask(t) \/ TakeOp(t) \/ PerformIo(t) \/ HandlerReturns(t))
        BY <2>1, <3>1, <3>2, HandlingMaps
      <3>3. CASE ProgramStep(t)
        BY <2>1, <3>1, <3>3, MakingMaps
      <3>4. CASE \/ t \in Threads /\ \/ Run(t) \/ Idle(t) \/ Relock(t) \/ EpollWait(t)
                                     \/ TaskCleanup(t) \/ Flush(t) \/ SpuriousWakeup(t)
                 \/ CallStep(t)
                 \/ t = Main /\ (ResetGuard \/ CallStop)
        <4>1. Status' = Status
          BY <1>0, <1>2, <3>4, QuietStatus
        <4> QED
          BY <2>1, <3>1, <4>1 DEF Executor!vars
      <3> QED
        BY <1>5, <3>2, <3>3, <3>4 DEF StepOf, RunStep
    <2> QED
      BY <2>2, <2>3, EndsByStopping
  <1> QED
    BY <1>4, <1>5

\* The scheduler implements Executor for every number of threads, operations and
\* descriptors: what is posted or started is run once and never lost, and run() does
\* not return before stop() was called or the last work has ended.
THEOREM SchedulerIsExecutor == Spec => IsExecutor
  <1>1. Init => Executor!Init
    <2>1. ASSUME Init
          PROVE  Executor!Init
      <3>1. fresh = Ops /\ guard = TRUE /\ stopped = FALSE
        BY <2>1 DEF Init
      <3>2. Status = [op \in Ops |-> "new"]
        BY <3>1 DEF Status, StatusOf
      <3>3. InRun = Threads
        BY <2>1, Constants DEF Init, InRun
      <3>4. Ended = "no"
        BY <3>1 DEF Ended
      <3> QED
        BY <3>1, <3>2, <3>3, <3>4 DEF Executor!Init
    <2> QED
      BY <2>1
  <1>2. SchedulerInv /\ SchedulerInv' /\ [Next]_vars => [Executor!Next]_(Executor!vars)
    <2>1. SUFFICES ASSUME SchedulerInv, SchedulerInv', [Next]_vars
                   PROVE  Executor!Next \/ UNCHANGED Executor!vars
      OBVIOUS
    <2>2. ASSUME UNCHANGED <<queues, cur, guard, stopped, asked, pc>>
          PROVE  UNCHANGED Executor!vars
      <3>1. UNCHANGED <<fresh, Waiting, Ready, Running>>
        BY <2>2 DEF queues, Waiting, Ready, Running
      <3>2. Status' = Status
        BY <3>1 DEF Status, StatusOf
      <3>3. Ended' = Ended /\ InRun' = InRun
        BY <2>2 DEF Ended, InRun
      <3> QED
        BY <2>2, <3>2, <3>3 DEF Executor!vars
    <2>3. ASSUME NEW d \in Descriptors, SocketEvent(d)
          PROVE  UNCHANGED Executor!vars
      BY <2>2, <2>3 DEF SocketEvent, counts
    <2>4. ASSUME UNCHANGED vars
          PROVE  UNCHANGED Executor!vars
      BY <2>2, <2>4 DEF vars, counts
    <2> QED
      BY <2>1, <2>3, <2>4, StepCases, StepMaps
  <1> QED
    BY <1>1, <1>2, SchedulerInvariant, PTL DEF Spec, IsExecutor, Executor!Spec
=============================================================================
