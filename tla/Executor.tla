------------------------------ MODULE Executor ------------------------------
(***************************************************************************)
(* What a program may expect of an io_context whose run() several threads  *)
(* have called.  An operation it posts or starts is run once, by one of    *)
(* them; new work comes from handlers or from the owner of the work guard; *)
(* the context ends when somebody asks for it or when there is no work     *)
(* left, and run() does not return before that.                            *)
(***************************************************************************)
EXTENDS Naturals, FiniteSets

CONSTANTS Threads, Ops

VARIABLES
    status,   \* per operation
    guarded,  \* the work guard is held
    ended,    \* why the context has stopped, or "no"
    inRun     \* the threads whose run() has not returned

vars == <<status, guarded, ended, inRun>>

With(s) == {op \in Ops : status[op] = s}

\* Nothing is left for which run() would have to go on.
NoWork == ~guarded /\ \A op \in Ops : status[op] \in {"new", "done"}

Init ==
    /\ status = [op \in Ops |-> "new"]
    /\ guarded = TRUE /\ ended = "no" /\ inRun = Threads

Move(op, from, to) ==
    /\ status[op] = from
    /\ status' = [status EXCEPT ![op] = to]
    /\ UNCHANGED <<guarded, ended, inRun>>

\* The program posts an operation, or starts one that waits for a socket.
Make(op) ==
    /\ guarded \/ With("running") # {}
    /\ Move(op, "new", "ready") \/ Move(op, "new", "waiting")

\* Operations that wait become ready together.
Wake ==
    /\ \E S \in SUBSET With("waiting") :
         status' = [op \in Ops |-> IF op \in S THEN "ready" ELSE status[op]]
    /\ UNCHANGED <<guarded, ended, inRun>>

\* A thread runs the handler of a ready operation.
Handle(op) ==
    /\ ended = "no" /\ Cardinality(With("running")) < Cardinality(inRun)
    /\ Move(op, "ready", "running")

\* A thread that looks after a socket runs the first of its operations in place,
\* and the others that are finished too become ready.
HandleInPlace(op) ==
    /\ status[op] = "waiting" /\ Cardinality(With("running")) < Cardinality(inRun)
    /\ \E S \in SUBSET With("waiting") :
         status' = [o \in Ops |-> IF o = op THEN "running"
                                  ELSE IF o \in S THEN "ready" ELSE status[o]]
    /\ UNCHANGED <<guarded, ended, inRun>>

Finish(op) == Move(op, "running", "done")

Release == guarded /\ guarded' = FALSE /\ UNCHANGED <<status, ended, inRun>>

\* Somebody calls stop().
StopAsked == ended # "asked" /\ ended' = "asked" /\ UNCHANGED <<status, guarded, inRun>>

\* The context runs out of work.
RunOut ==
    /\ NoWork /\ ended = "no"
    /\ ended' = "drained"
    /\ UNCHANGED <<status, guarded, inRun>>

Return(t) ==
    /\ ended # "no" /\ t \in inRun
    /\ inRun' = inRun \ {t}
    /\ UNCHANGED <<status, guarded, ended>>

Next ==
    \/ \E op \in Ops : Make(op) \/ Handle(op) \/ HandleInPlace(op) \/ Finish(op)
    \/ Wake \/ Release \/ StopAsked \/ RunOut
    \/ \E t \in Threads : Return(t)

Spec == Init /\ [][Next]_vars
=============================================================================
