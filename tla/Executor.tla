------------------------------ MODULE Executor -----------------------------
(***************************************************************************)
(* What the thread pool promises to the reactors, without its mutex and    *)
(* condition variable: a submitted task is started exactly once, tasks are *)
(* started in the order of submission, several may run at a time, each     *)
(* finishes, and the pool is only gone when every task has.                *)
(*                                                                         *)
(* A task is the ticket of its submission.                                 *)
(***************************************************************************)
EXTENDS Naturals, Sequences, FiniteSets

CONSTANTS MaxTasks,          \* bound on the number of submissions
          Width              \* how many tasks may run at a time

VARIABLES queue,             \* submitted, not started
          running,           \* started, not finished
          submitted,         \* the last ticket issued
          closed             \* the pool has been destroyed

vars == <<queue, running, submitted, closed>>

Init ==
    /\ queue = <<>>
    /\ running = {}
    /\ submitted = 0
    /\ closed = FALSE

Submit ==
    /\ ~closed
    /\ submitted < MaxTasks
    /\ submitted' = submitted + 1
    /\ queue' = Append(queue, submitted + 1)
    /\ UNCHANGED <<running, closed>>

Start ==
    /\ queue # <<>>
    /\ Cardinality(running) < Width
    /\ running' = running \cup {Head(queue)}
    /\ queue' = Tail(queue)
    /\ UNCHANGED <<submitted, closed>>

Finish ==
    /\ \E t \in running : running' = running \ {t}
    /\ UNCHANGED <<queue, submitted, closed>>

Close ==
    /\ queue = <<>> /\ running = {}
    /\ closed' = TRUE
    /\ UNCHANGED <<queue, running, submitted>>

Next == Submit \/ Start \/ Finish \/ Close

Spec == Init /\ [][Next]_vars

FairSpec == Spec /\ WF_vars(Start) /\ WF_vars(Finish)
=============================================================================
