----------------------------- MODULE ThreadPool ----------------------------
(***************************************************************************)
(* thread/ThreadPool.{h,cpp}: the workers that run the queries.            *)
(*                                                                         *)
(* submit pushes under mtx and calls notify_one after releasing it; a      *)
(* worker holds mtx from the test of its predicate to the pop or to the    *)
(* atomic release inside cv.wait; the destructor sets stop under mtx,      *)
(* notifies everyone after releasing it, and joins.  A critical section of *)
(* mtx is one step.                                                        *)
(*                                                                         *)
(* The pool is owned by shared_ptr (server.cpp:63, ConnectionHandler.pool_)*)
(* by everything that submits to it, so the destructor starts when the     *)
(* last owner lets go and none of them is inside submit.                   *)
(***************************************************************************)
EXTENDS Naturals, Sequences, FiniteSets

CONSTANTS Workers,           \* the threads of the pool
          Callers,           \* threads that submit (reactor threads)
          MaxTasks           \* bound: total number of submissions

ASSUME ThreadPoolAssumption ==
    /\ MaxTasks \in Nat
    /\ IsFiniteSet(Workers) /\ Workers # {}
    /\ IsFiniteSet(Callers)

VARIABLES tasks,             \* the queue, as tickets
          stop,              \* set by the destructor
          workerPc,          \* where each worker is
          task,              \* the ticket a worker has popped, or 0
          callerPc,          \* where each caller is
          dtorPc,            \* where the destructor is
          submitted          \* tickets issued

vars == <<tasks, stop, workerPc, task, callerPc, dtorPc, submitted>>

WorkerPcs == {"lock",        \* about to lock mtx and test the predicate
              "wait",        \* blocked in cv.wait
              "busy",        \* running its task, mtx released
              "exited"}

CallerPcs == {"owner",       \* holds a reference, outside submit
              "notify",      \* in submit, pushed, mtx released
              "gone"}        \* has dropped its reference

DtorPcs == {"none", "notifyAll", "join", "done"}

TypeOK ==
    /\ tasks \in Seq(1..MaxTasks)
    /\ stop \in BOOLEAN
    /\ workerPc \in [Workers -> WorkerPcs]
    /\ task \in [Workers -> 0..MaxTasks]
    /\ callerPc \in [Callers -> CallerPcs]
    /\ dtorPc \in DtorPcs
    /\ submitted \in 0..MaxTasks
    /\ \A w \in Workers : task[w] # 0 <=> workerPc[w] = "busy"

Init ==
    /\ tasks = <<>>
    /\ stop = FALSE
    /\ workerPc = [w \in Workers |-> "lock"]
    /\ task = [w \in Workers |-> 0]
    /\ callerPc = [c \in Callers |-> "owner"]
    /\ dtorPc = "none"
    /\ submitted = 0
-----------------------------------------------------------------------------
Sleepers == {w \in Workers : workerPc[w] = "wait"}
AtLock   == {w \in Workers : workerPc[w] = "lock"}
Notifiers == {c \in Callers : callerPc[c] = "notify"}

(***************************************************************************)
(* submit, up to the end of its critical section.  The throw for a stopped *)
(* pool has no step: an owner exists, so stop is not set (see OwnersInv).  *)
(***************************************************************************)
Submit(c) ==
    /\ callerPc[c] = "owner"
    /\ submitted < MaxTasks
    /\ submitted' = submitted + 1
    /\ tasks' = Append(tasks, submitted + 1)
    /\ callerPc' = [callerPc EXCEPT ![c] = "notify"]
    /\ UNCHANGED <<stop, workerPc, task, dtorPc>>

(* Mutant of NotifyOne: no call of notify_one.                             *)
NotifyOne_Missing(c) ==
    /\ callerPc[c] = "notify"
    /\ callerPc' = [callerPc EXCEPT ![c] = "owner"]
    /\ UNCHANGED <<tasks, stop, workerPc, task, dtorPc, submitted>>

(***************************************************************************)
(* submit, cv.notify_one: one of the sleeping workers, if there is one.    *)
(***************************************************************************)
NotifyOne(c) ==
    /\ callerPc[c] = "notify"
    /\ callerPc' = [callerPc EXCEPT ![c] = "owner"]
    /\ IF Sleepers = {}
         THEN UNCHANGED workerPc
         ELSE \E w \in Sleepers : workerPc' = [workerPc EXCEPT ![w] = "lock"]
    /\ UNCHANGED <<tasks, stop, task, dtorPc, submitted>>

Release(c) ==
    /\ callerPc[c] = "owner"
    /\ callerPc' = [callerPc EXCEPT ![c] = "gone"]
    /\ UNCHANGED <<tasks, stop, workerPc, task, dtorPc, submitted>>

-----------------------------------------------------------------------------
(* Mutant of Pop: the front is copied and popped in two critical sections, *)
(* so that two workers may take the same task.                             *)
Pop_KeepsFront(w) ==
    /\ workerPc[w] = "lock"
    /\ tasks # <<>>
    /\ task' = [task EXCEPT ![w] = Head(tasks)]
    /\ tasks' \in {tasks, Tail(tasks)}
    /\ workerPc' = [workerPc EXCEPT ![w] = "busy"]
    /\ UNCHANGED <<stop, callerPc, dtorPc, submitted>>

(***************************************************************************)
(* A worker with mtx and its predicate true: it takes the front task, also *)
(* after stop, or leaves when the pool is stopped and drained.             *)
(***************************************************************************)
Pop(w) ==
    /\ workerPc[w] = "lock"
    /\ tasks # <<>>
    /\ task' = [task EXCEPT ![w] = Head(tasks)]
    /\ tasks' = Tail(tasks)
    /\ workerPc' = [workerPc EXCEPT ![w] = "busy"]
    /\ UNCHANGED <<stop, callerPc, dtorPc, submitted>>

(* Mutant of Exit: a worker leaves as soon as the pool is stopped.         *)
Exit_WithoutDraining(w) ==
    /\ workerPc[w] = "lock"
    /\ stop
    /\ workerPc' = [workerPc EXCEPT ![w] = "exited"]
    /\ UNCHANGED <<tasks, stop, task, callerPc, dtorPc, submitted>>

Exit(w) ==
    /\ workerPc[w] = "lock"
    /\ stop /\ tasks = <<>>
    /\ workerPc' = [workerPc EXCEPT ![w] = "exited"]
    /\ UNCHANGED <<tasks, stop, task, callerPc, dtorPc, submitted>>

(* Mutant of Sleep: the wait has no predicate.                             *)
Sleep_NoPredicate(w) ==
    /\ workerPc[w] = "lock"
    /\ workerPc' = [workerPc EXCEPT ![w] = "wait"]
    /\ UNCHANGED <<tasks, stop, task, callerPc, dtorPc, submitted>>

Sleep(w) ==
    /\ workerPc[w] = "lock"
    /\ ~stop /\ tasks = <<>>
    /\ workerPc' = [workerPc EXCEPT ![w] = "wait"]
    /\ UNCHANGED <<tasks, stop, task, callerPc, dtorPc, submitted>>

SpuriousWake(w) ==
    /\ workerPc[w] = "wait"
    /\ workerPc' = [workerPc EXCEPT ![w] = "lock"]
    /\ UNCHANGED <<tasks, stop, task, callerPc, dtorPc, submitted>>

(* Mutant of FinishTask: the worker's task object is not released.         *)
FinishTask_KeepsTask(w) ==
    /\ workerPc[w] = "busy"
    /\ workerPc' = [workerPc EXCEPT ![w] = "lock"]
    /\ UNCHANGED <<tasks, stop, task, callerPc, dtorPc, submitted>>

(***************************************************************************)
(* task() returns; the two query lambdas catch what handleClientRequest    *)
(* throws.                                                                 *)
(***************************************************************************)
FinishTask(w) ==
    /\ workerPc[w] = "busy"
    /\ task' = [task EXCEPT ![w] = 0]
    /\ workerPc' = [workerPc EXCEPT ![w] = "lock"]
    /\ UNCHANGED <<tasks, stop, callerPc, dtorPc, submitted>>
-----------------------------------------------------------------------------
(***************************************************************************)
(* ~ThreadPool: stop under mtx, notify_all, join.                          *)
(***************************************************************************)
SetStop ==
    /\ dtorPc = "none"
    /\ \A c \in Callers : callerPc[c] = "gone"
    /\ stop' = TRUE
    /\ dtorPc' = "notifyAll"
    /\ UNCHANGED <<tasks, workerPc, task, callerPc, submitted>>

(* Mutant of NotifyAll: notify_one.                                        *)
NotifyAll_One ==
    /\ dtorPc = "notifyAll"
    /\ IF Sleepers = {}
         THEN UNCHANGED workerPc
         ELSE \E w \in Sleepers : workerPc' = [workerPc EXCEPT ![w] = "lock"]
    /\ dtorPc' = "join"
    /\ UNCHANGED <<tasks, stop, task, callerPc, submitted>>

NotifyAll ==
    /\ dtorPc = "notifyAll"
    /\ workerPc' = [w \in Workers |->
                      IF workerPc[w] = "wait" THEN "lock" ELSE workerPc[w]]
    /\ dtorPc' = "join"
    /\ UNCHANGED <<tasks, stop, task, callerPc, submitted>>

Join ==
    /\ dtorPc = "join"
    /\ \A w \in Workers : workerPc[w] = "exited"
    /\ dtorPc' = "done"
    /\ UNCHANGED <<tasks, stop, workerPc, task, callerPc, submitted>>

WorkerStep(w) == Pop(w) \/ Exit(w) \/ Sleep(w) \/ FinishTask(w)
Dtor == SetStop \/ NotifyAll \/ Join
Done == dtorPc = "done" /\ UNCHANGED vars

Next ==
    \/ \E w \in Workers : WorkerStep(w) \/ SpuriousWake(w)
    \/ \E c \in Callers : Submit(c) \/ NotifyOne(c) \/ Release(c)
    \/ Dtor
    \/ Done

Spec == Init /\ [][Next]_vars

(***************************************************************************)
(* Fairness: workers, a caller inside submit and the destructor's thread   *)
(* keep running.  Nobody has to submit or to let go of the pool, and       *)
(* nothing depends on spurious wake-ups.                                   *)
(***************************************************************************)
FairSpec ==
    /\ Spec
    /\ \A w \in Workers : WF_vars(WorkerStep(w))
    /\ \A c \in Callers : WF_vars(NotifyOne(c))
    /\ WF_vars(Dtor)
-----------------------------------------------------------------------------
(***************************************************************************)
(* No lost wake-up: as long as a worker sleeps, every queued task has a    *)
(* worker already on its way to the lock or a notify_one still to come.    *)
(* So the queue never waits for a busy worker while another one sleeps.    *)
(* Depends on the predicate being tested under mtx and on one notify_one   *)
(* per push, whatever the order of notifications and pops.                 *)
(***************************************************************************)
SleepersInv ==
    Sleepers # {} =>
        Len(tasks) <= Cardinality(AtLock) + Cardinality(Notifiers)

(***************************************************************************)
(* Whoever can still call submit owns the pool, so the pool is not         *)
(* stopping under it: the runtime_error of submit is never thrown.         *)
(***************************************************************************)
OwnersInv ==
    /\ stop <=> dtorPc # "none"
    /\ stop => \A c \in Callers : callerPc[c] = "gone"

(***************************************************************************)
(* A stopped pool is drained: workers leave only when no task is queued,   *)
(* none sleeps through the destructor's notify_all, and when the           *)
(* destructor returns nothing is queued or running.                        *)
(***************************************************************************)
DrainInv ==
    /\ \A w \in Workers : workerPc[w] = "exited" => stop /\ tasks = <<>>
    /\ dtorPc \in {"join", "done"} => Sleepers = {}
    /\ dtorPc = "done" => \A w \in Workers : workerPc[w] = "exited"

(* From the last owner's leave to the end of the destructor.               *)
LifetimeInv == OwnersInv /\ DrainInv

(***************************************************************************)
(* The destructor returns once it has been entered: no worker can sleep    *)
(* through stop.                                                           *)
(***************************************************************************)
DtorReturns == dtorPc = "notifyAll" ~> dtorPc = "done"

(***************************************************************************)
(* The pool implements the executor: each submitted task is started        *)
(* exactly once, in order, at most one per worker at a time, and every     *)
(* task is eventually run, also those still queued when the destructor is  *)
(* called.                                                                 *)
(***************************************************************************)
EX == INSTANCE Executor WITH
        queue <- tasks,
        running <- {task[w] : w \in {v \in Workers : workerPc[v] = "busy"}},
        closed <- dtorPc = "done",
        Width <- Cardinality(Workers)

ExecutorFairSpec == EX!FairSpec
=============================================================================
