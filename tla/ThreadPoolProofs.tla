-------------------------- MODULE ThreadPoolProofs -------------------------
(***************************************************************************)
(* Proofs about ThreadPool, for every finite set of workers and callers    *)
(* and every number of tasks.                                              *)
(***************************************************************************)
EXTENDS ThreadPool, FiniteSetTheorems, SequenceTheorems, TLAPS

LEMMA SubmitType ==
    ASSUME TypeOK, NEW c \in Callers, Submit(c)
    PROVE  /\ submitted' = submitted + 1
           /\ submitted' \in 1..MaxTasks
           /\ tasks' = Append(tasks, submitted')
           /\ tasks' \in Seq(1..MaxTasks)
<1>1. submitted' = submitted + 1 /\ submitted' \in 1..MaxTasks
  BY ThreadPoolAssumption DEF TypeOK, Submit
<1>2. tasks' = Append(tasks, submitted') /\ tasks \in Seq(1..MaxTasks)
  BY DEF TypeOK, Submit
<1>3. QED
  BY <1>1, <1>2, AppendProperties

LEMMA PopType ==
    ASSUME TypeOK, NEW w \in Workers, Pop(w)
    PROVE  /\ tasks # <<>>
           /\ Head(tasks) \in 1..MaxTasks
           /\ tasks' = Tail(tasks)
           /\ tasks' \in Seq(1..MaxTasks)
           /\ Len(tasks) = Len(tasks') + 1
<1>1. tasks \in Seq(1..MaxTasks) /\ tasks # <<>> /\ tasks' = Tail(tasks)
  BY DEF TypeOK, Pop
<1>2. Head(tasks) \in 1..MaxTasks /\ tasks' \in Seq(1..MaxTasks) /\ Len(tasks') = Len(tasks) - 1
  BY <1>1, HeadTailProperties
<1>3. Len(tasks) = Len(tasks') + 1
  BY <1>1, <1>2
<1>4. QED
  BY <1>1, <1>2, <1>3

(***************************************************************************)
(* Type correctness.                                                       *)
(***************************************************************************)
THEOREM TypeCorrect == Spec => []TypeOK
<1>1. Init => TypeOK
  <2> SUFFICES ASSUME Init PROVE TypeOK
    OBVIOUS
  <2>1. tasks \in Seq(1..MaxTasks)
    BY Zenon, EmptySeq DEF Init
  <2>2. 0 \in 0..MaxTasks
    BY ThreadPoolAssumption
  <2>3. QED
    BY <2>1, <2>2 DEF Init, TypeOK, WorkerPcs, CallerPcs, DtorPcs
<1>2. TypeOK /\ [Next]_vars => TypeOK'
  <2> SUFFICES ASSUME TypeOK, [Next]_vars PROVE TypeOK'
    OBVIOUS
  <2> USE DEF TypeOK, WorkerPcs, CallerPcs, DtorPcs
  <2>1. ASSUME NEW w \in Workers, Pop(w) PROVE TypeOK'
    <3>1. Head(tasks) \in 0..MaxTasks /\ Head(tasks) # 0 /\ tasks' \in Seq(1..MaxTasks)
      BY <2>1, PopType, ThreadPoolAssumption
    <3>2. task' \in [Workers -> 0..MaxTasks] /\ workerPc' \in [Workers -> WorkerPcs]
      BY <2>1, <3>1, Zenon DEF Pop
    <3>3. \A v \in Workers : task'[v] # 0 <=> workerPc'[v] = "busy"
      BY <2>1, <3>1 DEF Pop
    <3>4. QED
      BY <2>1, <3>1, <3>2, <3>3, Zenon DEF Pop
  <2>2. ASSUME NEW w \in Workers, Exit(w) \/ Sleep(w) PROVE TypeOK'
    BY <2>2 DEF Exit, Sleep
  <2>3. ASSUME NEW w \in Workers, SpuriousWake(w) PROVE TypeOK'
    BY <2>3 DEF SpuriousWake
  <2>4. ASSUME NEW w \in Workers, FinishTask(w) PROVE TypeOK'
    BY <2>4, ThreadPoolAssumption DEF FinishTask
  <2>5. ASSUME NEW c \in Callers, Submit(c) PROVE TypeOK'
    <3>1. submitted' \in 0..MaxTasks /\ tasks' \in Seq(1..MaxTasks)
      BY <2>5, SubmitType, ThreadPoolAssumption
    <3>2. QED
      BY <2>5, <3>1, Zenon DEF Submit
  <2>6. ASSUME NEW c \in Callers, NotifyOne(c) PROVE TypeOK'
    <3>1. workerPc' = workerPc \/ \E w \in Sleepers : workerPc' = [workerPc EXCEPT ![w] = "lock"]
      BY <2>6, Zenon DEF NotifyOne
    <3>2. /\ workerPc' \in [Workers -> WorkerPcs]
          /\ \A v \in Workers : task[v] # 0 <=> workerPc'[v] = "busy"
      BY <3>1 DEF Sleepers
    <3>3. QED
      BY <2>6, <3>2, Zenon DEF NotifyOne
  <2>7. ASSUME NEW c \in Callers, Release(c) PROVE TypeOK'
    BY <2>7 DEF Release
  <2>8. CASE SetStop
    BY <2>8 DEF SetStop
  <2>9. CASE NotifyAll
    BY <2>9 DEF NotifyAll
  <2>10. CASE Join
    BY <2>10 DEF Join
  <2>11. CASE UNCHANGED vars
    BY <2>11, Zenon DEF vars
  <2>12. QED
    BY <2>1, <2>2, <2>3, <2>4, <2>5, <2>6, <2>7, <2>8, <2>9, <2>10, <2>11, Zenon
    DEF Next, WorkerStep, Dtor, Done
<1>3. QED
  BY <1>1, <1>2, PTL DEF Spec

(***************************************************************************)
(* The pool is never stopped under an owner (submit's throw is             *)
(* unreachable), and it is drained before it goes.                         *)
(***************************************************************************)
THEOREM DrainedBeforeGone == Spec => []LifetimeInv
<1>1. Init => OwnersInv /\ DrainInv
  BY DEF Init, OwnersInv, DrainInv
<1>2. TypeOK /\ OwnersInv /\ DrainInv /\ [Next]_vars => OwnersInv' /\ DrainInv'
  <2> SUFFICES ASSUME TypeOK, OwnersInv, DrainInv, [Next]_vars
               PROVE  OwnersInv' /\ DrainInv'
    OBVIOUS
  <2> USE DEF OwnersInv, DrainInv, Sleepers
  <2>1. ASSUME NEW w \in Workers, Pop(w) PROVE OwnersInv' /\ DrainInv'
    BY <2>1 DEF Pop, TypeOK
  <2>2. ASSUME NEW w \in Workers, Exit(w) PROVE OwnersInv' /\ DrainInv'
    BY <2>2 DEF Exit, TypeOK
  <2>3. ASSUME NEW w \in Workers, Sleep(w) PROVE OwnersInv' /\ DrainInv'
    BY <2>3 DEF Sleep, TypeOK
  <2>4. ASSUME NEW w \in Workers, SpuriousWake(w) \/ FinishTask(w)
        PROVE  OwnersInv' /\ DrainInv'
    BY <2>4 DEF SpuriousWake, FinishTask, TypeOK
  <2>5. ASSUME NEW c \in Callers, Submit(c) PROVE OwnersInv' /\ DrainInv'
    <3>1. ~stop
      BY <2>5 DEF Submit
    <3>2. QED
      BY <2>5, <3>1, Zenon DEF Submit
  <2>6. ASSUME NEW c \in Callers, NotifyOne(c) PROVE OwnersInv' /\ DrainInv'
    <3>1. ~stop
      BY <2>6 DEF NotifyOne
    <3>2. \A w \in Workers : workerPc'[w] = "exited" => workerPc[w] = "exited"
      BY <2>6 DEF NotifyOne, TypeOK
    <3>3. QED
      BY <2>6, <3>1, <3>2, Zenon DEF NotifyOne
  <2>7. ASSUME NEW c \in Callers, Release(c) PROVE OwnersInv' /\ DrainInv'
    BY <2>7 DEF Release, TypeOK
  <2>8. CASE SetStop
    BY <2>8 DEF SetStop
  <2>9. CASE NotifyAll
    BY <2>9 DEF NotifyAll, TypeOK
  <2>10. CASE Join
    BY <2>10 DEF Join
  <2>11. CASE UNCHANGED vars
    BY <2>11 DEF vars
  <2>12. QED
    BY <2>1, <2>2, <2>3, <2>4, <2>5, <2>6, <2>7, <2>8, <2>9, <2>10, <2>11, Zenon
    DEF Next, WorkerStep, Dtor, Done
<1>3. QED
  BY <1>1, <1>2, TypeCorrect, PTL DEF Spec, LifetimeInv

(***************************************************************************)
(* Moving one element in or out of the sets that SleepersInv counts.       *)
(***************************************************************************)
LEMMA WorkerSetsFinite ==
    /\ IsFiniteSet(AtLock) /\ Cardinality(AtLock) \in Nat
    /\ IsFiniteSet(Notifiers) /\ Cardinality(Notifiers) \in Nat
<1>1. AtLock \in SUBSET Workers /\ Notifiers \in SUBSET Callers
  BY DEF AtLock, Notifiers
<1>2. IsFiniteSet(AtLock) /\ IsFiniteSet(Notifiers)
  BY <1>1, FS_Subset, ThreadPoolAssumption
<1>3. QED
  BY <1>2, FS_CardinalityType

LEMMA JoinsLock ==
    ASSUME TypeOK, NEW w \in Workers, workerPc[w] # "lock",
           workerPc' = [workerPc EXCEPT ![w] = "lock"]
    PROVE  Cardinality(AtLock') = Cardinality(AtLock) + 1
<1>1. AtLock' = AtLock \cup {w} /\ w \notin AtLock
  BY DEF AtLock, TypeOK
<1>2. QED
  BY <1>1, WorkerSetsFinite, FS_AddElement

LEMMA LeavesLock ==
    ASSUME TypeOK, NEW w \in Workers, workerPc[w] = "lock", NEW pc, pc # "lock",
           workerPc' = [workerPc EXCEPT ![w] = pc]
    PROVE  Cardinality(AtLock') = Cardinality(AtLock) - 1
<1>1. AtLock' = AtLock \ {w} /\ w \in AtLock
  BY DEF AtLock, TypeOK
<1>2. QED
  BY <1>1, WorkerSetsFinite, FS_RemoveElement

LEMMA SubmitAddsNotifier ==
    ASSUME TypeOK, NEW c \in Callers, Submit(c)
    PROVE  Cardinality(Notifiers') = Cardinality(Notifiers) + 1
<1>1. Notifiers' = Notifiers \cup {c} /\ c \notin Notifiers
  BY DEF Notifiers, TypeOK, Submit
<1>2. QED
  BY <1>1, WorkerSetsFinite, FS_AddElement

LEMMA NotifyRemovesNotifier ==
    ASSUME TypeOK, NEW c \in Callers, NotifyOne(c)
    PROVE  Cardinality(Notifiers') = Cardinality(Notifiers) - 1
<1>1. /\ callerPc[c] = "notify"
      /\ callerPc' = [callerPc EXCEPT ![c] = "owner"]
      /\ callerPc \in [Callers -> CallerPcs]
  BY Zenon DEF TypeOK, NotifyOne
<1>2. Notifiers' = Notifiers \ {c} /\ c \in Notifiers
  BY <1>1 DEF Notifiers
<1>3. QED
  BY <1>2, WorkerSetsFinite, FS_RemoveElement

(***************************************************************************)
(* No lost wake-up: a queued task never waits while a worker sleeps,       *)
(* except for a worker or a notification already under way.                *)
(***************************************************************************)
THEOREM NoLostWakeup == Spec => []SleepersInv
<1>1. Init => SleepersInv
  BY DEF Init, SleepersInv, Sleepers
<1>2. TypeOK /\ SleepersInv /\ [Next]_vars => SleepersInv'
  <2> SUFFICES ASSUME TypeOK, SleepersInv, [Next]_vars PROVE SleepersInv'
    OBVIOUS
  <2> DEFINE L == Cardinality(AtLock)
             N == Cardinality(Notifiers)
  <2>0. L \in Nat /\ N \in Nat /\ L' \in Nat /\ N' \in Nat /\ Len(tasks) \in Nat
    <3>1. L \in Nat /\ N \in Nat
      BY WorkerSetsFinite
    <3>2. AtLock' \in SUBSET Workers /\ Notifiers' \in SUBSET Callers
      BY DEF AtLock, Notifiers
    <3>3. IsFiniteSet(AtLock') /\ IsFiniteSet(Notifiers')
      BY <3>2, FS_Subset, ThreadPoolAssumption
    <3>4. L' \in Nat /\ N' \in Nat
      BY <3>3, FS_CardinalityType
    <3>5. QED
      BY <3>1, <3>4 DEF TypeOK
  <2>1. ASSUME NEW w \in Workers, Pop(w) PROVE SleepersInv'
    <3>1. L' = L - 1
      BY <2>1, LeavesLock DEF Pop
    <3>2. N' = N /\ Sleepers' = Sleepers
      BY <2>1 DEF Pop, Notifiers, Sleepers, TypeOK
    <3>3. Len(tasks) = Len(tasks') + 1 /\ Len(tasks') \in Nat
      BY <2>1, PopType
    <3>4. QED
      BY <2>0, <3>1, <3>2, <3>3 DEF SleepersInv
  <2>2. ASSUME NEW w \in Workers, Exit(w) \/ Sleep(w) PROVE SleepersInv'
    <3>1. Len(tasks') = 0
      BY <2>2 DEF Exit, Sleep
    <3>2. QED
      BY <2>0, <3>1 DEF SleepersInv
  <2>3. ASSUME NEW w \in Workers, SpuriousWake(w) \/ FinishTask(w) PROVE SleepersInv'
    <3>1. L' = L + 1
      BY <2>3, JoinsLock DEF SpuriousWake, FinishTask
    <3>2. N' = N /\ tasks' = tasks /\ Sleepers' \subseteq Sleepers
      BY <2>3 DEF SpuriousWake, FinishTask, Notifiers, Sleepers, TypeOK
    <3>3. QED
      BY <2>0, <3>1, <3>2 DEF SleepersInv
  <2>4. ASSUME NEW c \in Callers, Submit(c) PROVE SleepersInv'
    <3>1. N' = N + 1
      BY <2>4, SubmitAddsNotifier
    <3>2. L' = L /\ Sleepers' = Sleepers
      BY <2>4 DEF Submit, AtLock, Sleepers
    <3>3. Len(tasks') = Len(tasks) + 1
      BY <2>4 DEF Submit, TypeOK
    <3>4. QED
      BY <2>0, <3>1, <3>2, <3>3 DEF SleepersInv
  <2>5. ASSUME NEW c \in Callers, NotifyOne(c) PROVE SleepersInv'
    <3>1. N' = N - 1 /\ tasks' = tasks
      BY <2>5, NotifyRemovesNotifier DEF NotifyOne
    <3>2. CASE Sleepers = {} /\ UNCHANGED workerPc
      <4>1. Sleepers' = {}
        BY <3>2 DEF Sleepers
      <4>2. QED
        BY <4>1 DEF SleepersInv
    <3>3. ASSUME NEW w \in Sleepers, Sleepers # {},
                 workerPc' = [workerPc EXCEPT ![w] = "lock"]
          PROVE  SleepersInv'
      <4>1. L' = L + 1
        BY <3>3, JoinsLock DEF Sleepers
      <4>2. QED
        BY <2>0, <3>1, <3>3, <4>1 DEF SleepersInv
    <3>4. QED
      BY <2>5, <3>2, <3>3, Zenon DEF NotifyOne
  <2>6. ASSUME NEW c \in Callers, Release(c) PROVE SleepersInv'
    <3>1. Notifiers' = Notifiers
      BY <2>6 DEF Release, Notifiers, TypeOK
    <3>2. QED
      BY <2>6, <3>1 DEF Release, SleepersInv, Sleepers, AtLock
  <2>7. CASE NotifyAll
    <3>1. Sleepers' = {}
      BY <2>7 DEF NotifyAll, Sleepers, TypeOK
    <3>2. QED
      BY <3>1 DEF SleepersInv
  <2>8. CASE SetStop \/ Join \/ UNCHANGED vars
    BY <2>8 DEF SetStop, Join, vars, SleepersInv, Sleepers, AtLock, Notifiers
  <2>9. QED
    BY <2>1, <2>2, <2>3, <2>4, <2>5, <2>6, <2>7, <2>8, Zenon
    DEF Next, WorkerStep, Dtor, Done, vars
<1>3. QED
  BY <1>1, <1>2, TypeCorrect, PTL DEF Spec

(***************************************************************************)
(* Tickets: the queue holds the last Len(tasks) of them in order, the      *)
(* running tasks are earlier ones, and no two workers run the same.        *)
(***************************************************************************)
Busy == {v \in Workers : workerPc[v] = "busy"}
Running == {task[w] : w \in Busy}

TicketInv ==
    /\ Len(tasks) <= submitted
    /\ \A i \in 1..Len(tasks) : tasks[i] = submitted - Len(tasks) + i
    /\ \A w \in Busy : task[w] <= submitted - Len(tasks)
    /\ \A v, w \in Busy : task[v] = task[w] => v = w

(***************************************************************************)
(* A worker at the lock leaves room in the pool: fewer tasks are running   *)
(* than there are workers.                                                 *)
(***************************************************************************)
LEMMA RoomForOne ==
    ASSUME TypeOK, NEW w \in Workers, workerPc[w] = "lock"
    PROVE  Cardinality(Running) < Cardinality(Workers)
<1> DEFINE f == [v \in Busy |-> task[v]]
<1>1. Busy \in SUBSET Workers /\ Busy # Workers
  BY DEF Busy
<1>2. IsFiniteSet(Busy) /\ Cardinality(Busy) <= Cardinality(Workers)
      /\ Cardinality(Busy) # Cardinality(Workers)
  BY <1>1, FS_Subset, ThreadPoolAssumption
<1>3. f \in Surjection(Busy, Running)
  BY DEF Surjection, Running
<1>4. IsFiniteSet(Running) /\ Cardinality(Running) <= Cardinality(Busy)
  BY <1>2, <1>3, FS_Surjection
<1>5. Cardinality(Running) \in Nat /\ Cardinality(Busy) \in Nat /\ Cardinality(Workers) \in Nat
  BY <1>2, <1>4, FS_CardinalityType, ThreadPoolAssumption
<1>6. QED
  BY <1>2, <1>4, <1>5

LEMMA SubmitStep ==
    ASSUME TypeOK, OwnersInv, TicketInv, NEW c \in Callers, Submit(c)
    PROVE  TicketInv' /\ EX!Submit
<1>1. /\ submitted' = submitted + 1 /\ tasks' = Append(tasks, submitted + 1)
      /\ tasks \in Seq(1..MaxTasks) /\ submitted \in Nat
  BY SubmitType, ThreadPoolAssumption DEF TypeOK, Submit
<1>2. Len(tasks') = Len(tasks) + 1
      /\ \A i \in 1..Len(tasks') : tasks'[i] = IF i = Len(tasks) + 1 THEN submitted + 1 ELSE tasks[i]
  BY <1>1
<1>3. Len(tasks) \in Nat /\ submitted' - Len(tasks') = submitted - Len(tasks)
  BY <1>1, <1>2
<1>4. Busy' = Busy /\ task' = task /\ Running' = Running
  BY DEF Submit, Busy, Running
<1>5. Len(tasks') <= submitted'
      /\ \A i \in 1..Len(tasks') : tasks'[i] = submitted' - Len(tasks') + i
  BY <1>1, <1>2, <1>3 DEF TicketInv
<1>6. TicketInv'
  BY <1>3, <1>4, <1>5, Zenon DEF TicketInv
<1>7. submitted < MaxTasks /\ dtorPc # "done" /\ dtorPc' = dtorPc
  BY DEF Submit, OwnersInv
<1>8. EX!Submit
  BY <1>1, <1>4, <1>7, Zenon DEF EX!Submit, Running, Busy
<1>9. QED
  BY <1>6, <1>8

LEMMA PopStep ==
    ASSUME TypeOK, TicketInv, NEW w \in Workers, Pop(w)
    PROVE  TicketInv' /\ EX!Start
<1>1. /\ tasks \in Seq(1..MaxTasks) /\ tasks # <<>> /\ submitted \in Nat
      /\ submitted' = submitted /\ tasks' = Tail(tasks)
  BY ThreadPoolAssumption DEF TypeOK, Pop
<1>2. /\ Len(tasks) \in Nat /\ Len(tasks) = Len(tasks') + 1 /\ Len(tasks') \in Nat
      /\ Head(tasks) = tasks[1]
      /\ \A i \in 1..Len(tasks') : tasks'[i] = tasks[i + 1]
  BY <1>1
<1>3. Head(tasks) = submitted - Len(tasks')
  BY <1>1, <1>2 DEF TicketInv
<1>4. /\ w \notin Busy /\ Busy' = Busy \cup {w}
      /\ task'[w] = Head(tasks)
      /\ \A v \in Busy : task'[v] = task[v]
      /\ \A v \in Busy : task[v] \in Nat
  BY ThreadPoolAssumption DEF Pop, TypeOK, Busy
<1>5. \A v \in Busy : task[v] < Head(tasks)
  BY <1>1, <1>2, <1>3, <1>4 DEF TicketInv
<1>6. TicketInv'
  <2>1. Len(tasks') <= submitted'
    BY <1>1, <1>2 DEF TicketInv
  <2>2. \A i \in 1..Len(tasks') : tasks'[i] = submitted' - Len(tasks') + i
    BY <1>1, <1>2 DEF TicketInv
  <2>3. \A v \in Busy' : task'[v] <= submitted' - Len(tasks')
    BY <1>1, <1>2, <1>3, <1>4, <1>5
  <2>4. \A u, v \in Busy' : task'[u] = task'[v] => u = v
    BY <1>1, <1>2, <1>3, <1>4, <1>5 DEF TicketInv
  <2>5. QED
    BY <2>1, <2>2, <2>3, <2>4 DEF TicketInv
<1>7. EX!Start
  <2>1. Running' = Running \cup {Head(tasks)}
    BY <1>4 DEF Running
  <2>2. Cardinality(Running) < Cardinality(Workers)
    BY RoomForOne DEF Pop
  <2>3. dtorPc' = dtorPc
    BY DEF Pop
  <2>4. QED
    BY <1>1, <2>1, <2>2, <2>3, Zenon DEF EX!Start, Running, Busy, EX!Cardinality, Cardinality
<1>8. QED
  BY <1>6, <1>7

LEMMA FinishStep ==
    ASSUME TypeOK, TicketInv, NEW w \in Workers, FinishTask(w)
    PROVE  TicketInv' /\ EX!Finish
<1>1. /\ w \in Busy /\ Busy' = Busy \ {w}
      /\ \A v \in Busy' : task'[v] = task[v]
      /\ UNCHANGED <<tasks, submitted, dtorPc>>
  BY DEF FinishTask, TypeOK, Busy
<1>2. TicketInv'
  BY <1>1 DEF TicketInv
<1>3. Running' = Running \ {task[w]} /\ task[w] \in Running
  BY <1>1 DEF Running, TicketInv
<1>4. EX!Finish
  BY <1>1, <1>3, Zenon DEF EX!Finish, Running, Busy
<1>5. QED
  BY <1>2, <1>4

LEMMA CloseStep ==
    ASSUME TypeOK, DrainInv, TicketInv, Join
    PROVE  TicketInv' /\ EX!Close
<1>1. \A w \in Workers : workerPc[w] = "exited"
  BY DEF Join
<1>2. tasks = <<>> /\ Busy = {}
  BY <1>1, ThreadPoolAssumption DEF DrainInv, Busy
<1>3. Running = {}
  BY <1>2 DEF Running
<1>4. UNCHANGED <<tasks, submitted, task, workerPc>> /\ dtorPc' = "done"
  BY DEF Join
<1>5. Running' = Running /\ Busy' = Busy
  BY <1>4 DEF Running, Busy
<1>6. TicketInv'
  BY <1>4, <1>5, Zenon DEF TicketInv
<1>7. EX!Close
  BY <1>2, <1>3, <1>4, <1>5, Zenon DEF EX!Close, Running, Busy
<1>8. QED
  BY <1>6, <1>7

(***************************************************************************)
(* Every other step of the pool is invisible to the executor.              *)
(***************************************************************************)
LEMMA StutterStep ==
    ASSUME TypeOK, OwnersInv, DrainInv, TicketInv,
           UNCHANGED <<tasks, submitted, task>>, Busy' = Busy,
           dtorPc' = dtorPc \/ (dtorPc # "done" /\ dtorPc' # "done")
    PROVE  TicketInv' /\ UNCHANGED EX!vars
<1>1. TicketInv'
  BY DEF TicketInv
<1>2. Running' = Running /\ (dtorPc = "done") = (dtorPc' = "done")
  BY DEF Running
<1>3. UNCHANGED EX!vars
  BY <1>2, Zenon DEF EX!vars, Running, Busy
<1>4. QED
  BY <1>1, <1>3

(***************************************************************************)
(* The pool implements the executor (its safety part): each task is        *)
(* started once, in order, by one worker, and the pool is gone only when   *)
(* nothing is queued or running.                                           *)
(***************************************************************************)
THEOREM ImplementsExecutor == Spec => EX!Spec
<1>1. Init => TicketInv /\ EX!Init
  <2> SUFFICES ASSUME Init PROVE TicketInv /\ EX!Init
    OBVIOUS
  <2>1. Busy = {} /\ tasks = <<>> /\ submitted = 0 /\ dtorPc # "done"
    BY DEF Init, Busy
  <2>2. Running = {}
    BY <2>1 DEF Running
  <2>3. TicketInv
    BY <2>1 DEF TicketInv
  <2>4. EX!Init
    BY <2>1, <2>2, Zenon DEF EX!Init, Running, Busy
  <2>5. QED
    BY <2>3, <2>4
<1>2. TypeOK /\ OwnersInv /\ DrainInv /\ TicketInv /\ [Next]_vars
        => TicketInv' /\ [EX!Next]_(EX!vars)
  <2> SUFFICES ASSUME TypeOK, OwnersInv, DrainInv, TicketInv, [Next]_vars
               PROVE  TicketInv' /\ [EX!Next]_(EX!vars)
    OBVIOUS
  <2> USE DEF EX!Next
  <2>1. ASSUME NEW w \in Workers, Pop(w) PROVE TicketInv' /\ EX!Start
    BY <2>1, PopStep
  <2>2. ASSUME NEW w \in Workers, Exit(w) \/ Sleep(w) \/ SpuriousWake(w)
        PROVE  TicketInv' /\ UNCHANGED EX!vars
    <3>1. Busy' = Busy /\ UNCHANGED <<tasks, submitted, task, dtorPc>>
      BY <2>2 DEF Exit, Sleep, SpuriousWake, Busy, TypeOK
    <3>2. QED
      BY <3>1, StutterStep
  <2>3. ASSUME NEW w \in Workers, FinishTask(w) PROVE TicketInv' /\ EX!Finish
    BY <2>3, FinishStep
  <2>4. ASSUME NEW c \in Callers, Submit(c) PROVE TicketInv' /\ EX!Submit
    BY <2>4, SubmitStep
  <2>5. ASSUME NEW c \in Callers, NotifyOne(c) \/ Release(c)
        PROVE  TicketInv' /\ UNCHANGED EX!vars
    <3>1. UNCHANGED <<tasks, submitted, task, dtorPc>>
      BY <2>5, Zenon DEF NotifyOne, Release
    <3>2. \/ workerPc' = workerPc
          \/ \E w \in Sleepers : workerPc' = [workerPc EXCEPT ![w] = "lock"]
      BY <2>5, Zenon DEF NotifyOne, Release
    <3>3. Busy' = Busy
      BY <3>2 DEF Busy, Sleepers, TypeOK
    <3>4. QED
      BY <3>1, <3>3, StutterStep
  <2>6. CASE SetStop \/ NotifyAll
    <3>1. /\ UNCHANGED <<tasks, submitted, task>>
          /\ dtorPc # "done" /\ dtorPc' # "done"
      BY <2>6 DEF SetStop, NotifyAll
    <3>2. Busy' = Busy
      BY <2>6 DEF SetStop, NotifyAll, Busy, TypeOK
    <3>3. QED
      BY <3>1, <3>2, StutterStep
  <2>7. CASE Join
    BY <2>7, CloseStep
  <2>8. CASE UNCHANGED vars
    <3>1. Busy' = Busy /\ UNCHANGED <<tasks, submitted, task, dtorPc>>
      BY <2>8 DEF vars, Busy
    <3>2. QED
      BY <3>1, StutterStep
  <2>9. QED
    BY <2>1, <2>2, <2>3, <2>4, <2>5, <2>6, <2>7, <2>8, Zenon
    DEF Next, WorkerStep, Dtor, Done
<1>3. QED
  BY <1>1, <1>2, TypeCorrect, DrainedBeforeGone, PTL DEF Spec, EX!Spec, LifetimeInv
=============================================================================
