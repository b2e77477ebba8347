----------------------------- MODULE MySqlPool -----------------------------
(***************************************************************************)
(* The MySQL connection pool of db/ConnectionPool.cpp while the server     *)
(* runs: getConnection, the deleter of the shared_ptr it returns, and the  *)
(* producer thread that grows the pool on demand.                          *)
(*                                                                         *)
(* Everything happens under _queueMutex (the producer even connects to the *)
(* database under it), so a critical section is one step.  Two condition   *)
(* variables: the producer waits on cv_in, clients on cv_out with a        *)
(* timeout of five seconds.                                                *)
(***************************************************************************)
EXTENDS Naturals, Sequences, FiniteSets

CONSTANTS Clients,      \* threads that take connections (workers, listener)
          InitSize,     \* _initSize
          MaxSize       \* _maxSize

(***************************************************************************)
(* server.cpp starts four workers and one listener; _initSize is 4 and     *)
(* _maxSize 8.                                                             *)
(***************************************************************************)
ASSUME MySqlPoolAssumption ==
    /\ InitSize \in Nat \ {0} /\ MaxSize \in Nat /\ InitSize <= MaxSize
    /\ IsFiniteSet(Clients) /\ Cardinality(Clients) < MaxSize

VARIABLES connectionQue,     \* idle connections, numbered as created
          connectionCnt,     \* connections ever created
          clientPc,
          held,              \* the connection a client holds, or 0
          producerPc

vars == <<connectionQue, connectionCnt, clientPc, held, producerPc>>

ClientPcs == {"idle",        \* outside the pool
              "lock",        \* in getConnection, about to test its predicate
              "wait",        \* blocked on cv_out
              "use"}         \* holds a connection

TypeOK ==
    /\ connectionQue \in Seq(1..MaxSize)
    /\ connectionCnt \in 1..MaxSize
    /\ clientPc \in [Clients -> ClientPcs]
    /\ held \in [Clients -> 0..MaxSize]
    /\ producerPc \in {"lock", "wait"}
    /\ \A c \in Clients : held[c] # 0 <=> clientPc[c] = "use"

Init ==
    /\ connectionQue = [i \in 1..InitSize |-> i]
    /\ connectionCnt = InitSize
    /\ clientPc = [c \in Clients |-> "idle"]
    /\ held = [c \in Clients |-> 0]
    /\ producerPc = "lock"
-----------------------------------------------------------------------------
Call(c) ==
    /\ clientPc[c] = "idle"
    /\ clientPc' = [clientPc EXCEPT ![c] = "lock"]
    /\ UNCHANGED <<connectionQue, connectionCnt, held, producerPc>>

(* Mutants of Take: the producer is not told; the front is not popped.     *)
Take_NoNotify(c) ==
    /\ clientPc[c] \in {"lock", "wait"}
    /\ connectionQue # <<>>
    /\ held' = [held EXCEPT ![c] = Head(connectionQue)]
    /\ connectionQue' = Tail(connectionQue)
    /\ clientPc' = [clientPc EXCEPT ![c] = "use"]
    /\ UNCHANGED <<connectionCnt, producerPc>>

Take_NoPop(c) ==
    /\ clientPc[c] \in {"lock", "wait"}
    /\ connectionQue # <<>>
    /\ held' = [held EXCEPT ![c] = Head(connectionQue)]
    /\ clientPc' = [clientPc EXCEPT ![c] = "use"]
    /\ UNCHANGED <<connectionQue, connectionCnt, producerPc>>

(***************************************************************************)
(* getConnection with its predicate true, also when wait_for re-evaluates  *)
(* it after the timeout (or a spurious wake-up): take the front connection *)
(* and, if it was the last, wake the producer.                             *)
(***************************************************************************)
Take(c) ==
    /\ clientPc[c] \in {"lock", "wait"}
    /\ connectionQue # <<>>
    /\ held' = [held EXCEPT ![c] = Head(connectionQue)]
    /\ connectionQue' = Tail(connectionQue)
    /\ clientPc' = [clientPc EXCEPT ![c] = "use"]
    /\ producerPc' = IF Tail(connectionQue) = <<>> THEN "lock" ELSE producerPc
    /\ UNCHANGED connectionCnt

Wait(c) ==
    /\ clientPc[c] = "lock"
    /\ connectionQue = <<>>
    /\ clientPc' = [clientPc EXCEPT ![c] = "wait"]
    /\ UNCHANGED <<connectionQue, connectionCnt, held, producerPc>>

(* The timeout expires with the queue empty: getConnection returns null.   *)
Timeout(c) ==
    /\ clientPc[c] = "wait"
    /\ connectionQue = <<>>
    /\ clientPc' = [clientPc EXCEPT ![c] = "idle"]
    /\ UNCHANGED <<connectionQue, connectionCnt, held, producerPc>>

(* Mutant of Release: the client still has the pointer it gave back.       *)
Release_KeepsPointer(c) ==
    /\ clientPc[c] = "use"
    /\ connectionQue' = Append(connectionQue, held[c])
    /\ clientPc' = [clientPc EXCEPT ![c] = "idle"]
    /\ producerPc' = "lock"
    /\ UNCHANGED <<connectionCnt, held>>

(***************************************************************************)
(* The deleter: back into the queue, and cv_in.notify_one.  A client that  *)
(* waits on cv_out is not told.                                            *)
(***************************************************************************)
Release(c) ==
    /\ clientPc[c] = "use"
    /\ connectionQue' = Append(connectionQue, held[c])
    /\ held' = [held EXCEPT ![c] = 0]
    /\ clientPc' = [clientPc EXCEPT ![c] = "idle"]
    /\ producerPc' = "lock"
    /\ UNCHANGED connectionCnt
-----------------------------------------------------------------------------
(***************************************************************************)
(* The producer.  cv_out.notify_all ends each round, whether a connection  *)
(* could be created or not; then it tests its predicate again.             *)
(***************************************************************************)
WakeClients ==
    clientPc' = [c \in Clients |-> IF clientPc[c] = "wait" THEN "lock" ELSE clientPc[c]]

ProducerSleep ==
    /\ producerPc = "lock"
    /\ connectionQue # <<>>
    /\ producerPc' = "wait"
    /\ UNCHANGED <<connectionQue, connectionCnt, clientPc, held>>

ProducerWake ==         \* spuriously
    /\ producerPc = "wait"
    /\ producerPc' = "lock"
    /\ UNCHANGED <<connectionQue, connectionCnt, clientPc, held>>

(* Mutant of Produce: it connects without testing the queue again.         *)
Produce_Always ==
    /\ producerPc = "lock"
    /\ connectionCnt < MaxSize
    /\ connectionCnt' = connectionCnt + 1
    /\ connectionQue' = Append(connectionQue, connectionCnt + 1)
    /\ WakeClients
    /\ UNCHANGED <<held, producerPc>>

Produce ==
    /\ producerPc = "lock"
    /\ connectionQue = <<>>
    /\ connectionCnt < MaxSize
    /\ connectionCnt' = connectionCnt + 1
    /\ connectionQue' = Append(connectionQue, connectionCnt + 1)
    /\ WakeClients
    /\ UNCHANGED <<held, producerPc>>

(***************************************************************************)
(* A round without a new connection: the database refuses, or the pool is  *)
(* at its limit (then the producer, whose predicate stays true, spins).    *)
(***************************************************************************)
ProduceFails ==
    /\ producerPc = "lock"
    /\ connectionQue = <<>>
    /\ WakeClients
    /\ UNCHANGED <<connectionQue, connectionCnt, held, producerPc>>

ClientStep(c) == Call(c) \/ Take(c) \/ Wait(c) \/ Timeout(c) \/ Release(c)
ProducerStep == ProducerSleep \/ ProducerWake \/ Produce \/ ProduceFails

Next == ProducerStep \/ \E c \in Clients : ClientStep(c)

Spec == Init /\ [][Next]_vars
-----------------------------------------------------------------------------
Holders == {c \in Clients : held[c] # 0}

(***************************************************************************)
(* No connection is shared, lost or duplicated: each one ever created is   *)
(* either once in the queue or with exactly one client, although it is put *)
(* back by a deleter that runs wherever the last reference is dropped.     *)
(***************************************************************************)
NoneShared ==
    /\ \A i, j \in DOMAIN connectionQue : connectionQue[i] = connectionQue[j] => i = j
    /\ \A c, d \in Holders : held[c] = held[d] => c = d
    /\ \A i \in DOMAIN connectionQue, c \in Holders : connectionQue[i] # held[c]

NoneLost ==
    \A n \in 1..connectionCnt :
        \/ \E i \in DOMAIN connectionQue : connectionQue[i] = n
        \/ \E c \in Holders : held[c] = n

NoneUnknown ==
    /\ \A i \in DOMAIN connectionQue : connectionQue[i] <= connectionCnt
    /\ \A c \in Holders : held[c] <= connectionCnt

Conserved == NoneShared /\ NoneLost /\ NoneUnknown

(***************************************************************************)
(* The producer never sleeps on an empty queue, although it waits on a     *)
(* condition variable that is notified with notify_one for two different   *)
(* reasons: a client that waits always has the producer behind it.         *)
(***************************************************************************)
ProducerAwake == connectionQue = <<>> => producerPc = "lock"

(***************************************************************************)
(* Growth on demand.  With fewer client threads than _maxSize the pool     *)
(* never reaches its limit with nothing idle, so the producer always has   *)
(* room to create what it is woken for and does not spin under             *)
(* _queueMutex; it never creates more than one connection beyond the       *)
(* number of clients.                                                      *)
(***************************************************************************)
NeverSpins == connectionQue = <<>> => connectionCnt < MaxSize

GrowthBounded ==
    connectionCnt <= InitSize \/ connectionCnt <= Cardinality(Clients) + 1

GrowthInv == NeverSpins /\ GrowthBounded
=============================================================================
