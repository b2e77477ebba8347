----------------------------- MODULE RedisPool -----------------------------
(***************************************************************************)
(* The Redis connection pool of cache/RedisPool.cpp while the server runs: *)
(* getConnection and the deleter of the shared_ptr it returns.  A critical *)
(* section of mtx_ is one step.                                            *)
(*                                                                         *)
(* Unlike the MySQL pool it has one condition variable, on which the       *)
(* clients wait with a timeout of five seconds, and it never grows: what   *)
(* the constructor could connect, possibly nothing, is what there is, and  *)
(* max_size_ is not used.                                                  *)
(***************************************************************************)
EXTENDS Naturals, Sequences, FiniteSets

CONSTANTS Clients,      \* threads that take contexts (workers, listener)
          init_size     \* contexts the constructor tries to connect

ASSUME RedisPoolAssumption ==
    /\ init_size \in Nat
    /\ IsFiniteSet(Clients)

VARIABLES pool_,             \* idle contexts, numbered as connected
          connection_count_, \* contexts the constructor could connect
          clientPc,
          held               \* the context a client holds, or 0

vars == <<pool_, connection_count_, clientPc, held>>

ClientPcs == {"idle",        \* outside the pool
              "lock",        \* in getConnection, about to test its predicate
              "wait",        \* blocked on cv_
              "use"}         \* holds a context

TypeOK ==
    /\ connection_count_ \in 0..init_size
    /\ pool_ \in Seq(1..init_size)
    /\ clientPc \in [Clients -> ClientPcs]
    /\ held \in [Clients -> 0..init_size]
    /\ \A c \in Clients : held[c] # 0 <=> clientPc[c] = "use"

(* The constructor goes on without the contexts it cannot connect.         *)
Init ==
    /\ connection_count_ \in 0..init_size
    /\ pool_ = [i \in 1..connection_count_ |-> i]
    /\ clientPc = [c \in Clients |-> "idle"]
    /\ held = [c \in Clients |-> 0]
-----------------------------------------------------------------------------
Waiting == {c \in Clients : clientPc[c] = "wait"}
AtLock  == {c \in Clients : clientPc[c] = "lock"}
Holders == {c \in Clients : held[c] # 0}

Call(c) ==
    /\ clientPc[c] = "idle"
    /\ clientPc' = [clientPc EXCEPT ![c] = "lock"]
    /\ UNCHANGED <<pool_, connection_count_, held>>

(* Mutant of Take: the front is not popped.                                *)
Take_NoPop(c) ==
    /\ clientPc[c] \in {"lock", "wait"}
    /\ pool_ # <<>>
    /\ held' = [held EXCEPT ![c] = Head(pool_)]
    /\ clientPc' = [clientPc EXCEPT ![c] = "use"]
    /\ UNCHANGED <<pool_, connection_count_>>

(***************************************************************************)
(* getConnection with its predicate true, also when wait_for evaluates it  *)
(* after the timeout or a spurious wake-up.  Whoever has the mutex first   *)
(* takes the context, not the client that was notified.                    *)
(***************************************************************************)
Take(c) ==
    /\ clientPc[c] \in {"lock", "wait"}
    /\ pool_ # <<>>
    /\ held' = [held EXCEPT ![c] = Head(pool_)]
    /\ pool_' = Tail(pool_)
    /\ clientPc' = [clientPc EXCEPT ![c] = "use"]
    /\ UNCHANGED connection_count_

Wait(c) ==
    /\ clientPc[c] = "lock"
    /\ pool_ = <<>>
    /\ clientPc' = [clientPc EXCEPT ![c] = "wait"]
    /\ UNCHANGED <<pool_, connection_count_, held>>

(* The timeout expires with the pool empty: getConnection returns null.  A *)
(* client that was notified, and came too late, may be out of time too.    *)
Timeout(c) ==
    /\ clientPc[c] \in {"lock", "wait"}
    /\ pool_ = <<>>
    /\ clientPc' = [clientPc EXCEPT ![c] = "idle"]
    /\ UNCHANGED <<pool_, connection_count_, held>>

(* Mutants of Release: the client still has the pointer it gave back; no   *)
(* call of notify_one.                                                     *)
Release_KeepsPointer(c) ==
    /\ clientPc[c] = "use"
    /\ pool_' = Append(pool_, held[c])
    /\ clientPc' = [clientPc EXCEPT ![c] = "idle"]
    /\ UNCHANGED <<connection_count_, held>>

Release_NoNotify(c) ==
    /\ clientPc[c] = "use"
    /\ pool_' = Append(pool_, held[c])
    /\ held' = [held EXCEPT ![c] = 0]
    /\ clientPc' = [clientPc EXCEPT ![c] = "idle"]
    /\ UNCHANGED connection_count_

(***************************************************************************)
(* The deleter: back into the queue, whatever state the context is in, and *)
(* cv_.notify_one.                                                         *)
(***************************************************************************)
Release(c) ==
    /\ clientPc[c] = "use"
    /\ pool_' = Append(pool_, held[c])
    /\ held' = [held EXCEPT ![c] = 0]
    /\ \/ /\ Waiting = {}
          /\ clientPc' = [clientPc EXCEPT ![c] = "idle"]
       \/ \E w \in Waiting :
             clientPc' = [clientPc EXCEPT ![c] = "idle", ![w] = "lock"]
    /\ UNCHANGED connection_count_

ClientStep(c) == Call(c) \/ Take(c) \/ Wait(c) \/ Timeout(c) \/ Release(c)

Next == \E c \in Clients : ClientStep(c)

Spec == Init /\ [][Next]_vars
-----------------------------------------------------------------------------
(***************************************************************************)
(* No context is shared, lost or duplicated: each one the constructor      *)
(* connected is either once in the queue or with exactly one client, so a  *)
(* client only times out while all of them are in use.                     *)
(***************************************************************************)
Conserved ==
    /\ \A i, j \in DOMAIN pool_ : pool_[i] = pool_[j] => i = j
    /\ \A c, d \in Holders : held[c] = held[d] => c = d
    /\ \A i \in DOMAIN pool_, c \in Holders : pool_[i] # held[c]
    /\ Len(pool_) + Cardinality(Holders) = connection_count_

(***************************************************************************)
(* No lost wake-up: while a client waits, every idle context has a client  *)
(* of its own that is awake in getConnection.  This must survive a         *)
(* newcomer who takes the context a waiter was notified for, and the       *)
(* waiter that then waits again.                                           *)
(***************************************************************************)
NoIdleBesideWaiter ==
    Waiting # {} => Len(pool_) <= Cardinality(AtLock)
=============================================================================
