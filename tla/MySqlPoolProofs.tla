-------------------------- MODULE MySqlPoolProofs --------------------------
(***************************************************************************)
(* Proofs about MySqlPool, for every set of fewer clients than _maxSize.   *)
(* Type correctness is inductive; conservation of the connections and the  *)
(* producer's being awake are inductive with it; and from conservation it  *)
(* follows by counting that an empty queue means that there are no more    *)
(* connections than clients, which bounds the growth of the pool.          *)
(***************************************************************************)
EXTENDS MySqlPool, FiniteSetTheorems, SequenceTheorems, TLAPS

(***************************************************************************)
(* What the three operations that change the queue do to it.               *)
(***************************************************************************)
LEMMA TakeShape ==
    ASSUME TypeOK, NEW c \in Clients, Take(c)
    PROVE  /\ Len(connectionQue) \in Nat \ {0}
           /\ Head(connectionQue) = connectionQue[1]
           /\ connectionQue[1] \in 1..MaxSize
           /\ connectionQue' \in Seq(1..MaxSize)
           /\ Len(connectionQue') = Len(connectionQue) - 1
           /\ \A i \in 1..Len(connectionQue') : connectionQue'[i] = connectionQue[i + 1]
<1>1. /\ connectionQue \in Seq(1..MaxSize) /\ connectionQue # <<>>
      /\ connectionQue' = Tail(connectionQue)
  BY DEF TypeOK, Take
<1>2. Head(connectionQue) = connectionQue[1] /\ Len(connectionQue) \in Nat \ {0}
  BY <1>1, EmptySeq
<1>3. QED
  BY <1>1, <1>2, HeadTailProperties

LEMMA ReleaseShape ==
    ASSUME TypeOK, NEW c \in Clients, Release(c)
    PROVE  /\ held[c] \in 1..MaxSize
           /\ connectionQue' \in Seq(1..MaxSize)
           /\ Len(connectionQue) \in Nat
           /\ Len(connectionQue') = Len(connectionQue) + 1
           /\ connectionQue' # <<>>
           /\ \A i \in 1..Len(connectionQue) : connectionQue'[i] = connectionQue[i]
           /\ connectionQue'[Len(connectionQue) + 1] = held[c]
<1>1. /\ connectionQue \in Seq(1..MaxSize)
      /\ connectionQue' = Append(connectionQue, held[c])
  BY DEF TypeOK, Release
<1>2. held[c] \in 1..MaxSize
  BY MySqlPoolAssumption DEF TypeOK, Release
<1>3. QED
  BY <1>1, <1>2, AppendProperties

LEMMA ProduceShape ==
    ASSUME TypeOK, Produce
    PROVE  /\ connectionCnt' = connectionCnt + 1
           /\ connectionCnt' \in 1..MaxSize
           /\ connectionQue' \in Seq(1..MaxSize)
           /\ Len(connectionQue) = 0
           /\ Len(connectionQue') = 1
           /\ connectionQue' # <<>>
           /\ connectionQue'[1] = connectionCnt'
<1>1. /\ connectionQue \in Seq(1..MaxSize) /\ Len(connectionQue) = 0
      /\ connectionQue' = Append(connectionQue, connectionCnt + 1)
  BY EmptySeq DEF TypeOK, Produce
<1>2. connectionCnt' = connectionCnt + 1 /\ connectionCnt' \in 1..MaxSize
  BY MySqlPoolAssumption DEF TypeOK, Produce
<1>3. QED
  BY <1>1, <1>2, AppendProperties

(***************************************************************************)
(* Type correctness.                                                       *)
(***************************************************************************)
THEOREM TypeCorrect == Spec => []TypeOK
<1>1. Init => TypeOK
  <2> SUFFICES ASSUME Init PROVE TypeOK
    OBVIOUS
  <2>1. connectionQue \in Seq(1..MaxSize)
    <3>1. \A i \in 1..InitSize : connectionQue[i] \in 1..MaxSize
      BY MySqlPoolAssumption DEF Init
    <3>2. connectionQue \in [1..InitSize -> 1..MaxSize]
      BY <3>1 DEF Init
    <3>3. QED
      BY <3>2, MySqlPoolAssumption, IsASeq
  <2>2. connectionCnt \in 1..MaxSize /\ held \in [Clients -> 0..MaxSize]
    BY MySqlPoolAssumption DEF Init
  <2>3. QED
    BY <2>1, <2>2 DEF Init, TypeOK, ClientPcs
<1>2. TypeOK /\ [Next]_vars => TypeOK'
  <2> SUFFICES ASSUME TypeOK, [Next]_vars PROVE TypeOK'
    OBVIOUS
  <2> USE DEF TypeOK, ClientPcs
  <2>1. ASSUME NEW c \in Clients, Call(c) \/ Wait(c) \/ Timeout(c) PROVE TypeOK'
    BY <2>1 DEF Call, Wait, Timeout
  <2>2. ASSUME NEW c \in Clients, Take(c) PROVE TypeOK'
    <3>1. /\ Head(connectionQue) \in 1..MaxSize
          /\ connectionQue' \in Seq(1..MaxSize)
      BY <2>2, TakeShape
    <3>2. Head(connectionQue) \in 0..MaxSize /\ Head(connectionQue) # 0
      BY <3>1, MySqlPoolAssumption
    <3>3. /\ held' \in [Clients -> 0..MaxSize]
          /\ \A d \in Clients : held'[d] # 0 <=> clientPc'[d] = "use"
      BY <2>2, <3>2, Zenon DEF Take
    <3>4. QED
      BY <2>2, <3>1, <3>3, Zenon DEF Take
  <2>3. ASSUME NEW c \in Clients, Release(c) PROVE TypeOK'
    <3>1. connectionQue' \in Seq(1..MaxSize)
      BY <2>3, ReleaseShape
    <3>2. QED
      BY <2>3, <3>1, MySqlPoolAssumption DEF Release
  <2>4. CASE Produce
    <3>1. connectionCnt' \in 1..MaxSize /\ connectionQue' \in Seq(1..MaxSize)
      BY <2>4, ProduceShape
    <3>2. QED
      BY <2>4, <3>1 DEF Produce, WakeClients
  <2>5. CASE ProducerSleep \/ ProducerWake
    BY <2>5 DEF ProducerSleep, ProducerWake
  <2>6. CASE ProduceFails
    BY <2>6 DEF ProduceFails, WakeClients
  <2>7. CASE UNCHANGED vars
    BY <2>7 DEF vars
  <2>8. QED
    BY <2>1, <2>2, <2>3, <2>4, <2>5, <2>6, <2>7 DEF Next, ClientStep, ProducerStep
<1>3. QED
  BY <1>1, <1>2, PTL DEF Spec

(***************************************************************************)
(* No connection is shared, lost or duplicated.                            *)
(***************************************************************************)
THEOREM ConnectionsConserved == Spec => []Conserved
<1>1. Init => Conserved
  BY MySqlPoolAssumption DEF Init, Conserved, NoneShared, NoneLost, NoneUnknown, Holders
<1>2. TypeOK /\ Conserved /\ [Next]_vars => Conserved'
  <2> SUFFICES ASSUME TypeOK, Conserved, [Next]_vars PROVE Conserved'
    OBVIOUS
  <2> USE DEF Conserved, NoneShared, NoneUnknown, Holders
  <2>0. /\ connectionCnt \in Nat /\ held \in [Clients -> 0..MaxSize]
        /\ Len(connectionQue) \in Nat
        /\ DOMAIN connectionQue = 1..Len(connectionQue)
        /\ \A i \in 1..Len(connectionQue) : connectionQue[i] \in 1..MaxSize
        /\ MaxSize \in Nat
    <3>1. connectionQue \in Seq(1..MaxSize) /\ connectionCnt \in Nat /\ MaxSize \in Nat
      BY MySqlPoolAssumption DEF TypeOK
    <3>2. QED
      BY <3>1, LenProperties, ElementOfSeq DEF TypeOK
  <2>1. ASSUME NEW c \in Clients, Take(c) PROVE Conserved'
    <3>1. /\ held' = [held EXCEPT ![c] = connectionQue[1]] /\ held[c] = 0
          /\ connectionCnt' = connectionCnt
      BY <2>1, TakeShape DEF Take, TypeOK
    <3>2. /\ Len(connectionQue) \in Nat \ {0}
          /\ DOMAIN connectionQue' = 1..(Len(connectionQue) - 1)
          /\ \A i \in 1..(Len(connectionQue) - 1) : connectionQue'[i] = connectionQue[i + 1]
          /\ connectionQue[1] \in 1..MaxSize
      BY <2>1, TakeShape
    <3>3. NoneShared'
      <4>1. \A i, j \in DOMAIN connectionQue' : connectionQue'[i] = connectionQue'[j] => i = j
        <5> SUFFICES ASSUME NEW i \in 1..(Len(connectionQue) - 1),
                            NEW j \in 1..(Len(connectionQue) - 1),
                            connectionQue'[i] = connectionQue'[j]
                     PROVE  i = j
          BY <3>2
        <5>1. i + 1 \in 1..Len(connectionQue) /\ j + 1 \in 1..Len(connectionQue)
          BY <3>2
        <5>2. connectionQue[i + 1] = connectionQue[j + 1]
          BY <3>2
        <5>3. QED
          BY <5>1, <5>2, <2>0
      <4>2. \A d, e \in Holders' : held'[d] = held'[e] => d = e
        BY <2>0, <3>1, <3>2
      <4>3. \A i \in DOMAIN connectionQue', d \in Holders' : connectionQue'[i] # held'[d]
        <5> SUFFICES ASSUME NEW i \in 1..(Len(connectionQue) - 1),
                            NEW d \in Clients, held'[d] # 0
                     PROVE  connectionQue[i + 1] # held'[d]
          BY <3>2
        <5>1. i + 1 \in 1..Len(connectionQue) /\ 1 \in 1..Len(connectionQue) /\ i + 1 # 1
          BY <3>2
        <5>2. QED
          BY <5>1, <2>0, <3>1
      <4>4. QED
        BY <4>1, <4>2, <4>3
    <3>4. NoneLost'
      <4> SUFFICES ASSUME NEW n \in 1..connectionCnt
                   PROVE  \/ \E i \in DOMAIN connectionQue' : connectionQue'[i] = n
                          \/ \E d \in Clients : held'[d] # 0 /\ held'[d] = n
        BY <3>1, Zenon DEF NoneLost
      <4>1. CASE \E d \in Clients : held[d] # 0 /\ held[d] = n
        BY <4>1, <2>0, <3>1
      <4>2. ASSUME NEW i \in 1..Len(connectionQue), connectionQue[i] = n, i = 1
            PROVE  \E d \in Clients : held'[d] # 0 /\ held'[d] = n
        BY <4>2, <2>0, <3>1, <3>2
      <4>3. ASSUME NEW i \in 1..Len(connectionQue), connectionQue[i] = n, i # 1
            PROVE  \E j \in DOMAIN connectionQue' : connectionQue'[j] = n
        <5>1. i - 1 \in 1..(Len(connectionQue) - 1) /\ (i - 1) + 1 = i
          BY <4>3, <3>2
        <5>2. connectionQue'[i - 1] = n
          BY <4>3, <5>1, <3>2
        <5>3. QED
          BY <5>1, <5>2, <3>2, Zenon
      <4>4. QED
        BY <4>1, <4>2, <4>3, <2>0, Zenon DEF NoneLost
    <3>5. NoneUnknown'
      <4>1. \A i \in 1..(Len(connectionQue) - 1) : connectionQue'[i] <= connectionCnt
        <5> SUFFICES ASSUME NEW i \in 1..(Len(connectionQue) - 1)
                     PROVE  connectionQue[i + 1] <= connectionCnt
          BY <3>2
        <5>1. i + 1 \in 1..Len(connectionQue)
          BY <3>2
        <5>2. QED
          BY <5>1, <2>0
      <4>2. connectionQue[1] <= connectionCnt
        BY <2>0, <3>2
      <4>3. \A d \in Clients : held'[d] # 0 => held'[d] <= connectionCnt
        BY <2>0, <3>1, <4>2
      <4>4. QED
        BY <4>1, <4>3, <3>1, <3>2
    <3>6. QED
      BY <3>3, <3>4, <3>5
  <2>2. ASSUME NEW c \in Clients, Release(c) PROVE Conserved'
    <3>1. /\ held' = [held EXCEPT ![c] = 0] /\ held[c] # 0
          /\ connectionCnt' = connectionCnt
      <4>1. held[c] \in 1..MaxSize
        BY <2>2, ReleaseShape
      <4>2. held[c] # 0
        BY <4>1, <2>0
      <4>3. QED
        BY <2>2, <4>2, Zenon DEF Release
    <3>2. /\ DOMAIN connectionQue' = 1..(Len(connectionQue) + 1)
          /\ \A i \in 1..Len(connectionQue) : connectionQue'[i] = connectionQue[i]
          /\ connectionQue'[Len(connectionQue) + 1] = held[c]
      BY <2>2, ReleaseShape
    <3>3. NoneShared'
      <4> DEFINE q == connectionQue   n == Len(connectionQue)   new == connectionQue'
      <4>1. \A i \in 1..(n + 1) :
              (i \in 1..n /\ new[i] = q[i]) \/ (i = n + 1 /\ new[i] = held[c])
        BY <2>0, <3>2
      <4>2. \A i \in 1..n : q[i] # held[c]
        BY <2>0, <3>1
      <4>3. \A i, j \in 1..n : q[i] = q[j] => i = j
        BY <2>0
      <4>4. \A d \in Clients : held'[d] # 0 => d # c /\ held'[d] = held[d]
        BY <2>0, <3>1
      <4> HIDE DEF q, n, new
      <4>5. \A i, j \in 1..(n + 1) : new[i] = new[j] => i = j
        BY <4>1, <4>2, <4>3
      <4>6. \A d, e \in Holders' : held'[d] = held'[e] => d = e
        BY <4>4
      <4>7. \A i \in 1..n, d \in Holders' : q[i] # held'[d]
        BY <2>0, <4>4 DEF q, n
      <4>8. \A d \in Holders' : held[c] # held'[d]
        BY <3>1, <4>4
      <4>9. \A i \in 1..(n + 1), d \in Holders' : new[i] # held'[d]
        BY <4>1, <4>7, <4>8, Zenon
      <4>10. QED
        BY <4>5, <4>6, <4>9, <3>2, Zenon DEF n, new
    <3>4. NoneLost'
      <4> SUFFICES ASSUME NEW n \in 1..connectionCnt
                   PROVE  \/ \E i \in DOMAIN connectionQue' : connectionQue'[i] = n
                          \/ \E d \in Clients : held'[d] # 0 /\ held'[d] = n
        BY <3>1, Zenon DEF NoneLost
      <4>1. ASSUME NEW i \in 1..Len(connectionQue), connectionQue[i] = n
            PROVE  \E j \in DOMAIN connectionQue' : connectionQue'[j] = n
        BY <4>1, <2>0, <3>2
      <4>2. CASE held[c] = n
        BY <4>2, <2>0, <3>2
      <4>3. ASSUME NEW d \in Clients, held[d] # 0, held[d] = n, d # c
            PROVE  \E e \in Clients : held'[e] # 0 /\ held'[e] = n
        BY <4>3, <2>0, <3>1
      <4>4. QED
        BY <4>1, <4>2, <4>3, <2>0, Zenon DEF NoneLost
    <3>5. NoneUnknown'
      <4>1. held[c] <= connectionCnt
        BY <3>1
      <4>2. \A i \in 1..(Len(connectionQue) + 1) : connectionQue'[i] <= connectionCnt
        <5> SUFFICES ASSUME NEW i \in 1..(Len(connectionQue) + 1)
                     PROVE  connectionQue'[i] <= connectionCnt
          OBVIOUS
        <5>1. CASE i \in 1..Len(connectionQue)
          BY <5>1, <2>0, <3>2
        <5>2. CASE i = Len(connectionQue) + 1
          BY <5>2, <4>1, <3>2
        <5>3. QED
          BY <5>1, <5>2, <2>0
      <4>3. \A d \in Clients : held'[d] # 0 => held'[d] <= connectionCnt
        BY <2>0, <3>1
      <4>4. QED
        BY <4>2, <4>3, <3>1, <3>2
    <3>6. QED
      BY <3>3, <3>4, <3>5
  <2>3. CASE Produce
    <3>1. held' = held /\ connectionCnt' = connectionCnt + 1
      BY <2>3 DEF Produce
    <3>2. /\ Len(connectionQue) = 0
          /\ DOMAIN connectionQue' = 1..1
          /\ connectionQue'[1] = connectionCnt + 1
      BY <2>3, <3>1, ProduceShape
    <3>3. QED
      BY <2>0, <3>1, <3>2 DEF NoneLost
  <2>4. CASE UNCHANGED <<connectionQue, connectionCnt, held>>
    BY <2>4 DEF NoneLost
  <2>5. QED
    BY <2>1, <2>2, <2>3, <2>4 DEF Next, ClientStep, ProducerStep, Call, Wait, Timeout,
       ProducerSleep, ProducerWake, ProduceFails, vars
<1>3. QED
  BY <1>1, <1>2, TypeCorrect, PTL DEF Spec

(***************************************************************************)
(* The producer never sleeps on an empty queue.                            *)
(***************************************************************************)
THEOREM ProducerNeverSleepsOnEmpty == Spec => []ProducerAwake
<1>1. Init => ProducerAwake
  BY DEF Init, ProducerAwake
<1>2. TypeOK /\ ProducerAwake /\ [Next]_vars => ProducerAwake'
  <2> SUFFICES ASSUME TypeOK, ProducerAwake, [Next]_vars PROVE ProducerAwake'
    OBVIOUS
  <2>1. ASSUME NEW c \in Clients, Take(c) PROVE ProducerAwake'
    BY <2>1, Zenon DEF Take, ProducerAwake
  <2>2. ASSUME NEW c \in Clients, Release(c) PROVE ProducerAwake'
    BY <2>2, Zenon DEF Release, ProducerAwake
  <2>3. CASE Produce
    BY <2>3, Zenon DEF Produce, ProducerAwake
  <2>4. CASE ProducerSleep \/ ProducerWake \/ ProduceFails
    BY <2>4, Zenon DEF ProducerSleep, ProducerWake, ProduceFails, ProducerAwake
  <2>5. CASE UNCHANGED <<connectionQue, producerPc>>
    BY <2>5, Zenon DEF ProducerAwake
  <2>6. QED
    BY <2>1, <2>2, <2>3, <2>4, <2>5 DEF Next, ClientStep, ProducerStep, Call, Wait, Timeout, vars
<1>3. QED
  BY <1>1, <1>2, TypeCorrect, PTL DEF Spec

(***************************************************************************)
(* Counting: with an empty queue every connection is held, by a client of  *)
(* its own, so there are at most as many connections as clients.           *)
(***************************************************************************)
LEMMA EmptyMeansHeld ==
    ASSUME TypeOK, Conserved, connectionQue = <<>>
    PROVE  connectionCnt <= Cardinality(Clients)
<1> DEFINE holder == [n \in 1..connectionCnt |-> CHOOSE c \in Clients : held[c] = n]
<1>1. connectionCnt \in Nat /\ connectionCnt >= 1
  BY MySqlPoolAssumption DEF TypeOK
<1>2. \A n \in 1..connectionCnt : \E c \in Clients : held[c] = n
  BY EmptySeq DEF Conserved, NoneLost, Holders
<1>3. \A n \in 1..connectionCnt : holder[n] \in Clients /\ held[holder[n]] = n
  BY <1>2
<1>4. holder \in Injection(1..connectionCnt, Clients)
  <2>1. holder \in [1..connectionCnt -> Clients]
    BY <1>3
  <2>2. \A m, n \in 1..connectionCnt : holder[m] = holder[n] => m = n
    BY <1>3, Zenon
  <2> HIDE DEF holder
  <2>3. QED
    BY <2>1, <2>2, Zenon DEF Injection, IsInjective
<1>5. Cardinality(1..connectionCnt) <= Cardinality(Clients)
  BY <1>4, FS_Injection, MySqlPoolAssumption
<1>6. Cardinality(1..connectionCnt) = connectionCnt
  BY <1>1, FS_Interval
<1>7. QED
  BY <1>5, <1>6

(***************************************************************************)
(* The pool is never at its limit with nothing idle, so the producer does  *)
(* not spin; and it grows to at most one connection more than there are    *)
(* clients.                                                                *)
(***************************************************************************)
THEOREM GrowthIsBounded == Spec => []GrowthInv
<1>1. Init => GrowthBounded
  BY MySqlPoolAssumption DEF Init, GrowthBounded
<1>2. TypeOK /\ Conserved /\ GrowthBounded /\ [Next]_vars => GrowthBounded'
  <2> SUFFICES ASSUME TypeOK, Conserved, GrowthBounded, [Next]_vars PROVE GrowthBounded'
    OBVIOUS
  <2>1. CASE Produce
    <3>1. connectionQue = <<>> /\ connectionCnt' = connectionCnt + 1
      BY <2>1 DEF Produce
    <3>2. connectionCnt <= Cardinality(Clients)
      BY <3>1, EmptyMeansHeld
    <3>3. QED
      BY <3>1, <3>2, FS_CardinalityType, MySqlPoolAssumption DEF TypeOK, GrowthBounded
  <2>2. CASE UNCHANGED connectionCnt
    BY <2>2 DEF GrowthBounded
  <2>3. QED
    BY <2>1, <2>2 DEF Next, ClientStep, ProducerStep, Call, Take, Wait, Timeout, Release,
       ProducerSleep, ProducerWake, ProduceFails, vars
<1>3. TypeOK /\ Conserved => NeverSpins
  <2> SUFFICES ASSUME TypeOK, Conserved, connectionQue = <<>>
               PROVE  connectionCnt < MaxSize
    BY DEF NeverSpins
  <2>1. connectionCnt <= Cardinality(Clients)
    BY EmptyMeansHeld
  <2>2. QED
    BY <2>1, MySqlPoolAssumption, FS_CardinalityType DEF TypeOK
<1>4. QED
  BY <1>1, <1>2, <1>3, TypeCorrect, ConnectionsConserved, PTL DEF Spec, GrowthInv
=============================================================================
