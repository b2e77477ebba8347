-------------------------- MODULE RedisPoolProofs --------------------------
(***************************************************************************)
(* Proofs about RedisPool, for every finite set of clients and every       *)
(* number of contexts, none included.  The queue, the holders and the      *)
(* clients awake in getConnection are counted, so each step is told by     *)
(* what it adds to these sets or takes from them.                          *)
(***************************************************************************)
EXTENDS RedisPool, FiniteSetTheorems, SequenceTheorems, TLAPS

LEMMA PoolShape ==
    ASSUME TypeOK
    PROVE  /\ Len(pool_) \in Nat /\ DOMAIN pool_ = 1..Len(pool_)
           /\ \A i \in 1..Len(pool_) : pool_[i] \in 1..init_size
           /\ pool_ = <<>> <=> Len(pool_) = 0
BY LenProperties, ElementOfSeq, EmptySeq DEF TypeOK

LEMMA SetsFinite ==
    /\ IsFiniteSet(Holders) /\ Cardinality(Holders) \in Nat
    /\ IsFiniteSet(AtLock) /\ Cardinality(AtLock) \in Nat
<1>1. Holders \subseteq Clients /\ AtLock \subseteq Clients
  BY DEF Holders, AtLock
<1>2. QED
  BY <1>1, RedisPoolAssumption, FS_Subset, FS_CardinalityType

LEMMA TakeShape ==
    ASSUME TypeOK, NEW c \in Clients, Take(c)
    PROVE  /\ Len(pool_) \in Nat \ {0}
           /\ pool_[1] \in 1..init_size
           /\ held' = [held EXCEPT ![c] = pool_[1]] /\ held[c] = 0
           /\ pool_' \in Seq(1..init_size)
           /\ Len(pool_') = Len(pool_) - 1
           /\ DOMAIN pool_' = 1..(Len(pool_) - 1)
           /\ \A i \in 1..(Len(pool_) - 1) : pool_'[i] = pool_[i + 1]
<1>1. pool_ \in Seq(1..init_size) /\ pool_ # <<>> /\ pool_' = Tail(pool_)
  BY DEF TypeOK, Take
<1>2. Head(pool_) = pool_[1] /\ Len(pool_) \in Nat \ {0}
  BY <1>1, EmptySeq
<1>3. /\ pool_[1] \in 1..init_size /\ pool_' \in Seq(1..init_size)
      /\ Len(pool_') = Len(pool_) - 1
      /\ \A i \in 1..Len(pool_') : pool_'[i] = pool_[i + 1]
  BY <1>1, <1>2, HeadTailProperties
<1>4. DOMAIN pool_' = 1..(Len(pool_) - 1)
  BY <1>3, LenProperties
<1>5. held' = [held EXCEPT ![c] = pool_[1]] /\ held[c] = 0
  <2>1. clientPc[c] # "use" /\ held' = [held EXCEPT ![c] = Head(pool_)]
    BY DEF Take
  <2>2. QED
    BY <1>2, <2>1 DEF TypeOK
<1>6. QED
  BY <1>2, <1>3, <1>4, <1>5

LEMMA ReleaseShape ==
    ASSUME TypeOK, NEW c \in Clients, Release(c)
    PROVE  /\ held[c] \in 1..init_size
           /\ held' = [held EXCEPT ![c] = 0] /\ held[c] # 0
           /\ pool_' \in Seq(1..init_size)
           /\ Len(pool_') = Len(pool_) + 1
           /\ DOMAIN pool_' = 1..(Len(pool_) + 1)
           /\ \A i \in 1..Len(pool_) : pool_'[i] = pool_[i]
           /\ pool_'[Len(pool_) + 1] = held[c]
<1>1. pool_ \in Seq(1..init_size) /\ pool_' = Append(pool_, held[c])
  BY DEF TypeOK, Release
<1>2. held[c] \in 1..init_size /\ held[c] # 0
  <2>1. held[c] \in 0..init_size /\ held[c] # 0
    BY DEF TypeOK, Release
  <2>2. QED
    BY <2>1, RedisPoolAssumption
<1>3. /\ pool_' \in Seq(1..init_size)
      /\ Len(pool_') = Len(pool_) + 1
      /\ \A i \in 1..Len(pool_) : pool_'[i] = pool_[i]
      /\ pool_'[Len(pool_) + 1] = held[c]
  BY <1>1, <1>2, AppendProperties
<1>4. DOMAIN pool_' = 1..(Len(pool_) + 1)
  BY <1>3, LenProperties
<1>5. held' = [held EXCEPT ![c] = 0]
  BY DEF Release
<1>6. QED
  BY <1>2, <1>3, <1>4, <1>5

(***************************************************************************)
(* Type correctness.                                                       *)
(***************************************************************************)
THEOREM TypeCorrect == Spec => []TypeOK
<1>1. Init => TypeOK
  <2> SUFFICES ASSUME Init PROVE TypeOK
    OBVIOUS
  <2>1. connection_count_ \in Nat /\ connection_count_ \in 0..init_size
    BY RedisPoolAssumption DEF Init
  <2>2. pool_ \in Seq(1..init_size)
    <3>1. \A i \in 1..connection_count_ : i \in 1..init_size
      BY <2>1, RedisPoolAssumption
    <3>2. pool_ \in [1..connection_count_ -> 1..init_size]
      BY <3>1 DEF Init
    <3>3. \A i \in 1..connection_count_ : pool_[i] \in 1..init_size
      BY <3>2
    <3>4. [i \in 1..connection_count_ |-> pool_[i]] \in Seq(1..init_size)
      BY <2>1, <3>3, IsASeq
    <3>5. QED
      BY <3>2, <3>4
  <2>3. held \in [Clients -> 0..init_size]
    BY RedisPoolAssumption DEF Init
  <2>4. QED
    BY <2>1, <2>2, <2>3 DEF Init, TypeOK, ClientPcs
<1>2. TypeOK /\ [Next]_vars => TypeOK'
  <2> SUFFICES ASSUME TypeOK, [Next]_vars PROVE TypeOK'
    OBVIOUS
  <2> USE DEF TypeOK, ClientPcs
  <2>1. ASSUME NEW c \in Clients, Call(c) \/ Wait(c) \/ Timeout(c) PROVE TypeOK'
    BY <2>1 DEF Call, Wait, Timeout
  <2>2. ASSUME NEW c \in Clients, Take(c) PROVE TypeOK'
    <3>1. pool_[1] \in 0..init_size /\ pool_[1] # 0
      BY <2>2, TakeShape, RedisPoolAssumption
    <3>2. /\ held' \in [Clients -> 0..init_size]
          /\ \A d \in Clients : held'[d] # 0 <=> clientPc'[d] = "use"
      <4>1. held' = [held EXCEPT ![c] = pool_[1]]
        BY <2>2, TakeShape
      <4>2. clientPc' = [clientPc EXCEPT ![c] = "use"]
        BY <2>2 DEF Take
      <4>3. QED
        BY <3>1, <4>1, <4>2, Zenon
    <3>3. pool_' \in Seq(1..init_size)
      BY <2>2, TakeShape
    <3>4. QED
      BY <2>2, <3>2, <3>3, Zenon DEF Take
  <2>3. ASSUME NEW c \in Clients, Release(c) PROVE TypeOK'
    <3>1. pool_' \in Seq(1..init_size)
      BY <2>3, ReleaseShape
    <3>2. /\ held' = [held EXCEPT ![c] = 0] /\ held' \in [Clients -> 0..init_size]
          /\ UNCHANGED connection_count_
      BY <2>3, RedisPoolAssumption DEF Release
    <3>3. /\ clientPc' \in [Clients -> ClientPcs]
          /\ \A d \in Clients : clientPc'[d] = "use" <=> clientPc[d] = "use" /\ d # c
      <4>1. clientPc[c] = "use"
        BY <2>3 DEF Release
      <4>2. CASE clientPc' = [clientPc EXCEPT ![c] = "idle"]
        BY <4>1, <4>2
      <4>3. ASSUME NEW w \in Waiting,
                   clientPc' = [clientPc EXCEPT ![c] = "idle", ![w] = "lock"]
            PROVE  /\ clientPc' \in [Clients -> ClientPcs]
                   /\ \A d \in Clients : clientPc'[d] = "use" <=> clientPc[d] = "use" /\ d # c
        BY <4>1, <4>3 DEF Waiting
      <4>4. QED
        BY <2>3, <4>2, <4>3 DEF Release
    <3>4. QED
      BY <3>1, <3>2, <3>3
  <2>4. CASE UNCHANGED vars
    BY <2>4 DEF vars
  <2>5. QED
    BY <2>1, <2>2, <2>3, <2>4 DEF Next, ClientStep
<1>3. QED
  BY <1>1, <1>2, PTL DEF Spec

(* The numbers: what is taken from the queue is held, and comes back.      *)
LEMMA HoldersCounted ==
    ASSUME TypeOK, NEW c \in Clients
    PROVE  /\ Take(c) => Cardinality(Holders') = Cardinality(Holders) + 1
           /\ Release(c) => Cardinality(Holders') = Cardinality(Holders) - 1
<1>1. ASSUME Take(c) PROVE Cardinality(Holders') = Cardinality(Holders) + 1
  <2>1. held' = [held EXCEPT ![c] = pool_[1]] /\ held[c] = 0 /\ pool_[1] # 0
    BY <1>1, TakeShape, RedisPoolAssumption
  <2>2. Holders' = Holders \cup {c} /\ c \notin Holders
    BY <2>1 DEF Holders, TypeOK
  <2>3. QED
    BY <2>2, SetsFinite, FS_AddElement
<1>2. ASSUME Release(c) PROVE Cardinality(Holders') = Cardinality(Holders) - 1
  <2>1. held' = [held EXCEPT ![c] = 0] /\ held[c] # 0
    BY <1>2, ReleaseShape
  <2>2. Holders' = Holders \ {c} /\ c \in Holders
    BY <2>1 DEF Holders, TypeOK
  <2>3. QED
    BY <2>2, SetsFinite, FS_RemoveElement
<1>3. QED
  BY <1>1, <1>2

(***************************************************************************)
(* No context is shared, lost or duplicated.                               *)
(***************************************************************************)
THEOREM ContextsConserved == Spec => []Conserved
<1>1. Init => Conserved
  <2> SUFFICES ASSUME Init PROVE Conserved
    OBVIOUS
  <2>1. Holders = {} /\ Cardinality(Holders) = 0
    BY FS_EmptySet DEF Init, Holders
  <2>2. connection_count_ \in Nat /\ pool_ = [i \in 1..connection_count_ |-> i]
    BY RedisPoolAssumption DEF Init
  <2>3. Len(pool_) = connection_count_
    BY <2>2
  <2>4. QED
    BY <2>1, <2>2, <2>3 DEF Conserved
<1>2. TypeOK /\ Conserved /\ [Next]_vars => Conserved'
  <2> SUFFICES ASSUME TypeOK, Conserved, [Next]_vars PROVE Conserved'
    OBVIOUS
  <2> DEFINE n == Len(pool_)
  <2>0. /\ n \in Nat /\ connection_count_ \in Nat
        /\ \A i, j \in 1..n : pool_[i] = pool_[j] => i = j
        /\ \A c, d \in Clients : held[c] # 0 /\ held[d] # 0 /\ held[c] = held[d] => c = d
        /\ \A i \in 1..n, c \in Clients : held[c] # 0 => pool_[i] # held[c]
        /\ n + Cardinality(Holders) = connection_count_
        /\ held \in [Clients -> 0..init_size]
    BY PoolShape, RedisPoolAssumption DEF Conserved, Holders, TypeOK
  <2>1. ASSUME NEW c \in Clients, Take(c) PROVE Conserved'
    <3>1. /\ n \in Nat \ {0} /\ Len(pool_') = n - 1 /\ DOMAIN pool_' = 1..(n - 1)
          /\ \A i \in 1..(n - 1) : pool_'[i] = pool_[i + 1]
          /\ held' = [held EXCEPT ![c] = pool_[1]] /\ held[c] = 0
          /\ connection_count_' = connection_count_
      BY <2>1, TakeShape DEF Take
    <3> HIDE DEF n
    <3>2. \A i \in 1..(n - 1) : i + 1 \in 1..n /\ i + 1 # 1 /\ pool_'[i] = pool_[i + 1]
      BY <3>1
    <3>3. \A i, j \in 1..(n - 1) : pool_'[i] = pool_'[j] => i = j
      BY <2>0, <3>2, <3>1
    <3>4. \A d \in Clients : held'[d] = IF d = c THEN pool_[1] ELSE held[d]
      BY <2>0, <3>1
    <3>5. 1 \in 1..n
      BY <3>1
    <3>6. \A d, e \in Holders' : held'[d] = held'[e] => d = e
      BY <2>0, <3>4, <3>5 DEF Holders
    <3>7. \A i \in 1..(n - 1), d \in Holders' : pool_'[i] # held'[d]
      BY <2>0, <3>2, <3>4, <3>5 DEF Holders
    <3>8. Len(pool_') + Cardinality(Holders') = connection_count_'
      BY <2>0, <2>1, <3>1, HoldersCounted, SetsFinite
    <3>9. QED
      BY <3>1, <3>3, <3>6, <3>7, <3>8 DEF Conserved
  <2>2. ASSUME NEW c \in Clients, Release(c) PROVE Conserved'
    <3>1. /\ Len(pool_') = n + 1 /\ DOMAIN pool_' = 1..(n + 1)
          /\ \A i \in 1..n : pool_'[i] = pool_[i]
          /\ pool_'[n + 1] = held[c]
          /\ held' = [held EXCEPT ![c] = 0] /\ held[c] # 0
          /\ connection_count_' = connection_count_
      BY <2>2, ReleaseShape DEF Release
    <3> HIDE DEF n
    <3>2. \A i \in 1..(n + 1) :
             \/ i \in 1..n /\ pool_'[i] = pool_[i]
             \/ i = n + 1 /\ pool_'[i] = held[c]
      BY <2>0, <3>1
    <3>3. \A d \in Clients : held'[d] # 0 => d # c /\ held'[d] = held[d] /\ held[d] # 0
      BY <2>0, <3>1
    <3>4. \A i, j \in 1..(n + 1) : pool_'[i] = pool_'[j] => i = j
      BY <2>0, <3>1, <3>2
    <3>5. \A d, e \in Holders' : held'[d] = held'[e] => d = e
      BY <2>0, <3>3 DEF Holders
    <3>6. \A i \in 1..(n + 1), d \in Holders' : pool_'[i] # held'[d]
      BY <2>0, <3>1, <3>2, <3>3 DEF Holders
    <3>7. Len(pool_') + Cardinality(Holders') = connection_count_'
      BY <2>0, <2>2, <3>1, HoldersCounted, SetsFinite
    <3>8. QED
      BY <3>1, <3>4, <3>5, <3>6, <3>7 DEF Conserved
  <2>3. CASE UNCHANGED <<pool_, connection_count_, held>>
    BY <2>3 DEF Conserved, Holders
  <2>4. QED
    BY <2>1, <2>2, <2>3 DEF Next, ClientStep, Call, Wait, Timeout, vars
<1>3. QED
  BY <1>1, <1>2, TypeCorrect, PTL DEF Spec

(***************************************************************************)
(* No lost wake-up: while a client waits, every idle context has a client  *)
(* of its own that is awake in getConnection.                              *)
(***************************************************************************)
THEOREM NoLostWakeup == Spec => []NoIdleBesideWaiter
<1>1. Init => NoIdleBesideWaiter
  BY DEF Init, NoIdleBesideWaiter, Waiting
<1>2. TypeOK /\ NoIdleBesideWaiter /\ [Next]_vars => NoIdleBesideWaiter'
  <2> SUFFICES ASSUME TypeOK, NoIdleBesideWaiter, [Next]_vars, Waiting' # {}
               PROVE  Len(pool_') <= Cardinality(AtLock')
    BY DEF NoIdleBesideWaiter
  <2>0. /\ Len(pool_) \in Nat /\ clientPc \in [Clients -> ClientPcs]
        /\ IsFiniteSet(AtLock) /\ Cardinality(AtLock) \in Nat
    BY PoolShape, SetsFinite DEF TypeOK
  <2>1. ASSUME NEW c \in Clients, Call(c)
        PROVE  Len(pool_') <= Cardinality(AtLock')
    <3>1. /\ Waiting' = Waiting /\ pool_' = pool_
          /\ AtLock' = AtLock \cup {c} /\ c \notin AtLock
      BY <2>0, <2>1 DEF Call, Waiting, AtLock
    <3>2. Cardinality(AtLock') = Cardinality(AtLock) + 1
      BY <2>0, <3>1, FS_AddElement
    <3>3. QED
      BY <2>0, <3>1, <3>2 DEF NoIdleBesideWaiter
  <2>2. ASSUME NEW c \in Clients, Take(c)
        PROVE  Len(pool_') <= Cardinality(AtLock')
    <3>1. Len(pool_') = Len(pool_) - 1
      BY <2>2, TakeShape
    <3>2. /\ Waiting' \subseteq Waiting /\ AtLock' = AtLock \ {c}
          /\ clientPc[c] \in {"lock", "wait"}
      BY <2>0, <2>2 DEF Take, Waiting, AtLock
    <3>3. Cardinality(AtLock') >= Cardinality(AtLock) - 1
      <4>1. CASE c \in AtLock
        BY <2>0, <3>2, <4>1, FS_RemoveElement
      <4>2. CASE c \notin AtLock
        <5>1. AtLock' = AtLock
          BY <3>2, <4>2
        <5>2. QED
          BY <2>0, <5>1
      <4>3. QED
        BY <4>1, <4>2
    <3>4. Len(pool_) <= Cardinality(AtLock)
      BY <3>2 DEF NoIdleBesideWaiter
    <3>5. Cardinality(AtLock') \in Nat
      BY <2>0, <3>2, FS_Subset, FS_CardinalityType
    <3>6. QED
      BY <2>0, <3>1, <3>3, <3>4, <3>5
  <2>3. ASSUME NEW c \in Clients, Wait(c) \/ Timeout(c)
        PROVE  Len(pool_') <= Cardinality(AtLock')
    <3>1. pool_' = pool_ /\ Len(pool_) = 0 /\ AtLock' \subseteq AtLock
      BY <2>0, <2>3, PoolShape DEF Wait, Timeout, AtLock
    <3>2. Cardinality(AtLock') \in Nat
      BY <2>0, <3>1, FS_Subset, FS_CardinalityType
    <3>3. QED
      BY <3>1, <3>2
  <2>4. ASSUME NEW c \in Clients, Release(c)
        PROVE  Len(pool_') <= Cardinality(AtLock')
    <3>1. Len(pool_') = Len(pool_) + 1 /\ clientPc[c] = "use"
      BY <2>4, ReleaseShape DEF Release
    <3>2. Waiting # {}
      BY <2>0, <2>4 DEF Release, Waiting
    <3>3. PICK w \in Waiting :
             clientPc' = [clientPc EXCEPT ![c] = "idle", ![w] = "lock"]
      BY <2>4, <3>2 DEF Release
    <3>4. AtLock' = AtLock \cup {w} /\ w \notin AtLock
      BY <2>0, <3>1, <3>3 DEF AtLock, Waiting
    <3>5. Cardinality(AtLock') = Cardinality(AtLock) + 1
      BY <2>0, <3>4, FS_AddElement
    <3>6. QED
      BY <2>0, <3>1, <3>2, <3>5 DEF NoIdleBesideWaiter
  <2>5. CASE UNCHANGED vars
    BY <2>5 DEF vars, NoIdleBesideWaiter, Waiting, AtLock
  <2>6. QED
    BY <2>1, <2>2, <2>3, <2>4, <2>5 DEF Next, ClientStep
<1>3. QED
  BY <1>1, <1>2, TypeCorrect, PTL DEF Spec
=============================================================================
