------------------------- MODULE QueryServiceProofs ------------------------
(***************************************************************************)
(* Theorems about QueryService, for any number of queries at a time, of    *)
(* connections and of builds.                                              *)
(***************************************************************************)
EXTENDS QueryService, FiniteSetTheorems, TLAPS

USE DEF queries, data, counts

(***************************************************************************)
(* The inductive invariants.  Only an update between getConnection and its *)
(* end holds a connection for the listener, and with a spare connection    *)
(* every update that has ended has switched.                               *)
(***************************************************************************)
HoldersInv ==
    /\ Listener \in holders => listenerPc \in {"redis", "clear", "load", "switch"}
    /\ capacity > Cardinality(Workers) => applied = handled

(***************************************************************************)
(* A query that no update has passed uses the current buffer, and whoever  *)
(* uses a buffer has seen the first load done.                             *)
(***************************************************************************)
ReadersInv ==
    \A w \in Workers :
        /\ pc[w] \in {"first", "version", "read"} => cacheLoaded
        /\ pc[w] = "read" /\ overtaken[w] = 0 => version[w] = currentVersion

(***************************************************************************)
(* What is known of the data while no notification is on its way: the      *)
(* steps of an update bring version and backup buffer to the last build    *)
(* one after the other, and so does a first load if it comes before.       *)
(***************************************************************************)
Settled == ~failed /\ told = places /\ inbox = 0

QuietInv ==
    /\ told <= published /\ published <= places /\ applied <= handled
    /\ handled = 0 => currentVersion = 0
    /\ handled = 0 /\ ~cacheLoaded => cache[0] = {}
    /\ Settled /\ listenerPc \in {"clear", "load", "switch"} => redisVersion = published
    /\ Settled /\ listenerPc = "load" => cache[Backup] = {}
    /\ Settled /\ listenerPc = "switch" => cache[Backup] = {places}
    /\ Settled /\ listenerPc = "idle" /\ applied = handled /\ (handled > 0 \/ cacheLoaded)
       => /\ cache[currentVersion] = {places}
          /\ handled > 0 \/ updateMutex = {} => redisVersion = published

(* Holders are threads, within the connections there are.                  *)
HeldOK == /\ capacity \in Nat
          /\ holders \subseteq Workers \cup {Listener} /\ Cardinality(holders) <= capacity
-----------------------------------------------------------------------------
(* The holders are finitely many, and one more of them counts for one.     *)
LEMMA HoldersFinite ==
    ASSUME holders \subseteq Workers \cup {Listener}
    PROVE  /\ IsFiniteSet(holders) /\ Cardinality(holders) \in Nat
           /\ \A t : Cardinality(holders \cup {t}) <= Cardinality(holders) + 1
           /\ \A t : Cardinality(holders \ {t}) <= Cardinality(holders)
           /\ \A t : IsFiniteSet(holders \cup {t}) /\ Cardinality(holders \cup {t}) \in Nat
                     /\ Cardinality(holders \ {t}) \in Nat
<1>1. IsFiniteSet(Workers \cup {Listener})
  BY QueryServiceAssumption, FS_AddElement
<1>2. IsFiniteSet(holders)
  BY <1>1, FS_Subset
<1>3. Cardinality(holders) \in Nat
  BY <1>2, FS_CardinalityType
<1>4. ASSUME NEW t
      PROVE  /\ IsFiniteSet(holders \cup {t})
             /\ Cardinality(holders \cup {t}) <= Cardinality(holders) + 1
             /\ Cardinality(holders \cup {t}) \in Nat
  <2>1. /\ IsFiniteSet(holders \cup {t})
        /\ Cardinality(holders \cup {t}) =
             IF t \in holders THEN Cardinality(holders) ELSE Cardinality(holders) + 1
    BY <1>2, FS_AddElement
  <2>2. QED
    BY <2>1, <1>3
<1>5. ASSUME NEW t
      PROVE  /\ Cardinality(holders \ {t}) <= Cardinality(holders)
             /\ Cardinality(holders \ {t}) \in Nat
  <2>1. Cardinality(holders \ {t}) =
             IF t \in holders THEN Cardinality(holders) - 1 ELSE Cardinality(holders)
    BY <1>2, FS_RemoveElement
  <2>2. IsFiniteSet(holders \ {t})
    BY <1>2, FS_RemoveElement
  <2>3. Cardinality(holders \ {t}) \in Nat
    BY <2>2, FS_CardinalityType
  <2>4. QED
    BY <2>1, <2>3, <1>3
<1>6. QED
  BY <1>2, <1>3, <1>4, <1>5

(* Exhausted compares the holders with the connections there are.          *)
LEMMA HoldersStep ==
    ASSUME HeldOK, NEW t \in Workers \cup {Listener}, capacity' = capacity,
           \/ ~Exhausted /\ holders' = holders \cup {t}
           \/ holders' = holders \ {t}
           \/ holders' = holders
    PROVE  HeldOK'
<1>1. holders' \subseteq Workers \cup {Listener}
  BY DEF HeldOK
<1>2. CASE ~Exhausted /\ holders' = holders \cup {t}
  <2>1. Cardinality(holders) # capacity
    BY <1>2 DEF Exhausted
  <2>2. /\ Cardinality(holders) \in Nat /\ Cardinality(holders') \in Nat
        /\ Cardinality(holders') <= Cardinality(holders) + 1
    BY <1>2, HoldersFinite DEF HeldOK
  <2>3. capacity \in Nat /\ Cardinality(holders) <= capacity
    BY DEF HeldOK
  <2>4. Cardinality(holders') <= capacity
    BY <2>1, <2>2, <2>3
  <2>5. QED
    BY <2>3, <2>4, <1>1 DEF HeldOK
<1>3. CASE holders' = holders \ {t}
  BY <1>1, <1>3, HoldersFinite DEF HeldOK
<1>4. CASE holders' = holders
  BY <1>1, <1>4 DEF HeldOK
<1>5. QED
  BY <1>2, <1>3, <1>4

(***************************************************************************)
(* Types, without the connections and without the mutex; and the mutex,    *)
(* which belongs to who is between its lock and its unlock.                *)
(***************************************************************************)
PlainOK ==
    /\ capacity \in MinConns..MaxConns
    /\ pc \in [Workers -> WorkerPcs] /\ listenerPc \in ListenerPcs
    /\ version \in [Workers -> {0, 1}] /\ overtaken \in [Workers -> Nat]
    /\ cache \in [{0, 1} -> SUBSET Builds]
    /\ currentVersion \in {0, 1} /\ cacheLoaded \in BOOLEAN /\ failed \in BOOLEAN
    /\ redisVersion \in {0} \cup Builds /\ {places, published, told} \subseteq Builds
    /\ inbox \in Nat /\ handled \in Nat /\ applied \in Nat

MutexOK ==
    /\ updateMutex = {w \in Workers : pc[w] = "first"} \cup
                     (IF listenerPc \in {"idle", "lock"} THEN {} ELSE {Listener})
    /\ \A s, t \in updateMutex : s = t

LEMMA TypeParts == TypeOK <=> PlainOK /\ HeldOK /\ MutexOK
BY QueryServiceAssumption DEF TypeOK, PlainOK, HeldOK, MutexOK

(* What a load does to the types.                                          *)
LEMMA LoadTypes ==
    ASSUME PlainOK, NEW b \in {0, 1}, LoadCacheData(b)
    PROVE  cache' \in [{0, 1} -> SUBSET Builds] /\ failed' \in BOOLEAN
<1>1. cache[b] \cup {places} \in SUBSET Builds /\ cache \in [{0, 1} -> SUBSET Builds]
  BY DEF PlainOK
<1>2. CASE cache' = [cache EXCEPT ![b] = @ \cup {places}] /\ UNCHANGED failed
  BY <1>1, <1>2 DEF PlainOK
<1>3. CASE UNCHANGED cache /\ failed' = TRUE
  BY <1>1, <1>3
<1>4. QED
  BY <1>2, <1>3 DEF LoadCacheData

(* The three parts are kept by every step.                                 *)
LEMMA PlainStep == ASSUME PlainOK, [Next]_vars PROVE PlainOK'
<1> USE DEF PlainOK, WorkerPcs, ListenerPcs, Builds
<1>1. CASE UNCHANGED vars
  BY <1>1 DEF vars
<1>2. CASE EditPlaces
  BY <1>2, QueryServiceAssumption DEF EditPlaces
<1>3. CASE SetVersion
  BY <1>3 DEF SetVersion
<1>4. CASE Publish
  BY <1>4 DEF Publish
<1>5. CASE Notified
  BY <1>5 DEF Notified
<1>6. CASE LockUpdate
  BY <1>6 DEF LockUpdate
<1>7. CASE UpdateGetsConnection
  BY <1>7 DEF UpdateGetsConnection
<1>8. CASE UpdateTimeout
  BY <1>8 DEF UpdateTimeout
<1>9. CASE RefreshVersion
  BY <1>9 DEF RefreshVersion, ReadRedisVersion
<1>10. CASE Clear
  BY <1>10 DEF Clear, Backup
<1>11. CASE Load
  <2>1. Backup \in {0, 1} /\ LoadCacheData(Backup)
    BY <1>11 DEF Load, Backup
  <2>2. cache' \in [{0, 1} -> SUBSET Builds] /\ failed' \in BOOLEAN
    BY <2>1, LoadTypes
  <2>3. QED
    BY <1>11, <2>2 DEF Load
<1>12. CASE Switch
  BY <1>12 DEF Switch, Backup
<1>13. ASSUME NEW w \in Workers, Call(w) \/ WorkerStep(w)
       PROVE  PlainOK'
  <2>1. CASE Call(w)
    BY <2>1 DEF Call
  <2>2. CASE GetConnection(w)
    BY <2>2 DEF GetConnection
  <2>3. CASE QueryTimeout(w)
    BY <2>3 DEF QueryTimeout
  <2>4. CASE AlreadyLoaded(w)
    BY <2>4 DEF AlreadyLoaded
  <2>5. CASE FirstLoad(w)
    <3>1. cache' \in [{0, 1} -> SUBSET Builds] /\ failed' \in BOOLEAN
      BY <2>5, LoadTypes DEF FirstLoad
    <3>2. QED
      BY <2>5, <3>1 DEF FirstLoad
  <2>6. CASE FirstVersion(w)
    BY <2>6 DEF FirstVersion, ReadRedisVersion
  <2>7. CASE ReadVersion(w)
    BY <2>7 DEF ReadVersion
  <2>8. CASE Answer(w)
    BY <2>8 DEF Answer
  <2>9. QED
    BY <1>13, <2>1, <2>2, <2>3, <2>4, <2>5, <2>6, <2>7, <2>8 DEF WorkerStep
<1>14. QED
  BY <1>1, <1>2, <1>3, <1>4, <1>5, <1>6, <1>7, <1>8, <1>9, <1>10, <1>11, <1>12, <1>13
  DEF Next, UpdateStep

LEMMA HeldStep == ASSUME HeldOK, [Next]_vars PROVE HeldOK'
<1>1. \E t \in Workers \cup {Listener} :
         /\ capacity' = capacity
         /\ \/ ~Exhausted /\ holders' = holders \cup {t}
            \/ holders' = holders \ {t}
            \/ holders' = holders
  <2>1. CASE \E w \in Workers : Call(w) \/ WorkerStep(w)
    BY <2>1 DEF WorkerStep, Call, GetConnection, QueryTimeout, AlreadyLoaded, FirstLoad,
                FirstVersion, ReadVersion, Answer
  <2>2. CASE UpdateStep
    BY <2>2 DEF UpdateStep, Notified, LockUpdate, UpdateGetsConnection, UpdateTimeout,
                RefreshVersion, Clear, Load, Switch
  <2>3. CASE EditPlaces \/ SetVersion \/ Publish \/ UNCHANGED vars
    BY <2>3 DEF EditPlaces, SetVersion, Publish, vars
  <2>4. QED
    BY <2>1, <2>2, <2>3 DEF Next
<1>2. QED
  BY <1>1, HoldersStep

LEMMA MutexStep == ASSUME PlainOK, MutexOK, [Next]_vars PROVE MutexOK'
<1> USE DEF MutexOK
<1>1. CASE \/ EditPlaces \/ SetVersion \/ Publish \/ UNCHANGED vars
  BY <1>1 DEF EditPlaces, SetVersion, Publish, vars
<1>2. CASE LockUpdate
  BY <1>2 DEF LockUpdate
<1>3. CASE UpdateTimeout \/ Switch
  <2>1. Listener \in updateMutex
    BY <1>3 DEF UpdateTimeout, Switch
  <2>2. \A w \in Workers : pc[w] # "first"
    BY <2>1, QueryServiceAssumption
  <2>3. QED
    BY <1>3, <2>2 DEF UpdateTimeout, Switch
<1>4. CASE Notified \/ UpdateGetsConnection \/ RefreshVersion \/ Clear \/ Load
  BY <1>4 DEF Notified, UpdateGetsConnection, RefreshVersion, Clear, Load
<1>5. ASSUME NEW w \in Workers, FirstLoad(w)
      PROVE  MutexOK'
  BY <1>5 DEF FirstLoad, PlainOK
<1>6. ASSUME NEW w \in Workers, FirstVersion(w)
      PROVE  MutexOK'
  <2>1. w \in updateMutex /\ w # Listener
    BY <1>6, QueryServiceAssumption DEF FirstVersion
  <2>2. updateMutex = {w}
    BY <2>1
  <2>3. QED
    BY <1>6, <2>1, <2>2 DEF FirstVersion, PlainOK
<1>7. ASSUME NEW w \in Workers,
             \/ Call(w) \/ GetConnection(w) \/ QueryTimeout(w) \/ AlreadyLoaded(w)
             \/ ReadVersion(w) \/ Answer(w)
      PROVE  MutexOK'
  <2>1. /\ pc[w] # "first" /\ updateMutex' = updateMutex /\ listenerPc' = listenerPc
        /\ \E p \in WorkerPcs \ {"first"} : pc' = [pc EXCEPT ![w] = p]
    BY <1>7 DEF Call, GetConnection, QueryTimeout, AlreadyLoaded, ReadVersion, Answer, WorkerPcs
  <2>2. {v \in Workers : pc'[v] = "first"} = {v \in Workers : pc[v] = "first"}
    BY <2>1 DEF PlainOK
  <2>3. QED
    BY <2>1, <2>2
<1>8. QED
  BY <1>1, <1>2, <1>3, <1>4, <1>5, <1>6, <1>7 DEF Next, UpdateStep, WorkerStep
-----------------------------------------------------------------------------
(***************************************************************************)
(* TypeOK: no more connections are held than MySQL grants, and only one    *)
(* thread is inside _updateMutex, for every number of each.                *)
(***************************************************************************)
THEOREM TypeCorrect == Spec => []TypeOK
<1>1. Init => TypeOK
  <2> SUFFICES ASSUME Init PROVE TypeOK
    OBVIOUS
  <2>1. PlainOK
    <3>1. /\ capacity \in MinConns..MaxConns
          /\ redisVersion \in {0} \cup Builds /\ {places, published, told} \subseteq Builds
          /\ inbox \in Nat /\ handled \in Nat /\ applied \in Nat
      BY QueryServiceAssumption DEF Init, Builds
    <3>2. /\ pc \in [Workers -> WorkerPcs] /\ listenerPc \in ListenerPcs
          /\ version \in [Workers -> {0, 1}] /\ overtaken \in [Workers -> Nat]
      BY DEF Init, WorkerPcs, ListenerPcs
    <3>3. cache \in [{0, 1} -> SUBSET Builds]
      BY DEF Init
    <3>4. currentVersion \in {0, 1} /\ cacheLoaded \in BOOLEAN /\ failed \in BOOLEAN
      BY DEF Init
    <3>5. QED
      BY <3>1, <3>2, <3>3, <3>4 DEF PlainOK
  <2>2. Cardinality(holders) = 0 /\ capacity \in Nat
    BY QueryServiceAssumption, FS_EmptySet DEF Init
  <2>3. HeldOK
    BY <2>2 DEF Init, HeldOK
  <2>4. MutexOK
    BY DEF Init, MutexOK
  <2>5. QED
    BY <2>1, <2>3, <2>4, TypeParts
<1>2. TypeOK /\ [Next]_vars => TypeOK'
  <2>1. (PlainOK /\ HeldOK /\ MutexOK)' => TypeOK'
    BY QueryServiceAssumption DEF TypeOK, PlainOK, HeldOK, MutexOK
  <2>2. QED
    BY <2>1, TypeParts, PlainStep, HeldStep, MutexStep
<1>3. QED
  BY <1>1, <1>2, PTL DEF Spec

(***************************************************************************)
(* With a spare connection no update is given up: HoldersInv is inductive. *)
(***************************************************************************)
LEMMA HoldersInvStep == ASSUME TypeOK, HoldersInv, [Next]_vars PROVE HoldersInv'
<1> USE DEF HoldersInv
<1>1. CASE \E w \in Workers : Call(w) \/ WorkerStep(w)
  BY <1>1, QueryServiceAssumption
  DEF WorkerStep, Call, GetConnection, QueryTimeout, AlreadyLoaded, FirstLoad,
      FirstVersion, ReadVersion, Answer
<1>2. CASE EditPlaces \/ SetVersion \/ Publish \/ UNCHANGED vars
  BY <1>2 DEF EditPlaces, SetVersion, Publish, vars
<1>3. CASE \/ Notified \/ LockUpdate \/ UpdateGetsConnection
           \/ RefreshVersion \/ Clear \/ Load
  BY <1>3 DEF Notified, LockUpdate, UpdateGetsConnection, RefreshVersion, Clear, Load
<1>4. CASE Switch
  BY <1>4 DEF Switch, TypeOK
<1>5. CASE UpdateTimeout
  <2>1. holders \subseteq Workers
    BY <1>5 DEF UpdateTimeout, TypeOK
  <2>2. Cardinality(holders) <= Cardinality(Workers)
    BY <2>1, FS_Subset, QueryServiceAssumption
  <2>3. Cardinality(holders) = capacity
    BY <1>5 DEF UpdateTimeout, Exhausted
  <2>4. Cardinality(Workers) \in Nat /\ capacity \in Nat
    BY FS_CardinalityType, QueryServiceAssumption DEF TypeOK
  <2>5. ~(capacity > Cardinality(Workers))
    BY <2>2, <2>3, <2>4
  <2>6. QED
    BY <1>5, <2>1, <2>5, QueryServiceAssumption DEF UpdateTimeout
<1>6. QED
  BY <1>1, <1>2, <1>3, <1>4, <1>5 DEF Next, UpdateStep

(***************************************************************************)
(* RefreshWithRoom for every number of queries: the queries alone cannot   *)
(* hold all connections, and the listener asks for one at a time.          *)
(***************************************************************************)
THEOREM RoomIsEnough == Spec => []RefreshWithRoom
<1>1. Init => HoldersInv
  BY DEF Init, HoldersInv
<1>2. HoldersInv => RefreshWithRoom
  BY DEF HoldersInv, RefreshWithRoom
<1>3. QED
  BY <1>1, <1>2, TypeCorrect, HoldersInvStep, PTL DEF Spec
-----------------------------------------------------------------------------
(***************************************************************************)
(* ReadersInv is inductive: only the switch changes the index, and it      *)
(* counts itself for every query that reads.                               *)
(***************************************************************************)
LEMMA ReadersInvStep == ASSUME TypeOK, ReadersInv, [Next]_vars PROVE ReadersInv'
<1>1. CASE Switch
  <2>1. \A w \in Workers : pc'[w] = "read" => overtaken'[w] # 0
    BY <1>1 DEF Switch, TypeOK
  <2>2. pc' = pc /\ cacheLoaded' = cacheLoaded
    BY <1>1 DEF Switch
  <2>3. QED
    BY <2>1, <2>2 DEF ReadersInv
<1>2. CASE \/ Notified \/ LockUpdate \/ UpdateGetsConnection \/ UpdateTimeout
           \/ RefreshVersion \/ Clear \/ Load
           \/ EditPlaces \/ SetVersion \/ Publish \/ UNCHANGED vars
  <2>1. UNCHANGED <<pc, version, overtaken, currentVersion, cacheLoaded>>
    BY <1>2 DEF Notified, LockUpdate, UpdateGetsConnection, UpdateTimeout, RefreshVersion,
       Clear, Load, EditPlaces, SetVersion, Publish, vars
  <2>2. QED
    BY <2>1 DEF ReadersInv
<1>3. ASSUME NEW w \in Workers, Call(w) \/ WorkerStep(w)
      PROVE  ReadersInv'
  <2>1. pc \in [Workers -> WorkerPcs] /\ overtaken \in [Workers -> Nat]
        /\ version \in [Workers -> {0, 1}]
    BY DEF TypeOK
  <2>2. CASE Call(w) \/ GetConnection(w) \/ QueryTimeout(w)
    BY <2>1, <2>2 DEF Call, GetConnection, QueryTimeout, ReadersInv
  <2>3. CASE AlreadyLoaded(w) \/ FirstLoad(w)
    BY <2>1, <2>3 DEF AlreadyLoaded, FirstLoad, ReadersInv
  <2>4. CASE FirstVersion(w)
    BY <2>1, <2>4 DEF FirstVersion, ReadersInv
  <2>5. CASE ReadVersion(w)
    BY <2>1, <2>5 DEF ReadVersion, ReadersInv
  <2>6. CASE Answer(w)
    BY <2>1, <2>6 DEF Answer, ReadersInv
  <2>7. QED
    BY <1>3, <2>2, <2>3, <2>4, <2>5, <2>6 DEF WorkerStep
<1>4. QED
  BY <1>1, <1>2, <1>3 DEF Next, UpdateStep

(***************************************************************************)
(* ReaderUndisturbed for every number of queries and updates: updates      *)
(* write the backup buffer only, and the first load comes before every     *)
(* reader.                                                                 *)
(***************************************************************************)
THEOREM ReadersLeftAlone == Spec => ReaderUndisturbed
<1>1. Init => ReadersInv
  BY DEF Init, ReadersInv
<1>2. ASSUME TypeOK, ReadersInv, [Next]_vars, NEW w \in Workers,
             pc[w] = "read", overtaken[w] = 0
      PROVE  cache'[version[w]] = cache[version[w]]
  <2>1. /\ version[w] = currentVersion /\ cacheLoaded
        /\ currentVersion \in {0, 1} /\ currentVersion # Backup
        /\ cache \in [{0, 1} -> SUBSET Builds]
    BY <1>2 DEF ReadersInv, TypeOK, Backup
  <2>2. CASE Clear
    BY <2>1, <2>2 DEF Clear
  <2>3. CASE Load
    BY <2>1, <2>3 DEF Load, LoadCacheData
  <2>4. ASSUME NEW v \in Workers PROVE ~FirstLoad(v)
    BY <2>1 DEF FirstLoad
  <2>5. CASE UNCHANGED cache
    BY <2>5
  <2>6. Clear \/ Load \/ UNCHANGED cache
    BY <1>2, <2>4 DEF Next, UpdateStep, WorkerStep, Notified, LockUpdate,
       UpdateGetsConnection, UpdateTimeout, RefreshVersion, Switch, EditPlaces, SetVersion,
       Publish, vars, Call, GetConnection, QueryTimeout, AlreadyLoaded, FirstVersion,
       ReadVersion, Answer
  <2>7. QED
    BY <2>2, <2>3, <2>5, <2>6
<1>3. TypeOK /\ ReadersInv /\ [Next]_vars =>
        [\A w \in Workers :
            pc[w] = "read" /\ overtaken[w] = 0 => cache'[version[w]] = cache[version[w]]]_vars
  BY <1>2
<1>4. QED
  BY <1>1, <1>3, TypeCorrect, ReadersInvStep, PTL DEF Spec, ReaderUndisturbed
-----------------------------------------------------------------------------
(***************************************************************************)
(* QuietInv is inductive.                                                  *)
(***************************************************************************)
LEMMA QuietInvStep == ASSUME TypeOK, QuietInv, [Next]_vars PROVE QuietInv'
<1> USE DEF QuietInv, Settled, Backup
<1>a. /\ {places, published, told} \subseteq Nat /\ inbox \in Nat
      /\ handled \in Nat /\ applied \in Nat /\ currentVersion \in {0, 1}
      /\ cache \in [{0, 1} -> SUBSET Builds]
  BY DEF TypeOK, Builds
<1>1. CASE UNCHANGED vars
  BY <1>1 DEF vars
<1>2. CASE EditPlaces
  BY <1>a, <1>2 DEF EditPlaces
<1>3. CASE SetVersion
  BY <1>a, <1>3 DEF SetVersion
<1>4. CASE Publish
  BY <1>a, <1>4 DEF Publish
<1>5. CASE Notified
  BY <1>a, <1>5 DEF Notified
<1>6. CASE LockUpdate
  BY <1>a, <1>6 DEF LockUpdate
<1>7. CASE UpdateGetsConnection
  BY <1>a, <1>7 DEF UpdateGetsConnection
<1>8. CASE UpdateTimeout
  BY <1>a, <1>8 DEF UpdateTimeout
<1>9. CASE RefreshVersion
  BY <1>a, <1>9 DEF RefreshVersion, ReadRedisVersion
<1>10. CASE Clear
  BY <1>a, <1>10 DEF Clear
<1>11. CASE Load
  BY <1>a, <1>11 DEF Load, LoadCacheData
<1>12. CASE Switch
  BY <1>a, <1>12 DEF Switch
<1>13. ASSUME NEW w \in Workers, FirstLoad(w)
       PROVE  QuietInv'
  BY <1>a, <1>13 DEF FirstLoad, LoadCacheData, TypeOK
<1>14. ASSUME NEW w \in Workers, FirstVersion(w)
       PROVE  QuietInv'
  BY <1>a, <1>14 DEF FirstVersion, ReadRedisVersion, TypeOK
<1>15. ASSUME NEW w \in Workers,
             \/ Call(w) \/ GetConnection(w) \/ QueryTimeout(w) \/ AlreadyLoaded(w)
             \/ ReadVersion(w) \/ Answer(w)
       PROVE  QuietInv'
  BY <1>a, <1>15 DEF Call, GetConnection, QueryTimeout, AlreadyLoaded, ReadVersion, Answer
<1>16. QED
  BY <1>1, <1>2, <1>3, <1>4, <1>5, <1>6, <1>7, <1>8, <1>9, <1>10, <1>11, <1>12, <1>13, <1>14,
     <1>15 DEF Next, UpdateStep, WorkerStep

(***************************************************************************)
(* QuietMeansCurrent for every number of queries and builds: whichever way *)
(* first loads, updates and builds interleave, a server at rest that has   *)
(* refreshed each time it was told serves the last build and nothing else. *)
(***************************************************************************)
THEOREM QuietIsCurrent == Spec => []QuietMeansCurrent
<1>1. Init => QuietInv
  BY DEF Init, QuietInv, Settled, Backup
<1>2. TypeOK /\ QuietInv => QuietMeansCurrent
  <2> SUFFICES ASSUME TypeOK, QuietInv, listenerPc = "idle", inbox = 0, updateMutex = {},
                      places = told, applied = handled, ~failed, cacheLoaded \/ handled > 0
               PROVE  cache[currentVersion] = {published} /\ redisVersion = published
    BY DEF QuietMeansCurrent
  <2>1. places = published
    BY DEF QuietInv, TypeOK, Builds
  <2>2. QED
    BY <2>1 DEF QuietInv, Settled
<1>3. QED
  BY <1>1, <1>2, TypeCorrect, QuietInvStep, PTL DEF Spec
=============================================================================
