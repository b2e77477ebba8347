---------------------------- MODULE QueryService ---------------------------
(***************************************************************************)
(* The query service of one server (db/ConnectionPool.cpp): queries        *)
(* (handleClientRequest, loadPlaceCache) on the worker threads, updates    *)
(* (updateCache) on the listener's thread, and what they share: the        *)
(* double-buffered place cache, _updateMutex and the MySQL connections.    *)
(*                                                                         *)
(* A query holds a connection and then takes _updateMutex; an update takes *)
(* _updateMutex and then a connection.  A query uses the buffer whose      *)
(* index it read once, without a lock, while updates refill the other one. *)
(*                                                                         *)
(* Content is named by the build it belongs to: a buffer holds the builds  *)
(* whose place rows were loaded into it, redisVersion is the build whose   *)
(* key prefix was read last (0: none was read).  Of the pools the module   *)
(* uses what MySqlPool and RedisPool show: getConnection succeeds, or      *)
(* times out while everything is held.                                     *)
(***************************************************************************)
EXTENDS Naturals, FiniteSets

CONSTANTS Workers,      \* threads that run queries
          Listener,     \* the thread of CacheUpdateListener
          MinConns,     \* connections MySQL grants at least ...
          MaxConns,     \* ... and at most (_maxSize)
          MaxBuilds     \* bound: builds of the data

ASSUME QueryServiceAssumption ==
    /\ IsFiniteSet(Workers) /\ Listener \notin Workers
    /\ MinConns \in Nat /\ MaxConns \in Nat /\ MinConns <= MaxConns
    /\ MaxBuilds \in Nat \ {0}

VARIABLES
    capacity,           \* connections MySQL grants in this behaviour
    holders,            \* threads that hold one
    updateMutex,        \* the thread that holds _updateMutex, if any
    pc, listenerPc,
    version,            \* the buffer each query uses
    overtaken,          \* switches since the query read that index
    cache, currentVersion, cacheLoaded, redisVersion,
    places, published,  \* the build of the place table, and of Redis' keys
    told,               \* the build whose notification was sent last
    inbox,              \* notifications the listener has not read
    handled, applied,   \* updates that have returned, and those that switched
    failed              \* some load, or read of current_version, has failed

queries == <<pc, version, overtaken>>
data == <<places, published, told>>
counts == <<handled, applied>>
vars == <<capacity, holders, updateMutex, queries, listenerPc, cache, currentVersion,
          cacheLoaded, redisVersion, data, inbox, counts, failed>>

Builds == 1..MaxBuilds
WorkerPcs == {"idle", "conn", "lock", "first", "version", "read"}
ListenerPcs == {"idle", "lock", "conn", "redis", "clear", "load", "switch"}

Init ==
    /\ capacity \in MinConns..MaxConns
    /\ holders = {} /\ updateMutex = {}
    /\ pc = [w \in Workers |-> "idle"] /\ listenerPc = "idle"
    /\ version = [w \in Workers |-> 0]
    /\ overtaken = [w \in Workers |-> 0]
    /\ cache = [b \in {0, 1} |-> {}]
    /\ currentVersion = 0 /\ cacheLoaded = FALSE /\ redisVersion = 0
    /\ places = 1 /\ published = 1 /\ told = 1 /\ inbox = 0
    /\ handled = 0 /\ applied = 0 /\ failed = FALSE
-----------------------------------------------------------------------------
(***************************************************************************)
(* The outside: the tables change; the builder, when it has written the    *)
(* new keys, switches current_version, and then publishes cache_update.    *)
(***************************************************************************)
EditPlaces ==
    /\ places = told /\ places < MaxBuilds
    /\ places' = places + 1
    /\ UNCHANGED <<capacity, holders, updateMutex, queries, listenerPc, cache, currentVersion,
                   cacheLoaded, redisVersion, published, told, inbox, counts, failed>>

SetVersion ==
    /\ published < places
    /\ published' = places
    /\ UNCHANGED <<capacity, holders, updateMutex, queries, listenerPc, cache, currentVersion,
                   cacheLoaded, redisVersion, places, told, inbox, counts, failed>>

Publish ==
    /\ told < published
    /\ told' = published
    /\ inbox' = inbox + 1
    /\ UNCHANGED <<capacity, holders, updateMutex, queries, listenerPc, cache, currentVersion,
                   cacheLoaded, redisVersion, places, published, counts, failed>>
-----------------------------------------------------------------------------
(***************************************************************************)
(* loadCacheData into buffer b adds the rows of the place table, and the   *)
(* read of current_version fetches the build of the keys; each may fail,   *)
(* which changes nothing and is not reported to the caller.                *)
(***************************************************************************)
LoadCacheData(b) ==
    \/ cache' = [cache EXCEPT ![b] = @ \cup {places}] /\ UNCHANGED failed
    \/ UNCHANGED cache /\ failed' = TRUE

ReadRedisVersion ==
    \/ redisVersion' = published /\ UNCHANGED failed
    \/ UNCHANGED redisVersion /\ failed' = TRUE

Exhausted == Cardinality(holders) = capacity

Call(w) ==
    /\ pc[w] = "idle"
    /\ pc' = [pc EXCEPT ![w] = "conn"]
    /\ UNCHANGED <<capacity, holders, updateMutex, version, overtaken, listenerPc, cache,
                   currentVersion, cacheLoaded, redisVersion, data, inbox, counts, failed>>

(* Mutant of GetConnection: the empty queue is not waited for.             *)
GetConnection_NoWait(w) ==
    /\ pc[w] = "conn"
    /\ holders' = holders \cup {w}
    /\ pc' = [pc EXCEPT ![w] = "lock"]
    /\ UNCHANGED <<capacity, updateMutex, version, overtaken, listenerPc, cache,
                   currentVersion, cacheLoaded, redisVersion, data, inbox, counts, failed>>

GetConnection(w) ==
    /\ pc[w] = "conn" /\ ~Exhausted
    /\ holders' = holders \cup {w}
    /\ pc' = [pc EXCEPT ![w] = "lock"]
    /\ UNCHANGED <<capacity, updateMutex, version, overtaken, listenerPc, cache,
                   currentVersion, cacheLoaded, redisVersion, data, inbox, counts, failed>>

(* Five seconds without a connection: the query answers "no path".         *)
QueryTimeout(w) ==
    /\ pc[w] = "conn" /\ Exhausted
    /\ pc' = [pc EXCEPT ![w] = "idle"]
    /\ UNCHANGED <<capacity, holders, updateMutex, version, overtaken, listenerPc, cache,
                   currentVersion, cacheLoaded, redisVersion, data, inbox, counts, failed>>

(***************************************************************************)
(* loadPlaceCache: every query waits for _updateMutex.  The first loads    *)
(* buffer 0, without clearing it, and then the version of the keys.        *)
(***************************************************************************)
AlreadyLoaded(w) ==
    /\ pc[w] = "lock" /\ updateMutex = {} /\ cacheLoaded
    /\ pc' = [pc EXCEPT ![w] = "version"]
    /\ UNCHANGED <<capacity, holders, updateMutex, version, overtaken, listenerPc, cache,
                   currentVersion, cacheLoaded, redisVersion, data, inbox, counts, failed>>

FirstLoad(w) ==
    /\ pc[w] = "lock" /\ updateMutex = {} /\ ~cacheLoaded
    /\ updateMutex' = {w}
    /\ LoadCacheData(0)
    /\ cacheLoaded' = TRUE
    /\ pc' = [pc EXCEPT ![w] = "first"]
    /\ UNCHANGED <<capacity, holders, version, overtaken, listenerPc, currentVersion,
                   redisVersion, data, inbox, counts>>

FirstVersion(w) ==
    /\ pc[w] = "first"
    /\ ReadRedisVersion
    /\ updateMutex' = {}
    /\ pc' = [pc EXCEPT ![w] = "version"]
    /\ UNCHANGED <<capacity, holders, version, overtaken, listenerPc, cache, currentVersion,
                   cacheLoaded, data, inbox, counts>>

ReadVersion(w) ==
    /\ pc[w] = "version"
    /\ version' = [version EXCEPT ![w] = currentVersion]
    /\ overtaken' = [overtaken EXCEPT ![w] = 0]
    /\ pc' = [pc EXCEPT ![w] = "read"]
    /\ UNCHANGED <<capacity, holders, updateMutex, listenerPc, cache, currentVersion,
                   cacheLoaded, redisVersion, data, inbox, counts, failed>>

(***************************************************************************)
(* The rest of handleClientRequest: until it returns, on whichever path,   *)
(* it looks names and identifiers up in its buffer; then the deleter gives *)
(* the connection back.                                                    *)
(***************************************************************************)
Answer(w) ==
    /\ pc[w] = "read"
    /\ holders' = holders \ {w}
    /\ pc' = [pc EXCEPT ![w] = "idle"]
    /\ version' = [version EXCEPT ![w] = 0]
    /\ overtaken' = [overtaken EXCEPT ![w] = 0]
    /\ UNCHANGED <<capacity, updateMutex, listenerPc, cache, currentVersion,
                   cacheLoaded, redisVersion, data, inbox, counts, failed>>
-----------------------------------------------------------------------------
(***************************************************************************)
(* The listener reads a notification and calls updateCache.                *)
(***************************************************************************)
Notified ==
    /\ listenerPc = "idle" /\ inbox > 0
    /\ inbox' = inbox - 1
    /\ listenerPc' = "lock"
    /\ UNCHANGED <<capacity, holders, updateMutex, queries, cache, currentVersion,
                   cacheLoaded, redisVersion, data, counts, failed>>

LockUpdate ==
    /\ listenerPc = "lock" /\ updateMutex = {}
    /\ updateMutex' = {Listener}
    /\ listenerPc' = "conn"
    /\ UNCHANGED <<capacity, holders, queries, cache, currentVersion, cacheLoaded,
                   redisVersion, data, inbox, counts, failed>>

UpdateGetsConnection ==
    /\ listenerPc = "conn" /\ ~Exhausted
    /\ holders' = holders \cup {Listener}
    /\ listenerPc' = "redis"
    /\ UNCHANGED <<capacity, updateMutex, queries, cache, currentVersion, cacheLoaded,
                   redisVersion, data, inbox, counts, failed>>

(* Mutant of UpdateTimeout: the wait has no time limit.                    *)
UpdateTimeout_Never ==
    /\ listenerPc = "conn" /\ Exhausted
    /\ UNCHANGED vars

(* No connection for five seconds: the update is given up.                 *)
UpdateTimeout ==
    /\ listenerPc = "conn" /\ Exhausted
    /\ updateMutex' = {}
    /\ listenerPc' = "idle"
    /\ handled' = handled + 1
    /\ UNCHANGED <<capacity, holders, queries, cache, currentVersion, cacheLoaded,
                   redisVersion, data, inbox, applied, failed>>

RefreshVersion ==
    /\ listenerPc = "redis"
    /\ ReadRedisVersion
    /\ listenerPc' = "clear"
    /\ UNCHANGED <<capacity, holders, updateMutex, queries, cache, currentVersion,
                   cacheLoaded, data, inbox, counts>>

Backup == 1 - currentVersion

(* Mutants of Clear: the buffer in use is taken; the old rows stay.        *)
Clear_Current ==
    /\ listenerPc = "clear"
    /\ cache' = [cache EXCEPT ![currentVersion] = {}]
    /\ listenerPc' = "load"
    /\ UNCHANGED <<capacity, holders, updateMutex, queries, currentVersion, cacheLoaded,
                   redisVersion, data, inbox, counts, failed>>

Clear_Missing ==
    /\ listenerPc = "clear"
    /\ listenerPc' = "load"
    /\ UNCHANGED <<capacity, holders, updateMutex, queries, cache, currentVersion, cacheLoaded,
                   redisVersion, data, inbox, counts, failed>>

Clear ==
    /\ listenerPc = "clear"
    /\ cache' = [cache EXCEPT ![Backup] = {}]
    /\ listenerPc' = "load"
    /\ UNCHANGED <<capacity, holders, updateMutex, queries, currentVersion, cacheLoaded,
                   redisVersion, data, inbox, counts, failed>>

Load ==
    /\ listenerPc = "load"
    /\ LoadCacheData(Backup)
    /\ listenerPc' = "switch"
    /\ UNCHANGED <<capacity, holders, updateMutex, queries, currentVersion, cacheLoaded,
                   redisVersion, data, inbox, counts>>

(* Mutant of Switch: the connection is not given back.                     *)
Switch_Leaks ==
    /\ listenerPc = "switch"
    /\ currentVersion' = Backup
    /\ overtaken' = [w \in Workers |-> overtaken[w] + (IF pc[w] = "read" THEN 1 ELSE 0)]
    /\ updateMutex' = {}
    /\ listenerPc' = "idle"
    /\ handled' = handled + 1 /\ applied' = applied + 1
    /\ UNCHANGED <<capacity, holders, pc, version, cache, cacheLoaded, redisVersion, data,
                   inbox, failed>>

(* The switch, and the release of everything updateCache holds.            *)
Switch ==
    /\ listenerPc = "switch"
    /\ currentVersion' = Backup
    /\ overtaken' = [w \in Workers |-> overtaken[w] + (IF pc[w] = "read" THEN 1 ELSE 0)]
    /\ holders' = holders \ {Listener}
    /\ updateMutex' = {}
    /\ listenerPc' = "idle"
    /\ handled' = handled + 1 /\ applied' = applied + 1
    /\ UNCHANGED <<capacity, pc, version, cache, cacheLoaded, redisVersion, data,
                   inbox, failed>>
-----------------------------------------------------------------------------
WorkerStep(w) == \/ GetConnection(w) \/ QueryTimeout(w) \/ AlreadyLoaded(w)
                 \/ FirstLoad(w) \/ FirstVersion(w) \/ ReadVersion(w) \/ Answer(w)
UpdateStep == \/ Notified \/ LockUpdate \/ UpdateGetsConnection \/ UpdateTimeout
              \/ RefreshVersion \/ Clear \/ Load \/ Switch

Next == \/ EditPlaces \/ SetVersion \/ Publish \/ UpdateStep
        \/ \E w \in Workers : Call(w) \/ WorkerStep(w)

Spec == Init /\ [][Next]_vars

(***************************************************************************)
(* Threads that are not blocked are scheduled and the pools' waits end;    *)
(* nobody has to query, to edit or to publish.                             *)
(***************************************************************************)
FairSpec == Spec /\ WF_vars(UpdateStep) /\ \A w \in Workers : WF_vars(WorkerStep(w))
-----------------------------------------------------------------------------
(***************************************************************************)
(* Types; no more connections are held than exist, and whoever is between  *)
(* the lock and the unlock of _updateMutex has it to itself.               *)
(***************************************************************************)
TypeOK ==
    /\ capacity \in MinConns..MaxConns
    /\ holders \subseteq Workers \cup {Listener} /\ Cardinality(holders) <= capacity
    /\ updateMutex = {w \in Workers : pc[w] = "first"} \cup
                     (IF listenerPc \in {"idle", "lock"} THEN {} ELSE {Listener})
    /\ \A s, t \in updateMutex : s = t
    /\ pc \in [Workers -> WorkerPcs] /\ listenerPc \in ListenerPcs
    /\ version \in [Workers -> {0, 1}] /\ overtaken \in [Workers -> Nat]
    /\ cache \in [{0, 1} -> SUBSET Builds]
    /\ currentVersion \in {0, 1} /\ cacheLoaded \in BOOLEAN /\ failed \in BOOLEAN
    /\ redisVersion \in {0} \cup Builds /\ {places, published, told} \subseteq Builds
    /\ inbox \in Nat /\ handled \in Nat /\ applied \in Nat

(***************************************************************************)
(* A query's buffer does not change while it uses it, not even during an   *)
(* update, as long as no update has completed since it read the index      *)
(* (handleClientRequest, which takes no lock after loadPlaceCache).  Once  *)
(* one has, the next update clears that very buffer under it.              *)
(***************************************************************************)
ReaderUndisturbed ==
    [][\A w \in Workers :
          pc[w] = "read" /\ overtaken[w] = 0 => cache'[version[w]] = cache[version[w]]]_vars

(***************************************************************************)
(* When nothing is under way and nothing was given up or failed, the       *)
(* current buffer holds the rows of the last build and nothing older, and  *)
(* the version of the keys is that build's, whatever happened during the   *)
(* updates and whether queries or updates came first (updateCache,         *)
(* loadPlaceCache).                                                        *)
(***************************************************************************)
QuietMeansCurrent ==
    /\ listenerPc = "idle" /\ inbox = 0 /\ updateMutex = {}
    /\ places = told /\ applied = handled /\ ~failed
    /\ cacheLoaded \/ handled > 0
    => cache[currentVersion] = {published} /\ redisVersion = published

(***************************************************************************)
(* With one connection more than there are queries at a time, no update is *)
(* ever given up (updateCache's early return when getConnection times      *)
(* out): what the listener holds it gives back.                            *)
(***************************************************************************)
RefreshWithRoom ==
    capacity > Cardinality(Workers) /\ listenerPc = "idle" => applied = handled

(***************************************************************************)
(* Although queries and updates take _updateMutex and a connection in      *)
(* opposite orders, every query returns and every notification is dealt    *)
(* with, also when the connections are no more than the queries.           *)
(***************************************************************************)
EverythingReturns ==
    /\ \A w \in Workers : pc[w] # "idle" ~> pc[w] = "idle"
    /\ inbox > 0 \/ listenerPc # "idle" ~> inbox = 0 /\ listenerPc = "idle"

(***************************************************************************)
(* Every notification the listener has dealt with has refreshed the cache  *)
(* (README.md:65, CacheUpdateListener.cpp:38).  It does not hold: the      *)
(* update that finds all connections with queries that wait for its mutex  *)
(* gives up.                                                               *)
(***************************************************************************)
RefreshApplied == listenerPc = "idle" => applied = handled
=============================================================================
