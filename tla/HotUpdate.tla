----------------------------- MODULE HotUpdate -----------------------------
(***************************************************************************)
(* The hot update: offline_build.cpp, which computes a build and publishes *)
(* it through Redis (and MySQL), and a server that reads it: the version   *)
(* it goes by, its listener and one query at a time.  Servers only read    *)
(* Redis, so that one shows what any of them sees.                         *)
(*                                                                         *)
(* A build is known by its number, and a key holds the number of the build *)
(* that wrote it, 0 when it is absent; its value is what that build has    *)
(* computed, tree[build].  Of the starts, whose keys are disjoint, there   *)
(* is one.  Any process may die between two of its steps, and Redis or     *)
(* MySQL may answer any command of the builder with an error: it looks at  *)
(* no reply but that of its first GET, and goes on.                        *)
(***************************************************************************)
EXTENDS Integers, Sequences, FiniteSets

CONSTANTS Places,     \* the places a query may ask for
          Start,      \* the place all queries start from
          Nil,        \* no predecessor; no table
          Trees,      \* Trees[b]: the predecessors that build b may come to,
                      \* for the edges there are by then (see Dijkstra)
          LiveTables, \* what shortest_dist may be to begin with: 0, Nil
          MaxRuns,    \* bound on the runs of the builder
          MaxFaults   \* bound on deaths, lost connections and errors

ASSUME HotUpdateAssumption ==
    /\ MaxRuns \in Nat /\ MaxFaults \in Nat /\ LiveTables \subseteq {0, Nil}
    /\ Start \notin Places /\ Nil \notin Places \cup {Start} \cup (0..MaxRuns)
    /\ DOMAIN Trees = 1..MaxRuns
    /\ \A b \in 1..MaxRuns : \A t \in Trees[b] :
          /\ t \in [Places -> Places \cup {Start, Nil}]
          /\ \A p \in Places : t[p] \in Places => t[t[p]] # Nil

VARIABLES current,    \* Redis: current_version, 0 while it is not set
          keys,       \* Redis: v0:* and v1:*
          tables,     \* MySQL: shortest_dist and shortest_prev, and *_new
          run, tree,  \* the last build begun, and what each build computed
          buildPc,
          from,       \* the builder's current_version
          todo,       \* keys it still has to write
          published,  \* the build current_version was last switched to
          refused,    \* <<b, db>>: db refused something of build b's run
                      \* that its result depends on
          clean,      \* runs finished since a builder died or was refused
                      \* something by Redis, up to two; -1 while that run,
                      \* which does not count, still goes on
          faults,
          version,    \* the server: _redis_current_version
          loaded,     \* _cacheLoaded: "no", "first" while the first query
                      \* still holds _updateMutex, "yes"
          subscribed, \* "no", "yes", "broken"
          inbox,      \* notifications it has not read
          got,        \* the version read under _updateMutex and not stored, or -1
          missed,     \* it will not be told of the last switch
          queryPc,
          prefix, dest, cur, \* of the query, as in handleClientRequest
          view        \* "published": what it has read is of the published
                      \* build, on an up-to-date server; "mixed": some of it
                      \* is not; "stale": the server is, or a switch or an
                      \* error came in between

builderVars == <<tables, run, tree, buildPc, from, todo, refused, clean>>
redisVars == <<current, keys, published>>
serverVars == <<version, loaded, subscribed, inbox, got, missed>>
queryVars == <<queryPc, prefix, dest, cur, view>>
vars == <<builderVars, redisVars, serverVars, queryVars, faults>>

Key == {"dist", "prev"} \X Places
NoKeys == [k \in Key |-> 0]

(* The keys of a build: unreachable pairs have none.                       *)
KeysOf(b) == {k \in Key : tree[b][k[2]] # Nil}

Answers == {"none", "path", "broken"}

TypeOK ==
    /\ current \in 0..1 /\ keys \in [0..1 -> [Key -> 0..MaxRuns]]
    /\ tables \in [{"live", "new"} -> 0..MaxRuns \cup {Nil}]
    /\ run \in 0..MaxRuns /\ published \in 0..run
    /\ DOMAIN tree = 1..run /\ \A b \in 1..run : tree[b] \in Trees[b]
    /\ buildPc \in {"idle", "fill", "write", "set", "delete", "publish"}
    /\ from \in 0..1 /\ todo \subseteq Key /\ clean \in -1..2
    /\ refused \subseteq (1..run) \X {"redis", "mysql"}
    /\ faults \in 0..MaxFaults
    /\ version \in 0..1 /\ loaded \in {"no", "first", "yes"} /\ missed \in BOOLEAN
    /\ subscribed \in {"no", "yes", "broken"} /\ inbox \in Nat /\ got \in -1..1
    /\ queryPc \in {"idle", "dist", "walk"} \cup Answers
    /\ prefix \in 0..1 /\ dest \in Places \cup {Start} /\ cur \in Places \cup {Start}
    /\ view \in {"published", "mixed", "stale"}

(* shortest_dist and shortest_prev are there, with whatever rows, or not:  *)
(* nothing in the repository creates them.                                 *)
Init ==
    /\ current = 0 /\ keys = [v \in 0..1 |-> NoKeys] /\ published = 0
    /\ tables \in [live : LiveTables, new : {Nil}]
    /\ run = 0 /\ tree = <<>> /\ buildPc = "idle" /\ from = 0 /\ todo = {}
    /\ refused = {} /\ clean = 2 /\ faults = 0
    /\ version = 0 /\ loaded = "no" /\ subscribed = "no" /\ inbox = 0
    /\ got = -1 /\ missed = FALSE
    /\ queryPc = "idle" /\ prefix = 0 /\ dest = Start /\ cur = Start
    /\ view = "stale"
-----------------------------------------------------------------------------
Fault == faults < MaxFaults /\ faults' = faults + 1

(* A command of build b's run is refused.  Why it is - Redis out of        *)
(* memory, a connection to MySQL lost - may well last for the whole run.   *)
Refuses(b, db) == IF <<b, db>> \in refused THEN UNCHANGED faults ELSE Fault

Spoils(b, db) ==
    /\ Refuses(b, db)
    /\ refused' = refused \cup {<<b, db>>}
    /\ IF db = "redis" THEN clean' = -1 ELSE UNCHANGED clean

Accepted == UNCHANGED <<refused, clean, faults>>

(* A run begins: the version it leaves, which is 0 for the builder when    *)
(* its GET is refused, and the graph of the edge table.                    *)
StartRun ==
    /\ buildPc = "idle" /\ run < MaxRuns
    /\ run' = run + 1
    /\ \E t \in Trees[run + 1] : tree' = Append(tree, t)
    /\ \/ from' = current /\ Accepted
       \/ from' = 0 /\ Spoils(run + 1, "redis")
    /\ buildPc' = "fill"
    /\ UNCHANGED <<tables, todo, redisVars, serverVars, queryVars>>

(* Mutant of FillTables: CREATE TABLE IF NOT EXISTS without the DROP, and  *)
(* rows of an earlier run stay.                                            *)
FillTables_NoDrop ==
    /\ buildPc = "fill"
    /\ tables' = [tables EXCEPT !.new = IF @ = Nil THEN run ELSE @]
    /\ Accepted
    /\ todo' = KeysOf(run)
    /\ buildPc' = "write"
    /\ UNCHANGED <<run, tree, from, redisVars, serverVars, queryVars>>

(***************************************************************************)
(* Drops what an earlier run has left of the *_new tables, creates and     *)
(* fills them: nobody else looks at them.  execSQL reports an error and    *)
(* nothing else: without the DROP the old ones stay, without the CREATE    *)
(* there are none, without an INSERT they are not complete (0).            *)
(***************************************************************************)
FillTables ==
    /\ buildPc = "fill"
    /\ \/ tables' = [tables EXCEPT !.new = run] /\ Accepted
       \/ /\ \E t \in {tables.new, Nil, 0} : tables' = [tables EXCEPT !.new = t]
          /\ Spoils(run, "mysql")
    /\ todo' = KeysOf(run)
    /\ buildPc' = "write"
    /\ UNCHANGED <<run, tree, from, redisVars, serverVars, queryVars>>

(* One SET, under the prefix that is not current: distances first, and     *)
(* places in a fixed order.                                                *)
NextKey == CHOOSE k \in todo : k[1] = "dist" \/ \A j \in todo : j[1] # "dist"

(* Mutant of WriteKey: under the prefix that is current.                   *)
WriteKey_OldPrefix ==
    /\ buildPc = "write" /\ todo # {}
    /\ keys' = [keys EXCEPT ![from][NextKey] = run] /\ Accepted
    /\ todo' = todo \ {NextKey}
    /\ UNCHANGED <<tables, run, tree, buildPc, from, current, published,
                   serverVars, queryVars>>

(* The reply to a SET is freed unread.                                     *)
WriteKey ==
    /\ buildPc = "write" /\ todo # {}
    /\ \/ keys' = [keys EXCEPT ![1 - from][NextKey] = run] /\ Accepted
       \/ UNCHANGED keys /\ Spoils(run, "redis")
    /\ todo' = todo \ {NextKey}
    /\ UNCHANGED <<tables, run, tree, buildPc, from, current, published,
                   serverVars, queryVars>>

(***************************************************************************)
(* RENAME TABLE renames all four tables or none.  It fails when one of     *)
(* them does not exist, and may fail otherwise; execSQL reports it, and    *)
(* the run goes on.  The *_old tables exist only around this step.         *)
(***************************************************************************)
Renamed == IF Nil \in {tables.live, tables.new} THEN tables
           ELSE [live |-> tables.new, new |-> Nil]

RenameTables ==
    /\ buildPc = "write" /\ todo = {}
    /\ \/ tables' = Renamed /\ Accepted
       \/ UNCHANGED tables /\ Spoils(run, "mysql")
    /\ buildPc' = "set"
    /\ UNCHANGED <<run, tree, from, todo, redisVars, serverVars, queryVars>>

(* Mutant of SetVersion: it counts on.                                     *)
SetVersion_CountsOn ==
    /\ buildPc = "set"
    /\ current' = from + 1 /\ published' = run
    /\ missed' = FALSE /\ view' = "stale"
    /\ Accepted
    /\ buildPc' = "delete"
    /\ UNCHANGED <<tables, run, tree, from, todo, keys, version, loaded,
                   subscribed, inbox, got, queryPc, prefix, dest, cur>>

(* From here on a server whose version is the old one has to be told.  An  *)
(* error reply is taken for success.                                       *)
SetVersion ==
    /\ buildPc = "set"
    /\ \/ /\ current' = 1 - from /\ published' = run
          /\ missed' = FALSE /\ view' = "stale"
          /\ Accepted
       \/ UNCHANGED <<current, published, missed, view>> /\ Spoils(run, "redis")
    /\ buildPc' = "delete"
    /\ UNCHANGED <<tables, run, tree, from, todo, keys, version, loaded,
                   subscribed, inbox, got, queryPc, prefix, dest, cur>>

(* Mutant of DeleteOld: the pattern matches nothing.                       *)
DeleteOld_NoMatch ==
    /\ buildPc = "delete"
    /\ buildPc' = "publish"
    /\ UNCHANGED <<tables, run, tree, from, todo, refused, clean, redisVars,
                   serverVars, queryVars, faults>>

(* The script that deletes what begins with the old prefix; or an error,   *)
(* and all of it stays.                                                    *)
DeleteOld ==
    /\ buildPc = "delete"
    /\ \/ keys' = [keys EXCEPT ![from] = NoKeys] /\ UNCHANGED <<clean, faults>>
       \/ UNCHANGED keys /\ Refuses(run, "redis") /\ clean' = -1
    /\ buildPc' = "publish"
    /\ UNCHANGED <<tables, run, tree, from, todo, refused, current, published,
                   serverVars, queryVars>>

(* PUBLISH reaches who is subscribed at this moment, unless it is refused. *)
Publish ==
    /\ buildPc = "publish"
    /\ \/ subscribed = "yes" /\ inbox' = inbox + 1 /\ UNCHANGED <<missed, faults>>
       \/ subscribed # "yes" /\ missed' = TRUE /\ UNCHANGED <<inbox, faults>>
       \/ Refuses(run, "redis") /\ missed' = TRUE /\ UNCHANGED inbox
    /\ clean' = IF clean = 2 THEN 2 ELSE clean + 1
    /\ buildPc' = "idle"
    /\ UNCHANGED <<tables, run, tree, from, todo, refused, redisVars, version,
                   loaded, subscribed, got, queryVars>>

(***************************************************************************)
(* The builder dies, or loses Redis, and the rest of its commands fail.    *)
(* While it writes keys it then frees a reply it has not been given: that  *)
(* may end it, or it goes on and still renames the tables.                 *)
(***************************************************************************)
BuilderDies ==
    /\ Fault
    /\ buildPc # "idle"
    /\ buildPc' = "idle"
    /\ todo' = {}
    /\ clean' = 0
    /\ missed' = (missed \/ buildPc \in {"delete", "publish"})
    /\ UNCHANGED tables \/ (buildPc = "write" /\ tables' = Renamed)
    /\ UNCHANGED <<run, tree, from, refused, redisVars, version, loaded,
                   subscribed, inbox, got, queryVars>>
-----------------------------------------------------------------------------
(***************************************************************************)
(* The server.  The listener subscribes from a thread of its own, while    *)
(* queries may already run.  The place cache, its mutex and the pools are  *)
(* in QueryService; here an update is what it does to the version.         *)
(***************************************************************************)
Subscribe ==
    /\ subscribed = "no"
    /\ subscribed' = "yes"
    /\ UNCHANGED <<builderVars, redisVars, version, loaded, inbox, got, missed,
                   queryVars, faults>>

(* From then on redisGetReply fails at once, and the loop calls it again.  *)
SubscriptionBreaks ==
    /\ Fault
    /\ subscribed = "yes"
    /\ subscribed' = "broken"
    /\ \E n \in {0, inbox} :
          /\ inbox' = n
          /\ missed' = (missed \/ n < inbox)
    /\ UNCHANGED <<builderVars, redisVars, version, loaded, got, queryVars>>

(* The first query, the others waiting for it at _updateMutex.  A read     *)
(* that fails leaves the version at what it is.                            *)
LoadVersion ==
    /\ loaded = "no" /\ got = -1
    /\ \/ /\ got' = current /\ loaded' = "first" /\ missed' = FALSE
          /\ UNCHANGED faults
       \/ Fault /\ loaded' = "yes" /\ missed' = TRUE /\ UNCHANGED got
    /\ UNCHANGED <<builderVars, redisVars, version, subscribed, inbox, queryVars>>

(* Mutants of ReadVersion: updateCache does not read it; the listener      *)
(* drops messages of a shape it does not expect.                           *)
ReadVersion_Keeps ==
    /\ got = -1 /\ inbox > 0
    /\ inbox' = inbox - 1
    /\ \/ got' = version /\ missed' = FALSE /\ UNCHANGED faults
       \/ Fault /\ missed' = TRUE /\ UNCHANGED got
    /\ UNCHANGED <<builderVars, redisVars, version, loaded, subscribed, queryVars>>

ReadVersion_Drops ==
    /\ got = -1 /\ inbox > 0
    /\ inbox' = inbox - 1
    /\ UNCHANGED <<builderVars, redisVars, version, loaded, subscribed, got, missed,
                   queryVars, faults>>

(* updateCache reads the version; without a connection it does nothing.    *)
ReadVersion ==
    /\ got = -1 /\ inbox > 0
    /\ inbox' = inbox - 1
    /\ \/ got' = current /\ missed' = FALSE /\ UNCHANGED faults
       \/ Fault /\ missed' = TRUE /\ UNCHANGED got
    /\ UNCHANGED <<builderVars, redisVars, version, loaded, subscribed, queryVars>>

StoreVersion ==
    /\ got # -1
    /\ version' = got
    /\ got' = -1
    /\ loaded' = IF loaded = "first" THEN "yes" ELSE loaded
    /\ UNCHANGED <<builderVars, redisVars, subscribed, inbox, missed,
                   queryVars, faults>>

NoQuery ==
    /\ queryPc' = "idle" /\ prefix' = 0 /\ dest' = Start /\ cur' = Start
    /\ view' = "stale"

Restart ==
    /\ Fault
    /\ loaded # "no"
    /\ version' = 0 /\ loaded' = "no" /\ subscribed' = "no" /\ inbox' = 0
    /\ got' = -1
    /\ NoQuery
    /\ UNCHANGED <<builderVars, redisVars, missed>>
-----------------------------------------------------------------------------
(* handleClientRequest, from where it reads _redis_current_version.        *)
QueryBegin ==
    /\ loaded = "yes" /\ queryPc = "idle"
    /\ queryPc' = "dist"
    /\ prefix' = version
    /\ \E p \in Places : dest' = p /\ cur' = p
    /\ view' = IF version = current THEN "published" ELSE "stale"
    /\ UNCHANGED <<builderVars, redisVars, serverVars, faults>>

View(b) == IF view = "published" /\ b # published THEN "mixed" ELSE view

ReadDist ==
    /\ queryPc = "dist"
    /\ LET b == keys[prefix][<<"dist", dest>>] IN
          IF b = 0 THEN queryPc' = "none" /\ UNCHANGED view
          ELSE queryPc' = "walk" /\ view' = View(b)
    /\ UNCHANGED <<builderVars, redisVars, serverVars, prefix, dest, cur, faults>>

(* An error of Redis is answered like an absent key.                       *)
ReadFails ==
    /\ Fault
    /\ \/ queryPc = "dist" /\ queryPc' = "none"
       \/ queryPc = "walk" /\ cur # Start /\ queryPc' = "broken"
    /\ view' = "stale"
    /\ UNCHANGED <<builderVars, redisVars, serverVars, prefix, dest, cur>>

(* Mutant of ReadPrev: it asks for the destination again.                  *)
ReadPrev_OfDest ==
    /\ queryPc = "walk"
    /\ IF cur = Start THEN queryPc' = "path" /\ UNCHANGED <<cur, view>>
       ELSE LET b == keys[prefix][<<"prev", dest>>] IN
            IF b = 0 THEN queryPc' = "broken" /\ UNCHANGED <<cur, view>>
            ELSE cur' = tree[b][dest] /\ view' = View(b) /\ UNCHANGED queryPc
    /\ UNCHANGED <<builderVars, redisVars, serverVars, prefix, dest, faults>>

(* One turn of the loop that follows the predecessors, which has no bound. *)
ReadPrev ==
    /\ queryPc = "walk"
    /\ IF cur = Start THEN queryPc' = "path" /\ UNCHANGED <<cur, view>>
       ELSE LET b == keys[prefix][<<"prev", cur>>] IN
            IF b = 0 THEN queryPc' = "broken" /\ UNCHANGED <<cur, view>>
            ELSE cur' = tree[b][cur] /\ view' = View(b) /\ UNCHANGED queryPc
    /\ UNCHANGED <<builderVars, redisVars, serverVars, prefix, dest, faults>>

Reply ==
    /\ queryPc \in Answers
    /\ NoQuery
    /\ UNCHANGED <<builderVars, redisVars, serverVars, faults>>

BuilderStep == FillTables \/ WriteKey \/ RenameTables
               \/ SetVersion \/ DeleteOld \/ Publish
ListenerStep == ReadVersion \/ StoreVersion
QueryStep == ReadDist \/ ReadPrev \/ Reply

Next == \/ StartRun \/ BuilderStep \/ BuilderDies
        \/ Subscribe \/ SubscriptionBreaks \/ LoadVersion \/ ListenerStep \/ Restart
        \/ QueryBegin \/ QueryStep \/ ReadFails

Spec == Init /\ [][Next]_vars

(* A run once begun goes on, messages are read, queries are carried on.    *)
FairSpec == Spec /\ WF_vars(BuilderStep) /\ WF_vars(ListenerStep) /\ WF_vars(QueryStep)
-----------------------------------------------------------------------------
(* Nothing has been refused that counts since the run that was last        *)
(* switched to began.                                                      *)
Unspoilt(db) == \A b \in published..run : <<b, db>> \notin refused

(***************************************************************************)
(* What current_version names is complete, wherever a builder has died:    *)
(* each key of the build that was last switched to is there, written by    *)
(* that build.  Only an error reply of Redis that the builder does not     *)
(* look at can spoil it - a key is missing, the prefix written or deleted  *)
(* is the live one - and one run without such a reply repairs that.  And   *)
(* there is nothing else: the prefix a run writes is not cleared first, so *)
(* that keys of a run that died, or could not delete, show through, but    *)
(* two runs that end properly are enough to be rid of them.                *)
(***************************************************************************)
CurrentIsOneBuild ==
    /\ published > 0 /\ Unspoilt("redis") =>
          \A k \in KeysOf(published) : keys[current][k] = published
    /\ clean = 2 => \A k \in Key : keys[current][k] \in {0, published}

(***************************************************************************)
(* A server that goes by another version than the current one is about to  *)
(* change: the builder has yet to publish, a message is waiting, or the    *)
(* current version has been read already; unless it really missed it.      *)
(***************************************************************************)
StaleServerIsTold ==
    loaded # "no" /\ version # current =>
        buildPc \in {"delete", "publish"} \/ inbox > 0 \/ got = current \/ missed

(***************************************************************************)
(* A query that begins on an up-to-date server, and meets neither a switch *)
(* nor an error of Redis, answers from the published build alone: the way  *)
(* when there is one, and "no distance" only when there is none.  Nothing  *)
(* may have been refused to the run that published, nor to one since; and  *)
(* where there is no way, keys that a builder has left behind which died   *)
(* or was refused something can make the query answer something else.      *)
(***************************************************************************)
AnswerIsCurrent ==
    view # "stale" =>
        IF published > 0 /\ tree[published][dest] # Nil
        THEN Unspoilt("redis") => view = "published" /\ queryPc \notin {"none", "broken"}
        ELSE queryPc \in {"dist", "none"} \/ clean < 2

(***************************************************************************)
(* MySQL is never behind Redis: what the servers are switched to, or what  *)
(* a later run has come to, is in shortest_dist and shortest_prev, if      *)
(* these exist at all and MySQL has executed every statement of the run    *)
(* switched to and of those since.                                         *)
(***************************************************************************)
TablesNotBehind ==
    tables.live # Nil /\ Unspoilt("mysql") => tables.live >= published

(***************************************************************************)
(* In the end the server goes by the current version, or has missed the    *)
(* last switch, or nobody has queried it yet.                              *)
(***************************************************************************)
ServerCatchesUp == <>[](version = current \/ missed \/ loaded = "no")

(***************************************************************************)
(* The loop that follows the predecessors ends, although it has no bound   *)
(* and the keys change under it.  Only keys of two builds in one prefix,   *)
(* which takes a builder that died or was refused something, can lead it   *)
(* in a circle.                                                            *)
(***************************************************************************)
QueryReturns == queryPc = "walk" ~> queryPc # "walk" \/ clean < 2
=============================================================================
