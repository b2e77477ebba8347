-------------------------- MODULE HotUpdateProofs --------------------------
(***************************************************************************)
(* Proofs about HotUpdate, for all places, all trees a build may come to,  *)
(* and any number of runs and faults.                                      *)
(***************************************************************************)
EXTENDS HotUpdate, SequenceTheorems, TLAPS

ServerOrQueryStep ==
    \/ Subscribe \/ SubscriptionBreaks \/ LoadVersion \/ ListenerStep \/ Restart
    \/ QueryBegin \/ QueryStep \/ ReadFails

(* The server reads Redis, and leaves it and the builder as they are.      *)
LEMMA ServerOnlyReads ==
    ServerOrQueryStep \/ UNCHANGED vars => UNCHANGED <<builderVars, redisVars>>
BY DEF ServerOrQueryStep, Subscribe, SubscriptionBreaks, LoadVersion, ListenerStep,
       ReadVersion, StoreVersion, Restart, QueryBegin, QueryStep, ReadDist, ReadPrev,
       Reply, ReadFails, vars, builderVars, redisVars

LEMMA KeyShape ==
    /\ \A k \in Key : k[2] \in Places
    /\ \A p \in Places : /\ <<"dist", p>> \in Key /\ <<"dist", p>>[2] = p
                         /\ <<"prev", p>> \in Key /\ <<"prev", p>>[2] = p
BY DEF Key

(* The keys a run writes are among those it has to.                        *)
LEMMA NextKeyIsOne ==
    ASSUME todo # {}
    PROVE  NextKey \in todo
<1>1. \E k \in todo : k[1] = "dist" \/ \A j \in todo : j[1] # "dist"
  OBVIOUS
<1>2. QED
  BY <1>1 DEF NextKey

(***************************************************************************)
(* A key holds a build that has begun and that has this key, and the keys  *)
(* a run still has to write are its own.                                   *)
(***************************************************************************)
AllTrees == UNION {Trees[b] : b \in 1..MaxRuns}

KeysSound ==
    \A v \in 0..1, k \in Key :
        keys[v][k] # 0 => keys[v][k] \in 1..run /\ tree[keys[v][k]][k[2]] # Nil
TodoSound == /\ buildPc # "idle" => run > 0
             /\ buildPc = "write" => todo \subseteq KeysOf(run)

Sound == TypeOK /\ tree \in Seq(AllTrees) /\ KeysSound /\ TodoSound

(* What an error reply does to the types.                                  *)
LEMMA RefusalType ==
    ASSUME TypeOK
    PROVE  /\ Accepted => refused' = refused /\ clean' \in -1..2 /\ faults' \in 0..MaxFaults
           /\ Fault => faults' \in 0..MaxFaults
           /\ Refuses(run, "redis") => faults' \in 0..MaxFaults
           /\ \A b \in 1..MaxRuns, db \in {"redis", "mysql"} : Spoils(b, db) =>
                 /\ refused' = refused \cup {<<b, db>>}
                 /\ clean' \in -1..2 /\ faults' \in 0..MaxFaults
<1>1. faults \in 0..MaxFaults /\ MaxFaults \in Nat /\ clean \in -1..2
  BY HotUpdateAssumption DEF TypeOK
<1>2. Fault => faults' \in 0..MaxFaults
  BY <1>1 DEF Fault
<1>3. \A b, db : Refuses(b, db) => faults' \in 0..MaxFaults
  BY <1>1, <1>2 DEF Refuses
<1>4. QED
  BY <1>1, <1>2, <1>3 DEF Accepted, Spoils

LEMMA InitSound == Init => Sound
<1> SUFFICES ASSUME Init PROVE Sound
  OBVIOUS
<1>1. tree \in Seq(AllTrees) /\ DOMAIN tree = 1..run
  <2>1. <<>> \in Seq(AllTrees) /\ Len(<<>>) = 0
    BY EmptySeq
  <2>2. DOMAIN <<>> = 1..0
    BY <2>1, LenProperties
  <2>3. QED
    BY <2>1, <2>2 DEF Init
<1>2. keys \in [0..1 -> [Key -> 0..MaxRuns]]
  BY HotUpdateAssumption DEF Init, NoKeys
<1>3. \A v \in 0..1, k \in Key : keys[v][k] = 0
  BY DEF Init, NoKeys
<1>4. tables \in [{"live", "new"} -> 0..MaxRuns \cup {Nil}]
  <2>1. LiveTables \subseteq 0..MaxRuns \cup {Nil}
    BY HotUpdateAssumption
  <2>2. tables \in [live : LiveTables, new : {Nil}]
    BY DEF Init
  <2>3. QED
    BY <2>1, <2>2
<1>5. /\ run \in 0..MaxRuns /\ published \in 0..run /\ faults \in 0..MaxFaults
      /\ current \in 0..1 /\ from \in 0..1 /\ clean \in -1..2 /\ version \in 0..1
      /\ prefix \in 0..1 /\ got \in -1..1 /\ inbox \in Nat
      /\ \A b \in 1..run : tree[b] \in Trees[b]
  BY HotUpdateAssumption DEF Init
<1>6. TypeOK
  BY <1>1, <1>2, <1>4, <1>5, Zenon DEF Init, TypeOK
<1>7. QED
  BY <1>1, <1>3, <1>6 DEF Init, Sound, KeysSound, TodoSound

LEMMA StartRunSound == ASSUME Sound, StartRun PROVE Sound'
<1>1. /\ run' = run + 1 /\ run' \in 1..MaxRuns /\ run \in 0..MaxRuns
      /\ published \in 0..run' /\ run + 1 \in 1..MaxRuns
  BY HotUpdateAssumption DEF StartRun, redisVars, Sound, TypeOK
<1>2. PICK t \in Trees[run + 1] : tree' = Append(tree, t)
  BY DEF StartRun
<1>3. tree \in Seq(AllTrees) /\ Len(tree) = run /\ t \in AllTrees
  <2>1. tree \in Seq(AllTrees) /\ DOMAIN tree = 1..run
    BY DEF Sound, TypeOK
  <2>2. Len(tree) = run
    BY <1>1, <2>1, LenProperties
  <2>3. t \in AllTrees
    BY <1>1, <1>2 DEF AllTrees
  <2>4. QED
    BY <2>1, <2>2, <2>3
<1>4. /\ tree' \in Seq(AllTrees) /\ Len(tree') = run' /\ tree'[run'] = t
      /\ \A b \in 1..run : tree'[b] = tree[b]
  BY <1>1, <1>2, <1>3, AppendProperties
<1>5. DOMAIN tree' = 1..run' /\ \A b \in 1..run' : tree'[b] \in Trees[b]
  <2>1. DOMAIN tree' = 1..run'
    BY <1>4, LenProperties
  <2>2. ASSUME NEW b \in 1..run' PROVE tree'[b] \in Trees[b]
    <3>1. CASE b = run'
      BY <1>1, <1>2, <1>4, <3>1
    <3>2. CASE b # run'
      BY <1>1, <1>4, <3>2 DEF Sound, TypeOK
    <3>3. QED
      BY <3>1, <3>2
  <2>3. QED
    BY <2>1, <2>2
<1>6. /\ refused' \subseteq (1..run') \X {"redis", "mysql"}
      /\ clean' \in -1..2 /\ faults' \in 0..MaxFaults /\ from' \in 0..1
  <2>1. refused \subseteq (1..run') \X {"redis", "mysql"} /\ TypeOK
    BY <1>1 DEF Sound, TypeOK
  <2>2. CASE Accepted /\ from' = current
    BY <2>1, <2>2, RefusalType DEF TypeOK
  <2>3. CASE Spoils(run + 1, "redis") /\ from' = 0
    <3>1. /\ refused' = refused \cup {<<run + 1, "redis">>}
          /\ clean' \in -1..2 /\ faults' \in 0..MaxFaults
      BY <1>1, <2>1, <2>3, RefusalType
    <3>2. <<run + 1, "redis">> \in (1..run') \X {"redis", "mysql"}
      BY <1>1
    <3>3. QED
      BY <2>1, <2>3, <3>1, <3>2
  <2>4. QED
    BY <2>2, <2>3 DEF StartRun
<1>7. TypeOK'
  BY <1>1, <1>5, <1>6 DEF StartRun, Sound, TypeOK, redisVars, serverVars, queryVars
<1>8. KeysSound'
  BY <1>1, <1>4 DEF StartRun, redisVars, Sound, KeysSound
<1>9. TodoSound'
  BY <1>1 DEF StartRun, TodoSound
<1>10. QED
  BY <1>4, <1>7, <1>8, <1>9 DEF Sound

LEMMA WriteKeySound == ASSUME Sound, WriteKey PROVE Sound'
<1> DEFINE k0 == NextKey
<1>1. k0 \in todo /\ k0 \in Key /\ 1 - from \in 0..1
  BY NextKeyIsOne DEF WriteKey, Sound, TypeOK
<1>2. /\ run \in 1..run /\ run \in 1..MaxRuns /\ run \in 0..MaxRuns
      /\ tree[run][k0[2]] # Nil
  BY <1>1, HotUpdateAssumption DEF WriteKey, Sound, TypeOK, TodoSound, KeysOf
<1>3. /\ \/ keys' = [keys EXCEPT ![1 - from][k0] = run] /\ Accepted
         \/ UNCHANGED keys /\ Spoils(run, "redis")
      /\ todo' = todo \ {k0}
  BY DEF WriteKey
<1>4. /\ refused' \subseteq (1..run) \X {"redis", "mysql"}
      /\ clean' \in -1..2 /\ faults' \in 0..MaxFaults
  BY <1>2, <1>3, RefusalType DEF Sound, TypeOK
<1> HIDE DEF k0
<1>5. /\ keys' \in [0..1 -> [Key -> 0..MaxRuns]]
      /\ \A v \in 0..1, k \in Key :
            keys'[v][k] = keys[v][k] \/ (k = k0 /\ keys'[v][k] = run)
  <2>1. keys \in [0..1 -> [Key -> 0..MaxRuns]]
    BY DEF Sound, TypeOK
  <2>2. CASE keys' = [keys EXCEPT ![1 - from][k0] = run]
    BY <1>1, <1>2, <2>1, <2>2
  <2>3. CASE keys' = keys
    BY <2>1, <2>3
  <2>4. QED
    BY <1>3, <2>2, <2>3
<1>6. TypeOK'
  BY <1>1, <1>3, <1>4, <1>5 DEF WriteKey, Sound, TypeOK, serverVars, queryVars
<1>7. KeysSound'
  BY <1>2, <1>5 DEF WriteKey, Sound, KeysSound
<1>8. TodoSound'
  BY <1>3 DEF WriteKey, Sound, TodoSound, KeysOf
<1>9. QED
  BY <1>6, <1>7, <1>8 DEF Sound, WriteKey

LEMMA DeleteOldSound == ASSUME Sound, DeleteOld PROVE Sound'
<1>1. /\ keys' \in [0..1 -> [Key -> 0..MaxRuns]]
      /\ \A v \in 0..1, k \in Key : keys'[v][k] \in {0, keys[v][k]}
  BY HotUpdateAssumption DEF Sound, TypeOK, DeleteOld, NoKeys
<1>2. clean' \in -1..2 /\ faults' \in 0..MaxFaults
  BY RefusalType DEF Sound, TypeOK, DeleteOld
<1>3. TypeOK'
  BY <1>1, <1>2 DEF Sound, TypeOK, DeleteOld, serverVars, queryVars
<1>4. KeysSound'
  BY <1>1 DEF Sound, KeysSound, DeleteOld
<1>5. QED
  BY <1>3, <1>4 DEF Sound, TodoSound, DeleteOld

(* The predecessor a query reads is a place or the start.                  *)
LEMMA ReadPrevType ==
    ASSUME Sound, NEW p \in Places, NEW v \in 0..1, keys[v][<<"prev", p>>] # 0
    PROVE  tree[keys[v][<<"prev", p>>]][p] \in Places \cup {Start}
<1>1. /\ keys[v][<<"prev", p>>] \in 1..run
      /\ tree[keys[v][<<"prev", p>>]][p] # Nil
  BY KeyShape DEF Sound, KeysSound
<1>2. tree[keys[v][<<"prev", p>>]] \in [Places -> Places \cup {Start, Nil}]
  <2> DEFINE b == keys[v][<<"prev", p>>]
  <2>1. b \in 1..MaxRuns /\ tree[b] \in Trees[b]
    BY <1>1, HotUpdateAssumption DEF Sound, TypeOK
  <2>2. QED
    BY <2>1, HotUpdateAssumption
<1>3. QED
  BY <1>1, <1>2

LEMMA StepSound == Sound /\ [Next]_vars => Sound'
<1> SUFFICES ASSUME Sound, [Next]_vars PROVE Sound'
  OBVIOUS
<1>0. TypeOK /\ 0 \in 0..MaxRuns /\ (buildPc # "idle" => run \in 1..MaxRuns)
  BY HotUpdateAssumption DEF Sound, TypeOK, TodoSound
<1>1. CASE FillTables
  <2>1. /\ tables' \in [{"live", "new"} -> 0..MaxRuns \cup {Nil}]
        /\ buildPc = "fill" /\ run \in 1..MaxRuns
    <3>1. buildPc = "fill" /\ run \in 1..MaxRuns /\ run \in 0..MaxRuns
      BY <1>0, <1>1 DEF FillTables
    <3>2. /\ tables \in [{"live", "new"} -> 0..MaxRuns \cup {Nil}]
          /\ \E t \in 0..MaxRuns \cup {Nil} : tables' = [tables EXCEPT !.new = t]
      BY <1>0, <1>1, <3>1 DEF FillTables, TypeOK
    <3>3. QED
      BY <3>1, <3>2
  <2>2. /\ refused' \subseteq (1..run) \X {"redis", "mysql"}
        /\ clean' \in -1..2 /\ faults' \in 0..MaxFaults
    BY <1>0, <1>1, <2>1, RefusalType DEF FillTables, TypeOK
  <2>3. TypeOK'
    BY <1>1, <2>1, <2>2 DEF FillTables, Sound, TypeOK, KeysOf, redisVars, serverVars, queryVars
  <2>4. KeysSound' /\ TodoSound' /\ tree' = tree
    BY <1>1 DEF FillTables, Sound, KeysSound, TodoSound, KeysOf, redisVars
  <2>5. QED
    BY <2>3, <2>4 DEF Sound
<1>2. CASE RenameTables
  <2>1. /\ tables' \in [{"live", "new"} -> 0..MaxRuns \cup {Nil}]
        /\ buildPc = "write" /\ run \in 1..MaxRuns
    BY <1>0, <1>2 DEF RenameTables, Renamed, TypeOK
  <2>2. /\ refused' \subseteq (1..run) \X {"redis", "mysql"}
        /\ clean' \in -1..2 /\ faults' \in 0..MaxFaults
    BY <1>0, <1>2, <2>1, RefusalType DEF RenameTables, TypeOK
  <2>3. TypeOK'
    BY <1>2, <2>1, <2>2 DEF RenameTables, Sound, TypeOK, redisVars, serverVars, queryVars
  <2>4. KeysSound' /\ TodoSound' /\ tree' = tree
    BY <1>2 DEF RenameTables, Sound, KeysSound, TodoSound, redisVars
  <2>5. QED
    BY <2>3, <2>4 DEF Sound
<1>3. CASE SetVersion
  <2>1. current' \in 0..1 /\ published' \in 0..run'
    <3>1. /\ from \in 0..1 /\ run \in Nat /\ run' = run
          /\ current \in 0..1 /\ published \in 0..run
          /\ \/ current' = 1 - from /\ published' = run
             \/ current' = current /\ published' = published
      BY <1>3 DEF SetVersion, Sound, TypeOK
    <3>2. QED
      BY <3>1
  <2>2. /\ refused' \subseteq (1..run) \X {"redis", "mysql"}
        /\ clean' \in -1..2 /\ faults' \in 0..MaxFaults
    <3>1. run \in 1..MaxRuns /\ (Accepted \/ Spoils(run, "redis"))
      BY <1>0, <1>3 DEF SetVersion
    <3>2. refused \subseteq (1..run) \X {"redis", "mysql"}
      BY <1>0 DEF TypeOK
    <3>3. QED
      BY <1>0, <3>1, <3>2, RefusalType
  <2>3. missed' \in BOOLEAN /\ view' \in {"published", "mixed", "stale"}
    BY <1>3, Zenon DEF SetVersion, Sound, TypeOK
  <2>4. TypeOK'
    BY <1>3, <2>1, <2>2, <2>3, Zenon DEF SetVersion, Sound, TypeOK
  <2>5. KeysSound' /\ TodoSound' /\ tree' = tree
    BY <1>3 DEF SetVersion, Sound, KeysSound, TodoSound
  <2>6. QED
    BY <2>4, <2>5 DEF Sound
<1>4. CASE Publish
  <2>1. inbox' \in Nat /\ clean' \in -1..2
    BY <1>4 DEF Publish, Sound, TypeOK
  <2>2. missed' \in BOOLEAN
    BY <1>4, Zenon DEF Publish, Sound, TypeOK
  <2>3. faults' \in 0..MaxFaults
    BY <1>0, <1>4, RefusalType DEF Publish, TypeOK
  <2>4. TypeOK'
    BY <1>4, <2>1, <2>2, <2>3, Zenon DEF Publish, Sound, TypeOK, redisVars, queryVars
  <2>5. KeysSound' /\ TodoSound' /\ tree' = tree
    BY <1>4 DEF Publish, Sound, KeysSound, TodoSound, redisVars
  <2>6. QED
    BY <2>4, <2>5 DEF Sound
<1>5. CASE BuilderDies
  <2>1. tables' \in [{"live", "new"} -> 0..MaxRuns \cup {Nil}]
    BY <1>5 DEF BuilderDies, Renamed, Sound, TypeOK
  <2>2. missed' \in BOOLEAN
    BY <1>5, Zenon DEF BuilderDies, Sound, TypeOK
  <2>3. QED
    BY <1>5, <2>1, <2>2, HotUpdateAssumption
       DEF BuilderDies, Fault, Sound, TypeOK, KeysSound, TodoSound, redisVars, queryVars
<1>6. CASE ServerOrQueryStep \/ UNCHANGED vars
  <2>1. /\ UNCHANGED <<tables, run, tree, buildPc, from, todo, refused, clean>>
        /\ UNCHANGED <<current, keys, published>>
    BY <1>6, ServerOnlyReads DEF builderVars, redisVars
  <2>2. KeysSound' /\ TodoSound'
    BY <2>1 DEF Sound, KeysSound, TodoSound, KeysOf
  <2>3. /\ UNCHANGED faults \/ Fault
        /\ Fault => faults' \in 0..MaxFaults
    BY <1>6, HotUpdateAssumption
       DEF ServerOrQueryStep, Subscribe, SubscriptionBreaks, LoadVersion, ListenerStep,
           ReadVersion, StoreVersion, Restart, QueryBegin, QueryStep, ReadDist, ReadPrev,
           Reply, ReadFails, vars, Fault, Sound, TypeOK
  <2>4. TypeOK'
    <3> USE <2>1, <2>3 DEF Sound, TypeOK, serverVars, queryVars
    <3>1. CASE Subscribe \/ SubscriptionBreaks
      <4>1. missed' \in BOOLEAN
        BY <3>1, Zenon DEF Subscribe, SubscriptionBreaks
      <4>2. inbox' \in Nat
        BY <3>1 DEF Subscribe, SubscriptionBreaks
      <4>3. subscribed' \in {"no", "yes", "broken"}
        BY <3>1 DEF Subscribe, SubscriptionBreaks
      <4>4. QED
        BY <3>1, <4>1, <4>2, <4>3 DEF Subscribe, SubscriptionBreaks
    <3>2. CASE LoadVersion \/ ReadVersion \/ StoreVersion
      <4>1. missed' \in BOOLEAN
        BY <3>2, Zenon DEF LoadVersion, ReadVersion, StoreVersion
      <4>2. inbox' \in Nat /\ got' \in -1..1 /\ version' \in 0..1
        BY <3>2 DEF LoadVersion, ReadVersion, StoreVersion
      <4>3. loaded' \in {"no", "first", "yes"}
        BY <3>2 DEF LoadVersion, ReadVersion, StoreVersion
      <4>4. QED
        BY <3>2, <4>1, <4>2, <4>3 DEF LoadVersion, ReadVersion, StoreVersion
    <3>3. CASE Restart \/ Reply
      BY <3>3 DEF Restart, Reply, NoQuery
    <3>4. CASE QueryBegin
      BY <3>4 DEF QueryBegin
    <3>5. CASE ReadDist \/ ReadFails
      BY <3>5 DEF ReadDist, ReadFails, View, Answers
    <3>6. CASE ReadPrev
      <4>1. CASE cur = Start \/ keys[prefix][<<"prev", cur>>] = 0
        BY <3>6, <4>1 DEF ReadPrev, Answers
      <4>2. CASE cur # Start /\ keys[prefix][<<"prev", cur>>] # 0
        <5>1. cur' \in Places \cup {Start} /\ view' \in {"published", "mixed", "stale"}
          BY <3>6, <4>2, ReadPrevType DEF ReadPrev, View
        <5>2. UNCHANGED <<serverVars, prefix, dest, queryPc>>
          BY <3>6, <4>2 DEF ReadPrev
        <5>3. QED
          BY <5>1, <5>2
      <4>3. QED
        BY <4>1, <4>2
    <3>7. CASE UNCHANGED vars
      BY <3>7 DEF vars
    <3>8. QED
      BY <1>6, <3>1, <3>2, <3>3, <3>4, <3>5, <3>6, <3>7
         DEF ServerOrQueryStep, ListenerStep, QueryStep
  <2>5. QED
    BY <2>1, <2>2, <2>4 DEF Sound
<1>7. QED
  BY <1>1, <1>2, <1>3, <1>4, <1>5, <1>6, StartRunSound, WriteKeySound, DeleteOldSound
     DEF Next, BuilderStep, ServerOrQueryStep

(***************************************************************************)
(* Type correctness.                                                       *)
(***************************************************************************)
THEOREM TypeCorrect == Spec => []TypeOK
<1>1. Spec => []Sound
  BY InitSound, StepSound, PTL DEF Spec
<1>2. Sound => TypeOK
  BY DEF Sound
<1>3. QED
  BY <1>1, <1>2, PTL

(***************************************************************************)
(* Where the builder is tells how its version, its build and the published *)
(* one stand to each other; what it has written so far is there; the other *)
(* prefix holds nothing else once a run has ended properly; and so, after  *)
(* one more, does the current one.  What Redis has refused to a run is the *)
(* exception: a refused GET lets it start from the wrong version, a        *)
(* refused SET of the version lets it delete from the wrong one.           *)
(***************************************************************************)
Refused == <<run, "redis">> \in refused

Order ==
    /\ buildPc # "write" => todo = {}
    /\ buildPc \in {"fill", "write", "set"} => published < run /\ (from = current \/ Refused)
    /\ buildPc \in {"delete", "publish"} => (from = 1 - current /\ published = run) \/ Refused
    /\ clean >= 0 /\ buildPc # "idle" => ~Refused

Written ==
    buildPc \in {"write", "set"} /\ ~Refused =>
        \A k \in KeysOf(run) \ todo : keys[1 - from][k] = run

Switched ==
    published > 0 /\ Unspoilt("redis") => \A k \in KeysOf(published) : keys[current][k] = published

Fresh ==
    /\ clean > 0 /\ buildPc \in {"idle", "fill"} => \A k \in Key : keys[1 - current][k] = 0
    /\ clean > 0 /\ buildPc \in {"write", "set"} =>
          \A k \in Key : keys[1 - current][k] \in {0, run}
    /\ clean >= 0 /\ buildPc = "publish" => \A k \in Key : keys[1 - current][k] = 0

Washed == clean = 2 \/ (clean = 1 /\ buildPc \in {"delete", "publish"})

Pure == Washed => \A k \in Key : keys[current][k] \in {0, published}

OneBuild == Order /\ Written /\ Switched /\ Fresh /\ Pure

(* A spoilt build is not repaired before the next switch; a run that has   *)
(* just been refused something spoils it.                                  *)
LEMMA OnceSpoilt ==
    ASSUME Sound, UNCHANGED published, run' \in Nat, run' >= run, refused \subseteq refused',
           NEW db
    PROVE  Unspoilt(db)' => Unspoilt(db)
<1>1. run \in Nat /\ published \in Nat /\ published \in 0..run
  BY HotUpdateAssumption DEF Sound, TypeOK
<1>2. published..run \subseteq published'..run'
  BY <1>1
<1>3. QED
  BY <1>2 DEF Unspoilt

LEMMA UnspoiltRun ==
    ASSUME Sound, NEW db, Unspoilt(db)
    PROVE  <<run, db>> \notin refused
<1>1. run \in Nat /\ published \in Nat /\ published \in 0..run
  BY HotUpdateAssumption DEF Sound, TypeOK
<1>2. run \in published..run
  BY <1>1
<1>3. QED
  BY <1>2 DEF Unspoilt

(* The builder only ever adds to what it has been refused.                 *)
LEMMA RefusedGrows ==
    ASSUME Sound, [Next]_vars
    PROVE  refused \subseteq refused' /\ run' >= run /\ run' \in Nat
<1>0. run \in Nat
  BY HotUpdateAssumption DEF Sound, TypeOK
<1>1. CASE StartRun
  BY <1>0, <1>1 DEF StartRun, Accepted, Spoils
<1>2. CASE FillTables \/ WriteKey \/ RenameTables \/ SetVersion
  <2>1. run' = run /\ (Accepted \/ \E db : Spoils(run, db))
    BY <1>2 DEF FillTables, WriteKey, RenameTables, SetVersion
  <2>2. QED
    BY <1>0, <2>1 DEF Accepted, Spoils
<1>3. CASE DeleteOld \/ Publish \/ BuilderDies
  BY <1>0, <1>3 DEF DeleteOld, Publish, BuilderDies
<1>4. CASE ServerOrQueryStep \/ UNCHANGED vars
  BY <1>0, <1>4, ServerOnlyReads DEF builderVars
<1>5. QED
  BY <1>1, <1>2, <1>3, <1>4 DEF Next, BuilderStep, ServerOrQueryStep

LEMMA StartRunOneBuild == ASSUME Sound, OneBuild, StartRun PROVE OneBuild'
<1>1. /\ run \in Nat /\ published \in 0..run /\ run' = run + 1 /\ buildPc = "idle"
      /\ buildPc' = "fill" /\ published \in Nat
      /\ UNCHANGED <<todo, current, keys, published>>
  BY HotUpdateAssumption DEF StartRun, Sound, TypeOK, redisVars
<1>2. \/ from' = current /\ UNCHANGED <<refused, clean>>
      \/ clean' = -1 /\ refused' = refused \cup {<<run', "redis">>}
  BY <1>1 DEF StartRun, Accepted, Spoils
<1>3. <<run', "redis">> \notin refused
  <2>1. refused \subseteq (1..run) \X {"redis", "mysql"}
    BY DEF Sound, TypeOK
  <2>2. run' \notin 1..run
    BY <1>1
  <2>3. QED
    BY <2>1, <2>2
<1>4. Order' /\ Written'
  BY <1>1, <1>2, <1>3 DEF OneBuild, Order, Written, Refused
<1>5. Switched'
  <2>1. Unspoilt("redis")' => Unspoilt("redis")
    BY <1>1, RefusedGrows, OnceSpoilt DEF Next
  <2>2. KeysOf(published) = KeysOf(published)' \/ published = 0
    <3>1. published \in 1..run => tree'[published] = tree[published]
      <4>1. PICK t \in Trees[run + 1] : tree' = Append(tree, t)
        BY DEF StartRun
      <4>2. tree \in Seq(AllTrees) /\ Len(tree) = run
        <5>1. tree \in Seq(AllTrees) /\ DOMAIN tree = 1..run
          BY DEF Sound, TypeOK
        <5>2. QED
          BY <1>1, <5>1, LenProperties
      <4>3. t \in AllTrees
        <5>1. run + 1 \in 1..MaxRuns
          BY <1>1, HotUpdateAssumption DEF StartRun
        <5>2. QED
          BY <4>1, <5>1 DEF AllTrees
      <4>4. QED
        BY <4>1, <4>2, <4>3, AppendProperties
    <3>2. QED
      BY <1>1, <3>1 DEF KeysOf
  <2>3. QED
    BY <1>1, <2>1, <2>2 DEF OneBuild, Switched
<1>6. Fresh' /\ Pure'
  BY <1>1, <1>2 DEF OneBuild, Fresh, Pure, Washed
<1>7. QED
  BY <1>4, <1>5, <1>6 DEF OneBuild

LEMMA WriteKeyOneBuild == ASSUME Sound, OneBuild, WriteKey PROVE OneBuild'
<1> DEFINE k0 == NextKey
<1>1. /\ buildPc = "write" /\ buildPc' = "write" /\ k0 \in Key
      /\ todo' = todo \ {k0} /\ clean \in -1..2
      /\ published < run /\ current \in 0..1 /\ from \in 0..1 /\ (from = current \/ Refused)
      /\ UNCHANGED <<run, tree, from, current, published>>
  BY NextKeyIsOne DEF WriteKey, Sound, TypeOK, OneBuild, Order
<1>2. Unspoilt("redis")' => Unspoilt("redis")
  BY <1>1, RefusedGrows, OnceSpoilt DEF Next, BuilderStep
<1>3. CASE UNCHANGED keys /\ Spoils(run, "redis")
  <2>1. Refused' /\ clean' = -1 /\ ~Unspoilt("redis")'
    <3>1. Refused' /\ clean' = -1
      BY <1>1, <1>3 DEF Spoils, Refused
    <3>2. run \in published..run
      BY <1>1, HotUpdateAssumption DEF Sound, TypeOK
    <3>3. QED
      BY <1>1, <3>1, <3>2 DEF Unspoilt, Refused
  <2>2. QED
    BY <1>1, <1>3, <2>1 DEF OneBuild, Order, Written, Switched, Fresh, Pure, Washed
<1>4. CASE keys' = [keys EXCEPT ![1 - from][k0] = run] /\ Accepted
  <2>1. UNCHANGED <<refused, clean>> /\ (Refused' <=> Refused)
    BY <1>1, <1>4 DEF Accepted, Refused
  <2> HIDE DEF k0
  <2>2. \A v \in 0..1, k \in Key :
           keys'[v][k] = IF v = 1 - from /\ k = k0 THEN run ELSE keys[v][k]
    BY <1>1, <1>4 DEF Sound, TypeOK
  <2>3. ASSUME from = current
        PROVE  /\ \A k \in Key : keys'[current][k] = keys[current][k]
               /\ \A k \in Key : keys'[1 - current][k] =
                                     IF k = k0 THEN run ELSE keys[1 - current][k]
    <3>1. 1 - current \in 0..1 /\ 1 - current # current
      BY <1>1
    <3>2. QED
      BY <1>1, <2>2, <2>3, <3>1
  <2>4. ~Refused => from = current
    BY <1>1
  <2>5. Order'
    BY <1>1, <2>1 DEF OneBuild, Order
  <2>6. Written'
    BY <1>1, <2>1, <2>3, <2>4 DEF OneBuild, Written, KeysOf
  <2>7. Switched'
    <3>1. Unspoilt("redis")' => ~Refused
      BY <1>2, UnspoiltRun DEF Refused
    <3>2. QED
      BY <1>1, <1>2, <2>3, <2>4, <3>1 DEF OneBuild, Switched, KeysOf
  <2>8. Fresh' /\ Pure'
    <3>1. clean >= 0 => ~Refused
      BY <1>1 DEF OneBuild, Order
    <3>2. QED
      BY <1>1, <2>1, <2>3, <2>4, <3>1 DEF OneBuild, Fresh, Pure, Washed
  <2>9. QED
    BY <2>5, <2>6, <2>7, <2>8 DEF OneBuild
<1>5. QED
  BY <1>3, <1>4 DEF WriteKey

LEMMA SetVersionOneBuild == ASSUME Sound, OneBuild, SetVersion PROVE OneBuild'
<1>1. /\ buildPc = "set" /\ buildPc' = "delete" /\ todo = {}
      /\ published < run /\ (from = current \/ Refused)
      /\ current \in 0..1 /\ from \in 0..1 /\ clean \in -1..2
      /\ clean >= 0 => ~Refused
      /\ run \in Nat /\ published \in Nat
      /\ UNCHANGED <<run, tree, from, keys, todo>>
  BY HotUpdateAssumption DEF SetVersion, Sound, TypeOK, OneBuild, Order
<1>2. CASE UNCHANGED <<current, published>> /\ Spoils(run, "redis")
  <2>1. Refused' /\ clean' = -1 /\ ~Unspoilt("redis")'
    <3>1. Refused' /\ clean' = -1
      BY <1>1, <1>2 DEF Spoils, Refused
    <3>2. run \in published..run
      BY <1>1
    <3>3. QED
      BY <1>1, <1>2, <3>1, <3>2 DEF Unspoilt, Refused
  <2>2. QED
    BY <1>1, <1>2, <2>1 DEF OneBuild, Order, Written, Switched, Fresh, Pure, Washed
<1>3. CASE current' = 1 - from /\ published' = run /\ Accepted
  <2>1. UNCHANGED <<refused, clean>> /\ (Refused' <=> Refused)
    BY <1>1, <1>3 DEF Accepted, Refused
  <2>2. ~Refused => from = current /\ current' = 1 - current /\ 1 - current' = current
    BY <1>1, <1>3
  <2>3. Order' /\ Written'
    <3>1. from = 1 - (1 - from)
      BY <1>1
    <3>2. QED
      BY <1>1, <1>3, <2>1, <3>1 DEF Order, Written
  <2>4. Switched'
    <3>1. Unspoilt("redis")' => ~Refused
      <4>1. run \in run..run
        BY <1>1
      <4>2. QED
        BY <1>1, <1>3, <2>1, <4>1 DEF Unspoilt, Refused
    <3>2. KeysOf(published)' = KeysOf(run) /\ KeysOf(run) \ todo = KeysOf(run)
      BY <1>1, <1>3 DEF KeysOf
    <3>3. QED
      BY <1>1, <1>3, <3>1, <3>2 DEF OneBuild, Written, Switched
  <2>5. Fresh'
    BY <1>1 DEF Fresh
  <2>6. Pure'
    BY <1>1, <1>3, <2>1, <2>2 DEF OneBuild, Fresh, Pure, Washed
  <2>7. QED
    BY <2>3, <2>4, <2>5, <2>6 DEF OneBuild
<1>4. QED
  BY <1>2, <1>3 DEF SetVersion

LEMMA DeleteOldOneBuild == ASSUME Sound, OneBuild, DeleteOld PROVE OneBuild'
<1>1. /\ buildPc = "delete" /\ buildPc' = "publish"
      /\ (from = 1 - current /\ published = run) \/ Refused
      /\ current \in 0..1 /\ 1 - current \in 0..1 /\ 1 - current # current
      /\ clean \in -1..2 /\ (clean >= 0 => ~Refused)
      /\ UNCHANGED <<run, tree, from, refused, current, published, todo>>
  BY DEF DeleteOld, Sound, TypeOK, OneBuild, Order
<1>2. /\ Unspoilt("redis")' <=> Unspoilt("redis")
      /\ Unspoilt("redis") => ~Refused
      /\ Refused' <=> Refused
  BY <1>1, UnspoiltRun DEF Unspoilt, Refused
<1>3. CASE keys' = keys /\ clean' = -1
  BY <1>1, <1>2, <1>3 DEF OneBuild, Order, Written, Switched, Fresh, Pure, Washed, KeysOf
<1>4. CASE keys' = [keys EXCEPT ![from] = NoKeys] /\ UNCHANGED clean
  <2>1. ~Refused => /\ \A k \in Key : keys'[current][k] = keys[current][k]
                    /\ \A k \in Key : keys'[1 - current][k] = 0
    BY <1>1, <1>4 DEF Sound, TypeOK, NoKeys
  <2>2. Order' /\ Written'
    BY <1>1, <1>2, <1>4 DEF OneBuild, Order, Written
  <2>3. Switched'
    BY <1>1, <1>2, <2>1 DEF OneBuild, Switched, KeysOf
  <2>4. Fresh' /\ Pure'
    BY <1>1, <1>4, <2>1 DEF OneBuild, Fresh, Pure, Washed
  <2>5. QED
    BY <2>2, <2>3, <2>4 DEF OneBuild
<1>5. QED
  BY <1>3, <1>4 DEF DeleteOld

LEMMA StepOneBuild == Sound /\ OneBuild /\ [Next]_vars => OneBuild'
<1> SUFFICES ASSUME Sound, OneBuild, [Next]_vars PROVE OneBuild'
  OBVIOUS
<1>0. run \in Nat /\ clean \in -1..2 /\ published \in Nat
  BY HotUpdateAssumption DEF Sound, TypeOK
<1>1. ASSUME FillTables \/ RenameTables PROVE OneBuild'
  <2>1. /\ UNCHANGED <<run, tree, from, current, keys, published>>
        /\ UNCHANGED clean
        /\ <<run, "redis">> \in refused' <=> <<run, "redis">> \in refused
        /\ \/ buildPc = "fill" /\ buildPc' = "write" /\ todo' = KeysOf(run)
           \/ buildPc = "write" /\ buildPc' = "set" /\ todo = {} /\ todo' = {}
    BY <1>1 DEF FillTables, RenameTables, redisVars, Accepted, Spoils
  <2>2. (Refused' <=> Refused) /\ KeysOf(run)' = KeysOf(run)
        /\ KeysOf(published)' = KeysOf(published)
    BY <2>1 DEF Refused, KeysOf
  <2>3. Unspoilt("redis")' => Unspoilt("redis")
    BY <2>1, RefusedGrows, OnceSpoilt
  <2>4. Order' /\ Written'
    BY <2>1, <2>2 DEF OneBuild, Order, Written
  <2>5. Switched'
    BY <2>1, <2>2, <2>3 DEF OneBuild, Switched
  <2>6. Fresh' /\ Pure'
    BY <2>1 DEF OneBuild, Fresh, Pure, Washed
  <2>7. QED
    BY <2>4, <2>5, <2>6 DEF OneBuild
<1>2. ASSUME Publish \/ BuilderDies PROVE OneBuild'
  <2>1. /\ buildPc' = "idle" /\ todo' = {}
        /\ UNCHANGED <<run, tree, from, refused, current, keys, published>>
        /\ \/ buildPc = "publish" /\ clean' = (IF clean = 2 THEN 2 ELSE clean + 1)
           \/ clean' = 0
    BY <1>2 DEF Publish, BuilderDies, redisVars, OneBuild, Order
  <2>2. /\ clean' > 0 => buildPc = "publish" /\ clean >= 0
        /\ clean' = 2 => buildPc = "publish" /\ clean \in {1, 2}
        /\ Unspoilt("redis")' <=> Unspoilt("redis")
    BY <1>0, <2>1 DEF Unspoilt
  <2>3. Order' /\ Written'
    BY <2>1 DEF Order, Written
  <2>4. Switched'
    BY <2>1, <2>2 DEF OneBuild, Switched, KeysOf
  <2>5. Fresh' /\ Pure'
    BY <2>1, <2>2 DEF OneBuild, Fresh, Pure, Washed
  <2>6. QED
    BY <2>3, <2>4, <2>5 DEF OneBuild
<1>3. CASE ServerOrQueryStep \/ UNCHANGED vars
  <2>1. UNCHANGED <<run, tree, buildPc, from, todo, refused, clean, current, keys, published>>
    BY <1>3, ServerOnlyReads DEF builderVars, redisVars
  <2>2. (Unspoilt("redis")' <=> Unspoilt("redis")) /\ (Refused' <=> Refused)
        /\ KeysOf(run)' = KeysOf(run) /\ KeysOf(published)' = KeysOf(published)
    BY <2>1 DEF Unspoilt, Refused, KeysOf
  <2>3. QED
    BY <2>1, <2>2 DEF OneBuild, Order, Written, Switched, Fresh, Pure, Washed
<1>4. QED
  BY <1>1, <1>2, <1>3, StartRunOneBuild, WriteKeyOneBuild,
     SetVersionOneBuild, DeleteOldOneBuild
     DEF Next, BuilderStep, ServerOrQueryStep

LEMMA InitOneBuild == Init => OneBuild
BY HotUpdateAssumption
   DEF Init, OneBuild, Order, Written, Switched, Fresh, Pure, Washed, NoKeys, Refused

(***************************************************************************)
(* The version the servers are switched to is complete, wherever builders  *)
(* have died, unless Redis has refused something to the run that published *)
(* it or to one since; and once two runs have ended properly, with nothing *)
(* refused, there is nothing else under it.                                *)
(***************************************************************************)
THEOREM PublishedIsWhole == Spec => []CurrentIsOneBuild
<1>1. Spec => [](Sound /\ OneBuild)
  BY InitSound, StepSound, InitOneBuild, StepOneBuild, PTL DEF Spec
<1>2. Sound /\ OneBuild => CurrentIsOneBuild
  BY DEF OneBuild, Switched, Pure, Washed, CurrentIsOneBuild
<1>3. QED
  BY <1>1, <1>2, PTL

(***************************************************************************)
(* What has been read under the mutex may be out of date too, and then the *)
(* same holds of it as of the version of the server.                       *)
(***************************************************************************)
GotIsTold ==
    got # -1 /\ got # current =>
        buildPc \in {"delete", "publish"} \/ inbox > 0 \/ missed

Told == StaleServerIsTold /\ GotIsTold

LEMMA InitTold == Init => Told
BY DEF Init, Told, StaleServerIsTold, GotIsTold

LEMMA StepTold == Sound /\ Told /\ [Next]_vars => Told'
<1> SUFFICES ASSUME Sound, Told, [Next]_vars PROVE Told'
  OBVIOUS
<1> USE DEF Told, StaleServerIsTold, GotIsTold
<1>0. inbox \in Nat /\ current \in 0..1 /\ got \in -1..1
  BY DEF Sound, TypeOK
<1>1. CASE StartRun \/ FillTables \/ WriteKey \/ RenameTables
  <2>1. /\ buildPc \notin {"delete", "publish"}
        /\ UNCHANGED <<version, loaded, current, inbox, got, missed>>
    BY <1>1 DEF StartRun, FillTables, WriteKey, RenameTables, serverVars, redisVars
  <2>2. QED
    BY <2>1
<1>2. CASE SetVersion
  <2>1. buildPc' = "delete"
    BY <1>2 DEF SetVersion
  <2>2. QED
    BY <2>1
<1>3. CASE DeleteOld
  <2>1. buildPc' = "publish"
    BY <1>3 DEF DeleteOld
  <2>2. QED
    BY <2>1
<1>4. CASE Publish
  <2>1. inbox' > 0 \/ missed'
    BY <1>4, <1>0 DEF Publish
  <2>2. QED
    BY <2>1
<1>5. CASE BuilderDies
  <2>1. buildPc \in {"delete", "publish"} \/ missed => missed'
    BY <1>5, Zenon DEF BuilderDies
  <2>2. UNCHANGED <<version, loaded, current, inbox, got>>
    BY <1>5 DEF BuilderDies, redisVars
  <2>3. QED
    BY <2>1, <2>2
<1>6. CASE ServerOrQueryStep \/ UNCHANGED vars
  <2>1. UNCHANGED <<buildPc, current>>
    BY <1>6, ServerOnlyReads DEF builderVars, redisVars
  <2>2. CASE SubscriptionBreaks
    <3>1. (inbox > 0 \/ missed) => (inbox' > 0 \/ missed')
      <4>1. \E n \in {0, inbox} : inbox' = n /\ missed' = (missed \/ n < inbox)
        BY <2>2 DEF SubscriptionBreaks
      <4>2. PICK n \in {0, inbox} : inbox' = n /\ missed' = (missed \/ n < inbox)
        BY <4>1
      <4>3. CASE n < inbox \/ missed
        BY <4>2, <4>3
      <4>4. CASE ~(n < inbox) /\ ~missed
        <5>1. n = inbox
          BY <4>2, <4>4, <1>0
        <5>2. QED
          BY <4>2, <4>4, <5>1
      <4>5. QED
        BY <4>3, <4>4
    <3>2. UNCHANGED <<version, loaded, got>>
      BY <2>2 DEF SubscriptionBreaks
    <3>3. QED
      BY <2>1, <3>1, <3>2
  <2>3. CASE LoadVersion
    <3>1. CASE got' = current
      BY <2>1, <2>3, <3>1, <1>0 DEF LoadVersion
    <3>2. CASE got' # current
      BY <2>1, <2>3, <3>2 DEF LoadVersion
    <3>3. QED
      BY <3>1, <3>2
  <2>4. CASE ReadVersion
    <3>1. CASE got' = current
      BY <2>1, <2>4, <3>1, <1>0 DEF ReadVersion
    <3>2. CASE got' # current
      BY <2>1, <2>4, <3>2 DEF ReadVersion
    <3>3. QED
      BY <3>1, <3>2
  <2>5. CASE StoreVersion
    <3>1. version' = got /\ got' = -1 /\ UNCHANGED <<inbox, missed>>
      BY <2>5 DEF StoreVersion
    <3>2. got # -1
      BY <2>5 DEF StoreVersion
    <3>3. QED
      BY <2>1, <3>1, <3>2
  <2>6. CASE Restart
    BY <2>6 DEF Restart
  <2>7. CASE Subscribe \/ QueryBegin \/ QueryStep \/ ReadFails \/ UNCHANGED vars
    <3>1. UNCHANGED <<version, loaded, inbox, got, missed>>
      BY <2>7 DEF Subscribe, QueryBegin, QueryStep, ReadDist, ReadPrev, Reply, ReadFails,
                  vars, serverVars
    <3>2. QED
      BY <2>1, <3>1
  <2>8. QED
    BY <1>6, <2>2, <2>3, <2>4, <2>5, <2>6, <2>7 DEF ServerOrQueryStep, ListenerStep
<1>7. QED
  BY <1>1, <1>2, <1>3, <1>4, <1>5, <1>6 DEF Next, BuilderStep, ServerOrQueryStep

(***************************************************************************)
(* A server that goes by another version than the current one is about to  *)
(* be told, or has really missed it.                                       *)
(***************************************************************************)
THEOREM ServersAreTold == Spec => []StaleServerIsTold
<1>1. Spec => [](Sound /\ Told)
  BY InitSound, StepSound, InitTold, StepTold, PTL DEF Spec
<1>2. Told => StaleServerIsTold
  BY DEF Told
<1>3. QED
  BY <1>1, <1>2, PTL

(***************************************************************************)
(* The tables a run has filled are its own, and live before it switches,   *)
(* unless MySQL has refused it something.                                  *)
(***************************************************************************)
TableOrder ==
    <<run, "mysql">> \notin refused =>
        /\ buildPc = "write" => tables.new = run
        /\ buildPc = "set" => (tables.live # Nil => tables.live >= run)

LEMMA InitTables == Init => TableOrder /\ TablesNotBehind
<1> SUFFICES ASSUME Init PROVE TableOrder /\ TablesNotBehind
  OBVIOUS
<1>1. tables.live \in LiveTables /\ published = 0 /\ buildPc = "idle"
  BY DEF Init
<1>2. tables.live # Nil => tables.live = 0
  BY <1>1, HotUpdateAssumption
<1>3. QED
  BY <1>1, <1>2 DEF TableOrder, TablesNotBehind

LEMMA StepTables ==
    Sound /\ OneBuild /\ TableOrder /\ TablesNotBehind /\ [Next]_vars
        => TableOrder' /\ TablesNotBehind'
<1> SUFFICES ASSUME Sound, OneBuild, TableOrder, TablesNotBehind, [Next]_vars
             PROVE  TableOrder' /\ TablesNotBehind'
  OBVIOUS
<1>0. /\ run \in Nat /\ published \in 0..run /\ run # Nil
      /\ tables \in [{"live", "new"} -> 0..MaxRuns \cup {Nil}]
  BY HotUpdateAssumption DEF Sound, TypeOK
<1>1. UNCHANGED published => (Unspoilt("mysql")' => Unspoilt("mysql"))
  BY RefusedGrows, OnceSpoilt
<1>2. Unspoilt("mysql") => <<run, "mysql">> \notin refused
  BY UnspoiltRun
<1>3. CASE FillTables
  <2>1. /\ buildPc' = "write" /\ UNCHANGED <<run, published>>
        /\ \/ tables' = [tables EXCEPT !.new = run] /\ Accepted
           \/ /\ \E t : tables' = [tables EXCEPT !.new = t]
              /\ Spoils(run, "mysql")
    BY <1>3 DEF FillTables, redisVars
  <2>2. /\ tables'.live = tables.live
        /\ tables'.new = run \/ <<run, "mysql">> \in refused'
    BY <2>1, <1>0 DEF Spoils
  <2>3. QED
    BY <1>1, <2>1, <2>2 DEF TableOrder, TablesNotBehind
<1>4. CASE RenameTables
  <2>1. /\ buildPc = "write" /\ buildPc' = "set" /\ UNCHANGED <<run, published>>
        /\ \/ tables' = Renamed /\ refused' = refused
           \/ UNCHANGED tables /\ <<run, "mysql">> \in refused'
    BY <1>4 DEF RenameTables, redisVars, Accepted, Spoils
  <2>2. CASE <<run, "mysql">> \in refused'
    <3>1. ~Unspoilt("mysql")'
      <4>1. run \in published..run
        BY <1>0
      <4>2. QED
        BY <2>1, <2>2, <4>1 DEF Unspoilt
    <3>2. QED
      BY <2>1, <2>2, <3>1 DEF TableOrder, TablesNotBehind
  <2>3. CASE <<run, "mysql">> \notin refused'
    <3>1. tables' = Renamed /\ refused' = refused /\ tables.new = run
      BY <2>1, <2>3 DEF TableOrder
    <3>2. tables'.live = Nil \/ tables'.live = run
      BY <1>0, <3>1 DEF Renamed
    <3>3. QED
      BY <1>0, <2>1, <3>2 DEF TableOrder, TablesNotBehind
  <2>4. QED
    BY <2>2, <2>3
<1>5. CASE SetVersion
  <2>1. /\ buildPc = "set" /\ buildPc' = "delete" /\ UNCHANGED <<run, tables>>
        /\ <<run, "mysql">> \in refused' <=> <<run, "mysql">> \in refused
        /\ published' \in {published, run}
    BY <1>5 DEF SetVersion, Accepted, Spoils
  <2>2. CASE published' = run
    <3>1. Unspoilt("mysql")' => <<run, "mysql">> \notin refused
      <4>1. run \in run..run
        BY <1>0
      <4>2. QED
        BY <2>1, <2>2, <4>1 DEF Unspoilt
    <3>2. QED
      BY <2>1, <2>2, <3>1 DEF TableOrder, TablesNotBehind
  <2>3. CASE published' = published
    BY <1>1, <2>1, <2>3 DEF TableOrder, TablesNotBehind
  <2>4. QED
    BY <2>1, <2>2, <2>3
<1>6. CASE StartRun \/ DeleteOld \/ Publish
  <2>1. buildPc' \notin {"write", "set"} /\ UNCHANGED <<tables, published>>
    BY <1>6 DEF StartRun, DeleteOld, Publish, redisVars
  <2>2. QED
    BY <1>1, <2>1 DEF TableOrder, TablesNotBehind
<1>7. CASE WriteKey
  <2>1. /\ UNCHANGED <<tables, run, published, buildPc>>
        /\ <<run, "mysql">> \in refused' <=> <<run, "mysql">> \in refused
    BY <1>7 DEF WriteKey, Accepted, Spoils
  <2>2. QED
    BY <1>1, <2>1 DEF TableOrder, TablesNotBehind
<1>8. CASE ServerOrQueryStep \/ UNCHANGED vars
  <2>1. UNCHANGED <<tables, run, published, buildPc, refused>>
    BY <1>8, ServerOnlyReads DEF builderVars, redisVars
  <2>2. QED
    BY <1>1, <2>1 DEF TableOrder, TablesNotBehind
<1>9. CASE BuilderDies
  <2>1. buildPc' = "idle" /\ UNCHANGED <<run, refused, published>>
    BY <1>9 DEF BuilderDies, redisVars
  <2>2. CASE tables' = tables
    BY <1>1, <2>1, <2>2 DEF TableOrder, TablesNotBehind
  <2>3. CASE buildPc = "write" /\ tables' = Renamed
    <3>1. Unspoilt("mysql") => tables.new = run
      BY <1>2, <2>3 DEF TableOrder
    <3>2. Unspoilt("mysql") => tables'.live = Nil \/ tables'.live = run
      BY <1>0, <2>3, <3>1 DEF Renamed
    <3>3. QED
      BY <1>0, <1>1, <2>1, <3>2 DEF TableOrder, TablesNotBehind
  <2>4. QED
    BY <1>9, <2>2, <2>3 DEF BuilderDies
<1>10. QED
  BY <1>3, <1>4, <1>5, <1>6, <1>7, <1>8, <1>9 DEF Next, BuilderStep, ServerOrQueryStep

(***************************************************************************)
(* MySQL is not behind Redis, if its tables exist at all, as long as it    *)
(* has executed what the run published and those since have asked of it.   *)
(***************************************************************************)
THEOREM MySqlNotBehind == Spec => []TablesNotBehind
<1>1. Spec => [](Sound /\ OneBuild /\ TableOrder /\ TablesNotBehind)
  BY InitSound, StepSound, InitOneBuild, StepOneBuild, InitTables, StepTables, PTL DEF Spec
<1>2. QED
  BY <1>1, PTL

(***************************************************************************)
(* A query whose view is not stale reads the current prefix.  Where the    *)
(* published build has a way it follows that way, on places the build      *)
(* reaches, unless Redis has refused something that counts; elsewhere it   *)
(* finds no distance, unless the current prefix may still hold keys of a   *)
(* run that died, or could not delete.                                     *)
(***************************************************************************)
Reaches(p) == published > 0 /\ p \in Places /\ tree[published][p] # Nil

Following ==
    /\ view = "published"
    /\ queryPc \in {"dist", "walk", "path"}
    /\ queryPc = "dist" => cur = dest
    /\ queryPc # "path" => cur = Start \/ Reaches(cur)

Undisturbed ==
    view # "stale" =>
        /\ queryPc # "idle" /\ prefix = current /\ dest \in Places
        /\ Reaches(dest) /\ Unspoilt("redis") => Following
        /\ ~Reaches(dest) => queryPc \in {"dist", "none"} \/ ~Washed

LEMMA InitUndisturbed == Init => Undisturbed
BY DEF Init, Undisturbed

(* The switch makes every view stale; any other step of the builder leaves *)
(* an undisturbed query alone.                                             *)
LEMMA BuilderUndisturbed ==
    ASSUME Sound, OneBuild, Undisturbed, StartRun \/ BuilderStep \/ BuilderDies
    PROVE  Undisturbed'
<1>1. CASE UNCHANGED <<queryVars, current, published>>
  <2>1. Washed' => Washed
    <3>0. clean \in -1..2
      BY DEF Sound, TypeOK
    <3>1. CASE Publish
      BY <3>0, <3>1 DEF Publish, Washed
    <3>2. CASE BuilderDies
      BY <3>2 DEF BuilderDies, Washed
    <3>3. CASE StartRun
      BY <3>3 DEF StartRun, Accepted, Spoils, Washed
    <3>4. CASE FillTables \/ WriteKey \/ RenameTables
      BY <3>4 DEF FillTables, WriteKey, RenameTables, Accepted, Spoils, Washed
    <3>5. CASE DeleteOld
      BY <3>5 DEF DeleteOld, Washed
    <3>6. CASE SetVersion
      <4>1. published' # run
        BY <1>1, <3>6, HotUpdateAssumption DEF SetVersion, OneBuild, Order, Sound, TypeOK
      <4>2. clean' = -1
        BY <3>6, <4>1 DEF SetVersion, Spoils
      <4>3. QED
        BY <4>2 DEF Washed
    <3>7. QED
      BY <3>1, <3>2, <3>3, <3>4, <3>5, <3>6, Zenon DEF BuilderStep
  <2>2. published > 0 => tree'[published] = tree[published]
    <3>1. CASE StartRun
      <4>1. PICK t \in Trees[run + 1] : tree' = Append(tree, t)
        BY <3>1 DEF StartRun
      <4>2. run \in Nat /\ published \in 0..run /\ run + 1 \in 1..MaxRuns
        BY <3>1, HotUpdateAssumption DEF StartRun, Sound, TypeOK
      <4>3. tree \in Seq(AllTrees) /\ Len(tree) = run
        <5>1. tree \in Seq(AllTrees) /\ DOMAIN tree = 1..run
          BY DEF Sound, TypeOK
        <5>2. QED
          BY <4>2, <5>1, LenProperties
      <4>4. t \in AllTrees
        BY <4>1, <4>2 DEF AllTrees
      <4>5. QED
        BY <4>1, <4>2, <4>3, <4>4, AppendProperties
    <3>2. CASE BuilderStep \/ BuilderDies
      BY <3>2 DEF BuilderStep, BuilderDies, FillTables, WriteKey, RenameTables, SetVersion,
                  DeleteOld, Publish
    <3>3. QED
      BY <3>1, <3>2
  <2>3. \A p : Reaches(p)' <=> Reaches(p)
    BY <1>1, <2>2 DEF Reaches
  <2>4. UNCHANGED <<queryPc, prefix, dest, cur, view, current>>
    BY <1>1 DEF queryVars
  <2>5. Following' <=> Following
    BY <2>3, <2>4 DEF Following
  <2>6. Unspoilt("redis")' => Unspoilt("redis")
    BY <1>1, RefusedGrows, OnceSpoilt DEF Next
  <2>7. QED
    BY <2>1, <2>3, <2>4, <2>5, <2>6 DEF Undisturbed
<1>2. CASE ~UNCHANGED <<queryVars, current, published>>
  <2>1. CASE SetVersion
    <3>1. view' = "stale" \/ UNCHANGED <<queryVars, current, published>>
      BY <2>1 DEF SetVersion, queryVars
    <3>2. QED
      BY <1>2, <3>1 DEF Undisturbed
  <2>2. CASE ~SetVersion
    BY <1>2, <2>2 DEF StartRun, BuilderStep, BuilderDies, FillTables, WriteKey, RenameTables,
                      DeleteOld, Publish, redisVars, queryVars
  <2>3. QED
    BY <2>1, <2>2
<1>3. QED
  BY <1>1, <1>2

(* What an undisturbed query finds under a key.                            *)
LEMMA KeyFound ==
    ASSUME Sound, OneBuild, NEW d \in {"dist", "prev"}, NEW p \in Places
    PROVE  /\ Reaches(p) /\ Unspoilt("redis") =>
                  keys[current][<<d, p>>] = published /\ published # 0
           /\ ~Reaches(p) /\ Washed => keys[current][<<d, p>>] = 0
<1> DEFINE k == <<d, p>>
<1>1. k \in Key /\ k[2] = p /\ current \in 0..1
  BY DEF Key, Sound, TypeOK
<1>2. ASSUME Reaches(p), Unspoilt("redis")
      PROVE  keys[current][k] = published /\ published # 0
  BY <1>1, <1>2 DEF Reaches, OneBuild, Switched, KeysOf
<1>3. ASSUME ~Reaches(p), Washed PROVE keys[current][k] = 0
  <2>1. keys[current][k] \in {0, published} /\ published \in Nat
    BY <1>1, <1>3 DEF OneBuild, Pure, Sound, TypeOK
  <2>2. keys[current][k] # 0 => tree[keys[current][k]][p] # Nil
    BY <1>1 DEF Sound, KeysSound
  <2>3. QED
    BY <1>3, <2>1, <2>2 DEF Reaches
<1>4. QED
  BY <1>2, <1>3

LEMMA QueryUndisturbed ==
    ASSUME Sound, OneBuild, Undisturbed, ServerOrQueryStep
    PROVE  Undisturbed'
<1>1. UNCHANGED <<tables, run, tree, buildPc, refused, clean, current, published>>
  BY ServerOnlyReads DEF builderVars, redisVars
<1>2. /\ Washed' <=> Washed
      /\ \A p : Reaches(p)' <=> Reaches(p)
      /\ Unspoilt("redis")' <=> Unspoilt("redis")
  BY <1>1 DEF Washed, Reaches, Unspoilt
<1>3. CASE Subscribe \/ SubscriptionBreaks \/ LoadVersion \/ ListenerStep
  <2>1. UNCHANGED <<queryPc, prefix, dest, cur, view>>
    BY <1>3 DEF Subscribe, SubscriptionBreaks, LoadVersion, ListenerStep, ReadVersion,
                StoreVersion, queryVars
  <2>2. Following' <=> Following
    BY <1>2, <2>1 DEF Following
  <2>3. QED
    BY <1>1, <1>2, <2>1, <2>2 DEF Undisturbed
<1>4. CASE Restart \/ Reply \/ ReadFails
  BY <1>4 DEF Restart, Reply, ReadFails, NoQuery, Undisturbed
<1>5. CASE QueryBegin
  <2>1. PICK p \in Places : dest' = p /\ cur' = p
    BY <1>5 DEF QueryBegin
  <2>2. queryPc' = "dist" /\ prefix' = version
        /\ view' = (IF version = current THEN "published" ELSE "stale")
    BY <1>5 DEF QueryBegin
  <2>3. QED
    BY <1>1, <2>1, <2>2 DEF Undisturbed, Following, Reaches
<1>6. CASE ReadDist
  <2>1. queryPc = "dist" /\ UNCHANGED <<prefix, dest, cur>>
    BY <1>6 DEF ReadDist
  <2>2. CASE view = "stale"
    BY <1>6, <2>2 DEF ReadDist, View, Undisturbed
  <2>3. CASE view # "stale" /\ Reaches(dest) /\ Unspoilt("redis")
    <3>1. /\ prefix = current /\ dest \in Places /\ Following
      BY <2>3 DEF Undisturbed
    <3>2. keys[prefix][<<"dist", dest>>] = published /\ published # 0
      BY <2>3, <3>1, KeyFound
    <3>3. queryPc' = "walk" /\ view' = "published"
      BY <1>6, <3>1, <3>2 DEF ReadDist, View, Following
    <3>4. QED
      BY <1>1, <1>2, <2>1, <2>3, <3>1, <3>3 DEF Undisturbed, Following, Reaches
  <2>4. CASE view # "stale" /\ ~Reaches(dest)
    <3>1. prefix = current /\ dest \in Places
      BY <2>4 DEF Undisturbed
    <3>2. Washed => keys[prefix][<<"dist", dest>>] = 0
      BY <2>4, <3>1, KeyFound
    <3>3. (Washed => queryPc' = "none") /\ queryPc' # "idle"
      BY <1>6, <3>2 DEF ReadDist
    <3>4. ~Reaches(dest)'
      BY <1>1, <2>1, <2>4 DEF Reaches
    <3>5. QED
      BY <1>1, <1>2, <2>1, <3>1, <3>3, <3>4 DEF Undisturbed
  <2>5. CASE view # "stale" /\ Reaches(dest) /\ ~Unspoilt("redis")
    <3>1. queryPc' # "idle"
      BY <1>6 DEF ReadDist
    <3>2. QED
      BY <1>1, <1>2, <2>1, <2>5, <3>1 DEF Undisturbed, Reaches
  <2>6. QED
    BY <2>2, <2>3, <2>4, <2>5
<1>7. CASE ReadPrev
  <2>1. queryPc = "walk" /\ UNCHANGED <<prefix, dest>>
    BY <1>7 DEF ReadPrev
  <2>2. CASE view = "stale"
    BY <1>7, <2>2 DEF ReadPrev, View, Undisturbed
  <2>3. CASE view # "stale" /\ Reaches(dest) /\ Unspoilt("redis") /\ cur = Start
    BY <1>1, <1>2, <1>7, <2>1, <2>3 DEF ReadPrev, Undisturbed, Following, Reaches
  <2>4. CASE view # "stale" /\ Reaches(dest) /\ Unspoilt("redis") /\ cur # Start
    <3>1. /\ prefix = current /\ dest \in Places /\ view = "published" /\ Reaches(cur)
      BY <2>1, <2>3, <2>4 DEF Undisturbed, Following
    <3>2. cur \in Places
      BY <3>1 DEF Reaches
    <3>3. keys[prefix][<<"prev", cur>>] = published /\ published # 0
      BY <2>4, <3>1, <3>2, KeyFound
    <3>4. cur' = tree[published][cur] /\ view' = "published" /\ queryPc' = "walk"
      BY <1>7, <2>1, <2>4, <3>1, <3>3 DEF ReadPrev, View
    <3>5. published \in 1..MaxRuns /\ tree[published] \in Trees[published]
      BY <3>1, HotUpdateAssumption DEF Reaches, Sound, TypeOK
    <3>6. cur' = Start \/ Reaches(cur')
      <4>1. /\ tree[published] \in [Places -> Places \cup {Start, Nil}]
            /\ tree[published][cur] # Nil
        BY <3>1, <3>5, HotUpdateAssumption DEF Reaches
      <4>2. cur' \in Places \cup {Start}
        BY <3>2, <3>4, <4>1
      <4>3. cur' \in Places => tree[published][cur'] # Nil
        BY <3>2, <3>4, <3>5, HotUpdateAssumption
      <4>4. QED
        BY <3>5, <4>2, <4>3 DEF Reaches
    <3>7. Following'
      BY <1>1, <3>4, <3>6 DEF Following, Reaches
    <3>8. QED
      BY <1>1, <2>1, <2>4, <3>1, <3>4, <3>7 DEF Undisturbed, Reaches
  <2>5. CASE view # "stale" /\ ~Reaches(dest)
    <3>1. prefix = current /\ dest \in Places /\ ~Washed
      BY <2>1, <2>5 DEF Undisturbed
    <3>2. queryPc' # "idle" /\ ~Reaches(dest)'
      BY <1>1, <1>7, <2>1, <2>5 DEF ReadPrev, Reaches
    <3>3. QED
      BY <1>1, <1>2, <2>1, <3>1, <3>2 DEF Undisturbed
  <2>6. CASE view # "stale" /\ Reaches(dest) /\ ~Unspoilt("redis")
    <3>1. queryPc' # "idle" /\ Reaches(dest)'
      BY <1>1, <1>7, <2>1, <2>6 DEF ReadPrev, Reaches
    <3>2. QED
      BY <1>1, <1>2, <2>1, <2>6, <3>1 DEF Undisturbed
  <2>7. QED
    BY <2>2, <2>3, <2>4, <2>5, <2>6
<1>8. QED
  BY <1>3, <1>4, <1>5, <1>6, <1>7 DEF ServerOrQueryStep, QueryStep

LEMMA StepUndisturbed ==
    Sound /\ OneBuild /\ Undisturbed /\ [Next]_vars => Undisturbed'
<1> SUFFICES ASSUME Sound, OneBuild, Undisturbed, [Next]_vars PROVE Undisturbed'
  OBVIOUS
<1>1. CASE UNCHANGED vars
  BY <1>1 DEF vars, builderVars, redisVars, queryVars, Undisturbed, Following, Reaches, Washed,
              Unspoilt
<1>2. QED
  BY <1>1, BuilderUndisturbed, QueryUndisturbed DEF Next, ServerOrQueryStep

(***************************************************************************)
(* A query that begins on an up-to-date server and meets no switch and no  *)
(* error answers from the published build alone, unless Redis has refused  *)
(* something to the run that published it or to one since.                 *)
(***************************************************************************)
THEOREM UndisturbedAnswers == Spec => []AnswerIsCurrent
<1>1. Spec => [](Sound /\ OneBuild /\ Undisturbed)
  BY InitSound, StepSound, InitOneBuild, StepOneBuild, InitUndisturbed, StepUndisturbed,
     PTL DEF Spec
<1>2. Sound /\ Undisturbed => AnswerIsCurrent
  <2> SUFFICES ASSUME Sound, Undisturbed, view # "stale"
               PROVE  IF published > 0 /\ tree[published][dest] # Nil
                      THEN Unspoilt("redis") =>
                              view = "published" /\ queryPc \notin {"none", "broken"}
                      ELSE queryPc \in {"dist", "none"} \/ clean < 2
    BY DEF AnswerIsCurrent
  <2>1. dest \in Places /\ clean \in -1..2
    BY DEF Undisturbed, Sound, TypeOK
  <2>2. CASE Reaches(dest)
    BY <2>1, <2>2 DEF Undisturbed, Following, Reaches
  <2>3. CASE ~Reaches(dest)
    BY <2>1, <2>3 DEF Undisturbed, Reaches, Washed
  <2>4. QED
    BY <2>2, <2>3
<1>3. QED
  BY <1>1, <1>2, PTL
=============================================================================
