--------------------------- MODULE SequencerProofs ---------------------------
(***************************************************************************)
(* Proofs about Sequencer, for any number of instances and entries, any    *)
(* tile width, any sizes and times, and any set of requests that may land  *)
(* late: its safety, and that it refines the log of CTLog.                 *)
(***************************************************************************)
EXTENDS SequencerInv, TilesProofs

-----------------------------------------------------------------------------
(* Type correctness.                                                       *)

LEMMA PutType ==
    ASSUME NEW f, NEW x, NEW v, NEW S, NEW T,
           DOMAIN f \subseteq S, f \in [DOMAIN f -> T], x \in S, v \in T
    PROVE  /\ DOMAIN Put(f, x, v) = DOMAIN f \cup {x}
           /\ DOMAIN Put(f, x, v) \subseteq S
           /\ Put(f, x, v) \in [DOMAIN Put(f, x, v) -> T]
           /\ Put(f, x, v)[x] = v
           /\ \A y \in DOMAIN f : y # x => Put(f, x, v)[y] = f[y]
BY DEF Put

LEMMA EffectType ==
    ASSUME StoreType, NEW r \in Request, Effect(r)
    PROVE  StoreType'
<1>1. CASE r.op = "replace"
  <2>1. r.new \in Checkpoint
    BY <1>1 DEF Request, ReplaceRequest, StagingRequest, TileRequest, CheckpointRequest
  <2>2. QED
    BY <1>1, <2>1 DEF Effect, StoreType
<1>2. CASE r.op = "staging"
  <2>1. r.path \in Seq(Leaf) /\ r.bundle \in SUBSET Upload
    BY <1>2 DEF Request, ReplaceRequest, StagingRequest, TileRequest, CheckpointRequest
  <2>2. staging' = Put(staging, r.path, r.bundle) /\ UNCHANGED <<lock, pub, tiles>>
    BY <1>2 DEF Effect
  <2>3. DOMAIN staging' \subseteq Seq(Leaf) /\ staging' \in [DOMAIN staging' -> SUBSET Upload]
    <3>1. DOMAIN staging \subseteq Seq(Leaf) /\ staging \in [DOMAIN staging -> SUBSET Upload]
      BY DEF StoreType
    <3>2. QED
      BY <2>1, <2>2, <3>1 DEF Put
  <2>4. QED
    BY <2>2, <2>3 DEF StoreType
<1>3. CASE r.op = "tile"
  <2>1. r.key \in Tile /\ r.data \in Seq(Leaf)
    BY <1>3 DEF Request, ReplaceRequest, StagingRequest, TileRequest, CheckpointRequest
  <2>2. tiles' = Put(tiles, r.key, r.data) /\ UNCHANGED <<lock, pub, staging>>
    BY <1>3 DEF Effect
  <2>3. DOMAIN tiles' \subseteq Tile /\ tiles' \in [DOMAIN tiles' -> Seq(Leaf)]
    <3>1. DOMAIN tiles \subseteq Tile /\ tiles \in [DOMAIN tiles -> Seq(Leaf)]
      BY DEF StoreType
    <3>2. QED
      BY <2>1, <2>2, <3>1 DEF Put
  <2>4. QED
    BY <2>2, <2>3 DEF StoreType
<1>4. CASE r.op = "checkpoint"
  <2>1. r.new \in Checkpoint
    BY <1>4 DEF Request, ReplaceRequest, StagingRequest, TileRequest, CheckpointRequest
  <2>2. QED
    BY <1>4, <2>1 DEF Effect, StoreType
<1>5. QED
  BY <1>1, <1>2, <1>3, <1>4 DEF Effect

(* Issuing a request leaves the stores and the abandoned requests typed.   *)
LEMMA RequestType ==
    ASSUME StoreType, inflight \subseteq Request, NEW r \in Request, Succeeds(r) \/ Fails(r)
    PROVE  StoreType' /\ inflight' \subseteq Request
<1>1. CASE Effect(r) /\ inflight' \subseteq inflight \cup {r}
  BY <1>1, EffectType
<1>2. CASE UNCHANGED <<store, inflight>>
  BY <1>2 DEF store, StoreType
<1>3. CASE inflight' = inflight \cup {r} /\ UNCHANGED store
  BY <1>3 DEF store, StoreType
<1>4. QED
  BY <1>1, <1>2, <1>3 DEF Succeeds, Fails, Abandon

LEMMA EmptyTypes ==
    /\ Empty \in Checkpoint
    /\ NoLog \in LogState
    /\ NoRound \in RoundState
<1>1. Empty \in Checkpoint
  BY DEF Empty, Checkpoint
<1>2. NoLog \in LogState
  BY <1>1 DEF NoLog, LogState
<1>3. NoRound \in RoundState
  BY <1>1 DEF NoRound, RoundState
<1>4. QED
  BY <1>1, <1>2, <1>3

LEMMA RoundUpdate ==
    ASSUME NEW q \in RoundState
    PROVE  /\ \A c \in Checkpoint : [q EXCEPT !.next = c] \in RoundState
           /\ \A u \in SUBSET Upload : [q EXCEPT !.todo = u] \in RoundState
BY DEF RoundState

Steps == {"down", "idle"} \cup Creating \cup Loading \cup Sequencing

LEMMA GoToType ==
    ASSUME TypeOK, NEW i \in Instances, NEW p \in Steps, NEW l \in RoundState, GoTo(i, p, l)
    PROVE  pc' \in [Instances -> Steps] /\ round' \in [Instances -> RoundState]
BY DEF TypeOK, GoTo, Steps

LEMMA StopType ==
    ASSUME TypeOK, NEW i \in Instances, Stop(i)
    PROVE  /\ pc' \in [Instances -> Steps]
           /\ round' \in [Instances -> RoundState]
           /\ log' \in [Instances -> LogState]
<1>1. GoTo(i, "down", NoRound) /\ log' = [log EXCEPT ![i] = NoLog]
  BY DEF Stop
<1>2. "down" \in Steps
  BY DEF Steps
<1>3. QED
  BY <1>1, <1>2, EmptyTypes, GoToType DEF TypeOK

LEMMA EndRoundType ==
    ASSUME TypeOK, NEW i \in Instances, EndRound(i)
    PROVE  /\ pc' \in [Instances -> Steps]
           /\ round' \in [Instances -> RoundState]
           /\ log' \in [Instances -> LogState]
<1>1. GoTo(i, "idle", NoRound) /\ UNCHANGED log
  BY DEF EndRound
<1>2. "idle" \in Steps
  BY DEF Steps
<1>3. QED
  BY <1>1, <1>2, EmptyTypes, GoToType DEF TypeOK

(* The requests that instances issue.                                      *)
LEMMA IssuedType ==
    ASSUME TypeOK, NEW i \in Instances
    PROVE  /\ Replace(None, round[i].next) \in Request
           /\ Replace(log[i].lockCheckpoint, round[i].next) \in Request
           /\ UploadCheckpoint(round[i].next) \in Request
           /\ UploadStaging(round[i].next.tree, round[i].bundle) \in Request
           /\ \A u \in round[i].todo : UploadTile(u) \in Request
<1>1. round[i] \in RoundState /\ log[i] \in LogState
  BY DEF TypeOK
<1>2. /\ round[i].next \in Checkpoint /\ round[i].next.tree \in Seq(Leaf)
      /\ round[i].bundle \in SUBSET Upload /\ round[i].todo \in SUBSET Upload
      /\ log[i].lockCheckpoint \in Checkpoint
  BY <1>1 DEF RoundState, LogState, Checkpoint
<1>3. \A u \in round[i].todo : u.key \in Tile /\ u.data \in Seq(Leaf)
  BY <1>2 DEF Upload
<1>4. /\ Replace(None, round[i].next) \in ReplaceRequest
      /\ Replace(log[i].lockCheckpoint, round[i].next) \in ReplaceRequest
  BY <1>2 DEF Replace, ReplaceRequest
<1>5. UploadCheckpoint(round[i].next) \in CheckpointRequest
  BY <1>2 DEF UploadCheckpoint, CheckpointRequest
<1>6. UploadStaging(round[i].next.tree, round[i].bundle) \in StagingRequest
  BY <1>2 DEF UploadStaging, StagingRequest
<1>7. \A u \in round[i].todo : UploadTile(u) \in TileRequest
  BY <1>3 DEF UploadTile, TileRequest
<1>8. QED
  BY <1>4, <1>5, <1>6, <1>7 DEF Request

LEMMA LeavesType ==
    ASSUME NEW n \in Nat, NEW certs \in [1 .. n -> Cert], NEW first \in Nat, NEW t \in Nat
    PROVE  /\ certs \in Seq(Cert) /\ Len(certs) = n
           /\ Leaves(certs, first, t) \in Seq(Leaf)
           /\ Len(Leaves(certs, first, t)) = n
           /\ \A j \in 1 .. n : Leaves(certs, first, t)[j] = AsLogEntry(certs, j, first, t)
<1>1. certs \in Seq(Cert) /\ Len(certs) = n
  OBVIOUS
<1>2. \A j \in 1 .. n : AsLogEntry(certs, j, first, t) \in Leaf
  BY DEF AsLogEntry, Leaf
<1>3. Leaves(certs, first, t) = [j \in 1 .. n |-> AsLogEntry(certs, j, first, t)]
  BY <1>1 DEF Leaves
<1>4. [j \in 1 .. n |-> AsLogEntry(certs, j, first, t)] \in [1 .. n -> Leaf]
  BY <1>2
<1> HIDE DEF AsLogEntry, Leaf
<1>5. QED
  BY <1>1, <1>3, <1>4

(* A bundle is made of tiles of the new tree.                              *)
LEMMA BundleType ==
    ASSUME NEW old \in Nat, NEW c \in Seq(Leaf)
    PROVE  Bundle(old, c) \in SUBSET Upload /\ TilesFrom(Bundle(old, c), c)
<1> SUFFICES ASSUME NEW u \in Bundle(old, c)
             PROVE  u \in Upload /\ u.key \in TilesOf(Len(c)) /\ u.data = Content(u.key, c)
  BY DEF TilesFrom
<1>1. PICK t \in NewTiles(old, Len(c)) : u = [key |-> t, data |-> Content(t, c)]
  BY DEF Bundle
<1>2. t \in TilesOf(Len(c))
  BY NewTilesOnly
<1>3. t \in Tile /\ From(t) \in Nat /\ Upto(t) \in Nat /\ Upto(t) <= Len(c)
  BY <1>2, TilesOfBound
<1>4. Content(t, c) \in Seq(Leaf)
  BY <1>3, ContentType
<1>5. QED
  BY <1>1, <1>2, <1>3, <1>4 DEF Upload

(* Every step of an instance, and every request that lands late, keeps the *)
(* types.                                                                  *)
LEMMA TypeStep ==
    ASSUME TypeOK, [Next]_vars
    PROVE  TypeOK'
<1> DEFINE Typed == /\ StoreType'
                    /\ inflight' \subseteq Request
                    /\ pc' \in [Instances -> Steps]
                    /\ log' \in [Instances -> LogState]
                    /\ round' \in [Instances -> RoundState]
                    /\ scts' \subseteq Leaf
<1> SUFFICES Typed
  BY DEF TypeOK, Steps
<1> USE DEF Steps, Creating, Loading, Sequencing
<1>0. /\ StoreType /\ inflight \subseteq Request /\ scts \subseteq Leaf
      /\ log \in [Instances -> LogState] /\ round \in [Instances -> RoundState]
      /\ pc \in [Instances -> Steps]
  BY DEF TypeOK
<1>1. ASSUME UNCHANGED store
      PROVE  StoreType'
  BY <1>0, <1>1 DEF store, StoreType
<1>2. ASSUME NEW i \in Instances, CreateCheck(i)
      PROVE  Typed
  <2>1. PICK t \in Times : GoTo(i, "create", [NoRound EXCEPT !.next = [tree |-> <<>>, time |-> t]])
    BY <1>2 DEF CreateCheck
  <2>2. [tree |-> <<>>, time |-> t] \in Checkpoint
    BY SequencerAssumption DEF Checkpoint, Times
  <2>3. [NoRound EXCEPT !.next = [tree |-> <<>>, time |-> t]] \in RoundState
    BY <2>2, EmptyTypes, RoundUpdate
  <2>4. QED
    BY <1>0, <1>1, <1>2, <2>1, <2>3, GoToType DEF CreateCheck
<1>3. ASSUME NEW i \in Instances, CreateLock(i)
      PROVE  Typed
  BY <1>0, <1>3, IssuedType, RequestType, GoToType DEF CreateLock
<1>4. ASSUME NEW i \in Instances, CreateLockErr(i)
      PROVE  Typed
  BY <1>0, <1>4, IssuedType, RequestType, StopType DEF CreateLockErr
<1>5. ASSUME NEW i \in Instances, CreatePub(i)
      PROVE  Typed
  BY <1>0, <1>5, IssuedType, RequestType, StopType DEF CreatePub
<1>6. ASSUME NEW i \in Instances, CreatePubErr(i)
      PROVE  Typed
  BY <1>0, <1>6, IssuedType, RequestType, StopType DEF CreatePubErr
<1>7. ASSUME NEW i \in Instances, LoadLock(i)
      PROVE  Typed
  <2>1. [tree |-> lock, lockCheckpoint |-> lock, edgeTiles |-> <<>>] \in LogState
    BY <1>0, <1>7 DEF LoadLock, StoreType, LogState
  <2>2. log' \in [Instances -> LogState]
    BY <1>0, <1>7, <2>1 DEF LoadLock
  <2>3. QED
    BY <1>0, <1>1, <1>7, <2>2, EmptyTypes, GoToType DEF LoadLock
<1>8. ASSUME NEW i \in Instances, LoadPub(i)
      PROVE  Typed
  <2>1. CASE Stop(i)
    BY <1>0, <1>1, <1>8, <2>1, StopType DEF LoadPub
  <2>2. CASE UNCHANGED log /\ (GoTo(i, "loadEdge", NoRound) \/ GoTo(i, "recover", NoRound))
    BY <1>0, <1>1, <1>8, <2>2, EmptyTypes, GoToType DEF LoadPub
  <2>3. QED
    BY <1>8, <2>1, <2>2 DEF LoadPub
<1>9. ASSUME NEW i \in Instances, LoadPubMissing(i)
      PROVE  Typed
  BY <1>0, <1>1, <1>9, StopType DEF LoadPubMissing
<1>10. ASSUME NEW i \in Instances, Recover(i)
       PROVE  Typed
  <2>1. CASE log[i].tree.tree \notin DOMAIN staging
    BY <1>0, <1>1, <1>10, <2>1, StopType DEF Recover
  <2>2. CASE log[i].tree.tree \in DOMAIN staging
    <3>1. staging[log[i].tree.tree] \in SUBSET Upload
      BY <1>0, <2>2 DEF StoreType
    <3>2. [NoRound EXCEPT !.todo = staging[log[i].tree.tree]] \in RoundState
      BY <3>1, EmptyTypes, RoundUpdate
    <3>3. QED
      BY <1>0, <1>1, <1>10, <2>2, <3>2, GoToType DEF Recover
  <2>3. QED
    BY <2>1, <2>2
<1>11. ASSUME NEW i \in Instances, LoadEdge(i)
       PROVE  Typed
  <2>1. CASE Stop(i)
    BY <1>0, <1>1, <1>11, <2>1, StopType DEF LoadEdge
  <2>2. CASE GoTo(i, "idle", NoRound) /\ log' = [log EXCEPT ![i].edgeTiles = log[i].tree.tree]
    <3>1. [log[i] EXCEPT !.edgeTiles = log[i].tree.tree] \in LogState
      BY <1>0 DEF LogState, Checkpoint
    <3>2. log' \in [Instances -> LogState]
      BY <1>0, <2>2, <3>1
    <3>3. QED
      BY <1>0, <1>1, <1>11, <2>2, <3>2, EmptyTypes, GoToType DEF LoadEdge
  <2>3. QED
    BY <1>11, <2>1, <2>2 DEF LoadEdge
<1>12. ASSUME NEW i \in Instances, ApplyTile(i)
       PROVE  Typed
  <2>1. PICK u \in round[i].todo :
           Succeeds(UploadTile(u)) /\ GoTo(i, pc[i], [round[i] EXCEPT !.todo = @ \ {u}])
    BY <1>12 DEF ApplyTile
  <2>2. round[i] \in RoundState /\ round[i].todo \ {u} \in SUBSET Upload
    BY <1>0 DEF RoundState
  <2>3. [round[i] EXCEPT !.todo = @ \ {u}] \in RoundState
    BY <2>2, RoundUpdate
  <2>4. pc[i] \in Steps
    BY <1>0
  <2>5. StoreType' /\ inflight' \subseteq Request
    BY <1>0, <2>1, IssuedType, RequestType
  <2>6. QED
    BY <1>0, <1>12, <2>1, <2>3, <2>4, <2>5, GoToType DEF ApplyTile
<1>13. ASSUME NEW i \in Instances, ApplyErr(i)
       PROVE  Typed
  <2>1. inflight' \subseteq Request
    BY <1>0, <1>13, IssuedType DEF ApplyErr
  <2>2. QED
    BY <1>0, <1>1, <1>13, <2>1, StopType DEF ApplyErr
<1>14. ASSUME NEW i \in Instances, ApplyDone(i)
       PROVE  Typed
  <2>1. round[i] \in RoundState
    BY <1>0
  <2>2. QED
    BY <1>0, <1>1, <1>14, <2>1, GoToType DEF ApplyDone
<1>15. ASSUME NEW i \in Instances, StartRound(i)
       PROVE  Typed
  <2> DEFINE size == Len(log[i].tree.tree)
             Tree(certs, t) == log[i].edgeTiles \o Leaves(certs, size, t)
  <2>1. PICK t \in Times, n \in 0 .. PoolSize : \E certs \in [1 .. n -> Cert] :
           GoTo(i, "stage", [NoRound EXCEPT !.pendingLeaves = certs,
                                            !.next = [tree |-> Tree(certs, t), time |-> t],
                                            !.bundle = Bundle(size, Tree(certs, t))])
    BY <1>15 DEF StartRound, BeginRound
  <2>2. PICK certs \in [1 .. n -> Cert] :
           GoTo(i, "stage", [NoRound EXCEPT !.pendingLeaves = certs,
                                            !.next = [tree |-> Tree(certs, t), time |-> t],
                                            !.bundle = Bundle(size, Tree(certs, t))])
    BY <2>1
  <2>3. t \in Nat /\ n \in Nat
    BY SequencerAssumption DEF Times
  <2>4. log[i].edgeTiles \in Seq(Leaf) /\ size \in Nat
    BY <1>0 DEF LogState, Checkpoint
  <2>5. certs \in Seq(Cert) /\ Leaves(certs, size, t) \in Seq(Leaf)
    BY <2>3, <2>4, LeavesType
  <2>6. Tree(certs, t) \in Seq(Leaf)
    BY <2>4, <2>5
  <2>7. Bundle(size, Tree(certs, t)) \in SUBSET Upload
    BY <2>4, <2>6, BundleType
  <2>8. [tree |-> Tree(certs, t), time |-> t] \in Checkpoint
    BY <2>3, <2>6 DEF Checkpoint
  <2> HIDE DEF Tree, size
  <2>9. [NoRound EXCEPT !.pendingLeaves = certs,
                        !.next = [tree |-> Tree(certs, t), time |-> t],
                        !.bundle = Bundle(size, Tree(certs, t))] \in RoundState
    BY <2>5, <2>7, <2>8, EmptyTypes DEF RoundState
  <2>10. QED
    BY <1>0, <1>1, <1>15, <2>2, <2>9, GoToType DEF StartRound, BeginRound
<1>16. ASSUME NEW i \in Instances, TimeStuck(i)
       PROVE  Typed
  BY <1>0, <1>1, <1>16, StopType DEF TimeStuck
<1>17. ASSUME NEW i \in Instances, Stage(i)
       PROVE  Typed
  BY <1>0, <1>17, IssuedType, RequestType, GoToType DEF Stage
<1>18. ASSUME NEW i \in Instances, StageErr(i)
       PROVE  Typed
  BY <1>0, <1>18, IssuedType, RequestType, EndRoundType DEF StageErr
<1>19. ASSUME NEW i \in Instances, Commit(i)
       PROVE  Typed
  <2> DEFINE next == round[i].next
             r == [round[i] EXCEPT !.timestamp = next.time,
                                   !.firstLeafIndex = Len(log[i].tree.tree),
                                   !.todo = round[i].bundle]
             l == [tree |-> next, lockCheckpoint |-> next, edgeTiles |-> next.tree]
  <2>1. round[i] \in RoundState /\ log[i] \in LogState
    BY <1>0
  <2>2. r \in RoundState /\ l \in LogState
    <3>1. next \in Checkpoint /\ next.time \in Nat /\ next.tree \in Seq(Leaf)
            /\ Len(log[i].tree.tree) \in Nat /\ round[i].bundle \in SUBSET Upload
      BY <2>1 DEF RoundState, LogState, Checkpoint
    <3>2. l \in LogState
      BY <3>1 DEF LogState
    <3>3. \A a, b \in Nat, u \in SUBSET Upload :
             [round[i] EXCEPT !.timestamp = a, !.firstLeafIndex = b, !.todo = u] \in RoundState
      BY <2>1 DEF RoundState
    <3>4. QED
      BY <3>1, <3>2, <3>3
  <2>3. log' \in [Instances -> LogState]
    BY <1>0, <1>19, <2>2 DEF Commit, Serialized
  <2>4. StoreType' /\ inflight' \subseteq Request
    BY <1>0, <1>19, IssuedType, RequestType DEF Commit, Serialized
  <2>5. GoTo(i, "apply", r)
    BY <1>19 DEF Commit, Serialized
  <2>6. QED
    BY <1>0, <1>19, <2>2, <2>3, <2>4, <2>5, GoToType DEF Commit, Serialized
<1>20. ASSUME NEW i \in Instances, CommitErr(i)
       PROVE  Typed
  BY <1>0, <1>20, IssuedType, RequestType, StopType DEF CommitErr
<1>21. ASSUME NEW i \in Instances, Publish(i)
       PROVE  Typed
  BY <1>0, <1>21, IssuedType, RequestType, GoToType DEF Publish
<1>22. ASSUME NEW i \in Instances, PublishErr(i)
       PROVE  Typed
  BY <1>0, <1>22, IssuedType, RequestType, EndRoundType DEF PublishErr
<1>23. ASSUME NEW i \in Instances, Finish(i)
       PROVE  Typed
  <2>1. round[i] \in RoundState
    BY <1>0
  <2>2. \A j \in 1 .. Len(round[i].pendingLeaves) :
           AsLogEntry(round[i].pendingLeaves, j, round[i].firstLeafIndex, round[i].timestamp) \in Leaf
    BY <2>1 DEF RoundState, AsLogEntry, Leaf
  <2>3. scts' \subseteq Leaf
    BY <1>0, <1>23, <2>2 DEF Finish
  <2>4. QED
    BY <1>0, <1>1, <1>23, <2>3, EndRoundType DEF Finish
<1>24. ASSUME NEW i \in Instances, Crash(i)
       PROVE  Typed
  BY <1>0, <1>1, <1>24, StopType DEF Crash
<1>25. ASSUME Land
       PROVE  Typed
  BY <1>0, <1>25, EffectType DEF Land
<1>26. ASSUME UNCHANGED vars
       PROVE  Typed
  BY <1>0, <1>26 DEF vars, StoreType
<1>27. QED
  BY <1>2, <1>3, <1>4, <1>5, <1>6, <1>7, <1>8, <1>9, <1>10, <1>11, <1>12, <1>13, <1>14, <1>15,
     <1>16, <1>17, <1>18, <1>19, <1>20, <1>21, <1>22, <1>23, <1>24, <1>25, <1>26
     DEF Next, Create, Progress, Fault

(* Type correctness: in every reachable state the two stores, the Log of   *)
(* every instance and the locals of CreateLog, LoadLog and sequencePool    *)
(* have the shape the code gives them.                                     *)
THEOREM TypeCorrect == Spec => []TypeOK
<1>1. Init => TypeOK
  <2> SUFFICES ASSUME Init PROVE TypeOK
    OBVIOUS
  <2>1. StoreType
    BY DEF Init, StoreType
  <2>2. QED
    BY <2>1, EmptyTypes DEF Init, TypeOK
<1>2. TypeOK /\ [Next]_vars => TypeOK'
  BY TypeStep
<1>3. QED
  BY <1>1, <1>2, PTL DEF Spec

-----------------------------------------------------------------------------
(* The stores are only ever extended.                                      *)

\* What every step does to the stores, seen from outside.
Extended ==
    /\ lock # None => lock' # None /\ IsPrefix(lock.tree, lock'.tree) /\ lock.time <= lock'.time
    /\ (lock # None /\ lock' # lock) => lock.time < lock'.time
    /\ \A t \in DOMAIN tiles : t \in DOMAIN tiles' /\ tiles'[t] = tiles[t]
    /\ DOMAIN staging \subseteq DOMAIN staging'
    /\ pub # None => pub' # None

LEMMA LockType ==
    ASSUME TypeOK, lock # None
    PROVE  lock \in Checkpoint /\ lock.tree \in Seq(Leaf) /\ lock.time \in Nat
BY DEF TypeOK, StoreType, Checkpoint

LEMMA TileNat ==
    ASSUME NEW t \in Tile
    PROVE  From(t) \in Nat /\ Upto(t) \in Nat
<1>1. t.N \in Nat /\ t.W \in Nat /\ TileWidth \in Nat /\ t.L \in Levels \cup {-1}
  BY TilesAssumption DEF Tile
<1>2. Span(Layout(t.L)) \in Nat
  BY <1>1, SpanPositive
<1>3. t.N * TileWidth \in Nat /\ t.N * TileWidth + t.W \in Nat
  BY <1>1
<1>4. QED
  BY <1>2, <1>3 DEF From, Upto

(* What was committed stays committed.                                     *)
LEMMA CommittedPersists ==
    ASSUME TypeOK, TypeOK', Extended, NEW c \in Checkpoint, Committed(c)
    PROVE  Committed(c)'
<1>1. lock \in Checkpoint /\ lock.tree \in Seq(Leaf) /\ lock.time \in Nat
  BY LockType DEF Committed
<1>2. lock' # None /\ IsPrefix(lock.tree, lock'.tree) /\ lock.time <= lock'.time
  BY DEF Committed, Extended
<1>3. lock' \in Checkpoint /\ lock'.tree \in Seq(Leaf) /\ lock'.time \in Nat
  BY <1>2 DEF TypeOK, StoreType, Checkpoint
<1>4. c.tree \in Seq(Leaf) /\ c.time \in Nat
  BY DEF Checkpoint
<1>5. IsPrefix(c.tree, lock'.tree)
  BY <1>1, <1>2, <1>3, <1>4, PrefixTransitive DEF Committed
<1>6. c.time <= lock'.time
  BY <1>1, <1>2, <1>3, <1>4 DEF Committed
<1>7. QED
  BY <1>2, <1>5, <1>6 DEF Committed

(* What was stored stays stored.                                           *)
LEMMA StoredPersists ==
    ASSUME Extended, NEW c
    PROVE  /\ Complete(c) => Complete(c)'
           /\ \A u : Restores(u, c) => Restores(u, c)'
<1>1. \A t : Stored(t, c) => Stored(t, c)'
  BY DEF Extended, Stored
<1>2. Complete(c) <=> \A t \in TilesOf(Len(c)) : Stored(t, c)
  BY DEF Complete, Stored
<1>3. Complete(c)' <=> \A t \in TilesOf(Len(c)) : Stored(t, c)'
  BY DEF Complete, Stored
<1>4. ASSUME NEW u, Restores(u, c)
      PROVE  Restores(u, c)'
  BY <1>1, <1>4 DEF Restores, TilesFrom, Covers
<1>5. QED
  BY <1>1, <1>2, <1>3, <1>4

(* A tile that agrees with the lock's tree agrees with the longer one.     *)
LEMMA SoundPersists ==
    ASSUME TypeOK, TypeOK', Extended, lock # None, NEW t \in Tile, Upto(t) <= Len(lock.tree)
    PROVE  /\ lock' # None
           /\ Upto(t) <= Len(lock'.tree)
           /\ Content(t, lock'.tree) = Content(t, lock.tree)
<1>1. lock' # None /\ IsPrefix(lock.tree, lock'.tree)
  BY DEF Extended
<1>2. lock.tree \in Seq(Leaf) /\ lock'.tree \in Seq(Leaf)
  BY <1>1, LockType DEF TypeOK, StoreType, Checkpoint
<1>3. From(t) \in Nat /\ Upto(t) \in Nat
  BY TileNat
<1>4. Len(lock.tree) <= Len(lock'.tree)
  BY <1>1, <1>2, PrefixDef
<1>5. Content(t, lock.tree) = Content(t, lock'.tree)
  BY <1>1, <1>2, <1>3, ContentStable
<1>6. QED
  BY <1>1, <1>2, <1>3, <1>4, <1>5

(* A request that is harmless now stays harmless.                          *)
LEMMA RequestPersists ==
    ASSUME TypeOK, TypeOK', Extended, NEW r \in Request, RequestOK(r)
    PROVE  RequestOK(r)'
<1>1. r.op = "replace" => ReplaceOK(r.old, r.new)'
  BY DEF RequestOK, ReplaceOK, Extended
<1>2. r.op = "staging" => Restores(r.bundle, r.path)'
  BY StoredPersists DEF RequestOK
<1>3. ASSUME r.op = "tile"
      PROVE  lock' # None /\ Upto(r.key) <= Len(lock'.tree) /\ r.data = Content(r.key, lock'.tree)
  <2>1. r.key \in Tile
    BY <1>3 DEF Request, ReplaceRequest, StagingRequest, TileRequest, CheckpointRequest
  <2>2. lock # None /\ Upto(r.key) <= Len(lock.tree) /\ r.data = Content(r.key, lock.tree)
    BY <1>3 DEF RequestOK
  <2>3. QED
    BY <2>1, <2>2, SoundPersists
<1>4. ASSUME r.op = "checkpoint"
      PROVE  Committed(r.new)' /\ Complete(r.new.tree)' /\ WellTimed(r.new)
  <2>1. r.new \in Checkpoint
    BY <1>4 DEF Request, ReplaceRequest, StagingRequest, TileRequest, CheckpointRequest
  <2>2. QED
    BY <1>4, <2>1, CommittedPersists, StoredPersists DEF RequestOK
<1>5. QED
  BY <1>1, <1>2, <1>3, <1>4 DEF RequestOK

(* An instance that does not move keeps what it knows.                     *)
LEMMA InstancePersists ==
    ASSUME TypeOK, TypeOK', Extended, NEW j \in Instances, InstanceInv(j),
           pc'[j] = pc[j], log'[j] = log[j], round'[j] = round[j]
    PROVE  InstanceInv(j)'
<1>1. log[j] \in LogState /\ round[j] \in RoundState
  BY DEF TypeOK
<1>2. PICK l \in LogState, r \in RoundState : l = log[j] /\ r = round[j]
  BY <1>1
<1>3. l.tree \in Checkpoint /\ r.next \in Checkpoint
  BY DEF LogState, RoundState
<1>4. /\ Committed(l.tree) => Committed(l.tree)'
      /\ Committed(r.next) => Committed(r.next)'
  BY <1>3, CommittedPersists
<1>5. /\ Complete(l.tree.tree) => Complete(l.tree.tree)'
      /\ Restores(r.todo, l.tree.tree) => Restores(r.todo, l.tree.tree)'
      /\ Restores(r.bundle, r.next.tree) => Restores(r.bundle, r.next.tree)'
  BY StoredPersists
<1>6. DOMAIN staging \subseteq DOMAIN staging' /\ (pub # None => pub' # None)
  BY DEF Extended
<1>7. /\ Committed(l.tree)' = Committed(log[j].tree)'
      /\ Committed(r.next)' = Committed(round[j].next)'
  BY <1>2 DEF Committed
<1>8. /\ Complete(l.tree.tree)' = Complete(log[j].tree.tree)'
      /\ Restores(r.todo, l.tree.tree)' = Restores(round[j].todo, log[j].tree.tree)'
      /\ Restores(r.bundle, r.next.tree)' = Restores(round[j].bundle, round[j].next.tree)'
  BY <1>2 DEF Complete, Restores, TilesFrom, Covers, Stored
<1>9. RoundInv(j) => RoundInv(j)'
  BY <1>2, <1>5, <1>8 DEF RoundInv
<1>10. ResultInv(j) => ResultInv(j)'
  BY <1>2 DEF ResultInv
<1>11. QED
  BY <1>2, <1>4, <1>5, <1>6, <1>7, <1>8, <1>9, <1>10 DEF InstanceInv

-----------------------------------------------------------------------------
(* A harmless request that takes effect extends the stores.                *)

LEMMA NoneNotCheckpoint == \A c \in Checkpoint : c # None
BY SequencerAssumption

(* What is left of StoreInv once the abandoned requests are set aside.     *)
ObjectsInv == LockInv /\ PubInv /\ TilesInv /\ StagingInv /\ SCTsHonoured

(* A lock that does not change.                                            *)
LEMMA SameLock ==
    ASSUME TypeOK, UNCHANGED lock
    PROVE  lock # None => lock' # None /\ IsPrefix(lock.tree, lock'.tree) /\ lock.time <= lock'.time
<1> SUFFICES ASSUME lock # None PROVE IsPrefix(lock.tree, lock.tree) /\ lock.time <= lock.time
  OBVIOUS
<1>1. lock.tree \in Seq(Leaf) /\ lock.time \in Nat
  BY LockType
<1>2. QED
  BY <1>1, PrefixReflexive

(* Leaves numbered on from the last one, and stamped with a later time,    *)
(* keep a tree well timed.                                                 *)
LEMMA WellTimedExtend ==
    ASSUME NEW p \in Seq(Leaf), NEW q \in Seq(Leaf), NEW a \in Nat, NEW b \in Nat, a <= b,
           WellTimed([tree |-> p, time |-> a]),
           IsPrefix(p, q),
           \A j \in (Len(p) + 1) .. Len(q) : q[j].idx = j - 1 /\ q[j].ts = b
    PROVE  WellTimed([tree |-> q, time |-> b])
<1>1. Len(p) \in Nat /\ Len(q) \in Nat /\ Len(p) <= Len(q) /\ \A j \in 1 .. Len(p) : p[j] = q[j]
  BY PrefixDef
<1>2. \A j \in 1 .. Len(q) : q[j].ts \in Nat
  <2>1. \A j \in 1 .. Len(q) : q[j] \in Leaf
    OBVIOUS
  <2>2. \A x \in Leaf : x.ts \in Nat
    BY DEF Leaf
  <2>3. QED
    BY <2>1, <2>2
<1>3. \A j \in 1 .. Len(p) : /\ p[j].idx = j - 1
                             /\ p[j].ts <= a
                             /\ \A k \in 1 .. j : p[k].ts <= p[j].ts
  BY DEF WellTimed
<1>4. \A j \in 1 .. Len(p) : /\ q[j].idx = j - 1
                             /\ q[j].ts <= a
                             /\ \A k \in 1 .. j : q[k].ts <= q[j].ts
  <2> SUFFICES ASSUME NEW j \in 1 .. Len(p)
               PROVE  /\ q[j].idx = j - 1
                      /\ q[j].ts <= a
                      /\ \A k \in 1 .. j : q[k].ts <= q[j].ts
    OBVIOUS
  <2>1. \A k \in 1 .. j : k \in 1 .. Len(p)
    BY <1>1
  <2>2. QED
    BY <1>1, <1>3, <2>1
<1>5. ASSUME NEW j \in 1 .. Len(q)
      PROVE  /\ q[j].idx = j - 1
             /\ q[j].ts <= b
             /\ \A k \in 1 .. j : q[k].ts <= q[j].ts
  <2>1. CASE j <= Len(p)
    <3>1. j \in 1 .. Len(p) /\ q[j].ts \in Nat
      BY <1>1, <1>2, <2>1
    <3>2. QED
      BY <1>4, <3>1
  <2>2. CASE j > Len(p)
    <3>1. j \in (Len(p) + 1) .. Len(q)
      BY <1>1, <2>2
    <3>2. q[j].idx = j - 1 /\ q[j].ts = b
      BY <3>1
    <3>3. ASSUME NEW k \in 1 .. j
          PROVE  q[k].ts <= b
      <4>1. k \in 1 .. Len(p) \/ k \in (Len(p) + 1) .. Len(q)
        BY <1>1
      <4>2. k \in 1 .. Len(q)
        BY <1>1
      <4>3. q[k].ts \in Nat
        BY <1>2, <4>2
      <4>4. QED
        BY <1>4, <4>1, <4>3
    <3>4. QED
      BY <3>2, <3>3
  <2>3. QED
    BY <1>1, <2>1, <2>2
<1>6. QED
  BY <1>5 DEF WellTimed

(* A successor of a well-timed checkpoint is well timed.                   *)
LEMMA SuccessorWellTimed ==
    ASSUME NEW c \in Checkpoint, NEW d \in Checkpoint, Successor(c, d), WellTimed(c)
    PROVE  WellTimed(d)
<1>1. PICK p \in Seq(Leaf), a \in Nat, q \in Seq(Leaf), b \in Nat :
        c = [tree |-> p, time |-> a] /\ d = [tree |-> q, time |-> b]
  BY DEF Checkpoint
<1>2. a <= b /\ IsPrefix(p, q) /\ \A j \in (Len(p) + 1) .. Len(q) : q[j].idx = j - 1 /\ q[j].ts = b
  BY <1>1 DEF Successor
<1>3. QED
  BY <1>1, <1>2, WellTimedExtend

LEMMA ReplaceEffect ==
    ASSUME TypeOK, TypeOK', StoreInv, NEW r \in Request, r.op = "replace",
           RequestOK(r), Effect(r), UNCHANGED scts
    PROVE  Extended /\ ObjectsInv'
<1>0. /\ lock' = IF lock = r.old THEN r.new ELSE lock
      /\ UNCHANGED <<pub, staging, tiles>>
  BY DEF Effect
<1>1. r.new \in Checkpoint /\ r.old \in Checkpoint \cup {None}
  BY DEF Request, ReplaceRequest, StagingRequest, TileRequest, CheckpointRequest
<1>2. r.new # None /\ r.new.tree \in Seq(Leaf) /\ r.new.time \in Nat
  BY <1>1, NoneNotCheckpoint DEF Checkpoint
<1>3. CASE lock # r.old
  <2>1. UNCHANGED <<lock, pub, staging, tiles, scts>>
    BY <1>0, <1>3
  <2>2. Extended
    BY <2>1, SameLock DEF Extended
  <2>3. ObjectsInv'
    BY <2>1 DEF StoreInv, ObjectsInv, LockInv, PubInv, TilesInv, StagingInv, SCTsHonoured,
                Committed, Complete, Restores, TilesFrom, Covers, Stored
  <2>4. QED
    BY <2>2, <2>3
<1>4. CASE lock = r.old /\ lock = None
  <2>1. lock' = r.new /\ r.new.tree = <<>>
    BY <1>0, <1>4 DEF RequestOK, ReplaceOK
  <2>2. Extended
    BY <1>0, <1>4 DEF Extended
  <2>3. pub = None /\ scts = {} /\ DOMAIN tiles = {}
    BY <1>4 DEF StoreInv, PubInv, TilesInv, SCTsHonoured, Committed
  <2>4. LockInv'
    <3>1. WellTimed(r.new)
      BY <2>1 DEF WellTimed
    <3>2. QED
      BY <2>1, <3>1 DEF LockInv
  <2>5. StagingInv'
    BY <1>0 DEF StoreInv, StagingInv, Restores, TilesFrom, Covers, Stored
  <2>6. PubInv' /\ TilesInv' /\ SCTsHonoured'
    BY <1>0, <2>3 DEF PubInv, TilesInv, SCTsHonoured
  <2>7. QED
    BY <2>2, <2>4, <2>5, <2>6 DEF ObjectsInv
<1>5. CASE lock = r.old /\ lock # None
  <2>1. lock' = r.new
    BY <1>0, <1>5
  <2>2. Successor(lock, r.new) /\ r.new.tree \in DOMAIN staging
    BY <1>5 DEF RequestOK, ReplaceOK
  <2>3. lock.tree \in Seq(Leaf) /\ lock.time \in Nat
    BY <1>5, LockType
  <2>4. Extended
    BY <1>0, <1>2, <2>1, <2>2, <2>3 DEF Extended, Successor
  <2>5. LockInv'
    <3>1. WellTimed(r.new)
      BY <1>1, <1>5, <2>2, LockType, SuccessorWellTimed DEF StoreInv, LockInv
    <3>2. QED
      BY <1>0, <2>1, <2>2, <3>1 DEF LockInv
  <2>6. PubInv'
    <3>1. CASE pub = None
      BY <1>0, <3>1 DEF PubInv
    <3>2. CASE pub # None
      <4>1. PICK p \in Checkpoint : p = pub
        BY <3>2 DEF TypeOK, StoreType
      <4>2. Committed(p) /\ Complete(p.tree) /\ WellTimed(p)
        BY <3>2, <4>1 DEF StoreInv, PubInv
      <4>3. Committed(p)' /\ Complete(p.tree)'
        BY <2>4, <4>2, CommittedPersists, StoredPersists
      <4>4. QED
        BY <1>0, <4>1, <4>2, <4>3 DEF PubInv, Committed, Complete
    <3>3. QED
      BY <3>1, <3>2
  <2>7. TilesInv'
    <3> SUFFICES ASSUME NEW t \in DOMAIN tiles
                 PROVE  /\ lock' # None
                        /\ Upto(t) <= Len(lock'.tree)
                        /\ tiles[t] = Content(t, lock'.tree)
      BY <1>0 DEF TilesInv
    <3>1. t \in Tile /\ Upto(t) <= Len(lock.tree) /\ tiles[t] = Content(t, lock.tree)
      BY DEF StoreInv, TilesInv, TypeOK, StoreType
    <3>2. QED
      BY <1>5, <2>4, <3>1, SoundPersists
  <2>8. StagingInv'
    BY <1>0 DEF StoreInv, StagingInv, Restores, TilesFrom, Covers, Stored
  <2>9. SCTsHonoured'
    <3> SUFFICES ASSUME NEW s \in scts
                 PROVE  s.idx < Len(lock'.tree) /\ lock'.tree[s.idx + 1] = s
      BY <1>2, <2>1 DEF SCTsHonoured
    <3>1. s \in Leaf /\ s.idx < Len(lock.tree) /\ lock.tree[s.idx + 1] = s
      BY DEF StoreInv, SCTsHonoured, TypeOK
    <3>2. s.idx \in Nat
      BY <3>1 DEF Leaf
    <3>3. Len(lock.tree) <= Len(lock'.tree) /\ \A k \in 1 .. Len(lock.tree) : lock.tree[k] = lock'.tree[k]
      BY <1>2, <2>1, <2>2, <2>3, PrefixDef DEF Successor
    <3>4. s.idx + 1 \in 1 .. Len(lock.tree) /\ Len(lock'.tree) \in Nat
      BY <1>2, <2>1, <2>3, <3>1, <3>2
    <3>5. QED
      BY <2>3, <3>1, <3>2, <3>3, <3>4
  <2>10. QED
    BY <2>4, <2>5, <2>6, <2>7, <2>8, <2>9 DEF ObjectsInv
<1>6. QED
  BY <1>3, <1>4, <1>5

(* A bundle that lands in staging, perhaps over another one for the same   *)
(* tree, leaves every tree restorable.                                     *)
LEMMA StagingEffect ==
    ASSUME TypeOK, TypeOK', StoreInv, NEW r \in Request, r.op = "staging",
           RequestOK(r), Effect(r), UNCHANGED scts
    PROVE  Extended /\ ObjectsInv'
<1>0. staging' = Put(staging, r.path, r.bundle) /\ UNCHANGED <<lock, pub, tiles>>
  BY DEF Effect
<1>1. DOMAIN staging' = DOMAIN staging \cup {r.path}
  BY <1>0 DEF Put
<1>2. Extended
  BY <1>0, <1>1, SameLock DEF Extended
<1>3. StagingInv'
  <2> SUFFICES ASSUME NEW c \in DOMAIN staging'
               PROVE  Restores(staging[c], c)'
    BY DEF StagingInv
  <2>1. CASE c = r.path
    <3>1. staging'[c] = r.bundle
      BY <1>0, <2>1 DEF Put
    <3>2. Restores(r.bundle, c)
      BY <2>1 DEF RequestOK
    <3>3. QED
      BY <1>0, <3>1, <3>2 DEF Restores, TilesFrom, Covers, Stored
  <2>2. CASE c # r.path
    <3>1. c \in DOMAIN staging /\ staging'[c] = staging[c]
      BY <1>0, <1>1, <2>2 DEF Put
    <3>2. Restores(staging[c], c)
      BY <3>1 DEF StoreInv, StagingInv
    <3>3. QED
      BY <1>0, <3>1, <3>2 DEF Restores, TilesFrom, Covers, Stored
  <2>3. QED
    BY <2>1, <2>2
<1>4. LockInv'
  BY <1>0, <1>1 DEF StoreInv, LockInv
<1>5. PubInv' /\ TilesInv' /\ SCTsHonoured'
  BY <1>0 DEF StoreInv, PubInv, TilesInv, SCTsHonoured, Committed, Complete
<1>6. QED
  BY <1>2, <1>3, <1>4, <1>5 DEF ObjectsInv

(* A tile that lands is the one the lock's tree has there, so it replaces  *)
(* nothing but itself.                                                     *)
LEMMA TileEffect ==
    ASSUME TypeOK, TypeOK', StoreInv, NEW r \in Request, r.op = "tile",
           RequestOK(r), Effect(r), UNCHANGED scts
    PROVE  Extended /\ ObjectsInv'
<1>0. tiles' = Put(tiles, r.key, r.data) /\ UNCHANGED <<lock, pub, staging>>
  BY DEF Effect
<1>1. lock # None /\ Upto(r.key) <= Len(lock.tree) /\ r.data = Content(r.key, lock.tree)
  BY DEF RequestOK
<1>2. DOMAIN tiles' = DOMAIN tiles \cup {r.key} /\ tiles'[r.key] = r.data
        /\ \A t \in DOMAIN tiles : t # r.key => tiles'[t] = tiles[t]
  BY <1>0 DEF Put
<1>3. Extended
  <2>1. \A t \in DOMAIN tiles : tiles'[t] = tiles[t]
    BY <1>1, <1>2 DEF StoreInv, TilesInv
  <2>2. QED
    BY <1>0, <1>2, <2>1, SameLock DEF Extended
<1>4. TilesInv'
  BY <1>0, <1>1, <1>2 DEF StoreInv, TilesInv
<1>5. StagingInv'
  <2> SUFFICES ASSUME NEW c \in DOMAIN staging'
               PROVE  Restores(staging[c], c)'
    BY DEF StagingInv
  <2>1. PICK b : b = staging[c]
    OBVIOUS
  <2>2. Restores(b, c)
    BY <1>0, <2>1 DEF StoreInv, StagingInv
  <2>3. Restores(b, c)'
    BY <1>3, <2>2, StoredPersists
  <2>4. QED
    BY <1>0, <2>1, <2>3 DEF Restores, TilesFrom, Covers, Stored
<1>6. PubInv'
  <2>1. PICK p : p = pub
    OBVIOUS
  <2>2. pub # None => Complete(p.tree)'
    BY <1>3, <2>1, StoredPersists DEF StoreInv, PubInv
  <2>3. QED
    BY <1>0, <2>1, <2>2 DEF StoreInv, PubInv, Committed, Complete
<1>7. LockInv' /\ SCTsHonoured'
  BY <1>0 DEF StoreInv, LockInv, SCTsHonoured
<1>8. QED
  BY <1>3, <1>4, <1>5, <1>6, <1>7 DEF ObjectsInv

(* A checkpoint that is published is a committed one with all its tiles.   *)
LEMMA CheckpointEffect ==
    ASSUME TypeOK, TypeOK', StoreInv, NEW r \in Request, r.op = "checkpoint",
           RequestOK(r), Effect(r), UNCHANGED scts
    PROVE  Extended /\ ObjectsInv'
<1>0. pub' = r.new /\ UNCHANGED <<lock, staging, tiles>>
  BY DEF Effect
<1>1. Extended
  <2>1. r.new # None
    BY NoneNotCheckpoint
    DEF Request, ReplaceRequest, StagingRequest, TileRequest, CheckpointRequest
  <2>2. QED
    BY <1>0, <2>1, SameLock DEF Extended
<1>2. PubInv'
  BY <1>0 DEF RequestOK, PubInv, Committed, Complete
<1>3. LockInv' /\ TilesInv' /\ SCTsHonoured'
  BY <1>0 DEF StoreInv, LockInv, TilesInv, SCTsHonoured
<1>4. StagingInv'
  BY <1>0 DEF StoreInv, StagingInv, Restores, TilesFrom, Covers, Stored
<1>5. QED
  BY <1>1, <1>2, <1>3, <1>4 DEF ObjectsInv

(* Together: any harmless request, issued, failed, abandoned or landing.   *)
LEMMA EffectSafe ==
    ASSUME TypeOK, TypeOK', StoreInv, NEW r \in Request, RequestOK(r), Effect(r),
           inflight' \subseteq inflight \cup {r}, UNCHANGED scts
    PROVE  Extended /\ StoreInv'
<1>1. Extended /\ ObjectsInv'
  BY ReplaceEffect, StagingEffect, TileEffect, CheckpointEffect DEF Effect
<1>2. InflightInv'
  <2> SUFFICES ASSUME NEW q \in inflight' PROVE RequestOK(q)'
    BY DEF InflightInv
  <2>1. q \in Request /\ RequestOK(q)
    BY DEF StoreInv, InflightInv, TypeOK
  <2>2. QED
    BY <1>1, <2>1, RequestPersists
<1>3. QED
  BY <1>1, <1>2 DEF ObjectsInv, StoreInv

LEMMA StoresUnchanged ==
    ASSUME TypeOK, TypeOK', StoreInv, UNCHANGED store, UNCHANGED scts,
           \A r \in inflight' : r \in inflight \/ RequestOK(r)
    PROVE  Extended /\ StoreInv'
<1>0. UNCHANGED <<lock, pub, staging, tiles>>
  BY DEF store
<1>1. Extended
  BY <1>0, SameLock DEF Extended
<1>2. ObjectsInv'
  BY <1>0 DEF StoreInv, ObjectsInv, LockInv, PubInv, TilesInv, StagingInv, SCTsHonoured,
              Committed, Complete, Restores, TilesFrom, Covers, Stored
<1>3. InflightInv'
  <2> SUFFICES ASSUME NEW q \in inflight' PROVE RequestOK(q)'
    BY DEF InflightInv
  <2>1. q \in Request /\ RequestOK(q)
    BY DEF StoreInv, InflightInv, TypeOK
  <2>2. QED
    BY <1>1, <2>1, RequestPersists
<1>4. QED
  BY <1>1, <1>2, <1>3 DEF ObjectsInv, StoreInv

LEMMA RequestSafe ==
    ASSUME TypeOK, TypeOK', StoreInv, NEW r \in Request, RequestOK(r),
           Succeeds(r) \/ Fails(r), UNCHANGED scts
    PROVE  Extended /\ StoreInv'
<1>1. CASE Effect(r) /\ inflight' \subseteq inflight \cup {r}
  BY <1>1, EffectSafe
<1>2. CASE UNCHANGED <<store, inflight>>
  BY <1>2, StoresUnchanged
<1>3. CASE inflight' = inflight \cup {r} /\ UNCHANGED store
  BY <1>3, StoresUnchanged
<1>4. QED
  BY <1>1, <1>2, <1>3 DEF Succeeds, Fails, Abandon

-----------------------------------------------------------------------------
(* What a round computes.                                                  *)

(* On top of a complete tree, the bundle of a round restores the new tree: *)
(* also the empty bundle of an empty round.                                *)
LEMMA BundleRestores ==
    ASSUME NEW c \in Seq(Leaf), NEW d \in Seq(Leaf), IsPrefix(c, d), Complete(c)
    PROVE  Restores(Bundle(Len(c), d), d)
<1>1. TilesFrom(Bundle(Len(c), d), d)
  BY BundleType
<1>2. ASSUME NEW t \in TilesOf(Len(d)), t \notin NewTiles(Len(c), Len(d))
      PROVE  Stored(t, d)
  <2>1. Len(c) \in Nat /\ Len(d) \in Nat /\ Len(c) <= Len(d)
    BY PrefixDef
  <2>2. t \in TilesOf(Len(c))
    BY <1>2, <2>1, NewTilesSuffice
  <2>3. From(t) \in Nat /\ Upto(t) \in Nat /\ Upto(t) <= Len(c)
    BY <2>1, <2>2, TilesOfBound
  <2>4. Content(t, c) = Content(t, d)
    BY <2>3, ContentStable
  <2>5. QED
    BY <2>2, <2>4 DEF Complete, Stored
<1>3. Covers(Bundle(Len(c), d), d)
  BY <1>2 DEF Covers, Bundle
<1>4. QED
  BY <1>1, <1>3 DEF Restores

(* The tree of a round is a successor of the one it starts from.           *)
LEMMA RoundSuccessor ==
    ASSUME NEW p \in Seq(Leaf), NEW certs \in Seq(Cert), NEW b \in Nat
    PROVE  LET q == p \o Leaves(certs, Len(p), b)
           IN  /\ q \in Seq(Leaf)
               /\ Len(q) = Len(p) + Len(certs)
               /\ \A j \in 1 .. Len(certs) : q[Len(p) + j] = AsLogEntry(certs, j, Len(p), b)
               /\ IsPrefix(p, q)
               /\ \A j \in (Len(p) + 1) .. Len(q) : q[j].idx = j - 1 /\ q[j].ts = b
<1>1. Len(p) \in Nat /\ Len(certs) \in Nat /\ certs \in [1 .. Len(certs) -> Cert]
  OBVIOUS
<1>2. PICK n \in Seq(Leaf) :
        /\ n = Leaves(certs, Len(p), b)
        /\ Len(n) = Len(certs)
        /\ \A j \in 1 .. Len(certs) : n[j] = AsLogEntry(certs, j, Len(p), b)
  <2>1. /\ Leaves(certs, Len(p), b) \in Seq(Leaf)
        /\ Len(Leaves(certs, Len(p), b)) = Len(certs)
        /\ \A j \in 1 .. Len(certs) :
              Leaves(certs, Len(p), b)[j] = AsLogEntry(certs, j, Len(p), b)
    BY <1>1, LeavesType
  <2>2. QED
    BY <2>1
<1>3. p \o n \in Seq(Leaf)
  OBVIOUS
<1>4. PICK q \in Seq(Leaf) : q = p \o n
  BY <1>3
<1>5. Len(q) = Len(p) + Len(n) /\ \A j \in 1 .. Len(n) : q[Len(p) + j] = n[j]
  BY <1>4
<1>6. IsPrefix(p, q)
  BY <1>4, PrefixConcat
<1>7. \A j \in 1 .. Len(certs) : q[Len(p) + j] = AsLogEntry(certs, j, Len(p), b)
  BY <1>2, <1>5
<1>8. ASSUME NEW j \in (Len(p) + 1) .. Len(q)
      PROVE  q[j].idx = j - 1 /\ q[j].ts = b
  <2>1. PICK k \in 1 .. Len(certs) : j = Len(p) + k
    <3>1. j - Len(p) \in 1 .. Len(certs) /\ j = Len(p) + (j - Len(p))
      BY <1>1, <1>2, <1>5
    <3>2. QED
      BY <3>1
  <2>2. q[j] = [cert |-> certs[k], idx |-> Len(p) + k - 1, ts |-> b]
    BY <1>7, <2>1 DEF AsLogEntry
  <2>3. QED
    BY <2>1, <2>2
<1>9. QED
  BY <1>2, <1>4, <1>5, <1>6, <1>7, <1>8

(* The checkpoint a round has computed is a successor of its instance's.   *)
LEMMA NextSuccessor ==
    ASSUME NEW i \in Instances, log[i] \in LogState, round[i] \in RoundState, RoundInv(i)
    PROVE  Successor(log[i].tree, round[i].next)
<1>1. PICK c \in Checkpoint : c = log[i].tree
  BY DEF LogState
<1>2. PICK d \in Checkpoint : d = round[i].next
  BY DEF RoundState
<1>3. PICK certs \in Seq(Cert) : certs = round[i].pendingLeaves
  BY DEF RoundState
<1>4. /\ c.tree \in Seq(Leaf) /\ c.time \in Nat /\ d.time \in Nat
      /\ c = [tree |-> c.tree, time |-> c.time] /\ d = [tree |-> d.tree, time |-> d.time]
  BY DEF Checkpoint
<1>5. d.tree = c.tree \o Leaves(certs, Len(c.tree), d.time) /\ c.time < d.time
  BY <1>1, <1>2, <1>3, <1>4 DEF RoundInv
<1>6. PICK q : q = c.tree \o Leaves(certs, Len(c.tree), d.time)
  OBVIOUS
<1>7. /\ IsPrefix(c.tree, q)
      /\ \A j \in (Len(c.tree) + 1) .. Len(q) : q[j].idx = j - 1 /\ q[j].ts = d.time
  BY <1>4, <1>6, RoundSuccessor
<1>8. QED
  BY <1>1, <1>2, <1>5, <1>6, <1>7 DEF Successor

-----------------------------------------------------------------------------
(* The steps of an instance.                                               *)

\* No other instance moves.
Local(i) ==
    \A j \in Instances \ {i} : pc'[j] = pc[j] /\ log'[j] = log[j] /\ round'[j] = round[j]

LEMMA GoToLocal ==
    ASSUME TypeOK, NEW i \in Instances, NEW p, NEW l, GoTo(i, p, l),
           \/ UNCHANGED log
           \/ \E v : log' = [log EXCEPT ![i] = v]
    PROVE  Local(i) /\ pc'[i] = p /\ round'[i] = l
BY DEF TypeOK, GoTo, Local

(* What an instance knows about its tree does not depend on its step.      *)
LEMMA TreeKnown ==
    ASSUME TypeOK, TypeOK', Extended, NEW i \in Instances, InstanceInv(i),
           pc[i] \in Loading \cup Sequencing \cup {"idle"}, log'[i] = log[i]
    PROVE  /\ Committed(log[i].tree)'
           /\ WellTimed(log'[i].tree)
           /\ log'[i].lockCheckpoint = log'[i].tree
           /\ pc[i] \in Loaded => pub' # None
           /\ Complete(log[i].tree.tree) => Complete(log[i].tree.tree)'
           /\ \A u : Restores(u, log[i].tree.tree) => Restores(u, log[i].tree.tree)'
<1>1. PICK c \in Checkpoint : c = log[i].tree
  BY DEF TypeOK, LogState
<1>2. Committed(c) /\ WellTimed(c) /\ log[i].lockCheckpoint = c
  BY <1>1 DEF InstanceInv
<1>3. Committed(c)'
  BY <1>2, CommittedPersists
<1>4. /\ Complete(c.tree) => Complete(c.tree)'
      /\ \A u : Restores(u, c.tree) => Restores(u, c.tree)'
  BY StoredPersists
<1>5. Committed(c)' = Committed(log[i].tree)' /\ Complete(c.tree)' = Complete(log[i].tree.tree)'
  BY <1>1 DEF Committed, Complete
<1>6. \A u : Restores(u, c.tree)' = Restores(u, log[i].tree.tree)'
  BY <1>1 DEF Restores, TilesFrom, Covers, Stored
<1>7. pc[i] \in Loaded => pub' # None
  BY DEF InstanceInv, Extended
<1>8. QED
  BY <1>1, <1>2, <1>3, <1>4, <1>5, <1>6, <1>7

LEMMA StopInv ==
    ASSUME TypeOK, NEW i \in Instances, Stop(i)
    PROVE  InstanceInv(i)' /\ Local(i)
<1>1. GoTo(i, "down", NoRound) /\ log' = [log EXCEPT ![i] = NoLog]
  BY DEF Stop
<1>2. Local(i) /\ pc'[i] = "down"
  BY <1>1, GoToLocal
<1>3. QED
  BY <1>2 DEF InstanceInv, Creating, Loading, Loaded, Sequencing

LEMMA EndRoundInv ==
    ASSUME TypeOK, TypeOK', Extended, NEW i \in Instances, InstanceInv(i), EndRound(i),
           pc[i] \in {"stage", "publish", "finish"}
    PROVE  InstanceInv(i)' /\ Local(i)
<1>1. GoTo(i, "idle", NoRound) /\ UNCHANGED log
  BY DEF EndRound
<1>2. Local(i) /\ pc'[i] = "idle" /\ round'[i] = NoRound
  BY <1>1, GoToLocal
<1>3. Complete(log[i].tree.tree) /\ log[i].edgeTiles = log[i].tree.tree
  BY DEF InstanceInv, Sequencing
<1>4. pc[i] \in Loading \cup Sequencing \cup {"idle"} /\ log'[i] = log[i]
  BY <1>1 DEF Sequencing
<1>5. /\ Committed(log[i].tree)' /\ WellTimed(log'[i].tree)
      /\ log'[i].lockCheckpoint = log'[i].tree /\ Complete(log[i].tree.tree)'
      /\ pub' # None
  BY <1>3, <1>4, TreeKnown DEF Loaded, Sequencing
<1>6. QED
  BY <1>1, <1>2, <1>3, <1>5 DEF InstanceInv, Creating, Loading, Loaded, Sequencing

(* Every request an instance issues is harmless.                           *)
LEMMA IssuedOK ==
    ASSUME TypeOK, NEW i \in Instances, InstanceInv(i)
    PROVE  /\ pc[i] = "create" => RequestOK(Replace(None, round[i].next))
           /\ pc[i] = "createPub" => RequestOK(UploadCheckpoint(round[i].next))
           /\ pc[i] = "stage" => RequestOK(UploadStaging(round[i].next.tree, round[i].bundle))
           /\ pc[i] = "replace" => RequestOK(Replace(log[i].lockCheckpoint, round[i].next))
           /\ pc[i] = "publish" => RequestOK(UploadCheckpoint(round[i].next))
           /\ pc[i] \in {"apply", "reapply"} =>
                 \A u \in round[i].todo : RequestOK(UploadTile(u))
<1>1. log[i] \in LogState /\ round[i] \in RoundState
  BY DEF TypeOK
<1>2. log[i].tree \in Checkpoint /\ round[i].next \in Checkpoint
  BY <1>1 DEF LogState, RoundState
<1>3. ASSUME pc[i] = "create"
      PROVE  RequestOK(Replace(None, round[i].next))
  BY <1>3 DEF InstanceInv, Creating, RequestOK, Replace, ReplaceOK
<1>4. ASSUME pc[i] = "createPub"
      PROVE  RequestOK(UploadCheckpoint(round[i].next))
  <2>1. Committed(round[i].next) /\ round[i].next.tree = <<>>
    BY <1>4 DEF InstanceInv, Creating
  <2>2. WellTimed(round[i].next)
    BY <2>1 DEF WellTimed
  <2>3. TilesOf(0) = {}
    <3> SUFFICES ASSUME NEW t \in TilesOf(0) PROVE FALSE
      OBVIOUS
    <3>1. t \in Tile /\ Upto(t) \in Nat /\ Upto(t) <= 0
      BY TilesOfBound
    <3>2. QED
      BY <3>1, TilePositive
  <2>4. Complete(round[i].next.tree)
    BY <2>1, <2>3 DEF Complete
  <2>5. QED
    BY <2>1, <2>2, <2>4 DEF RequestOK, UploadCheckpoint
<1>5. ASSUME pc[i] = "stage"
      PROVE  RequestOK(UploadStaging(round[i].next.tree, round[i].bundle))
  BY <1>5 DEF InstanceInv, RoundInv, RequestOK, UploadStaging
<1>6. ASSUME pc[i] = "replace"
      PROVE  RequestOK(Replace(log[i].lockCheckpoint, round[i].next))
  <2>1. RoundInv(i) /\ round[i].next.tree \in DOMAIN staging /\ log[i].lockCheckpoint = log[i].tree
    BY <1>6 DEF InstanceInv, Sequencing
  <2>2. Successor(log[i].tree, round[i].next)
    BY <1>1, <2>1, NextSuccessor
  <2>3. log[i].tree # None
    BY <1>2, NoneNotCheckpoint
  <2>4. QED
    BY <2>1, <2>2, <2>3 DEF RequestOK, Replace, ReplaceOK
<1>7. ASSUME pc[i] = "publish"
      PROVE  RequestOK(UploadCheckpoint(round[i].next))
  BY <1>7 DEF InstanceInv, ResultInv, Sequencing, RequestOK, UploadCheckpoint
<1>8. ASSUME pc[i] \in {"apply", "reapply"}, NEW u \in round[i].todo
      PROVE  RequestOK(UploadTile(u))
  <2> DEFINE c == log[i].tree.tree
  <2>1. Committed(log[i].tree) /\ TilesFrom(round[i].todo, c)
    BY <1>8 DEF InstanceInv, Sequencing, Loading, Restores
  <2>2. u.key \in TilesOf(Len(c)) /\ u.data = Content(u.key, c)
    BY <2>1 DEF TilesFrom
  <2>3. lock # None /\ IsPrefix(c, lock.tree) /\ c \in Seq(Leaf) /\ lock.tree \in Seq(Leaf)
    BY <1>2, <2>1, LockType DEF Committed, Checkpoint
  <2>4. Len(c) \in Nat /\ Len(lock.tree) \in Nat /\ Len(c) <= Len(lock.tree)
    BY <2>3, PrefixDef
  <2>5. From(u.key) \in Nat /\ Upto(u.key) \in Nat /\ Upto(u.key) <= Len(c)
    BY <2>2, <2>4, TilesOfBound
  <2>6. Content(u.key, c) = Content(u.key, lock.tree)
    BY <2>3, <2>5, ContentStable
  <2> HIDE DEF c
  <2>7. lock # None /\ Upto(u.key) <= Len(lock.tree) /\ u.data = Content(u.key, lock.tree)
    BY <2>2, <2>3, <2>4, <2>5, <2>6
  <2>8. QED
    BY <2>7 DEF RequestOK, UploadTile
<1>9. QED
  BY <1>3, <1>4, <1>5, <1>6, <1>7, <1>8

(* CreateLog keeps the invariant.                                          *)
LEMMA CreateSafe ==
    ASSUME TypeOK, TypeOK', StoreInv, NEW i \in Instances, InstanceInv(i),
           Create(i) \/ CreateLockErr(i) \/ CreatePubErr(i)
    PROVE  Extended /\ StoreInv' /\ InstanceInv(i)' /\ Local(i)
<1>1. CASE CreateCheck(i)
  <2>1. PICK t \in Times : GoTo(i, "create", [NoRound EXCEPT !.next = [tree |-> <<>>, time |-> t]])
    BY <1>1 DEF CreateCheck
  <2>2. PICK l : l = [NoRound EXCEPT !.next = [tree |-> <<>>, time |-> t]]
    OBVIOUS
  <2>3. l.next = [tree |-> <<>>, time |-> t]
    BY <2>2, EmptyTypes DEF RoundState
  <2>4. Local(i) /\ pc'[i] = "create" /\ round'[i] = l
    BY <1>1, <2>1, <2>2, GoToLocal DEF CreateCheck
  <2>5. InstanceInv(i)'
    BY <2>3, <2>4 DEF InstanceInv, Creating, Loading, Loaded, Sequencing
  <2>6. Extended /\ StoreInv'
    BY <1>1, StoresUnchanged DEF CreateCheck
  <2>7. QED
    BY <2>4, <2>5, <2>6
<1>2. CASE CreateLock(i)
  <2>1. Extended /\ StoreInv'
    BY <1>2, IssuedOK, IssuedType, RequestSafe DEF CreateLock
  <2>2. Local(i) /\ pc'[i] = "createPub" /\ round'[i] = round[i]
    BY <1>2, GoToLocal DEF CreateLock
  <2>3. round[i].next.tree = <<>> /\ round[i].next \in Checkpoint
    BY <1>2 DEF CreateLock, InstanceInv, Creating, TypeOK, RoundState
  <2>4. lock' = round[i].next
    BY <1>2 DEF CreateLock, Succeeds, Effect, Replace
  <2>5. lock'.tree \in Seq(Leaf) /\ lock'.time \in Nat /\ lock' # None
    BY <2>3, <2>4, NoneNotCheckpoint DEF Checkpoint
  <2>6. IsPrefix(lock'.tree, lock'.tree) /\ lock'.time <= lock'.time
    BY <2>5, PrefixReflexive
  <2>7. Committed(round[i].next)'
    BY <2>2, <2>4, <2>5, <2>6 DEF Committed
  <2>8. QED
    BY <2>1, <2>2, <2>3, <2>7 DEF InstanceInv, Creating, Loading, Loaded, Sequencing
<1>3. CASE CreateLockErr(i)
  BY <1>3, IssuedOK, IssuedType, RequestSafe, StopInv DEF CreateLockErr
<1>4. CASE CreatePub(i)
  BY <1>4, IssuedOK, IssuedType, RequestSafe, StopInv DEF CreatePub
<1>5. CASE CreatePubErr(i)
  BY <1>5, IssuedOK, IssuedType, RequestSafe, StopInv DEF CreatePubErr
<1>6. QED
  BY <1>1, <1>2, <1>3, <1>4, <1>5 DEF Create

(* LoadLog keeps the invariant: it reaches "idle" only with a tree whose   *)
(* tiles are all stored.                                                   *)
LEMMA LoadSafe ==
    ASSUME TypeOK, TypeOK', StoreInv, NEW i \in Instances, InstanceInv(i),
           LoadLock(i) \/ LoadPub(i) \/ LoadPubMissing(i) \/ Recover(i) \/ LoadEdge(i)
    PROVE  Extended /\ StoreInv' /\ InstanceInv(i)' /\ Local(i)
<1>1. Extended /\ StoreInv'
  BY StoresUnchanged DEF LoadLock, LoadPub, LoadPubMissing, Recover, LoadEdge
<1>2. CASE LoadLock(i)
  <2>1. lock \in Checkpoint /\ lock.tree \in Seq(Leaf) /\ lock.time \in Nat /\ UNCHANGED lock
    BY <1>2, LockType DEF LoadLock, store
  <2>2. PICK l : l = [tree |-> lock, lockCheckpoint |-> lock, edgeTiles |-> <<>>]
    OBVIOUS
  <2>3. Local(i) /\ pc'[i] = "loadPub" /\ log'[i] = l
    BY <1>2, <2>2, GoToLocal DEF LoadLock, TypeOK
  <2>4. IsPrefix(lock.tree, lock.tree) /\ lock.time <= lock.time
    BY <2>1, PrefixReflexive
  <2>5. Committed(log[i].tree)' /\ WellTimed(log'[i].tree) /\ log'[i].lockCheckpoint = log'[i].tree
    BY <1>2, <2>1, <2>2, <2>3, <2>4 DEF Committed, LoadLock, StoreInv, LockInv
  <2>6. QED
    BY <1>1, <2>3, <2>5 DEF InstanceInv, Creating, Loading, Loaded, Sequencing
<1>3. CASE LoadPub(i)
  <2>1. CASE Stop(i)
    BY <1>1, <2>1, StopInv
  <2>2. CASE UNCHANGED log /\ GoTo(i, "recover", NoRound)
    <3>1. Local(i) /\ pc'[i] = "recover"
      BY <2>2, GoToLocal
    <3>2. Committed(log[i].tree)' /\ WellTimed(log'[i].tree) /\ log'[i].lockCheckpoint = log'[i].tree
      BY <1>1, <1>3, <2>2, TreeKnown DEF LoadPub, Loading
    <3>3. pub' # None
      BY <1>1, <1>3 DEF LoadPub, Extended
    <3>4. QED
      BY <1>1, <3>1, <3>2, <3>3 DEF InstanceInv, Creating, Loading, Loaded, Sequencing
  <2>3. CASE UNCHANGED log /\ GoTo(i, "loadEdge", NoRound) /\ pub # None /\ pub.tree = log[i].tree.tree
    <3>1. Local(i) /\ pc'[i] = "loadEdge"
      BY <2>3, GoToLocal
    <3>2. Complete(log[i].tree.tree)
      BY <2>3 DEF StoreInv, PubInv
    <3>3. /\ Committed(log[i].tree)' /\ WellTimed(log'[i].tree)
          /\ log'[i].lockCheckpoint = log'[i].tree /\ Complete(log[i].tree.tree)'
      BY <1>1, <1>3, <2>3, <3>2, TreeKnown DEF LoadPub, Loading
    <3>4. pub' # None
      BY <1>1, <2>3 DEF Extended
    <3>5. QED
      BY <1>1, <3>1, <3>3, <3>4 DEF InstanceInv, Creating, Loading, Loaded, Sequencing
  <2>4. QED
    BY <1>3, <2>1, <2>2, <2>3 DEF LoadPub
<1>4. CASE LoadPubMissing(i)
  BY <1>1, <1>4, StopInv DEF LoadPubMissing
<1>5. CASE Recover(i)
  <2>1. CASE Stop(i)
    BY <1>1, <2>1, StopInv
  <2>2. CASE /\ log[i].tree.tree \in DOMAIN staging
             /\ GoTo(i, "reapply", [NoRound EXCEPT !.todo = staging[log[i].tree.tree]])
             /\ UNCHANGED log
    <3>1. PICK b : b = staging[log[i].tree.tree]
      OBVIOUS
    <3>2. PICK l : l = [NoRound EXCEPT !.todo = b]
      OBVIOUS
    <3>3. l.todo = b
      BY <3>2, EmptyTypes DEF RoundState
    <3>4. Local(i) /\ pc'[i] = "reapply" /\ round'[i] = l
      BY <2>2, <3>1, <3>2, GoToLocal
    <3>5. Restores(b, log[i].tree.tree)
      BY <2>2, <3>1 DEF StoreInv, StagingInv
    <3>6. /\ Committed(log[i].tree)' /\ WellTimed(log'[i].tree)
          /\ log'[i].lockCheckpoint = log'[i].tree /\ pub' # None
          /\ Restores(b, log[i].tree.tree)'
      BY <1>1, <1>5, <2>2, <3>5, TreeKnown DEF Recover, Loading, Loaded
    <3>7. Restores(round[i].todo, log[i].tree.tree)'
      BY <3>3, <3>4, <3>6 DEF Restores, TilesFrom, Covers, Stored
    <3>8. QED
      BY <1>1, <3>4, <3>6, <3>7 DEF InstanceInv, Creating, Loading, Loaded, Sequencing
  <2>3. QED
    BY <1>5, <2>1, <2>2 DEF Recover
<1>6. CASE LoadEdge(i)
  <2>1. CASE Stop(i)
    BY <1>1, <2>1, StopInv
  <2>2. CASE GoTo(i, "idle", NoRound) /\ log' = [log EXCEPT ![i].edgeTiles = log[i].tree.tree]
    <3>1. PICK l \in LogState : l = log[i]
      BY DEF TypeOK
    <3>2. log'[i] = [l EXCEPT !.edgeTiles = l.tree.tree]
      BY <2>2, <3>1 DEF TypeOK
    <3>3. /\ log'[i].tree = l.tree /\ log'[i].lockCheckpoint = l.lockCheckpoint
          /\ log'[i].edgeTiles = l.tree.tree
      BY <3>2 DEF LogState
    <3>4. Local(i) /\ pc'[i] = "idle"
      BY <2>2, GoToLocal
    <3>5. Committed(l.tree) /\ WellTimed(l.tree) /\ l.lockCheckpoint = l.tree /\ Complete(l.tree.tree)
      BY <1>6, <3>1 DEF LoadEdge, InstanceInv, Loading
    <3>6. l.tree \in Checkpoint
      BY DEF LogState
    <3>7. Committed(l.tree)' /\ Complete(l.tree.tree)'
      BY <1>1, <3>5, <3>6, CommittedPersists, StoredPersists
    <3>8. Committed(log[i].tree)' /\ Complete(log[i].tree.tree)'
      BY <3>3, <3>7 DEF Committed, Complete
    <3>9. pub' # None
      BY <1>1, <1>6 DEF LoadEdge, InstanceInv, Loaded, Extended
    <3>10. QED
      BY <1>1, <3>3, <3>4, <3>5, <3>8, <3>9 DEF InstanceInv, Creating, Loading, Loaded, Sequencing
  <2>3. QED
    BY <1>6, <2>1, <2>2 DEF LoadEdge
<1>7. QED
  BY <1>2, <1>3, <1>4, <1>5, <1>6

(* applyStagedUploads keeps the invariant: while it runs, the stored tiles *)
(* and the uploads left make the tree complete.                            *)
LEMMA ApplySafe ==
    ASSUME TypeOK, TypeOK', StoreInv, NEW i \in Instances, InstanceInv(i),
           ApplyTile(i) \/ ApplyErr(i) \/ ApplyDone(i)
    PROVE  Extended /\ StoreInv' /\ InstanceInv(i)' /\ Local(i)
<1>0. PICK l \in LogState, r \in RoundState : l = log[i] /\ r = round[i]
  BY DEF TypeOK
<1>1. pc[i] \in {"apply", "reapply"} /\ Restores(r.todo, l.tree.tree)
  BY <1>0 DEF ApplyTile, ApplyErr, ApplyDone, InstanceInv
<1>2. pc[i] \in Loading \cup Sequencing \cup {"idle"}
  BY <1>1 DEF Loading, Sequencing
<1>3. CASE ApplyTile(i)
  <2>1. PICK u \in r.todo :
           Succeeds(UploadTile(u)) /\ GoTo(i, pc[i], [round[i] EXCEPT !.todo = @ \ {u}])
    BY <1>0, <1>3 DEF ApplyTile
  <2>2. Extended /\ StoreInv'
    BY <1>0, <1>1, <1>3, <2>1, IssuedOK, IssuedType, RequestSafe DEF ApplyTile
  <2>3. PICK q : q = [r EXCEPT !.todo = @ \ {u}]
    OBVIOUS
  <2>4. /\ q.todo = r.todo \ {u} /\ q.next = r.next /\ q.pendingLeaves = r.pendingLeaves
        /\ q.firstLeafIndex = r.firstLeafIndex /\ q.timestamp = r.timestamp
    BY <2>3 DEF RoundState
  <2>5. Local(i) /\ pc'[i] = pc[i] /\ round'[i] = q /\ log'[i] = l
    BY <1>0, <1>3, <2>1, <2>3, GoToLocal DEF ApplyTile
  <2>6. /\ Committed(log[i].tree)' /\ WellTimed(log'[i].tree)
        /\ log'[i].lockCheckpoint = log'[i].tree /\ pub' # None
    BY <1>0, <1>1, <1>2, <2>2, <2>5, TreeKnown DEF Loaded, Sequencing
  <2>7. tiles' = Put(tiles, u.key, u.data)
    BY <2>1 DEF Succeeds, Effect, UploadTile
  <2>8. u.data = Content(u.key, l.tree.tree) /\ u = [key |-> u.key, data |-> u.data]
    BY <1>1, <2>1 DEF Restores, TilesFrom, RoundState, Upload
  <2>9. u.key \in DOMAIN tiles' /\ tiles'[u.key] = u.data
    BY <2>7 DEF Put
  <2>10. Restores(r.todo, l.tree.tree)'
    BY <1>1, <2>2, StoredPersists
  <2>11. Restores(q.todo, l.tree.tree)'
    <3>1. TilesFrom(q.todo, l.tree.tree)'
      BY <2>4, <2>10 DEF Restores, TilesFrom
    <3>2. ASSUME NEW t \in TilesOf(Len(l.tree.tree)),
                 [key |-> t, data |-> Content(t, l.tree.tree)] = u
          PROVE  Stored(t, l.tree.tree)'
      <4>1. t = u.key
        BY <3>2
      <4>2. QED
        BY <2>8, <2>9, <4>1 DEF Stored
    <3>3. Covers(q.todo, l.tree.tree)'
      BY <2>4, <2>10, <3>2 DEF Restores, Covers
    <3>4. QED
      BY <3>1, <3>3 DEF Restores
  <2>12. Restores(round[i].todo, log[i].tree.tree)'
    BY <2>5, <2>11 DEF Restores, TilesFrom, Covers, Stored
  <2>13. pc[i] = "apply" => ResultInv(i)' /\ log'[i].edgeTiles = log'[i].tree.tree
    BY <1>0, <2>4, <2>5 DEF InstanceInv, ResultInv, Sequencing
  <2>14. QED
    BY <1>1, <2>2, <2>5, <2>6, <2>12, <2>13 DEF InstanceInv, Creating, Loading, Loaded, Sequencing
<1>4. CASE ApplyErr(i)
  <2>1. \A q \in inflight' : q \in inflight \/ RequestOK(q)
    BY <1>1, <1>4, IssuedOK DEF ApplyErr
  <2>2. Extended /\ StoreInv'
    BY <1>4, <2>1, StoresUnchanged DEF ApplyErr
  <2>3. QED
    BY <1>4, <2>2, StopInv DEF ApplyErr
<1>5. CASE ApplyDone(i)
  <2>1. Extended /\ StoreInv'
    BY <1>5, StoresUnchanged DEF ApplyDone
  <2>2. /\ Local(i) /\ round'[i] = r /\ log'[i] = l
        /\ pc'[i] = IF pc[i] = "apply" THEN "publish" ELSE "loadEdge"
    BY <1>0, <1>5, GoToLocal DEF ApplyDone
  <2>3. Complete(log[i].tree.tree)
    BY <1>0, <1>1, <1>5 DEF ApplyDone, Restores, Covers, Stored, Complete
  <2>4. /\ Committed(log[i].tree)' /\ WellTimed(log'[i].tree)
        /\ log'[i].lockCheckpoint = log'[i].tree /\ pub' # None
        /\ Complete(log[i].tree.tree)'
    BY <1>0, <1>1, <1>2, <2>1, <2>2, <2>3, TreeKnown DEF Loaded, Sequencing
  <2>5. pc[i] = "apply" => ResultInv(i)' /\ log'[i].edgeTiles = log'[i].tree.tree
    BY <1>0, <2>2 DEF InstanceInv, ResultInv, Sequencing
  <2>6. QED
    BY <1>1, <2>1, <2>2, <2>4, <2>5 DEF InstanceInv, Creating, Loading, Loaded, Sequencing
<1>6. QED
  BY <1>3, <1>4, <1>5

(* The start of a round: the leaves, the tree and the bundle it computes.  *)
LEMMA StartRoundSafe ==
    ASSUME TypeOK, TypeOK', StoreInv, NEW i \in Instances, InstanceInv(i), StartRound(i)
    PROVE  Extended /\ StoreInv' /\ InstanceInv(i)' /\ Local(i)
<1>0. PICK l \in LogState : l = log[i]
  BY DEF TypeOK
<1>1. /\ l.tree \in Checkpoint /\ l.tree.tree \in Seq(Leaf) /\ l.tree.time \in Nat
      /\ Complete(l.tree.tree) /\ l.edgeTiles = l.tree.tree
  BY <1>0 DEF StartRound, BeginRound, InstanceInv, LogState, Checkpoint
<1>2. PICK t \in Times, n \in 0 .. PoolSize : \E certs \in [1 .. n -> Cert] :
         /\ t > l.tree.time
         /\ GoTo(i, "stage",
                 [NoRound EXCEPT
                    !.pendingLeaves = certs,
                    !.next = [tree |-> l.edgeTiles \o Leaves(certs, Len(l.tree.tree), t), time |-> t],
                    !.bundle = Bundle(Len(l.tree.tree),
                                      l.edgeTiles \o Leaves(certs, Len(l.tree.tree), t))])
  BY <1>0 DEF StartRound, BeginRound
<1>3. PICK certs \in [1 .. n -> Cert] :
         /\ t > l.tree.time
         /\ GoTo(i, "stage",
                 [NoRound EXCEPT
                    !.pendingLeaves = certs,
                    !.next = [tree |-> l.edgeTiles \o Leaves(certs, Len(l.tree.tree), t), time |-> t],
                    !.bundle = Bundle(Len(l.tree.tree),
                                      l.edgeTiles \o Leaves(certs, Len(l.tree.tree), t))])
  BY <1>2
<1>4. t \in Nat /\ n \in Nat /\ certs \in Seq(Cert)
  BY SequencerAssumption DEF Times
<1>5. PICK d : d = l.tree.tree \o Leaves(certs, Len(l.tree.tree), t)
  OBVIOUS
<1>6. d \in Seq(Leaf) /\ IsPrefix(l.tree.tree, d)
  BY <1>1, <1>3, <1>4, <1>5, RoundSuccessor
<1>7. Restores(Bundle(Len(l.tree.tree), d), d)
  BY <1>1, <1>6, BundleRestores
<1>8. PICK b : b = Bundle(Len(l.tree.tree), d)
  OBVIOUS
<1>9. PICK q : q = [NoRound EXCEPT !.pendingLeaves = certs,
                                   !.next = [tree |-> d, time |-> t],
                                   !.bundle = b]
  OBVIOUS
<1>10. q.pendingLeaves = certs /\ q.next.tree = d /\ q.next.time = t /\ q.bundle = b
  BY <1>9, EmptyTypes DEF RoundState
<1>11. Extended /\ StoreInv'
  BY StoresUnchanged DEF StartRound, BeginRound
<1>12. GoTo(i, "stage", q) /\ UNCHANGED log
  BY <1>1, <1>3, <1>5, <1>8, <1>9 DEF StartRound, BeginRound
<1>13. Local(i) /\ pc'[i] = "stage" /\ round'[i] = q /\ log'[i] = l
  BY <1>0, <1>12, GoToLocal
<1>14. /\ Committed(log[i].tree)' /\ WellTimed(log'[i].tree)
       /\ log'[i].lockCheckpoint = log'[i].tree /\ pub' # None
       /\ Complete(log[i].tree.tree)'
  BY <1>0, <1>1, <1>11, <1>13, TreeKnown DEF StartRound, BeginRound, Loaded
<1>15. Restores(b, d)'
  BY <1>7, <1>8, <1>11, StoredPersists
<1>16. Restores(round[i].bundle, round[i].next.tree)'
  BY <1>10, <1>13, <1>15 DEF Restores, TilesFrom, Covers, Stored
<1>17. RoundInv(i)'
  BY <1>3, <1>5, <1>10, <1>13, <1>16 DEF RoundInv
<1>18. QED
  BY <1>1, <1>11, <1>13, <1>14, <1>17 DEF InstanceInv, Creating, Loading, Loaded, Sequencing

(* The commit: Lock.Replace and the update of the Log.                     *)
LEMMA CommitSafe ==
    ASSUME TypeOK, TypeOK', StoreInv, NEW i \in Instances, InstanceInv(i), Commit(i)
    PROVE  Extended /\ StoreInv' /\ InstanceInv(i)' /\ Local(i)
<1>0. PICK l \in LogState, r \in RoundState : l = log[i] /\ r = round[i]
  BY DEF TypeOK
<1>1. Extended /\ StoreInv'
  BY IssuedOK, IssuedType, RequestSafe DEF Commit, Serialized
<1>2. /\ r.next \in Checkpoint /\ r.next.tree \in Seq(Leaf) /\ r.next.time \in Nat
      /\ l.tree \in Checkpoint /\ l.tree.tree \in Seq(Leaf) /\ l.tree.time \in Nat
      /\ r.pendingLeaves \in Seq(Cert)
  BY DEF RoundState, LogState, Checkpoint
<1>3. /\ r.next.tree = l.tree.tree \o Leaves(r.pendingLeaves, Len(l.tree.tree), r.next.time)
      /\ r.next.time > l.tree.time
      /\ Restores(r.bundle, r.next.tree)
      /\ WellTimed(l.tree)
  BY <1>0 DEF Commit, InstanceInv, RoundInv, Sequencing
<1>4. Successor(l.tree, r.next)
  BY <1>0, NextSuccessor DEF Commit, InstanceInv
<1>5. PICK q : q = [r EXCEPT !.timestamp = r.next.time,
                             !.firstLeafIndex = Len(l.tree.tree),
                             !.todo = r.bundle]
  OBVIOUS
<1>6. /\ q.next = r.next /\ q.pendingLeaves = r.pendingLeaves /\ q.timestamp = r.next.time
      /\ q.firstLeafIndex = Len(l.tree.tree) /\ q.todo = r.bundle
  BY <1>5 DEF RoundState
<1>7. GoTo(i, "apply", q)
      /\ log' = [log EXCEPT ![i] = [tree |-> r.next, lockCheckpoint |-> r.next,
                                    edgeTiles |-> r.next.tree]]
  BY <1>0, <1>5 DEF Commit, Serialized
<1>8. Local(i) /\ pc'[i] = "apply" /\ round'[i] = q
  BY <1>7, GoToLocal
<1>9. log'[i].tree = r.next /\ log'[i].lockCheckpoint = r.next /\ log'[i].edgeTiles = r.next.tree
  BY <1>7 DEF TypeOK
<1>10. lock' = r.next
  BY <1>0 DEF Commit, Succeeds, Effect, Replace
<1>11. Committed(log[i].tree)' /\ WellTimed(log'[i].tree) /\ pub' # None
  <2>1. IsPrefix(r.next.tree, r.next.tree) /\ r.next.time <= r.next.time /\ r.next # None
    BY <1>2, PrefixReflexive, NoneNotCheckpoint
  <2>2. WellTimed(r.next)
    BY <1>2, <1>3, <1>4, SuccessorWellTimed
  <2>3. pub' # None
    BY <1>1 DEF Commit, InstanceInv, Loaded, Sequencing, Extended
  <2>4. QED
    BY <1>9, <1>10, <2>1, <2>2, <2>3 DEF Committed
<1>12. Restores(r.bundle, r.next.tree)'
  BY <1>1, <1>3, StoredPersists
<1>13. Restores(round[i].todo, log[i].tree.tree)'
  BY <1>6, <1>8, <1>9, <1>12 DEF Restores, TilesFrom, Covers, Stored
<1>14. /\ Len(r.next.tree) = Len(l.tree.tree) + Len(r.pendingLeaves)
       /\ \A j \in 1 .. Len(r.pendingLeaves) :
             r.next.tree[Len(l.tree.tree) + j] =
                 AsLogEntry(r.pendingLeaves, j, Len(l.tree.tree), r.next.time)
  <2>1. PICK p \in Seq(Leaf), certs \in Seq(Cert), b \in Nat :
           p = l.tree.tree /\ certs = r.pendingLeaves /\ b = r.next.time
    BY <1>2
  <2>2. PICK q1 : q1 = p \o Leaves(certs, Len(p), b)
    OBVIOUS
  <2>3. /\ Len(q1) = Len(p) + Len(certs)
        /\ \A j \in 1 .. Len(certs) : q1[Len(p) + j] = AsLogEntry(certs, j, Len(p), b)
    BY <2>2, RoundSuccessor
  <2>4. q1 = r.next.tree
    BY <1>3, <2>1, <2>2
  <2>5. QED
    BY <2>1, <2>3, <2>4
<1>15. ResultInv(i)'
  BY <1>6, <1>8, <1>9, <1>14 DEF ResultInv
<1>16. QED
  BY <1>1, <1>8, <1>9, <1>11, <1>13, <1>15 DEF InstanceInv, Creating, Loading, Loaded, Sequencing

(* The SCTs that are issued are for leaves of the committed tree.          *)
LEMMA FinishSafe ==
    ASSUME TypeOK, TypeOK', StoreInv, NEW i \in Instances, InstanceInv(i), Finish(i)
    PROVE  Extended /\ StoreInv' /\ InstanceInv(i)' /\ Local(i)
<1>0. PICK r \in RoundState : r = round[i]
  BY DEF TypeOK
<1>1. UNCHANGED <<lock, pub, staging, tiles, inflight>>
  BY DEF Finish, store
<1>2. Extended
  BY <1>1, SameLock DEF Extended
<1>3. LockInv' /\ PubInv' /\ TilesInv' /\ StagingInv' /\ InflightInv'
  BY <1>1 DEF StoreInv, LockInv, PubInv, TilesInv, StagingInv, InflightInv, RequestOK, ReplaceOK,
              Committed, Complete, Restores, TilesFrom, Covers, Stored
<1>4. SCTsHonoured'
  <2>1. /\ Committed(r.next)
        /\ r.firstLeafIndex + Len(r.pendingLeaves) = Len(r.next.tree)
        /\ \A j \in 1 .. Len(r.pendingLeaves) :
              r.next.tree[r.firstLeafIndex + j] =
                  AsLogEntry(r.pendingLeaves, j, r.firstLeafIndex, r.timestamp)
    BY <1>0 DEF Finish, InstanceInv, ResultInv, Sequencing
  <2>2. /\ r.next.tree \in Seq(Leaf) /\ r.firstLeafIndex \in Nat
        /\ r.pendingLeaves \in Seq(Cert) /\ Len(r.pendingLeaves) \in Nat
    BY DEF RoundState, Checkpoint
  <2>3. lock # None /\ lock.tree \in Seq(Leaf)
    BY <2>1, LockType DEF Committed
  <2>4. /\ Len(r.next.tree) <= Len(lock.tree) /\ Len(lock.tree) \in Nat
        /\ \A k \in 1 .. Len(r.next.tree) : r.next.tree[k] = lock.tree[k]
    <3>1. PICK c \in Seq(Leaf), d \in Seq(Leaf) : c = r.next.tree /\ d = lock.tree
      BY <2>2, <2>3
    <3>2. IsPrefix(c, d)
      BY <2>1, <3>1 DEF Committed
    <3>3. QED
      BY <3>1, <3>2, PrefixDef
  <2>5. ASSUME NEW j \in 1 .. Len(r.pendingLeaves),
               NEW s, s = AsLogEntry(r.pendingLeaves, j, r.firstLeafIndex, r.timestamp)
        PROVE  s.idx < Len(lock.tree) /\ lock.tree[s.idx + 1] = s
    <3>1. s.idx = r.firstLeafIndex + j - 1
      BY <2>5 DEF AsLogEntry
    <3>2. s.idx + 1 = r.firstLeafIndex + j /\ r.firstLeafIndex + j \in 1 .. Len(r.next.tree)
      BY <2>1, <2>2, <3>1
    <3>3. s.idx < Len(lock.tree)
      BY <2>2, <2>4, <3>1, <3>2
    <3>4. QED
      BY <2>1, <2>4, <2>5, <3>2, <3>3
  <2>6. \A s \in scts : s.idx < Len(lock.tree) /\ lock.tree[s.idx + 1] = s
    BY DEF StoreInv, SCTsHonoured
  <2>7. scts' = scts \cup {AsLogEntry(r.pendingLeaves, j, r.firstLeafIndex, r.timestamp) :
                             j \in 1 .. Len(r.pendingLeaves)}
    BY <1>0 DEF Finish
  <2>8. \A s \in scts' : s.idx < Len(lock.tree) /\ lock.tree[s.idx + 1] = s
    BY <2>5, <2>6, <2>7
  <2>9. QED
    BY <1>1, <2>3, <2>8 DEF SCTsHonoured
<1>5. InstanceInv(i)' /\ Local(i)
  BY <1>2, EndRoundInv DEF Finish
<1>6. QED
  BY <1>2, <1>3, <1>4, <1>5 DEF StoreInv

(* The other steps of sequencePool.                                        *)
LEMMA SequenceSafe ==
    ASSUME TypeOK, TypeOK', StoreInv, NEW i \in Instances, InstanceInv(i),
           \/ TimeStuck(i) \/ Stage(i) \/ StageErr(i) \/ CommitErr(i)
           \/ Publish(i) \/ PublishErr(i) \/ Crash(i)
    PROVE  Extended /\ StoreInv' /\ InstanceInv(i)' /\ Local(i)
<1>0. PICK l \in LogState, r \in RoundState : l = log[i] /\ r = round[i]
  BY DEF TypeOK
<1>1. CASE TimeStuck(i) \/ Crash(i)
  BY <1>1, StoresUnchanged, StopInv DEF TimeStuck, Crash
<1>2. CASE Stage(i)
  <2>1. Extended /\ StoreInv'
    BY <1>2, IssuedOK, IssuedType, RequestSafe DEF Stage
  <2>2. Local(i) /\ pc'[i] = "replace" /\ round'[i] = r /\ log'[i] = l
    BY <1>0, <1>2, GoToLocal DEF Stage
  <2>3. r.next.tree \in DOMAIN staging'
    BY <1>0, <1>2 DEF Stage, Succeeds, Effect, UploadStaging, Put
  <2>4. RoundInv(i) /\ Complete(log[i].tree.tree) /\ l.edgeTiles = l.tree.tree
    BY <1>0, <1>2 DEF Stage, InstanceInv, Sequencing
  <2>5. /\ Committed(log[i].tree)' /\ WellTimed(log'[i].tree)
        /\ log'[i].lockCheckpoint = log'[i].tree /\ pub' # None
        /\ Complete(log[i].tree.tree)'
    BY <1>0, <1>2, <2>1, <2>2, <2>4, TreeKnown DEF Stage, Loaded, Sequencing
  <2>6. Restores(r.bundle, r.next.tree)'
    BY <1>0, <2>1, <2>4, StoredPersists DEF RoundInv
  <2>7. Restores(round[i].bundle, round[i].next.tree)'
    BY <2>2, <2>6 DEF Restores, TilesFrom, Covers, Stored
  <2>8. RoundInv(i)'
    BY <1>0, <2>2, <2>4, <2>7 DEF RoundInv
  <2>9. QED
    BY <2>1, <2>2, <2>3, <2>4, <2>5, <2>8 DEF InstanceInv, Creating, Loading, Loaded, Sequencing
<1>3. CASE StageErr(i)
  BY <1>3, IssuedOK, IssuedType, RequestSafe, EndRoundInv DEF StageErr
<1>4. CASE CommitErr(i)
  BY <1>4, IssuedOK, IssuedType, RequestSafe, StopInv DEF CommitErr
<1>5. CASE Publish(i)
  <2>1. Extended /\ StoreInv'
    BY <1>5, IssuedOK, IssuedType, RequestSafe DEF Publish
  <2>2. Local(i) /\ pc'[i] = "finish" /\ round'[i] = r /\ log'[i] = l
    BY <1>0, <1>5, GoToLocal DEF Publish
  <2>3. ResultInv(i) /\ Complete(log[i].tree.tree) /\ l.edgeTiles = l.tree.tree
    BY <1>0, <1>5 DEF Publish, InstanceInv, Sequencing
  <2>4. /\ Committed(log[i].tree)' /\ WellTimed(log'[i].tree)
        /\ log'[i].lockCheckpoint = log'[i].tree /\ pub' # None
        /\ Complete(log[i].tree.tree)'
    BY <1>0, <1>5, <2>1, <2>2, <2>3, TreeKnown DEF Publish, Loaded, Sequencing
  <2>5. ResultInv(i)'
    BY <1>0, <2>2, <2>3 DEF ResultInv
  <2>6. QED
    BY <2>1, <2>2, <2>3, <2>4, <2>5 DEF InstanceInv, Creating, Loading, Loaded, Sequencing
<1>6. CASE PublishErr(i)
  BY <1>6, IssuedOK, IssuedType, RequestSafe, EndRoundInv DEF PublishErr
<1>7. QED
  BY <1>1, <1>2, <1>3, <1>4, <1>5, <1>6

-----------------------------------------------------------------------------
(* The invariant.                                                          *)

LEMMA InvInit == Init => Inv
<1> SUFFICES ASSUME Init PROVE Inv
  OBVIOUS
<1>1. TypeOK
  <2>1. StoreType
    BY DEF Init, StoreType
  <2>2. QED
    BY <2>1, EmptyTypes DEF Init, TypeOK
<1>2. StoreInv
  BY DEF Init, StoreInv, LockInv, PubInv, TilesInv, StagingInv, InflightInv, SCTsHonoured
<1>3. \A i \in Instances : InstanceInv(i)
  BY DEF Init, InstanceInv, Creating, Loading, Loaded, Sequencing
<1>4. QED
  BY <1>1, <1>2, <1>3 DEF Inv

LEMMA OthersPersist ==
    ASSUME Inv, TypeOK', Extended, StoreInv', NEW i \in Instances, InstanceInv(i)', Local(i)
    PROVE  Inv'
<1>1. ASSUME NEW j \in Instances
      PROVE  InstanceInv(j)'
  <2>1. CASE j = i
    BY <2>1
  <2>2. CASE j # i
    BY <2>2, InstancePersists DEF Inv, Local
  <2>3. QED
    BY <2>1, <2>2
<1>2. QED
  BY <1>1 DEF Inv

(* Every step keeps the invariant and extends the stores.                  *)
LEMMA InvStep ==
    ASSUME Inv, [Next]_vars
    PROVE  Inv' /\ Extended
<1>1. TypeOK /\ TypeOK' /\ StoreInv
  BY TypeStep DEF Inv
<1>2. ASSUME NEW i \in Instances, Create(i) \/ Progress(i) \/ Fault(i)
      PROVE  Inv' /\ Extended
  <2>1. InstanceInv(i)
    BY DEF Inv
  <2>2. CASE Create(i) \/ CreateLockErr(i) \/ CreatePubErr(i)
    BY <1>1, <2>1, <2>2, CreateSafe, OthersPersist
  <2>3. CASE LoadLock(i) \/ LoadPub(i) \/ LoadPubMissing(i) \/ Recover(i) \/ LoadEdge(i)
    BY <1>1, <2>1, <2>3, LoadSafe, OthersPersist
  <2>4. CASE ApplyTile(i) \/ ApplyErr(i) \/ ApplyDone(i)
    BY <1>1, <2>1, <2>4, ApplySafe, OthersPersist
  <2>5. CASE StartRound(i)
    BY <1>1, <2>1, <2>5, StartRoundSafe, OthersPersist
  <2>6. CASE Commit(i)
    BY <1>1, <2>1, <2>6, CommitSafe, OthersPersist
  <2>7. CASE Finish(i)
    BY <1>1, <2>1, <2>7, FinishSafe, OthersPersist
  <2>8. CASE \/ TimeStuck(i) \/ Stage(i) \/ StageErr(i) \/ CommitErr(i)
             \/ Publish(i) \/ PublishErr(i) \/ Crash(i)
    BY <1>1, <2>1, <2>8, SequenceSafe, OthersPersist
  <2>9. QED
    BY <1>2, <2>2, <2>3, <2>4, <2>5, <2>6, <2>7, <2>8 DEF Progress, Fault
<1>3. ASSUME Land
      PROVE  Inv' /\ Extended
  <2>1. PICK r \in inflight : Effect(r) /\ inflight' = inflight \ {r}
    BY <1>3 DEF Land
  <2>2. r \in Request /\ RequestOK(r) /\ UNCHANGED <<pc, log, round, scts>>
    BY <1>1, <1>3 DEF Land, StoreInv, InflightInv, TypeOK
  <2>3. Extended /\ StoreInv'
    BY <1>1, <2>1, <2>2, EffectSafe
  <2>4. \A j \in Instances : InstanceInv(j)'
    BY <1>1, <2>2, <2>3, InstancePersists DEF Inv
  <2>5. QED
    BY <1>1, <2>3, <2>4 DEF Inv
<1>4. ASSUME UNCHANGED vars
      PROVE  Inv' /\ Extended
  <2>1. UNCHANGED store /\ UNCHANGED scts /\ UNCHANGED <<pc, log, round, inflight>>
    BY <1>4 DEF vars, store
  <2>2. Extended /\ StoreInv'
    BY <1>1, <2>1, StoresUnchanged
  <2>3. \A j \in Instances : InstanceInv(j)'
    BY <1>1, <2>1, <2>2, InstancePersists DEF Inv
  <2>4. QED
    BY <1>1, <2>2, <2>3 DEF Inv
<1>5. QED
  BY <1>2, <1>3, <1>4 DEF Next

(* Sequencer's invariant holds for any number of instances, whatever       *)
(* requests fail, land unnoticed or land late.                             *)
THEOREM Invariance == Spec => []Inv
<1>1. Inv /\ [Next]_vars => Inv'
  BY InvStep
<1>2. QED
  BY InvInit, <1>1, PTL DEF Spec

-----------------------------------------------------------------------------
(* What the invariant says to those outside.                               *)

(* Whatever fails, whoever fetches the published checkpoint can fetch      *)
(* every tile of its tree: sequencePool uploads the checkpoint last.       *)
THEOREM AlwaysReadable == Spec => []PublishedReadable
<1>1. Inv => PublishedReadable
  BY DEF Inv, StoreInv, PubInv, PublishedReadable
<1>2. QED
  BY <1>1, Invariance, PTL

(* The published tree is always a prefix of the one in the lock backend.   *)
THEOREM NeverForks == Spec => []PublishedConsistent
<1>1. Inv => PublishedConsistent
  BY DEF Inv, StoreInv, PubInv, Committed, PublishedConsistent
<1>2. QED
  BY <1>1, Invariance, PTL

(* LoadLog can restore the lock's tree from the stores at any instant.     *)
THEOREM AlwaysRecoverable == Spec => []Recoverable
<1>1. ASSUME Inv, lock # None, pub # None, Len(pub.tree) < Len(lock.tree)
      PROVE  lock.tree \in DOMAIN staging /\ Covers(staging[lock.tree], lock.tree)
  <2>1. lock.tree \in Seq(Leaf) /\ pub.tree \in Seq(Leaf)
    BY <1>1 DEF Inv, TypeOK, StoreType, Checkpoint
  <2>2. lock.tree # <<>>
    BY <1>1, <2>1
  <2>3. QED
    BY <1>1, <2>2 DEF Inv, StoreInv, LockInv, StagingInv, Restores
<1>2. ASSUME Inv, lock # None, pub # None, ~(Len(pub.tree) < Len(lock.tree))
      PROVE  Complete(lock.tree)
  <2>1. lock.tree \in Seq(Leaf) /\ pub.tree \in Seq(Leaf)
    BY <1>2 DEF Inv, TypeOK, StoreType, Checkpoint
  <2>2. IsPrefix(pub.tree, lock.tree) /\ Complete(pub.tree)
    BY <1>2 DEF Inv, StoreInv, PubInv, Committed
  <2>3. Len(pub.tree) = Len(lock.tree)
    BY <1>2, <2>1, <2>2, PrefixDef
  <2>4. pub.tree = lock.tree
    BY <2>1, <2>2, <2>3, PrefixWhole
  <2>5. QED
    BY <2>2, <2>4
<1>3. Inv => Recoverable
  BY <1>1, <1>2 DEF Recoverable, Covers, Stored
<1>4. QED
  BY <1>3, Invariance, PTL

(* Every SCT is for a leaf of the committed tree, at its index.            *)
THEOREM PromisesKept == Spec => []SCTsHonoured
<1>1. Inv => SCTsHonoured
  BY DEF Inv, StoreInv
<1>2. QED
  BY <1>1, Invariance, PTL

(* In a signed tree, indexes are positions and no leaf is newer than the   *)
(* head.                                                                   *)
THEOREM TimesInOrder == Spec => []CheckpointsWellTimed
<1>1. Inv => CheckpointsWellTimed
  BY DEF Inv, StoreInv, LockInv, PubInv, CheckpointsWellTimed
<1>2. QED
  BY <1>1, Invariance, PTL

(* The lock's tree is only ever extended, and its time advanced.           *)
THEOREM LockIsAppendOnly == Spec => LockAppendOnly
<1>1. Inv /\ [Next]_vars =>
        [lock # None =>
           /\ lock' # None
           /\ lock' # lock => IsPrefix(lock.tree, lock'.tree) /\ lock.time < lock'.time]_vars
  BY InvStep DEF Extended
<1>2. QED
  BY <1>1, Invariance, PTL DEF Spec, LockAppendOnly

(* A stored tile is never deleted nor changed.                             *)
THEOREM TilesAreImmutable == Spec => TilesImmutable
<1>1. Inv /\ [Next]_vars =>
        [\A t \in DOMAIN tiles : t \in DOMAIN tiles' /\ tiles'[t] = tiles[t]]_vars
  BY InvStep DEF Extended
<1>2. QED
  BY <1>1, Invariance, PTL DEF Spec, TilesImmutable

-----------------------------------------------------------------------------
(* Refinement.  Sequencer implements the abstract log of CTLog: every      *)
(* request that takes effect, on time or late, is a step of the abstract   *)
(* log, or none.  First, any number of instances.                          *)

(* The abstract log's types are the sequencer's.                           *)
LEMMA SharedTypes ==
    /\ Shared!Checkpoint = Checkpoint
    /\ \A c, d : Shared!IsPrefix(c, d) <=> IsPrefix(c, d)
    /\ \A c : Shared!Range(c) = {c[x] : x \in DOMAIN c}
BY DEF Shared!Checkpoint, Shared!Leaf, Checkpoint, Leaf, Shared!IsPrefix, IsPrefix, Shared!Range

(* A Replace that takes effect creates the log or makes it grow.           *)
LEMMA ReplaceRefines ==
    ASSUME TypeOK, NEW r \in Request, r.op = "replace", RequestOK(r), Effect(r), UNCHANGED scts
    PROVE  [Shared!Next]_Shared!vars
<1>1. lock' = (IF lock = r.old THEN r.new ELSE lock) /\ UNCHANGED pub
  BY DEF Effect
<1>2. r.new \in Checkpoint
  BY DEF Request, ReplaceRequest, StagingRequest, TileRequest, CheckpointRequest
<1>3. CASE lock # r.old
  BY <1>1, <1>3 DEF Shared!vars
<1>4. CASE lock = r.old /\ lock = None
  <2>1. Shared!Create
    BY <1>1, <1>2, <1>4, SharedTypes DEF RequestOK, ReplaceOK, Shared!Create
  <2>2. QED
    BY <2>1 DEF Shared!Next
<1>5. CASE lock = r.old /\ lock # None
  <2>1. lock \in Checkpoint /\ lock' = r.new /\ Successor(lock, r.new)
    BY <1>1, <1>5, LockType DEF RequestOK, ReplaceOK
  <2>2. lock'.time > lock.time
    BY <1>2, <2>1 DEF Successor, Checkpoint
  <2>3. Shared!Grow
    BY <1>1, <1>2, <1>5, <2>1, <2>2, SharedTypes DEF Successor, Shared!Grow
  <2>4. QED
    BY <2>3 DEF Shared!Next
<1>6. QED
  BY <1>3, <1>4, <1>5

(* An upload that takes effect shows a committed tree, or nothing.         *)
LEMMA EffectRefines ==
    ASSUME TypeOK, NEW r \in Request, RequestOK(r), Effect(r), UNCHANGED scts
    PROVE  [Shared!Next]_Shared!vars
<1>1. CASE r.op = "replace"
  BY <1>1, ReplaceRefines
<1>2. CASE r.op \in {"staging", "tile"}
  BY <1>2 DEF Effect, Shared!vars
<1>3. CASE r.op = "checkpoint"
  <2>1. pub' = r.new /\ UNCHANGED lock
    BY <1>3 DEF Effect
  <2>2. r.new \in Checkpoint
    BY <1>3 DEF Request, ReplaceRequest, StagingRequest, TileRequest, CheckpointRequest
  <2>3. Shared!Show
    BY <1>3, <2>1, <2>2, SharedTypes DEF RequestOK, Committed, Shared!Show
  <2>4. QED
    BY <2>3 DEF Shared!Next
<1>4. QED
  BY <1>1, <1>2, <1>3 DEF Effect

(* So does whatever comes of a request: its effect, or none yet.           *)
LEMMA RequestRefines ==
    ASSUME TypeOK, NEW r \in Request, RequestOK(r), Succeeds(r) \/ Fails(r), UNCHANGED scts
    PROVE  [Shared!Next]_Shared!vars
<1>1. CASE Effect(r)
  BY <1>1, EffectRefines
<1>2. CASE UNCHANGED store
  BY <1>2 DEF store, Shared!vars
<1>3. QED
  BY <1>1, <1>2 DEF Succeeds, Fails

(* The SCTs of a round are promises of leaves in the head's tree.          *)
LEMMA FinishRefines ==
    ASSUME Inv, Inv', NEW i \in Instances, Finish(i)
    PROVE  Shared!Promise
<1>1. pub # None /\ UNCHANGED <<lock, pub>> /\ scts \subseteq scts'
  BY DEF Inv, InstanceInv, Finish, Loaded, Sequencing, store
<1>2. ASSUME NEW s \in scts'
      PROVE  s \in {lock.tree[x] : x \in DOMAIN lock.tree}
  <2>1. /\ lock # None /\ s \in Leaf /\ s.idx < Len(lock.tree) /\ lock.tree[s.idx + 1] = s
    BY <1>1 DEF Inv, StoreInv, SCTsHonoured, TypeOK
  <2>2. s.idx \in Nat /\ lock.tree \in Seq(Leaf)
    BY <2>1, LockType DEF Leaf, Inv
  <2>3. s.idx + 1 \in DOMAIN lock.tree
    BY <2>1, <2>2
  <2>4. QED
    BY <2>1, <2>3
<1>3. QED
  BY <1>1, <1>2, SharedTypes DEF Shared!Promise

(* Every step of the sequencer is a step of the abstract log, or none.     *)
LEMMA SharedStep ==
    ASSUME Inv, [Next]_vars
    PROVE  [Shared!Next]_Shared!vars
<1>1. TypeOK /\ Inv'
  BY InvStep DEF Inv
<1>2. ASSUME NEW i \in Instances, Create(i) \/ Progress(i) \/ Fault(i)
      PROVE  [Shared!Next]_Shared!vars
  <2>1. InstanceInv(i)
    BY DEF Inv
  <2>2. CASE CreateLock(i) \/ CreateLockErr(i)
    BY <1>1, <2>1, <2>2, IssuedOK, IssuedType, RequestRefines DEF CreateLock, CreateLockErr
  <2>3. CASE CreatePub(i) \/ CreatePubErr(i)
    BY <1>1, <2>1, <2>3, IssuedOK, IssuedType, RequestRefines DEF CreatePub, CreatePubErr
  <2>4. CASE ApplyTile(i)
    <3>1. PICK u \in round[i].todo : Succeeds(UploadTile(u))
      BY <2>4 DEF ApplyTile
    <3>2. QED
      BY <1>1, <2>1, <2>4, <3>1, IssuedOK, IssuedType, RequestRefines DEF ApplyTile
  <2>5. CASE Stage(i) \/ StageErr(i)
    BY <1>1, <2>1, <2>5, IssuedOK, IssuedType, RequestRefines DEF Stage, StageErr
  <2>6. CASE Commit(i) \/ CommitErr(i)
    BY <1>1, <2>1, <2>6, IssuedOK, IssuedType, RequestRefines DEF Commit, CommitErr, Serialized
  <2>7. CASE Publish(i) \/ PublishErr(i)
    BY <1>1, <2>1, <2>7, IssuedOK, IssuedType, RequestRefines DEF Publish, PublishErr
  <2>8. CASE Finish(i)
    BY <1>1, <2>8, FinishRefines DEF Shared!Next
  <2>9. CASE UNCHANGED <<store, scts>>
    BY <2>9 DEF store, Shared!vars
  <2>10. CASE CreateCheck(i) \/ LoadLock(i) \/ LoadPub(i) \/ LoadPubMissing(i) \/ Recover(i)
              \/ LoadEdge(i) \/ ApplyDone(i) \/ ApplyErr(i) \/ StartRound(i) \/ TimeStuck(i)
              \/ Crash(i)
    BY <2>9, <2>10 DEF CreateCheck, LoadLock, LoadPub, LoadPubMissing, Recover, LoadEdge,
                       ApplyDone, ApplyErr, StartRound, BeginRound, TimeStuck, Crash
  <2>11. QED
    BY <1>2, <2>2, <2>3, <2>4, <2>5, <2>6, <2>7, <2>8, <2>10 DEF Create, Progress, Fault
<1>3. ASSUME Land
      PROVE  [Shared!Next]_Shared!vars
  <2>1. PICK r \in inflight : Effect(r)
    BY <1>3 DEF Land
  <2>2. r \in Request /\ RequestOK(r) /\ UNCHANGED scts
    BY <1>1, <1>3 DEF Land, Inv, StoreInv, InflightInv, TypeOK
  <2>3. QED
    BY <1>1, <2>1, <2>2, EffectRefines
<1>4. CASE UNCHANGED vars
  BY <1>4 DEF vars, Shared!vars
<1>5. QED
  BY <1>2, <1>3, <1>4 DEF Next

(* Any number of instances, whatever requests fail, land unnoticed or land *)
(* late, are one append-only log to those outside: it is created empty, it *)
(* only grows, what is published is a part of it, and SCTs are for its     *)
(* leaves.                                                                 *)
THEOREM SequencerImplementsSharedLog == Spec => ImplementsSharedLog
<1>1. Init => Shared!Init
  BY DEF Init, Shared!Init
<1>2. Inv /\ [Next]_vars => [Shared!Next]_Shared!vars
  BY SharedStep
<1>3. QED
  BY <1>1, <1>2, Invariance, PTL DEF Spec, ImplementsSharedLog, Shared!Spec

-----------------------------------------------------------------------------
(* A single instance, whose checkpoint uploads do not land late.           *)

SoleWriter == (\A i, j \in Instances : i = j) /\ "checkpoint" \notin LateOps

Running == Loading \cup Sequencing \cup {"idle"}

\* Nobody else publishes: an instance that has loaded its tree, from a lock
\* that is never behind, knows a tree that extends the published one, and
\* sees its own checkpoint published when its round finishes.
SoleOf(i) ==
    /\ pc[i] = "createPub" => pub = None
    /\ (pc[i] \in Running /\ pub # None) => IsPrefix(pub.tree, log[i].tree.tree)
    /\ pc[i] = "finish" => pub = round[i].next

SoleInv ==
    /\ \A r \in inflight : r.op # "checkpoint"
    /\ \A i \in Instances : SoleOf(i)
    /\ SCTsPublished

\* What a step may do to the published checkpoint.
PubGrows == (pub # None /\ pub' # pub) => pub' # None /\ IsPrefix(pub.tree, pub'.tree)

(* No upload of a checkpoint is left behind, and only one that takes       *)
(* effect changes what is published.                                       *)
LEMMA RequestPub ==
    ASSUME SoleWriter, SoleInv, NEW r, Succeeds(r) \/ Fails(r)
    PROVE  /\ \A q \in inflight' : q.op # "checkpoint"
           /\ r.op # "checkpoint" => UNCHANGED pub
           /\ UNCHANGED pub \/ pub' = r.new
           /\ (r.op = "checkpoint" /\ Succeeds(r)) => pub' = r.new
BY DEF SoleWriter, SoleInv, Succeeds, Fails, Abandon, Effect, store

(* The SCTs that were issued stay visible.                                 *)
LEMMA VisibleStays ==
    ASSUME TypeOK, TypeOK', SCTsPublished, PubGrows, UNCHANGED scts
    PROVE  SCTsPublished'
<1> SUFFICES ASSUME NEW s \in scts
             PROVE  pub' # None /\ s.idx < Len(pub'.tree)
  BY DEF SCTsPublished
<1>1. pub # None /\ s.idx < Len(pub.tree) /\ s.idx \in Nat
  BY DEF SCTsPublished, TypeOK, Leaf
<1>2. CASE pub' = pub
  BY <1>1, <1>2
<1>3. CASE pub' # pub
  <2>1. pub' # None /\ IsPrefix(pub.tree, pub'.tree)
    BY <1>1, <1>3 DEF PubGrows
  <2>2. pub.tree \in Seq(Leaf) /\ pub'.tree \in Seq(Leaf)
    BY <1>1, <2>1 DEF TypeOK, StoreType, Checkpoint
  <2>3. Len(pub.tree) <= Len(pub'.tree) /\ Len(pub.tree) \in Nat /\ Len(pub'.tree) \in Nat
    BY <2>1, <2>2, PrefixDef
  <2>4. QED
    BY <1>1, <2>1, <2>3
<1>4. QED
  BY <1>2, <1>3

(* A step of the sole instance: what has to be shown of it.                *)
LEMMA SoleLocal ==
    ASSUME SoleWriter, TypeOK, TypeOK', SoleInv, NEW i \in Instances,
           \A q \in inflight' : q.op # "checkpoint",
           SoleOf(i)', PubGrows, UNCHANGED scts
    PROVE  SoleInv' /\ PubGrows
<1>1. \A j \in Instances : j = i
  BY DEF SoleWriter
<1>2. \A j \in Instances : SoleOf(j)'
  BY <1>1
<1>3. SCTsPublished'
  BY VisibleStays DEF SoleInv
<1>4. QED
  BY <1>2, <1>3 DEF SoleInv

(* A step that publishes nothing and changes no tree.                      *)
LEMMA QuietStep ==
    ASSUME SoleWriter, TypeOK, TypeOK', SoleInv, NEW i \in Instances, UNCHANGED <<pub, scts>>,
           \A q \in inflight' : q.op # "checkpoint",
           \/ pc'[i] \in {"down", "create"}
           \/ /\ pc'[i] \in Running \ {"finish"}
              /\ pc[i] \in Running
              /\ log'[i].tree = log[i].tree
    PROVE  SoleInv' /\ PubGrows
<1>1. PubGrows
  BY DEF PubGrows
<1>2. pc'[i] # "createPub" /\ pc'[i] # "finish"
  BY DEF Running, Loading, Sequencing
<1>3. (pc'[i] \in Running /\ pub # None) => IsPrefix(pub.tree, log'[i].tree.tree)
  BY DEF SoleInv, SoleOf, Running, Loading, Sequencing
<1>4. SoleOf(i)'
  BY <1>2, <1>3 DEF SoleOf
<1>5. QED
  BY <1>1, <1>4, SoleLocal

LEMMA StopDown ==
    ASSUME TypeOK, NEW i \in Instances, Stop(i)
    PROVE  pc'[i] = "down"
BY DEF Stop, GoTo, TypeOK

(* CreateLog publishes only once, and before anything else is published.   *)
LEMMA SoleCreate ==
    ASSUME SoleWriter, Inv, TypeOK', SoleInv, NEW i \in Instances,
           Create(i) \/ CreateLockErr(i) \/ CreatePubErr(i)
    PROVE  SoleInv' /\ PubGrows
<1>0. TypeOK /\ StoreInv
  BY DEF Inv
<1>1. CASE CreateCheck(i)
  <2>1. pc'[i] = "create" /\ UNCHANGED <<pub, scts, inflight>>
    BY <1>0, <1>1, GoToLocal DEF CreateCheck, store
  <2>2. QED
    BY <1>0, <2>1, QuietStep DEF SoleInv
<1>2. CASE CreateLock(i)
  <2>1. UNCHANGED <<pub, scts>> /\ \A q \in inflight' : q.op # "checkpoint"
    BY <1>2, RequestPub DEF CreateLock, Replace
  <2>2. pub = None
    BY <1>0, <1>2 DEF CreateLock, StoreInv, PubInv, Committed
  <2>3. pc'[i] = "createPub"
    BY <1>0, <1>2, GoToLocal DEF CreateLock
  <2>4. SoleOf(i)' /\ PubGrows
    BY <2>1, <2>2, <2>3 DEF SoleOf, PubGrows, Running, Loading, Sequencing
  <2>5. QED
    BY <1>0, <2>1, <2>4, SoleLocal
<1>3. CASE CreateLockErr(i)
  <2>1. UNCHANGED <<pub, scts>> /\ \A q \in inflight' : q.op # "checkpoint"
    BY <1>3, RequestPub DEF CreateLockErr, Replace
  <2>2. QED
    BY <1>0, <1>3, <2>1, StopDown, QuietStep DEF CreateLockErr
<1>4. CASE CreatePub(i) \/ CreatePubErr(i)
  <2>1. UNCHANGED scts /\ \A q \in inflight' : q.op # "checkpoint"
    BY <1>4, RequestPub DEF CreatePub, CreatePubErr
  <2>2. pub = None
    BY <1>4 DEF CreatePub, CreatePubErr, SoleInv, SoleOf
  <2>3. pc'[i] = "down"
    BY <1>0, <1>4, StopDown DEF CreatePub, CreatePubErr
  <2>4. SoleOf(i)' /\ PubGrows
    BY <2>2, <2>3 DEF SoleOf, PubGrows, Running, Loading, Sequencing
  <2>5. QED
    BY <1>0, <2>1, <2>4, SoleLocal
<1>5. QED
  BY <1>1, <1>2, <1>3, <1>4 DEF Create

(* LoadLog starts from a tree that extends the published one.              *)
LEMMA SoleLoad ==
    ASSUME SoleWriter, Inv, TypeOK', SoleInv, NEW i \in Instances,
           LoadLock(i) \/ LoadPub(i) \/ LoadPubMissing(i) \/ Recover(i) \/ LoadEdge(i)
    PROVE  SoleInv' /\ PubGrows
<1>0. TypeOK /\ StoreInv
  BY DEF Inv
<1>1. UNCHANGED <<lock, pub, scts>> /\ \A q \in inflight' : q.op # "checkpoint"
  BY DEF LoadLock, LoadPub, LoadPubMissing, Recover, LoadEdge, store, SoleInv
<1>2. CASE LoadLock(i)
  <2>1. log'[i].tree = lock /\ pc'[i] = "loadPub"
    <3>1. pc'[i] = "loadPub"
      BY <1>0, <1>2, GoToLocal DEF LoadLock
    <3>2. log'[i] = [tree |-> lock, lockCheckpoint |-> lock, edgeTiles |-> <<>>]
      BY <1>0, <1>2 DEF LoadLock, TypeOK
    <3>3. QED
      BY <3>1, <3>2
  <2>2. pub # None => IsPrefix(pub.tree, lock.tree)
    BY <1>0 DEF StoreInv, PubInv, Committed
  <2>3. SoleOf(i)' /\ PubGrows
    BY <1>1, <2>1, <2>2 DEF SoleOf, PubGrows
  <2>4. QED
    BY <1>0, <1>1, <2>3, SoleLocal
<1>3. CASE Stop(i)
  BY <1>0, <1>1, <1>3, StopDown, QuietStep
<1>4. CASE LoadPub(i)
  <2>1. CASE UNCHANGED log /\ \E q \in {"loadEdge", "recover"} : GoTo(i, q, NoRound)
    <3>1. pc'[i] \in {"loadEdge", "recover"} /\ pc[i] = "loadPub"
      BY <1>0, <1>4, <2>1, GoToLocal DEF LoadPub
    <3>2. QED
      BY <1>0, <1>1, <2>1, <3>1, QuietStep DEF Running, Loading, Sequencing
  <2>2. QED
    BY <1>3, <1>4, <2>1 DEF LoadPub
<1>5. CASE Recover(i)
  <2>1. CASE UNCHANGED log /\ \E l : GoTo(i, "reapply", l)
    <3>1. pc'[i] = "reapply" /\ pc[i] = "recover"
      BY <1>0, <1>5, <2>1, GoToLocal DEF Recover
    <3>2. QED
      BY <1>0, <1>1, <2>1, <3>1, QuietStep DEF Running, Loading, Sequencing
  <2>2. QED
    BY <1>3, <1>5, <2>1 DEF Recover
<1>6. CASE LoadEdge(i)
  <2>1. CASE /\ GoTo(i, "idle", NoRound)
             /\ log' = [log EXCEPT ![i].edgeTiles = log[i].tree.tree]
    <3>1. pc'[i] = "idle" /\ pc[i] = "loadEdge"
      BY <1>0, <1>6, <2>1, GoToLocal DEF LoadEdge
    <3>2. log'[i].tree = log[i].tree
      BY <1>0, <2>1 DEF TypeOK, LogState
    <3>3. QED
      BY <1>0, <1>1, <3>1, <3>2, QuietStep DEF Running, Loading, Sequencing
  <2>2. QED
    BY <1>3, <1>6, <2>1 DEF LoadEdge
<1>7. QED
  BY <1>2, <1>3, <1>4, <1>5, <1>6 DEF LoadPubMissing

(* Up to the upload of the checkpoint a round publishes nothing; its       *)
(* commit extends the tree that the instance knows.                        *)
LEMMA SoleRound ==
    ASSUME SoleWriter, Inv, TypeOK', SoleInv, NEW i \in Instances,
           \/ ApplyTile(i) \/ ApplyErr(i) \/ ApplyDone(i) \/ StartRound(i) \/ TimeStuck(i)
           \/ Stage(i) \/ StageErr(i) \/ Commit(i) \/ CommitErr(i) \/ Crash(i)
    PROVE  SoleInv' /\ PubGrows
<1>0. TypeOK /\ InstanceInv(i)
  BY DEF Inv
<1>1. CASE ApplyTile(i)
  <2>1. PICK u : Succeeds(UploadTile(u))
    BY <1>1 DEF ApplyTile
  <2>2. UNCHANGED <<pub, scts, log>> /\ \A q \in inflight' : q.op # "checkpoint"
    BY <1>1, <2>1, RequestPub DEF ApplyTile, UploadTile
  <2>3. pc'[i] = pc[i] /\ pc[i] \in {"apply", "reapply"}
    BY <1>0, <1>1, GoToLocal DEF ApplyTile
  <2>4. QED
    BY <1>0, <2>2, <2>3, QuietStep DEF Running, Loading, Sequencing
<1>2. CASE ApplyErr(i)
  <2>1. UNCHANGED <<pub, scts>> /\ \A q \in inflight' : q.op # "checkpoint"
    BY <1>2 DEF ApplyErr, SoleInv, UploadTile, store
  <2>2. QED
    BY <1>0, <1>2, <2>1, StopDown, QuietStep DEF ApplyErr
<1>3. CASE ApplyDone(i)
  <2>1. UNCHANGED <<pub, scts, log>> /\ \A q \in inflight' : q.op # "checkpoint"
    BY <1>3 DEF ApplyDone, SoleInv, store
  <2>2. pc'[i] \in {"publish", "loadEdge"} /\ pc[i] \in {"apply", "reapply"}
    BY <1>0, <1>3, GoToLocal DEF ApplyDone
  <2>3. QED
    BY <1>0, <2>1, <2>2, QuietStep DEF Running, Loading, Sequencing
<1>4. CASE StartRound(i)
  <2>1. UNCHANGED <<pub, scts, log>> /\ \A q \in inflight' : q.op # "checkpoint"
    BY <1>4 DEF StartRound, BeginRound, SoleInv, store
  <2>2. pc'[i] = "stage" /\ pc[i] = "idle"
    BY <1>0, <1>4 DEF StartRound, BeginRound, GoTo, TypeOK
  <2>3. QED
    BY <1>0, <2>1, <2>2, QuietStep DEF Running, Loading, Sequencing
<1>5. CASE TimeStuck(i) \/ Crash(i)
  <2>1. UNCHANGED <<pub, scts>> /\ \A q \in inflight' : q.op # "checkpoint"
    BY <1>5 DEF TimeStuck, Crash, SoleInv, store
  <2>2. QED
    BY <1>0, <1>5, <2>1, StopDown, QuietStep DEF TimeStuck, Crash
<1>6. CASE Stage(i) \/ StageErr(i)
  <2>1. UNCHANGED <<pub, scts, log>> /\ \A q \in inflight' : q.op # "checkpoint"
    BY <1>6, RequestPub DEF Stage, StageErr, EndRound, UploadStaging
  <2>2. pc'[i] \in {"replace", "idle"} /\ pc[i] = "stage"
    BY <1>0, <1>6, GoToLocal DEF Stage, StageErr, EndRound
  <2>3. QED
    BY <1>0, <2>1, <2>2, QuietStep DEF Running, Loading, Sequencing
<1>7. CASE Commit(i)
  <2>1. UNCHANGED <<pub, scts>> /\ \A q \in inflight' : q.op # "checkpoint"
    BY <1>7, RequestPub DEF Commit, Serialized, Replace
  <2>2. pc'[i] = "apply" /\ pc[i] = "replace"
    BY <1>0, <1>7 DEF Commit, Serialized, GoTo, TypeOK
  <2>3. log'[i].tree = round[i].next
    <3>1. log'[i] = [tree |-> round[i].next, lockCheckpoint |-> round[i].next,
                     edgeTiles |-> round[i].next.tree]
      BY <1>0, <1>7 DEF Commit, Serialized, TypeOK
    <3>2. QED
      BY <3>1
  <2>4. IsPrefix(log[i].tree.tree, round[i].next.tree)
    BY <1>0, <2>2, NextSuccessor DEF InstanceInv, TypeOK, Successor
  <2>5. pub # None => IsPrefix(pub.tree, round[i].next.tree)
    <3>1. pub # None => IsPrefix(pub.tree, log[i].tree.tree)
      BY <2>2 DEF SoleInv, SoleOf, Running, Sequencing
    <3>2. /\ round[i].next.tree \in Seq(Leaf) /\ log[i].tree.tree \in Seq(Leaf)
          /\ pub # None => pub.tree \in Seq(Leaf)
      BY <1>0 DEF TypeOK, StoreType, LogState, RoundState, Checkpoint
    <3>3. QED
      BY <2>4, <3>1, <3>2, PrefixTransitive
  <2>6. SoleOf(i)' /\ PubGrows
    BY <2>1, <2>2, <2>3, <2>5 DEF SoleOf, PubGrows
  <2>7. QED
    BY <1>0, <2>1, <2>6, SoleLocal
<1>8. CASE CommitErr(i)
  <2>1. UNCHANGED <<pub, scts>> /\ \A q \in inflight' : q.op # "checkpoint"
    BY <1>8, RequestPub DEF CommitErr, Replace
  <2>2. QED
    BY <1>0, <1>8, <2>1, StopDown, QuietStep DEF CommitErr
<1>9. QED
  BY <1>1, <1>2, <1>3, <1>4, <1>5, <1>6, <1>7, <1>8

(* The checkpoint that a round uploads extends the published one, and when *)
(* the round's SCTs are issued it is what the public sees.                 *)
LEMMA SolePublish ==
    ASSUME SoleWriter, Inv, TypeOK', SoleInv, NEW i \in Instances,
           Publish(i) \/ PublishErr(i) \/ Finish(i)
    PROVE  SoleInv' /\ PubGrows
<1>0. TypeOK /\ InstanceInv(i) /\ ResultInv(i) /\ log[i].tree = round[i].next
  BY DEF Inv, InstanceInv, ResultInv, Publish, PublishErr, Finish
<1>1. PICK c \in Checkpoint : c = round[i].next
  BY <1>0 DEF TypeOK, RoundState
<1>2. c # None /\ c.tree \in Seq(Leaf) /\ IsPrefix(c.tree, c.tree)
  BY NoneNotCheckpoint, PrefixReflexive DEF Checkpoint
<1>3. CASE Publish(i) \/ PublishErr(i)
  <2>1. /\ UNCHANGED <<scts, log>>
        /\ \A q \in inflight' : q.op # "checkpoint"
        /\ UNCHANGED pub \/ pub' = c
        /\ Publish(i) => pub' = c
    BY <1>1, <1>3, RequestPub DEF Publish, PublishErr, EndRound, UploadCheckpoint
  <2>2. /\ pc[i] = "publish" /\ pc'[i] \in {"idle", "finish"}
        /\ pc'[i] = "finish" => Publish(i) /\ round'[i] = round[i]
    BY <1>0, <1>3, GoToLocal DEF Publish, PublishErr, EndRound
  <2>3. pub # None => IsPrefix(pub.tree, c.tree)
    BY <1>0, <1>1, <2>2 DEF SoleInv, SoleOf, Running, Sequencing
  <2>4. log'[i].tree = c
    BY <1>0, <1>1, <2>1
  <2>5. PubGrows
    BY <1>2, <2>1, <2>3 DEF PubGrows
  <2>6. SoleOf(i)'
    BY <1>1, <1>2, <2>1, <2>2, <2>3, <2>4 DEF SoleOf
  <2>7. QED
    BY <1>0, <2>1, <2>5, <2>6, SoleLocal
<1>4. CASE Finish(i)
  <2>1. /\ UNCHANGED <<pub, log, inflight>> /\ pc'[i] = "idle" /\ pc[i] = "finish"
    BY <1>0, <1>4, GoToLocal DEF Finish, EndRound, store
  <2>2. pub = c
    BY <1>1, <2>1 DEF SoleInv, SoleOf
  <2>3. SoleOf(i)' /\ PubGrows
    BY <1>0, <1>1, <1>2, <2>1, <2>2 DEF SoleOf, PubGrows
  <2>4. PICK r \in RoundState : r = round[i]
    BY <1>0 DEF TypeOK
  <2>5. /\ r.firstLeafIndex \in Nat /\ Len(r.pendingLeaves) \in Nat
        /\ r.firstLeafIndex + Len(r.pendingLeaves) = Len(c.tree)
    BY <1>0, <1>1, <2>4 DEF RoundState, ResultInv
  <2>6. scts' = scts \cup {AsLogEntry(r.pendingLeaves, j, r.firstLeafIndex, r.timestamp) :
                             j \in 1 .. Len(r.pendingLeaves)}
    BY <1>4, <2>4 DEF Finish
  <2>7. ASSUME NEW s \in scts'
        PROVE  s.idx < Len(pub.tree)
    <3>1. CASE s \in scts
      BY <3>1 DEF SoleInv, SCTsPublished
    <3>2. CASE \E j \in 1 .. Len(r.pendingLeaves) :
                  s = AsLogEntry(r.pendingLeaves, j, r.firstLeafIndex, r.timestamp)
      <4>1. PICK j \in 1 .. Len(r.pendingLeaves) :
                  s = AsLogEntry(r.pendingLeaves, j, r.firstLeafIndex, r.timestamp)
        BY <3>2
      <4>2. s.idx = r.firstLeafIndex + j - 1
        BY <4>1 DEF AsLogEntry
      <4>3. QED
        BY <2>2, <2>5, <4>2
    <3>3. QED
      BY <2>6, <3>1, <3>2
  <2>8. SCTsPublished'
    BY <1>2, <2>1, <2>2, <2>7 DEF SCTsPublished
  <2>9. \A j \in Instances : j = i
    BY DEF SoleWriter
  <2>10. QED
    BY <2>1, <2>3, <2>8, <2>9 DEF SoleInv
<1>5. QED
  BY <1>3, <1>4

(* Every step of the sole instance keeps its invariant.                    *)
LEMMA SoleStep ==
    ASSUME SoleWriter, Inv, SoleInv, [Next]_vars
    PROVE  SoleInv' /\ PubGrows
<1>0. TypeOK /\ TypeOK'
  BY TypeStep DEF Inv
<1>1. ASSUME NEW i \in Instances, Create(i) \/ Progress(i) \/ Fault(i)
      PROVE  SoleInv' /\ PubGrows
  BY <1>0, <1>1, SoleCreate, SoleLoad, SoleRound, SolePublish DEF Progress, Fault
<1>2. CASE Land
  <2>1. PICK r \in inflight : Effect(r) /\ inflight' = inflight \ {r}
    BY <1>2 DEF Land
  <2>2. UNCHANGED <<pub, pc, log, round, scts>>
    BY <1>2, <2>1 DEF Land, Effect, SoleInv
  <2>3. QED
    BY <2>1, <2>2 DEF SoleInv, SoleOf, PubGrows, SCTsPublished
<1>3. CASE UNCHANGED vars
  BY <1>3 DEF vars, SoleInv, SoleOf, PubGrows, SCTsPublished
<1>4. QED
  BY <1>1, <1>2, <1>3 DEF Next

LEMMA SoleInvariance == SoleWriter => (Spec => [](Inv /\ SoleInv))
<1> SUFFICES ASSUME SoleWriter PROVE Spec => [](Inv /\ SoleInv)
  OBVIOUS
<1>1. Init => SoleInv
  BY DEF Init, SoleInv, SoleOf, SCTsPublished, Running, Loading, Sequencing
<1>2. Inv /\ SoleInv /\ [Next]_vars => SoleInv'
  BY SoleStep
<1>3. QED
  BY <1>1, <1>2, Invariance, PTL DEF Spec

(* If a single process writes the log and no upload of a checkpoint lands  *)
(* late, every SCT that was returned is for a leaf of the tree the public  *)
(* sees, at the moment it is returned and ever after.                      *)
THEOREM SCTsVisible == SoleWriter => (Spec => []SCTsPublished)
<1> SUFFICES ASSUME SoleWriter PROVE Spec => []SCTsPublished
  OBVIOUS
<1>1. Inv /\ SoleInv => SCTsPublished
  BY DEF SoleInv
<1>2. QED
  BY <1>1, SoleInvariance, PTL

LEMMA SoleTypes ==
    /\ Sole!Checkpoint = Checkpoint
    /\ \A c, d : Sole!IsPrefix(c, d) <=> IsPrefix(c, d)
    /\ \A c : Sole!Range(c) = {c[x] : x \in DOMAIN c}
BY DEF Sole!Checkpoint, Sole!Leaf, Checkpoint, Leaf, Sole!IsPrefix, IsPrefix, Sole!Range

(* What the exclusive log asks for in addition.                            *)
LEMMA SoleRefines ==
    ASSUME SoleWriter, Inv, SoleInv, [Next]_vars
    PROVE  [Sole!Next]_Sole!vars
<1>1. Inv' /\ SoleInv' /\ PubGrows /\ [Shared!Next]_Shared!vars
  BY InvStep, SoleStep, SharedStep
<1>2. CASE Shared!Create
  BY <1>2, SharedTypes, SoleTypes DEF Shared!Create, Sole!Create, Sole!Next
<1>3. CASE Shared!Grow
  BY <1>3, SharedTypes, SoleTypes DEF Shared!Grow, Sole!Grow, Sole!Next
<1>4. CASE Shared!Show
  <2>1. CASE pub' = pub
    BY <1>4, <2>1 DEF Shared!Show, Sole!vars
  <2>2. CASE pub' # pub
    BY <1>1, <1>4, <2>2, SharedTypes, SoleTypes DEF Shared!Show, Sole!Show, Sole!Next, PubGrows
  <2>3. QED
    BY <2>1, <2>2
<1>5. CASE Shared!Promise
  <2>1. UNCHANGED <<lock, pub>> /\ pub # None /\ scts \subseteq scts'
    BY <1>5 DEF Shared!Promise
  <2>2. ASSUME NEW s \in scts'
        PROVE  s \in {pub.tree[x] : x \in DOMAIN pub.tree}
    <3>1. /\ s.idx < Len(pub.tree) /\ s.idx \in Nat
          /\ lock # None /\ lock.tree[s.idx + 1] = s
      BY <1>1, <2>1 DEF Inv, StoreInv, SCTsHonoured, TypeOK, Leaf, SoleInv, SCTsPublished
    <3>2. pub.tree \in Seq(Leaf) /\ lock.tree \in Seq(Leaf) /\ IsPrefix(pub.tree, lock.tree)
      BY <2>1, <3>1 DEF Inv, TypeOK, StoreType, Checkpoint, StoreInv, PubInv, Committed
    <3>3. s.idx + 1 \in DOMAIN pub.tree /\ s.idx + 1 \in 1 .. Len(pub.tree)
      BY <3>1, <3>2
    <3>4. pub.tree[s.idx + 1] = lock.tree[s.idx + 1]
      BY <3>2, <3>3, PrefixDef
    <3>5. QED
      BY <3>1, <3>3, <3>4
  <2>3. Sole!Promise
    BY <2>1, <2>2, SoleTypes DEF Sole!Promise
  <2>4. QED
    BY <2>3 DEF Sole!Next
<1>6. CASE UNCHANGED Shared!vars
  BY <1>6 DEF Shared!vars, Sole!vars
<1>7. QED
  BY <1>1, <1>2, <1>3, <1>4, <1>5, <1>6 DEF Shared!Next

(* A single process, whose checkpoint uploads do not land late, implements *)
(* the exclusive log: what the public sees only grows, through crashes and *)
(* recoveries, and an SCT is returned only for a leaf that it sees.        *)
THEOREM SequencerImplementsSoleLog == SoleWriter => (Spec => ImplementsSoleLog)
<1> SUFFICES ASSUME SoleWriter PROVE Spec => ImplementsSoleLog
  OBVIOUS
<1>1. Init => Sole!Init
  BY DEF Init, Sole!Init
<1>2. (Inv /\ SoleInv) /\ [Next]_vars => [Sole!Next]_Sole!vars
  BY SoleRefines
<1>3. QED
  BY <1>1, <1>2, SoleInvariance, PTL DEF Spec, ImplementsSoleLog, Sole!Spec
=============================================================================
