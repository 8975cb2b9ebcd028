------------------------------ MODULE Sequencer ------------------------------
(***************************************************************************)
(* The write path of a Sunlight log (internal/ctlog/ctlog.go): CreateLog,  *)
(* LoadLog, and the rounds of sequencePool, run by one or more instances   *)
(* of the program against one lock backend and one object storage bucket.  *)
(*                                                                         *)
(* Every request to either store is a step of its own.  A request may      *)
(* succeed; it may fail without effect; it may take effect and be reported *)
(* as failed; and it, or a copy sent as a hedge, may be abandoned by a     *)
(* timeout, a cancellation or a crash and take effect at any later time.   *)
(* An instance may crash between any two steps and start again.            *)
(*                                                                         *)
(* What is submitted, and who waits for it, is module Pool's: here a round *)
(* is handed any sequence of entries.                                      *)
(***************************************************************************)
EXTENDS Tiles, FiniteSetsExt

CONSTANTS Instances,    \* the processes that may run this log
          Cert,         \* the entries that are submitted
          None,         \* "no such object", for the lock and the checkpoint
          LateOps,      \* the kinds of request that may take effect late
          \* Bounds
          MaxTime,      \* clocks read 1 .. MaxTime
          MaxSize,      \* the log grows to at most MaxSize leaves
          PoolSize,     \* a round takes at most PoolSize entries
          MaxInflight   \* abandoned requests at any time

Leaf == [cert : Cert, idx : Nat, ts : Nat]

(* A signed tree head.  Its tree (size and root hash) is its leaves.       *)
Checkpoint == [tree : Seq(Leaf), time : Nat]

(* An object to upload: uploadAction.                                      *)
Upload == [key : Tile, data : Seq(Leaf)]

Times == 1 .. MaxTime

ASSUME SequencerAssumption ==
    /\ None \notin Checkpoint
    /\ MaxTime \in Nat /\ MaxSize \in Nat /\ PoolSize \in Nat /\ MaxInflight \in Nat
    /\ LateOps \subseteq {"replace", "staging", "tile", "checkpoint"}

VARIABLES
    \* The two stores
    lock,       \* the checkpoint in the lock backend
    pub,        \* the object "checkpoint", what the public sees
    staging,    \* the objects under "staging/": bundles, by tree
    tiles,      \* the objects under "tile/": contents, by tile
    inflight,   \* requests nobody waits for any more
    \* The instances
    pc,         \* where each instance is
    log,        \* the fields of the Log struct
    round,      \* the local state of the current call
    \* Ghost
    scts        \* every leaf a submitter was promised

store == <<lock, pub, staging, tiles>>
vars == <<lock, pub, staging, tiles, inflight, pc, log, round, scts>>

-----------------------------------------------------------------------------
(* Requests to the stores.                                                 *)

ReplaceRequest == [op : {"replace"}, old : Checkpoint \cup {None}, new : Checkpoint]
StagingRequest == [op : {"staging"}, path : Seq(Leaf), bundle : SUBSET Upload]
TileRequest == [op : {"tile"}, key : Tile, data : Seq(Leaf)]
CheckpointRequest == [op : {"checkpoint"}, new : Checkpoint]
Request == ReplaceRequest \cup StagingRequest \cup TileRequest \cup CheckpointRequest

\* LockBackend.Replace, and Create with old = None: compare and swap.
Replace(old, new) == [op |-> "replace", old |-> old, new |-> new]
\* Backend.Upload of a staging bundle, of a tile, and of the checkpoint.
UploadStaging(path, bundle) == [op |-> "staging", path |-> path, bundle |-> bundle]
UploadTile(u) == [op |-> "tile", key |-> u.key, data |-> u.data]
UploadCheckpoint(c) == [op |-> "checkpoint", new |-> c]

Put(f, x, v) == [y \in DOMAIN f \cup {x} |-> IF y = x THEN v ELSE f[y]]

\* (Mutant: a Replace that does not compare.)
EffectBlind(r) ==
    /\ lock' = IF r.op = "replace" THEN r.new ELSE lock
    /\ pub' = IF r.op = "checkpoint" THEN r.new ELSE pub
    /\ staging' = IF r.op = "staging" THEN Put(staging, r.path, r.bundle) ELSE staging
    /\ tiles' = IF r.op = "tile" THEN Put(tiles, r.key, r.data) ELSE tiles

\* Request r takes effect.
Effect(r) ==
    \/ /\ r.op = "replace"
       /\ lock' = IF lock = r.old THEN r.new ELSE lock
       /\ UNCHANGED <<pub, staging, tiles>>
    \/ /\ r.op = "staging"
       /\ staging' = Put(staging, r.path, r.bundle)
       /\ UNCHANGED <<lock, pub, tiles>>
    \/ /\ r.op = "tile"
       /\ tiles' = Put(tiles, r.key, r.data)
       /\ UNCHANGED <<lock, pub, staging>>
    \/ /\ r.op = "checkpoint"
       /\ pub' = r.new
       /\ UNCHANGED <<lock, staging, tiles>>

\* Nobody waits for r any more, but it is still under way.
Abandon(r) ==
    /\ r.op \in LateOps
    /\ Cardinality(inflight) < MaxInflight
    /\ inflight' = inflight \cup {r}

\* The caller is told that r took effect.  S3Backend.Upload may have sent it
\* twice, and leave the other one to its fate.
Succeeds(r) ==
    /\ Effect(r)
    /\ UNCHANGED inflight \/ (r.op # "replace" /\ Abandon(r))

\* The caller gets an error, and cannot tell whether r took effect, or will.
Fails(r) ==
    \/ /\ UNCHANGED <<store, inflight>>
    \/ /\ Effect(r)
       /\ UNCHANGED inflight
    \/ /\ Abandon(r)
       /\ UNCHANGED store

-----------------------------------------------------------------------------
(* The state of an instance.                                               *)

Empty == [tree |-> <<>>, time |-> 0]

\* Log.tree, Log.lockCheckpoint, and the tree Log.edgeTiles is the edge of.
LogState == [tree : Checkpoint, lockCheckpoint : Checkpoint, edgeTiles : Seq(Leaf)]
NoLog == [tree |-> Empty, lockCheckpoint |-> Empty, edgeTiles |-> <<>>]

\* sequencePool's pool and locals; todo is what applyStagedUploads has left.
RoundState == [pendingLeaves : Seq(Cert), firstLeafIndex : Nat, timestamp : Nat,
               next : Checkpoint, bundle : SUBSET Upload, todo : SUBSET Upload]
NoRound == [pendingLeaves |-> <<>>, firstLeafIndex |-> 0, timestamp |-> 0,
            next |-> Empty, bundle |-> {}, todo |-> {}]

Creating == {"create", "createPub"}
Loading == {"loadPub", "recover", "reapply", "loadEdge"}
Sequencing == {"stage", "replace", "apply", "publish", "finish"}

\* Instance i goes on at step p, with local state l.
GoTo(i, p, l) ==
    /\ pc' = [pc EXCEPT ![i] = p]
    /\ round' = [round EXCEPT ![i] = l]

\* The process exits, by an error or a crash, and forgets everything.
Stop(i) ==
    /\ GoTo(i, "down", NoRound)
    /\ log' = [log EXCEPT ![i] = NoLog]

\* The round ends and the sequencer waits for the next tick.
EndRound(i) ==
    /\ GoTo(i, "idle", NoRound)
    /\ UNCHANGED log

Init ==
    /\ lock = None
    /\ pub = None
    /\ staging = <<>>
    /\ tiles = <<>>
    /\ inflight = {}
    /\ pc = [i \in Instances |-> "down"]
    /\ log = [i \in Instances |-> NoLog]
    /\ round = [i \in Instances |-> NoRound]
    /\ scts = {}

-----------------------------------------------------------------------------
(* CreateLog, run on the inception date.                                   *)

\* Both fetches must come back with an error.  The objects' absence is not a
\* guard: a fetch that fails for any other reason counts as "not there".
CreateCheck(i) ==
    /\ pc[i] = "down"
    /\ \E t \in Times :
          GoTo(i, "create", [NoRound EXCEPT !.next = [tree |-> <<>>, time |-> t]])
    /\ UNCHANGED <<store, inflight, log, scts>>

CreateLock(i) ==
    /\ pc[i] = "create"
    /\ lock = None
    /\ Succeeds(Replace(None, round[i].next))
    /\ GoTo(i, "createPub", round[i])
    /\ UNCHANGED <<log, scts>>

CreateLockErr(i) ==
    /\ pc[i] = "create"
    /\ Fails(Replace(None, round[i].next))
    /\ Stop(i)
    /\ UNCHANGED scts

\* main goes on to LoadLog, which starts from "down".
CreatePub(i) ==
    /\ pc[i] = "createPub"
    /\ Succeeds(UploadCheckpoint(round[i].next))
    /\ Stop(i)
    /\ UNCHANGED scts

CreatePubErr(i) ==
    /\ pc[i] = "createPub"
    /\ Fails(UploadCheckpoint(round[i].next))
    /\ Stop(i)
    /\ UNCHANGED scts

-----------------------------------------------------------------------------
(* LoadLog.                                                                *)

LoadLock(i) ==
    /\ pc[i] = "down"
    /\ lock # None
    /\ log' = [log EXCEPT ![i] = [tree |-> lock, lockCheckpoint |-> lock, edgeTiles |-> <<>>]]
    /\ GoTo(i, "loadPub", NoRound)
    /\ UNCHANGED <<store, inflight, scts>>

\* Compare the published checkpoint c1 with the lock's, c.
LoadPub(i) ==
    LET c == log[i].tree.tree
        c1 == pub.tree
    IN  /\ pc[i] = "loadPub"
        /\ pub # None
        /\ \/ /\ Len(c1) = Len(c) /\ c1 = c
              /\ GoTo(i, "loadEdge", NoRound)
              /\ UNCHANGED log
           \/ /\ Len(c1) < Len(c)
              /\ GoTo(i, "recover", NoRound)
              /\ UNCHANGED log
           \/ /\ (Len(c1) = Len(c) /\ c1 # c) \/ Len(c1) > Len(c)
              /\ Stop(i)
        /\ UNCHANGED <<store, inflight, scts>>

LoadPubMissing(i) ==
    /\ pc[i] = "loadPub"
    /\ pub = None
    /\ Stop(i)
    /\ UNCHANGED <<store, inflight, scts>>

\* Fetch the staging bundle of the lock's tree.
Recover(i) ==
    LET path == log[i].tree.tree
    IN  /\ pc[i] = "recover"
        /\ IF path \in DOMAIN staging
           THEN /\ GoTo(i, "reapply", [NoRound EXCEPT !.todo = staging[path]])
                /\ UNCHANGED log
           ELSE Stop(i)
        /\ UNCHANGED <<store, inflight, scts>>

\* The right edge is there, and its hashes lead to the root of c.
EdgeVerifies(c) ==
    \A t \in EdgeTiles(Len(c)) : t \in DOMAIN tiles /\ tiles[t] = Content(t, c)

LoadEdge(i) ==
    LET c == log[i].tree.tree
    IN  /\ pc[i] = "loadEdge"
        /\ IF c = <<>> \/ EdgeVerifies(c)
           THEN /\ GoTo(i, "idle", NoRound)
                /\ log' = [log EXCEPT ![i].edgeTiles = c]
           ELSE Stop(i)
        /\ UNCHANGED <<store, inflight, scts>>

-----------------------------------------------------------------------------
(* applyStagedUploads: the uploads of a bundle run concurrently, so they   *)
(* land one by one in any order.                                           *)

ApplyTile(i) ==
    /\ pc[i] \in {"apply", "reapply"}
    /\ \E u \in round[i].todo :
          /\ Succeeds(UploadTile(u))
          /\ GoTo(i, pc[i], [round[i] EXCEPT !.todo = @ \ {u}])
    /\ UNCHANGED <<log, scts>>

\* The first error cancels the uploads still running, which may land late.
\* It is fatal in sequencePool and fails LoadLog.
ApplyErr(i) ==
    /\ pc[i] \in {"apply", "reapply"}
    /\ \E late \in SUBSET {UploadTile(u) : u \in round[i].todo} :
          /\ late = {} \/ "tile" \in LateOps
          /\ Cardinality(inflight \cup late) <= MaxInflight
          /\ inflight' = inflight \cup late
    /\ Stop(i)
    /\ UNCHANGED <<store, scts>>

\* (Mutant: not waiting for the uploads.)
ApplyDoneEarly(i) ==
    /\ pc[i] \in {"apply", "reapply"}
    /\ GoTo(i, IF pc[i] = "apply" THEN "publish" ELSE "loadEdge", round[i])
    /\ UNCHANGED <<store, inflight, log, scts>>

ApplyDone(i) ==
    /\ pc[i] \in {"apply", "reapply"}
    /\ round[i].todo = {}
    /\ GoTo(i, IF pc[i] = "apply" THEN "publish" ELSE "loadEdge", round[i])
    /\ UNCHANGED <<store, inflight, log, scts>>

-----------------------------------------------------------------------------
(* sequencePool.                                                           *)

\* asLogEntry: entry number j of a pool, as a leaf.
AsLogEntry(certs, j, first, t) == [cert |-> certs[j], idx |-> first + j - 1, ts |-> t]

Leaves(certs, first, t) == [j \in 1 .. Len(certs) |-> AsLogEntry(certs, j, first, t)]

\* The tiles that take a tree of size old to the given leaves.
Bundle(old, leaves) ==
    {[key |-> t, data |-> Content(t, leaves)] : t \in NewTiles(old, Len(leaves))}

\* Up to the staging upload, sequencePool only computes: the new leaves are
\* numbered from the tree's size and hashed on top of the edge tiles.
BeginRound(i, certs, t) ==
    LET size == Len(log[i].tree.tree)
        leaves == log[i].edgeTiles \o Leaves(certs, size, t)
    IN  /\ pc[i] = "idle"
        /\ size + Len(certs) <= MaxSize
        /\ GoTo(i, "stage", [NoRound EXCEPT !.pendingLeaves = certs,
                                            !.next = [tree |-> leaves, time |-> t],
                                            !.bundle = Bundle(size, leaves)])
        /\ UNCHANGED <<store, inflight, log, scts>>

\* (Mutants: not looking at the time; not running empty rounds.)
StartRoundAnyTime(i) ==
    \E t \in Times, n \in 0 .. PoolSize : \E certs \in [1 .. n -> Cert] : BeginRound(i, certs, t)
StartRoundNonEmpty(i) ==
    \E t \in Times, n \in 1 .. PoolSize : \E certs \in [1 .. n -> Cert] :
        t > log[i].tree.time /\ BeginRound(i, certs, t)

StartRound(i) ==
    \E t \in Times, n \in 0 .. PoolSize : \E certs \in [1 .. n -> Cert] :
        t > log[i].tree.time /\ BeginRound(i, certs, t)

\* "time did not progress!" is fatal.
TimeStuck(i) ==
    /\ pc[i] = "idle"
    /\ \E t \in Times : t <= log[i].tree.time
    /\ Stop(i)
    /\ UNCHANGED <<store, inflight, scts>>

\* (Mutant: no staging.)
StageSkipped(i) ==
    /\ pc[i] = "stage"
    /\ GoTo(i, "replace", round[i])
    /\ UNCHANGED <<store, inflight, log, scts>>

\* Upload the bundle to staging.
Stage(i) ==
    /\ pc[i] = "stage"
    /\ Succeeds(UploadStaging(round[i].next.tree, round[i].bundle))
    /\ GoTo(i, "replace", round[i])
    /\ UNCHANGED <<log, scts>>

\* This error fails the pool, but not the sequencer; so does one in computing
\* the bundle, before it is uploaded, or in signing the tree head, after.
StageErr(i) ==
    /\ pc[i] = "stage"
    /\ Fails(UploadStaging(round[i].next.tree, round[i].bundle))
    /\ EndRound(i)
    /\ UNCHANGED scts

\* The pool is serialized: its results, and the new state of the Log.
Serialized(i, first) ==
    LET next == round[i].next
    IN  /\ log' = [log EXCEPT ![i] = [tree |-> next, lockCheckpoint |-> next,
                                      edgeTiles |-> next.tree]]
        /\ GoTo(i, "apply", [round[i] EXCEPT !.timestamp = next.time,
                                             !.firstLeafIndex = first,
                                             !.todo = round[i].bundle])
        /\ UNCHANGED scts

\* (Mutants: going on when the Replace is turned down; an index off by one;
\* l.tree assigned before p.firstLeafIndex is taken from it.)
CommitUnchecked(i) ==
    /\ pc[i] = "replace"
    /\ Succeeds(Replace(log[i].lockCheckpoint, round[i].next))
    /\ Serialized(i, Len(log[i].tree.tree))
CommitOffByOne(i) ==
    /\ pc[i] = "replace"
    /\ lock = log[i].lockCheckpoint
    /\ Succeeds(Replace(log[i].lockCheckpoint, round[i].next))
    /\ Serialized(i, Len(log[i].tree.tree) - 1)
CommitSwapped(i) ==
    /\ pc[i] = "replace"
    /\ lock = log[i].lockCheckpoint
    /\ Succeeds(Replace(log[i].lockCheckpoint, round[i].next))
    /\ Serialized(i, Len(round[i].next.tree))

\* Lock.Replace succeeds.
Commit(i) ==
    /\ pc[i] = "replace"
    /\ lock = log[i].lockCheckpoint
    /\ Succeeds(Replace(log[i].lockCheckpoint, round[i].next))
    /\ Serialized(i, Len(log[i].tree.tree))

\* Replace lost to another instance, or "we don't know the state of the
\* checkpoint in the database at this point": fatal.
CommitErr(i) ==
    /\ pc[i] = "replace"
    /\ Fails(Replace(log[i].lockCheckpoint, round[i].next))
    /\ Stop(i)
    /\ UNCHANGED scts

Publish(i) ==
    /\ pc[i] = "publish"
    /\ Succeeds(UploadCheckpoint(round[i].next))
    /\ GoTo(i, "finish", round[i])
    /\ UNCHANGED <<log, scts>>

\* (Mutant: the submitters are not told.)
PublishErrIgnored(i) ==
    /\ pc[i] = "publish"
    /\ Fails(UploadCheckpoint(round[i].next))
    /\ GoTo(i, "finish", round[i])
    /\ UNCHANGED <<log, scts>>

\* This error, too, fails the pool only: its leaves stay in the tree.
PublishErr(i) ==
    /\ pc[i] = "publish"
    /\ Fails(UploadCheckpoint(round[i].next))
    /\ EndRound(i)
    /\ UNCHANGED scts

\* close(p.done): the submitters get their SCTs.
Finish(i) ==
    LET p == round[i]
    IN  /\ pc[i] = "finish"
        /\ scts' = scts \cup {AsLogEntry(p.pendingLeaves, j, p.firstLeafIndex, p.timestamp) :
                                j \in 1 .. Len(p.pendingLeaves)}
        /\ EndRound(i)
        /\ UNCHANGED <<store, inflight>>

-----------------------------------------------------------------------------

\* Also any other error of CreateLog and LoadLog: a fetch that fails, a clock
\* that is behind the checkpoint's (openCheckpoint), a cache that won't open.
Crash(i) ==
    /\ pc[i] # "down"
    /\ Stop(i)
    /\ UNCHANGED <<store, inflight, scts>>

\* A request nobody waits for takes effect.
Land ==
    /\ \E r \in inflight :
          /\ Effect(r)
          /\ inflight' = inflight \ {r}
    /\ UNCHANGED <<pc, log, round, scts>>

\* The steps of a run in which nothing goes wrong, ...
Progress(i) ==
    \/ LoadLock(i) \/ LoadPub(i) \/ LoadPubMissing(i) \/ Recover(i) \/ LoadEdge(i)
    \/ ApplyTile(i) \/ ApplyDone(i)
    \/ StartRound(i) \/ Stage(i) \/ Commit(i) \/ Publish(i) \/ Finish(i)
Create(i) == CreateCheck(i) \/ CreateLock(i) \/ CreatePub(i)
\* ... and the others.
Fault(i) ==
    \/ CreateLockErr(i) \/ CreatePubErr(i) \/ ApplyErr(i)
    \/ TimeStuck(i) \/ StageErr(i) \/ CommitErr(i) \/ PublishErr(i)
    \/ Crash(i)

Next ==
    \/ \E i \in Instances : Create(i) \/ Progress(i) \/ Fault(i)
    \/ Land

Spec == Init /\ [][Next]_vars

-----------------------------------------------------------------------------
(* Properties.                                                             *)

StoreType ==
    /\ lock \in Checkpoint \cup {None}
    /\ pub \in Checkpoint \cup {None}
    /\ DOMAIN staging \subseteq Seq(Leaf)
    /\ staging \in [DOMAIN staging -> SUBSET Upload]
    /\ DOMAIN tiles \subseteq Tile
    /\ tiles \in [DOMAIN tiles -> Seq(Leaf)]

(* Every variable has its type: the shape of the two stores, of the Log    *)
(* struct and of sequencePool's locals.                                    *)
TypeOK ==
    /\ StoreType
    /\ inflight \subseteq Request
    /\ pc \in [Instances -> {"down", "idle"} \cup Creating \cup Loading \cup Sequencing]
    /\ log \in [Instances -> LogState]
    /\ round \in [Instances -> RoundState]
    /\ scts \subseteq Leaf

(* All the tiles of this tree are stored, with the right content.          *)
Complete(c) ==
    \A t \in TilesOf(Len(c)) : t \in DOMAIN tiles /\ tiles[t] = Content(t, c)

(* Whoever fetches the published checkpoint can fetch every tile of its    *)
(* tree and verify it, at any time: sequencePool uploads the checkpoint    *)
(* only after the tiles, and no failure, restart, recovery from staging or *)
(* competing instance takes a tile away or puts a wrong one in its place.  *)
PublishedReadable == pub # None => Complete(pub.tree)

(* The log never forks: the published tree is a prefix of the tree in the  *)
(* lock backend, signed no later, whichever instances sign and publish.    *)
PublishedConsistent ==
    pub # None =>
        /\ lock # None
        /\ IsPrefix(pub.tree, lock.tree)
        /\ pub.time <= lock.time

(* A step that replaces the checkpoint in the lock backend extends its     *)
(* tree and advances its time, also when a Replace reported as failed      *)
(* lands after another instance has read the lock.                         *)
LockAppendOnly ==
    [][lock # None =>
         /\ lock' # None
         /\ lock' # lock => IsPrefix(lock.tree, lock'.tree) /\ lock.time < lock'.time]_vars

(* A tile that is stored is never deleted nor overwritten with something   *)
(* else: the uploads of LoadLog's recovery, of a live round and of         *)
(* abandoned requests agree.  (optsHashTile and optsDataTile say           *)
(* "immutable" to every cache that serves the tile.)                       *)
TilesImmutable ==
    [][\A t \in DOMAIN tiles : t \in DOMAIN tiles' /\ tiles'[t] = tiles[t]]_vars

(* At any instant the two stores are enough to restart from ("recovery     *)
(* would be clean from database and object storage"): if LoadLog would     *)
(* apply the staging bundle of the lock's tree, the bundle is there and    *)
(* with it the tree is complete; if it would not, the tree is complete     *)
(* already.  An empty round writes an empty bundle to the path of the      *)
(* round before it, so this is more than "what was staged stays staged".   *)
Recoverable ==
    (lock # None /\ pub # None) =>
        IF Len(pub.tree) < Len(lock.tree)
        THEN /\ lock.tree \in DOMAIN staging
             /\ \A t \in TilesOf(Len(lock.tree)) :
                   \/ [key |-> t, data |-> Content(t, lock.tree)] \in staging[lock.tree]
                   \/ t \in DOMAIN tiles /\ tiles[t] = Content(t, lock.tree)
        ELSE Complete(lock.tree)

(* An SCT is kept: the leaf promised, with its index and timestamp, is at  *)
(* that index of the committed tree, for ever.                             *)
SCTsHonoured ==
    \A s \in scts :
        /\ lock # None
        /\ s.idx < Len(lock.tree)
        /\ lock.tree[s.idx + 1] = s

(* Leaves are numbered by their position and timestamped in order, and no  *)
(* leaf is newer than the tree head it is under (RFC 6962, Section 3.5, as *)
(* quoted at the timestamp field of pool).                                 *)
WellTimed(c) ==
    \A j \in 1 .. Len(c.tree) :
        /\ c.tree[j].idx = j - 1
        /\ c.tree[j].ts <= c.time
        /\ \A k \in 1 .. j : c.tree[k].ts <= c.tree[j].ts
CheckpointsWellTimed ==
    /\ lock # None => WellTimed(lock)
    /\ pub # None => WellTimed(pub)

(* Every leaf an SCT was returned for is in the tree the public sees now   *)
(* (ctlog.go, at the upload of the checkpoint: no "SCTs that, although     *)
(* safely serialized, wouldn't be part of a publicly visible tree").       *)
SCTsPublished ==
    \A s \in scts : pub # None /\ s.idx < Len(pub.tree)

-----------------------------------------------------------------------------
(* Refinement: the lock backend holds the abstract log's head, the object  *)
(* "checkpoint" is what is visible of it.                                  *)

Shared == INSTANCE CTLog WITH head <- lock, visible <- pub, promised <- scts, Exclusive <- FALSE
Sole == INSTANCE CTLog WITH head <- lock, visible <- pub, promised <- scts, Exclusive <- TRUE

(* Any number of instances implement the shared abstract log.              *)
ImplementsSharedLog == Shared!Spec

(* One instance, whose checkpoint uploads do not land late, implements the *)
(* exclusive one: in addition, the visible tree only grows, and an SCT is  *)
(* issued only for a leaf that is visible already.                         *)
ImplementsSoleLog == Sole!Spec
=============================================================================
