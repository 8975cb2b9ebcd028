----------------------------- MODULE SequencerInv -----------------------------
(***************************************************************************)
(* The inductive invariant of Sequencer: why its safety properties hold.   *)
(*                                                                         *)
(* The argument has three layers.  Every request, issued or abandoned, is  *)
(* harmless whenever it lands (RequestOK).  The stores are therefore only  *)
(* ever extended (StoreInv).  What an instance knows about the stores is   *)
(* true when it learns it and stays true (InstanceInv).                    *)
(***************************************************************************)
EXTENDS Sequencer

\* Tile t of tree c is stored.
Stored(t, c) == t \in DOMAIN tiles /\ tiles[t] = Content(t, c)

\* Checkpoint c is, or once was, the one in the lock backend: its tree is a
\* prefix of the lock's.
Committed(c) ==
    /\ lock # None
    /\ IsPrefix(c.tree, lock.tree)
    /\ c.time <= lock.time

\* These uploads are tiles of tree c.
TilesFrom(uploads, c) ==
    \A u \in uploads : u.key \in TilesOf(Len(c)) /\ u.data = Content(u.key, c)

\* The stored tiles and these uploads make tree c complete.
Covers(uploads, c) ==
    \A t \in TilesOf(Len(c)) :
        Stored(t, c) \/ [key |-> t, data |-> Content(t, c)] \in uploads

\* A bundle from which LoadLog can restore tree c.
Restores(bundle, c) == TilesFrom(bundle, c) /\ Covers(bundle, c)

\* A later checkpoint of the same log: what it adds is numbered on from the
\* last leaf, and stamped with the time of the new head.
Successor(old, new) ==
    /\ IsPrefix(old.tree, new.tree)
    /\ old.time < new.time
    /\ \A j \in (Len(old.tree) + 1) .. Len(new.tree) :
          new.tree[j].idx = j - 1 /\ new.tree[j].ts = new.time

\* A compare-and-swap that keeps the log whole if it takes effect.
ReplaceOK(old, new) ==
    IF old = None
    THEN new.tree = <<>>
    ELSE Successor(old, new) /\ new.tree \in DOMAIN staging

RequestOK(r) ==
    /\ r.op = "replace" => ReplaceOK(r.old, r.new)
    /\ r.op = "staging" => Restores(r.bundle, r.path)
    /\ r.op = "tile" => /\ lock # None
                        /\ Upto(r.key) <= Len(lock.tree)
                        /\ r.data = Content(r.key, lock.tree)
    /\ r.op = "checkpoint" => Committed(r.new) /\ Complete(r.new.tree) /\ WellTimed(r.new)

-----------------------------------------------------------------------------

LockInv ==
    lock # None =>
        /\ WellTimed(lock)
        /\ lock.tree # <<>> => lock.tree \in DOMAIN staging

PubInv == pub # None => Committed(pub) /\ Complete(pub.tree) /\ WellTimed(pub)

TilesInv ==
    \A t \in DOMAIN tiles :
        /\ lock # None
        /\ Upto(t) <= Len(lock.tree)
        /\ tiles[t] = Content(t, lock.tree)

StagingInv == \A c \in DOMAIN staging : Restores(staging[c], c)

InflightInv == \A r \in inflight : RequestOK(r)

StoreInv == LockInv /\ PubInv /\ TilesInv /\ StagingInv /\ InflightInv /\ SCTsHonoured

-----------------------------------------------------------------------------

\* What a round has computed: the tree it will commit, and its bundle.
RoundInv(i) ==
    LET r == round[i]
        c == log[i].tree
    IN  /\ r.next.tree = c.tree \o Leaves(r.pendingLeaves, Len(c.tree), r.next.time)
        /\ r.next.time > c.time
        /\ Restores(r.bundle, r.next.tree)

\* The leaves a committed round will promise are in the tree.
ResultInv(i) ==
    LET r == round[i]
    IN  /\ log[i].tree = r.next
        /\ r.firstLeafIndex + Len(r.pendingLeaves) = Len(r.next.tree)
        /\ \A j \in 1 .. Len(r.pendingLeaves) :
              r.next.tree[r.firstLeafIndex + j] =
                  AsLogEntry(r.pendingLeaves, j, r.firstLeafIndex, r.timestamp)

\* Past LoadPub: there is a published checkpoint.
Loaded == {"recover", "reapply", "loadEdge", "idle"} \cup Sequencing

InstanceInv(i) ==
    LET c == log[i].tree
        r == round[i]
    IN  /\ pc[i] \in Creating => r.next.tree = <<>>
        /\ pc[i] = "createPub" => Committed(r.next)
        /\ pc[i] \in Loading \cup Sequencing \cup {"idle"} =>
              /\ Committed(c)
              /\ WellTimed(c)
              /\ log[i].lockCheckpoint = c
        /\ pc[i] \in Loaded => pub # None
        /\ pc[i] \in Sequencing \cup {"idle"} => log[i].edgeTiles = c.tree
        /\ pc[i] \in {"loadEdge", "idle", "stage", "replace", "publish", "finish"} => Complete(c.tree)
        /\ pc[i] \in {"apply", "reapply"} => Restores(r.todo, c.tree)
        /\ pc[i] \in {"stage", "replace"} => RoundInv(i)
        /\ pc[i] = "replace" => r.next.tree \in DOMAIN staging
        /\ pc[i] \in {"apply", "publish", "finish"} => ResultInv(i)

(* The invariant: the types, the stores, and every instance.               *)
Inv == TypeOK /\ StoreInv /\ \A i \in Instances : InstanceInv(i)
=============================================================================
