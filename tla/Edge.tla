-------------------------------- MODULE Edge --------------------------------
(***************************************************************************)
(* The right edge of the tree, Log.edgeTiles: all that a round knows of    *)
(* the tree it extends.  sequencePool never reads a tile back from the     *)
(* object storage: every hash it combines, copies into a tile or signs     *)
(* comes from the right-most tile of some level, or from the round itself. *)
(*                                                                         *)
(* This module goes one level below Sequencer, whose rounds append to      *)
(* "the tree edgeTiles is the edge of": here hashes are named by their     *)
(* position, and what is checked is that each one needed is at hand, after *)
(* any succession of rounds, of rounds that were dropped, and of LoadLogs, *)
(* which keep fewer levels of the edge than rounds do.                     *)
(***************************************************************************)
EXTENDS Tiles, FiniteSetsExt

CONSTANTS Height,      \* of a tile in the binary tree (sunlight.TileHeight, 8)
          \* Bounds
          MaxSize,     \* leaves in the tree
          MaxRound     \* leaves in a round

ASSUME EdgeAssumption ==
    /\ Height \in Nat \ {0}
    /\ TileWidth = 2 ^ Height
    /\ MaxSize \in 1 .. (Span(MaxLevel + 1) - 1)
    /\ MaxRound \in Nat

VARIABLES
    \* Fields of Log
    size,       \* l.tree.N
    edge,       \* l.edgeTiles: the right-most tile known, by level
    edgeData,   \* the leaves in l.edgeTiles[-1].B
    \* sequencePool's locals
    pc,         \* where in sequencePool
    left,       \* leaves of the pool not yet added
    n,
    newEdge,    \* edgeTiles, the clone
    newEdgeData,
    dataTile,   \* the leaves in the data tile being filled
    newHashes,  \* the overlay
    tileUploads

log == <<size, edge, edgeData>>
locals == <<left, n, newEdge, newEdgeData, dataTile, newHashes, tileUploads>>
vars == <<log, pc, locals>>

-----------------------------------------------------------------------------
(* Hashes.  <<h, k>> is the hash of the leaves k * 2^h .. (k+1) * 2^h - 1. *)

Heights == 0 .. (Height * (MaxLevel + 1))

\* What the proofs need to know of powers.
ASSUME PowersAssumption ==
    /\ \A h \in Heights : 2^h \in Nat \ {0} /\ 2^(h + 1) = 2 * 2^h
    /\ \A g \in 0 .. Height : 2^Height = 2^g * 2^(Height - g)
    /\ \A l \in 0 .. (MaxLevel + 1), g \in 0 .. (Height - 1) : 2^(l * Height + g) = Span(l) * 2^g
    /\ \A l \in Levels : Span(l + 1) = Span(l) * TileWidth

\* The heights of the subtrees that leaf k completes, its own included.
Completed(k) == {h \in Heights : (k + 1) % 2^h = 0}

\* tlog.StoredHashes(k): what it returns, and what it reads to do so.
StoredHashes(k) == {<<h, ((k + 1) \div 2^h) - 1>> : h \in Completed(k)}
Siblings(k) == {<<h, (k \div 2^h) - 1>> : h \in {g \in Completed(k) : g + 1 \in Completed(k)}}

\* subTreeIndex: the perfect subtrees that a tree of m leaves splits into,
\* whose hashes tlog.TreeHash reads.
SubTrees(m) == {<<h, (m \div 2^h) - 1>> : h \in {g \in Heights : (m \div 2^g) % 2 = 1}}

\* tlog.ReadTileData(t) reads these.
TileData(t) == {<<t.L * Height, t.N * TileWidth + j>> : j \in 0 .. (t.W - 1)}

\* (Mutant: a width off by one.)
TileForOffByOne(hash) ==
    LET L == hash[1] \div Height
        width == 2 ^ (hash[1] - L * Height)
        first == hash[2] * width
    IN  [L |-> L, N |-> first \div TileWidth, W |-> (first % TileWidth) + width - 1]

\* tlog.TileForIndex: the narrowest tile from which a hash can be computed.
TileFor(hash) ==
    LET L == hash[1] \div Height
        width == 2 ^ (hash[1] - L * Height)
        first == hash[2] * width
    IN  [L |-> L, N |-> first \div TileWidth, W |-> (first % TileWidth) + width]

\* tlog.HashFromTile(t, hash) succeeds.
InTile(t, hash) ==
    LET s == TileFor(hash) IN s.L = t.L /\ s.N = t.N /\ s.W <= t.W

\* A map with its entries replaced, or added to, by those of another.
Updated(map, by) ==
    [x \in DOMAIN map \cup DOMAIN by |-> IF x \in DOMAIN by THEN by[x] ELSE map[x]]

\* Log.hashReader: the overlay first, then the edge as the round found it.
Found(hashes) ==
    \A hash \in hashes :
        \/ hash \in newHashes
        \/ \E L \in DOMAIN edge : InTile(edge[L], hash)

\* sequencePool returns, and its locals with it.
EndRound ==
    /\ pc' = "idle"
    /\ left' = 0 /\ n' = 0
    /\ newEdge' = <<>> /\ newEdgeData' = <<>>
    /\ dataTile' = <<>> /\ newHashes' = {} /\ tileUploads' = {}

-----------------------------------------------------------------------------
(* LoadLog.                                                                *)

\* tileParent: the k-th parent of t, as wide as a tree of m leaves has it.
TileParent(t, k, m) ==
    LET number == t.N \div Span(k)
        have == SizeAt(m, t.L + k) - number * TileWidth
    IN  [L |-> t.L + k, N |-> number, W |-> IF have < TileWidth THEN have ELSE TileWidth]

\* (Mutant: the tiles of the tree hash only.)
EdgeReadTreeHash(m) == {TileParent(TileFor(hash), 0, m) : hash \in SubTrees(m)}

\* The tiles tlog.TileHashReader fetches, and saves, to read the last leaf:
\* those of the tree hash, and the ones between that leaf and one of them.
EdgeRead(m) ==
    LET hashTiles == {TileParent(TileFor(hash), 0, m) : hash \in SubTrees(m)}
        up(k) == TileParent(TileFor(<<0, m - 1>>), k, m)
    IN  hashTiles \cup
        {up(k) : k \in {j \in Levels : \A i \in 0 .. j : up(i) \notin hashTiles}}

\* What is kept of these tiles: the right-most one of each level.
RightOf(t, s) == s.N < t.N \/ (s.N = t.N /\ s.W < t.W)
RightMost(tiles) ==
    [L \in {t.L : t \in tiles} |->
        CHOOSE t \in tiles : t.L = L /\ ~\E s \in tiles : s.L = L /\ RightOf(s, t)]

\* The leaves a data tile holds.
LeavesIn(t) == [j \in 1 .. t.W |-> t.N * TileWidth + j - 1]

\* The process stops, in a round or not, and starts again.
Load ==
    LET hashEdge == RightMost(EdgeRead(size))
        dataEdge == [hashEdge[0] EXCEPT !.L = -1]
    IN  /\ IF size = 0
           THEN edge' = <<>> /\ edgeData' = <<>>
           ELSE /\ edge' = Updated(hashEdge, [L \in {-1} |-> dataEdge])
                /\ edgeData' = LeavesIn(dataEdge)
        /\ UNCHANGED size
        /\ EndRound

-----------------------------------------------------------------------------
(* sequencePool.                                                           *)

Init ==
    /\ size = 0 /\ edge = <<>> /\ edgeData = <<>>
    /\ pc = "idle"
    /\ left = 0 /\ n = 0
    /\ newEdge = <<>> /\ newEdgeData = <<>>
    /\ dataTile = <<>> /\ newHashes = {} /\ tileUploads = {}

Begin ==
    /\ pc = "idle"
    /\ pc' = "add"
    /\ left' \in 0 .. MaxRound /\ size + left' <= MaxSize
    /\ n' = size
    /\ newEdge' = edge /\ newEdgeData' = edgeData
    /\ dataTile' = IF -1 \in DOMAIN edge /\ edge[-1].W < TileWidth THEN edgeData ELSE <<>>
    /\ newHashes' = {}
    /\ tileUploads' = {}
    /\ UNCHANGED log

\* The data tile that ends with leaf k becomes edgeTiles[-1], and is staged.
StageData(k, leaves) ==
    LET tile == [TileFor(<<0, k>>) EXCEPT !.L = -1]
    IN  /\ newEdge' = Updated(newEdge, [L \in {-1} |-> tile])
        /\ newEdgeData' = leaves
        /\ tileUploads' = tileUploads \cup {tile}

\* One iteration of the loop over the pool.  Were a hash not found, the
\* round would fail, and so would every round after it.
AddLeaf ==
    /\ pc = "add" /\ left > 0
    /\ Found(Siblings(n))
    /\ newHashes' = newHashes \cup StoredHashes(n)
    /\ n' = n + 1 /\ left' = left - 1
    /\ IF (n + 1) % TileWidth = 0
       THEN /\ StageData(n, Append(dataTile, n))
            /\ dataTile' = <<>>
       ELSE /\ dataTile' = Append(dataTile, n)
            /\ UNCHANGED <<newEdge, newEdgeData, tileUploads>>
    /\ UNCHANGED <<log, pc>>

\* (Mutant: also if no leaf was added.)
StageLeftoverAlways ==
    /\ pc = "add" /\ left = 0
    /\ pc' = "tiles"
    /\ IF n % TileWidth # 0
       THEN StageData(n - 1, dataTile)
       ELSE UNCHANGED <<newEdge, newEdgeData, tileUploads>>
    /\ UNCHANGED <<log, left, n, dataTile, newHashes>>

\* "Stage leftover partial data tile, if any."
StageLeftover ==
    /\ pc = "add" /\ left = 0
    /\ pc' = "tiles"
    /\ IF n # size /\ n % TileWidth # 0
       THEN StageData(n - 1, dataTile)
       ELSE UNCHANGED <<newEdge, newEdgeData, tileUploads>>
    /\ UNCHANGED <<log, left, n, dataTile, newHashes>>

\* The hashes read for the tree tiles and for the tree head.
FinalReads == SubTrees(n) \cup UNION {TileData(t) : t \in NewHashTiles(size, n)}

StageTiles ==
    LET hashTiles == NewHashTiles(size, n)
        further == {t \in hashTiles : t.L \in DOMAIN newEdge => RightOf(t, newEdge[t.L])}
    IN  /\ pc = "tiles"
        /\ Found(FinalReads)
        /\ newEdge' = Updated(newEdge, RightMost(further))
        /\ tileUploads' = tileUploads \cup hashTiles
        /\ pc' = "commit"
        /\ UNCHANGED <<log, left, n, newEdgeData, dataTile, newHashes>>

\* Lock.Replace succeeded.
Commit ==
    /\ pc = "commit"
    /\ size' = n /\ edge' = newEdge /\ edgeData' = newEdgeData
    /\ EndRound

\* (Mutant: edgeTiles is not a clone.)
DropAliased ==
    /\ pc = "commit"
    /\ EndRound
    /\ edge' = newEdge /\ edgeData' = newEdgeData
    /\ UNCHANGED size

\* The staging upload failed: the round is dropped, and the log goes on.
Drop ==
    /\ pc = "commit"
    /\ EndRound
    /\ UNCHANGED log

Next == Load \/ Begin \/ AddLeaf \/ StageLeftover \/ StageTiles \/ Commit \/ Drop

Spec == Init /\ [][Next]_vars

-----------------------------------------------------------------------------
(* Properties.                                                             *)

(* The numbers are numbers and the tiles are tiles.                        *)
TypeOK ==
    /\ size \in 0 .. MaxSize /\ n \in 0 .. MaxSize /\ left \in 0 .. MaxRound
    /\ pc \in {"idle", "add", "tiles", "commit"}
    /\ DOMAIN edge \cup DOMAIN newEdge \subseteq Levels \cup {-1}
    /\ Range(edge) \cup Range(newEdge) \cup tileUploads \subseteq Tile
    /\ Range(edgeData) \cup Range(newEdgeData) \cup Range(dataTile) \subseteq 0 .. MaxSize

(* No round ever misses a hash: those of its siblings, of the tiles it     *)
(* widens and of the tree head are in the overlay or in the edge, whether  *)
(* the edge was loaded by LoadLog, which skips the full tiles above the    *)
(* lowest partial one, or left behind by a round.  ("index not in overlay" *)
(* would fail every round from then on.)                                   *)
EveryHashFound ==
    /\ (pc = "add" /\ left > 0) => Found(Siblings(n))
    /\ pc = "tiles" => Found(FinalReads)

(* A round uploads exactly the tiles that its tree has and the tree before *)
(* it did not: none is left out, and none is uploaded twice.               *)
UploadsExact ==
    pc = "commit" => tileUploads = TilesOf(n) \ TilesOf(size)

(* The data tile grows with the tree: its leaves are the last ones, from   *)
(* the start of its tile, and it is named accordingly.                     *)
DataTileRight ==
    size > 0 => /\ edge[-1] = RightTile(size, -1)
                /\ edgeData = LeavesIn(edge[-1])

(* A restart changes nothing: whatever LoadLog would load for a level is   *)
(* what the rounds left there.                                             *)
ReloadAgrees ==
    size > 0 => LET loaded == RightMost(EdgeRead(size))
                IN  \A L \in DOMAIN loaded : L \in DOMAIN edge /\ edge[L] = loaded[L]

(* EdgeTiles, by which Sequencer describes what LoadLog reads, is what     *)
(* tlog.TileHashReader reads, and the data tile.                           *)
EdgeTilesRight ==
    size > 0 => EdgeTiles(size) = EdgeRead(size) \cup {RightTile(size, -1)}
=============================================================================
