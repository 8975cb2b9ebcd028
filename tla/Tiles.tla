-------------------------------- MODULE Tiles --------------------------------
(***************************************************************************)
(* The geometry of the tiled Merkle tree that a Sunlight log is stored as. *)
(*                                                                         *)
(* A tree of N leaves is served as tiles.  The tile at level L >= 0 with   *)
(* number n holds up to TileWidth consecutive hashes, each the root of a   *)
(* perfect subtree of TileWidth^L leaves; "level -1" is the data tiles,    *)
(* which hold the leaves themselves and are laid out like level 0.         *)
(*                                                                         *)
(* Hashing is taken to be injective, so the content of a tile is the       *)
(* sequence of leaves under it, and the hash of a tree is the sequence of  *)
(* its leaves.                                                             *)
(***************************************************************************)
EXTENDS Integers, SequencesExt

CONSTANTS TileWidth,    \* hashes in a full tile (sunlight.TileWidth, 256)
          MaxLevel      \* the highest tile level that is looked at

Levels == 0 .. MaxLevel

\* Leaves under one hash of a level-l tile.
Span(l) == TileWidth ^ l

ASSUME TilesAssumption ==
    /\ TileWidth \in Nat \ {0, 1}
    /\ MaxLevel \in Nat
    /\ Span(0) = 1
    /\ \A l \in Levels : Span(l) \in Nat \ {0}

-----------------------------------------------------------------------------
(* A tile is named by its level, its number and its width: tlog.Tile.      *)

Tile == [L : Levels \cup {-1}, N : Nat, W : 1 .. TileWidth]

\* The level whose layout tile level L has: data tiles follow level 0.
Layout(L) == IF L = -1 THEN 0 ELSE L

\* How many complete hashes level L has in a tree of n leaves.
SizeAt(n, L) == n \div Span(Layout(L))

FullTiles(L, from, to) ==
    {[L |-> L, N |-> t, W |-> TileWidth] : t \in from .. (to - 1)}

PartialTile(L, size) ==
    IF size % TileWidth = 0
    THEN {}
    ELSE {[L |-> L, N |-> size \div TileWidth, W |-> size % TileWidth]}

TilesAt(L, size) ==
    FullTiles(L, 0, size \div TileWidth) \cup PartialTile(L, size)

\* Every tile a reader of a checkpoint of n leaves may ask for.
TilesOf(n) == UNION {TilesAt(L, SizeAt(n, L)) : L \in Levels \cup {-1}}

\* tlog.NewTiles: at every level that grew, the tiles from the one that held
\* the old right edge to the new right edge.
NewHashTiles(old, new) ==
    UNION {FullTiles(L, SizeAt(old, L) \div TileWidth, SizeAt(new, L) \div TileWidth)
             \cup PartialTile(L, SizeAt(new, L)) :
           L \in {l \in Levels : SizeAt(old, l) # SizeAt(new, l)}}

\* The data tiles sequencePool stages: one each time the growing tree reaches
\* a multiple of the width, and the leftover, if any leaf was added.
NewDataTiles(old, new) ==
    {[L |-> -1, N |-> (n \div TileWidth) - 1, W |-> TileWidth] :
        n \in {m \in (old + 1) .. new : m % TileWidth = 0}}
    \cup (IF new = old THEN {} ELSE PartialTile(-1, new))

NewTiles(old, new) == NewDataTiles(old, new) \cup NewHashTiles(old, new)

-----------------------------------------------------------------------------
(* What a tile holds.                                                      *)

From(t) == t.N * TileWidth * Span(Layout(t.L))
Upto(t) == (t.N * TileWidth + t.W) * Span(Layout(t.L))

\* The leaves under tile t of a tree with these leaves.
Content(t, leaves) == SubSeq(leaves, From(t) + 1, Upto(t))

-----------------------------------------------------------------------------
(* The right edge.                                                         *)

RightTile(n, L) ==
    LET size == SizeAt(n, L)
    IN  [L |-> L, N |-> (size - 1) \div TileWidth, W |-> ((size - 1) % TileWidth) + 1]

\* The tiles LoadLog reads for a tree of n > 0 leaves: those that hold the
\* hashes of the perfect subtrees the tree splits into (exactly the partial
\* tiles), those that authenticate the last leaf (the right-most ones, up to
\* the first partial one), and the right-most data tile.
EdgeTiles(n) ==
    {RightTile(n, L) :
        L \in {-1} \cup {l \in Levels :
                   /\ SizeAt(n, l) > 0
                   /\ \/ SizeAt(n, l) % TileWidth # 0
                      \/ \A k \in 0 .. (l - 1) : SizeAt(n, k) % TileWidth = 0}}
=============================================================================
