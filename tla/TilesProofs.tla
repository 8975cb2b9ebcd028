----------------------------- MODULE TilesProofs -----------------------------
(***************************************************************************)
(* Facts about the tile geometry, for every tile width and every size.     *)
(***************************************************************************)
EXTENDS Tiles, TLAPS

-----------------------------------------------------------------------------
(* Sequences and prefixes.                                                 *)

(* A sequence is a prefix of another when it agrees with it as far as it   *)
(* goes.                                                                   *)
LEMMA PrefixDef ==
    ASSUME NEW S, NEW p \in Seq(S), NEW q \in Seq(S)
    PROVE  IsPrefix(p, q) <=> Len(p) <= Len(q) /\ \A i \in 1 .. Len(p) : p[i] = q[i]
<1>1. SubSeq(p, 1, Len(p)) = p
  OBVIOUS
<1>2. Len(p) <= Len(q) =>
        /\ SubSeq(q, 1, Len(p)) \in Seq(S)
        /\ Len(SubSeq(q, 1, Len(p))) = Len(p)
        /\ \A i \in 1 .. Len(p) : SubSeq(q, 1, Len(p))[i] = q[i]
  OBVIOUS
<1>3. QED
  BY <1>1, <1>2 DEF IsPrefix

LEMMA PrefixReflexive ==
    ASSUME NEW S, NEW p \in Seq(S)
    PROVE  IsPrefix(p, p)
BY PrefixDef

LEMMA PrefixTransitive ==
    ASSUME NEW S, NEW p \in Seq(S), NEW q \in Seq(S), NEW r \in Seq(S),
           IsPrefix(p, q), IsPrefix(q, r)
    PROVE  IsPrefix(p, r)
<1>1. Len(p) <= Len(q) /\ \A i \in 1 .. Len(p) : p[i] = q[i]
  BY PrefixDef
<1>2. Len(q) <= Len(r) /\ \A i \in 1 .. Len(q) : q[i] = r[i]
  BY PrefixDef
<1>3. \A i \in 1 .. Len(p) : i \in 1 .. Len(q)
  BY <1>1
<1>4. Len(p) <= Len(r) /\ \A i \in 1 .. Len(p) : p[i] = r[i]
  BY <1>1, <1>2, <1>3
<1>5. QED
  BY <1>4, PrefixDef

LEMMA PrefixEmpty ==
    ASSUME NEW S, NEW q \in Seq(S)
    PROVE  IsPrefix(<<>>, q)
<1> DEFINE e == <<>>
<1>1. e \in Seq(S) /\ Len(e) <= Len(q) /\ \A i \in 1 .. Len(e) : e[i] = q[i]
  OBVIOUS
<1> HIDE DEF e
<1>2. IsPrefix(e, q)
  BY <1>1, PrefixDef
<1>3. QED
  BY <1>2 DEF e

LEMMA PrefixConcat ==
    ASSUME NEW S, NEW p \in Seq(S), NEW q \in Seq(S)
    PROVE  IsPrefix(p, p \o q)
<1> DEFINE r == p \o q
<1>1. r \in Seq(S) /\ Len(p) <= Len(r) /\ \A i \in 1 .. Len(p) : p[i] = r[i]
  OBVIOUS
<1> HIDE DEF r
<1>2. IsPrefix(p, r)
  BY <1>1, PrefixDef
<1>3. QED
  BY <1>2 DEF r

(* A prefix that is not shorter is the whole sequence.                     *)
LEMMA PrefixWhole ==
    ASSUME NEW S, NEW p \in Seq(S), NEW q \in Seq(S), IsPrefix(p, q), Len(q) <= Len(p)
    PROVE  p = q
<1>1. Len(p) = Len(q) /\ \A i \in 1 .. Len(p) : p[i] = q[i]
  BY PrefixDef
<1>2. QED
  BY <1>1

-----------------------------------------------------------------------------
(* Tiles.                                                                  *)

LEMMA DivMul ==
    ASSUME NEW n \in Nat, NEW s \in Nat \ {0}
    PROVE  /\ n \div s \in Nat
           /\ (n \div s) * s <= n
           /\ n % s \in 0 .. (s - 1)
           /\ n = (n \div s) * s + (n % s)
OBVIOUS

LEMMA TimesMonotone ==
    ASSUME NEW a \in Nat, NEW b \in Nat, a <= b, NEW s \in Nat
    PROVE  a * s <= b * s
OBVIOUS

LEMMA SpanPositive ==
    ASSUME NEW L \in Levels \cup {-1}
    PROVE  Span(Layout(L)) \in Nat \ {0}
BY TilesAssumption DEF Layout, Levels

LEMMA SizeAtNat ==
    ASSUME NEW n \in Nat, NEW L \in Levels \cup {-1}
    PROVE  SizeAt(n, L) \in Nat /\ SizeAt(n, L) * Span(Layout(L)) <= n
<1>1. Span(Layout(L)) \in Nat \ {0}
  BY SpanPositive
<1>2. QED
  BY <1>1, DivMul DEF SizeAt

(* A tile of a level of a given size is a tile, and ends within it.        *)
LEMMA TilesAtBound ==
    ASSUME NEW L \in Levels \cup {-1}, NEW size \in Nat, NEW t \in TilesAt(L, size)
    PROVE  /\ t \in Tile
           /\ t.L = L
           /\ t.N * TileWidth + t.W <= size
<1> DEFINE q == size \div TileWidth
<1>0. TileWidth \in Nat \ {0} /\ TileWidth >= 2
  BY TilesAssumption
<1>1. q \in Nat /\ q * TileWidth <= size /\ size = q * TileWidth + (size % TileWidth)
        /\ size % TileWidth \in 0 .. (TileWidth - 1)
  BY <1>0, DivMul
<1>2. CASE t \in FullTiles(L, 0, q)
  <2>1. PICK n \in 0 .. (q - 1) : t = [L |-> L, N |-> n, W |-> TileWidth]
    BY <1>2 DEF FullTiles
  <2>2. n \in Nat /\ n + 1 <= q
    BY <2>1, <1>1
  <2>3. (n + 1) * TileWidth <= q * TileWidth
    BY <2>2, <1>0, <1>1, TimesMonotone
  <2>4. n * TileWidth + TileWidth = (n + 1) * TileWidth
    BY <2>2, <1>0
  <2>5. n * TileWidth + TileWidth <= size
    BY <2>2, <2>3, <2>4, <1>0, <1>1
  <2>6. QED
    BY <2>1, <2>2, <2>5, <1>0 DEF Tile
<1>3. CASE t \in PartialTile(L, size)
  <2>1. size % TileWidth # 0 /\ t = [L |-> L, N |-> q, W |-> size % TileWidth]
    BY <1>3 DEF PartialTile
  <2>2. QED
    BY <2>1, <1>0, <1>1 DEF Tile
<1>4. QED
  BY <1>2, <1>3 DEF TilesAt

(* Every tile of a tree is a tile, and holds leaves of that tree only.     *)
LEMMA TilesOfBound ==
    ASSUME NEW n \in Nat, NEW t \in TilesOf(n)
    PROVE  t \in Tile /\ From(t) \in Nat /\ Upto(t) \in Nat /\ Upto(t) <= n
<1>1. PICK L \in Levels \cup {-1} : t \in TilesAt(L, SizeAt(n, L))
  BY DEF TilesOf
<1> DEFINE s == Span(Layout(L))
           a == t.N * TileWidth + t.W
<1>2. s \in Nat \ {0} /\ SizeAt(n, L) \in Nat /\ SizeAt(n, L) * s <= n
  BY SpanPositive, SizeAtNat
<1>3. t \in Tile /\ t.L = L /\ a <= SizeAt(n, L)
  BY <1>1, <1>2, TilesAtBound
<1>4. t.N \in Nat /\ t.W \in Nat /\ TileWidth \in Nat
  BY <1>3, TilesAssumption DEF Tile
<1>5. a \in Nat /\ t.N * TileWidth \in Nat
  BY <1>4
<1>6. a * s <= SizeAt(n, L) * s
  BY <1>2, <1>3, <1>5, TimesMonotone
<1>7. Upto(t) = a * s /\ From(t) = (t.N * TileWidth) * s
  BY <1>3 DEF Upto, From
<1>8. a * s \in Nat /\ (t.N * TileWidth) * s \in Nat /\ SizeAt(n, L) * s \in Nat
  BY <1>2, <1>5
<1> HIDE DEF s, a
<1>9. QED
  BY <1>2, <1>3, <1>6, <1>7, <1>8

(* No tile is empty.                                                       *)
LEMMA TilePositive ==
    ASSUME NEW t \in Tile
    PROVE  Upto(t) \in Nat /\ Upto(t) > 0
<1>1. t.N \in Nat /\ t.W \in Nat /\ t.W > 0 /\ TileWidth \in Nat /\ t.L \in Levels \cup {-1}
  BY TilesAssumption DEF Tile
<1>2. Span(Layout(t.L)) \in Nat \ {0}
  BY <1>1, SpanPositive
<1>3. t.N * TileWidth \in Nat
  BY <1>1
<1>4. t.N * TileWidth + t.W \in Nat \ {0}
  BY <1>1, <1>3
<1>5. \A a, b \in Nat \ {0} : a * b \in Nat /\ a * b > 0
  OBVIOUS
<1>6. QED
  BY <1>2, <1>4, <1>5 DEF Upto

(* A tile that ends within a prefix holds the same leaves in both: as a    *)
(* tree grows, its tiles keep their content.                               *)
LEMMA ContentStable ==
    ASSUME NEW S, NEW p \in Seq(S), NEW q \in Seq(S), IsPrefix(p, q),
           NEW t, From(t) \in Nat, Upto(t) \in Nat, Upto(t) <= Len(p)
    PROVE  Content(t, p) = Content(t, q)
<1>1. Len(p) <= Len(q) /\ \A i \in 1 .. Len(p) : p[i] = q[i]
  BY PrefixDef
<1>2. \A a, b \in Nat : b <= Len(p) => SubSeq(p, a + 1, b) = SubSeq(q, a + 1, b)
  BY <1>1
<1>3. QED
  BY <1>2 DEF Content

LEMMA ContentType ==
    ASSUME NEW S, NEW p \in Seq(S), NEW t, From(t) \in Nat, Upto(t) \in Nat, Upto(t) <= Len(p)
    PROVE  Content(t, p) \in Seq(S)
<1>1. \A a, b \in Nat : b <= Len(p) => SubSeq(p, a + 1, b) \in Seq(S)
  OBVIOUS
<1>2. QED
  BY <1>1 DEF Content

LEMMA DivMonotone ==
    ASSUME NEW m \in Nat, NEW n \in Nat, m <= n, NEW s \in Nat \ {0}
    PROVE  m \div s <= n \div s
OBVIOUS

(* When a level grows, its new tiles are the ones tlog.NewTiles lists:     *)
(* those from the old right edge on.                                       *)
LEMMA TilesAtGrow ==
    ASSUME NEW L, NEW old \in Nat, NEW new \in Nat, old <= new
    PROVE  TilesAt(L, new) \subseteq
             TilesAt(L, old) \cup FullTiles(L, old \div TileWidth, new \div TileWidth)
               \cup PartialTile(L, new)
<1>0. TileWidth \in Nat \ {0}
  BY TilesAssumption
<1>1. old \div TileWidth \in Nat /\ new \div TileWidth \in Nat
  BY <1>0, DivMul
<1>2. \A n \in 0 .. (new \div TileWidth) - 1 :
        n \in 0 .. (old \div TileWidth) - 1 \/ n \in (old \div TileWidth) .. (new \div TileWidth) - 1
  BY <1>1
<1>3. QED
  BY <1>2 DEF TilesAt, FullTiles

(* The data tiles that sequencePool stages while it adds leaves are the    *)
(* full tiles from the old right edge on, and the leftover.                *)
LEMMA NewDataTilesGrow ==
    ASSUME NEW old \in Nat, NEW new \in Nat, old <= new, old # new
    PROVE  FullTiles(-1, old \div TileWidth, new \div TileWidth) \cup PartialTile(-1, new)
             \subseteq NewDataTiles(old, new)
<1>0. TileWidth \in Nat \ {0}
  BY TilesAssumption
<1> DEFINE a == old \div TileWidth
           b == new \div TileWidth
<1>1. /\ a \in Nat /\ b \in Nat
      /\ b * TileWidth <= new
      /\ old = a * TileWidth + (old % TileWidth)
      /\ old % TileWidth < TileWidth
  BY <1>0, DivMul
<1>2. ASSUME NEW n \in a .. (b - 1)
      PROVE  [L |-> -1, N |-> n, W |-> TileWidth] \in NewDataTiles(old, new)
  <2> DEFINE m == (n + 1) * TileWidth
  <2>1. n \in Nat /\ a <= n /\ n + 1 <= b
    BY <1>1
  <2>2. m \in Nat /\ m <= b * TileWidth
    BY <2>1, <1>0, <1>1, TimesMonotone
  <2>3. a * TileWidth <= n * TileWidth /\ m = n * TileWidth + TileWidth
    BY <2>1, <1>0, <1>1, TimesMonotone
  <2>4. old < m
    BY <2>2, <2>3, <1>0, <1>1
  <2>5. m % TileWidth = 0 /\ m \div TileWidth = n + 1
    BY <2>1, <1>0
  <2> HIDE DEF m
  <2>6. m \in (old + 1) .. new
    BY <2>2, <2>4, <1>0, <1>1
  <2>7. n = (m \div TileWidth) - 1
    BY <2>5, <2>1
  <2>8. QED
    BY <2>5, <2>6, <2>7 DEF NewDataTiles
<1>3. QED
  BY <1>2 DEF FullTiles, NewDataTiles

(* Nothing is missed: the tiles of the old tree and the ones that are      *)
(* staged for the new tree make up all the tiles of the new tree.          *)
THEOREM NewTilesSuffice ==
    ASSUME NEW old \in Nat, NEW new \in Nat, old <= new
    PROVE  TilesOf(new) \subseteq TilesOf(old) \cup NewTiles(old, new)
<1> SUFFICES ASSUME NEW t \in TilesOf(new)
             PROVE  t \in TilesOf(old) \cup NewTiles(old, new)
  OBVIOUS
<1>1. PICK L \in Levels \cup {-1} : t \in TilesAt(L, SizeAt(new, L))
  BY DEF TilesOf
<1> DEFINE o == SizeAt(old, L)
           n == SizeAt(new, L)
<1>2. o \in Nat /\ n \in Nat
  BY SizeAtNat
<1>3. o <= n
  BY SpanPositive, DivMonotone DEF SizeAt
<1>4. t \in TilesAt(L, o) \/ t \in FullTiles(L, o \div TileWidth, n \div TileWidth)
        \/ t \in PartialTile(L, n)
  BY <1>1, <1>2, <1>3, TilesAtGrow
<1>5. CASE t \in TilesAt(L, o)
  BY <1>5 DEF TilesOf
<1>6. CASE o = n
  BY <1>1, <1>6 DEF TilesOf
<1>7. CASE o # n /\ L \in Levels /\ t \notin TilesAt(L, o)
  BY <1>4, <1>7 DEF NewTiles, NewHashTiles
<1>8. CASE o # n /\ L = -1 /\ t \notin TilesAt(L, o)
  <2>1. Layout(L) = 0 /\ 0 \in Levels
    BY <1>8, TilesAssumption DEF Layout, Levels
  <2>2. Span(0) = 1
    BY TilesAssumption
  <2>3. o = old /\ n = new
    BY <2>1, <2>2 DEF SizeAt
  <2>4. QED
    BY <1>4, <1>8, <2>3, NewDataTilesGrow DEF NewTiles
<1>9. QED
  BY <1>5, <1>6, <1>7, <1>8

(* Nothing else is staged: every tile staged for the new tree is one of    *)
(* its tiles.                                                              *)
THEOREM NewTilesOnly ==
    ASSUME NEW old \in Nat, NEW new \in Nat
    PROVE  NewTiles(old, new) \subseteq TilesOf(new)
<1>0. TileWidth \in Nat \ {0}
  BY TilesAssumption
<1>1. ASSUME NEW t \in NewHashTiles(old, new)
      PROVE  t \in TilesOf(new)
  <2>1. PICK L \in Levels : t \in FullTiles(L, SizeAt(old, L) \div TileWidth, SizeAt(new, L) \div TileWidth)
                                    \cup PartialTile(L, SizeAt(new, L))
    BY DEF NewHashTiles
  <2>2. SizeAt(old, L) \in Nat /\ SizeAt(new, L) \in Nat
    BY SizeAtNat
  <2>3. SizeAt(old, L) \div TileWidth \in Nat /\ SizeAt(new, L) \div TileWidth \in Nat
    BY <1>0, <2>2, DivMul
  <2>4. FullTiles(L, SizeAt(old, L) \div TileWidth, SizeAt(new, L) \div TileWidth)
          \subseteq FullTiles(L, 0, SizeAt(new, L) \div TileWidth)
    BY <2>3 DEF FullTiles
  <2>5. QED
    BY <2>1, <2>4 DEF TilesOf, TilesAt
<1>2. ASSUME NEW t \in NewDataTiles(old, new)
      PROVE  t \in TilesOf(new)
  <2>1. Layout(-1) = 0 /\ Span(0) = 1
    BY TilesAssumption DEF Layout
  <2>2. SizeAt(new, -1) = new
    BY <2>1 DEF SizeAt
  <2>3. new \div TileWidth \in Nat
    BY <1>0, DivMul
  <2>4. ASSUME NEW n \in (old + 1) .. new, n % TileWidth = 0
        PROVE  (n \div TileWidth) - 1 \in 0 .. ((new \div TileWidth) - 1)
    <3>1. n \in Nat /\ n > 0 /\ n <= new
      OBVIOUS
    <3>2. n \div TileWidth \in Nat /\ n = (n \div TileWidth) * TileWidth + (n % TileWidth)
      BY <3>1, <1>0, DivMul
    <3>3. n \div TileWidth # 0
      BY <3>1, <3>2, <2>4, <1>0
    <3>4. n \div TileWidth <= new \div TileWidth
      BY <3>1, <1>0, DivMonotone
    <3>5. QED
      BY <3>2, <3>3, <3>4, <2>3
  <2>5. t \in TilesAt(-1, new)
    BY <2>4 DEF NewDataTiles, TilesAt, FullTiles
  <2>6. QED
    BY <2>2, <2>5 DEF TilesOf
<1>3. QED
  BY <1>1, <1>2 DEF NewTiles

(* Nothing is staged twice: no tile staged for the new tree is one of the  *)
(* old tree's, not even the partial tiles that end where it ended.         *)
THEOREM NewTilesAreNew ==
    ASSUME NEW old \in Nat, NEW new \in Nat, old <= new
    PROVE  NewTiles(old, new) \cap TilesOf(old) = {}
<1>0. TileWidth \in Nat \ {0}
  BY TilesAssumption
<1>1. ASSUME NEW L \in Levels \cup {-1}, NEW s \in Nat, NEW w \in Nat, s < w,
             NEW t \in FullTiles(L, s \div TileWidth, w \div TileWidth) \cup PartialTile(L, w)
      PROVE  t.L = L /\ t \notin TilesAt(L, s)
  <2>1. /\ s \div TileWidth \in Nat /\ s % TileWidth \in 0 .. (TileWidth - 1)
        /\ s = (s \div TileWidth) * TileWidth + (s % TileWidth)
        /\ w \div TileWidth \in Nat /\ w % TileWidth \in 0 .. (TileWidth - 1)
        /\ w = (w \div TileWidth) * TileWidth + (w % TileWidth)
    BY <1>0, DivMul
  <2>2. TileWidth # s % TileWidth /\ TileWidth # w % TileWidth
    BY <1>0, <2>1
  <2>3. CASE t \in FullTiles(L, s \div TileWidth, w \div TileWidth)
    <3>1. t.L = L /\ t.N >= s \div TileWidth /\ t.N \in Nat /\ t.W = TileWidth
      BY <2>1, <2>3 DEF FullTiles
    <3>2. t \notin FullTiles(L, 0, s \div TileWidth)
      BY <2>1, <3>1 DEF FullTiles
    <3>3. t \notin PartialTile(L, s)
      BY <2>2, <3>1 DEF PartialTile
    <3>4. QED
      BY <3>1, <3>2, <3>3 DEF TilesAt
  <2>4. CASE t \in PartialTile(L, w)
    <3>1. t.L = L /\ t.N = w \div TileWidth /\ t.W = w % TileWidth
      BY <2>4 DEF PartialTile
    <3>2. t \notin FullTiles(L, 0, s \div TileWidth)
      BY <2>2, <3>1 DEF FullTiles
    <3>3. ~(w \div TileWidth = s \div TileWidth /\ w % TileWidth = s % TileWidth)
      BY <1>1, <2>1
    <3>4. t \notin PartialTile(L, s)
      BY <3>1, <3>3 DEF PartialTile
    <3>5. QED
      BY <3>1, <3>2, <3>4 DEF TilesAt
  <2>5. QED
    BY <2>3, <2>4
<1>2. ASSUME NEW L \in Levels \cup {-1}, NEW t, t.L = L, t \in TilesOf(old)
      PROVE  t \in TilesAt(L, SizeAt(old, L))
  <2>1. PICK K \in Levels \cup {-1} : t \in TilesAt(K, SizeAt(old, K))
    BY <1>2 DEF TilesOf
  <2>2. t.L = K
    BY <2>1, SizeAtNat, TilesAtBound
  <2>3. QED
    BY <2>1, <2>2, <1>2
<1>3. ASSUME NEW t \in NewHashTiles(old, new)
      PROVE  t \notin TilesOf(old)
  <2>1. PICK L \in Levels :
          /\ SizeAt(old, L) # SizeAt(new, L)
          /\ t \in FullTiles(L, SizeAt(old, L) \div TileWidth, SizeAt(new, L) \div TileWidth)
                     \cup PartialTile(L, SizeAt(new, L))
    BY DEF NewHashTiles
  <2>2. SizeAt(old, L) \in Nat /\ SizeAt(new, L) \in Nat
    BY SizeAtNat
  <2>3. SizeAt(old, L) <= SizeAt(new, L)
    BY SpanPositive, DivMonotone DEF SizeAt
  <2>4. SizeAt(old, L) < SizeAt(new, L)
    BY <2>1, <2>2, <2>3
  <2>5. QED
    BY <2>1, <2>2, <2>4, <1>1, <1>2
<1>4. ASSUME NEW t \in NewDataTiles(old, new)
      PROVE  t \notin TilesOf(old)
  <2>1. SizeAt(old, -1) = old
    BY TilesAssumption DEF SizeAt, Layout
  <2>2. old < new
    BY <1>4 DEF NewDataTiles
  <2>3. ASSUME NEW m \in (old + 1) .. new, m % TileWidth = 0
        PROVE  (m \div TileWidth) - 1 \in (old \div TileWidth) .. ((new \div TileWidth) - 1)
    <3>1. m \in Nat /\ old < m /\ m <= new
      OBVIOUS
    <3>2. /\ old \div TileWidth \in Nat /\ m \div TileWidth \in Nat /\ new \div TileWidth \in Nat
          /\ (old \div TileWidth) * TileWidth <= old
          /\ m = (m \div TileWidth) * TileWidth + (m % TileWidth)
          /\ m \div TileWidth <= new \div TileWidth
      BY <3>1, <1>0, DivMul, DivMonotone
    <3>3. ~(m \div TileWidth <= old \div TileWidth)
      <4>1. SUFFICES ASSUME m \div TileWidth <= old \div TileWidth PROVE FALSE
        OBVIOUS
      <4>2. (m \div TileWidth) * TileWidth <= (old \div TileWidth) * TileWidth
        BY <4>1, <3>2, <1>0, TimesMonotone
      <4>3. (m \div TileWidth) * TileWidth \in Nat /\ (old \div TileWidth) * TileWidth \in Nat
        BY <3>2, <1>0
      <4>4. QED
        BY <4>2, <4>3, <3>1, <3>2, <2>3
    <3>4. QED
      BY <3>2, <3>3
  <2>4. t \in FullTiles(-1, old \div TileWidth, new \div TileWidth) \cup PartialTile(-1, new)
    BY <2>3 DEF NewDataTiles, FullTiles
  <2>5. t.L = -1 /\ t \notin TilesAt(-1, old)
    BY <2>2, <2>4, <1>1
  <2>6. QED
    BY <2>1, <2>5, <1>2
<1>5. QED
  BY <1>3, <1>4 DEF NewTiles
=============================================================================
