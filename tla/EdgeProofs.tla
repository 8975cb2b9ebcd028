----------------------------- MODULE EdgeProofs -----------------------------
(***************************************************************************)
(* What module Edge's run checks, proved for every tile height, every      *)
(* number of levels and every size of tree and rounds.                     *)
(***************************************************************************)
EXTENDS Edge, TilesProofs, WellFoundedInduction

-----------------------------------------------------------------------------
(* Arithmetic.                                                             *)

(* A set of naturals that is not empty has a smallest.                     *)
LEMMA Smallest ==
    ASSUME NEW I, I \subseteq Nat, I # {}
    PROVE  \E x \in I : \A y \in I : x <= y
<1> DEFINE less == {ss \in Nat \X Nat : ss[1] < ss[2]}
<1>1. IsWellFoundedOn(less, Nat)
  BY NatLessThanWellFounded DEF OpToRel
<1>2. PICK x \in I : \A y \in I : ~ (<<y, x>> \in less)
  <2> HIDE DEF less
  <2> QED  BY <1>1, WFMin
<1>3. ASSUME NEW y \in I
      PROVE  x <= y
  <2>1. x \in Nat /\ y \in Nat /\ <<y, x>> \in Nat \X Nat
    BY <1>2
  <2>2. ~ (y < x)
    BY <1>2, <2>1
  <2>3. QED
    BY <2>1, <2>2
<1>4. QED
  BY <1>2, <1>3

LEMMA DivOfDiv ==
    ASSUME NEW a \in Nat, NEW b \in Nat \ {0}, NEW c \in Nat \ {0}
    PROVE  a \div (b * c) = (a \div b) \div c
OBVIOUS

(* Quotient and remainder are the only ones.                               *)
LEMMA DivUnique ==
    ASSUME NEW a \in Nat, NEW s \in Nat \ {0}, NEW q \in Nat, NEW r \in 0 .. (s - 1), a = q * s + r
    PROVE  a \div s = q /\ a % s = r
OBVIOUS

(* The number before: its quotient and remainder.                          *)
LEMMA DivPred ==
    ASSUME NEW a \in Nat \ {0}, NEW s \in Nat \ {0}
    PROVE  /\ a % s # 0 => (a - 1) \div s = a \div s /\ ((a - 1) % s) + 1 = a % s
           /\ a % s = 0 => (a - 1) \div s = (a \div s) - 1 /\ ((a - 1) % s) + 1 = s
<1> DEFINE q == a \div s
           r == a % s
<1>1. q \in Nat /\ r \in 0 .. (s - 1) /\ a = q * s + r
  BY DivMul
<1> HIDE DEF q, r
<1>2. ASSUME r # 0
      PROVE  (a - 1) \div s = q /\ (a - 1) % s = r - 1
  <2>1. r - 1 \in 0 .. (s - 1) /\ a - 1 = q * s + (r - 1) /\ a - 1 \in Nat
    BY <1>1, <1>2
  <2>2. QED
    BY <2>1, <1>1, DivUnique
<1>3. ASSUME r = 0
      PROVE  (a - 1) \div s = q - 1 /\ (a - 1) % s = s - 1
  <2>1. q # 0
    BY <1>1, <1>3
  <2>2. s - 1 \in 0 .. (s - 1) /\ a - 1 = (q - 1) * s + (s - 1) /\ a - 1 \in Nat /\ q - 1 \in Nat
    BY <1>1, <1>3, <2>1
  <2>3. QED
    BY <2>2, DivUnique
<1>4. QED
  BY <1>1, <1>2, <1>3 DEF q, r

LEMMA DivBetween ==
    ASSUME NEW a \in Nat, NEW b \in Nat, NEW q \in Nat, NEW s \in Nat \ {0},
           q * s <= a, a <= b, b < (q + 1) * s
    PROVE  a \div s = q /\ b \div s = q
OBVIOUS

LEMMA Width ==
    /\ TileWidth \in Nat \ {0} /\ TileWidth >= 2 /\ TileWidth = 2^Height
    /\ Height \in Nat \ {0} /\ MaxLevel \in Nat
    /\ Span(MaxLevel + 1) \in Nat
    /\ MaxSize \in Nat /\ MaxSize < Span(MaxLevel + 1) /\ MaxRound \in Nat
<1>1. MaxLevel \in Levels /\ MaxLevel \in Nat /\ TileWidth \in Nat \ {0, 1}
  BY TilesAssumption DEF Levels
<1>2. Span(MaxLevel) \in Nat \ {0} /\ Span(MaxLevel + 1) = Span(MaxLevel) * TileWidth
  BY <1>1, TilesAssumption, PowersAssumption
<1>3. Span(MaxLevel + 1) \in Nat
  BY <1>1, <1>2
<1>4. QED
  BY <1>1, <1>3, EdgeAssumption

(* Height h is that of bit g of tile level L.                              *)
LEMMA HeightSplit ==
    ASSUME NEW h \in Heights
    PROVE  /\ h \div Height \in 0 .. (MaxLevel + 1)
           /\ h - (h \div Height) * Height \in 0 .. (Height - 1)
           /\ 2^h = Span(h \div Height) * 2^(h - (h \div Height) * Height)
<1> DEFINE L == h \div Height
           g == h - L * Height
<1>0. Height \in Nat \ {0} /\ MaxLevel \in Nat /\ h \in Nat /\ h <= Height * (MaxLevel + 1)
  BY Width DEF Heights
<1>1. L \in Nat /\ h % Height \in 0 .. (Height - 1) /\ h = L * Height + (h % Height)
  BY <1>0, DivMul
<1>2. g \in 0 .. (Height - 1) /\ h = L * Height + g
  BY <1>0, <1>1
<1>3. L <= MaxLevel + 1
  BY <1>0, <1>1
<1>4. L \in 0 .. (MaxLevel + 1)
  BY <1>0, <1>1, <1>3
<1> HIDE DEF L, g
<1>5. 2^(L * Height + g) = Span(L) * 2^g
  BY <1>4, <1>2, PowersAssumption
<1>6. QED
  BY <1>2, <1>4, <1>5 DEF L, g

-----------------------------------------------------------------------------
(* Levels, and the right-most tile of each.                                *)

LEMMA Spans ==
    /\ \A l \in 0 .. (MaxLevel + 1) : Span(l) \in Nat \ {0}
    /\ \A l \in Levels : Span(l + 1) = Span(l) * TileWidth
    /\ Span(0) = 1 /\ 0 \in Levels
<1>1. \A l \in Levels : Span(l) \in Nat \ {0} /\ Span(l + 1) = Span(l) * TileWidth
  BY TilesAssumption, PowersAssumption
<1>2. MaxLevel \in Levels /\ MaxLevel \in Nat
  BY Width DEF Levels
<1>3. Span(MaxLevel + 1) \in Nat \ {0}
  BY <1>1, <1>2, Width
<1>4. \A l \in 0 .. (MaxLevel + 1) : l \in Levels \/ l = MaxLevel + 1
  BY <1>2 DEF Levels
<1>5. QED
  BY <1>1, <1>2, <1>3, <1>4, TilesAssumption DEF Levels

(* Sizes of levels: 0 and -1 count leaves, and each level the full tiles   *)
(* of the one below.                                                       *)
LEMMA LevelSizes ==
    ASSUME NEW m \in Nat
    PROVE  /\ \A L \in Levels : SizeAt(m, L) = m \div Span(L) /\ SizeAt(m, L) \in Nat
           /\ SizeAt(m, 0) = m /\ SizeAt(m, -1) = m
           /\ \A L \in Levels : m \div Span(L + 1) = SizeAt(m, L) \div TileWidth
<1>1. ASSUME NEW L \in Levels
      PROVE  /\ SizeAt(m, L) = m \div Span(L) /\ SizeAt(m, L) \in Nat
             /\ m \div Span(L + 1) = SizeAt(m, L) \div TileWidth
  <2>1. L # -1 /\ Layout(L) = L
    BY Width DEF Levels, Layout
  <2>2. Span(L) \in Nat \ {0} /\ Span(L + 1) = Span(L) * TileWidth
    BY TilesAssumption, PowersAssumption
  <2>3. SizeAt(m, L) = m \div Span(L)
    BY <2>1 DEF SizeAt
  <2>4. m \div (Span(L) * TileWidth) = (m \div Span(L)) \div TileWidth
    BY <2>2, Width, DivOfDiv
  <2>5. m \div Span(L) \in Nat
    BY <2>2, DivMul
  <2>6. QED
    BY <2>2, <2>3, <2>4, <2>5
<1>2. SizeAt(m, 0) = m /\ SizeAt(m, -1) = m
  BY TilesAssumption DEF SizeAt, Layout
<1>3. QED
  BY <1>1, <1>2

Partial(m, L) == SizeAt(m, L) % TileWidth # 0

(* RightTile is the partial tile of the level, or else its last full one.  *)
LEMMA RightTileIs ==
    ASSUME NEW m \in Nat, NEW L \in Levels \cup {-1}, SizeAt(m, L) > 0
    PROVE  LET s == SizeAt(m, L) IN
           /\ RightTile(m, L) \in Tile /\ RightTile(m, L).L = L
           /\ Partial(m, L) =>
                 RightTile(m, L) = [L |-> L, N |-> s \div TileWidth, W |-> s % TileWidth]
           /\ ~Partial(m, L) =>
                 /\ RightTile(m, L) = [L |-> L, N |-> (s \div TileWidth) - 1, W |-> TileWidth]
                 /\ s \div TileWidth > 0
<1> DEFINE s == SizeAt(m, L)
<1>1. s \in Nat \ {0} /\ TileWidth \in Nat \ {0}
  BY SizeAtNat, Width
<1>2. RightTile(m, L) = [L |-> L, N |-> (s - 1) \div TileWidth, W |-> ((s - 1) % TileWidth) + 1]
  BY DEF RightTile
<1> HIDE DEF s
<1>3. s - 1 \in Nat
  BY <1>1
<1>4. /\ (s - 1) \div TileWidth \in Nat /\ (s - 1) % TileWidth \in 0 .. (TileWidth - 1)
      /\ s \div TileWidth \in Nat /\ s = (s \div TileWidth) * TileWidth + (s % TileWidth)
  BY <1>1, <1>3, DivMul
<1>5. ((s - 1) % TileWidth) + 1 \in 1 .. TileWidth
  BY <1>1, <1>4
<1>6. s % TileWidth = 0 => s \div TileWidth > 0
  BY <1>1, <1>4
<1>7. RightTile(m, L) \in Tile /\ RightTile(m, L).L = L
  BY <1>2, <1>4, <1>5 DEF Tile
<1>8. /\ s % TileWidth # 0 => /\ (s - 1) \div TileWidth = s \div TileWidth
                              /\ ((s - 1) % TileWidth) + 1 = s % TileWidth
      /\ s % TileWidth = 0 => /\ (s - 1) \div TileWidth = (s \div TileWidth) - 1
                              /\ ((s - 1) % TileWidth) + 1 = TileWidth
  BY <1>1, DivPred
<1>9. Partial(m, L) <=> s % TileWidth # 0
  BY DEF Partial, s
<1>10. QED
  BY <1>2, <1>6, <1>7, <1>8, <1>9 DEF s

(* If all levels below one are full, the tree ends with a hash of it.      *)
LEMMA FullBelow ==
    ASSUME NEW m \in Nat, NEW l \in 0 .. (MaxLevel + 1), \A k \in 0 .. (l - 1) : ~Partial(m, k)
    PROVE  m = (m \div Span(l)) * Span(l)
<1> DEFINE Whole(j) == m = (m \div Span(j)) * Span(j)
           I == {j \in 0 .. l : ~Whole(j)}
<1>0. l \in Nat /\ l <= MaxLevel + 1 /\ MaxLevel \in Nat
  BY Width
<1>1. SUFFICES ASSUME I # {} PROVE FALSE
  BY <1>0
<1>2. I \subseteq Nat
  BY <1>0
<1>3. PICK x \in I : \A y \in I : x <= y
  <2> HIDE DEF I
  <2> QED  BY <1>1, <1>2, Smallest
<1>4. x # 0
  <2>1. Whole(0)
    BY Spans
  <2> HIDE DEF Whole
  <2>2. QED
    BY <2>1, <1>3
<1>5. x - 1 \in 0 .. (l - 1) /\ x - 1 \in Levels /\ x \in Nat
  BY <1>0, <1>3, <1>4 DEF Levels
<1>6. Whole(x - 1)
  <2>1. x - 1 \notin I
    BY <1>3, <1>5
  <2> HIDE DEF Whole
  <2>2. QED
    BY <2>1, <1>5, <1>0
<1> DEFINE s == SizeAt(m, x - 1)
           w == Span(x - 1)
<1>7. /\ s \in Nat /\ m = s * w /\ w \in Nat \ {0} /\ Span(x) = w * TileWidth
      /\ m \div Span(x) = s \div TileWidth
  <2>1. (x - 1) + 1 = x
    BY <1>5
  <2>2. QED
    BY <2>1, <1>5, <1>6, LevelSizes, PowersAssumption, TilesAssumption
<1>8. s % TileWidth = 0
  BY <1>5 DEF Partial
<1> HIDE DEF s, w
<1>9. s = (s \div TileWidth) * TileWidth /\ s \div TileWidth \in Nat
  <2>1. /\ TileWidth \in Nat \ {0} /\ s \div TileWidth \in Nat
        /\ s = (s \div TileWidth) * TileWidth + (s % TileWidth)
    BY <1>7, Width, DivMul
  <2>2. (s \div TileWidth) * TileWidth \in Nat
    BY <2>1
  <2>3. QED
    BY <2>1, <2>2, <1>8
<1>10. \A a, b, c \in Nat : (a * b) * c = a * (c * b)
  OBVIOUS
<1>11. m = (s \div TileWidth) * (w * TileWidth)
  BY <1>7, <1>9, <1>10, Width
<1>12. QED
  BY <1>3, <1>7, <1>11

-----------------------------------------------------------------------------
(* The perfect subtrees of a tree.                                         *)

(* Where a tile of A * B hashes ends the perfect subtree of A hashes that  *)
(* comes last, if there is an odd number of them.                          *)
LEMMA OddPart ==
    ASSUME NEW s \in Nat, NEW a \in Nat \ {0}, NEW b \in Nat \ {0}, b % 2 = 0, (s \div a) % 2 = 1
    PROVE  LET first == ((s \div a) - 1) * a IN
           /\ first \in Nat
           /\ s % (a * b) # 0
           /\ first \div (a * b) = s \div (a * b)
           /\ (first % (a * b)) + a \in Nat
           /\ (first % (a * b)) + a <= s % (a * b)
<1> DEFINE q == s \div a
           r == s % a
           c == q \div b
           d == q % b
<1>1. q \in Nat /\ r \in 0 .. (a - 1) /\ s = q * a + r
  BY DivMul
<1>2. q % 2 = 1
  OBVIOUS
<1> HIDE DEF q, r
<1>3. c \in Nat /\ d \in 0 .. (b - 1) /\ q = c * b + d
  BY <1>1, DivMul
<1> HIDE DEF c, d
<1>4. d # 0
  <2>1. SUFFICES ASSUME d = 0 PROVE FALSE
    OBVIOUS
  <2>2. PICK e \in Nat : b = 2 * e
    <3>1. b = 2 * (b \div 2) /\ b \div 2 \in Nat
      OBVIOUS
    <3>2. QED
      BY <3>1
  <2>3. q = 2 * (c * e) /\ c * e \in Nat
    BY <1>3, <2>1, <2>2
  <2>4. QED
    BY <1>2, <2>3
<1> DEFINE w == a * b
<1>5. w \in Nat \ {0}
  OBVIOUS
<1>6. s = c * w + (d * a + r)
  BY <1>1, <1>3
<1>7. (q - 1) * a = c * w + (d - 1) * a
  BY <1>1, <1>3
<1>8. d * a = (d - 1) * a + a /\ (d - 1) * a \in Nat /\ d - 1 \in Nat
  BY <1>3, <1>4
<1>9. d * a <= (b - 1) * a /\ (b - 1) * a = w - a
  <2>1. d \in Nat /\ b - 1 \in Nat /\ d <= b - 1
    BY <1>3
  <2>2. d * a <= (b - 1) * a
    BY <2>1, TimesMonotone
  <2>3. QED
    BY <2>2
<1> HIDE DEF w
<1>10. d * a + r \in 0 .. (w - 1) /\ (d - 1) * a \in 0 .. (w - 1)
  <2> DEFINE x == d * a
             y == (d - 1) * a
  <2>1. x = y + a /\ y \in Nat /\ x <= w - a /\ r \in Nat /\ r < a
    BY <1>1, <1>8, <1>9
  <2> HIDE DEF x, y
  <2>2. x + r \in 0 .. (w - 1) /\ y \in 0 .. (w - 1)
    BY <2>1, <1>5
  <2>3. QED
    BY <2>2 DEF x, y
<1>11. s \div w = c /\ s % w = d * a + r
  BY <1>3, <1>5, <1>6, <1>10, DivUnique
<1>12. (q - 1) * a \in Nat /\ q - 1 \in Nat
  BY <1>1, <1>2
<1>13. ((q - 1) * a) \div w = c /\ ((q - 1) * a) % w = (d - 1) * a
  <2> DEFINE x == (q - 1) * a
             y == (d - 1) * a
  <2>1. x \in Nat /\ y \in 0 .. (w - 1) /\ x = c * w + y
    BY <1>7, <1>10, <1>12
  <2> HIDE DEF x, y
  <2>2. x \div w = c /\ x % w = y
    BY <2>1, <1>3, <1>5, DivUnique
  <2>3. QED
    BY <2>2 DEF x, y
<1>14. d * a + r # 0 /\ (d - 1) * a + a <= d * a + r /\ (d - 1) * a + a \in Nat
  BY <1>1, <1>8
<1>15. QED
  BY <1>11, <1>12, <1>13, <1>14 DEF q, w

(* The last perfect subtree of a height, if the tree splits into it, is in *)
(* the partial tile of its level.                                          *)
LEMMA SubTreeTile ==
    ASSUME NEW m \in 0 .. MaxSize, NEW h \in Heights, (m \div 2^h) % 2 = 1
    PROVE  LET L == h \div Height
               t == TileFor(<<h, (m \div 2^h) - 1>>)
               s == SizeAt(m, L)
           IN  /\ L \in Levels /\ s > 0 /\ Partial(m, L)
               /\ t.L = L /\ t.N = s \div TileWidth /\ t.W \in Nat /\ t.W <= s % TileWidth
<1> DEFINE L == h \div Height
           g == h - L * Height
           a == 2^g
           b == 2^(Height - g)
           s == m \div Span(L)
           first == ((m \div 2^h) - 1) * a
<1>0. m \in Nat /\ m < Span(MaxLevel + 1) /\ Height \in Nat \ {0} /\ MaxLevel \in Nat
  BY Width
<1>1. L \in 0 .. (MaxLevel + 1) /\ g \in 0 .. (Height - 1) /\ 2^h = Span(L) * a
  BY HeightSplit
<1>2. Span(L) \in Nat \ {0}
  BY <1>1, Spans
<1>3. a \in Nat \ {0} /\ b \in Nat \ {0} /\ b % 2 = 0 /\ TileWidth = a * b
  <2> HIDE DEF L, g
  <2>1. g \in Heights /\ (Height - g) - 1 \in Heights /\ g \in 0 .. Height
    <3>1. Height <= Height * (MaxLevel + 1)
      BY <1>0
    <3>2. QED
      BY <1>0, <1>1, <3>1 DEF Heights
  <2>2. ((Height - g) - 1) + 1 = Height - g
    BY <1>0, <1>1
  <2>3. a \in Nat \ {0} /\ 2^((Height - g) - 1) \in Nat \ {0} /\ b = 2 * 2^((Height - g) - 1)
    BY <2>1, <2>2, PowersAssumption
  <2>4. TileWidth = a * b
    BY <2>1, Width, PowersAssumption
  <2>5. b \in Nat \ {0} /\ b % 2 = 0
    BY <2>3
  <2>6. QED
    BY <2>3, <2>4, <2>5
<1> HIDE DEF g, a, b
<1>4. L \in Levels
  <2>1. SUFFICES ASSUME L = MaxLevel + 1 PROVE FALSE
    BY <1>0, <1>1 DEF Levels
  <2>2. m < 2^h /\ 2^h \in Nat \ {0}
    BY <1>0, <1>1, <1>2, <1>3, <2>1
  <2>3. m \div 2^h = 0
    BY <1>0, <2>2
  <2>4. QED
    BY <2>3
<1>5. s = SizeAt(m, L) /\ s \in Nat
  BY <1>0, <1>4, LevelSizes
<1>6. m \div 2^h = s \div a
  BY <1>0, <1>1, <1>2, <1>3, DivOfDiv
<1>7. /\ first \in Nat /\ s % TileWidth # 0 /\ first \div TileWidth = s \div TileWidth
      /\ (first % TileWidth) + a \in Nat /\ (first % TileWidth) + a <= s % TileWidth
  <2>1. first = ((s \div a) - 1) * a /\ (s \div a) % 2 = 1
    BY <1>6
  <2> HIDE DEF s, first
  <2>2. QED
    BY <2>1, <1>3, <1>5, OddPart
<1>8. s > 0
  BY <1>5, <1>7, Width
<1>9. TileFor(<<h, (m \div 2^h) - 1>>)
        = [L |-> L, N |-> first \div TileWidth, W |-> (first % TileWidth) + a]
  BY DEF TileFor, a, g
<1>10. QED
  BY <1>4, <1>5, <1>7, <1>8, <1>9 DEF Partial

(* So the partial tiles of a tree have all the hashes its tree hash is     *)
(* made of.                                                                *)
LEMMA SubTreeInTile ==
    ASSUME NEW m \in 0 .. MaxSize, NEW h \in Heights, (m \div 2^h) % 2 = 1
    PROVE  LET L == h \div Height
           IN  /\ L \in Levels /\ SizeAt(m, L) > 0 /\ Partial(m, L)
               /\ InTile(RightTile(m, L), <<h, (m \div 2^h) - 1>>)
<1> DEFINE L == h \div Height
           t == TileFor(<<h, (m \div 2^h) - 1>>)
<1>0. m \in Nat
  BY Width
<1>1. /\ L \in Levels /\ SizeAt(m, L) > 0 /\ Partial(m, L)
      /\ t.L = L /\ t.N = SizeAt(m, L) \div TileWidth /\ t.W <= SizeAt(m, L) % TileWidth
  BY SubTreeTile
<1>2. RightTile(m, L) = [L |-> L, N |-> SizeAt(m, L) \div TileWidth, W |-> SizeAt(m, L) % TileWidth]
  BY <1>0, <1>1, RightTileIs
<1>3. QED
  BY <1>1, <1>2 DEF InTile

-----------------------------------------------------------------------------
(* What LoadLog reads.                                                     *)

(* A partial tile ends with a perfect subtree.                             *)
LEMMA OddBit ==
    ASSUME NEW s \in Nat, s % TileWidth # 0
    PROVE  \E g \in 0 .. (Height - 1) : (s \div 2^g) % 2 = 1
<1> DEFINE I == {x \in 0 .. Height : s % 2^x # 0}
<1>0. Height \in Nat \ {0} /\ MaxLevel \in Nat
  BY Width
<1>1. I \subseteq Nat /\ Height \in I
  BY <1>0, Width
<1>2. PICK x \in I : \A y \in I : x <= y
  <2> HIDE DEF I
  <2> QED  BY <1>1, Smallest
<1>3. x # 0
  <2>1. 2^0 = 1 /\ s % 1 = 0
    OBVIOUS
  <2>2. QED
    BY <2>1, <1>2
<1> DEFINE g == x - 1
<1>4. g \in 0 .. (Height - 1) /\ g \in 0 .. Height /\ g \notin I /\ x = g + 1
  BY <1>0, <1>2, <1>3
<1>5. s % 2^g = 0 /\ s % 2^(g + 1) # 0
  BY <1>2, <1>4
<1>6. 2^g \in Nat \ {0} /\ 2^(g + 1) = 2 * 2^g
  <2>1. Height <= Height * (MaxLevel + 1)
    BY <1>0
  <2>2. g \in Heights
    BY <1>0, <1>4, <2>1 DEF Heights
  <2>3. QED
    BY <2>2, PowersAssumption
<1> HIDE DEF g
<1>7. ASSUME NEW a \in Nat \ {0}, s % a = 0, s % (2 * a) # 0
      PROVE  (s \div a) % 2 = 1
  <2> DEFINE q == s \div a
             c == q \div 2
  <2>1. q \in Nat /\ q * a \in Nat /\ s = q * a
    BY <1>7, DivMul
  <2> HIDE DEF q
  <2>2. c \in Nat /\ (q = 2 * c \/ q % 2 = 1)
    BY <2>1
  <2>3. ASSUME q = 2 * c PROVE FALSE
    <3> HIDE DEF c
    <3>1. 2 * a \in Nat \ {0} /\ s = c * (2 * a) + 0 /\ 0 \in 0 .. ((2 * a) - 1)
      BY <2>1, <2>2, <2>3
    <3>2. QED
      BY <3>1, <2>2, <1>7, DivUnique
  <2>4. QED
    BY <2>2, <2>3 DEF q
<1>8. (s \div 2^g) % 2 = 1
  BY <1>5, <1>6, <1>7
<1>9. QED
  BY <1>4, <1>8

HashTiles(m) == {TileParent(TileFor(hash), 0, m) : hash \in SubTrees(m)}

(* The tiles of the tree hash are the partial tiles.                       *)
LEMMA HashTilesPartial ==
    ASSUME NEW m \in 0 .. MaxSize
    PROVE  HashTiles(m) = {RightTile(m, L) : L \in {l \in Levels : Partial(m, l)}}
<1>0. m \in Nat /\ TileWidth \in Nat \ {0} /\ Height \in Nat \ {0} /\ MaxLevel \in Nat
  BY Width
<1>1. ASSUME NEW h \in Heights, (m \div 2^h) % 2 = 1
      PROVE  LET L == h \div Height
             IN  /\ L \in Levels /\ Partial(m, L)
                 /\ TileParent(TileFor(<<h, (m \div 2^h) - 1>>), 0, m) = RightTile(m, L)
  <2> DEFINE L == h \div Height
             t == TileFor(<<h, (m \div 2^h) - 1>>)
             s == SizeAt(m, L)
  <2>1. L \in Levels /\ s > 0 /\ Partial(m, L) /\ t.L = L /\ t.N = s \div TileWidth
    BY <1>1, SubTreeTile
  <2>2. s \in Nat /\ L \in Nat
    BY <1>0, <2>1, LevelSizes DEF Levels
  <2> HIDE DEF s, L, t
  <2>3. /\ t.N \in Nat /\ s = t.N * TileWidth + (s % TileWidth) /\ t.N * TileWidth \in Nat
        /\ s % TileWidth \in 0 .. (TileWidth - 1)
    <3>1. /\ s \div TileWidth \in Nat /\ s % TileWidth \in 0 .. (TileWidth - 1)
          /\ s = (s \div TileWidth) * TileWidth + (s % TileWidth)
      BY <1>0, <2>2, DivMul
    <3>2. (s \div TileWidth) * TileWidth \in Nat
      BY <1>0, <3>1
    <3>3. QED
      BY <2>1, <3>1, <3>2
  <2>4. t.N \div Span(0) = t.N /\ t.L + 0 = L
    BY <2>1, <2>2, <2>3, Spans
  <2>5. s - t.N * TileWidth = s % TileWidth
    BY <1>0, <2>2, <2>3
  <2>6. SizeAt(m, t.L + 0) - (t.N \div Span(0)) * TileWidth = s % TileWidth
    BY <2>4, <2>5 DEF s
  <2>7. TileParent(t, 0, m) = [L |-> L, N |-> t.N, W |-> s % TileWidth]
    BY <1>0, <2>3, <2>4, <2>6 DEF TileParent
  <2>8. RightTile(m, L) = [L |-> L, N |-> t.N, W |-> s % TileWidth]
    BY <1>0, <2>1, RightTileIs DEF s
  <2>9. QED
    BY <2>1, <2>7, <2>8 DEF L, t
<1>2. ASSUME NEW hash \in SubTrees(m)
      PROVE  \E L \in Levels : Partial(m, L) /\ TileParent(TileFor(hash), 0, m) = RightTile(m, L)
  <2>1. PICK h \in Heights : (m \div 2^h) % 2 = 1 /\ hash = <<h, (m \div 2^h) - 1>>
    BY DEF SubTrees
  <2>2. QED
    BY <2>1, <1>1
<1>3. ASSUME NEW L \in Levels, Partial(m, L)
      PROVE  \E hash \in SubTrees(m) : TileParent(TileFor(hash), 0, m) = RightTile(m, L)
  <2> DEFINE s == SizeAt(m, L)
  <2>1. s \in Nat /\ s = m \div Span(L) /\ s % TileWidth # 0
    BY <1>0, <1>3, LevelSizes DEF Partial
  <2>2. PICK g \in 0 .. (Height - 1) : (s \div 2^g) % 2 = 1
    <3> HIDE DEF s
    <3> QED  BY <2>1, OddBit
  <2> DEFINE h == L * Height + g
  <2>3. L \in Nat /\ g \in Nat /\ g < Height /\ L <= MaxLevel /\ L \in 0 .. (MaxLevel + 1)
    BY <1>0 DEF Levels
  <2>4. h \in Heights /\ h \div Height = L /\ g \in Heights
    <3>1. L * Height \in Nat /\ L * Height <= MaxLevel * Height
      BY <1>0, <2>3, TimesMonotone
    <3>2. Height * (MaxLevel + 1) = MaxLevel * Height + Height /\ MaxLevel * Height \in Nat
      BY <1>0
    <3>3. h \in Nat /\ h <= Height * (MaxLevel + 1) /\ g <= Height * (MaxLevel + 1)
      BY <1>0, <2>3, <3>1, <3>2
    <3>4. g \in 0 .. (Height - 1) /\ h = L * Height + g
      BY <2>3
    <3>5. h \div Height = L
      BY <1>0, <2>3, <3>3, <3>4, DivUnique
    <3>6. QED
      BY <2>3, <3>3, <3>5 DEF Heights
  <2>5. 2^h = Span(L) * 2^g /\ 2^g \in Nat \ {0} /\ Span(L) \in Nat \ {0}
    BY <2>3, <2>4, PowersAssumption, TilesAssumption
  <2>6. m \div 2^h = s \div 2^g
    BY <1>0, <2>1, <2>5, DivOfDiv
  <2> HIDE DEF h, s
  <2>7. (m \div 2^h) % 2 = 1
    BY <2>2, <2>6
  <2>8. <<h, (m \div 2^h) - 1>> \in SubTrees(m)
    BY <2>4, <2>7 DEF SubTrees
  <2>9. TileParent(TileFor(<<h, (m \div 2^h) - 1>>), 0, m) = RightTile(m, L)
    BY <2>4, <2>7, <1>1
  <2>10. QED
    BY <2>8, <2>9
<1>4. QED
  BY <1>2, <1>3 DEF HashTiles

(* The tile a leaf is hashed into, alone.                                  *)
LEMMA TileForHash ==
    ASSUME NEW L \in Levels, NEW k \in Nat
    PROVE  TileFor(<<L * Height, k>>)
             = [L |-> L, N |-> k \div TileWidth, W |-> (k % TileWidth) + 1]
<1>1. L \in Nat /\ Height \in Nat \ {0}
  BY Width DEF Levels
<1>2. L * Height \in Nat /\ (L * Height) \div Height = L
  <2>1. L * Height \in Nat /\ L * Height = L * Height + 0 /\ 0 \in 0 .. (Height - 1)
    BY <1>1
  <2>2. QED
    BY <2>1, <1>1, DivUnique
<1>3. L * Height - L * Height = 0 /\ 2^0 = 1
  BY <1>2
<1>4. k * 1 = k
  OBVIOUS
<1>5. QED
  BY <1>2, <1>3, <1>4 DEF TileFor

LEMMA TileForLeaf ==
    ASSUME NEW k \in Nat
    PROVE  TileFor(<<0, k>>) = [L |-> 0, N |-> k \div TileWidth, W |-> (k % TileWidth) + 1]
<1>1. 0 * Height = 0
  BY Width
<1>2. QED
  BY <1>1, Spans, TileForHash

(* Some level of a tree has a partial tile.                                *)
LEMMA LowestPartial ==
    ASSUME NEW m \in 1 .. MaxSize
    PROVE  \E K \in Levels : Partial(m, K) /\ \A k \in 0 .. (K - 1) : ~Partial(m, k)
<1> DEFINE I == {l \in Levels : Partial(m, l)}
<1>0. m \in Nat \ {0} /\ m < Span(MaxLevel + 1) /\ MaxLevel \in Nat
  BY Width
<1>1. I # {}
  <2>1. SUFFICES ASSUME I = {} PROVE FALSE
    OBVIOUS
  <2>2. \A k \in 0 .. ((MaxLevel + 1) - 1) : ~Partial(m, k)
    BY <1>0, <2>1 DEF Levels
  <2>3. MaxLevel + 1 \in 0 .. (MaxLevel + 1)
    BY <1>0
  <2>4. m = (m \div Span(MaxLevel + 1)) * Span(MaxLevel + 1)
    BY <1>0, <2>2, <2>3, FullBelow
  <2>5. Span(MaxLevel + 1) \in Nat \ {0}
    BY <2>3, Spans
  <2>6. QED
    BY <1>0, <2>4, <2>5
<1>2. I \subseteq Nat
  BY <1>0 DEF Levels
<1>3. PICK K \in I : \A y \in I : K <= y
  <2> HIDE DEF I
  <2> QED  BY <1>1, <1>2, Smallest
<1>4. ASSUME NEW k \in 0 .. (K - 1)
      PROVE  ~Partial(m, k)
  <2>1. k \in Levels /\ ~(K <= k)
    BY <1>0, <1>3 DEF Levels
  <2>2. QED
    BY <2>1, <1>3
<1>5. QED
  BY <1>3, <1>4

(* Up to the lowest partial tile, the parents of the last leaf's tile are  *)
(* the right-most tiles.                                                   *)
LEMMA ParentIsRight ==
    ASSUME NEW m \in 1 .. MaxSize, NEW k \in Levels, \A i \in 0 .. (k - 1) : ~Partial(m, i)
    PROVE  SizeAt(m, k) > 0 /\ TileParent(TileFor(<<0, m - 1>>), k, m) = RightTile(m, k)
<1> DEFINE s == SizeAt(m, k)
           w == Span(k)
           N == (m - 1) \div TileWidth
           number == N \div w
<1>0. m \in Nat \ {0} /\ m - 1 \in Nat /\ TileWidth \in Nat \ {0} /\ MaxLevel \in Nat /\ k \in Nat
  BY Width DEF Levels
<1>1. s \in Nat /\ w \in Nat \ {0} /\ m \div w = s /\ m = s * w
  <2>1. k \in 0 .. (MaxLevel + 1)
    BY <1>0 DEF Levels
  <2>2. m = (m \div Span(k)) * Span(k)
    BY <1>0, <2>1, FullBelow
  <2>3. QED
    BY <1>0, <2>1, <2>2, LevelSizes, Spans
<1>2. RightTile(m, k) = [L |-> k, N |-> (s - 1) \div TileWidth, W |-> ((s - 1) % TileWidth) + 1]
  BY DEF RightTile
<1>3. TileFor(<<0, m - 1>>) = [L |-> 0, N |-> N, W |-> ((m - 1) % TileWidth) + 1]
  BY <1>0, TileForLeaf
<1>4. s \in Nat \ {0} /\ s - 1 \in Nat
  BY <1>0, <1>1
<1>5. (m - 1) \div w = s - 1
  <2>1. 0 \in 0 .. (w - 1) /\ m = s * w + 0
    BY <1>0, <1>1
  <2>2. m % w = 0
    BY <2>1, <1>0, <1>1, DivUnique
  <2> HIDE DEF s, w
  <2>3. QED
    BY <2>2, <1>0, <1>1, DivPred
<1>6. number = (s - 1) \div TileWidth
  <2>1. w * TileWidth = TileWidth * w
    BY <1>0, <1>1
  <2>2. (m - 1) \div (TileWidth * w) = number
    BY <1>0, <1>1, DivOfDiv
  <2>3. (m - 1) \div (w * TileWidth) = ((m - 1) \div w) \div TileWidth
    BY <1>0, <1>1, DivOfDiv
  <2>4. QED
    BY <2>1, <2>2, <2>3, <1>5
<1> DEFINE r == (s - 1) % TileWidth
<1>7. number \in Nat /\ number * TileWidth \in Nat /\ r \in 0 .. (TileWidth - 1)
        /\ s - 1 = number * TileWidth + r
  <2> DEFINE x == s - 1
  <2>1. x \in Nat
    BY <1>4
  <2> HIDE DEF s, number, x
  <2>2. /\ x \div TileWidth \in Nat /\ x % TileWidth \in 0 .. (TileWidth - 1)
        /\ x = (x \div TileWidth) * TileWidth + (x % TileWidth)
    BY <2>1, <1>0, DivMul
  <2>3. (x \div TileWidth) * TileWidth \in Nat
    BY <2>2, <1>0
  <2>4. QED
    BY <2>2, <2>3, <1>6 DEF x
<1> HIDE DEF s, w, N, number, r
<1>8. s - number * TileWidth = r + 1 /\ r + 1 <= TileWidth /\ (r + 1 < TileWidth \/ r + 1 = TileWidth)
  BY <1>0, <1>4, <1>7
<1>9. 0 + k = k
  BY <1>0
<1>10. TileParent(TileFor(<<0, m - 1>>), k, m) = [L |-> k, N |-> number, W |-> r + 1]
  BY <1>3, <1>8, <1>9 DEF TileParent, number, w, s
<1>11. QED
  BY <1>2, <1>4, <1>6, <1>10 DEF r, s

\* The levels whose right-most tile LoadLog reads.
Needed(m) == {l \in Levels : /\ SizeAt(m, l) > 0
                             /\ Partial(m, l) \/ \A k \in 0 .. (l - 1) : ~Partial(m, k)}

LEMMA EdgeReadIs ==
    ASSUME NEW m \in 1 .. MaxSize
    PROVE  EdgeRead(m) = {RightTile(m, L) : L \in Needed(m)}
<1> DEFINE up(k) == TileParent(TileFor(<<0, m - 1>>), k, m)
           Path == {j \in Levels : \A i \in 0 .. j : up(i) \notin HashTiles(m)}
<1>0. m \in Nat /\ m \in 0 .. MaxSize /\ MaxLevel \in Nat
  BY Width
<1>1. EdgeRead(m) = HashTiles(m) \cup {up(k) : k \in Path}
  BY DEF EdgeRead, HashTiles
<1>2. PICK K \in Levels : Partial(m, K) /\ \A k \in 0 .. (K - 1) : ~Partial(m, k)
  BY LowestPartial
<1>3. \A L \in Levels : Partial(m, L) => SizeAt(m, L) > 0
  <2>1. 0 % TileWidth = 0
    BY Width
  <2>2. \A L \in Levels : SizeAt(m, L) \in Nat
    BY <1>0, LevelSizes
  <2>3. QED
    BY <2>1, <2>2 DEF Partial
<1>4. HashTiles(m) = {RightTile(m, L) : L \in {l \in Levels : Partial(m, l)}}
  BY <1>0, HashTilesPartial
<1>5. ASSUME NEW k \in 0 .. K
      PROVE  /\ k \in Levels /\ SizeAt(m, k) > 0 /\ up(k) = RightTile(m, k)
             /\ \A i \in 0 .. (k - 1) : ~Partial(m, i)
  <2>1. k \in Levels /\ \A i \in 0 .. (k - 1) : i \in 0 .. (K - 1)
    BY <1>0, <1>2 DEF Levels
  <2>2. QED
    BY <2>1, <1>2, ParentIsRight
<1>6. ASSUME NEW k \in 0 .. (K - 1)
      PROVE  RightTile(m, k) \notin HashTiles(m)
  <2>1. SUFFICES ASSUME NEW L \in Levels, Partial(m, L), RightTile(m, k) = RightTile(m, L)
                 PROVE  FALSE
    BY <1>4
  <2>2. k \in Levels /\ k \in 0 .. K /\ SizeAt(m, k) > 0 /\ SizeAt(m, L) > 0
    BY <1>0, <1>2, <1>3, <1>5, <2>1 DEF Levels
  <2>3. RightTile(m, k).L = k /\ RightTile(m, L).L = L
    BY <1>0, <2>2, RightTileIs
  <2>4. QED
    BY <2>1, <2>3, <1>2
<1>7. RightTile(m, K) \in HashTiles(m)
  BY <1>2, <1>4
<1>8. K \in Nat
  BY <1>0, <1>2 DEF Levels
<1> HIDE DEF up
<1>9. Path = 0 .. (K - 1)
  <2>1. ASSUME NEW j \in Levels, j >= K
        PROVE  j \notin Path
    <3>1. K \in 0 .. j /\ K \in 0 .. K
      BY <1>8, <2>1 DEF Levels
    <3>2. QED
      BY <3>1, <1>5, <1>7
  <2>2. ASSUME NEW j \in 0 .. (K - 1)
        PROVE  j \in Path
    <3>1. j \in Levels /\ \A i \in 0 .. j : i \in 0 .. K /\ i \in 0 .. (K - 1)
      BY <1>0, <1>2, <1>8 DEF Levels
    <3>2. QED
      BY <3>1, <1>5, <1>6
  <2>3. \A j \in Levels : j >= K \/ j \in 0 .. (K - 1)
    BY <1>8 DEF Levels
  <2>4. QED
    BY <2>1, <2>2, <2>3
<1>10. Needed(m) = {l \in Levels : Partial(m, l)} \cup (0 .. (K - 1))
  <2>1. ASSUME NEW l \in Needed(m), ~Partial(m, l)
        PROVE  l \in 0 .. (K - 1)
    <3>1. l \in Levels /\ \A k \in 0 .. (l - 1) : ~Partial(m, k)
      BY <2>1 DEF Needed
    <3>2. K \notin 0 .. (l - 1) /\ K # l
      BY <3>1, <2>1, <1>2
    <3>3. QED
      BY <3>1, <3>2, <1>8 DEF Levels
  <2>2. ASSUME NEW l \in 0 .. (K - 1)
        PROVE  l \in Needed(m)
    <3>1. l \in 0 .. K
      BY <1>8
    <3>2. QED
      BY <3>1, <1>5 DEF Needed
  <2>3. Needed(m) \subseteq Levels
    BY DEF Needed
  <2>4. \A l \in Levels : Partial(m, l) => l \in Needed(m)
    BY <1>3 DEF Needed
  <2>5. QED
    BY <2>1, <2>2, <2>3, <2>4
<1>11. \A k \in 0 .. (K - 1) : up(k) = RightTile(m, k)
  <2>1. \A k \in 0 .. (K - 1) : k \in 0 .. K
    BY <1>8
  <2>2. QED
    BY <2>1, <1>5
<1>12. QED
  BY <1>1, <1>4, <1>9, <1>10, <1>11

-----------------------------------------------------------------------------
(* The right-most tiles of a set.                                          *)

LEMMA RightMostIs ==
    ASSUME NEW tiles, NEW f, \A t \in tiles : t.N \in Nat /\ t.W \in Nat,
           \A t \in tiles : t.L \in DOMAIN f,
           \A L \in DOMAIN f :
              /\ f[L] \in tiles /\ f[L].L = L
              /\ \A t \in tiles : t.L = L => t = f[L] \/ RightOf(f[L], t)
    PROVE  RightMost(tiles) = [L \in DOMAIN f |-> f[L]]
<1>1. {t.L : t \in tiles} = DOMAIN f
  OBVIOUS
<1>2. ASSUME NEW L \in DOMAIN f
      PROVE  (CHOOSE t \in tiles : t.L = L /\ ~\E s \in tiles : s.L = L /\ RightOf(s, t)) = f[L]
  <2> DEFINE Q(t) == t.L = L /\ ~\E s \in tiles : s.L = L /\ RightOf(s, t)
  <2>1. ASSUME NEW s \in tiles, s.L = L
        PROVE  ~RightOf(s, f[L])
    <3>1. /\ f[L].N \in Nat /\ f[L].W \in Nat /\ s.N \in Nat /\ s.W \in Nat
          /\ s = f[L] \/ RightOf(f[L], s)
      BY <2>1, <1>2
    <3>2. QED
      BY <3>1 DEF RightOf
  <2>2. f[L] \in tiles /\ Q(f[L])
    BY <2>1
  <2>3. ASSUME NEW t \in tiles, Q(t)
        PROVE  t = f[L]
    BY <2>2, <2>3
  <2>4. (CHOOSE t \in tiles : Q(t)) \in tiles /\ Q(CHOOSE t \in tiles : Q(t))
    <3> HIDE DEF Q
    <3> QED  BY <2>2
  <2>5. QED
    BY <2>3, <2>4
<1>3. QED
  BY <1>1, <1>2 DEF RightMost

(* One tile a level is the right-most.                                     *)
LEMMA RightMostOfEdge ==
    ASSUME NEW m \in Nat, NEW S, S \subseteq Levels, \A L \in S : SizeAt(m, L) > 0
    PROVE  RightMost({RightTile(m, L) : L \in S}) = [L \in S |-> RightTile(m, L)]
<1> DEFINE f == [L \in S |-> RightTile(m, L)]
           tiles == {RightTile(m, L) : L \in S}
<1>1. \A L \in S : RightTile(m, L) \in Tile /\ RightTile(m, L).L = L
  BY RightTileIs
<1>2. \A t \in tiles : t.N \in Nat /\ t.W \in Nat
  BY <1>1, Width DEF Tile
<1>3. DOMAIN f = S /\ \A L \in S : f[L] = RightTile(m, L)
  OBVIOUS
<1>4. /\ \A t \in tiles : t.L \in S
      /\ \A L \in S : RightTile(m, L) \in tiles /\ \A t \in tiles : t.L = L => t = RightTile(m, L)
  BY <1>1
<1> HIDE DEF tiles, f
<1>5. RightMost(tiles) = [L \in DOMAIN f |-> f[L]]
  BY <1>1, <1>2, <1>3, <1>4, RightMostIs
<1>6. QED
  BY <1>3, <1>5 DEF tiles, f

-----------------------------------------------------------------------------
(* The tree grows.                                                         *)

Grown(old, new) == {l \in Levels : SizeAt(old, l) # SizeAt(new, l)}

(* At a level that grows, each new tile is right of where the old tree     *)
(* ended, and the last of them is where the new tree ends.                 *)
LEMMA NewTilesRight ==
    ASSUME NEW L \in Levels, NEW old \in Nat, NEW new \in Nat,
           SizeAt(old, L) \in Nat, SizeAt(new, L) \in Nat, SizeAt(old, L) < SizeAt(new, L)
    PROVE  LET tiles == FullTiles(L, SizeAt(old, L) \div TileWidth, SizeAt(new, L) \div TileWidth)
                          \cup PartialTile(L, SizeAt(new, L))
           IN  /\ RightTile(new, L) \in tiles
               /\ \A t \in tiles :
                     /\ t.L = L /\ t.N \in Nat /\ t.W \in Nat
                     /\ t = RightTile(new, L) \/ RightOf(RightTile(new, L), t)
                     /\ SizeAt(old, L) > 0 => RightOf(t, RightTile(old, L))
<1> DEFINE s == SizeAt(old, L)
           w == SizeAt(new, L)
           a == s \div TileWidth
           b == w \div TileWidth
           full == FullTiles(L, a, b)
           part == PartialTile(L, w)
           R == RightTile(new, L)
<1>0. TileWidth \in Nat \ {0} /\ w > 0
  BY Width
<1>1. /\ a \in Nat /\ b \in Nat /\ a <= b
      /\ s % TileWidth \in 0 .. (TileWidth - 1) /\ w % TileWidth \in 0 .. (TileWidth - 1)
  BY <1>0, DivMul, DivMonotone
<1>2. w % TileWidth = 0 => a < b
  <2>1. a * TileWidth \in Nat /\ b * TileWidth \in Nat
    BY <1>0, <1>1
  <2>2. s = a * TileWidth + (s % TileWidth) /\ w = b * TileWidth + (w % TileWidth)
    BY <1>0, DivMul
  <2>3. w % TileWidth = 0 /\ a = b => w <= s
    BY <2>1, <2>2, <1>1
  <2>4. QED
    BY <2>3, <1>1
<1>3. a = b => s % TileWidth < w % TileWidth
  <2>1. a * TileWidth \in Nat /\ b * TileWidth \in Nat
    BY <1>0, <1>1
  <2>2. s = a * TileWidth + (s % TileWidth) /\ w = b * TileWidth + (w % TileWidth)
    BY <1>0, DivMul
  <2>3. QED
    BY <2>1, <2>2, <1>1
<1>4. /\ w % TileWidth # 0 => R = [L |-> L, N |-> b, W |-> w % TileWidth]
      /\ w % TileWidth = 0 => R = [L |-> L, N |-> b - 1, W |-> TileWidth]
  BY <1>0, RightTileIs DEF Partial
<1>5. s > 0 => /\ s % TileWidth # 0 => RightTile(old, L) = [L |-> L, N |-> a, W |-> s % TileWidth]
               /\ s % TileWidth = 0 => RightTile(old, L) = [L |-> L, N |-> a - 1, W |-> TileWidth]
  BY RightTileIs DEF Partial
<1>6. \A t \in full : t.L = L /\ t.N \in Nat /\ a <= t.N /\ t.N <= b - 1 /\ t.W = TileWidth
                      /\ t = [L |-> L, N |-> t.N, W |-> TileWidth]
  BY <1>1 DEF FullTiles
<1>7. part = IF w % TileWidth = 0 THEN {} ELSE {[L |-> L, N |-> b, W |-> w % TileWidth]}
  BY DEF PartialTile
<1>8. \A k \in a .. (b - 1) : [L |-> L, N |-> k, W |-> TileWidth] \in full
  BY DEF FullTiles
<1> HIDE DEF s, w, a, b, full, part, R
<1>9. R \in full \cup part
  BY <1>1, <1>2, <1>4, <1>7, <1>8
<1>10. ASSUME NEW t \in full
       PROVE  /\ t.L = L /\ t.N \in Nat /\ t.W \in Nat
              /\ t = R \/ RightOf(R, t)
              /\ s > 0 => RightOf(t, RightTile(old, L))
  <2>1. t = R \/ RightOf(R, t)
    BY <1>0, <1>1, <1>4, <1>6 DEF RightOf
  <2>2. s > 0 => RightOf(t, RightTile(old, L))
    BY <1>0, <1>1, <1>5, <1>6 DEF RightOf
  <2>3. QED
    BY <2>1, <2>2, <1>0, <1>6
<1>11. ASSUME NEW t \in part
       PROVE  /\ t.L = L /\ t.N \in Nat /\ t.W \in Nat
              /\ t = R \/ RightOf(R, t)
              /\ s > 0 => RightOf(t, RightTile(old, L))
  <2>1. w % TileWidth # 0 /\ t = [L |-> L, N |-> b, W |-> w % TileWidth] /\ t = R
    BY <1>4, <1>7
  <2>2. s > 0 => RightOf(t, RightTile(old, L))
    BY <1>1, <1>3, <1>5, <2>1 DEF RightOf
  <2>3. QED
    BY <1>1, <2>1, <2>2
<1>12. QED
  BY <1>9, <1>10, <1>11 DEF s, w, a, b, full, part, R

LEMMA GrownMore ==
    ASSUME NEW old \in Nat, NEW new \in Nat, old <= new, NEW L \in Levels
    PROVE  /\ SizeAt(old, L) \in Nat /\ SizeAt(new, L) \in Nat /\ SizeAt(old, L) <= SizeAt(new, L)
           /\ L \in Grown(old, new) => SizeAt(old, L) < SizeAt(new, L)
           /\ L \notin Grown(old, new) => RightTile(new, L) = RightTile(old, L)
<1>1. SizeAt(old, L) \in Nat /\ SizeAt(new, L) \in Nat
  BY SizeAtNat
<1>2. SizeAt(old, L) <= SizeAt(new, L)
  BY SpanPositive, DivMonotone DEF SizeAt
<1>3. QED
  BY <1>1, <1>2 DEF Grown, RightTile

(* The edge after the tiles of the round are merged into it.               *)
LEMMA RightMostNew ==
    ASSUME NEW old \in Nat, NEW new \in Nat, old <= new, NEW e,
           \A L \in DOMAIN e \cap Levels : SizeAt(old, L) > 0 /\ e[L] = RightTile(old, L)
    PROVE  RightMost({t \in NewHashTiles(old, new) : t.L \in DOMAIN e => RightOf(t, e[t.L])})
             = [L \in Grown(old, new) |-> RightTile(new, L)]
<1> DEFINE G == Grown(old, new)
           At(L) == FullTiles(L, SizeAt(old, L) \div TileWidth, SizeAt(new, L) \div TileWidth)
                      \cup PartialTile(L, SizeAt(new, L))
           tiles == NewHashTiles(old, new)
           further == {t \in tiles : t.L \in DOMAIN e => RightOf(t, e[t.L])}
           f == [L \in G |-> RightTile(new, L)]
<1>1. tiles = UNION {At(L) : L \in G}
  BY DEF NewHashTiles, Grown
<1>2. ASSUME NEW L \in G
      PROVE  /\ L \in Levels /\ RightTile(new, L) \in At(L)
             /\ \A t \in At(L) : /\ t.L = L /\ t.N \in Nat /\ t.W \in Nat
                                 /\ t = RightTile(new, L) \/ RightOf(RightTile(new, L), t)
                                 /\ SizeAt(old, L) > 0 => RightOf(t, RightTile(old, L))
  <2>1. L \in Levels
    BY DEF Grown
  <2>2. SizeAt(old, L) \in Nat /\ SizeAt(new, L) \in Nat /\ SizeAt(old, L) < SizeAt(new, L)
    BY <2>1, GrownMore
  <2>3. QED
    BY <2>1, <2>2, NewTilesRight
<1> HIDE DEF At, tiles, G
<1>3. \A t \in tiles : t.L \in G /\ t \in At(t.L)
  BY <1>1, <1>2
<1>4. further = tiles
  BY <1>2, <1>3
<1>5. DOMAIN f = G /\ \A L \in G : f[L] = RightTile(new, L)
  OBVIOUS
<1> HIDE DEF f, further
<1>6. \A L \in G : RightTile(new, L) \in tiles
  BY <1>1, <1>2
<1>7. RightMost(tiles) = [L \in DOMAIN f |-> f[L]]
  <2>1. \A t \in tiles : t.N \in Nat /\ t.W \in Nat /\ t.L \in DOMAIN f
    BY <1>2, <1>3, <1>5
  <2>2. \A L \in DOMAIN f :
              /\ f[L] \in tiles /\ f[L].L = L
              /\ \A t \in tiles : t.L = L => t = f[L] \/ RightOf(f[L], t)
    BY <1>2, <1>3, <1>5, <1>6
  <2>3. QED
    BY <2>1, <2>2, RightMostIs
<1>8. QED
  BY <1>4, <1>5, <1>7 DEF further, tiles, G, f

(* A level that is needed after the round was needed before, or grew.      *)
LEMMA NeededGrows ==
    ASSUME NEW old \in 0 .. MaxSize, NEW new \in 0 .. MaxSize, old <= new,
           NEW L \in Needed(new), L \notin Grown(old, new)
    PROVE  L \in Needed(old)
<1>0. old \in Nat /\ new \in Nat /\ MaxLevel \in Nat
  BY Width
<1>1. L \in Levels /\ SizeAt(old, L) = SizeAt(new, L) /\ SizeAt(new, L) > 0
  BY DEF Needed, Grown
<1>2. CASE Partial(new, L)
  BY <1>1, <1>2 DEF Needed, Partial
<1>3. CASE ~Partial(new, L)
  <2>1. \A k \in 0 .. (L - 1) : ~Partial(new, k)
    BY <1>3 DEF Needed
  <2>2. L \in 0 .. (MaxLevel + 1)
    BY <1>0, <1>1 DEF Levels
  <2>3. new = (new \div Span(L)) * Span(L)
    BY <1>0, <2>1, <2>2, FullBelow
  <2>4. SizeAt(old, L) * Span(L) <= old /\ new = SizeAt(new, L) * Span(L)
    <3>1. L # -1 /\ Layout(L) = L
      BY <1>0, <1>1 DEF Levels, Layout
    <3>2. QED
      BY <1>0, <1>1, <2>3, <3>1, SizeAtNat DEF SizeAt
  <2>5. old = new
    BY <1>0, <1>1, <2>4
  <2>6. QED
    BY <2>5
<1>4. QED
  BY <1>2, <1>3

-----------------------------------------------------------------------------
(* The inductive invariant.                                                *)

\* e and d are the edge of a tree of m leaves, as a round or LoadLog left it.
EdgeOK(m, e, d) ==
    /\ e = [L \in DOMAIN e |-> RightTile(m, L)]
    /\ DOMAIN e \subseteq {L \in Levels \cup {-1} : SizeAt(m, L) > 0}
    /\ Needed(m) \subseteq DOMAIN e
    /\ m > 0 => -1 \in DOMAIN e
    /\ d = IF m = 0 THEN <<>> ELSE LeavesIn(RightTile(m, -1))

\* The leaves since the last full data tile.
Leftover(m) == [j \in 1 .. (m % TileWidth) |-> (m \div TileWidth) * TileWidth + j - 1]

FullDataTiles(old, new) ==
    {[L |-> -1, N |-> (m \div TileWidth) - 1, W |-> TileWidth] :
        m \in {k \in (old + 1) .. new : k % TileWidth = 0}}

\* newEdge and newEdgeData have the data tile of a tree of n leaves.
DataEdgeOK ==
    IF n = 0
    THEN -1 \notin DOMAIN newEdge /\ newEdgeData = <<>>
    ELSE /\ -1 \in DOMAIN newEdge /\ newEdge[-1] = RightTile(n, -1)
         /\ newEdgeData = LeavesIn(RightTile(n, -1))

\* What sequencePool knows, and what it has done, at each of its stages.
RoundOK ==
    /\ pc # "idle" => /\ size <= n /\ n + left <= MaxSize
                      /\ \A k \in size .. (n - 1) : StoredHashes(k) \subseteq newHashes
    /\ pc \in {"add", "tiles"} =>
          \A L \in Levels : /\ L \in DOMAIN newEdge <=> L \in DOMAIN edge
                            /\ L \in DOMAIN edge => newEdge[L] = edge[L]
    /\ pc = "add" => /\ dataTile = Leftover(n)
                     /\ tileUploads = FullDataTiles(size, n)
                     /\ n = size => newEdge = edge /\ newEdgeData = edgeData
                     /\ n > size /\ n % TileWidth = 0 => DataEdgeOK
    /\ pc = "tiles" => DataEdgeOK /\ tileUploads = NewDataTiles(size, n)
    /\ pc = "commit" => EdgeOK(n, newEdge, newEdgeData) /\ tileUploads = NewTiles(size, n)

EdgeInv == TypeOK /\ EdgeOK(size, edge, edgeData) /\ RoundOK

-----------------------------------------------------------------------------
(* Every hash is at hand.                                                  *)

(* A hash of the tree so far that the round did not complete is of the     *)
(* tree it started from.                                                   *)
LEMMA HashCompleted ==
    ASSUME EdgeInv, pc \in {"add", "tiles"}, NEW h \in Heights, NEW k \in Nat,
           (k + 1) * 2^h <= n, size < (k + 1) * 2^h
    PROVE  <<h, k>> \in newHashes
<1> DEFINE w == 2^h
           last == (k + 1) * w - 1
<1>0. size \in Nat /\ n \in Nat /\ w \in Nat \ {0}
  BY Width, PowersAssumption DEF EdgeInv, TypeOK
<1>1. last \in size .. (n - 1) /\ last + 1 = (k + 1) * w /\ last \in Nat
  BY <1>0
<1>2. (last + 1) % w = 0 /\ (last + 1) \div w = k + 1
  <2>1. 0 \in 0 .. (w - 1) /\ last + 1 = (k + 1) * w + 0 /\ last + 1 \in Nat /\ k + 1 \in Nat
    BY <1>0, <1>1
  <2> HIDE DEF w, last
  <2>2. QED
    BY <2>1, <1>0, DivUnique
<1>3. <<h, k>> \in StoredHashes(last)
  <2>1. h \in Completed(last)
    BY <1>2 DEF Completed
  <2>2. ((last + 1) \div w) - 1 = k
    BY <1>2
  <2> HIDE DEF last
  <2>3. QED
    BY <2>1, <2>2 DEF StoredHashes
<1>4. QED
  BY <1>1, <1>3 DEF EdgeInv, RoundOK

LEMMA SubTreeFound ==
    ASSUME EdgeInv, NEW h \in Heights, (size \div 2^h) % 2 = 1
    PROVE  \E L \in DOMAIN edge : InTile(edge[L], <<h, (size \div 2^h) - 1>>)
<1> DEFINE L == h \div Height
<1>1. size \in 0 .. MaxSize
  BY DEF EdgeInv, TypeOK
<1>2. L \in Levels /\ SizeAt(size, L) > 0 /\ Partial(size, L)
        /\ InTile(RightTile(size, L), <<h, (size \div 2^h) - 1>>)
  BY <1>1, SubTreeInTile
<1>3. L \in Needed(size)
  BY <1>2 DEF Needed
<1>4. L \in DOMAIN edge /\ edge[L] = RightTile(size, L)
  BY <1>3 DEF EdgeInv, EdgeOK
<1>5. QED
  BY <1>2, <1>4

(* The last of an odd number of perfect subtrees of a height is at hand,   *)
(* if the round did not end one more.                                      *)
LEMMA OddFound ==
    ASSUME EdgeInv, pc \in {"add", "tiles"}, NEW h \in Heights, (n \div 2^h) % 2 = 1
    PROVE  Found({<<h, (n \div 2^h) - 1>>})
<1> DEFINE w == 2^h
           q == n \div w
<1>0. size \in Nat /\ n \in Nat /\ w \in Nat \ {0} /\ size <= n
  BY Width, PowersAssumption DEF EdgeInv, TypeOK, RoundOK
<1>1. q \in Nat /\ q * w <= n /\ n < (q + 1) * w /\ q > 0 /\ q - 1 \in Nat /\ (q - 1) + 1 = q
  <2>1. q \in Nat /\ q * w <= n /\ n % w \in 0 .. (w - 1) /\ n = q * w + (n % w)
    BY <1>0, DivMul
  <2>2. q > 0
    <3>1. q % 2 = 1 /\ 0 % 2 = 0
      OBVIOUS
    <3> HIDE DEF q
    <3>2. QED
      BY <2>1, <3>1
  <2> HIDE DEF w, q
  <2>3. q * w \in Nat /\ (q + 1) * w = q * w + w
    BY <1>0, <2>1
  <2>4. QED
    BY <1>0, <2>1, <2>2, <2>3
<1>2. CASE size < q * w
  <2>1. <<h, q - 1>> \in newHashes
    <3> HIDE DEF q
    <3> QED  BY <1>1, <1>2, HashCompleted
  <2>2. QED
    BY <2>1 DEF Found
<1>3. CASE q * w <= size
  <2>1. size \div w = q
    <3> HIDE DEF q, w
    <3> QED  BY <1>0, <1>1, <1>3, DivBetween
  <2>2. (size \div 2^h) % 2 = 1
    BY <2>1
  <2>3. \E L \in DOMAIN edge : InTile(edge[L], <<h, (size \div 2^h) - 1>>)
    BY <2>2, SubTreeFound
  <2>4. QED
    BY <2>1, <2>3 DEF Found
<1>4. QED
  <2>1. q * w \in Nat
    BY <1>0, <1>1
  <2>2. QED
    BY <1>0, <1>2, <1>3, <2>1

LEMMA SiblingsFound ==
    ASSUME EdgeInv, pc = "add"
    PROVE  Found(Siblings(n))
<1> SUFFICES ASSUME NEW h \in Heights, h + 1 \in Heights, (n + 1) % 2^(h + 1) = 0
             PROVE  Found({<<h, (n \div 2^h) - 1>>})
  BY DEF Found, Siblings, Completed
<1> DEFINE w == 2^h
           c == (n + 1) \div (2 * w)
<1>1. n \in Nat /\ w \in Nat \ {0} /\ 2^(h + 1) = 2 * w
  BY Width, PowersAssumption DEF EdgeInv, TypeOK
<1>2. c \in Nat /\ n + 1 = c * (2 * w)
  <2>1. 2 * w \in Nat \ {0} /\ n + 1 \in Nat /\ (n + 1) % (2 * w) = 0
    BY <1>1
  <2> DEFINE d == 2 * w
             x == n + 1
  <2>2. d \in Nat \ {0} /\ x \in Nat /\ x % d = 0 /\ c = x \div d
    BY <2>1
  <2> HIDE DEF c, d, x
  <2>3. c \in Nat /\ x = c * d + 0
    BY <2>2, DivMul
  <2>4. x = c * d
    BY <2>2, <2>3
  <2>5. QED
    BY <2>3, <2>4 DEF d, x
<1> HIDE DEF c
<1>3. n = (2 * c - 1) * w + (w - 1) /\ c > 0
  BY <1>1, <1>2
<1>4. n \div w = 2 * c - 1
  <2>1. w - 1 \in 0 .. (w - 1) /\ 2 * c - 1 \in Nat
    BY <1>1, <1>2, <1>3
  <2> HIDE DEF w
  <2>2. QED
    BY <2>1, <1>1, <1>3, DivUnique
<1>5. (n \div w) % 2 = 1
  BY <1>2, <1>3, <1>4
<1>6. QED
  BY <1>5, OddFound

LEMMA SubTreesFound ==
    ASSUME EdgeInv, pc = "tiles"
    PROVE  Found(SubTrees(n))
<1>1. \A h \in Heights : (n \div 2^h) % 2 = 1 => Found({<<h, (n \div 2^h) - 1>>})
  BY OddFound
<1>2. QED
  BY <1>1 DEF Found, SubTrees

(* A tile that is widened starts with hashes of the tile it replaces.      *)
LEMMA TileDataFound ==
    ASSUME EdgeInv, pc = "tiles", NEW t \in NewHashTiles(size, n)
    PROVE  Found(TileData(t))
<1>0. size \in Nat /\ n \in Nat /\ size <= n /\ TileWidth \in Nat \ {0} /\ size \in 0 .. MaxSize
  BY Width DEF EdgeInv, TypeOK, RoundOK
<1>1. PICK L \in Levels :
          /\ SizeAt(size, L) # SizeAt(n, L)
          /\ t \in FullTiles(L, SizeAt(size, L) \div TileWidth, SizeAt(n, L) \div TileWidth)
                     \cup PartialTile(L, SizeAt(n, L))
  BY DEF NewHashTiles
<1> DEFINE s == SizeAt(size, L)
           w == SizeAt(n, L)
           a == s \div TileWidth
<1>2. s \in Nat /\ w \in Nat /\ s <= w /\ s = size \div Span(L) /\ w = n \div Span(L)
  BY <1>0, GrownMore, LevelSizes
<1>3. /\ a \in Nat /\ w \div TileWidth \in Nat /\ a <= w \div TileWidth
      /\ s % TileWidth \in 0 .. (TileWidth - 1) /\ s = a * TileWidth + (s % TileWidth)
  BY <1>0, <1>2, DivMul, DivMonotone
<1>4. t.L = L /\ t.N \in Nat /\ t.W \in Nat /\ a <= t.N /\ t.N * TileWidth + t.W <= w
  <2>1. t \in TilesAt(L, w)
    <3>1. FullTiles(L, a, w \div TileWidth) \subseteq FullTiles(L, 0, w \div TileWidth)
      BY <1>3 DEF FullTiles
    <3>2. QED
      BY <1>1, <3>1 DEF TilesAt
  <2>2. t \in Tile /\ t.L = L /\ t.N * TileWidth + t.W <= w
    BY <1>2, <2>1, TilesAtBound
  <2>3. a <= t.N
    BY <1>1, <1>3 DEF FullTiles, PartialTile
  <2>4. QED
    BY <1>0, <2>2, <2>3 DEF Tile
<1> HIDE DEF s, w, a
<1> SUFFICES ASSUME NEW j \in 0 .. (t.W - 1)
             PROVE  Found({<<L * Height, t.N * TileWidth + j>>})
  BY <1>4 DEF Found, TileData
<1> DEFINE k == t.N * TileWidth + j
<1>5. k \in Nat /\ k + 1 <= w /\ a * TileWidth <= k
  <2>1. a * TileWidth <= t.N * TileWidth /\ t.N * TileWidth \in Nat /\ a * TileWidth \in Nat
    BY <1>0, <1>3, <1>4, TimesMonotone
  <2>2. QED
    BY <1>2, <1>4, <2>1
<1> HIDE DEF k
<1>6. L * Height \in Heights /\ 2^(L * Height) = Span(L) /\ Span(L) \in Nat \ {0}
  <2>1. L \in Nat /\ L <= MaxLevel /\ MaxLevel \in Nat /\ Height \in Nat \ {0}
    BY Width DEF Levels
  <2>2. L * Height \in Nat /\ L * Height <= (MaxLevel + 1) * Height
    BY <2>1, TimesMonotone
  <2>3. L * Height \in Heights
    BY <2>1, <2>2 DEF Heights
  <2>4. 2^(L * Height + 0) = Span(L) * 2^0
    <3>1. L \in 0 .. (MaxLevel + 1) /\ 0 \in 0 .. (Height - 1)
      BY <2>1
    <3>2. \A g \in 0 .. (Height - 1) : 2^(L * Height + g) = Span(L) * 2^g
      BY <3>1, PowersAssumption
    <3>3. QED
      BY <3>1, <3>2
  <2>5. Span(L) \in Nat \ {0}
    BY TilesAssumption
  <2>6. L * Height + 0 = L * Height /\ Span(L) * 2^0 = Span(L)
    BY <2>2, <2>5
  <2>7. QED
    BY <2>3, <2>4, <2>5, <2>6
<1>7. CASE k < s
  <2>1. s % TileWidth # 0
    <3>1. a * TileWidth \in Nat
      BY <1>0, <1>3
    <3>2. QED
      BY <3>1, <1>2, <1>3, <1>5, <1>7
  <2>2. L \in Needed(size) /\ s > 0
    BY <1>2, <1>5, <1>7, <2>1 DEF Needed, Partial, s
  <2>3. L \in DOMAIN edge /\ edge[L] = RightTile(size, L)
    BY <2>2 DEF EdgeInv, EdgeOK
  <2>4. edge[L] = [L |-> L, N |-> a, W |-> s % TileWidth]
    BY <1>0, <2>1, <2>2, <2>3, RightTileIs DEF Partial, s, a
  <2>5. TileFor(<<L * Height, k>>) = [L |-> L, N |-> k \div TileWidth, W |-> (k % TileWidth) + 1]
    BY <1>5, TileForHash
  <2>6. k \div TileWidth = a /\ (k % TileWidth) + 1 <= s % TileWidth
    <3> DEFINE x == a * TileWidth
               r == k - x
    <3>1. x \in Nat /\ x <= k /\ k < s /\ s = x + (s % TileWidth)
      BY <1>0, <1>3, <1>5, <1>7
    <3> HIDE DEF x
    <3>2. r \in 0 .. (TileWidth - 1) /\ k = x + r /\ r + 1 <= s % TileWidth
      BY <1>0, <1>2, <1>3, <1>5, <3>1
    <3> HIDE DEF r
    <3>3. k \div TileWidth = a /\ k % TileWidth = r
      BY <1>0, <1>3, <1>5, <3>2, DivUnique DEF x
    <3>4. QED
      BY <3>2, <3>3
  <2>7. InTile(edge[L], <<L * Height, k>>)
    BY <2>4, <2>5, <2>6 DEF InTile
  <2>8. QED
    BY <2>3, <2>7 DEF Found, k
<1>8. CASE s <= k
  <2> DEFINE p == Span(L)
  <2>1. (k + 1) * p <= w * p /\ w * p <= n
    <3>1. k + 1 \in Nat
      BY <1>5
    <3>2. (k + 1) * p <= w * p
      BY <3>1, <1>2, <1>5, <1>6, TimesMonotone
    <3>3. w * p <= n
      BY <1>0, <1>2, <1>6, DivMul
    <3>4. QED
      BY <3>2, <3>3
  <2>2. size < (s + 1) * p /\ (s + 1) * p <= (k + 1) * p
    <3>1. s + 1 \in Nat /\ k + 1 \in Nat /\ s + 1 <= k + 1
      BY <1>2, <1>5, <1>8
    <3>2. (s + 1) * p <= (k + 1) * p
      BY <3>1, <1>6, TimesMonotone
    <3>3. size = s * p + (size % p) /\ size % p \in 0 .. (p - 1)
      BY <1>0, <1>2, <1>6, DivMul
    <3>4. (s + 1) * p = s * p + p /\ s * p \in Nat
      BY <1>2, <1>6
    <3>5. QED
      BY <1>0, <1>6, <3>2, <3>3, <3>4
  <2>3. (k + 1) * p \in Nat /\ w * p \in Nat /\ (s + 1) * p \in Nat
    BY <1>2, <1>5, <1>6
  <2>4. (k + 1) * p <= n /\ size < (k + 1) * p
    <3> DEFINE x == (k + 1) * p
               y == w * p
               z == (s + 1) * p
    <3>1. x \in Nat /\ y \in Nat /\ z \in Nat /\ x <= y /\ y <= n /\ size < z /\ z <= x
      BY <2>1, <2>2, <2>3
    <3> HIDE DEF x, y, z
    <3>2. x <= n /\ size < x
      BY <3>1, <1>0
    <3>3. QED
      BY <3>2 DEF x
  <2>5. <<L * Height, k>> \in newHashes
    BY <1>5, <1>6, <2>4, HashCompleted
  <2>6. QED
    BY <2>5 DEF Found, k
<1>9. QED
  BY <1>2, <1>5, <1>7, <1>8

-----------------------------------------------------------------------------
(* The steps.                                                              *)

LEMMA LeavesType ==
    ASSUME NEW m \in 1 .. MaxSize
    PROVE  Range(LeavesIn(RightTile(m, -1))) \subseteq 0 .. MaxSize
<1> DEFINE a == (m - 1) \div TileWidth
           r == (m - 1) % TileWidth
<1>0. m - 1 \in Nat /\ m \in Nat /\ m <= MaxSize /\ TileWidth \in Nat \ {0} /\ MaxSize \in Nat
  BY Width
<1>1. a \in Nat /\ r \in 0 .. (TileWidth - 1) /\ m - 1 = a * TileWidth + r
  <2> DEFINE x == m - 1
  <2>1. x \in Nat
    BY <1>0
  <2> HIDE DEF x
  <2>2. /\ x \div TileWidth \in Nat /\ x % TileWidth \in 0 .. (TileWidth - 1)
        /\ x = (x \div TileWidth) * TileWidth + (x % TileWidth)
    BY <2>1, <1>0, DivMul
  <2>3. QED
    BY <2>2 DEF x
<1>2. RightTile(m, -1) = [L |-> -1, N |-> a, W |-> r + 1]
  BY <1>0, LevelSizes DEF RightTile
<1> HIDE DEF a, r
<1>3. a * TileWidth \in Nat
  BY <1>0, <1>1
<1>4. \A j \in 1 .. (r + 1) : a * TileWidth + j - 1 \in 0 .. MaxSize
  BY <1>0, <1>1, <1>3
<1>5. LeavesIn(RightTile(m, -1)) = [j \in 1 .. (r + 1) |-> a * TileWidth + j - 1]
  BY <1>2 DEF LeavesIn
<1>6. QED
  BY <1>4, <1>5 DEF Range

(* An edge that is right has the right type.                               *)
LEMMA EdgeType ==
    ASSUME NEW m \in 0 .. MaxSize, NEW e, NEW d, EdgeOK(m, e, d)
    PROVE  /\ DOMAIN e \subseteq Levels \cup {-1} /\ Range(e) \subseteq Tile
           /\ Range(d) \subseteq 0 .. MaxSize
<1>0. m \in Nat
  BY Width
<1>1. \A L \in DOMAIN e : L \in Levels \cup {-1} /\ e[L] = RightTile(m, L) /\ SizeAt(m, L) > 0
  BY DEF EdgeOK
<1>2. Range(e) \subseteq Tile
  BY <1>0, <1>1, RightTileIs DEF Range
<1>3. Range(d) \subseteq 0 .. MaxSize
  <2>1. CASE m = 0
    BY <2>1 DEF EdgeOK, Range
  <2>2. CASE m # 0
    BY <2>2, <1>0, LeavesType DEF EdgeOK
  <2>3. QED
    BY <2>1, <2>2
<1>4. QED
  BY <1>1, <1>2, <1>3

LEMMA EmptyEdge == EdgeOK(0, <<>>, <<>>)
<1>1. \A L \in Levels : SizeAt(0, L) = 0
  BY TilesAssumption, LevelSizes
<1>2. Needed(0) = {}
  BY <1>1 DEF Needed
<1>3. DOMAIN <<>> = {}
  OBVIOUS
<1>4. <<>> = [L \in DOMAIN <<>> |-> RightTile(0, L)]
  BY <1>3
<1>5. QED
  BY <1>2, <1>3, <1>4 DEF EdgeOK

(* When sequencePool returns, nothing is left to say of its locals.        *)
LEMMA EndRoundKeeps ==
    ASSUME EndRound, size' \in 0 .. MaxSize, EdgeOK(size', edge', edgeData')
    PROVE  EdgeInv'
<1>1. pc' = "idle" /\ left' = 0 /\ n' = 0 /\ newEdge' = <<>> /\ newEdgeData' = <<>>
        /\ dataTile' = <<>> /\ tileUploads' = {}
  BY DEF EndRound
<1>2. /\ DOMAIN edge' \subseteq Levels \cup {-1} /\ Range(edge') \subseteq Tile
      /\ Range(edgeData') \subseteq 0 .. MaxSize
  BY EdgeType
<1>3. DOMAIN newEdge' = {} /\ Range(newEdge') = {} /\ Range(newEdgeData') = {} /\ Range(dataTile') = {}
  BY <1>1 DEF Range
<1>4. TypeOK'
  BY <1>1, <1>2, <1>3, Width DEF TypeOK
<1>5. RoundOK'
  BY <1>1 DEF RoundOK
<1>6. QED
  BY <1>4, <1>5 DEF EdgeInv

LEMMA InitOK == Init => EdgeInv
<1> SUFFICES ASSUME Init PROVE EdgeInv
  OBVIOUS
<1>1. EdgeOK(size, edge, edgeData)
  BY EmptyEdge DEF Init
<1>2. TypeOK
  BY Width DEF Init, TypeOK, Range
<1>3. RoundOK
  BY DEF Init, RoundOK
<1>4. QED
  BY <1>1, <1>2, <1>3 DEF EdgeInv

(* The edge LoadLog keeps is right.                                        *)
LEMMA LoadKeeps ==
    ASSUME EdgeInv, Load
    PROVE  EdgeInv'
<1>0. size \in 0 .. MaxSize /\ size' = size /\ EndRound /\ size \in Nat
  BY Width DEF EdgeInv, TypeOK, Load
<1>1. CASE size = 0
  <2>1. edge' = <<>> /\ edgeData' = <<>>
    BY <1>1 DEF Load
  <2>2. EdgeOK(size', edge', edgeData')
    BY <1>0, <1>1, <2>1, EmptyEdge
  <2>3. QED
    BY <1>0, <2>2, EndRoundKeeps
<1>2. CASE size # 0
  <2> DEFINE S == Needed(size)
             H == [L \in S |-> RightTile(size, L)]
             D == [H[0] EXCEPT !.L = -1]
  <2>1. S \subseteq Levels /\ \A L \in S : SizeAt(size, L) > 0
    BY DEF Needed
  <2>2. size \in 1 .. MaxSize
    BY <1>0, <1>2
  <2>3. RightMost(EdgeRead(size)) = H
    BY <1>0, <2>1, <2>2, EdgeReadIs, RightMostOfEdge
  <2>4. edge' = Updated(H, [L \in {-1} |-> D]) /\ edgeData' = LeavesIn(D)
    BY <1>2, <2>3 DEF Load
  <2>5. 0 \in S
    BY <1>0, <1>2, Spans, LevelSizes DEF Needed
  <2>6. D = RightTile(size, -1)
    <3>1. SizeAt(size, 0) = size /\ SizeAt(size, -1) = size
      BY <1>0, LevelSizes
    <3>2. H[0] = RightTile(size, 0)
      BY <2>5
    <3>3. QED
      BY <3>1, <3>2 DEF RightTile
  <2>7. -1 \notin S
    BY <2>1 DEF Levels
  <2> HIDE DEF D, H
  <2>8. edge' = [L \in S \cup {-1} |-> RightTile(size, L)]
    BY <2>4, <2>6, <2>7 DEF Updated, H
  <2>9. EdgeOK(size', edge', edgeData')
    <3>1. SizeAt(size, -1) > 0
      BY <1>0, <1>2, LevelSizes
    <3>2. QED
      BY <1>0, <1>2, <2>1, <2>4, <2>6, <2>8, <3>1 DEF EdgeOK
  <2>10. QED
    BY <1>0, <2>9, EndRoundKeeps
<1>3. QED
  BY <1>1, <1>2

LEMMA CommitKeeps ==
    ASSUME EdgeInv, Commit
    PROVE  EdgeInv'
<1>1. size' = n /\ edge' = newEdge /\ edgeData' = newEdgeData /\ EndRound
  BY DEF Commit
<1>2. n \in 0 .. MaxSize /\ EdgeOK(n, newEdge, newEdgeData)
  BY DEF EdgeInv, TypeOK, RoundOK, Commit
<1>3. QED
  BY <1>1, <1>2, EndRoundKeeps

LEMMA DropKeeps ==
    ASSUME EdgeInv, Drop
    PROVE  EdgeInv'
<1>1. size' = size /\ edge' = edge /\ edgeData' = edgeData /\ EndRound
  BY DEF Drop, log
<1>2. size \in 0 .. MaxSize /\ EdgeOK(size, edge, edgeData)
  BY DEF EdgeInv, TypeOK
<1>3. QED
  BY <1>1, <1>2, EndRoundKeeps

(* The data tile of the edge, if it is not full, is what a round begins    *)
(* with.                                                                   *)
LEMMA BeginKeeps ==
    ASSUME EdgeInv, Begin
    PROVE  EdgeInv'
<1>0. /\ size \in 0 .. MaxSize /\ size \in Nat /\ TileWidth \in Nat \ {0}
      /\ EdgeOK(size, edge, edgeData)
  BY Width DEF EdgeInv, TypeOK
<1>1. /\ pc' = "add" /\ left' \in 0 .. MaxRound /\ size + left' <= MaxSize /\ n' = size
      /\ newEdge' = edge /\ newEdgeData' = edgeData /\ newHashes' = {} /\ tileUploads' = {}
      /\ size' = size /\ edge' = edge /\ edgeData' = edgeData
      /\ dataTile' = IF -1 \in DOMAIN edge /\ edge[-1].W < TileWidth THEN edgeData ELSE <<>>
  BY DEF Begin, log
<1>2. dataTile' = Leftover(size)
  <2>1. CASE size = 0
    <3>1. -1 \notin DOMAIN edge
      BY <1>0, <2>1, LevelSizes DEF EdgeOK
    <3>2. size % TileWidth = 0
      BY <1>0, <2>1
    <3>3. Leftover(size) = <<>>
      BY <3>2 DEF Leftover
    <3>4. QED
      BY <1>1, <3>1, <3>3
  <2>2. CASE size # 0
    <3>1. /\ -1 \in DOMAIN edge /\ edge[-1] = RightTile(size, -1)
          /\ edgeData = LeavesIn(RightTile(size, -1))
      BY <1>0, <2>2 DEF EdgeOK
    <3>2. SizeAt(size, -1) = size /\ size > 0
      BY <1>0, <2>2, LevelSizes
    <3>3. CASE size % TileWidth = 0
      <4>1. edge[-1].W = TileWidth
        BY <1>0, <3>1, <3>2, <3>3, RightTileIs DEF Partial
      <4>2. Leftover(size) = <<>>
        BY <3>3 DEF Leftover
      <4>3. QED
        BY <1>0, <1>1, <4>1, <4>2
    <3>4. CASE size % TileWidth # 0
      <4>1. RightTile(size, -1) = [L |-> -1, N |-> size \div TileWidth, W |-> size % TileWidth]
        BY <1>0, <3>2, <3>4, RightTileIs DEF Partial
      <4>2. edge[-1].W < TileWidth
        BY <1>0, <3>1, <4>1, DivMul
      <4>3. LeavesIn(RightTile(size, -1)) = Leftover(size)
        BY <4>1 DEF LeavesIn, Leftover
      <4>4. QED
        BY <1>1, <3>1, <4>2, <4>3
    <3>5. QED
      BY <3>3, <3>4
  <2>3. QED
    BY <2>1, <2>2
<1>3. /\ DOMAIN edge \subseteq Levels \cup {-1} /\ Range(edge) \subseteq Tile
      /\ Range(edgeData) \subseteq 0 .. MaxSize
  BY <1>0, EdgeType
<1>4. Range(dataTile') \subseteq 0 .. MaxSize
  BY <1>1, <1>3 DEF Range
<1>5. TypeOK'
  BY <1>0, <1>1, <1>3, <1>4 DEF TypeOK
<1>6. tileUploads' = FullDataTiles(size, size)
  BY <1>0, <1>1 DEF FullDataTiles
<1>7. RoundOK'
  <2>1. size .. (size - 1) = {}
    BY <1>0
  <2>2. (n + left <= MaxSize)'
    BY <1>1
  <2>3. QED
    BY <1>0, <1>1, <1>2, <1>6, <2>1, <2>2 DEF RoundOK
<1>8. QED
  BY <1>0, <1>1, <1>5, <1>7 DEF EdgeInv

LEMMA DataTileName ==
    ASSUME NEW m \in Nat
    PROVE  /\ [TileFor(<<0, m>>) EXCEPT !.L = -1] = RightTile(m + 1, -1)
           /\ RightTile(m + 1, -1) = [L |-> -1, N |-> m \div TileWidth, W |-> (m % TileWidth) + 1]
           /\ RightTile(m + 1, -1) \in Tile
<1>1. m + 1 \in Nat /\ (m + 1) - 1 = m /\ SizeAt(m + 1, -1) = m + 1
  BY LevelSizes
<1>2. RightTile(m + 1, -1) = [L |-> -1, N |-> m \div TileWidth, W |-> (m % TileWidth) + 1]
  BY <1>1 DEF RightTile
<1>3. RightTile(m + 1, -1) \in Tile
  BY <1>1, RightTileIs
<1>4. TileFor(<<0, m>>) = [L |-> 0, N |-> m \div TileWidth, W |-> (m % TileWidth) + 1]
  BY TileForLeaf
<1>5. [TileFor(<<0, m>>) EXCEPT !.L = -1]
        = [L |-> -1, N |-> m \div TileWidth, W |-> (m % TileWidth) + 1]
  BY <1>4
<1>6. QED
  BY <1>2, <1>3, <1>5

(* What the leaf added makes of the data tile: a full one, or a longer     *)
(* leftover.                                                               *)
LEMMA LeafAppended ==
    ASSUME NEW m \in Nat
    PROVE  /\ Append(Leftover(m), m) = LeavesIn(RightTile(m + 1, -1))
           /\ (m + 1) % TileWidth # 0 => Append(Leftover(m), m) = Leftover(m + 1)
           /\ (m + 1) % TileWidth = 0 =>
                 /\ Leftover(m + 1) = <<>>
                 /\ RightTile(m + 1, -1)
                      = [L |-> -1, N |-> ((m + 1) \div TileWidth) - 1, W |-> TileWidth]
<1> DEFINE a == m \div TileWidth
           r == m % TileWidth
           f == [j \in 1 .. (r + 1) |-> a * TileWidth + j - 1]
<1>0. TileWidth \in Nat \ {0}
  BY Width
<1>1. a \in Nat /\ r \in 0 .. (TileWidth - 1) /\ m = a * TileWidth + r
  BY <1>0, DivMul
<1>2. Leftover(m) = [j \in 1 .. r |-> a * TileWidth + j - 1]
  BY DEF Leftover
<1>3. RightTile(m + 1, -1) = [L |-> -1, N |-> a, W |-> r + 1]
  BY DataTileName
<1>4. /\ (m + 1) % TileWidth # 0 => (m + 1) \div TileWidth = a /\ (m + 1) % TileWidth = r + 1
      /\ (m + 1) % TileWidth = 0 => a = ((m + 1) \div TileWidth) - 1 /\ r + 1 = TileWidth
  <2> DEFINE x == m + 1
  <2>1. x \in Nat \ {0} /\ m = x - 1
    OBVIOUS
  <2> HIDE DEF x
  <2>2. /\ x % TileWidth # 0 => a = x \div TileWidth /\ r + 1 = x % TileWidth
        /\ x % TileWidth = 0 => a = (x \div TileWidth) - 1 /\ r + 1 = TileWidth
    BY <1>0, <2>1, DivPred
  <2>3. QED
    BY <2>2 DEF x
<1> HIDE DEF a, r
<1>5. Append(Leftover(m), m) = f
  <2> DEFINE l == [j \in 1 .. r |-> a * TileWidth + j - 1]
  <2>1. a * TileWidth \in Nat
    BY <1>0, <1>1
  <2>2. l \in Seq(Nat) /\ Len(l) = r
    BY <1>1, <2>1
  <2>3. \A j \in 1 .. r : l[j] = a * TileWidth + j - 1
    OBVIOUS
  <2> HIDE DEF l
  <2>4. Append(l, m) \in Seq(Nat) /\ Len(Append(l, m)) = r + 1
    BY <1>1, <2>2
  <2>5. \A j \in 1 .. (r + 1) : Append(l, m)[j] = a * TileWidth + j - 1
    <3>1. \A j \in 1 .. r : Append(l, m)[j] = l[j]
      BY <2>2
    <3>2. Append(l, m)[r + 1] = m
      BY <2>2
    <3>3. m = a * TileWidth + (r + 1) - 1
      BY <1>1, <2>1
    <3>4. \A j \in 1 .. (r + 1) : j \in 1 .. r \/ j = r + 1
      BY <1>1
    <3>5. QED
      BY <2>3, <3>1, <3>2, <3>3, <3>4
  <2>6. Append(l, m) = f
    BY <1>1, <2>4, <2>5
  <2>7. QED
    BY <2>6, <1>2 DEF l
<1>6. LeavesIn(RightTile(m + 1, -1)) = f
  BY <1>3 DEF LeavesIn
<1>7. (m + 1) % TileWidth # 0 => Leftover(m + 1) = f
  BY <1>4 DEF Leftover
<1>8. (m + 1) % TileWidth = 0 => Leftover(m + 1) = <<>>
  BY DEF Leftover
<1> HIDE DEF f
<1>9. QED
  BY <1>3, <1>4, <1>5, <1>6, <1>7, <1>8

LEMMA FullDataTilesGrow ==
    ASSUME NEW old \in Nat, NEW m \in Nat, old <= m
    PROVE  FullDataTiles(old, m + 1) = FullDataTiles(old, m) \cup
             (IF (m + 1) % TileWidth = 0
              THEN {[L |-> -1, N |-> ((m + 1) \div TileWidth) - 1, W |-> TileWidth]} ELSE {})
<1>1. (old + 1) .. (m + 1) = ((old + 1) .. m) \cup {m + 1}
  OBVIOUS
<1>2. QED
  BY <1>1 DEF FullDataTiles

LEMMA AddLeafKeeps ==
    ASSUME EdgeInv, AddLeaf
    PROVE  EdgeInv'
<1>0. /\ size \in 0 .. MaxSize /\ n \in 0 .. MaxSize /\ left \in 0 .. MaxRound
      /\ size \in Nat /\ n \in Nat /\ left \in Nat /\ size <= n /\ n + left <= MaxSize
      /\ MaxSize \in Nat /\ MaxRound \in Nat
      /\ pc = "add" /\ left > 0 /\ EdgeOK(size, edge, edgeData)
      /\ dataTile = Leftover(n) /\ tileUploads = FullDataTiles(size, n)
  BY Width DEF EdgeInv, TypeOK, RoundOK, AddLeaf
<1>1. /\ newHashes' = newHashes \cup StoredHashes(n) /\ n' = n + 1 /\ left' = left - 1
      /\ pc' = "add" /\ size' = size /\ edge' = edge /\ edgeData' = edgeData
  BY <1>0 DEF AddLeaf, log
<1> DEFINE leaves == Append(Leftover(n), n)
           tile == RightTile(n + 1, -1)
<1>2. /\ n' \in 0 .. MaxSize /\ left' \in 0 .. MaxRound /\ size' <= n' /\ n' + left' <= MaxSize
      /\ n' # size /\ n' # 0
  BY <1>0, <1>1
<1>3. \A k \in size .. (n' - 1) : StoredHashes(k) \subseteq newHashes'
  <2>1. \A k \in size .. (n' - 1) : k \in size .. (n - 1) \/ k = n
    BY <1>0, <1>1
  <2>2. \A k \in size .. (n - 1) : StoredHashes(k) \subseteq newHashes
    BY <1>0 DEF EdgeInv, RoundOK
  <2>3. QED
    BY <1>1, <2>1, <2>2
<1>4. Range(leaves) \subseteq 0 .. MaxSize /\ tile \in Tile
  <2>1. n + 1 \in 1 .. MaxSize
    BY <1>0, <1>1, <1>2
  <2>2. QED
    BY <1>0, <2>1, LeafAppended, LeavesType, DataTileName
<1>5. \A L \in Levels : /\ L \in DOMAIN newEdge <=> L \in DOMAIN edge
                        /\ L \in DOMAIN edge => newEdge[L] = edge[L]
  BY <1>0 DEF EdgeInv, RoundOK
<1>6. CASE (n + 1) % TileWidth = 0
  <2>1. /\ newEdge' = Updated(newEdge, [L \in {-1} |-> tile]) /\ newEdgeData' = leaves
        /\ tileUploads' = tileUploads \cup {tile} /\ dataTile' = <<>>
    BY <1>0, <1>6, DataTileName DEF AddLeaf, StageData
  <2>2. DataEdgeOK'
    BY <1>0, <1>1, <1>2, <2>1, LeafAppended DEF DataEdgeOK, Updated
  <2>3. tileUploads' = FullDataTiles(size, n + 1) /\ dataTile' = Leftover(n + 1)
    BY <1>0, <1>6, <2>1, FullDataTilesGrow, LeafAppended
  <2>4. -1 \notin Levels
    BY DEF Levels
  <2>5. \A L \in Levels : /\ L \in DOMAIN newEdge' <=> L \in DOMAIN edge
                          /\ L \in DOMAIN edge => newEdge'[L] = edge[L]
    BY <1>5, <2>1, <2>4 DEF Updated
  <2>6. RoundOK'
    <3> HIDE DEF leaves, tile
    <3> QED  BY <1>1, <1>2, <1>3, <2>2, <2>3, <2>5 DEF RoundOK
  <2>7. DOMAIN newEdge' \subseteq Levels \cup {-1} /\ Range(newEdge') \subseteq Tile
    <3> HIDE DEF leaves, tile
    <3>1. DOMAIN newEdge \subseteq Levels \cup {-1} /\ \A L \in DOMAIN newEdge : newEdge[L] \in Tile
      BY DEF EdgeInv, TypeOK, Range
    <3>2. /\ DOMAIN newEdge' = DOMAIN newEdge \cup {-1}
          /\ \A L \in DOMAIN newEdge' : newEdge'[L] = IF L = -1 THEN tile ELSE newEdge[L]
      BY <2>1 DEF Updated
    <3>3. \A L \in DOMAIN newEdge' : newEdge'[L] \in Tile
      BY <1>4, <3>1, <3>2
    <3>4. QED
      BY <3>1, <3>2, <3>3 DEF Range
  <2>8. TypeOK'
    <3>1. Range(dataTile') = {}
      BY <2>1 DEF Range
    <3>2. /\ DOMAIN edge \subseteq Levels \cup {-1} /\ Range(edge) \subseteq Tile
          /\ Range(edgeData) \subseteq 0 .. MaxSize /\ tileUploads \subseteq Tile
      BY DEF EdgeInv, TypeOK
    <3> HIDE DEF leaves, tile
    <3>3. QED
      BY <1>0, <1>1, <1>2, <1>4, <2>1, <2>7, <3>1, <3>2 DEF TypeOK
  <2>9. QED
    BY <1>0, <1>1, <2>6, <2>8 DEF EdgeInv
<1>7. CASE (n + 1) % TileWidth # 0
  <2>1. dataTile' = leaves /\ UNCHANGED <<newEdge, newEdgeData, tileUploads>>
    BY <1>0, <1>7 DEF AddLeaf
  <2>2. tileUploads' = FullDataTiles(size, n + 1) /\ dataTile' = Leftover(n + 1)
    <3>1. FullDataTiles(size, n + 1) = FullDataTiles(size, n) \cup {}
      BY <1>0, <1>7, FullDataTilesGrow
    <3>2. leaves = Leftover(n + 1)
      BY <1>0, <1>7, LeafAppended
    <3>3. QED
      BY <1>0, <2>1, <3>1, <3>2
  <2> HIDE DEF leaves, tile
  <2>3. RoundOK'
    BY <1>1, <1>2, <1>3, <1>5, <1>7, <2>1, <2>2 DEF RoundOK
  <2>4. TypeOK'
    BY <1>0, <1>1, <1>2, <1>4, <2>1 DEF EdgeInv, TypeOK
  <2>5. QED
    BY <1>0, <1>1, <2>3, <2>4 DEF EdgeInv
<1>8. QED
  BY <1>6, <1>7

LEMMA NewDataTilesIs ==
    ASSUME NEW old, NEW new
    PROVE  NewDataTiles(old, new)
             = FullDataTiles(old, new) \cup (IF new = old THEN {} ELSE PartialTile(-1, new))
BY DEF NewDataTiles, FullDataTiles

LEMMA StageLeftoverKeeps ==
    ASSUME EdgeInv, StageLeftover
    PROVE  EdgeInv'
<1>0. /\ size \in 0 .. MaxSize /\ n \in 0 .. MaxSize /\ size \in Nat /\ n \in Nat /\ size <= n
      /\ MaxSize \in Nat /\ TileWidth \in Nat \ {0}
      /\ pc = "add" /\ EdgeOK(size, edge, edgeData)
      /\ dataTile = Leftover(n) /\ tileUploads = FullDataTiles(size, n)
      /\ n = size => newEdge = edge /\ newEdgeData = edgeData
      /\ n > size /\ n % TileWidth = 0 => DataEdgeOK
  BY Width DEF EdgeInv, TypeOK, RoundOK, StageLeftover
<1>1. /\ pc' = "tiles" /\ size' = size /\ edge' = edge /\ edgeData' = edgeData
      /\ UNCHANGED <<left, n, dataTile, newHashes>>
  BY DEF StageLeftover, log
<1>2. \A L \in Levels : /\ L \in DOMAIN newEdge <=> L \in DOMAIN edge
                        /\ L \in DOMAIN edge => newEdge[L] = edge[L]
  BY <1>0 DEF EdgeInv, RoundOK
<1>3. CASE n # size /\ n % TileWidth # 0
  <2> DEFINE tile == RightTile(n, -1)
  <2>1. n > 0 /\ n - 1 \in Nat /\ (n - 1) + 1 = n /\ n \in 1 .. MaxSize /\ SizeAt(n, -1) = n
    BY <1>0, <1>3, LevelSizes
  <2>2. [TileFor(<<0, n - 1>>) EXCEPT !.L = -1] = tile /\ tile \in Tile
    BY <2>1, DataTileName
  <2>3. tile = [L |-> -1, N |-> n \div TileWidth, W |-> n % TileWidth]
    BY <1>0, <1>3, <2>1, RightTileIs DEF Partial
  <2>4. /\ newEdge' = Updated(newEdge, [L \in {-1} |-> tile]) /\ newEdgeData' = Leftover(n)
        /\ tileUploads' = tileUploads \cup {tile}
    BY <1>0, <1>3, <2>2 DEF StageLeftover, StageData
  <2>5. Leftover(n) = LeavesIn(tile)
    BY <2>3 DEF Leftover, LeavesIn
  <2>6. tileUploads' = NewDataTiles(size, n)
    BY <1>0, <1>3, <2>3, <2>4, NewDataTilesIs DEF PartialTile
  <2> HIDE DEF tile
  <2>7. /\ DOMAIN newEdge' = DOMAIN newEdge \cup {-1}
        /\ \A L \in DOMAIN newEdge' : newEdge'[L] = IF L = -1 THEN tile ELSE newEdge[L]
    BY <2>4 DEF Updated
  <2>8. DataEdgeOK'
    BY <1>1, <2>1, <2>4, <2>5, <2>7 DEF DataEdgeOK, tile
  <2>9. -1 \notin Levels
    BY DEF Levels
  <2>10. \A L \in Levels : /\ L \in DOMAIN newEdge' <=> L \in DOMAIN edge
                           /\ L \in DOMAIN edge => newEdge'[L] = edge[L]
    BY <1>2, <2>7, <2>9
  <2>11. RoundOK'
    BY <1>0, <1>1, <2>6, <2>8, <2>10 DEF EdgeInv, RoundOK
  <2>12. TypeOK'
    <3>1. DOMAIN newEdge \subseteq Levels \cup {-1} /\ \A L \in DOMAIN newEdge : newEdge[L] \in Tile
      BY DEF EdgeInv, TypeOK, Range
    <3>2. DOMAIN newEdge' \subseteq Levels \cup {-1} /\ Range(newEdge') \subseteq Tile
      BY <2>2, <2>7, <3>1 DEF Range
    <3>3. Range(newEdgeData') \subseteq 0 .. MaxSize
      BY <2>1, <2>4, <2>5, LeavesType DEF tile
    <3>4. QED
      BY <1>1, <2>2, <2>4, <3>2, <3>3 DEF EdgeInv, TypeOK
  <2>13. QED
    BY <1>0, <1>1, <2>11, <2>12 DEF EdgeInv
<1>4. CASE ~(n # size /\ n % TileWidth # 0)
  <2>1. UNCHANGED <<newEdge, newEdgeData, tileUploads>>
    BY <1>4 DEF StageLeftover
  <2>2. tileUploads = NewDataTiles(size, n)
    BY <1>0, <1>4, NewDataTilesIs DEF PartialTile
  <2>3. DataEdgeOK
    <3>1. CASE n # size
      BY <1>0, <1>4, <3>1
    <3>2. CASE n = size /\ n = 0
      <4>1. SizeAt(size, -1) = 0
        BY <1>0, <3>2, LevelSizes
      <4>2. QED
        BY <1>0, <3>2, <4>1 DEF EdgeOK, DataEdgeOK
    <3>3. CASE n = size /\ n # 0
      BY <1>0, <3>3 DEF EdgeOK, DataEdgeOK
    <3>4. QED
      BY <3>1, <3>2, <3>3
  <2>4. DataEdgeOK'
    BY <1>1, <2>1, <2>3 DEF DataEdgeOK
  <2>5. RoundOK'
    BY <1>0, <1>1, <1>2, <2>1, <2>2, <2>4 DEF EdgeInv, RoundOK
  <2>6. TypeOK'
    BY <1>1, <2>1 DEF EdgeInv, TypeOK
  <2>7. QED
    BY <1>0, <1>1, <2>5, <2>6 DEF EdgeInv
<1>5. QED
  BY <1>3, <1>4

LEMMA StageTilesKeeps ==
    ASSUME EdgeInv, StageTiles
    PROVE  EdgeInv'
<1> DEFINE G == Grown(size, n)
<1>0. /\ size \in 0 .. MaxSize /\ n \in 0 .. MaxSize /\ size \in Nat /\ n \in Nat /\ size <= n
      /\ pc = "tiles" /\ EdgeOK(size, edge, edgeData)
      /\ DataEdgeOK /\ tileUploads = NewDataTiles(size, n)
  BY Width DEF EdgeInv, TypeOK, RoundOK, StageTiles
<1>1. /\ pc' = "commit" /\ size' = size /\ edge' = edge /\ edgeData' = edgeData
      /\ tileUploads' = tileUploads \cup NewHashTiles(size, n)
      /\ UNCHANGED <<left, n, newEdgeData, dataTile, newHashes>>
      /\ newEdge' = Updated(newEdge, RightMost({t \in NewHashTiles(size, n) :
                                        t.L \in DOMAIN newEdge => RightOf(t, newEdge[t.L])}))
  BY DEF StageTiles, log
<1>2. \A L \in Levels : /\ L \in DOMAIN newEdge <=> L \in DOMAIN edge
                        /\ L \in DOMAIN edge => newEdge[L] = edge[L]
  BY <1>0 DEF EdgeInv, RoundOK
<1>3. \A L \in DOMAIN newEdge \cap Levels :
         SizeAt(size, L) > 0 /\ newEdge[L] = RightTile(size, L)
  BY <1>0, <1>2 DEF EdgeOK
<1>4. newEdge' = Updated(newEdge, [L \in G |-> RightTile(n, L)])
  BY <1>0, <1>1, <1>3, RightMostNew
<1>5. /\ DOMAIN newEdge' = DOMAIN newEdge \cup G
      /\ newEdge' = [L \in DOMAIN newEdge' |-> newEdge'[L]]
      /\ \A L \in DOMAIN newEdge' : newEdge'[L] = IF L \in G THEN RightTile(n, L) ELSE newEdge[L]
  BY <1>4 DEF Updated
<1>6. DOMAIN newEdge \subseteq Levels \cup {-1} /\ G \subseteq Levels /\ -1 \notin Levels
  BY DEF EdgeInv, TypeOK, Grown, Levels
<1>7. ASSUME NEW L \in DOMAIN newEdge'
      PROVE  /\ L \in Levels \cup {-1} /\ SizeAt(n, L) > 0 /\ newEdge'[L] = RightTile(n, L)
  <2>1. CASE L = -1
    <3>1. L \notin G /\ L \in DOMAIN newEdge
      BY <1>5, <1>6, <1>7, <2>1
    <3>2. n # 0 /\ newEdge[-1] = RightTile(n, -1)
      BY <1>0, <2>1, <3>1 DEF DataEdgeOK
    <3>3. SizeAt(n, -1) = n
      BY <1>0, LevelSizes
    <3>4. QED
      BY <1>0, <1>5, <2>1, <3>1, <3>2, <3>3
  <2>2. CASE L \in G
    <3>1. L \in Levels
      BY <1>6, <2>2
    <3>2. SizeAt(size, L) \in Nat /\ SizeAt(n, L) \in Nat /\ SizeAt(size, L) < SizeAt(n, L)
      BY <1>0, <2>2, <3>1, GrownMore
    <3>3. QED
      BY <1>5, <2>2, <3>1, <3>2
  <2>3. CASE L # -1 /\ L \notin G
    <3>1. L \in Levels /\ L \in DOMAIN newEdge
      BY <1>5, <1>6, <2>3
    <3>2. SizeAt(size, L) > 0 /\ newEdge[L] = RightTile(size, L)
      BY <1>3, <3>1
    <3>3. RightTile(n, L) = RightTile(size, L) /\ SizeAt(size, L) = SizeAt(n, L)
      BY <1>0, <2>3, <3>1, GrownMore DEF Grown
    <3>4. QED
      BY <1>5, <2>3, <3>1, <3>2, <3>3
  <2>4. QED
    BY <2>1, <2>2, <2>3
<1>8. Needed(n) \subseteq DOMAIN newEdge'
  <2>1. SUFFICES ASSUME NEW L \in Needed(n), L \notin G
                 PROVE  L \in DOMAIN newEdge
    BY <1>5
  <2>2. L \in Needed(size) /\ L \in Levels
    BY <1>0, <2>1, NeededGrows DEF Needed
  <2>3. QED
    BY <1>0, <1>2, <2>2 DEF EdgeOK
<1>9. EdgeOK(n, newEdge', newEdgeData)
  <2>1. newEdge' = [L \in DOMAIN newEdge' |-> RightTile(n, L)]
    BY <1>5, <1>7
  <2>2. n > 0 => -1 \in DOMAIN newEdge'
    BY <1>0, <1>5 DEF DataEdgeOK
  <2>3. newEdgeData = IF n = 0 THEN <<>> ELSE LeavesIn(RightTile(n, -1))
    BY <1>0 DEF DataEdgeOK
  <2>4. DOMAIN newEdge' \subseteq {L \in Levels \cup {-1} : SizeAt(n, L) > 0}
    BY <1>7
  <2>5. QED
    BY <1>8, <2>1, <2>2, <2>3, <2>4 DEF EdgeOK
<1>10. tileUploads' = NewTiles(size, n)
  BY <1>0, <1>1 DEF NewTiles
<1>11. RoundOK'
  BY <1>0, <1>1, <1>9, <1>10 DEF EdgeInv, RoundOK
<1>12. TypeOK'
  <2>1. tileUploads' \subseteq Tile
    BY <1>0, <1>10, NewTilesOnly, TilesOfBound
  <2>2. /\ DOMAIN newEdge' \subseteq Levels \cup {-1} /\ Range(newEdge') \subseteq Tile
    BY <1>0, <1>9, EdgeType
  <2>3. QED
    BY <1>1, <2>1, <2>2 DEF EdgeInv, TypeOK
<1>13. QED
  BY <1>0, <1>1, <1>11, <1>12 DEF EdgeInv

LEMMA StepKeeps == EdgeInv /\ [Next]_vars => EdgeInv'
<1> SUFFICES ASSUME EdgeInv, [Next]_vars
             PROVE  EdgeInv'
  OBVIOUS
<1>1. CASE Load
  BY <1>1, LoadKeeps
<1>2. CASE Begin
  BY <1>2, BeginKeeps
<1>3. CASE AddLeaf
  BY <1>3, AddLeafKeeps
<1>4. CASE StageLeftover
  BY <1>4, StageLeftoverKeeps
<1>5. CASE StageTiles
  BY <1>5, StageTilesKeeps
<1>6. CASE Commit
  BY <1>6, CommitKeeps
<1>7. CASE Drop
  BY <1>7, DropKeeps
<1>8. CASE UNCHANGED vars
  BY <1>8 DEF vars, log, locals, EdgeInv, TypeOK, RoundOK, DataEdgeOK
<1>9. QED
  BY <1>1, <1>2, <1>3, <1>4, <1>5, <1>6, <1>7, <1>8 DEF Next

LEMMA EdgeInvariance == Spec => []EdgeInv
<1>1. Init => EdgeInv
  BY InitOK
<1>2. EdgeInv /\ [Next]_vars => EdgeInv'
  BY StepKeeps
<1>3. QED
  BY <1>1, <1>2, PTL DEF Spec

-----------------------------------------------------------------------------
(* The theorems.                                                           *)

(* sequencePool's locals and Log's fields keep their types, for every      *)
(* height of tiles and size of tree.                                       *)
THEOREM EdgeTypeCorrect == Spec => []TypeOK
<1>1. EdgeInv => TypeOK
  BY DEF EdgeInv
<1>2. QED
  BY <1>1, EdgeInvariance, PTL

(* hashReader never misses a hash: sequencePool needs no hash that is      *)
(* neither in its overlay nor in the edge it started from, after any       *)
(* succession of rounds, dropped rounds and LoadLogs.                      *)
THEOREM HashesAlwaysFound == Spec => []EveryHashFound
<1>1. ASSUME EdgeInv PROVE EveryHashFound
  <2>1. pc = "add" => Found(Siblings(n))
    BY <1>1, SiblingsFound
  <2>2. ASSUME pc = "tiles" PROVE Found(FinalReads)
    <3>1. Found(SubTrees(n)) /\ \A t \in NewHashTiles(size, n) : Found(TileData(t))
      BY <1>1, <2>2, SubTreesFound, TileDataFound
    <3>2. SUFFICES ASSUME NEW hash \in FinalReads
                   PROVE  hash \in newHashes \/ \E L \in DOMAIN edge : InTile(edge[L], hash)
      BY DEF Found
    <3>3. CASE hash \in SubTrees(n)
      BY <3>1, <3>3 DEF Found
    <3>4. ASSUME NEW t \in NewHashTiles(size, n), hash \in TileData(t)
          PROVE  hash \in newHashes \/ \E L \in DOMAIN edge : InTile(edge[L], hash)
      BY <3>1, <3>4 DEF Found
    <3>5. hash \in SubTrees(n) \/ \E t \in NewHashTiles(size, n) : hash \in TileData(t)
      BY <3>2 DEF FinalReads
    <3>6. QED
      BY <3>3, <3>4, <3>5
  <2>3. QED
    BY <2>1, <2>2 DEF EveryHashFound
<1>2. QED
  BY <1>1, EdgeInvariance, PTL

(* What sequencePool stages, leaf by leaf and level by level, is what the  *)
(* new tree has and the old one had not.                                   *)
THEOREM UploadsAreExact == Spec => []UploadsExact
<1>1. ASSUME EdgeInv PROVE UploadsExact
  <2>1. SUFFICES ASSUME pc = "commit" PROVE tileUploads = TilesOf(n) \ TilesOf(size)
    BY DEF UploadsExact
  <2>2. size \in Nat /\ n \in Nat /\ size <= n /\ tileUploads = NewTiles(size, n)
    BY <1>1, <2>1, Width DEF EdgeInv, TypeOK, RoundOK
  <2>3. QED
    BY <2>2, NewTilesSuffice, NewTilesOnly, NewTilesAreNew
<1>2. QED
  BY <1>1, EdgeInvariance, PTL

(* edgeTiles[-1] holds the last leaves of the tree, and has their name.    *)
THEOREM DataTileIsRight == Spec => []DataTileRight
<1>1. ASSUME EdgeInv PROVE DataTileRight
  <2>1. EdgeOK(size, edge, edgeData) /\ size \in Nat
    BY <1>1, Width DEF EdgeInv, TypeOK
  <2>2. QED
    BY <2>1 DEF EdgeOK, DataTileRight
<1>2. QED
  BY <1>1, EdgeInvariance, PTL

(* LoadLog finds, level by level, what the rounds before had in memory.    *)
THEOREM ReloadsAgree == Spec => []ReloadAgrees
<1>1. ASSUME EdgeInv PROVE ReloadAgrees
  <2>1. SUFFICES ASSUME size > 0
                 PROVE  \A L \in DOMAIN RightMost(EdgeRead(size)) :
                           L \in DOMAIN edge /\ edge[L] = RightMost(EdgeRead(size))[L]
    BY DEF ReloadAgrees
  <2>2. size \in Nat /\ size \in 1 .. MaxSize /\ EdgeOK(size, edge, edgeData)
    BY <1>1, <2>1, Width DEF EdgeInv, TypeOK
  <2>3. Needed(size) \subseteq Levels /\ \A L \in Needed(size) : SizeAt(size, L) > 0
    BY DEF Needed
  <2>4. RightMost(EdgeRead(size)) = [L \in Needed(size) |-> RightTile(size, L)]
    BY <2>2, <2>3, EdgeReadIs, RightMostOfEdge
  <2>5. QED
    BY <2>2, <2>4 DEF EdgeOK
<1>2. QED
  BY <1>1, EdgeInvariance, PTL

(* The tiles LoadLog reads according to Sequencer are the ones             *)
(* tlog.TileHashReader fetches, and the data tile.                         *)
THEOREM EdgeTilesAreRight == Spec => []EdgeTilesRight
<1>1. ASSUME EdgeInv PROVE EdgeTilesRight
  <2>1. SUFFICES ASSUME size > 0
                 PROVE  EdgeTiles(size) = EdgeRead(size) \cup {RightTile(size, -1)}
    BY DEF EdgeTilesRight
  <2>2. size \in 1 .. MaxSize
    BY <1>1, <2>1, Width DEF EdgeInv, TypeOK
  <2>3. EdgeTiles(size) = {RightTile(size, L) : L \in {-1} \cup Needed(size)}
    BY DEF EdgeTiles, Needed, Partial
  <2>4. QED
    BY <2>2, <2>3, EdgeReadIs
<1>2. QED
  BY <1>1, EdgeInvariance, PTL
=============================================================================
