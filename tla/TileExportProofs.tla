------------------------- MODULE TileExportProofs --------------------------
(***************************************************************************)
(* Map exports, proved for every pyramid, block width and number of        *)
(* workers.                                                                *)
(*                                                                         *)
(* First what the block arithmetic gives: a level is cut up without gap or *)
(* overlap, and children_of finds exactly the blocks of a block's          *)
(* children.  On it rest the three results about the export: the raw cache *)
(* holds what the walk needs and nothing more, only a fault makes an       *)
(* export fail, and a complete archive shows every tile's ground.          *)
(***************************************************************************)
EXTENDS TileExport, FiniteSetTheorems, SequenceTheorems, WellFoundedInduction, TLAPS

\* A quotient and its remainder, which is all the proofs use of division.
LEMMA Division ==
  ASSUME NEW n \in Nat
  PROVE  /\ n \div BLOCK_W \in Nat
         /\ BLOCK_W * (n \div BLOCK_W) <= n
         /\ n < BLOCK_W * (n \div BLOCK_W) + BLOCK_W
  BY BlockWAssumption

\* Multiplication by a block's width keeps the order of block numbers.
LEMMA Monotone ==
  ASSUME NEW p \in Int, NEW q \in Int, p < q
  PROVE  BLOCK_W * p + BLOCK_W <= BLOCK_W * q
  BY BlockWAssumption

\* The quotient is the only number with its remainder.
LEMMA Quotient ==
  ASSUME NEW n \in Nat, NEW q \in Int,
         BLOCK_W * q <= n, n < BLOCK_W * q + BLOCK_W
  PROVE  n \div BLOCK_W = q
<1> DEFINE d == n \div BLOCK_W
<1>1. d \in Nat /\ BLOCK_W * d <= n /\ n < BLOCK_W * d + BLOCK_W
  BY Division
<1> HIDE DEF d
<1>2. ~(d < q)
  BY <1>1, Monotone, BlockWAssumption
<1>3. ~(q < d)
  BY <1>1, Monotone, BlockWAssumption
<1>4. d = q
  BY <1>1, <1>2, <1>3
<1> QED BY <1>4 DEF d

\* How many blocks a level has: the last one starts inside the level and ends
\* at its edge or beyond (build_zoom_level).
LEMMA LastBlock ==
  ASSUME NEW lo \in Nat, NEW hi \in Nat, lo <= hi
  PROVE  /\ BlockCount(lo, hi) \in Nat \ {0}
         /\ BLOCK_W * (BlockCount(lo, hi) - 1) <= hi - lo
         /\ hi - lo < BLOCK_W * (BlockCount(lo, hi) - 1) + BLOCK_W
<1> DEFINE c == BlockCount(lo, hi)
<1>1. hi - lo + BLOCK_W \in Nat
  BY BlockWAssumption
<1>2. /\ c \in Nat
      /\ BLOCK_W * c <= hi - lo + BLOCK_W
      /\ hi - lo + BLOCK_W < BLOCK_W * c + BLOCK_W
  BY <1>1, Division DEF BlockCount
<1> HIDE DEF c
<1>3. c # 0
  BY <1>2, BlockWAssumption
<1>4. BLOCK_W * (c - 1) = BLOCK_W * c - BLOCK_W
  BY <1>2, BlockWAssumption
<1>5. /\ c \in Nat \ {0}
      /\ BLOCK_W * (c - 1) <= hi - lo
      /\ hi - lo < BLOCK_W * (c - 1) + BLOCK_W
  BY <1>2, <1>3, <1>4, BlockWAssumption
<1> QED BY <1>5 DEF c

\* Every tile of a level is in the block that block_for names: the blocks
\* leave no gap (block_for, clipped_dimensions).
THEOREM TileIsInItsBlock ==
  ASSUME NEW lo \in Nat, NEW hi \in Nat, lo <= hi, NEW t \in lo .. hi
  PROVE  /\ BlockOf(t, lo) \in 0 .. BlockCount(lo, hi) - 1
         /\ t \in TilesOf(BlockOf(t, lo), lo, hi)
<1> DEFINE k == BlockOf(t, lo)
           c == BlockCount(lo, hi)
<1>1. t - lo \in Nat
  OBVIOUS
<1>2. k \in Nat /\ BLOCK_W * k <= t - lo /\ t - lo < BLOCK_W * k + BLOCK_W
  BY <1>1, Division DEF BlockOf
<1>3. /\ c \in Nat \ {0}
      /\ BLOCK_W * (c - 1) <= hi - lo
      /\ hi - lo < BLOCK_W * (c - 1) + BLOCK_W
  BY LastBlock
<1>4. k * BLOCK_W = BLOCK_W * k
  BY <1>2, BlockWAssumption
<1>5. TilesOf(k, lo, hi) =
        (lo + k * BLOCK_W) ..
          (lo + k * BLOCK_W
             + (IF k = c - 1 THEN hi - lo + 1 - k * BLOCK_W ELSE BLOCK_W) - 1)
  BY DEF TilesOf, Origin, Extent
<1> HIDE DEF k, c
<1>6. ~(c - 1 < k)
  BY <1>2, <1>3, Monotone, BlockWAssumption
<1>7. k \in 0 .. c - 1
  BY <1>2, <1>3, <1>6
<1>8. t \in TilesOf(k, lo, hi)
  <2> SUFFICES t \in (lo + BLOCK_W * k) ..
                 (lo + BLOCK_W * k
                    + (IF k = c - 1 THEN hi - lo + 1 - BLOCK_W * k ELSE BLOCK_W) - 1)
    BY <1>4, <1>5
  <2> DEFINE m == BLOCK_W * k
  <2>1. m \in Int
    BY <1>2, BlockWAssumption
  <2>2. m <= t - lo /\ t - lo < m + BLOCK_W
    BY <1>2
  <2> HIDE DEF m
  <2>3. t \in (lo + m) .. (lo + m + (IF k = c - 1 THEN hi - lo + 1 - m ELSE BLOCK_W) - 1)
    BY <2>1, <2>2, BlockWAssumption
  <2> QED BY <2>3 DEF m
<1> QED BY <1>7, <1>8 DEF k, c

\* A tile of block k is a tile of the level, and block_for names k for it: the
\* blocks do not overlap (block_for, clipped_dimensions).
THEOREM BlockOwnsItsTiles ==
  ASSUME NEW lo \in Nat, NEW hi \in Nat, lo <= hi,
         NEW k \in 0 .. BlockCount(lo, hi) - 1, NEW t \in TilesOf(k, lo, hi)
  PROVE  t \in lo .. hi /\ BlockOf(t, lo) = k
<1> DEFINE c == BlockCount(lo, hi)
           m == BLOCK_W * k
           e == BLOCK_W * (c - 1)
<1>1. c \in Nat \ {0} /\ e <= hi - lo /\ hi - lo < e + BLOCK_W
  BY LastBlock
<1>2. k \in Int /\ m \in Nat /\ e \in Int /\ k * BLOCK_W = m
  BY <1>1, BlockWAssumption
<1>3. t \in (lo + m) .. (lo + m + (IF k = c - 1 THEN hi - lo + 1 - m ELSE BLOCK_W) - 1)
  BY <1>2 DEF TilesOf, Origin, Extent
<1>4. k = c - 1 => m = e
  OBVIOUS
<1>5. k # c - 1 => m + BLOCK_W <= e
  <2> SUFFICES ASSUME k # c - 1 PROVE m + BLOCK_W <= e
    OBVIOUS
  <2>1. k < c - 1 /\ c - 1 \in Int
    BY <1>1, <1>2
  <2> QED BY <2>1, <1>2, Monotone
<1> HIDE DEF c, m, e
<1>6. t \in lo .. hi /\ m <= t - lo /\ t - lo < m + BLOCK_W
  BY <1>1, <1>2, <1>3, <1>4, <1>5, BlockWAssumption
<1>7. BlockOf(t, lo) = k
  BY <1>2, <1>6, Quotient DEF BlockOf, m
<1> QED BY <1>6, <1>7

\* The blocks of an interval of tiles are an interval of blocks.
LEMMA BlocksOfAnInterval ==
  ASSUME NEW lo \in Nat, NEW from \in Nat, NEW to \in Nat,
         lo <= from, from <= to
  PROVE  BlockOf(from, lo) .. BlockOf(to, lo) = {BlockOf(t, lo) : t \in from .. to}
<1> DEFINE W == BLOCK_W
           p == BlockOf(from, lo)
           q == BlockOf(to, lo)
<1>1. p \in Nat /\ W * p <= from - lo /\ from - lo < W * p + W
  <2>1. from - lo \in Nat
    OBVIOUS
  <2> QED BY <2>1, Division DEF BlockOf
<1>2. q \in Nat /\ W * q <= to - lo /\ to - lo < W * q + W
  <2>1. to - lo \in Nat
    OBVIOUS
  <2> QED BY <2>1, Division DEF BlockOf
<1> HIDE DEF p, q
<1>3. ASSUME NEW t \in from .. to
      PROVE  BlockOf(t, lo) \in p .. q
  <2> DEFINE d == BlockOf(t, lo)
  <2>1. t - lo \in Nat
    OBVIOUS
  <2>2. d \in Nat /\ W * d <= t - lo /\ t - lo < W * d + W
    BY <2>1, Division DEF BlockOf
  <2> HIDE DEF d
  <2>3. ~(d < p)
    BY <1>1, <2>2, Monotone, BlockWAssumption
  <2>4. ~(q < d)
    BY <1>2, <2>2, Monotone, BlockWAssumption
  <2>5. d \in p .. q
    BY <1>1, <1>2, <2>2, <2>3, <2>4
  <2> QED BY <2>5 DEF d
<1>4. ASSUME NEW j \in p .. q
      PROVE  \E t \in from .. to : BlockOf(t, lo) = j
  <2>1. j \in Nat /\ p <= j /\ j <= q
    BY <1>1, <1>2
  <2>2. CASE j = p
    BY <2>2 DEF p
  <2>3. CASE j # p
    <3> DEFINE m == W * j
    <3>1. m \in Nat
      BY <2>1, BlockWAssumption
    <3>2. from - lo < m
      <4>1. W * p + W <= m
        BY <1>1, <2>1, <2>3, Monotone
      <4> QED BY <1>1, <3>1, <4>1, BlockWAssumption
    <3>3. m <= to - lo
      <4>1. CASE j = q
        BY <4>1, <1>2
      <4>2. CASE j # q
        <5>1. m + W <= W * q
          BY <1>2, <2>1, <4>2, Monotone
        <5> QED BY <1>2, <3>1, <5>1, BlockWAssumption
      <4> QED BY <4>1, <4>2
    <3>4. lo + m \in from .. to /\ (lo + m) - lo = m
      BY <3>1, <3>2, <3>3
    <3>5. m \div W = j
      BY <2>1, <3>1, Quotient, BlockWAssumption
    <3>6. BlockOf(lo + m, lo) = j
      BY <3>4, <3>5 DEF BlockOf
    <3> QED BY <3>4, <3>6
  <2> QED BY <2>2, <2>3
<1>5. p .. q = {BlockOf(t, lo) : t \in from .. to}
  BY <1>3, <1>4
<1> QED BY <1>5 DEF p, q

\* The children of block k's tiles, along one axis.
TilesUnder(k, lo, hi, clo, chi) ==
  {t \in clo .. chi : t \div 2 \in TilesOf(k, lo, hi)}

\* children_of(k) is exactly the blocks of the next level that hold a child of
\* one of block k's tiles, and there is at least one: however the two grids
\* are aligned, no child is missed and no other block is walked (children_of).
THEOREM ChildrenAreExact ==
  ASSUME NEW clo \in Nat, NEW chi \in Nat, clo <= chi,
         NEW lo \in Nat, NEW hi \in Nat,
         lo = clo \div 2, hi = chi \div 2,
         NEW k \in 0 .. BlockCount(lo, hi) - 1
  PROVE  /\ \E t \in clo .. chi : t \in TilesUnder(k, lo, hi, clo, chi)
         /\ ChildSpan(k, lo, hi, clo, chi) \in Nat \X Nat
         /\ \A t \in TilesUnder(k, lo, hi, clo, chi) :
              BlockOf(t, clo) \in ChildSpan(k, lo, hi, clo, chi)[1]
                                    .. ChildSpan(k, lo, hi, clo, chi)[2]
         /\ \A j \in ChildSpan(k, lo, hi, clo, chi)[1]
                    .. ChildSpan(k, lo, hi, clo, chi)[2] :
              \E t \in TilesUnder(k, lo, hi, clo, chi) : BlockOf(t, clo) = j
<1> DEFINE a == Origin(k, lo)
           b == a + Extent(k, lo, hi) - 1
           first == 2 * a
           last == 2 * a + 2 * Extent(k, lo, hi) - 1
           from == IF first < clo THEN clo ELSE first
           to == IF last > chi THEN chi ELSE last
           under == {t \in clo .. chi : t \div 2 \in TilesOf(k, lo, hi)}
           span == ChildSpan(k, lo, hi, clo, chi)
<1>1. lo <= hi
  OBVIOUS
<1>2. TilesOf(k, lo, hi) = a .. b
  BY DEF TilesOf
<1>3. a \in Int /\ b \in Int /\ last = 2 * b + 1 /\ a <= b
  <2> DEFINE c == BlockCount(lo, hi)
             m == BLOCK_W * k
             e == BLOCK_W * (c - 1)
  <2>1. c \in Nat \ {0} /\ e <= hi - lo /\ hi - lo < e + BLOCK_W
    BY <1>1, LastBlock
  <2>2. k \in Int /\ m \in Nat /\ e \in Int /\ k * BLOCK_W = m
    BY <2>1, BlockWAssumption
  <2>3. k = c - 1 => m = e
    OBVIOUS
  <2>4. a = lo + m
    BY <2>2 DEF Origin
  <2>5. Extent(k, lo, hi) = IF k = c - 1 THEN hi - lo + 1 - m ELSE BLOCK_W
    BY <2>2 DEF Extent
  <2> HIDE DEF c, m, e, a
  <2>6. Extent(k, lo, hi) \in Nat \ {0}
    BY <2>1, <2>2, <2>3, <2>5, BlockWAssumption
  <2>7. a \in Int
    BY <2>2, <2>4
  <2> QED BY <2>6, <2>7
<1>4. a \in lo .. hi /\ b \in lo .. hi
  <2>1. a \in TilesOf(k, lo, hi) /\ b \in TilesOf(k, lo, hi)
    BY <1>2, <1>3
  <2> QED BY <1>1, <2>1, BlockOwnsItsTiles
<1> HIDE DEF a, b
<1>5. last = 2 * b + 1 /\ first = 2 * a /\ a \in Nat /\ b \in Nat
  BY <1>3, <1>4
<1> HIDE DEF last, first
<1>6. from \in Nat /\ to \in Nat /\ clo <= from /\ from <= to /\ to <= chi
  BY <1>3, <1>4, <1>5
<1>7. \A t \in clo .. chi : t \div 2 \in a .. b <=> first <= t /\ t <= last
  BY <1>4, <1>5
<1>8. under = from .. to
  BY <1>2, <1>5, <1>6, <1>7
<1> HIDE DEF from, to
<1>9. under # {}
  <2>1. from \in from .. to
    BY <1>6
  <2>2. from \in under
    BY <2>1, <1>8
  <2> QED BY <2>2
<1>10. span = IF from > to THEN <<1, 0>> ELSE <<BlockOf(from, clo), BlockOf(to, clo)>>
  BY DEF ChildSpan, first, last, a, from, to
<1> HIDE DEF under, span
<1>11. span = <<BlockOf(from, clo), BlockOf(to, clo)>>
  BY <1>6, <1>10
<1>12. BlockOf(from, clo) \in Nat /\ BlockOf(to, clo) \in Nat
  <2>1. from - clo \in Nat /\ to - clo \in Nat
    BY <1>6
  <2> QED BY <2>1, Division DEF BlockOf
<1>13. span \in Nat \X Nat
  BY <1>11, <1>12
<1>14. BlockOf(from, clo) .. BlockOf(to, clo) = {BlockOf(t, clo) : t \in from .. to}
  BY <1>6, BlocksOfAnInterval
<1>15. /\ \E t \in clo .. chi : t \in under
       /\ \A t \in under : BlockOf(t, clo) \in span[1] .. span[2]
       /\ \A j \in span[1] .. span[2] : \E t \in under : BlockOf(t, clo) = j
  <2>1. span[1] .. span[2] = {BlockOf(t, clo) : t \in from .. to}
    BY <1>11, <1>14
  <2>2. \A t \in from .. to : t \in clo .. chi
    BY <1>6
  <2>3. from \in from .. to
    BY <1>6
  <2> QED BY <1>8, <2>1, <2>2, <2>3
<1> QED BY <1>13, <1>15 DEF under, span, TilesUnder

-----------------------------------------------------------------------------
(* Rectangles of blocks.                                                   *)

LEMMA Remainder ==
  ASSUME NEW w \in Nat \ {0}, NEW n \in Nat
  PROVE  /\ n \div w \in Nat /\ n % w \in 0 .. w - 1
         /\ n = w * (n \div w) + (n % w)
  OBVIOUS

LEMMA Product ==
  ASSUME NEW w \in Nat \ {0}, NEW p \in Nat, NEW q \in Nat, p < q
  PROVE  w * p + w <= w * q
<1>1. PICK d \in Nat : q = p + 1 + d
  <2>1. q - p - 1 \in Nat /\ q = p + 1 + (q - p - 1)
    OBVIOUS
  <2> QED BY <2>1
<1>2. w * q = w * p + w + w * d /\ w * d \in Nat
  BY <1>1
<1>3. w * p \in Nat
  OBVIOUS
<1> QED BY <1>2, <1>3

\* A number below w * h is a column and a row of a grid of that size, and
\* every column and row is such a number.
LEMMA Cells ==
  ASSUME NEW w \in Nat \ {0}, NEW h \in Nat \ {0}
  PROVE  /\ w * h \in Nat \ {0}
         /\ \A n \in 0 .. w * h - 1 : n % w \in 0 .. w - 1 /\ n \div w \in 0 .. h - 1
         /\ \A x \in 0 .. w - 1, y \in 0 .. h - 1 :
              \E n \in 0 .. w * h - 1 : n % w = x /\ n \div w = y
<1>1. w * h \in Nat \ {0}
  BY Product
<1>2. ASSUME NEW n \in 0 .. w * h - 1
      PROVE  n % w \in 0 .. w - 1 /\ n \div w \in 0 .. h - 1
  <2> DEFINE q == n \div w
             r == n % w
             m == w * q
             c == w * h
  <2>1. n \in Nat
    BY <1>1
  <2>2. q \in Nat /\ r \in 0 .. w - 1 /\ n = m + r
    BY <2>1, Remainder
  <2>3. m \in Nat /\ c \in Nat /\ n < c
    BY <1>1, <2>2
  <2>4. h < q => c + w <= m
    BY <2>2, Product
  <2>5. q = h => m = c
    OBVIOUS
  <2> HIDE DEF q, r, m, c
  <2>6. q < h
    BY <2>2, <2>3, <2>4, <2>5
  <2> QED BY <2>2, <2>6 DEF q, r
<1>3. ASSUME NEW x \in 0 .. w - 1, NEW y \in 0 .. h - 1
      PROVE  \E n \in 0 .. w * h - 1 : n % w = x /\ n \div w = y
  <2> DEFINE n == w * y + x
             q == n \div w
             r == n % w
             m == w * y
             l == w * q
             c == w * h
  <2>1. m \in Nat /\ c \in Nat /\ y \in Nat /\ x \in Nat /\ n = m + x
    BY <1>1
  <2>2. m + w <= c
    BY <2>1, Product
  <2>3. n \in 0 .. w * h - 1
    BY <2>1, <2>2
  <2>4. n \in Nat
    BY <2>1
  <2>5. q \in Nat /\ r \in 0 .. w - 1 /\ n = l + r /\ l \in Nat
    <3> HIDE DEF n
    <3>1. q \in Nat /\ r \in 0 .. w - 1 /\ n = l + r
      BY <2>4, Remainder
    <3> QED BY <3>1
  <2>6. q < y => l + w <= m
    BY <2>1, <2>5, Product
  <2>7. y < q => m + w <= l
    BY <2>1, <2>5, Product
  <2>8. q = y => l = m
    OBVIOUS
  <2> HIDE DEF q, r, m, l, c, n
  <2>9. q = y /\ r = x
    BY <2>1, <2>5, <2>6, <2>7, <2>8
  <2> QED BY <2>3, <2>9 DEF q, r
<1> QED BY <1>1, <1>2, <1>3

\* The blocks of a rectangle come once each, and there is one.
LEMMA Rectangle ==
  ASSUME NEW z \in Nat, NEW x \in Nat \X Nat, NEW y \in Nat \X Nat,
         x[1] <= x[2], y[1] <= y[2]
  PROVE  /\ RowMajor(z, x, y) \in Seq({z} \X (x[1] .. x[2]) \X (y[1] .. y[2]))
         /\ RowMajor(z, x, y) # <<>> /\ IsInjective(RowMajor(z, x, y))
         /\ \A p \in x[1] .. x[2], q \in y[1] .. y[2] : <<z, p, q>> \in Range(RowMajor(z, x, y))
<1> DEFINE w == x[2] - x[1] + 1
           h == y[2] - y[1] + 1
           s == RowMajor(z, x, y)
           r == {z} \X (x[1] .. x[2]) \X (y[1] .. y[2])
           cell(n) == <<z, x[1] + (n % w), y[1] + (n \div w)>>
<1>1. w \in Nat \ {0} /\ h \in Nat \ {0} /\ x[1] \in Nat /\ y[1] \in Nat
  OBVIOUS
<1>2. s = [i \in 1 .. w * h |-> cell(i - 1)]
  BY DEF RowMajor
<1>3. /\ w * h \in Nat \ {0}
      /\ \A n \in 0 .. w * h - 1 : n % w \in 0 .. w - 1 /\ n \div w \in 0 .. h - 1
      /\ \A p \in 0 .. w - 1, q \in 0 .. h - 1 :
           \E n \in 0 .. w * h - 1 : n % w = p /\ n \div w = q
  <2> HIDE DEF w, h
  <2> QED BY <1>1, Cells, Zenon
<1>4. \A n \in 0 .. w * h - 1 : n \in Nat /\ n % w \in 0 .. w - 1 /\ n \div w \in 0 .. h - 1
  <2> HIDE DEF w, h
  <2> QED BY <1>3
<1>5. \A n \in 0 .. w * h - 1 : cell(n) \in r
  <2> TAKE n \in 0 .. w * h - 1
  <2>1. n % w \in 0 .. w - 1 /\ n \div w \in 0 .. h - 1
    BY <1>4
  <2> HIDE DEF w, h
  <2>2. x[1] + (n % w) \in x[1] .. (x[1] + w - 1) /\ y[1] + (n \div w) \in y[1] .. (y[1] + h - 1)
    BY <1>1, <2>1
  <2>3. x[1] + w - 1 = x[2] /\ y[1] + h - 1 = y[2]
    BY DEF w, h
  <2> QED BY <2>2, <2>3
<1>6. \A i \in 1 .. w * h : i - 1 \in 0 .. w * h - 1
  BY <1>3
<1>7. s \in Seq(r)
  <2> DEFINE n == w * h
  <2>1. n \in Nat
    BY <1>3
  <2>2. \A i \in 1 .. n : cell(i - 1) \in r
    BY <1>5, <1>6
  <2>3. s = [i \in 1 .. n |-> cell(i - 1)]
    BY <1>2
  <2> HIDE DEF cell, r, w, h, s, n
  <2>4. s \in [1 .. n -> r]
    BY <2>2, <2>3
  <2> QED BY <2>1, <2>4
<1>8. s # <<>> /\ DOMAIN s = 1 .. w * h
  <2> HIDE DEF cell, r, w, h, s
  <2> QED BY <1>2, <1>3
<1>9. IsInjective(s)
  <2> SUFFICES ASSUME NEW i \in 1 .. w * h, NEW j \in 1 .. w * h, s[i] = s[j]
               PROVE  i = j
    BY <1>8 DEF IsInjective
  <2>1. cell(i - 1) = cell(j - 1)
    BY <1>2
  <2> DEFINE a == i - 1
             b == j - 1
  <2>2. a \in Nat /\ b \in Nat
    BY <1>4, <1>6
  <2>3. a % w \in Nat /\ b % w \in Nat /\ a \div w \in Nat /\ b \div w \in Nat
    BY <1>4, <1>6
  <2>4. a % w = b % w /\ a \div w = b \div w
    <3> HIDE DEF w, a, b
    <3>1. /\ x[1] + (a % w) = x[1] + (b % w)
          /\ y[1] + (a \div w) = y[1] + (b \div w)
      BY <2>1 DEF a, b
    <3> QED BY <3>1, <2>3, <1>1
  <2>5. a = w * (a \div w) + (a % w) /\ b = w * (b \div w) + (b % w)
    BY <1>1, <2>2, Remainder
  <2>6. a = b
    BY <2>4, <2>5
  <2> QED BY <2>6, <1>3
<1>10. ASSUME NEW p \in x[1] .. x[2], NEW q \in y[1] .. y[2]
       PROVE  <<z, p, q>> \in Range(s)
  <2>1. p - x[1] \in 0 .. w - 1 /\ q - y[1] \in 0 .. h - 1
    OBVIOUS
  <2>2. PICK n \in 0 .. w * h - 1 : n % w = p - x[1] /\ n \div w = q - y[1]
    <3> HIDE DEF w, h
    <3> QED BY <1>3, <2>1
  <2>3. cell(n) = <<z, p, q>>
    <3>1. x[1] + (p - x[1]) = p /\ y[1] + (q - y[1]) = q
      OBVIOUS
    <3> QED BY <2>2, <3>1
  <2>4. n + 1 \in 1 .. w * h /\ (n + 1) - 1 = n
    BY <1>3
  <2> HIDE DEF cell, w, h, s, r
  <2> QED BY <1>2, <1>8, <2>3, <2>4 DEF Range
<1> QED BY <1>7, <1>8, <1>9, <1>10

-----------------------------------------------------------------------------
(* The levels of an export, from its own zoom up.                          *)

\* The powers of two that a pyramid can need.
LEMMA Powers ==
  /\ \A n \in 0 .. MAX_WEB_MERCATOR_TREE_ZOOM : 2^n \in Nat \ {0}
  /\ \A n \in 0 .. MAX_WEB_MERCATOR_TREE_ZOOM - 1 : 2^(n + 1) = 2 * 2^n
<1>1. /\ \A n \in 0 .. 16 : n \in {0, 1, 2, 3, 4, 5, 6, 7, 8,
                              9, 10, 11, 12, 13, 14, 15, 16}
      /\ \A n \in 0 .. 15 : n \in {0, 1, 2, 3, 4, 5, 6, 7,
                              8, 9, 10, 11, 12, 13, 14, 15}
  OBVIOUS
<1>2. /\ 2^0 \in Nat \ {0} /\ 2^1 \in Nat \ {0} /\ 2^2 \in Nat \ {0}
      /\ 2^3 \in Nat \ {0} /\ 2^4 \in Nat \ {0} /\ 2^5 \in Nat \ {0}
      /\ 2^6 \in Nat \ {0} /\ 2^7 \in Nat \ {0} /\ 2^8 \in Nat \ {0}
      /\ 2^9 \in Nat \ {0} /\ 2^10 \in Nat \ {0} /\ 2^11 \in Nat \ {0}
      /\ 2^12 \in Nat \ {0} /\ 2^13 \in Nat \ {0} /\ 2^14 \in Nat \ {0}
      /\ 2^15 \in Nat \ {0} /\ 2^16 \in Nat \ {0}
  OBVIOUS
<1>3. /\ 2^(0 + 1) = 2 * 2^0 /\ 2^(1 + 1) = 2 * 2^1
      /\ 2^(2 + 1) = 2 * 2^2 /\ 2^(3 + 1) = 2 * 2^3
      /\ 2^(4 + 1) = 2 * 2^4 /\ 2^(5 + 1) = 2 * 2^5
      /\ 2^(6 + 1) = 2 * 2^6 /\ 2^(7 + 1) = 2 * 2^7
      /\ 2^(8 + 1) = 2 * 2^8 /\ 2^(9 + 1) = 2 * 2^9
      /\ 2^(10 + 1) = 2 * 2^10 /\ 2^(11 + 1) = 2 * 2^11
      /\ 2^(12 + 1) = 2 * 2^12 /\ 2^(13 + 1) = 2 * 2^13
      /\ 2^(14 + 1) = 2 * 2^14 /\ 2^(15 + 1) = 2 * 2^15
  OBVIOUS
<1>4. \A n \in 0 .. 16 : 2^n \in Nat \ {0}
  BY <1>1, <1>2, Zenon
<1>5. \A n \in 0 .. 15 : 2^(n + 1) = 2 * 2^n
  BY <1>1, <1>3, ZenonT(90)
<1> QED BY <1>4, <1>5 DEF MAX_WEB_MERCATOR_TREE_ZOOM

\* Half of a quotient is the quotient of the double.
LEMMA Halving ==
  ASSUME NEW m \in Nat, NEW p \in Nat \ {0}
  PROVE  m \div (2 * p) = (m \div p) \div 2
<1> DEFINE q == m \div p
           r == m % p
           h == q \div 2
           k == m \div (2 * p)
<1>1. q \in Nat /\ r \in 0 .. p - 1 /\ m = p * q + r
  BY Remainder
<1>2. h \in Nat /\ (q = 2 * h \/ q = 2 * h + 1)
  BY <1>1
<1>3. k \in Nat /\ (2 * p) * k <= m /\ m < (2 * p) * k + 2 * p
  <2> DEFINE d == 2 * p
  <2>1. d \in Nat \ {0}
    OBVIOUS
  <2> HIDE DEF d
  <2>2. /\ m \div d \in Nat /\ m % d \in 0 .. d - 1
        /\ m = d * (m \div d) + (m % d)
    BY <2>1, Remainder
  <2>3. d * (m \div d) <= m /\ m < d * (m \div d) + d
    <3> DEFINE c == d * (m \div d)
               b == m % d
    <3>1. c \in Nat /\ b \in 0 .. d - 1 /\ m = c + b
      BY <2>1, <2>2
    <3> HIDE DEF b, c
    <3>2. c <= m /\ m < c + d
      BY <2>1, <3>1
    <3> QED BY <3>2 DEF c
  <2> QED BY <2>2, <2>3 DEF d
<1>4. (2 * p) * k = 2 * (p * k) /\ p * k \in Nat
  BY <1>3
<1>5. p * q = 2 * (p * h) \/ p * q = 2 * (p * h) + p
  BY <1>1, <1>2
<1>6. p * h \in Nat /\ p * q \in Nat
  BY <1>1, <1>2
<1>7. h < k => p * h + p <= p * k
  BY <1>2, <1>3, Product
<1>8. k < h => p * k + p <= p * h
  BY <1>2, <1>3, Product
<1> HIDE DEF q, r, h, k
<1>9. h = k
  BY <1>1, <1>2, <1>3, <1>4, <1>5, <1>6, <1>7, <1>8
<1> QED BY <1>9 DEF q, h, k

LEMMA QuotientsGrow ==
  ASSUME NEW p \in Nat \ {0}, NEW m \in Nat, NEW n \in Nat, m <= n
  PROVE  m \div p <= n \div p
<1> DEFINE k == m \div p
           l == n \div p
<1>1. k \in Nat /\ p * k <= m /\ l \in Nat /\ n < p * l + p
  BY Remainder
<1>2. l < k => p * l + p <= p * k
  BY <1>1, Product
<1>3. p * l \in Nat /\ p * k \in Nat
  BY <1>1
<1> HIDE DEF k, l
<1>4. k <= l
  BY <1>1, <1>2, <1>3
<1> QED BY <1>4 DEF k, l

\* Every level is an interval, and half of the one below it.
LEMMA Levels ==
  ASSUME NEW e \in Exports, NEW z \in 0 .. e.zoom, NEW a \in 1 .. 2
  PROVE  /\ Lo(e, z, a) \in Nat /\ Hi(e, z, a) \in Nat
         /\ Lo(e, z, a) <= Hi(e, z, a)
         /\ z < e.zoom => /\ Lo(e, z, a) = Lo(e, z + 1, a) \div 2
                          /\ Hi(e, z, a) = Hi(e, z + 1, a) \div 2
<1> DEFINE lo == e.min[a]
           hi == e.max[a]
           n == e.zoom - z
<1>1. e.zoom \in 0 .. MAX_WEB_MERCATOR_TREE_ZOOM
  BY ExportsAssumption
<1>2. {lo, hi} \subseteq 0 .. 2^e.zoom - 1 /\ lo <= hi
  BY ExportsAssumption
<1>3. 2^e.zoom \in Nat
  BY <1>1, Powers
<1> HIDE DEF lo, hi
<1>4. lo \in Nat /\ hi \in Nat
  BY <1>2, <1>3
<1>5. n \in 0 .. MAX_WEB_MERCATOR_TREE_ZOOM
  BY <1>1 DEF MAX_WEB_MERCATOR_TREE_ZOOM
<1>6. 2^n \in Nat \ {0}
  BY <1>5, Powers
<1> HIDE DEF n
<1>7. lo \div 2^n \in Nat /\ hi \div 2^n \in Nat
  BY <1>4, <1>6, Remainder
<1>8. lo \div 2^n <= hi \div 2^n
  BY <1>2, <1>4, <1>6, QuotientsGrow
<1>9. ASSUME z < e.zoom
      PROVE  /\ lo \div 2^n = (lo \div 2^(e.zoom - (z + 1))) \div 2
             /\ hi \div 2^n = (hi \div 2^(e.zoom - (z + 1))) \div 2
  <2> DEFINE m == e.zoom - (z + 1)
             p == 2^m
  <2>1. m \in 0 .. MAX_WEB_MERCATOR_TREE_ZOOM - 1 /\ m + 1 = n
    BY <1>1, <1>9 DEF n, MAX_WEB_MERCATOR_TREE_ZOOM
  <2>2. m \in 0 .. MAX_WEB_MERCATOR_TREE_ZOOM
    BY <2>1 DEF MAX_WEB_MERCATOR_TREE_ZOOM
  <2> HIDE DEF m
  <2>3. p \in Nat \ {0} /\ 2^n = 2 * p
    BY <2>1, <2>2, Powers
  <2> HIDE DEF p
  <2>4. lo \div (2 * p) = (lo \div p) \div 2 /\ hi \div (2 * p) = (hi \div p) \div 2
    BY <1>4, <2>3, Halving
  <2> QED BY <2>3, <2>4 DEF m, p
<1> QED BY <1>7, <1>8, <1>9 DEF Lo, Hi, lo, hi, n

\* The blocks of a level are its grid, once each.
LEMMA BlocksOfALevel ==
  ASSUME NEW e \in Exports, NEW z \in 0 .. e.zoom
  PROVE  /\ BlocksAtZoom(e, z) \in Seq(LevelBlocks(e, z))
         /\ IsInjective(BlocksAtZoom(e, z))
         /\ LevelBlocks(e, z) \subseteq Range(BlocksAtZoom(e, z))
<1> DEFINE count(a) == BlockCount(Lo(e, z, a), Hi(e, z, a))
           x == <<0, count(1) - 1>>
           y == <<0, count(2) - 1>>
<1>1. \A a \in 1 .. 2 : count(a) \in Nat \ {0}
  BY Levels, LastBlock
<1>2. x \in Nat \X Nat /\ y \in Nat \X Nat /\ x[1] <= x[2] /\ y[1] <= y[2]
  <2> HIDE DEF count
  <2> QED BY <1>1
<1>3. z \in Nat
  BY ExportsAssumption
<1>4. /\ BlocksAtZoom(e, z) = RowMajor(z, x, y)
      /\ LevelBlocks(e, z) = {z} \X (x[1] .. x[2]) \X (y[1] .. y[2])
  BY DEF BlocksAtZoom, LevelBlocks
<1> HIDE DEF x, y
<1>5. /\ RowMajor(z, x, y) \in Seq({z} \X (x[1] .. x[2]) \X (y[1] .. y[2]))
      /\ IsInjective(RowMajor(z, x, y))
      /\ \A p \in x[1] .. x[2], q \in y[1] .. y[2] : <<z, p, q>> \in Range(RowMajor(z, x, y))
  BY <1>2, <1>3, Rectangle
<1> QED BY <1>4, <1>5

\* What block's children are along one axis.
Span(e, block, a) ==
  ChildSpan(block[a + 1], Lo(e, block[1], a), Hi(e, block[1], a),
            Lo(e, block[1] + 1, a), Hi(e, block[1] + 1, a))

\* Along one axis, the children are blocks of the next level, every tile of
\* the block has a child there, and all of its children are in them.
LEMMA ChildrenAlongAnAxis ==
  ASSUME NEW e \in Exports, NEW z \in 0 .. e.zoom, z < e.zoom,
         NEW block \in LevelBlocks(e, z), NEW a \in 1 .. 2
  PROVE  /\ Span(e, block, a) \in Nat \X Nat
         /\ Span(e, block, a)[1] <= Span(e, block, a)[2]
         /\ Span(e, block, a)[1] .. Span(e, block, a)[2]
              \subseteq 0 .. BlockCount(Lo(e, z + 1, a), Hi(e, z + 1, a)) - 1
         /\ \A t \in TilesOf(block[a + 1], Lo(e, z, a), Hi(e, z, a)) :
              /\ \E d \in 0 .. 1 : 2 * t + d \in Lo(e, z + 1, a) .. Hi(e, z + 1, a)
              /\ \A d \in 0 .. 1 :
                   2 * t + d \in Lo(e, z + 1, a) .. Hi(e, z + 1, a) =>
                     BlockOf(2 * t + d, Lo(e, z + 1, a))
                       \in Span(e, block, a)[1] .. Span(e, block, a)[2]
<1> DEFINE lo == Lo(e, z, a)
           hi == Hi(e, z, a)
           clo == Lo(e, z + 1, a)
           chi == Hi(e, z + 1, a)
           k == block[a + 1]
           under == TilesUnder(k, lo, hi, clo, chi)
           span == ChildSpan(k, lo, hi, clo, chi)
<1>1. z + 1 \in 0 .. e.zoom /\ z \in Nat
  BY ExportsAssumption
<1>2. /\ clo \in Nat /\ chi \in Nat /\ clo <= chi
      /\ lo \in Nat /\ hi \in Nat /\ lo <= hi
      /\ lo = clo \div 2 /\ hi = chi \div 2
  BY <1>1, Levels
<1>3. k \in 0 .. BlockCount(lo, hi) - 1
  <2>1. /\ block[2] \in 0 .. BlockCount(Lo(e, z, 1), Hi(e, z, 1)) - 1
        /\ block[3] \in 0 .. BlockCount(Lo(e, z, 2), Hi(e, z, 2)) - 1
    BY DEF LevelBlocks
  <2>2. a = 1 \/ a = 2
    OBVIOUS
  <2> QED BY <2>1, <2>2
<1>4. Span(e, block, a) = span
  BY DEF LevelBlocks, Span
<1> HIDE DEF lo, hi, clo, chi, k
<1>5. /\ \E t \in clo .. chi : t \in under
      /\ span \in Nat \X Nat
      /\ \A t \in under : BlockOf(t, clo) \in span[1] .. span[2]
      /\ \A j \in span[1] .. span[2] : \E t \in under : BlockOf(t, clo) = j
  BY <1>2, <1>3, ChildrenAreExact
<1>6. \A t \in under : t \in clo .. chi
  BY DEF TilesUnder
<1> HIDE DEF under, span
<1>7. span[1] <= span[2]
  <2>1. \E j : j \in span[1] .. span[2]
    BY <1>5
  <2> QED BY <1>5, <2>1
<1>8. span[1] .. span[2] \subseteq 0 .. BlockCount(clo, chi) - 1
  <2>1. \A t \in under : BlockOf(t, clo) \in 0 .. BlockCount(clo, chi) - 1
    BY <1>2, <1>6, TileIsInItsBlock
  <2> QED BY <1>5, <2>1
<1>9. ASSUME NEW t \in TilesOf(k, lo, hi)
      PROVE  /\ \E d \in 0 .. 1 : 2 * t + d \in clo .. chi
             /\ \A d \in 0 .. 1 : 2 * t + d \in clo .. chi =>
                  BlockOf(2 * t + d, clo) \in span[1] .. span[2]
  <2>1. t \in lo .. hi
    BY <1>2, <1>3, BlockOwnsItsTiles
  <2>2. \E d \in 0 .. 1 : 2 * t + d \in clo .. chi
    <3>1. 2 * t >= clo => 2 * t + 0 \in clo .. chi
      BY <1>2, <2>1
    <3>2. 2 * t < clo => 2 * t + 1 \in clo .. chi
      BY <1>2, <2>1
    <3>3. 2 * t >= clo \/ 2 * t < clo
      BY <1>2, <2>1
    <3> QED BY <3>1, <3>2, <3>3
  <2>3. ASSUME NEW d \in 0 .. 1, 2 * t + d \in clo .. chi
        PROVE  BlockOf(2 * t + d, clo) \in span[1] .. span[2]
    <3>1. (2 * t + d) \div 2 = t
      BY <1>2, <2>1
    <3>2. 2 * t + d \in under
      BY <2>3, <3>1 DEF under, TilesUnder
    <3> QED BY <1>5, <3>2
  <2> QED BY <2>2, <2>3
<1> QED BY <1>4, <1>5, <1>7, <1>8, <1>9 DEF lo, hi, clo, chi, k

\* A tile has a child in the next level, and all it has there are in blocks
\* that children_of names.
ChildrenAreHeld(e, z, block, tx, ty) ==
  LET child(dx, dy) == <<z + 1, 2 * tx + dx, 2 * ty + dy>> IN
    /\ \E dx \in 0 .. 1, dy \in 0 .. 1 : child(dx, dy) \in LevelTiles(e, z + 1)
    /\ \A dx \in 0 .. 1, dy \in 0 .. 1 : child(dx, dy) \in LevelTiles(e, z + 1) =>
         BlockFor(e, child(dx, dy)).block \in Range(ChildrenOf(e, block))

\* children_of at the deepest zoom and above it (children_of, handle_reduce).
LEMMA ChildrenOfABlock ==
  ASSUME NEW e \in Exports, NEW z \in 0 .. e.zoom, NEW block \in LevelBlocks(e, z)
  PROVE  /\ z = e.zoom => ChildrenOf(e, block) = <<>>
         /\ z < e.zoom =>
              /\ ChildrenOf(e, block) \in Seq(LevelBlocks(e, z + 1))
              /\ ChildrenOf(e, block) # <<>>
              /\ IsInjective(ChildrenOf(e, block))
              /\ \A tx \in TilesOf(block[2], Lo(e, z, 1), Hi(e, z, 1)),
                    ty \in TilesOf(block[3], Lo(e, z, 2), Hi(e, z, 2)) :
                   ChildrenAreHeld(e, z, block, tx, ty)
<1>1. block[1] = z
  BY DEF LevelBlocks
<1>2. ASSUME z = e.zoom PROVE ChildrenOf(e, block) = <<>>
  BY <1>1, <1>2 DEF ChildrenOf
<1>3. ASSUME z < e.zoom
      PROVE  /\ ChildrenOf(e, block) \in Seq(LevelBlocks(e, z + 1))
             /\ ChildrenOf(e, block) # <<>>
             /\ IsInjective(ChildrenOf(e, block))
             /\ \A tx \in TilesOf(block[2], Lo(e, z, 1), Hi(e, z, 1)),
                   ty \in TilesOf(block[3], Lo(e, z, 2), Hi(e, z, 2)) :
                  ChildrenAreHeld(e, z, block, tx, ty)
  <2> DEFINE x == Span(e, block, 1)
             y == Span(e, block, 2)
             r == {z + 1} \X (x[1] .. x[2]) \X (y[1] .. y[2])
             children == ChildrenOf(e, block)
  <2>1. z + 1 \in Nat /\ z \in Nat /\ z # e.zoom
    BY <1>3, ExportsAssumption
  <2>2. /\ x \in Nat \X Nat /\ x[1] <= x[2]
        /\ x[1] .. x[2] \subseteq 0 .. BlockCount(Lo(e, z + 1, 1), Hi(e, z + 1, 1)) - 1
        /\ \A t \in TilesOf(block[2], Lo(e, z, 1), Hi(e, z, 1)) :
             /\ \E d \in 0 .. 1 : 2 * t + d \in Lo(e, z + 1, 1) .. Hi(e, z + 1, 1)
             /\ \A d \in 0 .. 1 : 2 * t + d \in Lo(e, z + 1, 1) .. Hi(e, z + 1, 1) =>
                  BlockOf(2 * t + d, Lo(e, z + 1, 1)) \in x[1] .. x[2]
    <3>1. 1 \in 1 .. 2 /\ 1 + 1 = 2
      OBVIOUS
    <3> HIDE DEF x
    <3> QED BY <1>3, <3>1, ChildrenAlongAnAxis DEF x
  <2>3. /\ y \in Nat \X Nat /\ y[1] <= y[2]
        /\ y[1] .. y[2] \subseteq 0 .. BlockCount(Lo(e, z + 1, 2), Hi(e, z + 1, 2)) - 1
        /\ \A t \in TilesOf(block[3], Lo(e, z, 2), Hi(e, z, 2)) :
             /\ \E d \in 0 .. 1 : 2 * t + d \in Lo(e, z + 1, 2) .. Hi(e, z + 1, 2)
             /\ \A d \in 0 .. 1 : 2 * t + d \in Lo(e, z + 1, 2) .. Hi(e, z + 1, 2) =>
                  BlockOf(2 * t + d, Lo(e, z + 1, 2)) \in y[1] .. y[2]
    <3>1. 2 \in 1 .. 2 /\ 2 + 1 = 3
      OBVIOUS
    <3> QED BY <1>3, <3>1, ChildrenAlongAnAxis
  <2>4. children = RowMajor(z + 1, x, y)
    BY <1>1, <2>1 DEF ChildrenOf, Span
  <2> HIDE DEF x, y
  <2>5. /\ children \in Seq(r) /\ children # <<>>
        /\ IsInjective(children)
        /\ \A p \in x[1] .. x[2], q \in y[1] .. y[2] : <<z + 1, p, q>> \in Range(children)
    BY <2>1, <2>2, <2>3, <2>4, Rectangle
  <2>6. r \subseteq LevelBlocks(e, z + 1)
    BY <2>2, <2>3 DEF LevelBlocks
  <2>7. children \in Seq(LevelBlocks(e, z + 1))
    <3> HIDE DEF r, children
    <3> QED BY <2>5, <2>6
  <2>8. ASSUME NEW tx \in TilesOf(block[2], Lo(e, z, 1), Hi(e, z, 1)),
               NEW ty \in TilesOf(block[3], Lo(e, z, 2), Hi(e, z, 2))
        PROVE  ChildrenAreHeld(e, z, block, tx, ty)
    <3>1. \E dx \in 0 .. 1, dy \in 0 .. 1 :
            <<z + 1, 2 * tx + dx, 2 * ty + dy>> \in LevelTiles(e, z + 1)
      BY <2>2, <2>3 DEF LevelTiles
    <3>2. ASSUME NEW dx \in 0 .. 1, NEW dy \in 0 .. 1,
                 <<z + 1, 2 * tx + dx, 2 * ty + dy>> \in LevelTiles(e, z + 1)
          PROVE  BlockFor(e, <<z + 1, 2 * tx + dx, 2 * ty + dy>>).block \in Range(children)
      <4> HIDE DEF children
      <4>1. /\ 2 * tx + dx \in Lo(e, z + 1, 1) .. Hi(e, z + 1, 1)
            /\ 2 * ty + dy \in Lo(e, z + 1, 2) .. Hi(e, z + 1, 2)
        BY <3>2 DEF LevelTiles
      <4>2. /\ BlockOf(2 * tx + dx, Lo(e, z + 1, 1)) \in x[1] .. x[2]
            /\ BlockOf(2 * ty + dy, Lo(e, z + 1, 2)) \in y[1] .. y[2]
        BY <2>2, <2>3, <4>1
      <4>3. BlockFor(e, <<z + 1, 2 * tx + dx, 2 * ty + dy>>).block =
              <<z + 1, BlockOf(2 * tx + dx, Lo(e, z + 1, 1)),
                       BlockOf(2 * ty + dy, Lo(e, z + 1, 2))>>
        BY DEF BlockFor, BlockOf
      <4> QED BY <2>5, <4>2, <4>3
    <3> QED BY <3>1, <3>2 DEF ChildrenAreHeld
  <2> QED BY <2>5, <2>7, <2>8
<1> QED BY <1>2, <1>3

LEMMA ExtentIsPositive ==
  ASSUME NEW lo \in Nat, NEW hi \in Nat, lo <= hi, NEW k \in 0 .. BlockCount(lo, hi) - 1
  PROVE  Extent(k, lo, hi) \in Nat \ {0}
<1> DEFINE c == BlockCount(lo, hi)
           m == BLOCK_W * k
           e == BLOCK_W * (c - 1)
<1>1. c \in Nat \ {0} /\ e <= hi - lo
  BY LastBlock
<1>2. k \in Int /\ m \in Nat /\ e \in Int /\ k * BLOCK_W = m
  BY <1>1, BlockWAssumption
<1>3. k = c - 1 => m = e
  OBVIOUS
<1>4. Extent(k, lo, hi) = IF k = c - 1 THEN hi - lo + 1 - m ELSE BLOCK_W
  BY <1>2 DEF Extent
<1> HIDE DEF c, m, e
<1> QED BY <1>1, <1>2, <1>3, <1>4, BlockWAssumption

\* A block has a slot, and its slots are tiles of the block along both axes.
LEMMA SlotsAreTiles ==
  ASSUME NEW e \in Exports, NEW z \in 0 .. e.zoom, NEW block \in LevelBlocks(e, z)
  PROVE  /\ \E n \in Nat \ {0} : DOMAIN Slots(e, block) = 1 .. n
         /\ \A i \in DOMAIN Slots(e, block) :
              \E tx \in TilesOf(block[2], Lo(e, z, 1), Hi(e, z, 1)),
                 ty \in TilesOf(block[3], Lo(e, z, 2), Hi(e, z, 2)) :
                   Slots(e, block)[i] = <<z, tx, ty>>
<1> DEFINE w == Side(e, block, 1)
           h == Side(e, block, 2)
           ox == Origin(block[2], Lo(e, z, 1))
           oy == Origin(block[3], Lo(e, z, 2))
           s == Slots(e, block)
<1>1. block[1] = z
  BY DEF LevelBlocks
<1>2. /\ block[2] \in 0 .. BlockCount(Lo(e, z, 1), Hi(e, z, 1)) - 1
      /\ block[3] \in 0 .. BlockCount(Lo(e, z, 2), Hi(e, z, 2)) - 1
  BY DEF LevelBlocks
<1>3. /\ Lo(e, z, 1) \in Nat /\ Hi(e, z, 1) \in Nat /\ Lo(e, z, 1) <= Hi(e, z, 1)
      /\ Lo(e, z, 2) \in Nat /\ Hi(e, z, 2) \in Nat /\ Lo(e, z, 2) <= Hi(e, z, 2)
  BY Levels
<1>4. /\ w = Extent(block[2], Lo(e, z, 1), Hi(e, z, 1))
      /\ h = Extent(block[3], Lo(e, z, 2), Hi(e, z, 2))
  BY <1>1 DEF Side
<1>5. w \in Nat \ {0} /\ h \in Nat \ {0}
  BY <1>2, <1>3, <1>4, ExtentIsPositive
<1>6. /\ TilesOf(block[2], Lo(e, z, 1), Hi(e, z, 1)) = ox .. (ox + w - 1)
      /\ TilesOf(block[3], Lo(e, z, 2), Hi(e, z, 2)) = oy .. (oy + h - 1)
  BY <1>4 DEF TilesOf
<1>7. ox \in Int /\ oy \in Int
  <2>1. block[2] \in Int /\ block[3] \in Int
    <3> DEFINE c == BlockCount(Lo(e, z, 1), Hi(e, z, 1))
               d == BlockCount(Lo(e, z, 2), Hi(e, z, 2))
    <3>1. c \in Nat /\ d \in Nat
      BY <1>3, LastBlock
    <3> HIDE DEF c, d
    <3>2. block[2] \in 0 .. c - 1 /\ block[3] \in 0 .. d - 1
      BY <1>2 DEF c, d
    <3> QED BY <3>1, <3>2
  <2> QED BY <1>3, <2>1, BlockWAssumption DEF Origin
<1>8. s = [i \in 1 .. w * h |-> <<z, ox + ((i - 1) % w), oy + ((i - 1) \div w)>>]
  BY <1>1 DEF Slots
<1> HIDE DEF w, h, ox, oy, s
<1>9. /\ w * h \in Nat \ {0}
      /\ \A n \in 0 .. w * h - 1 : n % w \in 0 .. w - 1 /\ n \div w \in 0 .. h - 1
  BY <1>5, Cells, Zenon
<1>10. ASSUME NEW i \in 1 .. w * h
       PROVE  /\ ox + ((i - 1) % w) \in ox .. (ox + w - 1)
              /\ oy + ((i - 1) \div w) \in oy .. (oy + h - 1)
  <2> DEFINE n == i - 1
  <2>1. n \in 0 .. w * h - 1
    BY <1>9
  <2> HIDE DEF n
  <2>2. n % w \in 0 .. w - 1 /\ n \div w \in 0 .. h - 1
    BY <1>9, <2>1
  <2>3. /\ ox + (n % w) \in ox .. (ox + w - 1)
        /\ oy + (n \div w) \in oy .. (oy + h - 1)
    BY <1>5, <1>7, <2>2
  <2> QED BY <2>3 DEF n
<1>11. DOMAIN s = 1 .. w * h
  BY <1>8
<1>12. \A i \in 1 .. w * h : \E tx \in ox .. (ox + w - 1), ty \in oy .. (oy + h - 1) :
         s[i] = <<z, tx, ty>>
  BY <1>8, <1>10
<1>13. /\ \E n \in Nat \ {0} : DOMAIN s = 1 .. n
       /\ \A i \in DOMAIN s :
            \E tx \in TilesOf(block[2], Lo(e, z, 1), Hi(e, z, 1)),
               ty \in TilesOf(block[3], Lo(e, z, 2), Hi(e, z, 2)) : s[i] = <<z, tx, ty>>
  BY <1>6, <1>9, <1>11, <1>12
<1> QED BY <1>13 DEF s

\* Every tile above the deepest zoom is reduced from one tile at least, so
\* that handle_reduce never sees an empty job.
LEMMA PartsAreThere ==
  ASSUME NEW z \in 0 .. export.zoom, export \in Exports, z < export.zoom,
         NEW block \in LevelBlocks(export, z),
         NEW i \in DOMAIN Slots(export, block)
  PROVE  Parts(Slots(export, block)[i], ChildrenOf(export, block)) # {}
<1> DEFINE tile == Slots(export, block)[i]
           children == ChildrenOf(export, block)
<1>1. PICK tx \in TilesOf(block[2], Lo(export, z, 1), Hi(export, z, 1)),
           ty \in TilesOf(block[3], Lo(export, z, 2), Hi(export, z, 2)) :
             tile = <<z, tx, ty>>
  BY SlotsAreTiles
<1>2. PICK dx \in 0 .. 1, dy \in 0 .. 1 :
         LET child == <<z + 1, 2 * tx + dx, 2 * ty + dy>> IN
           /\ child \in LevelTiles(export, z + 1)
           /\ BlockFor(export, child).block \in Range(children)
  BY ChildrenOfABlock DEF ChildrenAreHeld
<1> HIDE DEF tile, children
<1> DEFINE child == <<z + 1, 2 * tx + dx, 2 * ty + dy>>
           under == {<<tile[1] + 1, 2 * tile[2] + p, 2 * tile[3] + q>> : p, q \in 0..1}
           held == {t \in under \intersect LevelTiles(export, tile[1] + 1) :
                      BlockFor(export, t).block \in Range(children)}
<1>3. child \in under
  BY <1>1
<1>4. child \in held
  BY <1>1, <1>2, <1>3
<1>5. Parts(tile, children) =
        {raw_cache[BlockFor(export, t).block][BlockFor(export, t).slot] : t \in held}
  BY DEF Parts
<1> HIDE DEF held, child
<1>6. Parts(tile, children) # {}
  BY <1>4, <1>5
<1> QED BY <1>6 DEF tile, children

-----------------------------------------------------------------------------
(* Sequences: the stack's and the channels'.                               *)

LEMMA Popped ==
  ASSUME NEW F, NEW s \in Seq(F), s # <<>>
  PROVE  /\ Front(s) \in Seq(F) /\ Len(Front(s)) = Len(s) - 1 /\ Len(s) \in Nat \ {0}
         /\ \A i \in 1 .. Len(s) - 1 : Front(s)[i] = s[i]
<1>1. Len(s) \in Nat \ {0}
  BY EmptySeq
<1>2. \A i \in 1 .. Len(s) - 1 : s[i] \in F
  BY <1>1, ElementOfSeq
<1> DEFINE n == Len(s) - 1
<1>3. n \in Nat /\ \A i \in 1 .. n : s[i] \in F
  BY <1>1, <1>2
<1> HIDE DEF n
<1>4. /\ SubSeq(s, 1, n) \in Seq(F)
      /\ Len(SubSeq(s, 1, n)) = IF 1 <= n THEN n - 1 + 1 ELSE 0
      /\ \A i \in 1 .. n - 1 + 1 : SubSeq(s, 1, n)[i] = s[1 + i - 1]
  BY <1>3, SubSeqProperties
<1>5. /\ SubSeq(s, 1, n) \in Seq(F) /\ Len(SubSeq(s, 1, n)) = n
      /\ \A i \in 1 .. n : SubSeq(s, 1, n)[i] = s[i]
  BY <1>3, <1>4
<1> QED BY <1>1, <1>5 DEF Front, n

\* t is s with f for its last element and g behind it.
Pushes(s, f, g, t) ==
  /\ t \in Seq(Range(s) \union {f, g})
  /\ Len(t) = Len(s) + 1
  /\ \A i \in 1 .. Len(s) - 1 : t[i] = s[i]
  /\ t[Len(s)] = f /\ t[Len(s) + 1] = g

LEMMA Pushed ==
  ASSUME NEW S, NEW s \in Seq(S), s # <<>>, NEW f, NEW g
  PROVE  Pushes(s, f, g, Append(Front(s) \o <<f>>, g))
<1> DEFINE F == Range(s) \union {f, g}
           v == Front(s)
           u == v \o <<f>>
           t == Append(u, g)
<1>1. s \in Seq(F) /\ f \in F /\ g \in F
  BY SeqOfRange, SeqMonotonic
<1> HIDE DEF F
<1>2. /\ v \in Seq(F) /\ Len(v) = Len(s) - 1 /\ Len(s) \in Nat \ {0}
      /\ \A i \in 1 .. Len(s) - 1 : v[i] = s[i]
  BY <1>1, Popped
<1> HIDE DEF v
<1>3. u = Append(v, f)
  BY <1>1, <1>2, AppendIsConcat
<1> HIDE DEF u
<1>4. /\ u \in Seq(F) /\ Len(u) = Len(s)
      /\ \A i \in 1 .. Len(s) - 1 : u[i] = s[i]
      /\ u[Len(s)] = f
  <2>1. /\ Append(v, f) \in Seq(F) /\ Len(Append(v, f)) = Len(v) + 1
        /\ \A i \in 1 .. Len(v) : Append(v, f)[i] = v[i]
        /\ Append(v, f)[Len(v) + 1] = f
    BY <1>1, <1>2, AppendProperties
  <2>2. Len(v) + 1 = Len(s) /\ 1 .. Len(v) = 1 .. Len(s) - 1
    BY <1>2
  <2> QED BY <1>2, <1>3, <2>1, <2>2
<1>5. /\ t \in Seq(F) /\ Len(t) = Len(u) + 1
      /\ \A i \in 1 .. Len(u) : t[i] = u[i]
      /\ t[Len(u) + 1] = g
  BY <1>1, <1>4, AppendProperties
<1>6. Len(s) \in 1 .. Len(s) /\ \A i \in 1 .. Len(s) - 1 : i \in 1 .. Len(s)
  BY <1>2
<1> HIDE DEF t
<1>7. Pushes(s, f, g, t)
  BY <1>4, <1>5, <1>6 DEF Pushes, F
<1> QED BY <1>7 DEF t, u, v

\* A sequence of whatever it holds.
IsSeq(s) == s \in Seq(Range(s))

LEMMA HoldsOnly ==
  ASSUME NEW S, NEW s \in Seq(S)
  PROVE  IsSeq(s) /\ Range(s) \subseteq S
<1>1. s \in Seq(Range(s))
  BY SeqOfRange, Zenon
<1>2. Range(s) \in SUBSET S
  BY RangeOfSeq, Zenon
<1>3. IsSeq(s)
  BY <1>1, Zenon DEF IsSeq
<1>4. Range(s) \subseteq S
  BY <1>2, Zenon
<1> QED BY <1>3, <1>4

LEMMA Appended ==
  ASSUME NEW s, IsSeq(s), NEW m
  PROVE  /\ IsSeq(Append(s, m))
         /\ \A x \in Range(Append(s, m)) : x \in Range(s) \/ x = m
<1> DEFINE S == Range(s) \union {m}
<1>1. s \in Seq(S) /\ m \in S
  BY SeqMonotonic DEF IsSeq
<1>2. Append(s, m) \in Seq(S)
  BY <1>1, AppendProperties
<1>3. IsSeq(Append(s, m)) /\ Range(Append(s, m)) \subseteq S
  <2>1. IsSeq(Append(s, m))
    BY <1>2, HoldsOnly
  <2>2. Range(Append(s, m)) \subseteq S
    BY <1>2, HoldsOnly
  <2> QED BY <2>1, <2>2
<1> QED BY <1>3

LEMMA Consumed ==
  ASSUME NEW s, IsSeq(s), s # <<>>
  PROVE  /\ IsSeq(Tail(s)) /\ Range(Tail(s)) \subseteq Range(s)
         /\ Head(s) \in Range(s)
         /\ Len(s) \in Nat \ {0} /\ Len(Tail(s)) = Len(s) - 1
<1> DEFINE S == Range(s)
<1>1. s \in Seq(S)
  BY DEF IsSeq
<1> HIDE DEF S
<1>2. Tail(s) \in Seq(S) /\ Head(s) \in S /\ Len(Tail(s)) = Len(s) - 1
  BY <1>1, HeadTailProperties
<1>3. Len(s) \in Nat \ {0}
  BY <1>1, EmptySeq
<1>4. IsSeq(Tail(s)) /\ Range(Tail(s)) \subseteq S
  <2>1. IsSeq(Tail(s))
    BY <1>2, HoldsOnly
  <2>2. Range(Tail(s)) \subseteq S
    BY <1>2, HoldsOnly
  <2> QED BY <2>1, <2>2
<1> QED BY <1>2, <1>3, <1>4 DEF S

\* What is left of a list without repeats has none, and not its head either.
LEMMA Advanced ==
  ASSUME NEW S, NEW s \in Seq(S), s # <<>>, IsInjective(s)
  PROVE  /\ Tail(s) \in Seq(S) /\ IsInjective(Tail(s))
         /\ Head(s) \in Range(s) /\ Head(s) \notin Range(Tail(s))
         /\ \A x \in Range(s) : x = Head(s) \/ x \in Range(Tail(s))
         /\ Range(Tail(s)) \subseteq Range(s)
<1>1. /\ Tail(s) \in Seq(S) /\ Len(s) \in Nat \ {0} /\ Len(Tail(s)) = Len(s) - 1
      /\ DOMAIN s = 1 .. Len(s) /\ DOMAIN Tail(s) = 1 .. Len(s) - 1
      /\ Head(s) = s[1] /\ \A i \in 1 .. Len(s) - 1 : Tail(s)[i] = s[i + 1]
  OBVIOUS
<1> DEFINE t == Tail(s)
           n == Len(s)
<1> HIDE DEF t, n
<1>2. /\ t \in Seq(S) /\ n \in Nat \ {0}
      /\ DOMAIN s = 1 .. n /\ DOMAIN t = 1 .. n - 1
      /\ Head(s) = s[1] /\ \A i \in 1 .. n - 1 : t[i] = s[i + 1]
  BY <1>1 DEF t, n
<1>3. IsInjective(t)
  <2> SUFFICES ASSUME NEW i \in 1 .. n - 1, NEW j \in 1 .. n - 1, t[i] = t[j]
               PROVE  i = j
    BY <1>2 DEF IsInjective
  <2>1. i + 1 \in DOMAIN s /\ j + 1 \in DOMAIN s /\ s[i + 1] = s[j + 1]
    BY <1>2
  <2>2. i + 1 = j + 1
    BY <2>1 DEF IsInjective
  <2> QED BY <1>2, <2>2
<1>4. Head(s) \in Range(s) /\ Range(t) \subseteq Range(s)
  BY <1>2 DEF Range
<1>5. Head(s) \notin Range(t)
  <2> SUFFICES ASSUME NEW i \in 1 .. n - 1, t[i] = s[1] PROVE FALSE
    BY <1>2 DEF Range
  <2>1. i + 1 \in DOMAIN s /\ 1 \in DOMAIN s /\ s[i + 1] = s[1] /\ i + 1 # 1
    BY <1>2
  <2> QED BY <2>1 DEF IsInjective
<1>6. ASSUME NEW x \in Range(s) PROVE x = Head(s) \/ x \in Range(t)
  <2>1. PICK i \in 1 .. n : x = s[i]
    BY <1>2 DEF Range
  <2>2. CASE i = 1
    BY <1>2, <2>1, <2>2
  <2>3. CASE i # 1
    <3>1. i - 1 \in 1 .. n - 1 /\ (i - 1) + 1 = i
      BY <1>2, <2>1, <2>3
    <3>2. t[i - 1] = x
      BY <1>2, <2>1, <3>1
    <3> QED BY <1>2, <3>1, <3>2 DEF Range
  <2> QED BY <2>2, <2>3
<1> QED BY <1>2, <1>3, <1>4, <1>5, <1>6 DEF t

-----------------------------------------------------------------------------
(* The walk: where the frames of process_block are in the pyramid.         *)

\* The blocks of an export, and a frame's level: run's frame is the first.
Grid(e) == UNION {LevelBlocks(e, z) : z \in e.min_zoom .. e.zoom}
LevelOf(e, i) == e.min_zoom + i - 2

Children(e, frame) == Range(ChildrenOf(e, frame[1]))
Rest(frame) == Range(frame[2])

Frames(e) == (Grid(e) \union {Root}) \X Seq(Grid(e))

\* The child of frame i that the walk is at.
Below(frames, i) == IF i < Len(frames) THEN {frames[i + 1][1]} ELSE {}

\* A frame of process_block: what it has to do are some of its children, once
\* each, and the frame above it is another one.
FrameInv(e, frames, i) ==
  /\ LevelOf(e, i) <= e.zoom
  /\ frames[i][1] \in LevelBlocks(e, LevelOf(e, i))
  /\ Rest(frames[i]) \subseteq Children(e, frames[i])
  /\ IsInjective(frames[i][2])
  /\ Below(frames, i) \subseteq Children(e, frames[i]) \ Rest(frames[i])

WalkInv(e, frames) ==
  /\ frames \in Seq(Frames(e))
  /\ frames # <<>> /\ frames[1][1] = Root
  /\ IsInjective(frames[1][2])
  /\ Rest(frames[1]) \subseteq LevelBlocks(e, e.min_zoom)
  /\ \A i \in 2 .. Len(frames) : FrameInv(e, frames, i)

\* The children of a frame are blocks of the next level, or there are none.
LEMMA ChildrenAreDeeper ==
  ASSUME NEW e \in Exports, NEW frames, WalkInv(e, frames), NEW i \in 2 .. Len(frames)
  PROVE  /\ LevelOf(e, i) \in 0 .. e.zoom /\ e.zoom \in Nat /\ e.min_zoom \in Nat
         /\ frames[i][1][1] = LevelOf(e, i)
         /\ LevelOf(e, i) = e.zoom => Children(e, frames[i]) = {}
         /\ LevelOf(e, i) < e.zoom => Children(e, frames[i]) # {}
         /\ Children(e, frames[i]) \subseteq LevelBlocks(e, LevelOf(e, i + 1))
         /\ ChildrenOf(e, frames[i][1]) \in Seq(Grid(e))
         /\ IsInjective(ChildrenOf(e, frames[i][1]))
<1> DEFINE z == LevelOf(e, i)
           block == frames[i][1]
<1>1. FrameInv(e, frames, i)
  BY DEF WalkInv
<1>2. e.min_zoom \in Nat /\ e.zoom \in Nat
  BY ExportsAssumption
<1>3. i \in Int /\ i >= 2
  OBVIOUS
<1>4. z \in 0 .. e.zoom /\ z \in e.min_zoom .. e.zoom /\ LevelOf(e, i + 1) = z + 1
  BY <1>1, <1>2, <1>3 DEF FrameInv, LevelOf
<1>5. block \in LevelBlocks(e, z)
  BY <1>1 DEF FrameInv
<1>6. block[1] = z
  BY <1>5 DEF LevelBlocks
<1> HIDE DEF z, block
<1>7. CASE z = e.zoom
  <2>1. ChildrenOf(e, block) = <<>>
    BY <1>4, <1>5, <1>7, ChildrenOfABlock
  <2>2. ChildrenOf(e, block) \in Seq(Grid(e)) /\ IsInjective(ChildrenOf(e, block))
    BY <2>1 DEF IsInjective
  <2>3. Range(ChildrenOf(e, block)) = {}
    BY <2>1 DEF Range
  <2> QED BY <1>2, <1>4, <1>6, <1>7, <2>2, <2>3 DEF Children, z, block
<1>8. CASE z < e.zoom
  <2>1. /\ ChildrenOf(e, block) \in Seq(LevelBlocks(e, z + 1))
        /\ ChildrenOf(e, block) # <<>>
        /\ IsInjective(ChildrenOf(e, block))
    BY <1>4, <1>5, <1>8, ChildrenOfABlock
  <2>2. LevelBlocks(e, z + 1) \subseteq Grid(e)
    <3>1. z + 1 \in e.min_zoom .. e.zoom
      BY <1>2, <1>4, <1>8
    <3> QED BY <3>1 DEF Grid
  <2>3. ChildrenOf(e, block) \in Seq(Grid(e))
    BY <2>1, <2>2, SeqMonotonic
  <2>4. Range(ChildrenOf(e, block)) \subseteq LevelBlocks(e, z + 1)
    BY <2>1, HoldsOnly
  <2>5. Head(ChildrenOf(e, block)) \in Range(ChildrenOf(e, block))
    BY <2>1, Advanced
  <2> QED BY <1>2, <1>4, <1>6, <1>8, <2>1, <2>3, <2>4, <2>5 DEF Children, z, block
<1> QED BY <1>2, <1>4, <1>7, <1>8

LEMMA WalkBegins ==
  ASSUME NEW e \in Exports
  PROVE  WalkInv(e, <<<<Root, BlocksAtZoom(e, e.min_zoom)>>>>)
<1> DEFINE roots == BlocksAtZoom(e, e.min_zoom)
<1>1. e.min_zoom \in 0 .. e.zoom /\ e.min_zoom \in e.min_zoom .. e.zoom
  BY ExportsAssumption
<1>2. roots \in Seq(LevelBlocks(e, e.min_zoom)) /\ IsInjective(roots)
  BY <1>1, BlocksOfALevel
<1>3. LevelBlocks(e, e.min_zoom) \subseteq Grid(e)
  BY <1>1 DEF Grid
<1>4. roots \in Seq(Grid(e)) /\ Range(roots) \subseteq LevelBlocks(e, e.min_zoom)
  BY <1>2, <1>3, SeqMonotonic, HoldsOnly
<1> HIDE DEF roots
<1>5. <<<<Root, roots>>>> \in Seq(Frames(e))
  BY <1>4 DEF Frames
<1>6. Len(<<<<Root, roots>>>>) = 1 /\ <<<<Root, roots>>>>[1] = <<Root, roots>>
  OBVIOUS
<1>7. 2 .. 1 = {} /\ <<<<Root, roots>>>> # <<>>
  OBVIOUS
<1>8. WalkInv(e, <<<<Root, roots>>>>)
  BY <1>2, <1>4, <1>5, <1>6, <1>7 DEF WalkInv, Rest
<1> QED BY <1>8 DEF roots

\* process_block calls itself for the next child, or run calls it.
Descends(e, frames, new) ==
  \E f, done, next :
    /\ f = frames[Len(frames)] /\ f[2] # <<>>
    /\ done = <<f[1], Tail(f[2])>>
    /\ next = <<Head(f[2]), ChildrenOf(e, Head(f[2]))>>
    /\ Pushes(frames, done, next, new)

\* What the walk is afterwards.
Descended(e, frames, new) ==
  /\ WalkInv(e, new)
  /\ Len(frames) \in Nat \ {0} /\ Len(new) = Len(frames) + 1
  /\ \A i \in 1 .. Len(frames) - 1 : new[i] = frames[i]
  /\ new[Len(frames)][1] = frames[Len(frames)][1]
  /\ \A b \in Rest(frames[Len(frames)]) :
       b = new[Len(frames) + 1][1] \/ b \in Rest(new[Len(frames)])
  /\ Rest(new[Len(frames)]) \subseteq Rest(frames[Len(frames)])
  /\ Rest(new[Len(frames) + 1]) = Children(e, new[Len(frames) + 1])

LEMMA WalkDescends ==
  ASSUME NEW e \in Exports, NEW frames, WalkInv(e, frames),
         NEW new, Descends(e, frames, new)
  PROVE  Descended(e, frames, new)
<1>0. PICK f, done, next :
        /\ f = frames[Len(frames)] /\ f[2] # <<>>
        /\ done = <<f[1], Tail(f[2])>>
        /\ next = <<Head(f[2]), ChildrenOf(e, Head(f[2]))>>
        /\ Pushes(frames, done, next, new)
  BY DEF Descends
<1> USE <1>0
<1> DEFINE n == Len(frames)
           child == Head(f[2])
<1>1. /\ frames \in Seq(Frames(e)) /\ frames # <<>>
      /\ n \in Nat \ {0} /\ n \in 1 .. n /\ (n # 1 => n \in 2 .. n)
  <2>1. frames \in Seq(Frames(e)) /\ frames # <<>>
    BY DEF WalkInv
  <2>2. n \in Nat \ {0}
    BY <2>1, EmptySeq
  <2> HIDE DEF n
  <2>3. n \in 1 .. n /\ (n # 1 => n \in 2 .. n)
    BY <2>2
  <2> QED BY <2>1, <2>2, <2>3
<1>2. f \in Frames(e) /\ f[1] \in Grid(e) \union {Root} /\ f[2] \in Seq(Grid(e))
  <2>1. f \in Frames(e)
    BY <1>1, ElementOfSeq
  <2> QED BY <2>1 DEF Frames
<1>3. e.min_zoom \in Nat /\ e.zoom \in Nat /\ e.min_zoom <= e.zoom
  BY ExportsAssumption
<1>4. IsInjective(f[2])
  <2>1. CASE n = 1
    BY <2>1 DEF WalkInv
  <2>2. CASE n # 1
    <3>1. n \in 2 .. Len(frames)
      BY <1>1, <2>2
    <3> QED BY <3>1 DEF WalkInv, FrameInv
  <2> QED BY <2>1, <2>2
<1>5. /\ Tail(f[2]) \in Seq(Grid(e)) /\ IsInjective(Tail(f[2]))
      /\ child \in Range(f[2]) /\ child \notin Range(Tail(f[2]))
      /\ \A x \in Range(f[2]) : x = child \/ x \in Range(Tail(f[2]))
      /\ Range(Tail(f[2])) \subseteq Range(f[2])
  BY <1>2, <1>4, Advanced
<1>6. /\ LevelOf(e, n + 1) \in e.min_zoom .. e.zoom
      /\ child \in LevelBlocks(e, LevelOf(e, n + 1))
  <2>1. CASE n = 1
    <3>1. child \in LevelBlocks(e, e.min_zoom)
      BY <1>5, <2>1 DEF WalkInv, Rest
    <3>2. LevelOf(e, n + 1) = e.min_zoom
      BY <1>3, <2>1 DEF LevelOf
    <3> QED BY <1>3, <3>1, <3>2
  <2>2. CASE n # 1
    <3>1. n \in 2 .. Len(frames)
      BY <1>1, <2>2
    <3>2. /\ LevelOf(e, n) \in 0 .. e.zoom
          /\ LevelOf(e, n) = e.zoom => Children(e, f) = {}
          /\ Children(e, f) \subseteq LevelBlocks(e, LevelOf(e, n + 1))
      BY <3>1, ChildrenAreDeeper
    <3>3. child \in Children(e, f)
      BY <1>5, <3>1 DEF WalkInv, FrameInv, Rest
    <3>4. LevelOf(e, n + 1) = LevelOf(e, n) + 1 /\ LevelOf(e, n) >= e.min_zoom
      <4> HIDE DEF n
      <4>1. n \in Nat /\ n >= 2
        BY <1>1, <2>2
      <4> QED BY <1>3, <4>1 DEF LevelOf
    <3> QED BY <1>3, <3>2, <3>3, <3>4
  <2> QED BY <2>1, <2>2
<1>7. child \in Grid(e)
  BY <1>6 DEF Grid
<1>8. ChildrenOf(e, child) \in Seq(Grid(e)) /\ IsInjective(ChildrenOf(e, child))
  <2> DEFINE z == LevelOf(e, n + 1)
  <2> HIDE DEF child, n
  <2>1. z \in 0 .. e.zoom /\ z \in e.min_zoom .. e.zoom
    BY <1>3, <1>6
  <2> HIDE DEF z
  <2>2. child \in LevelBlocks(e, z)
    BY <1>6 DEF z
  <2>3. CASE z = e.zoom
    <3>1. ChildrenOf(e, child) = <<>>
      BY <2>1, <2>2, <2>3, ChildrenOfABlock
    <3> QED BY <3>1 DEF IsInjective
  <2>4. CASE z < e.zoom
    <3>1. /\ ChildrenOf(e, child) \in Seq(LevelBlocks(e, z + 1))
          /\ IsInjective(ChildrenOf(e, child))
      BY <2>1, <2>2, <2>4, ChildrenOfABlock
    <3>2. z + 1 \in e.min_zoom .. e.zoom
      BY <1>3, <2>1, <2>4
    <3>3. LevelBlocks(e, z + 1) \subseteq Grid(e)
      BY <3>2 DEF Grid
    <3> QED BY <3>1, <3>3, SeqMonotonic
  <2> QED BY <1>3, <2>1, <2>3, <2>4
<1>9. done \in Frames(e) /\ next \in Frames(e)
  BY <1>2, <1>5, <1>7, <1>8 DEF Frames
<1> HIDE DEF child
<1>10. /\ new \in Seq(Frames(e)) /\ Len(new) = n + 1
       /\ \A i \in 1 .. n - 1 : new[i] = frames[i]
       /\ new[n] = done /\ new[n + 1] = next
  <2>1. /\ Len(new) = n + 1
        /\ \A i \in 1 .. n - 1 : new[i] = frames[i]
        /\ new[n] = done /\ new[n + 1] = next
    BY DEF Pushes
  <2>2. Range(frames) \subseteq Frames(e)
    BY <1>1, HoldsOnly
  <2>3. Range(frames) \union {done, next} \subseteq Frames(e)
    BY <1>9, <2>2
  <2>4. new \in Seq(Range(frames) \union {done, next})
    BY DEF Pushes
  <2>5. new \in Seq(Frames(e))
    BY <2>3, <2>4, SeqMonotonic
  <2> QED BY <2>1, <2>5
<1>11. /\ new[n][1] = f[1] /\ new[n][2] = Tail(f[2])
       /\ new[n + 1][1] = child /\ new[n + 1][2] = ChildrenOf(e, child)
  BY <1>10 DEF child
<1>12. /\ Rest(new[n]) \subseteq Rest(f) /\ child \notin Rest(new[n])
       /\ \A x \in Rest(f) : x = child \/ x \in Rest(new[n])
       /\ child \in Rest(f)
       /\ Rest(new[n + 1]) = Children(e, new[n + 1])
       /\ Children(e, new[n]) = Children(e, f)
  BY <1>5, <1>11 DEF Rest, Children, child
<1> HIDE DEF n
<1>13. new # <<>> /\ new[1][1] = Root
  <2>1. new # <<>>
    BY <1>1, <1>10, EmptySeq
  <2>2. CASE n = 1
    <3>1. frames[1][1] = Root /\ f = frames[n]
      BY DEF WalkInv, n
    <3>2. new[1][1] = f[1]
      BY <1>11, <2>2
    <3> QED BY <2>1, <2>2, <3>1, <3>2
  <2>3. CASE n # 1
    <3>1. 1 \in 1 .. n - 1
      BY <1>1, <2>3
    <3> QED BY <1>10, <3>1, <2>1 DEF WalkInv
  <2> QED BY <2>1, <2>2, <2>3
<1>14. IsInjective(new[1][2]) /\ Rest(new[1]) \subseteq LevelBlocks(e, e.min_zoom)
  <2>1. CASE n = 1
    <3>1. IsInjective(new[1][2])
      BY <1>5, <1>11, <2>1
    <3>2. Rest(f) \subseteq LevelBlocks(e, e.min_zoom)
      BY <2>1 DEF WalkInv, n
    <3> QED BY <1>12, <2>1, <3>1, <3>2
  <2>2. CASE n # 1
    <3>1. 1 \in 1 .. n - 1
      BY <1>1, <2>2
    <3> QED BY <1>10, <3>1 DEF WalkInv
  <2> QED BY <2>1, <2>2
<1>15. ASSUME NEW i \in 2 .. n + 1
       PROVE  FrameInv(e, new, i)
  <2>1. CASE i \in 2 .. n - 1
    <3>1. FrameInv(e, frames, i)
      BY <1>1, <2>1 DEF WalkInv, n
    <3>2. i \in 1 .. n - 1 /\ i < n /\ i < n + 1
      BY <1>1, <2>1
    <3>3. new[i] = frames[i]
      BY <1>10, <3>2
    <3>4. new[i + 1][1] = frames[i + 1][1]
      <4>1. CASE i + 1 \in 1 .. n - 1
        BY <1>10, <4>1
      <4>2. CASE i + 1 = n
        BY <1>11, <4>2 DEF n
      <4>3. i + 1 \in 1 .. n - 1 \/ i + 1 = n
        BY <1>1, <3>2
      <4> QED BY <4>1, <4>2, <4>3
    <3>5. Below(new, i) = Below(frames, i)
      BY <1>1, <1>10, <3>2, <3>4 DEF Below, n
    <3> QED BY <3>1, <3>3, <3>5 DEF FrameInv
  <2>2. CASE i = n
    <3>1. FrameInv(e, frames, n) /\ frames[n] = f
      BY <1>1, <2>2 DEF WalkInv, n
    <3>2. Below(new, n) = {child}
      BY <1>1, <1>10, <1>11 DEF Below
    <3>3. n \in 2 .. Len(frames)
      BY <1>1, <2>2 DEF n
    <3> QED BY <1>5, <1>11, <1>12, <2>2, <3>1, <3>2 DEF FrameInv
  <2>3. CASE i = n + 1
    <3>1. Below(new, n + 1) = {}
      BY <1>1, <1>10 DEF Below
    <3>2. LevelOf(e, n + 1) <= e.zoom
      BY <1>3, <1>6
    <3> QED BY <1>6, <1>8, <1>11, <1>12, <2>3, <3>1, <3>2 DEF FrameInv
  <2> QED BY <1>1, <2>1, <2>2, <2>3
<1>16. WalkInv(e, new)
  BY <1>10, <1>13, <1>14, <1>15 DEF WalkInv
<1> QED BY <1>1, <1>10, <1>11, <1>12, <1>16 DEF n, Descended

\* process_block returns.
LEMMA WalkReturns ==
  ASSUME NEW e \in Exports, NEW frames, WalkInv(e, frames), Len(frames) >= 2,
         NEW new, new = Front(frames)
  PROVE  /\ WalkInv(e, new)
         /\ Len(frames) \in Nat /\ Len(new) = Len(frames) - 1
         /\ \A i \in 1 .. Len(new) : new[i] = frames[i]
<1> DEFINE n == Len(frames)
<1>1. frames \in Seq(Frames(e)) /\ frames # <<>>
  BY DEF WalkInv
<1>2. /\ new \in Seq(Frames(e)) /\ Len(new) = n - 1 /\ n \in Nat \ {0}
      /\ \A i \in 1 .. n - 1 : new[i] = frames[i]
  BY <1>1, Popped
<1>3. n >= 2
  OBVIOUS
<1> HIDE DEF n
<1>4. new # <<>> /\ new[1] = frames[1]
  BY <1>2, <1>3
<1>5. ASSUME NEW i \in 2 .. n - 1
      PROVE  FrameInv(e, new, i)
  <2>1. i \in 2 .. n /\ i \in 1 .. n - 1 /\ i < n
    BY <1>2, <1>3
  <2>2. FrameInv(e, frames, i) /\ new[i] = frames[i]
    BY <1>2, <2>1 DEF WalkInv, n
  <2>3. Below(new, i) \subseteq Below(frames, i)
    <3>1. CASE i < n - 1
      <4>1. i + 1 \in 1 .. n - 1
        BY <1>2, <2>1, <3>1
      <4> QED BY <1>2, <2>1, <4>1 DEF Below, n
    <3>2. CASE ~(i < n - 1)
      BY <1>2, <3>2 DEF Below
    <3> QED BY <3>1, <3>2
  <2> QED BY <2>2, <2>3 DEF FrameInv
<1>6. WalkInv(e, new)
  BY <1>2, <1>4, <1>5 DEF WalkInv
<1> QED BY <1>2, <1>6 DEF n

-----------------------------------------------------------------------------
(* The raw cache and the walk.                                             *)

\* The export has not failed, and its pool is not being shut down.
Live == {"idle", "dispatch", "drain", "done"}

\* Between the frames and the cache: what is cached is a finished child of a
\* frame; every finished child of a frame is cached until the fan-out of that
\* frame's own tiles, which begins by dropping them.
CacheInv(e, frames, cached, c) ==
  /\ e.supplies_all_zooms => cached = {}
  /\ \A b \in cached : \E i \in 2 .. Len(frames) :
       b \in Children(e, frames[i]) /\ b \notin Rest(frames[i])
  /\ ~e.supplies_all_zooms /\ c \in Live =>
       \A i \in 2 .. Len(frames) : i < Len(frames) \/ c = "idle" =>
         \A b \in Children(e, frames[i]) :
           b \in Rest(frames[i]) \/ b \in Below(frames, i) \/ b \in cached
  /\ c \in Live \ {"idle"} =>
       /\ Len(frames) >= 2
       /\ frames[Len(frames)][2] = <<>>
       /\ \A b \in Children(e, frames[Len(frames)]) : b \notin cached

\* Blocks of different levels differ.
LEMMA LevelsAreApart ==
  ASSUME NEW e \in Exports, NEW frames, WalkInv(e, frames),
         NEW i \in 2 .. Len(frames), NEW j \in 2 .. Len(frames), i # j,
         NEW b \in Children(e, frames[i])
  PROVE  b \notin Children(e, frames[j])
<1>1. SUFFICES ASSUME b \in Children(e, frames[j]) PROVE FALSE
  OBVIOUS
<1>2. b \in LevelBlocks(e, LevelOf(e, i + 1)) /\ b \in LevelBlocks(e, LevelOf(e, j + 1))
  BY <1>1, ChildrenAreDeeper
<1>3. b[1] = LevelOf(e, i + 1) /\ b[1] = LevelOf(e, j + 1)
  BY <1>2 DEF LevelBlocks
<1>4. e.min_zoom \in Nat
  BY ExportsAssumption
<1>5. i \in Int /\ j \in Int
  OBVIOUS
<1> QED BY <1>3, <1>4, <1>5 DEF LevelOf

LEMMA CallMoves ==
  ASSUME NEW e, NEW frames, NEW cached, NEW c, NEW d, CacheInv(e, frames, cached, c),
         d \in Live => c \in Live /\ (d = "idle" <=> c = "idle")
  PROVE  CacheInv(e, frames, cached, d)
  BY DEF CacheInv

\* A child begins: it is neither in the list of its parent nor cached.
LEMMA CacheDescends ==
  ASSUME NEW e \in Exports, NEW frames, WalkInv(e, frames),
         NEW cached, CacheInv(e, frames, cached, "idle"),
         NEW new, Descends(e, frames, new)
  PROVE  CacheInv(e, new, cached, "idle")
<1> DEFINE n == Len(frames)
           f == frames[n]
<1>0. Descended(e, frames, new)
  BY WalkDescends
<1>1. /\ WalkInv(e, new)
      /\ n \in Nat \ {0} /\ Len(new) = n + 1
      /\ \A i \in 1 .. n - 1 : new[i] = frames[i]
      /\ new[n][1] = f[1]
      /\ \A b \in Rest(f) : b = new[n + 1][1] \/ b \in Rest(new[n])
      /\ Rest(new[n]) \subseteq Rest(f)
      /\ Rest(new[n + 1]) = Children(e, new[n + 1])
  BY <1>0 DEF Descended
<1>2. f = frames[n]
  OBVIOUS
<1>3. /\ Children(e, new[n]) = Children(e, frames[n])
      /\ \A i \in 1 .. n - 1 : new[i] = frames[i]
  BY <1>1, <1>2 DEF Children
<1> HIDE DEF n
<1>4. e.supplies_all_zooms => cached = {}
  BY DEF CacheInv
<1>5. ASSUME NEW b \in cached
      PROVE  \E i \in 2 .. n + 1 : b \in Children(e, new[i]) /\ b \notin Rest(new[i])
  <2>1. PICK i \in 2 .. n : b \in Children(e, frames[i]) /\ b \notin Rest(frames[i])
    BY DEF CacheInv, n
  <2>2. CASE i = n
    <3>1. b \in Children(e, new[n]) /\ b \notin Rest(new[n])
      BY <1>1, <1>2, <1>3, <2>1, <2>2
    <3>2. n \in 2 .. n + 1
      BY <1>1, <2>1, <2>2
    <3> QED BY <3>1, <3>2
  <2>3. CASE i # n
    <3>1. i \in 1 .. n - 1 /\ i \in 2 .. n + 1
      BY <1>1, <2>1, <2>3
    <3> QED BY <1>3, <2>1, <3>1
  <2> QED BY <2>2, <2>3
<1>6. ASSUME ~e.supplies_all_zooms, NEW i \in 2 .. n + 1, NEW b \in Children(e, new[i])
      PROVE  b \in Rest(new[i]) \/ b \in Below(new, i) \/ b \in cached
  <2>1. CASE i = n + 1
    BY <1>1, <2>1
  <2>2. CASE i \in 2 .. n
    <3>1. \A b1 \in Children(e, frames[i]) :
            b1 \in Rest(frames[i]) \/ b1 \in Below(frames, i) \/ b1 \in cached
      BY <1>6, <2>2 DEF CacheInv, Live, n
    <3>2. b \in Children(e, frames[i])
      <4>1. i = n \/ i \in 1 .. n - 1
        BY <1>1, <2>2
      <4> QED BY <1>3, <4>1
    <3>3. CASE i = n
      <4>1. Below(frames, n) = {} /\ Below(new, n) = {new[n + 1][1]}
        BY <1>1 DEF Below, n
      <4> QED BY <1>1, <1>2, <3>1, <3>2, <3>3, <4>1
    <3>4. CASE i # n
      <4>1. i \in 1 .. n - 1 /\ i < n /\ i < n + 1 /\ (i + 1 \in 1 .. n - 1 \/ i + 1 = n)
        BY <1>1, <2>2, <3>4
      <4>2. new[i + 1][1] = frames[i + 1][1]
        BY <1>1, <1>2, <4>1
      <4>3. Below(new, i) = Below(frames, i)
        BY <1>1, <4>1, <4>2 DEF Below, n
      <4> QED BY <1>3, <3>1, <3>2, <4>1, <4>3
    <3> QED BY <3>3, <3>4
  <2> QED BY <1>1, <2>1, <2>2
<1> QED BY <1>1, <1>4, <1>5, <1>6 DEF CacheInv, Live

\* The children of the block on top leave the cache, to be reduced.
LEMMA CacheReduces ==
  ASSUME NEW e \in Exports, NEW frames, WalkInv(e, frames),
         NEW cached, CacheInv(e, frames, cached, "idle"),
         Len(frames) >= 2, frames[Len(frames)][2] = <<>>
  PROVE  CacheInv(e, frames, cached \ Children(e, frames[Len(frames)]), "dispatch")
<1> DEFINE n == Len(frames)
           left == cached \ Children(e, frames[n])
<1>1. n \in Nat /\ n \in 2 .. n
  <2>1. frames \in Seq(Frames(e))
    BY DEF WalkInv
  <2>2. n \in Nat /\ n >= 2
    BY <2>1
  <2> QED BY <2>2
<1>2. e.supplies_all_zooms => left = {}
  BY DEF CacheInv
<1>3. \A b \in left : \E i \in 2 .. n : b \in Children(e, frames[i]) /\ b \notin Rest(frames[i])
  BY DEF CacheInv
<1>4. ASSUME ~e.supplies_all_zooms, NEW i \in 2 .. n, i < n, NEW b \in Children(e, frames[i])
      PROVE  b \in Rest(frames[i]) \/ b \in Below(frames, i) \/ b \in left
  <2>1. b \in Rest(frames[i]) \/ b \in Below(frames, i) \/ b \in cached
    BY <1>4 DEF CacheInv, Live
  <2>2. b \notin Children(e, frames[n])
    <3>1. i # n /\ i \in 2 .. n
      BY <1>1, <1>4
    <3> QED BY <1>1, <1>4, <3>1, LevelsAreApart
  <2> QED BY <2>1, <2>2
<1>5. \A b \in Children(e, frames[n]) : b \notin left
  OBVIOUS
<1> HIDE DEF left
<1>6. CacheInv(e, frames, left, "dispatch")
  BY <1>2, <1>3, <1>4, <1>5 DEF CacheInv, Live
<1> QED BY <1>6 DEF left

\* A block is done: a parent that will reduce it finds it in the cache.
LEMMA CacheReturns ==
  ASSUME NEW e \in Exports, NEW frames, WalkInv(e, frames),
         NEW cached, CacheInv(e, frames, cached, "done"),
         NEW spilled, spilled = (~e.supplies_all_zooms
                                   /\ frames[Len(frames)][1][1] > e.min_zoom),
         NEW left, left = IF spilled THEN cached \union {frames[Len(frames)][1]} ELSE cached,
         NEW new, new = Front(frames)
  PROVE  CacheInv(e, new, left, "idle")
<1> DEFINE n == Len(frames)
           block == frames[n][1]
<1>1. n >= 2 /\ \A b \in Children(e, frames[n]) : b \notin cached
  BY DEF CacheInv, Live
<1>2. n \in Nat /\ Len(new) = n - 1 /\ \A i \in 1 .. n - 1 : new[i] = frames[i]
  BY <1>1, WalkReturns
<1>3. n \in 2 .. n /\ n \in Int
  BY <1>1, <1>2
<1>4. e.min_zoom \in Nat /\ block[1] = LevelOf(e, n)
  BY <1>3, ChildrenAreDeeper
<1>5. spilled <=> ~e.supplies_all_zooms /\ n > 2
  <2> HIDE DEF n, block
  <2>1. block[1] > e.min_zoom <=> n > 2
    BY <1>3, <1>4 DEF LevelOf
  <2>2. spilled <=> ~e.supplies_all_zooms /\ block[1] > e.min_zoom
    BY DEF n, block
  <2> QED BY <2>1, <2>2
<1>6. n > 2 => /\ n - 1 \in 2 .. n /\ n - 1 < n /\ (n - 1) + 1 = n /\ n - 1 \in 1 .. n - 1
               /\ n - 1 \in 2 .. n - 1
  BY <1>2
<1> HIDE DEF n
<1>7. n > 2 => /\ block \in Children(e, frames[n - 1])
               /\ block \notin Rest(frames[n - 1])
               /\ Below(frames, n - 1) = {block}
  <2> SUFFICES ASSUME n > 2 PROVE /\ block \in Children(e, frames[n - 1])
                                  /\ block \notin Rest(frames[n - 1])
                                  /\ Below(frames, n - 1) = {block}
    OBVIOUS
  <2>1. FrameInv(e, frames, n - 1)
    BY <1>6 DEF WalkInv, n
  <2>2. Below(frames, n - 1) = {block}
    BY <1>6 DEF Below, n
  <2> QED BY <2>1, <2>2 DEF FrameInv
<1> HIDE DEF block
<1>8. left = IF spilled THEN cached \union {block} ELSE cached
  BY DEF block, n
<1>9. e.supplies_all_zooms => left = {}
  BY <1>5, <1>8 DEF CacheInv
<1>10. ASSUME NEW b \in left
       PROVE  \E i \in 2 .. n - 1 : b \in Children(e, new[i]) /\ b \notin Rest(new[i])
  <2>1. CASE b \in cached
    <3>1. PICK i \in 2 .. n : b \in Children(e, frames[i]) /\ b \notin Rest(frames[i])
      BY <2>1 DEF CacheInv, n
    <3>2. i # n
      BY <1>1, <2>1, <3>1 DEF n
    <3>3. i \in 2 .. n - 1 /\ i \in 1 .. n - 1
      BY <1>2, <3>1, <3>2
    <3> QED BY <1>2, <3>1, <3>3
  <2>2. CASE b = block /\ spilled
    BY <1>2, <1>5, <1>6, <1>7, <2>2
  <2> QED BY <1>8, <2>1, <2>2
<1>11. ASSUME ~e.supplies_all_zooms, NEW i \in 2 .. n - 1, NEW b \in Children(e, new[i])
       PROVE  b \in Rest(new[i]) \/ b \in Below(new, i) \/ b \in left
  <2>1. i \in 2 .. n /\ i < n /\ i \in 1 .. n - 1 /\ n > 2
    BY <1>2
  <2>2. new[i] = frames[i]
    BY <1>2, <2>1
  <2>3. b \in Rest(frames[i]) \/ b \in Below(frames, i) \/ b \in cached
    BY <1>11, <2>1, <2>2 DEF CacheInv, Live, n
  <2>4. CASE i = n - 1
    <3>1. Below(frames, i) = {block} /\ spilled
      BY <1>5, <1>7, <1>11, <2>1, <2>4
    <3> QED BY <1>8, <2>2, <2>3, <3>1
  <2>5. CASE i # n - 1
    <3>1. i + 1 \in 1 .. n - 1 /\ i < n - 1
      BY <1>2, <2>1, <2>5
    <3>2. new[i + 1] = frames[i + 1]
      BY <1>2, <3>1
    <3>3. Below(new, i) = Below(frames, i)
      BY <1>2, <2>1, <3>1, <3>2 DEF Below, n
    <3> QED BY <1>8, <2>2, <2>3, <3>3
  <2> QED BY <2>4, <2>5
<1> QED BY <1>2, <1>9, <1>10, <1>11 DEF CacheInv, Live

\* The inductive invariant of the walk and its cache.
Cached ==
  /\ export \in Exports
  /\ WalkInv(export, stack)
  /\ CacheInv(export, stack, DOMAIN raw_cache, call)

LEMMA ExportsBeginCached ==
  Init => Cached
<1> SUFFICES ASSUME Init PROVE Cached
  OBVIOUS
<1>1. export \in Exports /\ WalkInv(export, stack)
  BY WalkBegins DEF Init
<1>2. DOMAIN raw_cache = {} /\ call = "idle" /\ Len(stack) = 1
  BY DEF Init, NoBlocks, PoolInit
<1>3. CacheInv(export, stack, {}, "idle")
  BY <1>2 DEF CacheInv
<1> QED BY <1>1, <1>2, <1>3 DEF Cached

\* The frame on top: where it is, and when it is run's own.
LEMMA OnTop ==
  ASSUME Cached
  PROVE  /\ stack \in Seq(Frames(export)) /\ stack # <<>>
         /\ Len(stack) \in Nat \ {0} /\ Frame = stack[Len(stack)]
         /\ Frame[1] # Root => Len(stack) >= 2 /\ Len(stack) \in 2 .. Len(stack)
         /\ Frame \in Frames(export)
<1>1. stack \in Seq(Frames(export)) /\ stack # <<>> /\ stack[1][1] = Root
  BY DEF Cached, WalkInv
<1>2. Len(stack) \in Nat \ {0} /\ Frame = stack[Len(stack)]
  BY <1>1, EmptySeq DEF Frame, Last
<1>3. Frame[1] # Root => Len(stack) # 1
  BY <1>1, <1>2
<1>4. Len(stack) # 1 => Len(stack) >= 2 /\ Len(stack) \in 2 .. Len(stack)
  BY <1>2
<1>5. Len(stack) \in 1 .. Len(stack)
  BY <1>2
<1>6. stack[Len(stack)] \in Frames(export)
  BY <1>1, <1>5, ElementOfSeq
<1> QED BY <1>1, <1>2, <1>3, <1>4, <1>6

\* The steps that leave the walk and the cache alone.
LEMMA PoolStepsKeepCached ==
  ASSUME Cached, UNCHANGED <<export, stack, raw_cache>>,
         call' \in Live => call \in Live /\ (call' = "idle" <=> call = "idle")
  PROVE  Cached'
<1>1. CacheInv(export, stack, DOMAIN raw_cache, call')
  BY CallMoves DEF Cached
<1> QED BY <1>1 DEF Cached

LEMMA DescendKeepsCached ==
  ASSUME Cached, Descend
  PROVE  Cached'
<1> DEFINE f == Frame
           child == Head(f[2])
           done == <<f[1], Tail(f[2])>>
           next == <<child, ChildrenOf(export, child)>>
<1>1. /\ stack \in Seq(Frames(export)) /\ stack # <<>> /\ f = stack[Len(stack)]
  BY OnTop
<1>2. /\ call = "idle" /\ f[2] # <<>>
      /\ stack' = Append(Front(stack) \o <<done>>, next)
      /\ export' = export /\ raw_cache' = raw_cache /\ call' = call
  BY DEF Descend, Walking, poolVars, callVars
<1>3. Pushes(stack, done, next, stack')
  <2> HIDE DEF done, next
  <2> QED BY <1>1, <1>2, Pushed
<1>4. Descends(export, stack, stack')
  BY <1>1, <1>2, <1>3 DEF Descends
<1>5. export \in Exports /\ WalkInv(export, stack)
      /\ CacheInv(export, stack, DOMAIN raw_cache, "idle")
  BY <1>2 DEF Cached
<1>6. Descended(export, stack, stack')
  BY <1>4, <1>5, WalkDescends
<1>7. CacheInv(export, stack', DOMAIN raw_cache, "idle")
  BY <1>4, <1>5, CacheDescends
<1> HIDE DEF f, child, done, next
<1>8. WalkInv(export, stack')
  BY <1>6 DEF Descended
<1> QED BY <1>2, <1>5, <1>7, <1>8 DEF Cached

LEMMA SourcePathKeepsCached ==
  ASSUME Cached, NEW block, SourcePath(block)
  PROVE  Cached'
<1> DEFINE n == Len(stack)
<1>1. /\ call = "idle" /\ Frame = <<block, <<>>>> /\ block # Root
      /\ call' = "dispatch" /\ export' = export /\ stack' = stack
      /\ raw_cache' = raw_cache
  BY DEF SourcePath, Due, Walking, FanOut
<1>2. /\ Frame = stack[n] /\ n >= 2 /\ n \in 2 .. n
  BY <1>1, OnTop
<1>3. stack[n][1] = block /\ stack[n][2] = <<>>
  BY <1>1, <1>2
<1>4. /\ export \in Exports /\ WalkInv(export, stack)
      /\ CacheInv(export, stack, DOMAIN raw_cache, "idle")
  BY <1>1 DEF Cached
<1> HIDE DEF n
<1>5. \A b \in Children(export, stack[n]) : b \notin DOMAIN raw_cache
  <2>1. CASE export.supplies_all_zooms
    BY <1>4, <2>1 DEF CacheInv
  <2>2. CASE ~export.supplies_all_zooms
    <3>1. block[1] = export.zoom
      BY <2>2 DEF SourcePath, SourceSupplies
    <3>2. Children(export, stack[n]) = {}
      BY <1>2, <1>3, <1>4, <3>1, ChildrenAreDeeper DEF n
    <3> QED BY <3>2
  <2> QED BY <2>1, <2>2
<1>6. CacheInv(export, stack, DOMAIN raw_cache, "dispatch")
  BY <1>2, <1>3, <1>4, <1>5 DEF CacheInv, Live, n
<1> QED BY <1>1, <1>4, <1>6 DEF Cached

LEMMA ReducePathKeepsCached ==
  ASSUME Cached, NEW block, ReducePath(block)
  PROVE  Cached'
<1>1. /\ call = "idle" /\ Frame = <<block, <<>>>> /\ block # Root
      /\ call' = "dispatch" /\ export' = export /\ stack' = stack
      /\ raw_cache' = Drop(raw_cache, Range(ChildrenOf(export, block)))
  BY DEF ReducePath, Due, Walking, FanOut
<1>2. Frame = stack[Len(stack)] /\ Len(stack) >= 2
  BY <1>1, OnTop
<1>3. stack[Len(stack)][1] = block /\ stack[Len(stack)][2] = <<>>
  BY <1>1, <1>2
<1>4. DOMAIN raw_cache' = DOMAIN raw_cache \ Children(export, stack[Len(stack)])
  BY <1>1, <1>3 DEF Drop, Children
<1>5. /\ export \in Exports /\ WalkInv(export, stack)
      /\ CacheInv(export, stack, DOMAIN raw_cache, "idle")
  BY <1>1 DEF Cached
<1>6. CacheInv(export, stack,
               DOMAIN raw_cache \ Children(export, stack[Len(stack)]), "dispatch")
  BY <1>2, <1>3, <1>5, CacheReduces
<1> QED BY <1>1, <1>4, <1>5, <1>6 DEF Cached

LEMMA FinishBlockKeepsCached ==
  ASSUME Cached, FinishBlock
  PROVE  Cached'
<1> DEFINE block == stack[Len(stack)][1]
           spilled == ~export.supplies_all_zooms /\ block[1] > export.min_zoom
           left == IF spilled THEN DOMAIN raw_cache \union {block} ELSE DOMAIN raw_cache
<1>1. /\ call = "done" /\ call' = "idle" /\ export' = export
      /\ stack' = Front(stack)
  BY DEF FinishBlock
<1>2. DOMAIN raw_cache' = left
  BY OnTop DEF FinishBlock, Spills, Put
<1>3. /\ export \in Exports /\ WalkInv(export, stack)
      /\ CacheInv(export, stack, DOMAIN raw_cache, "done")
  BY <1>1 DEF Cached
<1>4. Len(stack) >= 2
  BY <1>3 DEF CacheInv, Live
<1>5. WalkInv(export, stack')
  BY <1>1, <1>3, <1>4, WalkReturns
<1>6. CacheInv(export, stack', left, "idle")
  BY <1>1, <1>3, CacheReturns
<1> HIDE DEF left
<1> QED BY <1>1, <1>2, <1>3, <1>5, <1>6 DEF Cached

LEMMA FinishKeepsCached ==
  ASSUME Cached, Finish
  PROVE  Cached'
<1>1. /\ call = "joined" /\ call' = call /\ export' = export /\ stack' = stack
      /\ DOMAIN raw_cache' = {}
  BY DEF Finish, poolVars, callVars, NoBlocks
<1>2. CacheInv(export, stack, {}, "joined")
  BY DEF CacheInv, Live
<1> QED BY <1>1, <1>2 DEF Cached

LEMMA StepsKeepCached ==
  Cached /\ [Next]_vars => Cached'
<1> SUFFICES ASSUME Cached, [Next]_vars PROVE Cached'
  OBVIOUS
<1>1. CASE Descend
  BY <1>1, DescendKeepsCached
<1>2. CASE \E block \in {Frame[1]} : SourcePath(block)
  BY <1>2, SourcePathKeepsCached
<1>3. CASE \E block \in {Frame[1]} : ReducePath(block)
  BY <1>3, ReducePathKeepsCached
<1>4. CASE FinishBlock
  BY <1>4, FinishBlockKeepsCached
<1>5. CASE Finish
  BY <1>5, FinishKeepsCached
<1>6. CASE Seal
  BY <1>6, PoolStepsKeepCached DEF Seal, poolVars, callVars
<1>7. CASE Shutdown \/ Join
  <2>1. call' \in {"joining", "joined"} /\ UNCHANGED <<export, stack, raw_cache>>
    BY <1>7 DEF Shutdown, Join, StopAll, JoinAll
  <2> QED BY <2>1, PoolStepsKeepCached DEF Live
<1>8. CASE /\ Dispatch \/ Collect \/ CollectClosed
           /\ UNCHANGED <<export, stack, raw_cache, fileVars, outcome>>
  <2>1. /\ call \in {"dispatch", "drain"}
        /\ call' \in {"dispatch", "drain", "done", "failed"}
    BY <1>8 DEF Dispatch, Collect, CollectClosed
  <2> QED BY <1>8, <2>1, PoolStepsKeepCached DEF Live
<1>9. CASE \E w \in DOMAIN worker : Work(w) \/ Fail(w)
  <2>1. UNCHANGED <<export, stack, raw_cache, call>>
    BY <1>9 DEF Work, Fail, ThreadStep, Open, Handle, Return, OpenFails,
                HandleFails, Panic, Answer, callVars
  <2> QED BY <2>1, PoolStepsKeepCached
<1>10. CASE UNCHANGED vars
  <2>1. UNCHANGED <<export, stack, raw_cache, call>>
    BY <1>10 DEF vars, poolVars, callVars
  <2> QED BY <2>1, PoolStepsKeepCached
<1> QED BY <1>1, <1>2, <1>3, <1>4, <1>5, <1>6, <1>7, <1>8, <1>9, <1>10
        DEF Next, Orchestrate

LEMMA CachedIsTheFrontier ==
  Cached => CacheIsTheFrontier
<1> SUFFICES ASSUME Cached PROVE CacheIsTheFrontier
  OBVIOUS
<1> DEFINE n == Len(stack)
<1>1. /\ stack \in Seq(Frames(export)) /\ n \in Nat \ {0} /\ Frame = stack[n]
      /\ Frame[1] # Root => n \in 2 .. n
  BY OnTop
<1>2. /\ export \in Exports /\ WalkInv(export, stack)
      /\ CacheInv(export, stack, DOMAIN raw_cache, call)
  BY DEF Cached
<1>3. ChildrenAreCached
  <2> SUFFICES ASSUME Walking, Frame[1] # Root, Frame[2] = <<>>,
                      ~SourceSupplies(Frame[1])
               PROVE  /\ Children(export, Frame) # {}
                      /\ Children(export, Frame) \subseteq DOMAIN raw_cache
    BY DEF ChildrenAreCached, Children
  <2>1. n \in 2 .. n /\ call = "idle" /\ call \in Live
    BY <1>1 DEF Walking, Live
  <2>2. ~export.supplies_all_zooms /\ stack[n][1][1] # export.zoom
    BY <1>1 DEF SourceSupplies
  <2>3. Children(export, Frame) # {}
    <3>1. /\ LevelOf(export, n) \in 0 .. export.zoom /\ export.zoom \in Nat
          /\ stack[n][1][1] = LevelOf(export, n)
          /\ LevelOf(export, n) < export.zoom => Children(export, stack[n]) # {}
      BY <1>2, <2>1, ChildrenAreDeeper
    <3> HIDE DEF n
    <3>2. LevelOf(export, n) < export.zoom
      BY <2>2, <3>1
    <3> QED BY <1>1, <3>1, <3>2
  <2>4. Rest(Frame) = {} /\ Below(stack, n) = {}
    BY <1>1 DEF Rest, Range, Below
  <2>5. \A b \in Children(export, stack[n]) :
           b \in Rest(stack[n]) \/ b \in Below(stack, n) \/ b \in DOMAIN raw_cache
    BY <1>2, <2>1, <2>2 DEF CacheInv
  <2> QED BY <1>1, <2>3, <2>4, <2>5
<1>4. ASSUME NEW b \in DOMAIN raw_cache
      PROVE  \E i \in DOMAIN stack :
               /\ stack[i][1] # Root
               /\ b \in Range(ChildrenOf(export, stack[i][1])) \ Range(stack[i][2])
  <2>1. PICK i \in 2 .. n : b \in Children(export, stack[i]) /\ b \notin Rest(stack[i])
    BY <1>2 DEF CacheInv
  <2>2. i \in DOMAIN stack
    BY <1>1, <2>1
  <2>3. stack[i][1] \in LevelBlocks(export, LevelOf(export, i))
    BY <1>2, <2>1 DEF WalkInv, FrameInv
  <2>4. stack[i][1] # Root
    <3>1. PICK z, x, y : stack[i][1] = <<z, x, y>>
      BY <2>3 DEF LevelBlocks
    <3> QED BY <3>1 DEF Root
  <2> QED BY <2>1, <2>2, <2>4 DEF Children, Rest
<1> QED BY <1>3, <1>4 DEF CacheIsTheFrontier

\* load_and_drop never misses, and no block stays in the cache longer than its
\* parent needs it: for every pyramid, block width and number of workers, and
\* whatever faults there are (raw_cache.rs, orchestrator.rs).
THEOREM TheCacheIsTheFrontier ==
  Spec => []CacheIsTheFrontier
<1>1. Init => Cached
  BY ExportsBeginCached
<1>2. Cached /\ [Next]_vars => Cached'
  BY StepsKeepCached
<1>3. Cached => CacheIsTheFrontier
  BY CachedIsTheFrontier
<1> QED BY <1>1, <1>2, <1>3, PTL DEF Spec

-----------------------------------------------------------------------------
(* Only a fault makes an export fail.                                      *)

\* The pool's state: its threads, their channels and the cursor.
Shaped ==
  /\ DOMAIN worker = 0 .. export.worker_count - 1
  /\ DOMAIN queue = DOMAIN worker
  /\ \A w \in DOMAIN worker : worker[w] \in ThreadState /\ IsSeq(queue[w])
  /\ next_worker \in DOMAIN worker
  /\ IsSeq(batch) /\ IsSeq(results)

\* What is so until a fault happens: until the header is written no thread has
\* ended or been told to, and no job or answer is one that ends the fan-out.
Faultless ==
  /\ call # "failed" /\ outcome # "err"
  /\ \A w \in DOMAIN worker : worker[w] \notin {"failed", "panicked"}
  /\ call \in Live =>
       \A w \in DOMAIN worker : Alive(w) /\ Stop \notin Range(queue[w])
  /\ call \notin Live => header
  /\ \A w \in DOMAIN worker : \A m \in Range(queue[w]) : m = Stop \/ m[2] # {}
  /\ \A m \in Range(batch) : m # Stop /\ m[2] # {}
  /\ Error \notin Range(results)

\* The inductive invariant: the jobs are those of blocks that the walk is at.
Sound ==
  /\ Cached
  /\ Shaped
  /\ call = "dispatch" => batch # <<>>
  /\ call = "joined" => \A w \in DOMAIN worker : ~Alive(w)
  /\ spent = {} => Faultless

LEMMA ExportsBeginSound ==
  Init => Sound
<1> SUFFICES ASSUME Init PROVE Sound
  OBVIOUS
<1>1. Cached
  BY ExportsBeginCached
<1>2. export.worker_count \in Nat \ {0}
  BY ExportsAssumption DEF Init
<1>3. IsSeq(<<>>) /\ Range(<<>>) = {}
  BY DEF IsSeq, Range
<1>4. /\ DOMAIN worker = 0 .. export.worker_count - 1 /\ DOMAIN queue = DOMAIN worker
      /\ \A w \in DOMAIN worker : worker[w] = "opening" /\ queue[w] = <<>>
      /\ next_worker = 0 /\ batch = <<>> /\ results = <<>>
      /\ call = "idle" /\ outcome = "running"
  BY DEF Init, PoolInit
<1>5. Shaped
  BY <1>2, <1>3, <1>4 DEF Shaped, ThreadState
<1>6. Faultless
  BY <1>3, <1>4 DEF Faultless, Alive, Live
<1> QED BY <1>1, <1>4, <1>5, <1>6 DEF Sound

\* What a thread may do to itself, its channel and the results.
LEMMA ThreadsKeepSound ==
  ASSUME Sound, NEW w \in DOMAIN worker,
         UNCHANGED <<callVars, export, stack, raw_cache, header, outcome>>,
         DOMAIN worker' = DOMAIN worker, DOMAIN queue' = DOMAIN queue,
         \A v \in DOMAIN worker \ {w} : worker'[v] = worker[v] /\ queue'[v] = queue[v],
         worker'[w] \in ThreadState,
         Alive(w)' => Alive(w),
         IsSeq(queue'[w]), Range(queue'[w]) \subseteq Range(queue[w]),
         IsSeq(results'),
         spent' = {} =>
           /\ spent = {}
           /\ worker'[w] \notin {"failed", "panicked"}
           /\ call \in Live => Alive(w)'
           /\ Error \notin Range(results')
  PROVE  Sound'
<1>1. Cached'
  BY PoolStepsKeepCached DEF Sound, callVars
<1>2. Shaped'
  BY DEF Sound, Shaped, callVars
<1>3. call' = call /\ batch' = batch /\ next_worker' = next_worker
  BY DEF callVars
<1>4. call' = "joined" => \A v \in DOMAIN worker' : ~Alive(v)'
  <2>1. \A v \in DOMAIN worker : Alive(v)' => Alive(v)
    BY DEF Alive
  <2> QED BY <1>3, <2>1 DEF Sound
<1>5. ASSUME spent' = {}
      PROVE  Faultless'
  <2>1. Faultless
    BY <1>5 DEF Sound
  <2>2. ASSUME NEW v \in DOMAIN worker
        PROVE  /\ worker'[v] \notin {"failed", "panicked"}
               /\ call \in Live => Alive(v)' /\ Stop \notin Range(queue'[v])
               /\ \A m \in Range(queue'[v]) : m = Stop \/ m[2] # {}
    <3>1. CASE v = w
      BY <1>5, <2>1, <3>1 DEF Faultless
    <3>2. CASE v # w
      BY <2>1, <3>2 DEF Faultless, Alive
    <3> QED BY <3>1, <3>2
  <2> QED BY <1>3, <1>5, <2>1, <2>2 DEF Faultless
<1> QED BY <1>1, <1>2, <1>3, <1>4, <1>5 DEF Sound

LEMMA ThreadStepsKeepSound ==
  ASSUME Sound, NEW w \in DOMAIN worker, Work(w) \/ Fail(w)
  PROVE  Sound'
<1>1. /\ UNCHANGED <<callVars, export, stack, raw_cache, header, outcome>>
      /\ w \in DOMAIN queue /\ IsSeq(queue[w]) /\ worker[w] \in ThreadState
      /\ IsSeq(results) /\ DOMAIN queue = DOMAIN worker
  BY DEF Sound, Shaped, Work, Fail, ThreadStep, Open, Handle, Return, OpenFails,
         HandleFails, Panic, Answer, fileVars
<1>2. IsSeq(<<>>) /\ Range(<<>>) = {}
  BY DEF IsSeq, Range
<1>3. spent = {} => Faultless
  BY DEF Sound
<1>4. CASE Open(w)
  <2>1. /\ worker[w] = "opening" /\ worker' = [worker EXCEPT ![w] = "running"]
        /\ queue' = queue /\ results' = results /\ spent' = spent
    BY <1>4 DEF Open
  <2>2. Alive(w) /\ Alive(w)' /\ worker'[w] = "running"
    BY <2>1 DEF Alive
  <2> QED BY <1>1, <1>3, <2>1, <2>2, ThreadsKeepSound DEF ThreadState, Faultless
<1>5. CASE Job(w) /\ spent' = {} /\ ~Handle(w)
  BY <1>5 DEF Work, Fail, ThreadStep, Open, Return, Job, OpenFails, HandleFails,
              Panic, Happens
<1>6. CASE Handle(w) \/ HandleFails(w, export.faults)
  <2>1. PICK answer : Answer(w, answer)
    BY <1>6 DEF Handle, HandleFails
  <2>2. /\ worker' = worker /\ queue' = [queue EXCEPT ![w] = Tail(@)]
        /\ results' = Append(results, answer) /\ queue[w] # <<>>
        /\ worker[w] = "running"
    BY <1>6, <2>1 DEF Answer, Handle, HandleFails, Job
  <2>3. /\ queue'[w] = Tail(queue[w]) /\ DOMAIN queue' = DOMAIN queue
        /\ \A v \in DOMAIN worker \ {w} : worker'[v] = worker[v] /\ queue'[v] = queue[v]
    BY <1>1, <2>2
  <2>4. IsSeq(Tail(queue[w])) /\ Range(Tail(queue[w])) \subseteq Range(queue[w])
    BY <1>1, <2>2, Consumed
  <2>5. /\ IsSeq(results')
        /\ \A x \in Range(results') : x \in Range(results) \/ x = answer
    BY <1>1, <2>2, Appended
  <2>6. Alive(w) /\ Alive(w)'
    BY <2>2 DEF Alive
  <2>7. ASSUME spent' = {}
        PROVE  spent = {} /\ Error \notin Range(results')
    <3>1. Handle(w) /\ spent = {}
      BY <1>6, <2>7 DEF Handle, HandleFails, Happens
    <3>2. Head(queue[w]) # Stop /\ Head(queue[w]) \in Range(queue[w])
      BY <1>1, <2>2, <3>1, Consumed DEF Handle, Job
    <3>3. Head(queue[w])[2] # {}
      BY <1>3, <3>1, <3>2 DEF Faultless
    <3>4. results' = Append(results, <<Head(queue[w])[1], UNION Head(queue[w])[2]>>)
      BY <3>1, <3>3 DEF Handle, Answer
    <3>5. \A x \in Range(results') :
            x \in Range(results) \/ x = <<Head(queue[w])[1], UNION Head(queue[w])[2]>>
      BY <1>1, <3>4, Appended
    <3>6. Error # <<Head(queue[w])[1], UNION Head(queue[w])[2]>>
      BY DEF Error
    <3> QED BY <1>3, <3>1, <3>5, <3>6 DEF Faultless
  <2> HIDE DEF IsSeq
  <2> QED BY <1>1, <1>3, <2>2, <2>3, <2>4, <2>5, <2>6, <2>7, ThreadsKeepSound
          DEF Faultless
<1>7. CASE OpenFails(w, export.faults) \/ Panic(w, export.faults) \/ Return(w)
  <2>1. PICK how \in {"failed", "panicked", "returned"} : Exit(w, how)
    BY <1>7 DEF OpenFails, Panic, Return
  <2>2. /\ DOMAIN worker' = DOMAIN worker /\ DOMAIN queue' = DOMAIN queue
        /\ worker'[w] = how /\ queue'[w] = <<>> /\ results' = results
        /\ \A v \in DOMAIN worker \ {w} : worker'[v] = worker[v] /\ queue'[v] = queue[v]
    BY <1>1, <1>7, <2>1 DEF Exit, OpenFails, Panic, Return
  <2>3. ~Alive(w)'
    BY <2>2 DEF Alive
  <2>4. ASSUME spent' = {}
        PROVE  spent = {} /\ how = "returned" /\ call \notin Live
    <3>1. Return(w) /\ spent = {}
      BY <1>7, <2>4 DEF OpenFails, Panic, Return, Happens
    <3>2. Stop \in Range(queue[w])
      <4>1. queue[w] # <<>> /\ Head(queue[w]) = Stop
        BY <3>1 DEF Return
      <4> QED BY <1>1, <4>1, Consumed
    <3>3. how = "returned"
      BY <2>2, <3>1 DEF Return, Exit
    <3> QED BY <1>3, <3>1, <3>2, <3>3 DEF Faultless
  <2> QED BY <1>1, <1>2, <1>3, <2>2, <2>3, <2>4, ThreadsKeepSound
          DEF Faultless, ThreadState
<1> QED BY <1>4, <1>6, <1>7 DEF Work, Fail, ThreadStep

\* A fan-out of at least one job, none of them empty.
LEMMA FanOutsKeepSound ==
  ASSUME Sound, Cached',
         UNCHANGED <<threadVars, next_worker, spent, export, header, outcome>>,
         call = "idle", call' = "dispatch",
         NEW n \in Nat \ {0}, DOMAIN batch' = 1 .. n, batch' \in Seq(Range(batch')),
         \A i \in 1 .. n : batch'[i] # Stop /\ batch'[i][2] # {}
  PROVE  Sound'
<1>1. IsSeq(batch') /\ batch' # <<>>
  BY DEF IsSeq
<1>2. \A m \in Range(batch') : m # Stop /\ m[2] # {}
  BY DEF Range
<1>3. UNCHANGED <<worker, queue, results>>
  BY DEF threadVars
<1>4. Shaped'
  BY <1>1, <1>3 DEF Sound, Shaped
<1>5. spent' = {} => Faultless'
  BY <1>2, <1>3 DEF Sound, Faultless, Live, Alive
<1> QED BY <1>1, <1>4, <1>5 DEF Sound

\* The block on top is one of its level, and its slots are numbered from 1.
LEMMA DueBlocks ==
  ASSUME Cached, NEW block, Due(block)
  PROVE  /\ export \in Exports /\ block[1] \in 0 .. export.zoom
         /\ block \in LevelBlocks(export, block[1])
         /\ \E n \in Nat \ {0} : DOMAIN Slots(export, block) = 1 .. n
<1>1. /\ Frame[1] = block /\ Frame = stack[Len(stack)] /\ Len(stack) \in 2 .. Len(stack)
  BY OnTop DEF Due
<1>2. export \in Exports /\ WalkInv(export, stack)
  BY DEF Cached
<1>3. /\ LevelOf(export, Len(stack)) \in 0 .. export.zoom
      /\ stack[Len(stack)][1][1] = LevelOf(export, Len(stack))
  BY <1>1, <1>2, ChildrenAreDeeper
<1>4. stack[Len(stack)][1] \in LevelBlocks(export, LevelOf(export, Len(stack)))
  BY <1>1, <1>2 DEF WalkInv, FrameInv
<1>5. block[1] \in 0 .. export.zoom /\ block \in LevelBlocks(export, block[1])
  BY <1>1, <1>3, <1>4
<1> QED BY <1>2, <1>5, SlotsAreTiles

\* A batch is a sequence of whatever it holds.
LEMMA Batches ==
  ASSUME NEW n \in Nat \ {0}, NEW jobs, jobs = [i \in 1 .. n |-> jobs[i]]
  PROVE  jobs \in Seq(Range(jobs))
<1>1. \A i \in 1 .. n : jobs[i] \in Range(jobs)
  BY DEF Range
<1>2. jobs \in [1 .. n -> Range(jobs)]
  BY <1>1
<1> QED BY <1>2

LEMMA SourcePathKeepsSound ==
  ASSUME Sound, NEW block, SourcePath(block)
  PROVE  Sound'
<1> DEFINE jobs == [i \in DOMAIN Slots(export, block) |->
                      <<i, {Shown(Slots(export, block)[i])}>>]
<1>1. /\ call = "idle" /\ call' = "dispatch" /\ batch' = jobs /\ Due(block)
      /\ UNCHANGED <<threadVars, next_worker, spent, export, header, outcome>>
  BY DEF SourcePath, FanOut, Due, Walking, fileVars
<1>2. Cached'
  BY SourcePathKeepsCached DEF Sound
<1>3. PICK n \in Nat \ {0} : DOMAIN Slots(export, block) = 1 .. n
  BY <1>1, DueBlocks DEF Sound
<1>4. \A i \in 1 .. n : jobs[i] # Stop /\ jobs[i][2] # {}
  BY <1>3 DEF Stop
<1>5. DOMAIN jobs = 1 .. n /\ jobs = [i \in 1 .. n |-> jobs[i]]
  BY <1>3
<1> HIDE DEF jobs
<1>6. jobs \in Seq(Range(jobs))
  BY <1>5, Batches
<1> QED BY <1>1, <1>2, <1>4, <1>5, <1>6, FanOutsKeepSound

LEMMA ReducePathKeepsSound ==
  ASSUME Sound, NEW block, ReducePath(block)
  PROVE  Sound'
<1> DEFINE jobs == [i \in DOMAIN Slots(export, block) |->
                      <<i, Parts(Slots(export, block)[i], ChildrenOf(export, block))>>]
<1>1. /\ call = "idle" /\ call' = "dispatch" /\ batch' = jobs /\ Due(block)
      /\ UNCHANGED <<threadVars, next_worker, spent, export, header, outcome>>
  BY DEF ReducePath, FanOut, Due, Walking, fileVars
<1>2. Cached'
  BY ReducePathKeepsCached DEF Sound
<1>3. PICK n \in Nat \ {0} : DOMAIN Slots(export, block) = 1 .. n
  BY <1>1, DueBlocks DEF Sound
<1>4. /\ export \in Exports /\ block \in LevelBlocks(export, block[1])
      /\ block[1] \in 0 .. export.zoom /\ block[1] < export.zoom
  <2>1. /\ export \in Exports /\ block \in LevelBlocks(export, block[1])
        /\ block[1] \in 0 .. export.zoom
    BY <1>1, DueBlocks DEF Sound
  <2>2. block[1] # export.zoom
    BY DEF ReducePath, SourceSupplies
  <2>3. export.zoom \in Nat
    BY <2>1, ExportsAssumption
  <2> QED BY <2>1, <2>2, <2>3
<1>5. ASSUME NEW i \in 1 .. n PROVE jobs[i] # Stop /\ jobs[i][2] # {}
  <2> DEFINE parts == Parts(Slots(export, block)[i], ChildrenOf(export, block))
  <2>1. i \in DOMAIN Slots(export, block)
    BY <1>3
  <2>2. parts # {}
    BY <1>4, <2>1, PartsAreThere
  <2>3. jobs[i] = <<i, parts>>
    BY <2>1
  <2> HIDE DEF parts, jobs
  <2> QED BY <2>2, <2>3 DEF Stop
<1>6. DOMAIN jobs = 1 .. n /\ jobs = [i \in 1 .. n |-> jobs[i]]
  BY <1>3
<1> HIDE DEF jobs
<1>7. jobs \in Seq(Range(jobs))
  BY <1>6, Batches
<1> QED BY <1>1, <1>2, <1>5, <1>6, <1>7, FanOutsKeepSound

LEMMA DispatchKeepsSound ==
  ASSUME Sound, Cached', Dispatch, UNCHANGED <<export, header, outcome>>
  PROVE  Sound'
<1> DEFINE job == Head(batch)
<1>1. /\ call = "dispatch" /\ batch # <<>> /\ IsSeq(batch)
      /\ next_worker \in DOMAIN queue /\ DOMAIN queue = DOMAIN worker
      /\ next_worker' = (next_worker + 1) % Cardinality(DOMAIN worker)
      /\ worker' = worker /\ results' = results /\ spent' = spent
  BY DEF Sound, Shaped, Dispatch
<1>2. next_worker' \in DOMAIN worker
  <2>1. export.worker_count \in Nat \ {0}
    BY ExportsAssumption DEF Sound, Cached
  <2> DEFINE k == export.worker_count
  <2>2. DOMAIN worker = 0 .. k - 1 /\ next_worker \in 0 .. k - 1
    BY DEF Sound, Shaped
  <2> HIDE DEF k
  <2>3. k \in Nat \ {0}
    BY <2>1 DEF k
  <2>4. Cardinality(0 .. k - 1) = k
    <3>1. Cardinality(0 .. k - 1) = IF 0 <= k - 1 THEN k - 1 - 0 + 1 ELSE 0
      BY <2>3, FS_Interval
    <3> QED BY <2>3, <3>1
  <2>5. (next_worker + 1) % k \in 0 .. k - 1
    BY <2>2, <2>3
  <2> QED BY <1>1, <2>2, <2>4, <2>5
<1>3. job \in Range(batch) /\ IsSeq(Tail(batch)) /\ Range(Tail(batch)) \subseteq Range(batch)
      /\ Len(batch) \in Nat \ {0} /\ Len(Tail(batch)) = Len(batch) - 1
  BY <1>1, Consumed
<1> HIDE DEF job
<1>4. CASE /\ Alive(next_worker)
           /\ queue' = [queue EXCEPT ![next_worker] = Append(@, job)]
           /\ batch' = Tail(batch)
           /\ call' = IF Len(batch) = 1 THEN "drain" ELSE call
  <2> DEFINE sent == Append(queue[next_worker], job)
  <2>1. IsSeq(queue[next_worker])
    BY <1>1 DEF Sound, Shaped
  <2>2. IsSeq(sent) /\ \A m \in Range(sent) : m \in Range(queue[next_worker]) \/ m = job
    BY <2>1, Appended
  <2>3. /\ DOMAIN queue' = DOMAIN queue /\ queue'[next_worker] = sent
        /\ \A w \in DOMAIN queue \ {next_worker} : queue'[w] = queue[w]
    BY <1>1, <1>4
  <2> HIDE DEF sent
  <2>4. Shaped'
    <3>1. \A w \in DOMAIN queue : IsSeq(queue'[w])
      BY <2>2, <2>3 DEF Sound, Shaped
    <3> QED BY <1>1, <1>2, <1>3, <1>4, <2>3, <3>1 DEF Sound, Shaped
  <2>5. call' \in {"dispatch", "drain"} /\ (call' = "dispatch" => batch' # <<>>)
    <3>1. call' = "dispatch" => Len(batch) # 1
      BY <1>4
    <3>2. Tail(batch) = <<>> => Len(Tail(batch)) = 0
      OBVIOUS
    <3> QED BY <1>1, <1>3, <1>4, <3>1, <3>2
  <2>6. ASSUME spent' = {} PROVE Faultless'
    <3>1. Faultless
      BY <1>1, <2>6 DEF Sound
    <3>2. job # Stop /\ job[2] # {}
      BY <1>3, <3>1 DEF Faultless
    <3>3. call \in Live /\ call' \in Live /\ call' # "failed"
      BY <1>1, <2>5 DEF Live
    <3>4. ASSUME NEW w \in DOMAIN worker
          PROVE  /\ Stop \notin Range(queue'[w])
                 /\ \A m \in Range(queue'[w]) : m = Stop \/ m[2] # {}
      <4>1. CASE w = next_worker
        BY <1>1, <2>2, <2>3, <3>1, <3>2, <3>3, <4>1 DEF Faultless
      <4>2. CASE w # next_worker
        BY <1>1, <2>3, <3>1, <3>3, <4>2 DEF Faultless
      <4> QED BY <4>1, <4>2
    <3> QED BY <1>1, <1>3, <1>4, <3>1, <3>3, <3>4 DEF Faultless, Alive
  <2> QED BY <2>4, <2>5, <2>6 DEF Sound
<1>5. CASE ~Alive(next_worker) /\ call' = "failed" /\ queue' = queue /\ batch' = batch
  <2>1. Shaped'
    BY <1>1, <1>2, <1>5 DEF Sound, Shaped
  <2>2. spent # {}
    BY <1>1, <1>5 DEF Sound, Faultless, Live
  <2> QED BY <1>1, <1>5, <2>1, <2>2 DEF Sound
<1> QED BY <1>4, <1>5 DEF Dispatch, job

LEMMA CollectKeepsSound ==
  ASSUME Sound, Cached', Collect, UNCHANGED <<export, header, outcome>>
  PROVE  Sound'
<1>1. /\ call = "drain" /\ results # <<>> /\ IsSeq(results) /\ results' = Tail(results)
      /\ call' \in {"failed", "done", "drain"}
      /\ call' = "failed" <=> Head(results) = Error
      /\ UNCHANGED <<worker, queue, next_worker, batch, spent>>
  BY DEF Sound, Shaped, Collect
<1>2. /\ IsSeq(Tail(results)) /\ Range(Tail(results)) \subseteq Range(results)
      /\ Head(results) \in Range(results)
  BY <1>1, Consumed
<1>3. Shaped'
  BY <1>1, <1>2 DEF Sound, Shaped
<1>4. ASSUME spent' = {} PROVE Faultless'
  <2>1. Faultless
    BY <1>1, <1>4 DEF Sound
  <2>2. call \in Live /\ call' \in Live /\ call' # "failed"
    BY <1>1, <1>2, <2>1 DEF Faultless, Live
  <2> QED BY <1>1, <1>2, <2>1, <2>2 DEF Faultless, Alive
<1> QED BY <1>1, <1>3, <1>4 DEF Sound

LEMMA CollectClosedKeepsSound ==
  ASSUME Sound, Cached', CollectClosed, UNCHANGED <<export, header, outcome>>
  PROVE  Sound'
<1>1. /\ call = "drain" /\ call' = "failed" /\ \A w \in DOMAIN worker : ~Alive(w)
      /\ UNCHANGED <<worker, queue, results, next_worker, batch, spent>>
  BY DEF CollectClosed, threadVars
<1>2. Shaped'
  BY <1>1 DEF Sound, Shaped
<1>3. next_worker \in DOMAIN worker
  BY DEF Sound, Shaped
<1>4. spent # {}
  BY <1>1, <1>3 DEF Sound, Faultless, Live
<1> QED BY <1>1, <1>2, <1>4 DEF Sound

LEMMA ShutdownKeepsSound ==
  ASSUME Sound, Cached', Shutdown
  PROVE  Sound'
<1>1. /\ call' = "joining" /\ (call = "failed" \/ header)
      /\ queue' = [w \in DOMAIN queue |->
                     IF Alive(w) THEN Append(queue[w], Stop) ELSE queue[w]]
      /\ UNCHANGED <<worker, results, next_worker, batch, spent, export, header, outcome>>
  BY DEF Shutdown, StopAll, fileVars
<1>2. ASSUME NEW w \in DOMAIN queue
      PROVE  IsSeq(queue'[w]) /\ \A m \in Range(queue'[w]) : m \in Range(queue[w]) \/ m = Stop
  <2>1. IsSeq(queue[w])
    BY DEF Sound, Shaped
  <2>2. /\ IsSeq(Append(queue[w], Stop))
        /\ \A m \in Range(Append(queue[w], Stop)) : m \in Range(queue[w]) \/ m = Stop
    BY <2>1, Appended
  <2> QED BY <1>1, <2>1, <2>2
<1>3. DOMAIN queue' = DOMAIN queue
  BY <1>1
<1>4. Shaped'
  BY <1>1, <1>2, <1>3 DEF Sound, Shaped
<1>5. ASSUME spent' = {} PROVE Faultless'
  <2>1. Faultless
    BY <1>1, <1>5 DEF Sound
  <2>2. header /\ call' \notin Live /\ call' # "failed"
    BY <1>1, <2>1 DEF Faultless, Live
  <2>3. \A w \in DOMAIN worker : \A m \in Range(queue'[w]) : m = Stop \/ m[2] # {}
    BY <1>2, <2>1 DEF Sound, Shaped, Faultless
  <2> QED BY <1>1, <2>1, <2>2, <2>3 DEF Faultless
<1> QED BY <1>1, <1>4, <1>5 DEF Sound

\* The steps that leave the pool alone: what they do is to the file.
LEMMA OtherStepsKeepSound ==
  ASSUME Sound, Cached',
         UNCHANGED <<threadVars, next_worker, batch, spent, export>>,
         call' = call \/ (call \in Live /\ call' = "idle"),
         header => header',
         outcome' = outcome \/ (call = "joined" /\ (spent = {} => outcome' = "ok"))
  PROVE  Sound'
<1>1. UNCHANGED <<worker, queue, results, next_worker, batch, spent, export>>
  BY DEF threadVars
<1>2. Shaped'
  BY <1>1 DEF Sound, Shaped
<1>3. ASSUME spent' = {} PROVE Faultless'
  <2>1. Faultless
    BY <1>1, <1>3 DEF Sound
  <2>2. call' # "failed" /\ outcome' # "err"
    BY <1>1, <1>3, <2>1 DEF Faultless
  <2>3. /\ call' \in Live => call \in Live
        /\ call' \notin Live => header'
    BY <2>1 DEF Faultless, Live
  <2> QED BY <1>1, <2>1, <2>2, <2>3 DEF Faultless, Alive
<1> QED BY <1>1, <1>2, <1>3 DEF Sound, Live, Alive

LEMMA FinishKeepsSound ==
  ASSUME Sound, Cached', Finish
  PROVE  Sound'
<1>1. /\ call = "joined" /\ call' = call /\ header' = header
      /\ outcome' = IF header /\ \A w \in DOMAIN worker : worker[w] = "returned"
                    THEN "ok" ELSE "err"
      /\ UNCHANGED <<threadVars, next_worker, batch, spent, export>>
  BY DEF Finish, poolVars, callVars, fileVars
<1>2. spent = {} => outcome' = "ok"
  <2> SUFFICES ASSUME spent = {} PROVE outcome' = "ok"
    OBVIOUS
  <2>1. Faultless /\ header
    BY <1>1 DEF Sound, Faultless, Live
  <2>2. \A w \in DOMAIN worker : worker[w] = "returned"
    BY <1>1, <2>1 DEF Sound, Shaped, Faultless, Alive, ThreadState
  <2> QED BY <1>1, <2>1, <2>2
<1> QED BY <1>1, <1>2, OtherStepsKeepSound

LEMMA StepsKeepSound ==
  Sound /\ [Next]_vars => Sound'
<1> SUFFICES ASSUME Sound, [Next]_vars PROVE Sound'
  OBVIOUS
<1>1. Cached'
  BY StepsKeepCached DEF Sound
<1>2. CASE Descend
  <2>1. /\ UNCHANGED <<threadVars, next_worker, batch, spent, export>>
        /\ call' = call /\ header' = header /\ outcome' = outcome
    BY <1>2 DEF Descend, poolVars, callVars, fileVars
  <2> QED BY <1>1, <2>1, OtherStepsKeepSound
<1>3. CASE \E block \in {Frame[1]} : SourcePath(block)
  BY <1>3, SourcePathKeepsSound
<1>4. CASE \E block \in {Frame[1]} : ReducePath(block)
  BY <1>4, ReducePathKeepsSound
<1>5. CASE FinishBlock
  <2>1. /\ UNCHANGED <<threadVars, next_worker, batch, spent, export>>
        /\ call \in Live /\ call' = "idle" /\ header' = header /\ outcome' = outcome
    BY <1>5 DEF FinishBlock, Live
  <2> QED BY <1>1, <2>1, OtherStepsKeepSound
<1>6. CASE Finish
  BY <1>1, <1>6, FinishKeepsSound
<1>7. CASE Seal
  <2>1. /\ UNCHANGED <<threadVars, next_worker, batch, spent, export>>
        /\ call' = call /\ header' = TRUE /\ outcome' = outcome
    BY <1>7 DEF Seal, poolVars, callVars
  <2> QED BY <1>1, <2>1, OtherStepsKeepSound
<1>8. CASE Shutdown
  BY <1>1, <1>8, ShutdownKeepsSound
<1>9. CASE Join
  <2>1. /\ call = "joining" /\ call' = "joined" /\ \A w \in DOMAIN worker : ~Alive(w)
        /\ UNCHANGED <<worker, queue, results, next_worker, batch, spent, export,
                       header, outcome>>
    BY <1>9 DEF Join, JoinAll, threadVars, fileVars
  <2>2. Shaped'
    BY <2>1 DEF Sound, Shaped
  <2>3. spent' = {} => Faultless'
    BY <2>1 DEF Sound, Faultless, Live, Alive
  <2> QED BY <1>1, <2>1, <2>2, <2>3 DEF Sound, Alive
<1>10. CASE /\ Dispatch \/ Collect \/ CollectClosed
            /\ UNCHANGED <<export, stack, raw_cache, fileVars, outcome>>
  <2>1. UNCHANGED <<export, header, outcome>>
    BY <1>10 DEF fileVars
  <2> QED BY <1>1, <1>10, <2>1, DispatchKeepsSound, CollectKeepsSound,
             CollectClosedKeepsSound
<1>11. CASE \E w \in DOMAIN worker : Work(w) \/ Fail(w)
  BY <1>11, ThreadStepsKeepSound
<1>12. CASE UNCHANGED vars
  <2>1. /\ UNCHANGED <<threadVars, next_worker, batch, spent, export>>
        /\ call' = call /\ header' = header /\ outcome' = outcome
    BY <1>12 DEF vars, poolVars, callVars, fileVars
  <2> QED BY <1>1, <2>1, OtherStepsKeepSound
<1> QED BY <1>2, <1>3, <1>4, <1>5, <1>6, <1>7, <1>8, <1>9, <1>10, <1>11, <1>12
        DEF Next, Orchestrate

\* Without a fault of the source or of a thread no fan-out fails and no export
\* ends in an error: handle_reduce gets no empty job, no job goes to a thread
\* that is gone, and no thread is told to stop before the archive is complete
\* (the [] part of ExportEnds; worker_pool.rs, orchestrator.rs).
THEOREM OnlyFaultsFailExports ==
  Spec => []OnlyFaultsFail
<1>1. Init => Sound
  BY ExportsBeginSound
<1>2. Sound /\ [Next]_vars => Sound'
  BY StepsKeepSound
<1>3. Sound => OnlyFaultsFail
  BY DEF Sound, Faultless, OnlyFaultsFail
<1> QED BY <1>1, <1>2, <1>3, PTL DEF Spec

-----------------------------------------------------------------------------
(* What a tile shows, and where it is kept.                                *)

\* An axis of a tile: the block that block_for names, and how far into it the
\* tile is.
LEMMA PlaceAlongAnAxis ==
  ASSUME NEW e \in Exports, NEW z \in 0 .. e.zoom, NEW a \in 1 .. 2,
         NEW t \in Lo(e, z, a) .. Hi(e, z, a)
  PROVE  LET lo == Lo(e, z, a)
             k  == (t - lo) \div BLOCK_W
         IN  /\ k \in 0 .. BlockCount(lo, Hi(e, z, a)) - 1
             /\ Extent(k, lo, Hi(e, z, a)) \in Nat \ {0}
             /\ (t - lo) % BLOCK_W \in 0 .. Extent(k, lo, Hi(e, z, a)) - 1
             /\ Origin(k, lo) + ((t - lo) % BLOCK_W) = t
<1> DEFINE lo == Lo(e, z, a)
           hi == Hi(e, z, a)
           k == (t - lo) \div BLOCK_W
           r == (t - lo) % BLOCK_W
           w == Extent(k, lo, hi)
<1>1. lo \in Nat /\ hi \in Nat /\ lo <= hi
  BY Levels
<1>2. t \in lo .. hi
  OBVIOUS
<1> HIDE DEF lo, hi
<1>3. /\ k \in 0 .. BlockCount(lo, hi) - 1
      /\ t \in Origin(k, lo) .. (Origin(k, lo) + w - 1)
  BY <1>1, <1>2, TileIsInItsBlock DEF BlockOf, TilesOf
<1>4. w \in Nat \ {0}
  BY <1>1, <1>3, ExtentIsPositive
<1>5. t - lo \in Nat
  BY <1>1, <1>2
<1>6. k \in Nat /\ r \in Nat /\ t - lo = BLOCK_W * k + r
  <2> DEFINE d == t - lo
  <2>1. d \in Nat
    BY <1>5
  <2> HIDE DEF d
  <2>2. /\ d \div BLOCK_W \in Nat /\ d % BLOCK_W \in 0 .. BLOCK_W - 1
        /\ d = BLOCK_W * (d \div BLOCK_W) + (d % BLOCK_W)
    BY <2>1, Remainder, BlockWAssumption
  <2>3. d % BLOCK_W \in Nat
    BY <2>2, BlockWAssumption
  <2> QED BY <2>2, <2>3 DEF d
<1>7. Origin(k, lo) = lo + BLOCK_W * k /\ BLOCK_W * k \in Nat
  BY <1>1, <1>6, BlockWAssumption DEF Origin
<1> HIDE DEF k, r, w
<1> DEFINE m == BLOCK_W * k
<1>8. Origin(k, lo) = lo + m /\ m \in Nat /\ t - lo = m + r
  BY <1>6, <1>7
<1> HIDE DEF m
<1>9. Origin(k, lo) + r = t /\ r \in 0 .. w - 1
  BY <1>1, <1>2, <1>3, <1>4, <1>6, <1>8
<1> QED BY <1>3, <1>4, <1>9 DEF k, r, w, lo, hi

\* The slot of a tile: block_for, against the order of the slots.
LEMMA TilesHaveSlots ==
  ASSUME NEW e \in Exports, NEW z \in 0 .. e.zoom, NEW tile \in LevelTiles(e, z)
  PROVE  LET at == BlockFor(e, tile) IN
           /\ at.block \in LevelBlocks(e, z)
           /\ at.slot \in DOMAIN Slots(e, at.block)
           /\ Slots(e, at.block)[at.slot] = tile
<1> DEFINE lo(a) == Lo(e, z, a)
           hi(a) == Hi(e, z, a)
           k(a) == (tile[a + 1] - lo(a)) \div BLOCK_W
           r(a) == (tile[a + 1] - lo(a)) % BLOCK_W
           block == <<z, k(1), k(2)>>
           w == Extent(k(1), lo(1), hi(1))
           h == Extent(k(2), lo(2), hi(2))
           n == r(2) * w + r(1)
<1>1. PICK tx \in lo(1) .. hi(1), ty \in lo(2) .. hi(2) : tile = <<z, tx, ty>>
  BY DEF LevelTiles
<1>2. tile[1] = z /\ tile[2] = tx /\ tile[3] = ty
  BY <1>1
<1>3. /\ k(1) = (tx - lo(1)) \div BLOCK_W /\ r(1) = (tx - lo(1)) % BLOCK_W
      /\ k(2) = (ty - lo(2)) \div BLOCK_W /\ r(2) = (ty - lo(2)) % BLOCK_W
  BY <1>2
<1>4. /\ k(1) \in 0 .. BlockCount(lo(1), hi(1)) - 1
      /\ w \in Nat \ {0} /\ r(1) \in 0 .. w - 1
      /\ Origin(k(1), lo(1)) + r(1) = tx
  BY <1>3, PlaceAlongAnAxis
<1>5. /\ k(2) \in 0 .. BlockCount(lo(2), hi(2)) - 1
      /\ h \in Nat \ {0} /\ r(2) \in 0 .. h - 1
      /\ Origin(k(2), lo(2)) + r(2) = ty
  BY <1>3, PlaceAlongAnAxis
<1>6. block \in LevelBlocks(e, z)
  BY <1>4, <1>5 DEF LevelBlocks
<1>7. Side(e, block, 1) = w /\ Side(e, block, 2) = h
  BY DEF Side
<1>8. BlockFor(e, tile) = [block |-> block, slot |-> n + 1]
  <2>1. /\ tile[1 + 1] - Lo(e, z, 1) = tile[2] - lo(1)
        /\ tile[2 + 1] - Lo(e, z, 2) = tile[3] - lo(2)
    OBVIOUS
  <2> QED BY <1>2, <1>7, <2>1 DEF BlockFor
<1>9. Slots(e, block) =
        [i \in 1 .. w * h |-> <<z, Origin(k(1), lo(1)) + ((i - 1) % w),
                                   Origin(k(2), lo(2)) + ((i - 1) \div w)>>]
  BY <1>7 DEF Slots
<1>10. PICK m \in 0 .. w * h - 1 : m % w = r(1) /\ m \div w = r(2)
  <2> HIDE DEF w, h, r
  <2>1. \A x \in 0 .. w - 1, y \in 0 .. h - 1 :
          \E m \in 0 .. w * h - 1 : m % w = x /\ m \div w = y
    BY <1>4, <1>5, Cells, Zenon
  <2> QED BY <1>4, <1>5, <2>1, Zenon
<1>11. w * h \in Nat
  BY <1>4, <1>5
<1> HIDE DEF w, h, r, k, lo, hi
<1>12. m = w * r(2) + r(1) /\ r(2) \in Nat /\ r(1) \in Nat
  <2>1. m \in Nat
    BY <1>11
  <2>2. w \in Nat \ {0} /\ r(1) \in 0 .. w - 1 /\ r(2) \in 0 .. h - 1
    BY <1>4, <1>5
  <2>3. /\ m \div w \in Nat /\ m % w \in 0 .. w - 1
        /\ m = w * (m \div w) + (m % w)
    BY <2>1, <2>2, Remainder
  <2> QED BY <1>10, <2>2, <2>3
<1>13. n = m
  BY <1>4, <1>12
<1>14. n + 1 \in 1 .. w * h /\ (n + 1) - 1 = m
  BY <1>11, <1>13
<1> HIDE DEF n
<1>15. Slots(e, block)[n + 1] = tile
  BY <1>1, <1>4, <1>5, <1>9, <1>10, <1>14
<1>16. n + 1 \in DOMAIN Slots(e, block)
  BY <1>9, <1>14
<1> QED BY <1>6, <1>8, <1>15, <1>16

\* Along one axis: the tile over a leaf in the level z + 1, and in level z.
LEMMA LeavesAlongAnAxis ==
  ASSUME NEW e \in Exports, NEW z \in 0 .. e.zoom, z < e.zoom, NEW a \in 1 .. 2,
         NEW m \in Lo(e, e.zoom, a) .. Hi(e, e.zoom, a)
  PROVE  LET q == m \div 2^(e.zoom - (z + 1)) IN
           /\ q \in Nat /\ q \in Lo(e, z + 1, a) .. Hi(e, z + 1, a)
           /\ m \div 2^(e.zoom - z) = q \div 2
<1> DEFINE n == e.zoom - (z + 1)
           p == 2^n
           lo == e.min[a]
           hi == e.max[a]
<1>1. e.zoom \in 0 .. MAX_WEB_MERCATOR_TREE_ZOOM /\ z \in Nat /\ e.zoom \in Nat
  BY ExportsAssumption
<1>2. /\ n \in 0 .. MAX_WEB_MERCATOR_TREE_ZOOM /\ n + 1 = e.zoom - z
      /\ n \in 0 .. MAX_WEB_MERCATOR_TREE_ZOOM - 1
  BY <1>1 DEF MAX_WEB_MERCATOR_TREE_ZOOM
<1>3. e.zoom \in 0 .. e.zoom /\ e.zoom - e.zoom = 0
  BY <1>1
<1>4. /\ Lo(e, e.zoom, a) \in Nat /\ Hi(e, e.zoom, a) \in Nat
  BY <1>3, Levels
<1>5. /\ {lo, hi} \subseteq 0 .. 2^e.zoom - 1
  BY ExportsAssumption
<1>6. 2^e.zoom \in Nat
  BY <1>1, Powers
<1>7. lo \in Nat /\ hi \in Nat
  <2> DEFINE t == 2^e.zoom
  <2>1. t \in Nat /\ {lo, hi} \subseteq 0 .. t - 1
    BY <1>5, <1>6
  <2> HIDE DEF t, lo, hi
  <2> QED BY <2>1
<1>8. Lo(e, e.zoom, a) = lo \div 2^0 /\ Hi(e, e.zoom, a) = hi \div 2^0
  BY <1>3 DEF Lo, Hi
<1>9. 2^0 = 1
  OBVIOUS
<1>10. Lo(e, e.zoom, a) = lo /\ Hi(e, e.zoom, a) = hi
  <2> HIDE DEF lo, hi
  <2> QED BY <1>7, <1>8, <1>9
<1>11. m \in Nat /\ lo <= m /\ m <= hi
  BY <1>4, <1>7, <1>10
<1>12. Lo(e, z + 1, a) = lo \div p /\ Hi(e, z + 1, a) = hi \div p
  BY DEF Lo, Hi
<1> HIDE DEF lo, hi, n
<1>13. p \in Nat \ {0} /\ 2^(n + 1) = 2 * p
  BY <1>2, Powers
<1> HIDE DEF p
<1>14. /\ m \div p \in Nat /\ lo \div p \in Nat /\ hi \div p \in Nat
  BY <1>7, <1>11, <1>13, Remainder
<1>15. lo \div p <= m \div p /\ m \div p <= hi \div p
  BY <1>7, <1>11, <1>13, QuotientsGrow
<1>16. m \div 2^(e.zoom - z) = (m \div p) \div 2
  <2>1. m \div (2 * p) = (m \div p) \div 2
    BY <1>11, <1>13, Halving
  <2> QED BY <1>2, <1>13, <2>1
<1> QED BY <1>12, <1>14, <1>15, <1>16 DEF p, n

\* What a tile of an export has to show.
ShownOf(e, tile) ==
  LET d == 2^(e.zoom - tile[1]) IN
    {leaf \in LevelTiles(e, e.zoom) \ e.blank :
       leaf[2] \div d = tile[2] /\ leaf[3] \div d = tile[3]}

\* A tile's children in the level below it.
Kids(e, tile) ==
  {<<tile[1] + 1, 2 * tile[2] + dx, 2 * tile[3] + dy>> : dx, dy \in 0..1}
    \intersect LevelTiles(e, tile[1] + 1)

\* A tile shows what its kids show: every leaf under it is under one of them.
LEMMA TilesShowTheirKids ==
  ASSUME NEW e \in Exports, NEW z \in 0 .. e.zoom, z < e.zoom,
         NEW tile \in LevelTiles(e, z)
  PROVE  ShownOf(e, tile) = UNION {ShownOf(e, t) : t \in Kids(e, tile)}
<1> DEFINE leaves == LevelTiles(e, e.zoom)
           d == 2^(e.zoom - z)
           p == 2^(e.zoom - (z + 1))
<1>1. PICK tx \in Lo(e, z, 1) .. Hi(e, z, 1), ty \in Lo(e, z, 2) .. Hi(e, z, 2) :
         tile = <<z, tx, ty>>
  BY DEF LevelTiles
<1>2. z \in Nat /\ tx \in Nat /\ ty \in Nat
  <2>1. /\ Lo(e, z, 1) \in Nat /\ Hi(e, z, 1) \in Nat
        /\ Lo(e, z, 2) \in Nat /\ Hi(e, z, 2) \in Nat
    BY Levels
  <2> QED BY <2>1, ExportsAssumption
<1>3. ASSUME NEW leaf \in leaves
      PROVE  /\ leaf[2] \div p \in Nat /\ leaf[3] \div p \in Nat
             /\ leaf[2] \div p \in Lo(e, z + 1, 1) .. Hi(e, z + 1, 1)
             /\ leaf[3] \div p \in Lo(e, z + 1, 2) .. Hi(e, z + 1, 2)
             /\ leaf[2] \div d = (leaf[2] \div p) \div 2
             /\ leaf[3] \div d = (leaf[3] \div p) \div 2
  <2>1. /\ leaf[2] \in Lo(e, e.zoom, 1) .. Hi(e, e.zoom, 1)
        /\ leaf[3] \in Lo(e, e.zoom, 2) .. Hi(e, e.zoom, 2)
    BY DEF LevelTiles
  <2> HIDE DEF leaves
  <2> QED BY <2>1, LeavesAlongAnAxis
<1>4. ShownOf(e, tile) = {leaf \in leaves \ e.blank :
                            leaf[2] \div d = tx /\ leaf[3] \div d = ty}
  BY <1>1 DEF ShownOf
<1>5. \A x, y : ShownOf(e, <<z + 1, x, y>>) =
         {leaf \in leaves \ e.blank : leaf[2] \div p = x /\ leaf[3] \div p = y}
  BY DEF ShownOf
<1>6. Kids(e, tile) = {<<z + 1, 2 * tx + dx, 2 * ty + dy>> : dx, dy \in 0..1}
                        \intersect LevelTiles(e, z + 1)
  BY <1>1 DEF Kids
<1> HIDE DEF leaves, d, p
<1>7. ASSUME NEW leaf \in ShownOf(e, tile)
      PROVE  \E t \in Kids(e, tile) : leaf \in ShownOf(e, t)
  <2> DEFINE x == leaf[2] \div p
             y == leaf[3] \div p
  <2>1. leaf \in leaves \ e.blank /\ leaf[2] \div d = tx /\ leaf[3] \div d = ty
    BY <1>4
  <2>2. /\ x \in Nat /\ y \in Nat /\ x \div 2 = tx /\ y \div 2 = ty
        /\ x \in Lo(e, z + 1, 1) .. Hi(e, z + 1, 1)
        /\ y \in Lo(e, z + 1, 2) .. Hi(e, z + 1, 2)
    BY <1>3, <2>1
  <2>3. leaf \in ShownOf(e, <<z + 1, x, y>>)
    BY <1>5, <2>1
  <2> HIDE DEF x, y
  <2>4. PICK dx \in 0..1, dy \in 0..1 : x = 2 * tx + dx /\ y = 2 * ty + dy
    <3>1. x = 2 * tx + (x % 2) /\ x % 2 \in 0..1 /\ y = 2 * ty + (y % 2) /\ y % 2 \in 0..1
      BY <2>2
    <3> QED BY <3>1
  <2>5. <<z + 1, x, y>> \in LevelTiles(e, z + 1)
    BY <2>2 DEF LevelTiles
  <2>6. <<z + 1, x, y>> \in Kids(e, tile)
    BY <1>6, <2>4, <2>5
  <2> QED BY <2>3, <2>6
<1>8. ASSUME NEW t \in Kids(e, tile), NEW leaf \in ShownOf(e, t)
      PROVE  leaf \in ShownOf(e, tile)
  <2>1. PICK dx \in 0..1, dy \in 0..1 : t = <<z + 1, 2 * tx + dx, 2 * ty + dy>>
    BY <1>6
  <2>2. /\ leaf \in leaves \ e.blank
        /\ leaf[2] \div p = 2 * tx + dx /\ leaf[3] \div p = 2 * ty + dy
    BY <1>5, <2>1
  <2>3. (2 * tx + dx) \div 2 = tx /\ (2 * ty + dy) \div 2 = ty
    BY <1>2
  <2> QED BY <1>3, <1>4, <2>2, <2>3
<1> QED BY <1>7, <1>8

\* The tiles of a block are tiles of its level.
LEMMA SlotsAreInTheLevel ==
  ASSUME NEW e \in Exports, NEW z \in 0 .. e.zoom, NEW block \in LevelBlocks(e, z),
         NEW i \in DOMAIN Slots(e, block)
  PROVE  /\ Slots(e, block)[i] \in LevelTiles(e, z)
         /\ z < e.zoom => \A t \in Kids(e, Slots(e, block)[i]) :
              BlockFor(e, t).block \in Range(ChildrenOf(e, block))
<1>1. PICK tx \in TilesOf(block[2], Lo(e, z, 1), Hi(e, z, 1)),
           ty \in TilesOf(block[3], Lo(e, z, 2), Hi(e, z, 2)) :
             Slots(e, block)[i] = <<z, tx, ty>>
  BY SlotsAreTiles
<1>2. /\ block[2] \in 0 .. BlockCount(Lo(e, z, 1), Hi(e, z, 1)) - 1
      /\ block[3] \in 0 .. BlockCount(Lo(e, z, 2), Hi(e, z, 2)) - 1
  BY DEF LevelBlocks
<1>3. /\ Lo(e, z, 1) \in Nat /\ Hi(e, z, 1) \in Nat /\ Lo(e, z, 1) <= Hi(e, z, 1)
      /\ Lo(e, z, 2) \in Nat /\ Hi(e, z, 2) \in Nat /\ Lo(e, z, 2) <= Hi(e, z, 2)
  BY Levels
<1>4. tx \in Lo(e, z, 1) .. Hi(e, z, 1)
  BY <1>2, <1>3, BlockOwnsItsTiles
<1>5. ty \in Lo(e, z, 2) .. Hi(e, z, 2)
  BY <1>2, <1>3, BlockOwnsItsTiles
<1>6. Slots(e, block)[i] \in LevelTiles(e, z)
  BY <1>1, <1>4, <1>5 DEF LevelTiles
<1>7. ASSUME z < e.zoom, NEW t \in Kids(e, Slots(e, block)[i])
      PROVE  BlockFor(e, t).block \in Range(ChildrenOf(e, block))
  <2>1. PICK dx \in 0..1, dy \in 0..1 :
           /\ t = <<z + 1, 2 * tx + dx, 2 * ty + dy>>
           /\ t \in LevelTiles(e, z + 1)
    BY <1>1 DEF Kids
  <2>2. ChildrenAreHeld(e, z, block, tx, ty)
    BY <1>7, ChildrenOfABlock
  <2> QED BY <2>1, <2>2 DEF ChildrenAreHeld
<1> QED BY <1>6, <1>7

\* Numbers that are not none have a least one.
LEMMA Least ==
  ASSUME NEW S \in SUBSET Nat, S # {}
  PROVE  \E n \in S : \A m \in S : n <= m
<1>1. PICK n \in S : \A m \in S : ~(<<m, n>> \in OpToRel(<, Nat))
  BY NatLessThanWellFounded, WFMin
<1>2. \A m \in S : ~(m < n)
  BY <1>1 DEF OpToRel
<1> QED BY <1>2

-----------------------------------------------------------------------------
(* Payloads.                                                               *)

\* Every fresh slot is one payload more.
LEMMA PayloadsGrow ==
  ASSUME NEW fresh
  PROVE  /\ \A k \in Nat : Payloads(fresh, k) \in Nat
         /\ Payloads(fresh, 0) = 0
         /\ \A k \in Nat \ {0} :
              Payloads(fresh, k) = Payloads(fresh, k - 1) + (IF fresh[k] THEN 1 ELSE 0)
         /\ \A j \in Nat, k \in Nat : j <= k => Payloads(fresh, j) <= Payloads(fresh, k)
<1> DEFINE S(k) == {i \in 1 .. k : fresh[i]}
<1>1. \A k \in Nat : IsFiniteSet(1 .. k)
  BY FS_Interval
<1>2. \A k \in Nat : IsFiniteSet(S(k))
  BY <1>1, FS_Subset
<1>3. \A k \in Nat : Payloads(fresh, k) = Cardinality(S(k))
  BY DEF Payloads
<1>4. \A k \in Nat : Payloads(fresh, k) \in Nat
  BY <1>2, <1>3, FS_CardinalityType
<1>5. Payloads(fresh, 0) = 0
  <2>1. S(0) = {}
    OBVIOUS
  <2> HIDE DEF S
  <2> QED BY <1>3, <2>1, FS_EmptySet
<1>6. ASSUME NEW k \in Nat \ {0}
      PROVE  Payloads(fresh, k) = Payloads(fresh, k - 1) + (IF fresh[k] THEN 1 ELSE 0)
  <2>1. k - 1 \in Nat
    OBVIOUS
  <2>2. CASE fresh[k]
    <3>1. S(k) = S(k - 1) \union {k} /\ k \notin S(k - 1)
      BY <2>2
    <3> HIDE DEF S
    <3>2. Cardinality(S(k)) = Cardinality(S(k - 1)) + 1
      BY <1>2, <2>1, <3>1, FS_AddElement
    <3> QED BY <1>3, <2>1, <2>2, <3>2
  <2>3. CASE ~fresh[k]
    <3>1. S(k) = S(k - 1)
      BY <2>3
    <3> HIDE DEF S
    <3> QED BY <1>3, <1>4, <2>1, <2>3, <3>1
  <2> QED BY <2>2, <2>3
<1>7. ASSUME NEW j \in Nat, NEW k \in Nat, j <= k
      PROVE  Payloads(fresh, j) <= Payloads(fresh, k)
  <2>1. S(j) \subseteq S(k)
    BY <1>7
  <2> HIDE DEF S
  <2>2. Cardinality(S(j)) <= Cardinality(S(k))
    BY <1>2, <2>1, FS_Subset
  <2> QED BY <1>3, <2>2
<1> QED BY <1>4, <1>5, <1>6, <1>7

\* The slots that wrote the k-th payload, of which there is one.
Writers(fresh, n, k) == {i \in 1 .. n : fresh[i] /\ Payloads(fresh, i) = k}

\* The slots that share a payload have the same raw tile: write_block compares
\* with the slot before, and the last fresh one is the first of them.
LEMMA ReusedPayloads ==
  ASSUME NEW n \in Nat \ {0}, NEW raws, DOMAIN raws = 1 .. n,
         NEW fresh, fresh = Fresh(raws), NEW s \in 1 .. n
  PROVE  /\ Payloads(fresh, s) \in 1 .. Payloads(fresh, n)
         /\ Writers(fresh, n, Payloads(fresh, s)) # {}
         /\ \A i \in Writers(fresh, n, Payloads(fresh, s)) : raws[i] = raws[s]
<1> DEFINE P(k) == Payloads(fresh, k)
<1>1. /\ \A k \in Nat : P(k) \in Nat
      /\ P(0) = 0
      /\ \A k \in Nat \ {0} : P(k) = P(k - 1) + (IF fresh[k] THEN 1 ELSE 0)
      /\ \A j \in Nat, k \in Nat : j <= k => P(j) <= P(k)
  BY PayloadsGrow
<1>2. fresh[1] /\ \A i \in 2 .. n : ~fresh[i] => raws[i] = raws[i - 1]
  <2>1. fresh = [i \in 1 .. n |-> i = 1 \/ raws[i] # raws[i - 1]]
    BY DEF Fresh
  <2>2. 1 \in 1 .. n /\ \A i \in 2 .. n : i \in 1 .. n
    OBVIOUS
  <2> QED BY <2>1, <2>2, Zenon
<1> HIDE DEF P
<1>3. P(s) \in 1 .. P(n)
  <2>1. P(1) = 1
    <3>1. 1 \in Nat \ {0} /\ 1 - 1 = 0
      OBVIOUS
    <3>2. P(1) = P(0) + 1
      BY <1>1, <1>2, <3>1
    <3> QED BY <1>1, <3>2
  <2>2. P(1) <= P(s) /\ P(s) <= P(n)
    BY <1>1
  <2> QED BY <1>1, <2>1, <2>2
<1>4. \E i \in 1 .. n : fresh[i] /\ P(i) = P(s)
  <2> DEFINE T == {i \in 1 .. n : P(i) = P(s)}
  <2>1. s \in T /\ T \in SUBSET Nat
    OBVIOUS
  <2>2. PICK i \in T : \A j \in T : i <= j
    BY <2>1, Least
  <2>3. i \in 1 .. n /\ P(i) = P(s)
    OBVIOUS
  <2>4. CASE i = 1
    BY <1>2, <2>3, <2>4
  <2>5. CASE i # 1
    <3>1. i - 1 \in 1 .. n /\ ~(i <= i - 1)
      BY <2>3, <2>5
    <3>2. P(i - 1) # P(s)
      BY <2>2, <3>1
    <3>3. P(i) = P(i - 1) + (IF fresh[i] THEN 1 ELSE 0) /\ P(i - 1) \in Nat
      BY <1>1, <2>3, <3>1
    <3>4. fresh[i]
      BY <2>3, <3>2, <3>3
    <3> QED BY <2>3, <3>4
  <2> QED BY <2>4, <2>5
<1>5. ASSUME NEW i \in 1 .. n, fresh[i], P(i) = P(s)
      PROVE  raws[i] = raws[s]
  <2>1. i <= s
    <3> SUFFICES ASSUME s < i PROVE FALSE
      OBVIOUS
    <3>1. s <= i - 1 /\ i - 1 \in Nat /\ i \in Nat \ {0} /\ s \in Nat
      OBVIOUS
    <3>2. P(s) <= P(i - 1) /\ P(i) = P(i - 1) + 1
      BY <1>1, <1>5, <3>1
    <3> QED BY <1>1, <1>5, <3>1, <3>2
  <2> DEFINE T == {j \in i .. s : raws[j] # raws[i]}
  <2>2. T = {}
    <3> SUFFICES ASSUME T # {} PROVE FALSE
      OBVIOUS
    <3>1. T \in SUBSET Nat
      OBVIOUS
    <3>2. PICK j \in T : \A k \in T : j <= k
      BY <3>1, Least
    <3>3. j \in i .. s /\ raws[j] # raws[i] /\ j # i
      OBVIOUS
    <3>4. j - 1 \in i .. s /\ ~(j <= j - 1) /\ j - 1 \in Nat /\ j \in Nat \ {0}
      BY <3>3
    <3>5. raws[j - 1] = raws[i]
      BY <3>2, <3>4
    <3>6. P(i) <= P(j - 1) /\ P(j) <= P(s)
      BY <1>1, <3>3, <3>4
    <3>7. P(j) = P(j - 1) + (IF fresh[j] THEN 1 ELSE 0) /\ P(j - 1) \in Nat /\ P(s) \in Nat
      BY <1>1, <3>4
    <3>8. ~fresh[j]
      BY <1>5, <3>6, <3>7
    <3>9. j \in 2 .. n
      BY <3>3
    <3> QED BY <1>2, <3>3, <3>5, <3>8, <3>9
  <2>3. s \in i .. s
    BY <2>1
  <2> QED BY <2>2, <2>3
<1> QED BY <1>3, <1>4, <1>5 DEF P, Writers

\* u is s with t behind it.
Joins(s, t, u) ==
  /\ IsSeq(u) /\ Len(s) \in Nat /\ Len(t) \in Nat
  /\ DOMAIN s = 1 .. Len(s) /\ DOMAIN t = 1 .. Len(t)
  /\ DOMAIN u = 1 .. Len(s) + Len(t)
  /\ \A i \in 1 .. Len(s) : u[i] = s[i]
  /\ \A i \in 1 .. Len(t) : u[Len(s) + i] = t[i]

LEMMA Joined ==
  ASSUME NEW s, IsSeq(s), NEW t, IsSeq(t)
  PROVE  Joins(s, t, s \o t)
<1> DEFINE E == Range(s) \union Range(t)
<1>1. s \in Seq(Range(s)) /\ t \in Seq(Range(t))
  BY DEF IsSeq
<1>2. Range(s) \subseteq E /\ Range(t) \subseteq E
  OBVIOUS
<1> HIDE DEF E
<1>3. s \in Seq(E) /\ t \in Seq(E)
  BY <1>1, <1>2, SeqMonotonic
<1>4. /\ s \o t \in Seq(E)
      /\ Len(s \o t) = Len(s) + Len(t)
      /\ \A i \in 1 .. Len(s) + Len(t) :
           (s \o t)[i] = IF i <= Len(s) THEN s[i] ELSE t[i - Len(s)]
  BY <1>3, ConcatProperties
<1>5. /\ Len(s) \in Nat /\ Len(t) \in Nat
      /\ DOMAIN s = 1 .. Len(s) /\ DOMAIN t = 1 .. Len(t)
      /\ DOMAIN (s \o t) = 1 .. Len(s) + Len(t)
  BY <1>3, <1>4, LenProperties
<1>6. IsSeq(s \o t)
  BY <1>4, HoldsOnly
<1> DEFINE l == Len(s)
           m == Len(t)
           all == s \o t
<1>7. l \in Nat /\ m \in Nat
      /\ \A i \in 1 .. l + m : all[i] = IF i <= l THEN s[i] ELSE t[i - l]
  BY <1>4, <1>5
<1> HIDE DEF l, m, all
<1>8. ASSUME NEW i \in 1 .. l PROVE all[i] = s[i]
  BY <1>7
<1>9. ASSUME NEW i \in 1 .. m PROVE all[l + i] = t[i]
  <2>1. l + i \in 1 .. l + m /\ ~(l + i <= l) /\ (l + i) - l = i
    BY <1>7
  <2> QED BY <1>7, <2>1
<1> QED BY <1>5, <1>6, <1>8, <1>9 DEF Joins, l, m, all

\* What write_block writes of a block's raw tiles.
Written(raws, n) ==
  [k \in 1 .. Payloads(Fresh(raws), n) |->
     raws[CHOOSE i \in DOMAIN raws : Fresh(raws)[i] /\ Payloads(Fresh(raws), i) = k]]

\* In all, what was written before is where it was, and every slot leads from
\* the block's base to its raw tile.
FoundAgain(data, all, raws, n) ==
  /\ IsSeq(all)
  /\ \A i \in DOMAIN data : i \in DOMAIN all /\ all[i] = data[i]
  /\ \A s \in 1 .. n :
       /\ Len(data) + Payloads(Fresh(raws), s) \in DOMAIN all
       /\ all[Len(data) + Payloads(Fresh(raws), s)] = raws[s]

\* What a block writes is found again, slot by slot (write_block, and
\* walk_size_stream).
LEMMA BlocksReadBack ==
  ASSUME NEW data, IsSeq(data), NEW n \in Nat \ {0}, NEW raws, DOMAIN raws = 1 .. n
  PROVE  FoundAgain(data, data \o Written(raws, n), raws, n)
<1>0. PICK fresh, written : fresh = Fresh(raws) /\ written = Written(raws, n)
  OBVIOUS
<1> DEFINE P(k) == Payloads(fresh, k)
           m == P(n)
<1>1. \A s \in 1 .. n :
        /\ P(s) \in 1 .. P(n)
        /\ Writers(fresh, n, P(s)) # {}
        /\ \A i \in Writers(fresh, n, P(s)) : raws[i] = raws[s]
  BY <1>0, ReusedPayloads
<1>2. P(n) \in Nat
  BY PayloadsGrow
<1>3. /\ written = [k \in 1 .. m |-> written[k]]
      /\ \A k \in 1 .. m : written[k] = raws[CHOOSE i \in 1 .. n : fresh[i] /\ P(i) = k]
  BY <1>0 DEF Written
<1> HIDE DEF P
<1>4. m \in Nat \ {0}
  BY <1>1, <1>2
<1>5. ASSUME NEW s \in 1 .. n
      PROVE  P(s) \in 1 .. m /\ written[P(s)] = raws[s]
  <2> DEFINE i == CHOOSE i \in 1 .. n : fresh[i] /\ P(i) = P(s)
  <2>1. i \in Writers(fresh, n, P(s))
    BY <1>1 DEF Writers, P
  <2>2. P(s) \in 1 .. m
    BY <1>1
  <2> HIDE DEF m
  <2>3. written[P(s)] = raws[i]
    BY <1>3, <2>2
  <2> HIDE DEF i
  <2> QED BY <1>1, <2>1, <2>2, <2>3
<1> HIDE DEF m
<1>6. IsSeq(written)
  BY <1>3, <1>4, Batches DEF IsSeq
<1>7. DOMAIN written = 1 .. m
  BY <1>3
<1> DEFINE all == data \o written
<1> HIDE DEF all
<1>8. Joins(data, written, all)
  BY <1>6, Joined DEF all
<1> DEFINE l == Len(data)
           w == Len(written)
<1> HIDE DEF l, w
<1>9. /\ l \in Nat /\ w \in Nat /\ DOMAIN data = 1 .. l /\ 1 .. m = 1 .. w
      /\ DOMAIN all = 1 .. l + w
      /\ \A i \in 1 .. l : all[i] = data[i]
      /\ \A i \in 1 .. w : all[l + i] = written[i]
  BY <1>7, <1>8 DEF Joins, l, w
<1>10. ASSUME NEW i \in DOMAIN data PROVE i \in DOMAIN all /\ all[i] = data[i]
  BY <1>9
<1>11. ASSUME NEW s \in 1 .. n
       PROVE  l + P(s) \in DOMAIN all /\ all[l + P(s)] = raws[s]
  <2>1. P(s) \in 1 .. w /\ written[P(s)] = raws[s]
    BY <1>5, <1>9
  <2>2. l + P(s) \in 1 .. l + w
    BY <1>9, <2>1
  <2> QED BY <1>9, <2>1, <2>2
<1> QED BY <1>0, <1>8, <1>10, <1>11 DEF FoundAgain, Joins, P, all, l

-----------------------------------------------------------------------------
(* Channels, and the answers in slot order.                                *)

\* The slots of what a channel holds.
Held(s) == {s[i][1] : i \in {j \in DOMAIN s : s[j] # <<>>}}

\* No slot twice in a channel; Stop and Error are of no slot.
Apart(s) ==
  \A i, j \in DOMAIN s : s[i] # <<>> /\ s[j] # <<>> /\ s[i][1] = s[j][1] => i = j

\* In the order of the slots, and without an error: what drain returns.
Ascending(s) ==
  /\ \A i \in DOMAIN s : s[i] # <<>>
  /\ \A i, j \in DOMAIN s : i < j => s[i][1] < s[j][1]

\* What goes behind the others in a channel.
LEMMA ApartAppended ==
  ASSUME NEW s, IsSeq(s), Apart(s), NEW x, x # <<>> => x[1] \notin Held(s)
  PROVE  /\ Apart(Append(s, x))
         /\ \A y \in Held(Append(s, x)) : y \in Held(s) \/ (x # <<>> /\ y = x[1])
<1> DEFINE S == Range(s) \union {x}
           n == Len(s)
           t == Append(s, x)
<1>1. s \in Seq(S) /\ x \in S
  BY SeqMonotonic DEF IsSeq
<1> HIDE DEF S
<1>2. /\ t \in Seq(S) /\ Len(t) = n + 1 /\ n \in Nat
      /\ \A i \in 1 .. n : t[i] = s[i]
      /\ t[n + 1] = x
      /\ DOMAIN s = 1 .. n /\ DOMAIN t = 1 .. n + 1
  BY <1>1, AppendProperties, LenProperties
<1> HIDE DEF n, t
<1>3. \A i \in 1 .. n + 1 : (i \in 1 .. n /\ t[i] = s[i]) \/ (i = n + 1 /\ t[i] = x)
  BY <1>2
<1>4. \A i \in 1 .. n : s[i] # <<>> => s[i][1] \in Held(s)
  BY <1>2 DEF Held
<1>5. Apart(t)
  <2> SUFFICES ASSUME NEW i \in 1 .. n + 1, NEW j \in 1 .. n + 1,
                      t[i] # <<>>, t[j] # <<>>, t[i][1] = t[j][1]
               PROVE  i = j
    BY <1>2 DEF Apart
  <2>1. CASE i \in 1 .. n /\ j \in 1 .. n
    BY <1>2, <2>1 DEF Apart
  <2>2. CASE i = n + 1 /\ j = n + 1
    BY <2>2
  <2>3. CASE i \in 1 .. n /\ j = n + 1
    BY <1>2, <1>4, <2>3
  <2>4. CASE i = n + 1 /\ j \in 1 .. n
    BY <1>2, <1>4, <2>4
  <2> QED BY <1>3, <2>1, <2>2, <2>3, <2>4
<1>6. \A y \in Held(t) : y \in Held(s) \/ (x # <<>> /\ y = x[1])
  <2> SUFFICES ASSUME NEW i \in 1 .. n + 1, t[i] # <<>>
               PROVE  t[i][1] \in Held(s) \/ (x # <<>> /\ t[i][1] = x[1])
    BY <1>2 DEF Held
  <2> QED BY <1>3, <1>4
<1> QED BY <1>5, <1>6 DEF t

\* What is left of a channel.
LEMMA ApartConsumed ==
  ASSUME NEW s, IsSeq(s), Apart(s), s # <<>>
  PROVE  /\ Apart(Tail(s)) /\ Held(Tail(s)) \subseteq Held(s)
         /\ Head(s) # <<>> => Head(s)[1] \in Held(s) /\ Head(s)[1] \notin Held(Tail(s))
<1> DEFINE S == Range(s)
           n == Len(s)
           t == Tail(s)
<1>1. s \in Seq(S)
  BY DEF IsSeq
<1> HIDE DEF S
<1>2. /\ n \in Nat \ {0} /\ DOMAIN s = 1 .. n /\ DOMAIN t = 1 .. n - 1
      /\ Head(s) = s[1] /\ \A i \in 1 .. n - 1 : t[i] = s[i + 1]
  BY <1>1
<1> HIDE DEF n, t
<1>3. \A i \in 1 .. n - 1 : i + 1 \in DOMAIN s /\ t[i] = s[i + 1]
  BY <1>2
<1>4. 1 \in DOMAIN s
  BY <1>2
<1>5. Apart(t)
  <2> SUFFICES ASSUME NEW i \in 1 .. n - 1, NEW j \in 1 .. n - 1,
                      t[i] # <<>>, t[j] # <<>>, t[i][1] = t[j][1]
               PROVE  i = j
    BY <1>2 DEF Apart
  <2>1. i + 1 = j + 1
    BY <1>3 DEF Apart
  <2> QED BY <2>1
<1>6. Held(t) \subseteq Held(s)
  BY <1>2, <1>3 DEF Held
<1>7. ASSUME Head(s) # <<>> PROVE Head(s)[1] \in Held(s) /\ Head(s)[1] \notin Held(t)
  <2>1. Head(s)[1] \in Held(s)
    BY <1>2, <1>4, <1>7 DEF Held
  <2>2. ASSUME NEW i \in 1 .. n - 1, t[i] # <<>>, t[i][1] = s[1][1] PROVE FALSE
    <3>1. i + 1 = 1
      BY <1>2, <1>3, <1>4, <1>7, <2>2 DEF Apart
    <3> QED BY <3>1
  <2>3. Head(s)[1] \notin Held(t)
    BY <1>2, <2>2 DEF Held
  <2> QED BY <2>1, <2>3
<1> QED BY <1>5, <1>6, <1>7 DEF t

\* drain's sort: an answer finds its place among those of the other slots.
Placed(s, x, t) ==
  /\ IsSeq(t) /\ Ascending(t) /\ Len(t) = Len(s) + 1 /\ Len(s) \in Nat
  /\ DOMAIN t = 1 .. Len(s) + 1
  /\ Range(t) = Range(s) \union {x}

\* An answer goes behind those of lower slots and before those of higher ones.
LEMMA PutInOrder ==
  ASSUME NEW s, IsSeq(s), Ascending(s), NEW x, x # <<>>, x[1] \in Nat,
         \A i \in DOMAIN s : s[i][1] \in Nat /\ s[i][1] # x[1]
  PROVE  Placed(s, x, InSlotOrder(s, x))
<1> DEFINE S == Range(s) \union {x}
           n == Len(s)
           before == {i \in 1 .. n : s[i][1] <= x[1]}
<1>1. s \in Seq(S) /\ x \in S
  BY SeqMonotonic DEF IsSeq
<1>2. n \in Nat /\ DOMAIN s = 1 .. n /\ \A i \in 1 .. n : s[i] \in S
  BY <1>1
<1> HIDE DEF S, n
<1>3. PICK k \in 0 .. n : before = 1 .. k
  <2> DEFINE after == {i \in 1 .. n : x[1] < s[i][1]}
  <2>1. CASE after = {}
    <3>1. before = 1 .. n
      BY <1>2, <2>1
    <3> HIDE DEF before
    <3> QED BY <1>2, <3>1
  <2>2. CASE after # {}
    <3>1. after \in SUBSET Nat
      BY <1>2
    <3>2. PICK i \in after : \A j \in after : i <= j
      BY <2>2, <3>1, Least
    <3>3. i \in 1 .. n /\ x[1] < s[i][1]
      OBVIOUS
    <3>4. ASSUME NEW j \in 1 .. n PROVE j \in before <=> j \in 1 .. i - 1
      <4>1. j < i => j \notin after
        BY <1>2, <3>2, <3>3
      <4>2. i < j => s[i][1] < s[j][1]
        BY <1>2, <3>3 DEF Ascending
      <4> QED BY <1>2, <3>3, <4>1, <4>2
    <3>5. before = 1 .. i - 1
      BY <1>2, <3>3, <3>4
    <3> HIDE DEF before
    <3> QED BY <1>2, <3>3, <3>5
  <2> QED BY <2>1, <2>2
<1>4. Cardinality(before) = k
  <2>1. Cardinality(1 .. k) = IF 1 <= k THEN k - 1 + 1 ELSE 0
    BY <1>2, FS_Interval
  <2> HIDE DEF before
  <2> QED BY <1>2, <1>3, <2>1
<1> DEFINE p == SubSeq(s, 1, k)
           q == SubSeq(s, k + 1, n)
           u == p \o <<x>>
           t == u \o q
<1>5. InSlotOrder(s, x) = t
  <2>1. (k + 1) - 1 = k /\ DOMAIN s = 1 .. n
    BY <1>2
  <2>2. InSlotOrder(s, x) = InsertAt(s, Cardinality(before) + 1, x)
    BY <1>2 DEF InSlotOrder
  <2> HIDE DEF before
  <2>3. InSlotOrder(s, x) = InsertAt(s, k + 1, x)
    BY <1>4, <2>2
  <2>4. InsertAt(s, k + 1, x) = SubSeq(s, 1, (k + 1) - 1) \o <<x>> \o SubSeq(s, k + 1, Len(s))
    BY Zenon DEF InsertAt
  <2>5. SubSeq(s, 1, (k + 1) - 1) = SubSeq(s, 1, k)
    BY <2>1, Zenon
  <2> QED BY <2>3, <2>4, <2>5, Zenon DEF n
<1>6. /\ \A i \in 1 .. k : s[i][1] < x[1]
      /\ \A i \in k + 1 .. n : x[1] < s[i][1]
  <2>1. \A i \in 1 .. k : i \in before /\ i \in 1 .. n
    BY <1>2, <1>3
  <2>2. \A i \in k + 1 .. n : i \notin before /\ i \in 1 .. n
    BY <1>2, <1>3
  <2> QED BY <1>2, <2>1, <2>2
<1> HIDE DEF before
<1>7. p \in Seq(S) /\ Len(p) = k /\ \A i \in 1 .. k : p[i] = s[i]
  <2>1. \A i \in 1 .. k : s[i] \in S
    BY <1>2
  <2>2. /\ SubSeq(s, 1, k) \in Seq(S)
        /\ Len(SubSeq(s, 1, k)) = IF 1 <= k THEN k - 1 + 1 ELSE 0
        /\ \A i \in 1 .. k - 1 + 1 : SubSeq(s, 1, k)[i] = s[1 + i - 1]
    BY <1>2, <2>1, SubSeqProperties
  <2> QED BY <1>2, <2>2
<1>8. q \in Seq(S) /\ Len(q) = n - k /\ \A i \in 1 .. n - k : q[i] = s[k + i]
  <2>1. \A i \in k + 1 .. n : s[i] \in S
    BY <1>2
  <2>2. /\ SubSeq(s, k + 1, n) \in Seq(S)
        /\ Len(SubSeq(s, k + 1, n)) = IF k + 1 <= n THEN n - (k + 1) + 1 ELSE 0
        /\ \A i \in 1 .. n - (k + 1) + 1 : SubSeq(s, k + 1, n)[i] = s[k + 1 + i - 1]
    BY <1>2, <2>1, SubSeqProperties
  <2> QED BY <1>2, <2>2
<1> HIDE DEF p, q
<1>9. u \in Seq(S) /\ Len(u) = k + 1 /\ u[k + 1] = x /\ \A i \in 1 .. k : u[i] = s[i]
  <2>1. u = Append(p, x)
    BY <1>1, <1>7, AppendIsConcat
  <2>2. /\ Append(p, x) \in Seq(S) /\ Len(Append(p, x)) = Len(p) + 1
        /\ \A i \in 1 .. Len(p) : Append(p, x)[i] = p[i]
        /\ Append(p, x)[Len(p) + 1] = x
    BY <1>1, <1>7, AppendProperties
  <2> QED BY <1>7, <2>1, <2>2
<1> HIDE DEF u, t
<1>10. /\ t \in Seq(S) /\ Len(t) = Len(u) + Len(q)
       /\ \A i \in 1 .. Len(u) + Len(q) : t[i] = IF i <= Len(u) THEN u[i] ELSE q[i - Len(u)]
  <2>1. u \in Seq(S) /\ q \in Seq(S)
    BY <1>8, <1>9
  <2>2. /\ u \o q \in Seq(S) /\ Len(u \o q) = Len(u) + Len(q)
        /\ \A i \in 1 .. Len(u) + Len(q) :
             (u \o q)[i] = IF i <= Len(u) THEN u[i] ELSE q[i - Len(u)]
    BY <2>1, ConcatProperties
  <2> QED BY <2>2, Zenon DEF t
<1>11. Len(t) = n + 1 /\ DOMAIN t = 1 .. n + 1
  <2>1. Len(u) + Len(q) = n + 1
    BY <1>2, <1>8, <1>9
  <2> QED BY <1>10, <2>1, LenProperties
<1>12. /\ \A i \in 1 .. k : t[i] = s[i]
       /\ t[k + 1] = x
       /\ \A i \in k + 2 .. n + 1 : t[i] = s[i - 1]
  <2>1. \A i \in 1 .. n + 1 : t[i] = IF i <= k + 1 THEN u[i] ELSE q[i - (k + 1)]
    BY <1>2, <1>8, <1>9, <1>10
  <2>2. ASSUME NEW i \in k + 2 .. n + 1 PROVE t[i] = s[i - 1]
    <3>1. i \in 1 .. n + 1 /\ ~(i <= k + 1) /\ i - (k + 1) \in 1 .. n - k
          /\ k + (i - (k + 1)) = i - 1
      BY <1>2
    <3> QED BY <1>8, <2>1, <3>1
  <2> QED BY <1>2, <1>9, <2>1, <2>2
<1>13. \A i \in 1 .. n + 1 : i \in 1 .. k \/ i = k + 1 \/ i \in k + 2 .. n + 1
  BY <1>2
<1>14. Ascending(t)
  <2>1. ASSUME NEW i \in 1 .. n + 1 PROVE t[i] # <<>>
    <3>0. \A j \in 1 .. n : s[j] # <<>>
      BY <1>2 DEF Ascending
    <3>1. CASE i \in 1 .. k
      <4>1. i \in 1 .. n
        BY <1>2, <3>1
      <4> QED BY <1>12, <3>0, <3>1, <4>1
    <3>2. CASE i = k + 1
      BY <1>12, <3>2
    <3>3. CASE i \in k + 2 .. n + 1
      <4>1. i - 1 \in 1 .. n
        BY <1>2, <3>3
      <4> QED BY <1>12, <3>0, <3>3, <4>1
    <3> QED BY <1>13, <3>1, <3>2, <3>3
  <2>2. ASSUME NEW i \in 1 .. n + 1, NEW j \in 1 .. n + 1, i < j
        PROVE  t[i][1] < t[j][1]
    <3>0. \A a, b \in 1 .. n : a < b => s[a][1] < s[b][1]
      BY <1>2 DEF Ascending
    <3>1. CASE i \in 1 .. k /\ j \in 1 .. k
      <4>1. i \in 1 .. n /\ j \in 1 .. n
        BY <1>2, <3>1
      <4> QED BY <1>12, <2>2, <3>0, <3>1, <4>1
    <3>2. CASE i \in 1 .. k /\ j = k + 1
      BY <1>6, <1>12, <3>2
    <3>3. CASE i \in 1 .. k /\ j \in k + 2 .. n + 1
      <4>1. i \in 1 .. n /\ j - 1 \in 1 .. n /\ i < j - 1
        BY <1>2, <3>3
      <4> QED BY <1>12, <3>0, <3>3, <4>1
    <3>4. CASE i = k + 1 /\ j \in k + 2 .. n + 1
      <4>1. j - 1 \in k + 1 .. n
        BY <1>2, <3>4
      <4> QED BY <1>6, <1>12, <3>4, <4>1
    <3>5. CASE i \in k + 2 .. n + 1 /\ j \in k + 2 .. n + 1
      <4>1. i - 1 \in 1 .. n /\ j - 1 \in 1 .. n /\ i - 1 < j - 1
        BY <1>2, <2>2, <3>5
      <4> QED BY <1>12, <3>0, <3>5, <4>1
    <3> QED BY <1>2, <1>13, <2>2, <3>1, <3>2, <3>3, <3>4, <3>5
  <2> QED BY <1>11, <2>1, <2>2 DEF Ascending
<1>15. Range(t) = Range(s) \union {x}
  <2>1. ASSUME NEW i \in 1 .. n + 1 PROVE t[i] \in Range(s) \union {x}
    <3>1. CASE i \in 1 .. k
      <4>1. i \in 1 .. n
        BY <1>2, <3>1
      <4> QED BY <1>2, <1>12, <3>1, <4>1 DEF Range
    <3>2. CASE i \in k + 2 .. n + 1
      <4>1. i - 1 \in 1 .. n
        BY <1>2, <3>2
      <4> QED BY <1>2, <1>12, <3>2, <4>1 DEF Range
    <3> QED BY <1>12, <1>13, <3>1, <3>2
  <2>2. ASSUME NEW i \in 1 .. n PROVE s[i] \in Range(t)
    <3>1. CASE i <= k
      <4>1. i \in 1 .. k /\ i \in 1 .. n + 1
        BY <1>2, <3>1
      <4> QED BY <1>11, <1>12, <4>1 DEF Range
    <3>2. CASE ~(i <= k)
      <4>1. i + 1 \in k + 2 .. n + 1 /\ i + 1 \in 1 .. n + 1 /\ (i + 1) - 1 = i
        BY <1>2, <3>2
      <4> QED BY <1>11, <1>12, <4>1 DEF Range
    <3> QED BY <3>1, <3>2
  <2>3. k + 1 \in 1 .. n + 1
    BY <1>2
  <2>4. x \in Range(t)
    BY <1>11, <1>12, <2>3 DEF Range
  <2> QED BY <1>2, <1>11, <2>1, <2>2, <2>4 DEF Range
<1>16. IsSeq(t)
  BY <1>10, HoldsOnly
<1> QED BY <1>2, <1>5, <1>11, <1>14, <1>15, <1>16 DEF Placed, n

\* As many answers as there are slots, in order, are those of all slots.
LEMMA AllInOrder ==
  ASSUME NEW n \in Nat, NEW s, DOMAIN s = 1 .. n, Ascending(s),
         \A i \in 1 .. n : s[i][1] \in 1 .. n
  PROVE  \A i \in 1 .. n : s[i][1] = i
<1> DEFINE low == {i \in 1 .. n : s[i][1] < i}
           high == {m \in 0 .. n : \E i \in 1 .. n : m = n - i /\ s[i][1] > i}
<1>0. \A i, j \in 1 .. n : i < j => s[i][1] < s[j][1]
  BY DEF Ascending
<1>1. low = {}
  <2> SUFFICES ASSUME low # {} PROVE FALSE
    OBVIOUS
  <2>1. low \in SUBSET Nat
    OBVIOUS
  <2>2. PICK i \in low : \A j \in low : i <= j
    BY <2>1, Least
  <2>3. i \in 1 .. n /\ s[i][1] < i /\ s[i][1] \in 1 .. n
    OBVIOUS
  <2>4. i - 1 \in 1 .. n /\ i - 1 < i
    BY <2>3
  <2>5. i - 1 \notin low
    BY <2>2, <2>3
  <2>6. s[i - 1][1] < s[i][1] /\ s[i - 1][1] \in 1 .. n
    BY <1>0, <2>3, <2>4
  <2> QED BY <2>3, <2>4, <2>5, <2>6
<1>2. high = {}
  <2> SUFFICES ASSUME high # {} PROVE FALSE
    OBVIOUS
  <2>1. high \in SUBSET Nat
    OBVIOUS
  <2>2. PICK m \in high : \A j \in high : m <= j
    BY <2>1, Least
  <2>3. PICK i \in 1 .. n : m = n - i /\ s[i][1] > i
    OBVIOUS
  <2>4. s[i][1] \in 1 .. n
    OBVIOUS
  <2>5. i + 1 \in 1 .. n /\ i < i + 1 /\ n - (i + 1) \in 0 .. n /\ ~(m <= n - (i + 1))
    BY <2>3, <2>4
  <2>6. n - (i + 1) \notin high
    BY <2>2, <2>5
  <2>7. s[i][1] < s[i + 1][1] /\ s[i + 1][1] \in 1 .. n
    BY <1>0, <2>5
  <2>8. ~(s[i + 1][1] > i + 1)
    BY <2>5, <2>6
  <2> QED BY <2>3, <2>4, <2>5, <2>7, <2>8
<1>3. ASSUME NEW i \in 1 .. n PROVE s[i][1] = i
  <2>1. ~(s[i][1] < i)
    BY <1>1
  <2>2. ~(s[i][1] > i)
    <3>1. n - i \in 0 .. n
      OBVIOUS
    <3> QED BY <1>2, <3>1
  <2>3. s[i][1] \in Nat
    OBVIOUS
  <2> QED BY <2>1, <2>2, <2>3
<1> QED BY <1>3

-----------------------------------------------------------------------------
(* The jobs and the answers of a fan-out.                                  *)

\* A job's parts make its tile, and an answer is it.
RightJobs(s, want) ==
  \A m \in Range(s) : m = Stop \/ (m[1] \in DOMAIN want /\ UNION m[2] = want[m[1]])
RightAnswers(s, want) ==
  \A m \in Range(s) : m = Error \/ (m[1] \in DOMAIN want /\ m[2] = want[m[1]])

\* No slot is in two places.
Dispersed ==
  /\ \A w \in DOMAIN queue :
       /\ \A v \in DOMAIN queue \ {w} : Held(queue[w]) \intersect Held(queue[v]) = {}
       /\ Held(queue[w]) \intersect Held(batch) = {}
       /\ Held(queue[w]) \intersect Held(results) = {}
       /\ Held(queue[w]) \intersect Held(collected) = {}
  /\ Held(batch) \intersect Held(results) = {}
  /\ Held(batch) \intersect Held(collected) = {}
  /\ Held(results) \intersect Held(collected) = {}

\* The jobs and the answers of a fan-out, wherever they are; of none, when
\* nothing is wanted.
Flight(want, n) ==
  /\ Apart(batch) /\ RightJobs(batch, want)
  /\ \A w \in DOMAIN queue : Apart(queue[w]) /\ RightJobs(queue[w], want)
  /\ Apart(results) /\ RightAnswers(results, want)
  /\ IsSeq(collected) /\ Ascending(collected) /\ RightAnswers(collected, want)
  /\ Dispersed
  /\ awaited \in Int /\ Len(collected) + awaited = n
  /\ call \in {"idle", "done"} => awaited = 0

LEMMA HeldInRange ==
  ASSUME NEW s
  PROVE  Held(s) = {m[1] : m \in Range(s) \ {<<>>}}
BY DEF Held, Range

LEMMA HeldAreWanted ==
  ASSUME NEW s, NEW want, RightJobs(s, want) \/ RightAnswers(s, want)
  PROVE  Held(s) \subseteq DOMAIN want
BY HeldInRange DEF RightJobs, RightAnswers, Stop, Error

\* A channel that holds no slot.
LEMMA HeldAreNone ==
  ASSUME NEW s, Held(s) = {}, NEW want
  PROVE  Apart(s) /\ RightJobs(s, want) /\ RightAnswers(s, want)
<1>1. ASSUME NEW i \in DOMAIN s, s[i] # <<>> PROVE FALSE
  <2>1. s[i][1] \in Held(s)
    BY <1>1 DEF Held
  <2> QED BY <2>1
<1> QED BY <1>1 DEF Apart, RightJobs, RightAnswers, Range, Stop, Error

\* What a thread may do with its channel and the results.
LEMMA ThreadsKeepFlight ==
  ASSUME NEW want, NEW n, Flight(want, n), NEW w \in DOMAIN queue,
         UNCHANGED callVars,
         DOMAIN queue' = DOMAIN queue,
         \A v \in DOMAIN queue \ {w} : queue'[v] = queue[v],
         Apart(queue'[w]), RightJobs(queue'[w], want),
         Held(queue'[w]) \subseteq Held(queue[w]),
         Apart(results'), RightAnswers(results', want),
         \A y \in Held(results') :
           y \in Held(results) \/ (y \in Held(queue[w]) /\ y \notin Held(queue'[w]))
  PROVE  Flight(want, n)'
<1>1. UNCHANGED <<next_worker, call, batch, awaited, collected>>
  BY DEF callVars
<1>2. Dispersed
  BY DEF Flight
<1>3. \A v \in DOMAIN queue : Held(queue'[v]) \subseteq Held(queue[v])
  OBVIOUS
<1>4. ASSUME NEW v \in DOMAIN queue
      PROVE  /\ \A u \in DOMAIN queue \ {v} : Held(queue'[v]) \intersect Held(queue'[u]) = {}
             /\ Held(queue'[v]) \intersect Held(batch) = {}
             /\ Held(queue'[v]) \intersect Held(collected) = {}
  BY <1>2, <1>3 DEF Dispersed
<1>5. ASSUME NEW v \in DOMAIN queue
      PROVE  Held(queue'[v]) \intersect Held(results') = {}
  <2>1. CASE v = w
    BY <1>2, <2>1 DEF Dispersed
  <2>2. CASE v # w
    BY <1>2, <1>3, <2>2 DEF Dispersed
  <2> QED BY <2>1, <2>2
<1>6. /\ Held(batch) \intersect Held(results') = {}
      /\ Held(results') \intersect Held(collected) = {}
  BY <1>2 DEF Dispersed
<1>7. Dispersed'
  BY <1>1, <1>2, <1>4, <1>5, <1>6 DEF Dispersed
<1>8. \A v \in DOMAIN queue : Apart(queue'[v]) /\ RightJobs(queue'[v], want)
  BY DEF Flight
<1> QED BY <1>1, <1>7, <1>8 DEF Flight

\* A job becomes an answer to the same slot, or an error, or is lost.
LEMMA ThreadStepsKeepFlight ==
  ASSUME Shaped, NEW w \in DOMAIN worker, Work(w) \/ Fail(w),
         NEW want, NEW n, Flight(want, n)
  PROVE  Flight(want, n)'
<1>1. /\ UNCHANGED callVars
      /\ w \in DOMAIN queue /\ IsSeq(queue[w]) /\ IsSeq(results)
  BY DEF Shaped, Work, Fail, ThreadStep, Open, Handle, Return, OpenFails,
         HandleFails, Panic, Answer
<1>2. /\ Apart(queue[w]) /\ RightJobs(queue[w], want)
      /\ Apart(results) /\ RightAnswers(results, want)
      /\ Held(queue[w]) \intersect Held(results) = {}
  BY <1>1 DEF Flight, Dispersed
<1>3. CASE Open(w)
  <2>1. queue' = queue /\ results' = results
    BY <1>3 DEF Open
  <2> QED BY <1>1, <1>2, <2>1, ThreadsKeepFlight
<1>4. CASE Handle(w) \/ HandleFails(w, export.faults)
  <2> DEFINE job == Head(queue[w])
  <2>1. PICK answer :
          /\ Answer(w, answer)
          /\ answer = Error \/ (job # Stop /\ answer = <<job[1], UNION job[2]>>)
    BY <1>4 DEF Handle, HandleFails, Job
  <2>2. queue[w] # <<>> /\ queue' = [queue EXCEPT ![w] = Tail(@)]
        /\ results' = Append(results, answer)
    BY <1>4, <2>1 DEF Answer, Handle, HandleFails, Job
  <2>3. /\ queue'[w] = Tail(queue[w]) /\ DOMAIN queue' = DOMAIN queue
        /\ \A v \in DOMAIN queue \ {w} : queue'[v] = queue[v]
    BY <1>1, <2>2
  <2>4. /\ Apart(Tail(queue[w])) /\ Held(Tail(queue[w])) \subseteq Held(queue[w])
        /\ job # <<>> => job[1] \in Held(queue[w]) /\ job[1] \notin Held(Tail(queue[w]))
    BY <1>1, <1>2, <2>2, ApartConsumed
  <2>5. Range(Tail(queue[w])) \subseteq Range(queue[w]) /\ job \in Range(queue[w])
    BY <1>1, <2>2, Consumed
  <2>6. RightJobs(queue'[w], want)
    BY <1>2, <2>3, <2>5 DEF RightJobs
  <2>7. job # Stop => job[1] \in DOMAIN want /\ UNION job[2] = want[job[1]]
    BY <1>2, <2>5 DEF RightJobs
  <2> HIDE DEF job
  <2>8. /\ answer # <<>> => /\ answer[1] \in Held(queue[w])
                            /\ answer[1] \notin Held(Tail(queue[w]))
                            /\ answer[1] \notin Held(results)
        /\ answer = Error \/ (answer[1] \in DOMAIN want /\ answer[2] = want[answer[1]])
    <3>1. CASE answer = Error
      BY <3>1 DEF Error
    <3>2. CASE job # Stop /\ answer = <<job[1], UNION job[2]>>
      <4>1. answer[1] = job[1] /\ answer[2] = UNION job[2]
        BY <3>2
      <4>2. job[1] \notin Held(results)
        BY <1>2, <2>4, <3>2 DEF Stop
      <4> QED BY <2>4, <2>7, <3>2, <4>1, <4>2 DEF Stop
    <3> QED BY <2>1, <3>1, <3>2
  <2>9. /\ Apart(results')
        /\ \A y \in Held(results') : y \in Held(results) \/ (answer # <<>> /\ y = answer[1])
    BY <1>1, <1>2, <2>2, <2>8, ApartAppended
  <2>10. RightAnswers(results', want)
    <3>1. \A m \in Range(results') : m \in Range(results) \/ m = answer
      BY <1>1, <2>2, Appended
    <3> QED BY <1>2, <2>8, <3>1 DEF RightAnswers
  <2>11. \A y \in Held(results') :
           y \in Held(results) \/ (y \in Held(queue[w]) /\ y \notin Held(queue'[w]))
    BY <2>3, <2>8, <2>9
  <2> QED BY <1>1, <2>3, <2>4, <2>6, <2>9, <2>10, <2>11, ThreadsKeepFlight
<1>5. CASE OpenFails(w, export.faults) \/ Panic(w, export.faults) \/ Return(w)
  <2>1. PICK how : Exit(w, how)
    BY <1>5 DEF OpenFails, Panic, Return
  <2>2. /\ DOMAIN queue' = DOMAIN queue /\ queue'[w] = <<>> /\ results' = results
        /\ \A v \in DOMAIN queue \ {w} : queue'[v] = queue[v]
    BY <1>1, <1>5, <2>1 DEF Exit, OpenFails, Panic, Return
  <2>3. Apart(<<>>) /\ RightJobs(<<>>, want) /\ Held(<<>>) = {}
    BY DEF Apart, RightJobs, Held, Range
  <2> QED BY <1>1, <1>2, <2>2, <2>3, ThreadsKeepFlight
<1> QED BY <1>3, <1>4, <1>5 DEF Work, Fail, ThreadStep

\* A job goes from the batch to a thread's channel.
LEMMA DispatchKeepsFlight ==
  ASSUME Shaped, Dispatch, batch # <<>>, call' # "failed",
         NEW want, NEW n, Flight(want, n)
  PROVE  Flight(want, n)'
<1> DEFINE job == Head(batch)
           w == next_worker
           sent == Append(queue[w], job)
           left == Tail(batch)
<1>1. /\ w \in DOMAIN queue /\ IsSeq(batch) /\ IsSeq(queue[w])
      /\ queue' = [queue EXCEPT ![w] = sent] /\ batch' = left
      /\ results' = results /\ awaited' = awaited /\ collected' = collected
      /\ call = "dispatch" /\ call' \in {"dispatch", "drain"}
  BY DEF Shaped, Dispatch
<1>2. /\ DOMAIN queue' = DOMAIN queue /\ queue'[w] = sent
      /\ \A v \in DOMAIN queue \ {w} : queue'[v] = queue[v]
  BY <1>1
<1>3. /\ Apart(batch) /\ RightJobs(batch, want)
      /\ Apart(queue[w]) /\ RightJobs(queue[w], want)
      /\ Dispersed
  BY <1>1 DEF Flight
<1>4. /\ Apart(left) /\ Held(left) \subseteq Held(batch)
      /\ job # <<>> => job[1] \in Held(batch) /\ job[1] \notin Held(left)
  BY <1>1, <1>3, ApartConsumed
<1>5. Range(left) \subseteq Range(batch) /\ job \in Range(batch)
  BY <1>1, Consumed
<1> HIDE DEF job, left
<1>6. job # <<>> => job[1] \notin Held(queue[w])
  BY <1>1, <1>3, <1>4 DEF Dispersed
<1>7. /\ Apart(sent)
      /\ \A y \in Held(sent) : y \in Held(queue[w]) \/ (job # <<>> /\ y = job[1])
  BY <1>1, <1>3, <1>6, ApartAppended
<1>8. RightJobs(sent, want) /\ RightJobs(left, want)
  <2>1. \A m \in Range(sent) : m \in Range(queue[w]) \/ m = job
    BY <1>1, Appended
  <2> QED BY <1>3, <1>5, <2>1 DEF RightJobs
<1> HIDE DEF sent, w
<1>9. \A y \in Held(sent) : y \in Held(queue[w]) \/ (y \in Held(batch) /\ y \notin Held(left))
  BY <1>4, <1>7
<1>10. Dispersed'
  <2>1. ASSUME NEW v \in DOMAIN queue
        PROVE  /\ Held(queue'[v]) \intersect Held(left) = {}
               /\ Held(queue'[v]) \intersect Held(results) = {}
               /\ Held(queue'[v]) \intersect Held(collected) = {}
    <3>1. CASE v = w
      BY <1>2, <1>3, <1>4, <1>9, <3>1 DEF Dispersed
    <3>2. CASE v # w
      BY <1>2, <1>3, <1>4, <3>2 DEF Dispersed
    <3> QED BY <3>1, <3>2
  <2>2. ASSUME NEW v \in DOMAIN queue, NEW u \in DOMAIN queue \ {v}
        PROVE  Held(queue'[v]) \intersect Held(queue'[u]) = {}
    <3>1. CASE v = w
      BY <1>2, <1>3, <1>9, <3>1 DEF Dispersed
    <3>2. CASE u = w
      BY <1>2, <1>3, <1>9, <3>2 DEF Dispersed
    <3>3. CASE v # w /\ u # w
      BY <1>2, <1>3, <3>3 DEF Dispersed
    <3> QED BY <3>1, <3>2, <3>3
  <2>3. /\ Held(left) \intersect Held(results) = {}
        /\ Held(left) \intersect Held(collected) = {}
        /\ Held(results) \intersect Held(collected) = {}
    BY <1>3, <1>4 DEF Dispersed
  <2> QED BY <1>1, <1>2, <2>1, <2>2, <2>3 DEF Dispersed
<1>11. \A v \in DOMAIN queue : Apart(queue'[v]) /\ RightJobs(queue'[v], want)
  BY <1>2, <1>7, <1>8 DEF Flight
<1>12. call' \notin {"idle", "done"}
  BY <1>1
<1> QED BY <1>1, <1>2, <1>4, <1>8, <1>10, <1>11, <1>12 DEF Flight

\* An answer goes from the results to its place among those received.
LEMMA CollectKeepsFlight ==
  ASSUME Shaped, Collect, call' # "failed",
         NEW n \in Nat, NEW want, DOMAIN want = 1 .. n, Flight(want, n)
  PROVE  Flight(want, n)'
<1> DEFINE x == Head(results)
           left == Tail(results)
           all == InSlotOrder(collected, x)
<1>1. /\ IsSeq(results) /\ results # <<>> /\ results' = left
      /\ x # <<>> /\ collected' = all /\ awaited' = awaited - 1
      /\ queue' = queue /\ batch' = batch
      /\ call' = (IF awaited = 1 THEN "done" ELSE call) /\ call = "drain"
  BY DEF Shaped, Collect, Error
<1>2. /\ Apart(results) /\ RightAnswers(results, want)
      /\ IsSeq(collected) /\ Ascending(collected) /\ RightAnswers(collected, want)
      /\ Dispersed
      /\ awaited \in Int /\ Len(collected) + awaited = n
  BY DEF Flight
<1>3. /\ Apart(left) /\ Held(left) \subseteq Held(results)
      /\ x[1] \in Held(results) /\ x[1] \notin Held(left)
  BY <1>1, <1>2, ApartConsumed
<1>4. Range(left) \subseteq Range(results) /\ x \in Range(results)
  BY <1>1, Consumed
<1>5. x[1] \in 1 .. n /\ x[2] = want[x[1]]
  BY <1>1, <1>2, <1>4 DEF RightAnswers, Error
<1> HIDE DEF x, left
<1>6. ASSUME NEW i \in DOMAIN collected
      PROVE  collected[i][1] \in Nat /\ collected[i][1] # x[1]
  <2>1. collected[i] # <<>> /\ collected[i] \in Range(collected)
    BY <1>2 DEF Ascending, Range
  <2>2. collected[i][1] \in Held(collected)
    BY <2>1 DEF Held
  <2>3. collected[i][1] \in 1 .. n
    BY <1>2, <2>1 DEF RightAnswers, Error
  <2> QED BY <1>2, <1>3, <2>2, <2>3 DEF Dispersed
<1>7. Placed(collected, x, all)
  <2>1. x[1] \in Nat
    BY <1>5
  <2> QED BY <1>1, <1>2, <1>6, <2>1, PutInOrder
<1> HIDE DEF all
<1>8. /\ IsSeq(all) /\ Ascending(all) /\ Len(all) = Len(collected) + 1
      /\ Len(collected) \in Nat /\ Range(all) = Range(collected) \union {x}
  BY <1>7 DEF Placed
<1>9. RightAnswers(all, want)
  BY <1>2, <1>5, <1>8 DEF RightAnswers
<1>10. Held(all) \subseteq Held(collected) \union {x[1]}
  BY <1>8, HeldInRange
<1>11. RightAnswers(left, want)
  BY <1>2, <1>4 DEF RightAnswers
<1>12. Dispersed'
  BY <1>1, <1>2, <1>3, <1>10 DEF Dispersed
<1>13. awaited' \in Int /\ Len(all) + awaited' = n
  BY <1>1, <1>2, <1>8
<1>14. call' \in {"idle", "done"} => awaited' = 0
  BY <1>1, <1>2
<1> QED BY <1>1, <1>3, <1>8, <1>9, <1>11, <1>12, <1>13, <1>14 DEF Flight

\* Nothing is under way when a fan-out begins: its jobs are all there is.
LEMMA FanOutsBegin ==
  ASSUME NEW none, DOMAIN none = {}, Flight(none, 0), NEW jobs, FanOut(jobs),
         NEW n \in Nat, NEW want, DOMAIN want = 1 .. n, DOMAIN jobs = 1 .. n, IsSeq(jobs),
         \A i \in 1 .. n : jobs[i][1] = i /\ UNION jobs[i][2] = want[i]
  PROVE  Flight(want, n)'
<1>1. /\ batch' = jobs /\ awaited' = Len(jobs) /\ collected' = <<>>
      /\ queue' = queue /\ results' = results /\ call' = "dispatch"
  BY DEF FanOut, threadVars
<1>2. Held(results) = {} /\ \A w \in DOMAIN queue : Held(queue[w]) = {}
  BY HeldAreWanted DEF Flight
<1>3. \A s : Held(s) = {} => Apart(s) /\ RightJobs(s, want) /\ RightAnswers(s, want)
  BY HeldAreNone
<1>4. Held(<<>>) = {} /\ IsSeq(<<>>) /\ Ascending(<<>>) /\ Len(<<>>) = 0
  BY DEF Held, IsSeq, Ascending, Range
<1>5. Apart(jobs) /\ RightJobs(jobs, want)
  <2>1. Apart(jobs)
    BY DEF Apart
  <2>2. ASSUME NEW i \in 1 .. n
        PROVE  jobs[i][1] \in DOMAIN want /\ UNION jobs[i][2] = want[jobs[i][1]]
    <3>1. jobs[i][1] = i /\ UNION jobs[i][2] = want[i]
      OBVIOUS
    <3> QED BY <3>1
  <2>3. ASSUME NEW m \in Range(jobs)
        PROVE  m[1] \in DOMAIN want /\ UNION m[2] = want[m[1]]
    <3>1. PICK i \in 1 .. n : m = jobs[i]
      BY DEF Range
    <3> QED BY <2>2, <3>1
  <2>4. RightJobs(jobs, want)
    BY <2>3 DEF RightJobs
  <2> QED BY <2>1, <2>4
<1>6. Len(jobs) = n
  <2>1. jobs \in Seq(Range(jobs))
    BY DEF IsSeq
  <2>2. Len(jobs) \in Nat /\ DOMAIN jobs = 1 .. Len(jobs)
    BY <2>1
  <2> DEFINE m == Len(jobs)
  <2> HIDE DEF m
  <2>3. m \in Nat /\ 1 .. m = 1 .. n
    BY <2>2 DEF m
  <2>4. m = n
    BY <2>3
  <2> QED BY <2>4 DEF m
<1>7. Dispersed'
  BY <1>1, <1>2, <1>4 DEF Dispersed
<1>8. RightAnswers(<<>>, want)
  BY <1>3, <1>4
<1> QED BY <1>1, <1>2, <1>3, <1>4, <1>5, <1>6, <1>7, <1>8 DEF Flight

\* When drain returns, every slot has its answer and nothing is under way.
LEMMA FanOutsEnd ==
  ASSUME NEW n \in Nat, NEW want, DOMAIN want = 1 .. n, Flight(want, n), call = "done"
  PROVE  /\ DOMAIN collected = 1 .. n
         /\ \A i \in 1 .. n : collected[i][2] = want[i]
         /\ Held(results) = {} /\ Held(batch) = {}
         /\ \A w \in DOMAIN queue : Held(queue[w]) = {}
         /\ awaited = 0
<1>1. /\ awaited = 0 /\ Len(collected) = n /\ IsSeq(collected)
      /\ Ascending(collected) /\ RightAnswers(collected, want) /\ Dispersed
  <2>1. IsSeq(collected) /\ awaited = 0 /\ Len(collected) + awaited = n
    BY DEF Flight
  <2>2. Len(collected) \in Nat
    BY <2>1 DEF IsSeq
  <2> QED BY <2>1, <2>2 DEF Flight
<1>2. DOMAIN collected = 1 .. n
  BY <1>1 DEF IsSeq
<1>3. ASSUME NEW i \in 1 .. n
      PROVE  collected[i][1] \in 1 .. n /\ collected[i][2] = want[collected[i][1]]
             /\ collected[i][1] \in Held(collected)
  <2>1. collected[i] \in Range(collected) /\ collected[i] # <<>>
    BY <1>1, <1>2 DEF Range, Ascending
  <2>2. collected[i][1] \in Held(collected)
    BY <1>2, <2>1 DEF Held
  <2> QED BY <1>1, <2>1, <2>2 DEF RightAnswers, Error
<1>4. \A i \in 1 .. n : collected[i][1] = i
  BY <1>1, <1>2, <1>3, AllInOrder
<1>5. 1 .. n \subseteq Held(collected)
  BY <1>3, <1>4
<1>6. /\ Held(results) \subseteq 1 .. n /\ Held(batch) \subseteq 1 .. n
      /\ \A w \in DOMAIN queue : Held(queue[w]) \subseteq 1 .. n
  BY HeldAreWanted DEF Flight
<1> QED BY <1>1, <1>2, <1>3, <1>4, <1>5, <1>6 DEF Dispersed

-----------------------------------------------------------------------------
(* What the walk has written.                                              *)

\* The blocks a frame is there for.
Charge(e, frames, i) ==
  IF i = 1 THEN LevelBlocks(e, e.min_zoom) ELSE Children(e, frames[i])

\* A written block's children are written, and what a frame is there for is to
\* do, on the stack or written.
WrittenInv(e, frames, written) ==
  /\ \A b \in written : Range(ChildrenOf(e, b)) \subseteq written
  /\ \A i \in 1 .. Len(frames) : \A b \in Charge(e, frames, i) :
       b \in Rest(frames[i]) \/ b \in Below(frames, i) \/ b \in written

\* Nothing is written yet, and run has all the roots to do.
LEMMA WrittenBegins ==
  ASSUME NEW e \in Exports
  PROVE  WrittenInv(e, <<<<Root, BlocksAtZoom(e, e.min_zoom)>>>>, {})
<1> DEFINE roots == BlocksAtZoom(e, e.min_zoom)
           frames == <<<<Root, roots>>>>
<1>1. e.min_zoom \in 0 .. e.zoom
  BY ExportsAssumption
<1>2. LevelBlocks(e, e.min_zoom) \subseteq Range(roots)
  BY <1>1, BlocksOfALevel
<1> HIDE DEF roots
<1>3. Len(frames) = 1 /\ Rest(frames[1]) = Range(roots)
  BY DEF Rest
<1>4. \A i \in 1 .. 1 : i = 1
  OBVIOUS
<1> HIDE DEF frames
<1>5. WrittenInv(e, frames, {})
  BY <1>2, <1>3, <1>4 DEF WrittenInv, Charge
<1> QED BY <1>5 DEF frames, roots

\* A child begins: it is on the stack, with all of its own children to do.
LEMMA WrittenDescends ==
  ASSUME NEW e \in Exports, NEW frames, WalkInv(e, frames),
         NEW written, WrittenInv(e, frames, written),
         NEW new, Descends(e, frames, new)
  PROVE  WrittenInv(e, new, written)
<1> DEFINE n == Len(frames)
           f == frames[n]
<1>0. Descended(e, frames, new)
  BY WalkDescends
<1>1. /\ n \in Nat \ {0} /\ Len(new) = n + 1
      /\ \A i \in 1 .. n - 1 : new[i] = frames[i]
      /\ new[n][1] = f[1]
      /\ \A b \in Rest(f) : b = new[n + 1][1] \/ b \in Rest(new[n])
      /\ Rest(new[n + 1]) = Children(e, new[n + 1])
  BY <1>0 DEF Descended
<1>2. f = frames[n]
  OBVIOUS
<1>3. Children(e, new[n]) = Children(e, frames[n])
  BY <1>1, <1>2 DEF Children
<1> HIDE DEF n
<1>4. ASSUME NEW i \in 1 .. n + 1, NEW b \in Charge(e, new, i)
      PROVE  b \in Rest(new[i]) \/ b \in Below(new, i) \/ b \in written
  <2>1. CASE i = n + 1
    <3>1. i # 1
      BY <1>1, <2>1
    <3> QED BY <1>1, <2>1, <3>1 DEF Charge
  <2>2. CASE i \in 1 .. n
    <3>1. \A c \in Charge(e, frames, i) :
            c \in Rest(frames[i]) \/ c \in Below(frames, i) \/ c \in written
      BY <2>2 DEF WrittenInv, n
    <3>2. b \in Charge(e, frames, i)
      <4>1. i = n \/ i \in 1 .. n - 1
        BY <1>1, <2>2
      <4> QED BY <1>1, <1>3, <4>1 DEF Charge
    <3>3. CASE i = n
      <4>1. Below(frames, n) = {} /\ Below(new, n) = {new[n + 1][1]}
        BY <1>1 DEF Below, n
      <4> QED BY <1>1, <1>2, <3>1, <3>2, <3>3, <4>1
    <3>4. CASE i # n
      <4>1. i \in 1 .. n - 1 /\ i < n /\ i < n + 1 /\ (i + 1 \in 1 .. n - 1 \/ i + 1 = n)
        BY <1>1, <2>2, <3>4
      <4>2. new[i + 1][1] = frames[i + 1][1]
        BY <1>1, <1>2, <4>1
      <4>3. Below(new, i) = Below(frames, i)
        BY <1>1, <4>1, <4>2 DEF Below, n
      <4> QED BY <1>1, <3>1, <3>2, <4>1, <4>3
    <3> QED BY <3>3, <3>4
  <2> QED BY <1>1, <2>1, <2>2
<1> QED BY <1>1, <1>4 DEF WrittenInv

\* A block is written when all of its children are.
LEMMA WrittenReturns ==
  ASSUME NEW e \in Exports, NEW frames, WalkInv(e, frames), Len(frames) >= 2,
         frames[Len(frames)][2] = <<>>,
         NEW written, WrittenInv(e, frames, written),
         NEW new, new = Front(frames)
  PROVE  WrittenInv(e, new, written \union {frames[Len(frames)][1]})
<1> DEFINE n == Len(frames)
           block == frames[n][1]
           now == written \union {block}
<1>1. n \in Nat /\ n >= 2 /\ Len(new) = n - 1 /\ \A i \in 1 .. n - 1 : new[i] = frames[i]
  BY WalkReturns
<1>2. Range(ChildrenOf(e, block)) \subseteq written
  <2>1. n \in 1 .. n /\ n # 1
    BY <1>1
  <2>2. \A b \in Charge(e, frames, n) :
          b \in Rest(frames[n]) \/ b \in Below(frames, n) \/ b \in written
    BY <2>1 DEF WrittenInv
  <2>3. Rest(frames[n]) = {} /\ Below(frames, n) = {}
    BY DEF Rest, Range, Below
  <2>4. Charge(e, frames, n) = Range(ChildrenOf(e, block))
    BY <2>1 DEF Charge, Children
  <2> QED BY <2>2, <2>3, <2>4
<1>3. \A b \in now : Range(ChildrenOf(e, b)) \subseteq now
  BY <1>2 DEF WrittenInv
<1> HIDE DEF n, block
<1>4. ASSUME NEW i \in 1 .. n - 1, NEW b \in Charge(e, new, i)
      PROVE  b \in Rest(new[i]) \/ b \in Below(new, i) \/ b \in now
  <2>1. new[i] = frames[i] /\ Charge(e, new, i) = Charge(e, frames, i)
    BY <1>1 DEF Charge
  <2>2. i \in 1 .. n /\ i < n
    BY <1>1
  <2>3. b \in Rest(frames[i]) \/ b \in Below(frames, i) \/ b \in written
    BY <1>4, <2>1, <2>2 DEF WrittenInv, n
  <2>4. CASE i = n - 1
    <3>1. i + 1 = n
      BY <1>1, <2>4
    <3>2. Below(frames, i) = {block}
      BY <2>2, <3>1 DEF Below, block, n
    <3> QED BY <2>1, <2>3, <3>2
  <2>5. CASE i # n - 1
    <3>1. i + 1 \in 1 .. n - 1 /\ i < n - 1
      BY <1>1, <2>5
    <3>2. new[i + 1] = frames[i + 1]
      BY <1>1, <3>1
    <3>3. Below(new, i) = Below(frames, i)
      BY <1>1, <2>2, <3>1, <3>2 DEF Below, n
    <3> QED BY <2>1, <2>3, <3>3
  <2> QED BY <2>4, <2>5
<1> HIDE DEF now
<1>5. WrittenInv(e, new, now)
  BY <1>1, <1>3, <1>4 DEF WrittenInv
<1> QED BY <1>5 DEF now, block, n

\* A tile's parent is in the level above, and the tile is one of its kids.
LEMMA TilesHaveParents ==
  ASSUME NEW e \in Exports, NEW z \in 0 .. e.zoom, z < e.zoom,
         NEW tile \in LevelTiles(e, z + 1)
  PROVE  \E parent \in LevelTiles(e, z) : tile \in Kids(e, parent)
<1> DEFINE tx == tile[2]
           ty == tile[3]
           px == tx \div 2
           py == ty \div 2
           parent == <<z, px, py>>
<1>1. e.zoom \in Nat /\ z \in Nat /\ z + 1 \in 0 .. e.zoom
  BY ExportsAssumption
<1>2. /\ Lo(e, z + 1, 1) \in Nat /\ Hi(e, z + 1, 1) \in Nat
      /\ Lo(e, z + 1, 2) \in Nat /\ Hi(e, z + 1, 2) \in Nat
      /\ Lo(e, z, 1) = Lo(e, z + 1, 1) \div 2 /\ Hi(e, z, 1) = Hi(e, z + 1, 1) \div 2
      /\ Lo(e, z, 2) = Lo(e, z + 1, 2) \div 2 /\ Hi(e, z, 2) = Hi(e, z + 1, 2) \div 2
  BY <1>1, Levels
<1>3. /\ tile = <<z + 1, tx, ty>>
      /\ tx \in Lo(e, z + 1, 1) .. Hi(e, z + 1, 1)
      /\ ty \in Lo(e, z + 1, 2) .. Hi(e, z + 1, 2)
  BY DEF LevelTiles
<1> HIDE DEF tx, ty
<1>4. px \in Lo(e, z, 1) .. Hi(e, z, 1) /\ py \in Lo(e, z, 2) .. Hi(e, z, 2)
  BY <1>2, <1>3
<1>5. parent \in LevelTiles(e, z)
  BY <1>4 DEF LevelTiles
<1>6. \E dx \in 0 .. 1, dy \in 0 .. 1 : tile = <<z + 1, 2 * px + dx, 2 * py + dy>>
  <2>1. tx \in Nat /\ ty \in Nat
    BY <1>2, <1>3
  <2>2. ASSUME NEW m \in Nat PROVE m - 2 * (m \div 2) \in 0 .. 1
    OBVIOUS
  <2>3. ASSUME NEW m \in Nat PROVE \E d \in 0 .. 1 : m = 2 * (m \div 2) + d
    <3>1. m = 2 * (m \div 2) + (m - 2 * (m \div 2))
      OBVIOUS
    <3> QED BY <2>2, <3>1
  <2>4. PICK dx \in 0 .. 1 : tx = 2 * px + dx
    BY <2>1, <2>3
  <2>5. PICK dy \in 0 .. 1 : ty = 2 * py + dy
    BY <2>1, <2>3
  <2> QED BY <1>3, <2>4, <2>5
<1> HIDE DEF px, py
<1>7. parent[1] = z /\ parent[2] = px /\ parent[3] = py
  OBVIOUS
<1> HIDE DEF parent
<1>8. tile \in Kids(e, parent)
  BY <1>6, <1>7 DEF Kids
<1> QED BY <1>5, <1>8

\* When the roots are written, every tile's block is.
LEMMA AllAreWritten ==
  ASSUME NEW e \in Exports, NEW written, LevelBlocks(e, e.min_zoom) \subseteq written,
         \A b \in written : Range(ChildrenOf(e, b)) \subseteq written
  PROVE  \A z \in e.min_zoom .. e.zoom : \A tile \in LevelTiles(e, z) :
           BlockFor(e, tile).block \in written
<1> DEFINE missing == {z \in e.min_zoom .. e.zoom :
                         \E tile \in LevelTiles(e, z) : BlockFor(e, tile).block \notin written}
<1>1. e.min_zoom \in Nat /\ e.zoom \in Nat /\ e.min_zoom \in 0 .. e.zoom
  BY ExportsAssumption
<1>2. missing = {}
  <2> SUFFICES ASSUME missing # {} PROVE FALSE
    OBVIOUS
  <2>1. missing \in SUBSET Nat
    BY <1>1
  <2>2. PICK z \in missing : \A y \in missing : z <= y
    BY <2>1, Least
  <2>3. PICK tile \in LevelTiles(e, z) : BlockFor(e, tile).block \notin written
    OBVIOUS
  <2>4. z \in e.min_zoom .. e.zoom /\ z \in 0 .. e.zoom
    BY <1>1
  <2>5. z # e.min_zoom
    BY <2>3, <2>4, TilesHaveSlots
  <2>6. /\ z - 1 \in e.min_zoom .. e.zoom /\ z - 1 \in 0 .. e.zoom /\ z - 1 < e.zoom
        /\ (z - 1) + 1 = z /\ ~(z <= z - 1)
    BY <1>1, <2>4, <2>5
  <2>7. PICK parent \in LevelTiles(e, z - 1) : tile \in Kids(e, parent)
    BY <2>6, TilesHaveParents
  <2> DEFINE at == BlockFor(e, parent)
  <2>8. at.block \in written
    BY <2>2, <2>6
  <2>9. /\ at.block \in LevelBlocks(e, z - 1)
        /\ at.slot \in DOMAIN Slots(e, at.block)
        /\ Slots(e, at.block)[at.slot] = parent
    BY <2>6, TilesHaveSlots
  <2> HIDE DEF at
  <2>10. \A t \in Kids(e, Slots(e, at.block)[at.slot]) :
           BlockFor(e, t).block \in Range(ChildrenOf(e, at.block))
    BY <2>6, <2>9, SlotsAreInTheLevel
  <2> QED BY <2>3, <2>7, <2>8, <2>9, <2>10
<1> QED BY <1>2

-----------------------------------------------------------------------------
(* What the archive and the cache hold.                                    *)

\* The raw tiles of a block, in slot order.
Wanted(e, block) ==
  [i \in DOMAIN Slots(e, block) |-> ShownOf(e, Slots(e, block)[i])]

\* The cache has what the block's tiles show, slot by slot.
Spilled(e, raws, block) ==
  \A i \in DOMAIN Slots(e, block) : raws[i] = ShownOf(e, Slots(e, block)[i])

\* Every slot of the block leads to a payload that shows its tile.
ReadsBack(e, env, data, block) ==
  \A i \in DOMAIN Slots(e, block) :
    /\ env.base + Payloads(env.fresh, i) \in DOMAIN data
    /\ data[env.base + Payloads(env.fresh, i)] = ShownOf(e, Slots(e, block)[i])

\* The fan-out is that of the block on top, and there is none while it walks.
Flown ==
  call \in Live =>
    \E n \in Nat : \E want :
      /\ DOMAIN want = 1 .. n /\ Flight(want, n)
      /\ IF call = "idle" THEN n = 0 ELSE want = Wanted(export, Frame[1])

\* The inductive invariant of what is written.
Intact ==
  /\ Sound
  /\ Flown
  /\ IsSeq(tile_data)
  /\ \A b \in DOMAIN envelope : ReadsBack(export, envelope[b], tile_data, b)
  /\ \A b \in DOMAIN raw_cache : Spilled(export, raw_cache[b], b)
  /\ WrittenInv(export, stack, DOMAIN envelope)
  /\ header => call \in {"idle", "joining", "joined"} /\ stack = <<<<Root, <<>>>>>>

\* When the header is written, block_for leads every tile to a block that reads.
LEMMA IntactReads ==
  Intact => SealedArchiveReads
<1> SUFFICES ASSUME Intact, header,
                    NEW z \in Zooms, NEW tile \in LevelTiles(export, z)
             PROVE  /\ BlockFor(export, tile).block \in DOMAIN envelope
                    /\ Read(tile) = Shown(tile)
  BY DEF SealedArchiveReads
<1> DEFINE at == BlockFor(export, tile)
<1>1. /\ export \in Exports /\ z \in export.min_zoom .. export.zoom
      /\ stack = <<<<Root, <<>>>>>> /\ WrittenInv(export, stack, DOMAIN envelope)
  BY DEF Intact, Sound, Cached, Zooms
<1>2. z \in 0 .. export.zoom
  BY <1>1, ExportsAssumption
<1>3. LevelBlocks(export, export.min_zoom) \subseteq DOMAIN envelope
  <2>1. Len(stack) = 1 /\ Rest(stack[1]) = {} /\ 1 \in 1 .. 1
    BY <1>1 DEF Rest, Range
  <2>2. Below(stack, 1) = {} /\ Charge(export, stack, 1) = LevelBlocks(export, export.min_zoom)
    BY <2>1 DEF Below, Charge
  <2> QED BY <1>1, <2>1, <2>2 DEF WrittenInv
<1>4. \A b \in DOMAIN envelope : Range(ChildrenOf(export, b)) \subseteq DOMAIN envelope
  BY <1>1 DEF WrittenInv
<1>5. at.block \in DOMAIN envelope
  BY <1>1, <1>3, <1>4, AllAreWritten
<1>6. at.slot \in DOMAIN Slots(export, at.block) /\ Slots(export, at.block)[at.slot] = tile
  BY <1>1, <1>2, TilesHaveSlots
<1>7. Read(tile) = tile_data[envelope[at.block].base + Payloads(envelope[at.block].fresh, at.slot)]
  BY DEF Read
<1> HIDE DEF at
<1>8. Read(tile) = ShownOf(export, tile)
  BY <1>5, <1>6, <1>7 DEF Intact, ReadsBack
<1>9. ShownOf(export, tile) = Shown(tile)
  BY DEF ShownOf, Shown, Leaves
<1> QED BY <1>5, <1>8, <1>9 DEF at

\* A tile reduced from its children shows all of its ground, for they are all
\* in the cache (handle_reduce, load_and_drop).
LEMMA PartsMakeTheTile ==
  ASSUME export \in Exports, NEW z \in 0 .. export.zoom, z < export.zoom,
         NEW block \in LevelBlocks(export, z),
         Range(ChildrenOf(export, block)) \subseteq DOMAIN raw_cache,
         \A b \in DOMAIN raw_cache : Spilled(export, raw_cache[b], b),
         NEW i \in DOMAIN Slots(export, block)
  PROVE  UNION Parts(Slots(export, block)[i], ChildrenOf(export, block))
           = ShownOf(export, Slots(export, block)[i])
<1> DEFINE tile == Slots(export, block)[i]
           children == ChildrenOf(export, block)
           kids == Kids(export, tile)
           raw(t) == raw_cache[BlockFor(export, t).block][BlockFor(export, t).slot]
<1>1. /\ tile \in LevelTiles(export, z)
      /\ \A t \in kids : BlockFor(export, t).block \in Range(children)
  BY SlotsAreInTheLevel
<1>2. tile[1] = z
  BY <1>1 DEF LevelTiles
<1>3. Parts(tile, children) = {raw(t) : t \in kids}
  <2> DEFINE under == {<<tile[1] + 1, 2 * tile[2] + p, 2 * tile[3] + q>> : p, q \in 0..1}
             held == {t \in under \intersect LevelTiles(export, tile[1] + 1) :
                        BlockFor(export, t).block \in Range(children)}
  <2>1. kids = under \intersect LevelTiles(export, tile[1] + 1)
    BY DEF Kids
  <2>2. Parts(tile, children) = {raw(t) : t \in held}
    BY DEF Parts
  <2> HIDE DEF under, kids
  <2>3. held = kids
    BY <1>1, <2>1
  <2> HIDE DEF held, raw, tile, children
  <2> QED BY <2>2, <2>3
<1>4. ASSUME NEW t \in kids PROVE raw(t) = ShownOf(export, t)
  <2> DEFINE at == BlockFor(export, t)
  <2>1. t \in LevelTiles(export, z + 1)
    BY <1>2 DEF Kids
  <2>2. z + 1 \in 0 .. export.zoom
    BY ExportsAssumption
  <2>3. at.slot \in DOMAIN Slots(export, at.block) /\ Slots(export, at.block)[at.slot] = t
    BY <2>1, <2>2, TilesHaveSlots
  <2>4. at.block \in DOMAIN raw_cache
    BY <1>1
  <2> HIDE DEF at
  <2>5. raw_cache[at.block][at.slot] = ShownOf(export, t)
    BY <2>3, <2>4 DEF Spilled
  <2> QED BY <2>5 DEF at
<1>5. ShownOf(export, tile) = UNION {ShownOf(export, t) : t \in kids}
  BY <1>1, TilesShowTheirKids
<1> HIDE DEF raw, kids, tile, children
<1>6. {raw(t) : t \in kids} = {ShownOf(export, t) : t \in kids}
  BY <1>4
<1>7. UNION Parts(tile, children) = ShownOf(export, tile)
  BY <1>3, <1>5, <1>6
<1> QED BY <1>7 DEF tile, children

LEMMA ExportsBeginIntact ==
  Init => Intact
<1> SUFFICES ASSUME Init PROVE Intact
  OBVIOUS
<1>1. Sound
  BY ExportsBeginSound
<1>2. WrittenInv(export, stack, {})
  BY WrittenBegins DEF Init
<1>3. IsSeq(<<>>) /\ Held(<<>>) = {} /\ Ascending(<<>>) /\ Apart(<<>>) /\ Len(<<>>) = 0
  BY DEF IsSeq, Held, Ascending, Apart, Range
<1>4. /\ \A w \in DOMAIN queue : queue[w] = <<>>
      /\ results = <<>> /\ batch = <<>> /\ collected = <<>> /\ awaited = 0 /\ call = "idle"
      /\ tile_data = <<>> /\ DOMAIN envelope = {} /\ DOMAIN raw_cache = {} /\ header = FALSE
  BY DEF Init, PoolInit, NoBlocks
<1>5. Flight(<<>>, 0)
  <2>1. RightJobs(<<>>, <<>>) /\ RightAnswers(<<>>, <<>>)
    BY DEF RightJobs, RightAnswers, Range
  <2>2. Dispersed
    BY <1>3, <1>4 DEF Dispersed
  <2> QED BY <1>3, <1>4, <2>1, <2>2 DEF Flight
<1>6. Flown
  <2>1. DOMAIN <<>> = 1 .. 0
    OBVIOUS
  <2> QED BY <1>4, <1>5, <2>1 DEF Flown
<1> QED BY <1>1, <1>2, <1>3, <1>4, <1>6 DEF Intact

\* The steps that leave the file, the walk and the cache alone, and keep the
\* jobs where they are or count for nothing.
LEMMA PoolStepsKeepIntact ==
  ASSUME Intact, Sound', UNCHANGED <<export, stack, raw_cache, tile_data, envelope, header>>,
         header => call' \in {"idle", "joining", "joined"},
         call' \in Live =>
           /\ call \in Live /\ (call' = "idle" <=> call = "idle")
           /\ \A n \in Nat : \A want : DOMAIN want = 1 .. n /\ Flight(want, n) => Flight(want, n)'
  PROVE  Intact'
<1>1. Flown'
  <2> SUFFICES ASSUME call' \in Live
               PROVE  \E n \in Nat : \E want :
                        /\ DOMAIN want = 1 .. n /\ Flight(want, n)'
                        /\ IF call' = "idle" THEN n = 0 ELSE want = Wanted(export', Frame[1]')
    BY DEF Flown
  <2>1. PICK n, want :
          /\ n \in Nat
          /\ DOMAIN want = 1 .. n /\ Flight(want, n)
          /\ IF call = "idle" THEN n = 0 ELSE want = Wanted(export, Frame[1])
    BY DEF Intact, Flown
  <2>2. Flight(want, n)'
    BY <2>1
  <2>3. Wanted(export', Frame[1]') = Wanted(export, Frame[1])
    BY DEF Frame
  <2> QED BY <2>1, <2>2, <2>3
<1> QED BY <1>1 DEF Intact

LEMMA DescendKeepsIntact ==
  ASSUME Intact, Sound', Descend
  PROVE  Intact'
<1>1. /\ call = "idle" /\ ~header
      /\ UNCHANGED <<call, queue, results, batch, collected, awaited>>
      /\ UNCHANGED <<export, raw_cache, tile_data, envelope, header>>
  BY DEF Descend, Walking, poolVars, threadVars, callVars, fileVars
<1>2. Descends(export, stack, stack')
  <2> DEFINE f == Frame
             child == Head(f[2])
             done == <<f[1], Tail(f[2])>>
             next == <<child, ChildrenOf(export, child)>>
  <2>1. /\ stack \in Seq(Frames(export)) /\ stack # <<>> /\ f = stack[Len(stack)]
    BY OnTop DEF Intact, Sound
  <2>2. f[2] # <<>> /\ stack' = Append(Front(stack) \o <<done>>, next)
    BY DEF Descend
  <2>3. Pushes(stack, done, next, stack')
    <3> HIDE DEF done, next
    <3> QED BY <2>1, <2>2, Pushed
  <2> QED BY <2>1, <2>2, <2>3 DEF Descends
<1>3. WrittenInv(export, stack', DOMAIN envelope)
  BY <1>2, WrittenDescends DEF Intact, Sound, Cached
<1>4. Flown'
  <2>1. PICK n, want : n \in Nat /\ DOMAIN want = 1 .. n /\ Flight(want, n) /\ n = 0
    BY <1>1 DEF Intact, Flown, Live
  <2>2. Flight(want, n)'
    BY <1>1, <2>1 DEF Flight, Dispersed
  <2> QED BY <1>1, <2>1, <2>2 DEF Flown
<1> QED BY <1>1, <1>3, <1>4 DEF Intact

\* A fan-out of jobs whose parts make the tiles of the block on top.
LEMMA FanOutsKeepIntact ==
  ASSUME Intact, Sound', NEW block, Due(block), NEW jobs, FanOut(jobs),
         UNCHANGED <<export, stack, tile_data, envelope, header>>,
         \A b \in DOMAIN raw_cache' : b \in DOMAIN raw_cache /\ raw_cache'[b] = raw_cache[b],
         DOMAIN jobs = DOMAIN Slots(export, block),
         \A i \in DOMAIN jobs : jobs[i] = <<i, jobs[i][2]>>,
         \A i \in DOMAIN jobs : UNION jobs[i][2] = ShownOf(export, Slots(export, block)[i])
  PROVE  Intact'
<1>1. call = "idle" /\ call' = "dispatch" /\ ~header /\ Frame[1] = block
  BY DEF FanOut, Due, Walking
<1>2. PICK n \in Nat \ {0} : DOMAIN Slots(export, block) = 1 .. n
  BY DueBlocks DEF Intact, Sound
<1>3. PICK none : DOMAIN none = {} /\ Flight(none, 0)
  <2>1. PICK m, none : m \in Nat /\ DOMAIN none = 1 .. m /\ Flight(none, m) /\ m = 0
    BY <1>1 DEF Intact, Flown, Live
  <2>2. 1 .. 0 = {}
    OBVIOUS
  <2> QED BY <2>1, <2>2
<1> DEFINE want == Wanted(export, block)
<1>4. DOMAIN want = 1 .. n /\ \A i \in 1 .. n : want[i] = ShownOf(export, Slots(export, block)[i])
  BY <1>2 DEF Wanted
<1>5. IsSeq(jobs)
  <2>1. jobs = batch'
    BY DEF FanOut
  <2> QED BY <2>1 DEF Sound, Shaped
<1>6. PICK goal : goal = want
  OBVIOUS
<1>7. Flight(goal, n)'
  <2>1. \A i \in 1 .. n : jobs[i][1] = i /\ UNION jobs[i][2] = goal[i]
    BY <1>2, <1>4, <1>6
  <2>2. DOMAIN goal = 1 .. n /\ n \in Nat /\ DOMAIN jobs = 1 .. n
    BY <1>2, <1>4, <1>6
  <2> HIDE DEF want
  <2> QED BY <1>3, <1>5, <2>1, <2>2, FanOutsBegin
<1>8. Flown'
  <2>1. Wanted(export', Frame[1]') = want
    BY <1>1 DEF Frame
  <2> HIDE DEF want
  <2> QED BY <1>1, <1>4, <1>6, <1>7, <2>1 DEF Flown
<1> QED BY <1>1, <1>8 DEF Intact

LEMMA SourcePathKeepsIntact ==
  ASSUME Intact, Sound', NEW block, SourcePath(block)
  PROVE  Intact'
<1> DEFINE jobs == [i \in DOMAIN Slots(export, block) |->
                      <<i, {Shown(Slots(export, block)[i])}>>]
<1>1. /\ Due(block) /\ FanOut(jobs)
      /\ UNCHANGED <<export, stack, raw_cache, tile_data, envelope, header>>
  BY DEF SourcePath, fileVars
<1>2. ASSUME NEW i \in DOMAIN Slots(export, block)
      PROVE  jobs[i] = <<i, jobs[i][2]>> /\ UNION jobs[i][2] = ShownOf(export, Slots(export, block)[i])
  <2>1. jobs[i] = <<i, {Shown(Slots(export, block)[i])}>>
    OBVIOUS
  <2>2. Shown(Slots(export, block)[i]) = ShownOf(export, Slots(export, block)[i])
    BY DEF ShownOf, Shown, Leaves
  <2> HIDE DEF jobs
  <2>3. jobs[i][2] = {ShownOf(export, Slots(export, block)[i])}
    BY <2>1, <2>2
  <2> QED BY <2>1, <2>3
<1>3. DOMAIN jobs = DOMAIN Slots(export, block)
  OBVIOUS
<1> HIDE DEF jobs
<1> QED BY <1>1, <1>2, <1>3, FanOutsKeepIntact

LEMMA ReducePathKeepsIntact ==
  ASSUME Intact, Sound', NEW block, ReducePath(block)
  PROVE  Intact'
<1> DEFINE jobs == [i \in DOMAIN Slots(export, block) |->
                      <<i, Parts(Slots(export, block)[i], ChildrenOf(export, block))>>]
<1>1. /\ Due(block) /\ FanOut(jobs)
      /\ UNCHANGED <<export, stack, tile_data, envelope, header>>
      /\ raw_cache' = Drop(raw_cache, Range(ChildrenOf(export, block)))
      /\ Range(ChildrenOf(export, block)) \subseteq DOMAIN raw_cache
  BY DEF ReducePath, fileVars
<1>2. /\ export \in Exports /\ block \in LevelBlocks(export, block[1])
      /\ block[1] \in 0 .. export.zoom /\ block[1] < export.zoom
  <2>1. /\ export \in Exports /\ block \in LevelBlocks(export, block[1])
        /\ block[1] \in 0 .. export.zoom
    BY <1>1, DueBlocks DEF Intact, Sound
  <2>2. block[1] # export.zoom
    BY DEF ReducePath, SourceSupplies
  <2>3. export.zoom \in Nat
    BY <2>1, ExportsAssumption
  <2> QED BY <2>1, <2>2, <2>3
<1>3. ASSUME NEW i \in DOMAIN Slots(export, block)
      PROVE  jobs[i] = <<i, jobs[i][2]>> /\ UNION jobs[i][2] = ShownOf(export, Slots(export, block)[i])
  <2>1. jobs[i] = <<i, Parts(Slots(export, block)[i], ChildrenOf(export, block))>>
    OBVIOUS
  <2>2. UNION Parts(Slots(export, block)[i], ChildrenOf(export, block))
          = ShownOf(export, Slots(export, block)[i])
    BY <1>1, <1>2, PartsMakeTheTile DEF Intact
  <2> HIDE DEF jobs
  <2>3. jobs[i][2] = Parts(Slots(export, block)[i], ChildrenOf(export, block))
    BY <2>1
  <2> QED BY <2>1, <2>2, <2>3
<1>4. DOMAIN jobs = DOMAIN Slots(export, block)
  OBVIOUS
<1>5. \A b \in DOMAIN raw_cache' : b \in DOMAIN raw_cache /\ raw_cache'[b] = raw_cache[b]
  BY <1>1 DEF Drop
<1> HIDE DEF jobs
<1> QED BY <1>1, <1>3, <1>4, <1>5, FanOutsKeepIntact

\* A block is written, and spilled for its parent.
LEMMA FinishBlockKeepsIntact ==
  ASSUME Intact, Sound', FinishBlock
  PROVE  Intact'
<1> DEFINE block == Frame[1]
           raws == [i \in DOMAIN collected |-> collected[i][2]]
           fresh == Fresh(raws)
           written == [k \in 1 .. Payloads(fresh, Len(raws)) |->
                         raws[CHOOSE i \in DOMAIN raws : fresh[i] /\ Payloads(fresh, i) = k]]
           env == [base |-> Len(tile_data), fresh |-> fresh]
<1>1. /\ call = "done" /\ call' = "idle" /\ collected' = <<>>
      /\ UNCHANGED <<queue, results, batch, awaited, export, header>>
      /\ stack' = Front(stack)
      /\ tile_data' = tile_data \o written
      /\ envelope' = Put(envelope, block, env)
      /\ raw_cache' = IF Spills(block) THEN Put(raw_cache, block, raws) ELSE raw_cache
  BY DEF FinishBlock, WriteBlock, threadVars
<1>2. ~header
  BY <1>1 DEF Intact
<1>3. /\ export \in Exports /\ WalkInv(export, stack)
      /\ Len(stack) >= 2 /\ stack[Len(stack)][2] = <<>> /\ block = stack[Len(stack)][1]
  BY <1>1, OnTop DEF Intact, Sound, Cached, CacheInv, Live
<1>4. PICK n, want : n \in Nat /\ DOMAIN want = 1 .. n /\ Flight(want, n) /\ want = Wanted(export, block)
  BY <1>1 DEF Intact, Flown, Live
<1>5. /\ DOMAIN collected = 1 .. n
      /\ \A i \in 1 .. n : collected[i][2] = want[i]
      /\ Held(results) = {} /\ Held(batch) = {}
      /\ \A w \in DOMAIN queue : Held(queue[w]) = {}
      /\ awaited = 0
  BY <1>1, <1>4, FanOutsEnd
<1>6. /\ DOMAIN Slots(export, block) = 1 .. n
      /\ \A i \in 1 .. n : want[i] = ShownOf(export, Slots(export, block)[i])
  BY <1>4 DEF Wanted
<1>7. n # 0
  <2>1. Len(stack) \in 2 .. Len(stack)
    BY <1>3, OnTop DEF Intact, Sound
  <2>2. /\ LevelOf(export, Len(stack)) \in 0 .. export.zoom
        /\ block \in LevelBlocks(export, LevelOf(export, Len(stack)))
    BY <1>3, <2>1, ChildrenAreDeeper DEF WalkInv, FrameInv
  <2>3. PICK m \in Nat \ {0} : DOMAIN Slots(export, block) = 1 .. m
    BY <1>3, <2>2, SlotsAreTiles
  <2>4. 1 \in 1 .. m
    BY <2>3
  <2> QED BY <1>6, <2>3, <2>4
<1>8. DOMAIN raws = 1 .. n /\ Len(raws) = n
  <2>1. DOMAIN raws = 1 .. n /\ raws = [i \in 1 .. n |-> raws[i]]
    BY <1>5
  <2> HIDE DEF raws
  <2>2. raws \in Seq(Range(raws))
    BY <1>7, <2>1, Batches
  <2>3. Len(raws) \in Nat /\ DOMAIN raws = 1 .. Len(raws)
    BY <2>2
  <2> DEFINE m == Len(raws)
  <2> HIDE DEF m
  <2>4. m \in Nat /\ 1 .. m = 1 .. n
    BY <2>1, <2>3 DEF m
  <2>5. m = n
    BY <1>4, <2>4
  <2> QED BY <2>1, <2>5 DEF m
<1>9. \A i \in 1 .. n : raws[i] = ShownOf(export, Slots(export, block)[i])
  BY <1>5, <1>6
<1>10. IsSeq(tile_data)
  BY DEF Intact
<1> HIDE DEF raws
<1>11. written = [k \in 1 .. Payloads(fresh, n) |->
                    raws[CHOOSE i \in DOMAIN raws : fresh[i] /\ Payloads(fresh, i) = k]]
  BY <1>8
<1> DEFINE all == tile_data \o written
<1>12. /\ IsSeq(all)
       /\ \A i \in DOMAIN tile_data : i \in DOMAIN all /\ all[i] = tile_data[i]
       /\ \A s \in 1 .. n :
            /\ Len(tile_data) + Payloads(fresh, s) \in DOMAIN all
            /\ all[Len(tile_data) + Payloads(fresh, s)] = raws[s]
  <2>1. written = Written(raws, n)
    BY <1>11 DEF Written
  <2> HIDE DEF written
  <2>2. FoundAgain(tile_data, tile_data \o Written(raws, n), raws, n)
    BY <1>7, <1>8, <1>10, BlocksReadBack
  <2> QED BY <2>1, <2>2 DEF FoundAgain
<1> HIDE DEF all, written, fresh
<1>13. tile_data' = all
  BY <1>1 DEF all
<1>14. ASSUME NEW b \in DOMAIN envelope'
       PROVE  ReadsBack(export, envelope'[b], all, b)
  <2>1. CASE b = block
    <3>1. envelope'[b] = env
      BY <1>1, <1>14, <2>1 DEF Put
    <3>2. env.base = Len(tile_data) /\ env.fresh = fresh
      OBVIOUS
    <3> HIDE DEF env, block
    <3> QED BY <1>6, <1>9, <1>12, <2>1, <3>1, <3>2 DEF ReadsBack
  <2>2. CASE b # block
    <3>1. b \in DOMAIN envelope /\ envelope'[b] = envelope[b]
      BY <1>1, <1>14, <2>2 DEF Put
    <3>2. ReadsBack(export, envelope[b], tile_data, b)
      BY <3>1 DEF Intact
    <3> HIDE DEF env, block
    <3> QED BY <1>12, <3>1, <3>2 DEF ReadsBack
  <2> QED BY <2>1, <2>2
<1>15. \A b \in DOMAIN raw_cache' : Spilled(export, raw_cache'[b], b)
  <2>1. Spilled(export, raws, block)
    BY <1>6, <1>9 DEF Spilled
  <2>2. \A b \in DOMAIN raw_cache : Spilled(export, raw_cache[b], b)
    BY DEF Intact
  <2> HIDE DEF block
  <2> QED BY <1>1, <2>1, <2>2 DEF Put
<1>16. WrittenInv(export, stack', DOMAIN envelope')
  <2>1. DOMAIN envelope' = DOMAIN envelope \union {stack[Len(stack)][1]}
    BY <1>1, <1>3 DEF Put
  <2>2. WrittenInv(export, stack, DOMAIN envelope)
    BY DEF Intact
  <2> QED BY <1>1, <1>3, <2>1, <2>2, WrittenReturns
<1>17. Flown'
  <2>1. Held(<<>>) = {} /\ IsSeq(<<>>) /\ Ascending(<<>>) /\ Len(<<>>) = 0
    BY DEF Held, IsSeq, Ascending, Range
  <2>2. ASSUME NEW s, Held(s) = {}
        PROVE  Apart(s) /\ RightJobs(s, <<>>) /\ RightAnswers(s, <<>>)
    BY <2>2, HeldAreNone
  <2>3. Dispersed'
    BY <1>1, <1>5, <2>1 DEF Dispersed
  <2>4. Flight(<<>>, 0)'
    BY <1>1, <1>5, <2>1, <2>2, <2>3 DEF Flight
  <2>5. DOMAIN <<>> = 1 .. 0
    OBVIOUS
  <2> QED BY <1>1, <2>4, <2>5 DEF Flown
<1> QED BY <1>1, <1>2, <1>12, <1>13, <1>14, <1>15, <1>16, <1>17 DEF Intact

LEMMA StepsKeepIntact ==
  Intact /\ [Next]_vars => Intact'
<1> SUFFICES ASSUME Intact, [Next]_vars PROVE Intact'
  OBVIOUS
<1>0. Sound' /\ Shaped
  BY StepsKeepSound DEF Intact, Sound
<1>1. CASE Descend
  BY <1>0, <1>1, DescendKeepsIntact
<1>2. CASE \E block \in {Frame[1]} : SourcePath(block)
  BY <1>0, <1>2, SourcePathKeepsIntact
<1>3. CASE \E block \in {Frame[1]} : ReducePath(block)
  BY <1>0, <1>3, ReducePathKeepsIntact
<1>4. CASE FinishBlock
  BY <1>0, <1>4, FinishBlockKeepsIntact
<1>5. CASE Seal
  <2>1. /\ UNCHANGED <<export, stack, raw_cache, tile_data, envelope>>
        /\ UNCHANGED <<queue, results, call, batch, awaited, collected>>
        /\ call = "idle" /\ stack = <<<<Root, <<>>>>>>
    BY <1>5 DEF Seal, Walking, poolVars, threadVars, callVars
  <2>2. Flown'
    <3>1. PICK n, want : n \in Nat /\ DOMAIN want = 1 .. n /\ Flight(want, n) /\ n = 0
      BY <2>1 DEF Intact, Flown, Live
    <3>2. Flight(want, n)'
      BY <2>1, <3>1 DEF Flight, Dispersed
    <3> QED BY <2>1, <3>1, <3>2 DEF Flown
  <2> QED BY <1>0, <2>1, <2>2 DEF Intact
<1>6. CASE Shutdown \/ Join
  <2>1. /\ call' \in {"joining", "joined"}
        /\ UNCHANGED <<export, stack, raw_cache, tile_data, envelope, header>>
    BY <1>6 DEF Shutdown, Join, StopAll, JoinAll, fileVars
  <2> QED BY <1>0, <2>1, PoolStepsKeepIntact DEF Live
<1>7. CASE Finish
  <2>1. /\ call = "joined" /\ call' = call /\ DOMAIN raw_cache' = {}
        /\ UNCHANGED <<export, stack, tile_data, envelope, header>>
    BY <1>7 DEF Finish, poolVars, callVars, fileVars, NoBlocks
  <2>2. Flown'
    BY <2>1 DEF Flown, Live
  <2> QED BY <1>0, <2>1, <2>2 DEF Intact
<1>8. CASE /\ Dispatch \/ Collect \/ CollectClosed
           /\ UNCHANGED <<export, stack, raw_cache, fileVars, outcome>>
  <2>1. /\ UNCHANGED <<export, stack, raw_cache, tile_data, envelope, header>>
        /\ call \in {"dispatch", "drain"}
        /\ call' \in {"dispatch", "drain", "done", "failed"}
        /\ ~header
    BY <1>8 DEF Dispatch, Collect, CollectClosed, fileVars, Intact
  <2>2. ASSUME call' \in Live, NEW n \in Nat, NEW want, DOMAIN want = 1 .. n, Flight(want, n)
        PROVE  Flight(want, n)'
    <3>1. call' # "failed"
      BY <2>2 DEF Live
    <3>2. CASE Dispatch
      <4>1. batch # <<>>
        BY <3>2 DEF Dispatch, Intact, Sound
      <4> QED BY <1>0, <2>2, <3>1, <3>2, <4>1, DispatchKeepsFlight
    <3>3. CASE Collect
      BY <1>0, <2>2, <3>1, <3>3, CollectKeepsFlight
    <3>4. CASE CollectClosed
      BY <3>1, <3>4 DEF CollectClosed
    <3> QED BY <1>8, <3>2, <3>3, <3>4
  <2> QED BY <1>0, <2>1, <2>2, PoolStepsKeepIntact DEF Live
<1>9. CASE \E w \in DOMAIN worker : Work(w) \/ Fail(w)
  <2>1. UNCHANGED <<export, stack, raw_cache, tile_data, envelope, header, call>>
    BY <1>9 DEF Work, Fail, ThreadStep, Open, Handle, Return, OpenFails,
                HandleFails, Panic, Answer, callVars, fileVars
  <2>2. ASSUME NEW n \in Nat, NEW want, DOMAIN want = 1 .. n, Flight(want, n)
        PROVE  Flight(want, n)'
    BY <1>0, <1>9, <2>2, ThreadStepsKeepFlight
  <2>3. header => call' \in {"idle", "joining", "joined"}
    BY <2>1 DEF Intact
  <2> QED BY <1>0, <2>1, <2>2, <2>3, PoolStepsKeepIntact
<1>10. CASE UNCHANGED vars
  <2>1. /\ UNCHANGED <<export, stack, raw_cache, tile_data, envelope, header, call>>
        /\ UNCHANGED <<queue, results, batch, awaited, collected>>
    BY <1>10 DEF vars, poolVars, threadVars, callVars, fileVars
  <2>2. ASSUME NEW n \in Nat, NEW want, Flight(want, n) PROVE Flight(want, n)'
    BY <2>1, <2>2 DEF Flight, Dispersed
  <2>3. header => call' \in {"idle", "joining", "joined"}
    BY <2>1 DEF Intact
  <2> QED BY <1>0, <2>1, <2>2, <2>3, PoolStepsKeepIntact
<1> QED BY <1>1, <1>2, <1>3, <1>4, <1>5, <1>6, <1>7, <1>8, <1>9, <1>10
        DEF Next, Orchestrate

\* A complete archive has every tile of every stored zoom, and each shows the
\* whole of its ground and nothing else: for every pyramid, block width and
\* number of workers, whatever order the answers come in and whatever faults
\* there are (orchestrator.rs, worker_pool.rs, blocks.rs, encode.rs,
\* size_stream.rs).
THEOREM SealedArchivesRead ==
  Spec => []SealedArchiveReads
<1>1. Init => Intact
  BY ExportsBeginIntact
<1>2. Intact /\ [Next]_vars => Intact'
  BY StepsKeepIntact
<1>3. Intact => SealedArchiveReads
  BY IntactReads
<1> QED BY <1>1, <1>2, <1>3, PTL DEF Spec
=============================================================================
