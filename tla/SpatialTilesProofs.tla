-------------------------- MODULE SpatialTilesProofs --------------------------
(***************************************************************************)
(* Proofs about SpatialTiles: tiles stay in place, and the picture that is *)
(* made of them has no seams, whatever the size of tiles, strides, frames. *)
(***************************************************************************)
EXTENDS SpatialTiles, TLAPS

Ops == {"encode", "decode"}

\* The quotient of a division fits.
LEMMA Quotient ==
  ASSUME NEW a \in Nat, NEW b \in Nat \ {0}
  PROVE  /\ a \div b \in Nat
         /\ (a \div b) * b <= a
         /\ a < (a \div b) * b + b
  BY SMTT(30)

\* Tiles of latents are whole parts of tiles of pixels.
LEMMA Divided ==
  ASSUME NEW a \in Nat, NEW b \in Nat \ {0}, a % b = 0
  PROVE  (a \div b) * b = a
  BY SMTT(30)

\* Larger products come of larger factors.
LEMMA Monotone ==
  ASSUME NEW p \in Nat, NEW q \in Nat, NEW b \in Nat \ {0}, p * b <= q * b
  PROVE  p <= q
  BY SMTT(30)

\* The stride of a step is positive, and no longer than its tiles.
LEMMA Strides ==
  ASSUME NEW op \in Ops
  PROVE  /\ Long(op) \in Nat /\ Stride(op) \in Nat \ {0}
         /\ Stride(op) <= Long(op)
<1> USE TileAssumption
<1>1. CASE op = "decode"
  BY <1>1 DEF Long, Stride
<1>2. CASE op = "encode"
  <2> DEFINE l == TileMin \div Ratio
             s == TileStride \div Ratio
  <2>1. l \in Nat /\ s \in Nat
    BY Quotient
  <2>2. l * Ratio = TileMin /\ s * Ratio = TileStride
    BY Divided
  <2>3. s <= l
    BY <2>1, <2>2, Monotone
  <2>4. s # 0
    BY <2>1, <2>2
  <2> QED
    BY <1>2, <2>1, <2>3, <2>4 DEF Long, Stride
<1> QED
  BY <1>1, <1>2 DEF Ops

\* A tile that is counted begins inside the side.
LEMMA Begins ==
  ASSUME NEW op \in Ops, NEW n \in Nat, NEW k \in 0 .. (Count(n, op) - 1)
  PROVE  k * Stride(op) < n /\ Count(n, op) \in Nat
<1> DEFINE S == Stride(op)
           c == Count(n, op)
<1>1. S \in Nat \ {0}
  BY Strides
<1> HIDE DEF S
<1>2. c = (n + S - 1) \div S /\ n + S - 1 \in Nat
  BY <1>1 DEF Count, S
<1>3. c \in Nat /\ c * S <= n + S - 1
  BY <1>1, <1>2, Quotient
<1> HIDE DEF c
<1>4. k \in Nat /\ k + 1 <= c
  BY <1>3 DEF c
<1>5. (k + 1) * S <= c * S /\ (k + 1) * S = k * S + S
  BY <1>1, <1>3, <1>4, SMTT(30)
<1>6. k * S \in Nat
  BY <1>1, <1>4
<1> QED
  BY <1>1, <1>3, <1>5, <1>6 DEF S, c

\* The arithmetic of it: what is left of a tile is a stride.
LEMMA Overlap ==
  ASSUME NEW L \in Nat, NEW S \in Nat \ {0}, S <= L, NEW q \in Nat \ {0}
  PROVE  LET a == Least(L, q + S)
             b == Least(L, q)
             e == Least(Least(a, b), L - S)
         IN  a \in Nat /\ b \in Nat \ {0} /\ e \in Nat /\ e <= b /\ a - e = S
  BY SMT DEF Least

\* Where two tiles overlap, row y of the lower one is row y of the picture it
\* begins at, and so is the row of the upper one it is blended with: what is
\* left of the upper one is a stride.
LEMMA Aligned ==
  ASSUME NEW op \in Ops, NEW n \in Nat,
         NEW k \in 0 .. (Count(n, op) - 1), k > 0
  PROVE  LET a == Length(k - 1, n, op)
             b == Length(k, n, op)
         IN  /\ a \in Nat /\ b \in Nat \ {0}
             /\ Extent(a, b, op) \in Nat
             /\ Extent(a, b, op) <= b
             /\ a - Extent(a, b, op) = Stride(op)
<1>1. Stride(op) \in Nat \ {0} /\ Long(op) \in Nat /\ Stride(op) <= Long(op)
  BY Strides
<1>2. k \in Nat /\ k * Stride(op) < n
  BY Begins
<1>3. k * Stride(op) \in Nat /\ (k - 1) * Stride(op) = k * Stride(op) - Stride(op)
  BY <1>1, <1>2, SMTT(30)
<1>4. CASE op = "encode"
  BY <1>1, <1>4 DEF Length, Extent, Least
<1>5. CASE op = "decode"
  <2> DEFINE q == n - k * Stride(op)
  <2>1. q \in Nat \ {0} /\ n - (k - 1) * Stride(op) = q + Stride(op)
    BY <1>1, <1>2, <1>3
  <2>2. /\ Length(k - 1, n, op) = Least(Long(op), q + Stride(op))
        /\ Length(k, n, op) = Least(Long(op), q)
    BY <1>5, <2>1 DEF Length
  <2> HIDE DEF q
  <2> DEFINE a == Least(Long(op), q + Stride(op))
             b == Least(Long(op), q)
             e == Least(Least(a, b), Long(op) - Stride(op))
  <2>3. a \in Nat /\ b \in Nat \ {0} /\ e \in Nat /\ e <= b /\ a - e = Stride(op)
    BY <1>1, <2>1, Overlap
  <2> QED
    BY <2>2, <2>3 DEF Extent
<1> QED
  BY <1>4, <1>5 DEF Ops

\* Every tile that is counted has a length.
LEMMA Lengths ==
  ASSUME NEW op \in Ops, NEW n \in Nat, NEW k \in 0 .. (Count(n, op) - 1)
  PROVE  Length(k, n, op) \in Nat \ {0}
<1>1. Stride(op) \in Nat \ {0} /\ Long(op) \in Nat /\ Stride(op) <= Long(op)
  BY Strides
<1>2. k * Stride(op) < n /\ k * Stride(op) \in Nat
  BY <1>1, Begins, SMTT(30)
<1> QED
  BY <1>1, <1>2 DEF Length, Least

-----------------------------------------------------------------------------
\* A tile of the right shape whose samples are in place.
Fits(t, i, j) ==
  /\ t.h = Length(i, size.h, step) /\ t.w = Length(j, size.w, step)
  /\ DOMAIN t.px = 0 .. (t.h - 1)
  /\ \A y \in 0 .. (t.h - 1) :
       /\ DOMAIN t.px[y] = 0 .. (t.w - 1)
       /\ \A x \in 0 .. (t.w - 1) : \A s \in t.px[y][x] :
            s.y = i * Stride(step) + y /\ s.x = j * Stride(step) + x

\* A step has all of its tiles.
Shaped ==
  /\ DOMAIN tiles = 0 .. (Count(size.h, step) - 1)
  /\ \A i \in 0 .. (Count(size.h, step) - 1) :
       DOMAIN tiles[i] = 0 .. (Count(size.w, step) - 1)

AllFit ==
  \A i \in 0 .. (Count(size.h, step) - 1), j \in 0 .. (Count(size.w, step) - 1) :
    Fits(tiles[i][j], i, j)

\* The inductive invariant: a step has all of its tiles, and all of them fit.
TilesInv ==
  /\ step \in Ops \cup {"idle"}
  /\ step = "idle" => tiles = NoTiles
  /\ step # "idle" =>
       /\ size.h \in Nat /\ size.w \in Nat
       /\ next[1] \in Nat /\ next[2] \in Nat
       /\ Shaped /\ AllFit

\* Blending with the tile above keeps a tile in place.
LEMMA BlendV ==
  ASSUME step \in Ops, size.h \in Nat, size.w \in Nat,
         NEW i \in 0 .. (Count(size.h, step) - 1), i > 0,
         NEW j \in 0 .. (Count(size.w, step) - 1),
         NEW a, NEW b, Fits(a, i - 1, j), Fits(b, i, j)
  PROVE  Fits(blend_v(a, b, step), i, j)
<1> DEFINE e == Extent(a.h, b.h, step)
           t == blend_v(a, b, step)
           S == Stride(step)
<1>1. S \in Nat \ {0} /\ i \in Nat /\ j \in Nat
  BY Strides, Begins
<1>2. a.h \in Nat /\ b.h \in Nat \ {0} /\ e \in Nat /\ e <= b.h /\ a.h - e = S
  BY Aligned DEF Fits
<1>3. a.w = b.w /\ b.w \in Nat
  BY Lengths DEF Fits
<1>4. t.h = b.h /\ t.w = b.w
  BY DEF blend_v
<1>5. t.px = [y \in 0 .. (b.h - 1) |-> [x \in 0 .. (b.w - 1) |->
               IF y >= e THEN b.px[y][x]
               ELSE a.px[a.h - e + y][x] \cup (IF y > 0 THEN b.px[y][x] ELSE {})]]
  BY DEF blend_v
<1> HIDE DEF t, e, S
<1>6. ASSUME NEW y \in 0 .. (b.h - 1), NEW x \in 0 .. (b.w - 1), NEW s \in t.px[y][x]
      PROVE  s.y = i * S + y /\ s.x = j * S + x
  <2>1. CASE s \in b.px[y][x]
    BY <2>1 DEF Fits, S
  <2>2. CASE y < e /\ s \in a.px[a.h - e + y][x]
    <3>1. a.h - e + y \in 0 .. (a.h - 1) /\ a.h - e + y = S + y
      BY <1>1, <1>2, <2>2
    <3>2. s.y = (i - 1) * S + (S + y) /\ s.x = j * S + x
      BY <1>3, <2>2, <3>1 DEF Fits, S
    <3>3. (i - 1) * S + (S + y) = i * S + y
      BY <1>1, SMTT(30)
    <3> QED
      BY <3>2, <3>3
  <2>3. s \in b.px[y][x] \/ (y < e /\ s \in a.px[a.h - e + y][x])
    BY <1>2, <1>5
  <2> QED
    BY <2>1, <2>2, <2>3
<1>7. /\ DOMAIN t.px = 0 .. (t.h - 1)
      /\ \A y \in 0 .. (t.h - 1) : DOMAIN t.px[y] = 0 .. (t.w - 1)
  BY <1>4, <1>5
<1>8. Fits(t, i, j)
  BY <1>4, <1>6, <1>7 DEF Fits, S
<1> QED
  BY <1>8 DEF t

\* So does blending with the tile on its left.
LEMMA BlendH ==
  ASSUME step \in Ops, size.h \in Nat, size.w \in Nat,
         NEW i \in 0 .. (Count(size.h, step) - 1),
         NEW j \in 0 .. (Count(size.w, step) - 1), j > 0,
         NEW a, NEW b, Fits(a, i, j - 1), Fits(b, i, j)
  PROVE  Fits(blend_h(a, b, step), i, j)
<1> DEFINE e == Extent(a.w, b.w, step)
           t == blend_h(a, b, step)
           S == Stride(step)
<1>1. S \in Nat \ {0} /\ i \in Nat /\ j \in Nat
  BY Strides, Begins
<1>2. a.w \in Nat /\ b.w \in Nat \ {0} /\ e \in Nat /\ e <= b.w /\ a.w - e = S
  BY Aligned DEF Fits
<1>3. a.h = b.h /\ b.h \in Nat
  BY Lengths DEF Fits
<1>4. t.h = b.h /\ t.w = b.w
  BY DEF blend_h
<1>5. t.px = [y \in 0 .. (b.h - 1) |-> [x \in 0 .. (b.w - 1) |->
               IF x >= e THEN b.px[y][x]
               ELSE a.px[y][a.w - e + x] \cup (IF x > 0 THEN b.px[y][x] ELSE {})]]
  BY DEF blend_h
<1> HIDE DEF t, e, S
<1>6. ASSUME NEW y \in 0 .. (b.h - 1), NEW x \in 0 .. (b.w - 1), NEW s \in t.px[y][x]
      PROVE  s.y = i * S + y /\ s.x = j * S + x
  <2>1. CASE s \in b.px[y][x]
    BY <2>1 DEF Fits, S
  <2>2. CASE x < e /\ s \in a.px[y][a.w - e + x]
    <3>1. a.w - e + x \in 0 .. (a.w - 1) /\ a.w - e + x = S + x
      BY <1>1, <1>2, <2>2
    <3>2. s.x = (j - 1) * S + (S + x) /\ s.y = i * S + y
      BY <1>3, <2>2, <3>1 DEF Fits, S
    <3>3. (j - 1) * S + (S + x) = j * S + x
      BY <1>1, SMTT(30)
    <3> QED
      BY <3>2, <3>3
  <2>3. s \in b.px[y][x] \/ (x < e /\ s \in a.px[y][a.w - e + x])
    BY <1>2, <1>5
  <2> QED
    BY <2>1, <2>2, <2>3
<1>7. /\ DOMAIN t.px = 0 .. (t.h - 1)
      /\ \A y \in 0 .. (t.h - 1) : DOMAIN t.px[y] = 0 .. (t.w - 1)
  BY <1>4, <1>5
<1>8. Fits(t, i, j)
  BY <1>4, <1>6, <1>7 DEF Fits, S
<1> QED
  BY <1>8 DEF t

\* A tile that has just been made is in place.
LEMMA Made ==
  ASSUME NEW op \in Ops, NEW h \in Nat, NEW w \in Nat
  PROVE  Make(op, h, w) => TilesInv'
<1> SUFFICES ASSUME Make(op, h, w) PROVE TilesInv'
  OBVIOUS
<1>1. /\ step' = op /\ size' = [h |-> h, w |-> w]
      /\ tiles' = Tiles(h, w, op) /\ next' = <<0, 0>>
  BY DEF Make, Size
<1>2. ASSUME NEW i \in 0 .. (Count(h, op) - 1), NEW j \in 0 .. (Count(w, op) - 1)
      PROVE  Fits(tiles[i][j], i, j)'
  <2>1. tiles'[i][j] = Tile(i, j, h, w, op)
    BY <1>1 DEF Tiles
  <2> QED
    BY <1>1, <2>1 DEF Fits, Tile
<1>3. /\ DOMAIN tiles' = 0 .. (Count(h, op) - 1)
      /\ \A i \in 0 .. (Count(h, op) - 1) : DOMAIN tiles'[i] = 0 .. (Count(w, op) - 1)
  BY <1>1 DEF Tiles
<1>4. Shaped'
  <2>1. size'.h = h /\ size'.w = w
    BY <1>1
  <2> QED
    BY <1>1, <1>3, <2>1 DEF Shaped
<1>5. AllFit'
  BY <1>1, <1>2 DEF AllFit
<1>6. op # "idle"
  BY DEF Ops
<1> QED
  BY <1>1, <1>4, <1>5, <1>6 DEF TilesInv

\* A turn of the loop keeps all tiles in place.
LEMMA BlendKeeps ==
  TilesInv /\ Blend => TilesInv'
<1> SUFFICES ASSUME TilesInv, Blend PROVE TilesInv'
  OBVIOUS
<1> DEFINE i == next[1]
           j == next[2]
           rows == 0 .. (Count(size.h, step) - 1)
           cols == 0 .. (Count(size.w, step) - 1)
<1>1. /\ step \in Ops /\ size.h \in Nat /\ size.w \in Nat
      /\ i \in Nat /\ j \in Nat /\ DOMAIN tiles = rows
      /\ \A k \in rows : DOMAIN tiles[k] = cols /\ \A l \in cols : Fits(tiles[k][l], k, l)
  BY DEF TilesInv, Blend, Shaped, AllFit
<1>2. i < Count(size.h, step) /\ j < Count(size.w, step)
  BY DEF Blend
<1>3. Count(size.h, step) \in Int /\ Count(size.w, step) \in Int
  BY <1>1, Strides, Quotient DEF Count
<1>4. i \in rows /\ j \in cols
  BY <1>1, <1>2, <1>3
<1>5. Fits(Down(i, j), i, j)
  <2>1. CASE i > 0
    <3>1. i - 1 \in rows
      BY <1>1, <1>3, <1>4, <2>1
    <3> QED
      BY <1>1, <1>4, <2>1, <3>1, BlendV DEF Down
  <2>2. CASE ~ (i > 0)
    BY <1>1, <1>4, <2>2 DEF Down
  <2> QED
    BY <2>1, <2>2
<1>6. Fits(Across(i, j), i, j)
  <2>1. CASE j > 0
    <3>1. j - 1 \in cols
      BY <1>1, <1>3, <1>4, <2>1
    <3> QED
      BY <1>1, <1>4, <1>5, <2>1, <3>1, BlendH DEF Across
  <2>2. CASE ~ (j > 0)
    BY <1>5, <2>2 DEF Across
  <2> QED
    BY <2>1, <2>2
<1>7. tiles' = [tiles EXCEPT ![i][j] = Across(i, j)] /\ UNCHANGED <<step, size>>
  BY DEF Blend
<1>8. next'[1] \in Nat /\ next'[2] \in Nat
  BY <1>1 DEF Blend
<1> HIDE DEF i, j, rows, cols
<1>9. DOMAIN tiles' = rows
  BY <1>1, <1>7
<1>10. ASSUME NEW k \in rows
       PROVE  DOMAIN tiles'[k] = cols
  BY <1>1, <1>4, <1>7
<1>11. ASSUME NEW k \in rows, NEW l \in cols
       PROVE  Fits(tiles'[k][l], k, l)
  BY <1>1, <1>4, <1>6, <1>7
<1>12. ASSUME NEW k \in rows, NEW l \in cols
       PROVE  Fits(tiles[k][l], k, l)'
  BY <1>7, <1>11 DEF Fits
<1>13. Shaped'
  BY <1>7, <1>9, <1>10 DEF Shaped, rows, cols
<1>14. AllFit'
  BY <1>7, <1>12 DEF AllFit, rows, cols
<1>15. step # "idle"
  BY <1>1 DEF Ops
<1> QED
  BY <1>1, <1>7, <1>8, <1>13, <1>14, <1>15 DEF TilesInv

-----------------------------------------------------------------------------
\* The sides of a frame are natural numbers.
FrameOK == frame.h \in Nat /\ frame.w \in Nat

\* The sides of the latents are natural numbers, too.
LEMMA SidesAreNat ==
  ASSUME NEW n \in Nat, NEW train
  PROVE  LatentSide(n, train) \in Nat
<1>1. TileStride \in Nat \ {0} /\ Ratio \in Nat \ {0} /\ Stride("encode") \in Nat
  BY TileAssumption, Strides DEF Ops
<1> DEFINE made == ((n + TileStride - 1) \div TileStride) * Stride("encode")
<1>2. (n + TileStride - 1) \div TileStride \in Nat
  BY <1>1, Quotient
<1>3. made \in Nat
  BY <1>1, <1>2, SMTT(30)
<1>4. n \div Ratio \in Nat
  BY <1>1, Quotient
<1> HIDE DEF made
<1>5. Least(made, n \div Ratio) \in Nat
  BY <1>3, <1>4 DEF Least
<1> QED
  BY <1>3, <1>5 DEF LatentSide, made

\* Tiles fit, in every state: the invariant is inductive.
THEOREM TilesFit == TilesSpec => [](TilesInv /\ FrameOK)
<1>1. TilesInit => TilesInv /\ FrameOK
  BY DEF TilesInit, TilesInv, FrameOK
<1>2. TilesInv /\ FrameOK /\ [TilesNext]_tilevars => (TilesInv /\ FrameOK)'
  <2> SUFFICES ASSUME TilesInv, FrameOK, [TilesNext]_tilevars
               PROVE  TilesInv' /\ FrameOK'
    OBVIOUS
  <2>1. ASSUME NEW h \in Heights, NEW w \in Widths, NEW train \in BOOLEAN,
               Encode(h, w, train)
        PROVE  TilesInv' /\ FrameOK'
    <3>1. h \in Nat /\ w \in Nat
      BY TileAssumption
    <3>2. LatentSide(h, TRUE) \in Nat /\ LatentSide(w, TRUE) \in Nat
      BY <3>1, SidesAreNat
    <3> QED
      BY <2>1, <3>1, <3>2, Made DEF Encode, FrameOK, Ops
  <2>2. CASE Blend
    BY <2>2, BlendKeeps DEF Blend, FrameOK
  <2>3. CASE Decode
    <3> DEFINE h == LatentSide(frame.h, frame.train)
               w == LatentSide(frame.w, frame.train)
    <3>1. h \in Nat /\ w \in Nat
      BY SidesAreNat DEF FrameOK
    <3>2. h * Ratio \in Nat /\ w * Ratio \in Nat
      <4> HIDE DEF h, w
      <4> QED
        BY <3>1, TileAssumption, SMTT(30)
    <3>3. Make("decode", h * Ratio, w * Ratio) /\ UNCHANGED frame
      BY <2>3 DEF Decode
    <3> QED
      BY <3>2, <3>3, Made DEF FrameOK, Ops
  <2>4. CASE Finish
    BY <2>4 DEF Finish, TilesInv, FrameOK
  <2>5. CASE UNCHANGED tilevars
    BY <2>5 DEF tilevars, TilesInv, FrameOK, Shaped, AllFit, Fits
  <2> QED
    BY <2>1, <2>2, <2>3, <2>4, <2>5 DEF TilesNext
<1> QED
  BY <1>1, <1>2, PTL DEF TilesSpec

\* No blending, whatever was blended before, moves a sample: blend_v and
\* blend_h of models/precond.py work in place, on tiles that are blended
\* already, and the last tiles of a row or column are shorter than the others.
THEOREM TilesInPlace == TilesSpec => []InPlace
<1>1. TilesInv => InPlace
  <2> SUFFICES ASSUME TilesInv PROVE InPlace
    OBVIOUS
  <2>1. CASE step = "idle"
    BY <2>1 DEF TilesInv, InPlace, NoTiles
  <2>2. CASE step # "idle"
    <3> SUFFICES ASSUME NEW i \in DOMAIN tiles, NEW j \in DOMAIN tiles[i],
                        NEW y \in DOMAIN tiles[i][j].px,
                        NEW x \in DOMAIN tiles[i][j].px[y],
                        NEW s \in tiles[i][j].px[y][x]
                 PROVE  s.y = i * Stride(step) + y /\ s.x = j * Stride(step) + x
      BY DEF InPlace
    <3>1. Shaped /\ AllFit
      BY <2>2 DEF TilesInv
    <3>2. Fits(tiles[i][j], i, j)
      BY <3>1 DEF Shaped, AllFit
    <3> QED
      BY <3>2 DEF Fits
  <2> QED
    BY <2>1, <2>2
<1> QED
  BY <1>1, TilesFit, PTL

-----------------------------------------------------------------------------
(***************************************************************************)
(* There are no seams.  Rows and columns of tiles are blended in order, so *)
(* that the tile above and the one on the left have been blended when a    *)
(* tile is: what is passed on is what they continue themselves.            *)
(***************************************************************************)
Overlaps == TileStride < TileMin

\* A sample that is not on the upper or left edge of its own tile, unless
\* that is the edge of the picture.
ContinuesDown(s) == s.i > 0 => s.y > s.i * Stride(step)
ContinuesAcross(s) == s.j > 0 => s.x > s.j * Stride(step)

\* No pixel of a tile is missing.
Whole(t) == \A y \in 0 .. (t.h - 1), x \in 0 .. (t.w - 1) : t.px[y][x] # {}

\* A tile that has been blended, and one that has been with the tile above.
Smooth(t) ==
  \A y \in 0 .. (t.h - 1), x \in 0 .. (t.w - 1) : \A s \in t.px[y][x] :
    ContinuesDown(s) /\ ContinuesAcross(s)
SmoothAbove(t, j) ==
  \A y \in 0 .. (t.h - 1), x \in 0 .. (t.w - 1) : \A s \in t.px[y][x] :
    ContinuesDown(s) /\ (x > 0 \/ j = 0 => ContinuesAcross(s))

Passed(i, j) == i < next[1] \/ (i = next[1] /\ j < next[2])

\* The tiles up to next have been blended, and the others are as made.
SeamInv ==
  step # "idle" =>
    \A i \in 0 .. (Count(size.h, step) - 1), j \in 0 .. (Count(size.w, step) - 1) :
      /\ Whole(tiles[i][j])
      /\ Overlaps /\ Passed(i, j) => Smooth(tiles[i][j])
      /\ ~ Passed(i, j) => tiles[i][j] = Tile(i, j, size.h, size.w, step)

\* The picture under way is that of the frame.
SizeInv ==
  /\ step # "idle" =>
       frame.h \in Nat \ {0} /\ frame.w \in Nat \ {0} /\ frame.train \in BOOLEAN
  /\ step = "encode" =>
       size.h = LatentSide(frame.h, TRUE) /\ size.w = LatentSide(frame.w, TRUE)
  /\ step = "decode" =>
       /\ size.h = LatentSide(frame.h, frame.train) * Ratio /\ size.h > 0
       /\ size.w = LatentSide(frame.w, frame.train) * Ratio /\ size.w > 0

\* Tiles that overlap as frames overlap as latents.
LEMMA OverlapsToo ==
  ASSUME NEW op \in Ops, Overlaps
  PROVE  Stride(op) < Long(op)
<1> USE TileAssumption
<1>1. CASE op = "decode"
  BY <1>1 DEF Long, Stride, Overlaps
<1>2. CASE op = "encode"
  <2> DEFINE l == TileMin \div Ratio
             s == TileStride \div Ratio
  <2>1. l \in Nat /\ s \in Nat
    BY Quotient
  <2>2. l * Ratio = TileMin /\ s * Ratio = TileStride
    BY Divided
  <2>3. ~ (l * Ratio <= s * Ratio)
    BY <2>2 DEF Overlaps
  <2>4. s <= l /\ s # l
    <3>1. s * Ratio <= l * Ratio
      BY <2>2
    <3>2. s <= l
      BY <2>1, <3>1, Monotone
    <3> QED
      BY <2>3, <3>2, <3>1
  <2> HIDE DEF l, s
  <2>5. s < l
    BY <2>1, <2>4
  <2> QED
    BY <1>2, <2>5 DEF Long, Stride, l, s
<1> QED
  BY <1>1, <1>2 DEF Ops

\* Where tiles overlap, at least one row or column is blended.
LEMMA SomeBlended ==
  ASSUME NEW op \in Ops, NEW a \in Nat \ {0}, NEW b \in Nat \ {0}, Overlaps
  PROVE  Extent(a, b, op) > 0
<1>1. Stride(op) \in Nat \ {0} /\ Long(op) \in Nat /\ Stride(op) < Long(op)
  BY Strides, OverlapsToo
<1> QED
  BY <1>1 DEF Extent, Least

\* A tile that has just been made continues nothing on its own upper and left
\* edge only.
LEMMA MadeSmooth ==
  ASSUME step \in Ops, size.h \in Nat, size.w \in Nat,
         NEW i \in 0 .. (Count(size.h, step) - 1),
         NEW j \in 0 .. (Count(size.w, step) - 1),
         NEW b, b = Tile(i, j, size.h, size.w, step)
  PROVE  /\ Whole(b)
         /\ \A y \in 0 .. (b.h - 1), x \in 0 .. (b.w - 1) : \A s \in b.px[y][x] :
              /\ y > 0 \/ i = 0 => ContinuesDown(s)
              /\ x > 0 \/ j = 0 => ContinuesAcross(s)
<1> DEFINE S == Stride(step)
<1>1. S \in Nat \ {0} /\ i \in Nat /\ j \in Nat
  BY Strides, Begins
<1>2. b.h \in Nat /\ b.w \in Nat
  BY Lengths DEF Tile
<1>3. i * S \in Nat /\ j * S \in Nat
  BY <1>1, SMTT(30)
<1>4. ASSUME NEW y \in 0 .. (b.h - 1), NEW x \in 0 .. (b.w - 1)
      PROVE  b.px[y][x] = {[i |-> i, j |-> j, y |-> i * S + y, x |-> j * S + x]}
  BY DEF Tile
<1> HIDE DEF S
<1>5. ASSUME NEW y \in 0 .. (b.h - 1), NEW x \in 0 .. (b.w - 1), NEW s \in b.px[y][x]
      PROVE  /\ y > 0 \/ i = 0 => ContinuesDown(s)
             /\ x > 0 \/ j = 0 => ContinuesAcross(s)
  <2>1. s.i = i /\ s.j = j /\ s.y = i * S + y /\ s.x = j * S + x
    BY <1>4
  <2>2. y \in Nat /\ x \in Nat
    OBVIOUS
  <2>3. (y > 0 => i * S + y > i * S) /\ (x > 0 => j * S + x > j * S)
    BY <1>3, <2>2
  <2> QED
    BY <1>1, <2>1, <2>2, <2>3 DEF ContinuesDown, ContinuesAcross, S
<1> QED
  BY <1>4, <1>5 DEF Whole

\* Blended with the tile above, no pixel goes missing; if the tile above has
\* been blended, the upper edge is its own continuation.
LEMMA SmoothV ==
  ASSUME step \in Ops, size.h \in Nat, size.w \in Nat,
         NEW i \in 0 .. (Count(size.h, step) - 1), i > 0,
         NEW j \in 0 .. (Count(size.w, step) - 1),
         NEW a, NEW b, Fits(a, i - 1, j), Fits(b, i, j), Whole(a),
         b = Tile(i, j, size.h, size.w, step)
  PROVE  /\ Whole(blend_v(a, b, step))
         /\ Overlaps /\ Smooth(a) => SmoothAbove(blend_v(a, b, step), j)
<1> DEFINE e == Extent(a.h, b.h, step)
           t == blend_v(a, b, step)
           S == Stride(step)
<1>1. S \in Nat \ {0} /\ i \in Nat /\ j \in Nat
  BY Strides, Begins
<1>2. a.h \in Nat /\ b.h \in Nat \ {0} /\ e \in Nat /\ e <= b.h /\ a.h - e = S
  BY Aligned DEF Fits
<1>3. a.w = b.w /\ b.w \in Nat
  BY Lengths DEF Fits
<1>4. t.h = b.h /\ t.w = b.w
  BY DEF blend_v
<1>5. t.px = [y \in 0 .. (b.h - 1) |-> [x \in 0 .. (b.w - 1) |->
               IF y >= e THEN b.px[y][x]
               ELSE a.px[a.h - e + y][x] \cup (IF y > 0 THEN b.px[y][x] ELSE {})]]
  BY DEF blend_v
<1>6. Overlaps => e > 0
  <2>1. a.h \in Nat \ {0}
    BY <1>1, <1>2
  <2> QED
    BY <1>2, <2>1, SomeBlended
<1>7. /\ Whole(b)
      /\ \A y \in 0 .. (b.h - 1), x \in 0 .. (b.w - 1) : \A s \in b.px[y][x] :
           /\ y > 0 \/ i = 0 => ContinuesDown(s)
           /\ x > 0 \/ j = 0 => ContinuesAcross(s)
  BY MadeSmooth
<1> HIDE DEF t, e, S
<1>8. ASSUME NEW y \in 0 .. (b.h - 1), NEW x \in 0 .. (b.w - 1)
      PROVE  /\ t.px[y][x] # {}
             /\ Overlaps /\ Smooth(a) =>
                  \A s \in t.px[y][x] :
                    ContinuesDown(s) /\ (x > 0 \/ j = 0 => ContinuesAcross(s))
  <2>1. CASE y >= e
    <3>1. t.px[y][x] = b.px[y][x]
      BY <1>5, <2>1
    <3>2. Overlaps => y > 0
      BY <1>2, <1>6, <2>1
    <3> QED
      BY <1>7, <3>1, <3>2 DEF Whole
  <2>2. CASE ~ (y >= e)
    <3> DEFINE z == a.h - e + y
    <3>1. t.px[y][x] = a.px[z][x] \cup (IF y > 0 THEN b.px[y][x] ELSE {})
      BY <1>5, <2>2
    <3>2. z \in 0 .. (a.h - 1) /\ x \in 0 .. (a.w - 1)
      BY <1>1, <1>2, <1>3, <2>2
    <3> HIDE DEF z
    <3>3. a.px[z][x] # {}
      BY <3>2 DEF Whole
    <3>4. Smooth(a) => \A s \in a.px[z][x] : ContinuesDown(s) /\ ContinuesAcross(s)
      BY <3>2 DEF Smooth
    <3> QED
      BY <1>7, <3>1, <3>3, <3>4
  <2> QED
    BY <2>1, <2>2
<1>9. Whole(t) /\ (Overlaps /\ Smooth(a) => SmoothAbove(t, j))
  BY <1>4, <1>8 DEF Whole, SmoothAbove
<1> QED
  BY <1>9 DEF t

\* Blended with the tile on its left, a tile continues both.
LEMMA SmoothH ==
  ASSUME step \in Ops, size.h \in Nat, size.w \in Nat,
         NEW i \in 0 .. (Count(size.h, step) - 1),
         NEW j \in 0 .. (Count(size.w, step) - 1), j > 0,
         NEW a, NEW b, Fits(a, i, j - 1), Fits(b, i, j), Whole(a), Whole(b)
  PROVE  /\ Whole(blend_h(a, b, step))
         /\ Overlaps /\ Smooth(a) /\ SmoothAbove(b, j) => Smooth(blend_h(a, b, step))
<1> DEFINE e == Extent(a.w, b.w, step)
           t == blend_h(a, b, step)
           S == Stride(step)
<1>1. S \in Nat \ {0} /\ i \in Nat /\ j \in Nat
  BY Strides, Begins
<1>2. a.w \in Nat /\ b.w \in Nat \ {0} /\ e \in Nat /\ e <= b.w /\ a.w - e = S
  BY Aligned DEF Fits
<1>3. a.h = b.h /\ b.h \in Nat
  BY Lengths DEF Fits
<1>4. t.h = b.h /\ t.w = b.w
  BY DEF blend_h
<1>5. t.px = [y \in 0 .. (b.h - 1) |-> [x \in 0 .. (b.w - 1) |->
               IF x >= e THEN b.px[y][x]
               ELSE a.px[y][a.w - e + x] \cup (IF x > 0 THEN b.px[y][x] ELSE {})]]
  BY DEF blend_h
<1>6. Overlaps => e > 0
  <2>1. a.w \in Nat \ {0}
    BY <1>1, <1>2
  <2> QED
    BY <1>2, <2>1, SomeBlended
<1> HIDE DEF t, e, S
<1>7. ASSUME NEW y \in 0 .. (b.h - 1), NEW x \in 0 .. (b.w - 1)
      PROVE  /\ t.px[y][x] # {}
             /\ Overlaps /\ Smooth(a) /\ SmoothAbove(b, j) =>
                  \A s \in t.px[y][x] : ContinuesDown(s) /\ ContinuesAcross(s)
  <2>1. b.px[y][x] # {}
    BY DEF Whole
  <2>2. SmoothAbove(b, j) /\ x > 0 =>
          \A s \in b.px[y][x] : ContinuesDown(s) /\ ContinuesAcross(s)
    BY DEF SmoothAbove
  <2>3. CASE x >= e
    <3>1. t.px[y][x] = b.px[y][x]
      BY <1>5, <2>3
    <3>2. Overlaps => x > 0
      BY <1>2, <1>6, <2>3
    <3> QED
      BY <2>1, <2>2, <3>1, <3>2
  <2>4. CASE ~ (x >= e)
    <3> DEFINE z == a.w - e + x
    <3>1. t.px[y][x] = a.px[y][z] \cup (IF x > 0 THEN b.px[y][x] ELSE {})
      BY <1>5, <2>4
    <3>2. z \in 0 .. (a.w - 1) /\ y \in 0 .. (a.h - 1)
      BY <1>1, <1>2, <1>3, <2>4
    <3> HIDE DEF z
    <3>3. a.px[y][z] # {}
      BY <3>2 DEF Whole
    <3>4. Smooth(a) => \A s \in a.px[y][z] : ContinuesDown(s) /\ ContinuesAcross(s)
      BY <3>2 DEF Smooth
    <3> QED
      BY <2>2, <3>1, <3>3, <3>4
  <2> QED
    BY <2>3, <2>4
<1>8. Whole(t) /\ (Overlaps /\ Smooth(a) /\ SmoothAbove(b, j) => Smooth(t))
  BY <1>4, <1>7 DEF Whole, Smooth
<1> QED
  BY <1>8 DEF t

\* The invariant starts with a step.
LEMMA MadeSeam ==
  ASSUME NEW op \in Ops, NEW h \in Nat, NEW w \in Nat
  PROVE  Make(op, h, w) => SeamInv'
<1> SUFFICES ASSUME Make(op, h, w) PROVE SeamInv'
  OBVIOUS
<1>1. /\ step' = op /\ size' = [h |-> h, w |-> w] /\ size'.h = h /\ size'.w = w
      /\ tiles' = Tiles(h, w, op) /\ next' = <<0, 0>>
  BY DEF Make, Size
<1>2. ASSUME NEW i \in 0 .. (Count(h, op) - 1), NEW j \in 0 .. (Count(w, op) - 1)
      PROVE  /\ tiles'[i][j] = Tile(i, j, h, w, op)
             /\ Whole(Tile(i, j, h, w, op))
             /\ ~ (i < 0 \/ (i = 0 /\ j < 0))
  <2>1. tiles'[i][j] = Tile(i, j, h, w, op)
    BY <1>1 DEF Tiles
  <2> DEFINE b == Tile(i, j, h, w, op)
  <2>2. \A y \in 0 .. (b.h - 1), x \in 0 .. (b.w - 1) :
          b.px[y][x] = {[i |-> i, j |-> j, y |-> i * Stride(op) + y, x |-> j * Stride(op) + x]}
    BY DEF Tile
  <2> HIDE DEF b
  <2>3. Whole(b)
    BY <2>2 DEF Whole
  <2>4. i >= 0 /\ j >= 0
    BY Strides, Begins
  <2> QED
    BY <2>1, <2>3, <2>4 DEF b
<1> QED
  BY <1>1, <1>2 DEF SeamInv, Passed, Whole

\* A turn of the loop blends the next tile, with neighbours that are blended.
LEMMA BlendSeam ==
  TilesInv /\ SeamInv /\ Blend => SeamInv'
<1> SUFFICES ASSUME TilesInv, SeamInv, Blend PROVE SeamInv'
  OBVIOUS
<1> DEFINE i == next[1]
           j == next[2]
           rows == 0 .. (Count(size.h, step) - 1)
           cols == 0 .. (Count(size.w, step) - 1)
<1>1. /\ step \in Ops /\ size.h \in Nat /\ size.w \in Nat
      /\ i \in Nat /\ j \in Nat /\ DOMAIN tiles = rows
      /\ \A k \in rows : DOMAIN tiles[k] = cols /\ \A l \in cols : Fits(tiles[k][l], k, l)
  BY DEF TilesInv, Blend, Shaped, AllFit
<1>2. i < Count(size.h, step) /\ j < Count(size.w, step)
  BY DEF Blend
<1>3. Count(size.h, step) \in Int /\ Count(size.w, step) \in Int
  BY <1>1, Strides, Quotient DEF Count
<1>4. i \in rows /\ j \in cols
  BY <1>1, <1>2, <1>3
<1>5. \A k \in rows, l \in cols :
        /\ Whole(tiles[k][l])
        /\ Overlaps /\ Passed(k, l) => Smooth(tiles[k][l])
        /\ ~ Passed(k, l) => tiles[k][l] = Tile(k, l, size.h, size.w, step)
  BY <1>1 DEF SeamInv, Ops
<1>6. tiles[i][j] = Tile(i, j, size.h, size.w, step)
  BY <1>1, <1>4, <1>5 DEF Passed
<1>7. /\ Fits(Down(i, j), i, j) /\ Whole(Down(i, j))
      /\ Overlaps => SmoothAbove(Down(i, j), j)
  <2>1. CASE i > 0
    <3>1. i - 1 \in rows /\ Passed(i - 1, j)
      BY <1>1, <1>3, <1>4, <2>1 DEF Passed
    <3>2. Down(i, j) = blend_v(tiles[i - 1][j], tiles[i][j], step)
      BY <2>1 DEF Down
    <3>3. Fits(tiles[i - 1][j], i - 1, j) /\ Fits(tiles[i][j], i, j)
      BY <1>1, <1>4, <3>1
    <3>4. Whole(tiles[i - 1][j]) /\ (Overlaps => Smooth(tiles[i - 1][j]))
      BY <1>4, <1>5, <3>1
    <3>5. Fits(blend_v(tiles[i - 1][j], tiles[i][j], step), i, j)
      BY <1>1, <1>4, <2>1, <3>3, BlendV
    <3>6. /\ Whole(blend_v(tiles[i - 1][j], tiles[i][j], step))
          /\ Overlaps /\ Smooth(tiles[i - 1][j]) =>
               SmoothAbove(blend_v(tiles[i - 1][j], tiles[i][j], step), j)
      BY <1>1, <1>4, <1>6, <2>1, <3>3, <3>4, SmoothV
    <3> QED
      BY <3>2, <3>4, <3>5, <3>6
  <2>2. CASE ~ (i > 0)
    <3>1. i = 0 /\ Down(i, j) = tiles[i][j]
      BY <1>1, <2>2 DEF Down
    <3>2. Fits(tiles[i][j], i, j)
      BY <1>1, <1>4
    <3>3. /\ Whole(tiles[i][j])
          /\ \A y \in 0 .. (tiles[i][j].h - 1), x \in 0 .. (tiles[i][j].w - 1) :
               \A s \in tiles[i][j].px[y][x] :
                 /\ y > 0 \/ i = 0 => ContinuesDown(s)
                 /\ x > 0 \/ j = 0 => ContinuesAcross(s)
      BY <1>1, <1>4, <1>6, MadeSmooth
    <3> QED
      BY <3>1, <3>2, <3>3 DEF SmoothAbove
  <2> QED
    BY <2>1, <2>2
<1>8. /\ Whole(Across(i, j))
      /\ Overlaps => Smooth(Across(i, j))
  <2>1. CASE j > 0
    <3>1. j - 1 \in cols /\ Passed(i, j - 1)
      BY <1>1, <1>3, <1>4, <2>1 DEF Passed
    <3>2. Across(i, j) = blend_h(tiles[i][j - 1], Down(i, j), step)
      BY <2>1 DEF Across
    <3>3. Fits(tiles[i][j - 1], i, j - 1)
      BY <1>1, <1>4, <3>1
    <3>4. Whole(tiles[i][j - 1]) /\ (Overlaps => Smooth(tiles[i][j - 1]))
      BY <1>4, <1>5, <3>1
    <3>5. /\ Whole(blend_h(tiles[i][j - 1], Down(i, j), step))
          /\ Overlaps /\ Smooth(tiles[i][j - 1]) /\ SmoothAbove(Down(i, j), j) =>
               Smooth(blend_h(tiles[i][j - 1], Down(i, j), step))
      BY <1>1, <1>4, <1>7, <2>1, <3>3, <3>4, SmoothH
    <3> QED
      BY <1>7, <3>2, <3>4, <3>5
  <2>2. CASE ~ (j > 0)
    <3>1. j = 0 /\ Across(i, j) = Down(i, j)
      BY <1>1, <2>2 DEF Across
    <3> QED
      BY <1>7, <3>1 DEF SmoothAbove, Smooth
  <2> QED
    BY <2>1, <2>2
<1>9. tiles' = [tiles EXCEPT ![i][j] = Across(i, j)] /\ UNCHANGED <<step, size>>
  BY DEF Blend
<1>10. next' = IF j + 1 < Count(size.w, step) THEN <<i, j + 1>> ELSE <<i + 1, 0>>
  BY DEF Blend
<1> HIDE DEF i, j, rows, cols
<1>11. ASSUME NEW k \in rows, NEW l \in cols
       PROVE  /\ k = i /\ l = j => tiles'[k][l] = Across(i, j)
              /\ ~ (k = i /\ l = j) => tiles'[k][l] = tiles[k][l]
  BY <1>1, <1>4, <1>9
<1>12. ASSUME NEW k \in rows, NEW l \in cols
       PROVE  (k < next'[1] \/ (k = next'[1] /\ l < next'[2]))
                <=> Passed(k, l) \/ (k = i /\ l = j)
  <2>1. k \in Nat /\ l \in Nat /\ l < Count(size.w, step)
    BY <1>3 DEF rows, cols
  <2>2. Passed(k, l) <=> k < i \/ (k = i /\ l < j)
    BY DEF Passed, i, j
  <2>3. CASE j + 1 < Count(size.w, step)
    BY <1>1, <1>10, <2>1, <2>2, <2>3
  <2>4. CASE ~ (j + 1 < Count(size.w, step))
    BY <1>1, <1>3, <1>10, <2>1, <2>2, <2>4
  <2> QED
    BY <2>3, <2>4
<1>13. ASSUME NEW k \in rows, NEW l \in cols
       PROVE  /\ Whole(tiles'[k][l])
              /\ Overlaps /\ (Passed(k, l) \/ (k = i /\ l = j)) => Smooth(tiles'[k][l])
              /\ ~ (Passed(k, l) \/ (k = i /\ l = j)) =>
                   tiles'[k][l] = Tile(k, l, size.h, size.w, step)
  BY <1>5, <1>8, <1>11
<1>14. ASSUME NEW k \in rows, NEW l \in cols
       PROVE  /\ Whole(tiles[k][l])'
              /\ (Overlaps /\ Passed(k, l) => Smooth(tiles[k][l]))'
              /\ (~ Passed(k, l) => tiles[k][l] = Tile(k, l, size.h, size.w, step))'
  <2>1. /\ Whole(tiles'[k][l]) => Whole(tiles[k][l])'
        /\ Smooth(tiles'[k][l]) => Smooth(tiles[k][l])'
    BY <1>9 DEF Smooth, Whole, ContinuesDown, ContinuesAcross
  <2>2. Overlaps' <=> Overlaps
    BY DEF Overlaps
  <2>3. Passed(k, l)' <=> Passed(k, l) \/ (k = i /\ l = j)
    BY <1>12 DEF Passed
  <2> QED
    BY <1>9, <1>13, <2>1, <2>2, <2>3
<1> QED
  BY <1>9, <1>14 DEF SeamInv, rows, cols

-----------------------------------------------------------------------------
\* The tiles that are counted cover the side.
LEMMA Covered ==
  ASSUME NEW op \in Ops, NEW n \in Nat
  PROVE  n <= Count(n, op) * Stride(op) /\ Count(n, op) \in Nat
<1> DEFINE S == Stride(op)
           c == Count(n, op)
<1>1. S \in Nat \ {0}
  BY Strides
<1> HIDE DEF S
<1>2. c = (n + S - 1) \div S /\ n + S - 1 \in Nat
  BY <1>1 DEF Count, S
<1>3. c \in Nat /\ n + S - 1 < c * S + S
  BY <1>1, <1>2, Quotient
<1> HIDE DEF c
<1>4. c * S \in Nat
  BY <1>1, <1>3, SMTT(30)
<1> QED
  BY <1>1, <1>3, <1>4 DEF S, c

\* What is left of a division.
LEMMA Remainder ==
  ASSUME NEW a \in Nat, NEW b \in Nat \ {0}
  PROVE  a % b \in 0 .. (b - 1) /\ a % b = a - (a \div b) * b
  BY SMTT(30)

\* A pixel of the picture is one of those that are kept of its tile.
LEMMA PixelKept ==
  ASSUME NEW op \in Ops, NEW n \in Nat, NEW y \in 0 .. (n - 1)
  PROVE  /\ y \div Stride(op) \in 0 .. (Count(n, op) - 1)
         /\ y % Stride(op) \in 0 .. (Length(y \div Stride(op), n, op) - 1)
<1> DEFINE S == Stride(op)
           L == Long(op)
           q == y \div S
           c == Count(n, op)
<1>1. S \in Nat \ {0} /\ L \in Nat /\ S <= L
  BY Strides
<1>2. n <= c * S /\ c \in Nat
  BY Covered
<1>3. Length(q, n, op) = IF op = "encode" THEN L ELSE Least(L, n - q * S)
  BY DEF Length
<1> HIDE DEF S, L, c
<1>4. y \in Nat /\ y < n
  OBVIOUS
<1>5. q \in Nat /\ q * S <= y
  BY <1>1, <1>4, Quotient
<1>6. y % S \in 0 .. (S - 1) /\ y % S = y - q * S
  BY <1>1, <1>4, Remainder
<1> HIDE DEF q
<1>7. q < c
  <2>1. CASE q >= c
    <3>1. q * S >= c * S
      BY <1>1, <1>2, <1>5, <2>1, SMTT(30)
    <3>2. q * S \in Nat /\ c * S \in Nat
      BY <1>1, <1>2, <1>5, SMTT(30)
    <3> QED
      BY <1>2, <1>4, <1>5, <3>1, <3>2
  <2> QED
    BY <1>2, <1>5, <2>1
<1>8. y % S < Length(q, n, op)
  <2>1. q * S \in Nat
    BY <1>1, <1>5, SMTT(30)
  <2>2. y % S < L /\ y % S < n - q * S
    BY <1>1, <1>4, <1>6, <2>1
  <2> QED
    BY <1>3, <2>2 DEF Least
<1>9. Length(q, n, op) \in Int
  BY <1>1, <1>3, <1>5, SMTT(30) DEF Least
<1> QED
  BY <1>2, <1>5, <1>6, <1>7, <1>8, <1>9 DEF q, S, c

\* A division that rounds up, of what is there already.
LEMMA RoundUp ==
  ASSUME NEW c \in Nat, NEW S \in Nat \ {0}
  PROVE  (c * S + S - 1) \div S = c
  BY SMTT(30)

\* The tiles put together are as long as the picture: of latents, which are
\* made in whole strides, and of frames, whose last tile is as long as what
\* is left.
LEMMA SideKept ==
  ASSUME NEW op \in Ops, NEW n \in Nat \ {0},
         op = "encode" => \E c \in Nat : n = c * Stride(op)
  PROVE  PictureSide(n, op) = n
<1> DEFINE S == Stride(op)
           L == Long(op)
           last == Count(n, op) - 1
<1>1. S \in Nat \ {0} /\ L \in Nat /\ S <= L
  BY Strides
<1>2. n <= Count(n, op) * S /\ Count(n, op) \in Nat
  BY Covered
<1>3. PictureSide(n, op) = last * S + Least(Length(last, n, op), S)
  BY DEF PictureSide, Kept
<1>4. Length(last, n, op) = IF op = "encode" THEN L ELSE Least(L, n - last * S)
  BY DEF Length
<1>5. Count(n, op) # 0
  BY <1>1, <1>2
<1>6. last \in 0 .. (Count(n, op) - 1)
  BY <1>2, <1>5
<1>7. last * S < n
  BY <1>6, Begins
<1>8. last \in Nat /\ n <= last * S + S
  <2> HIDE DEF S
  <2>1. Count(n, op) * S = last * S + S
    BY <1>1, <1>2, SMTT(30)
  <2> QED
    BY <1>2, <1>6, <2>1
<1>9. ASSUME op = "encode" PROVE n = last * S + S
  <2>1. PICK c \in Nat : n = c * S
    BY <1>9
  <2>2. Count(n, op) = (c * S + S - 1) \div S
    BY <2>1 DEF Count
  <2>3. Count(n, op) = c
    BY <1>1, <2>2, RoundUp
  <2> HIDE DEF S
  <2>4. c * S = (c - 1) * S + S
    BY <1>1, SMTT(30)
  <2> QED
    BY <2>1, <2>3, <2>4
<1> HIDE DEF S, L, last
<1>10. last * S \in Nat
  BY <1>1, <1>8, SMTT(30)
<1>11. CASE op = "encode"
  <2>1. Least(Length(last, n, op), S) = S
    BY <1>1, <1>4, <1>11 DEF Least
  <2> QED
    BY <1>3, <1>9, <1>11, <2>1
<1>12. CASE op = "decode"
  <2>1. n - last * S <= S /\ n - last * S \in Nat
    BY <1>7, <1>8, <1>10, <1>1
  <2>2. Least(Length(last, n, op), S) = n - last * S
    BY <1>1, <1>4, <1>12, <2>1 DEF Least
  <2> QED
    BY <1>3, <1>10, <2>1, <2>2
<1> QED
  BY <1>11, <1>12 DEF Ops

\* Whole tiles are made of a side, and at least as much as there is of it.
LEMMA SideMade ==
  ASSUME NEW n \in Nat \ {0}
  PROVE  /\ \E c \in Nat : LatentSide(n, TRUE) = c * Stride("encode")
         /\ LatentSide(n, TRUE) \in Nat \ {0}
         /\ LatentSide(n, TRUE) * Ratio >= n
<1> DEFINE c == (n + TileStride - 1) \div TileStride
           S == Stride("encode")
<1>1. TileStride \in Nat \ {0} /\ Ratio \in Nat \ {0} /\ S \in Nat \ {0}
  BY TileAssumption, Strides DEF Ops
<1>2. S * Ratio = TileStride
  BY <1>1, TileAssumption, Divided DEF Stride
<1>3. LatentSide(n, TRUE) = c * S
  BY DEF LatentSide
<1>4. n + TileStride - 1 \in Nat
  BY <1>1
<1>5. c \in Nat /\ n + TileStride - 1 < c * TileStride + TileStride
  BY <1>1, <1>4, Quotient
<1> HIDE DEF c, S
<1>6. c * TileStride \in Nat
  BY <1>1, <1>5, SMTT(30)
<1>7. n <= c * TileStride
  BY <1>1, <1>5, <1>6
<1>8. (c * S) * Ratio = c * (S * Ratio)
  BY <1>1, <1>5, SMTT(30)
<1>9. c # 0
  BY <1>1, <1>7
<1>10. c * S \in Nat \ {0}
  BY <1>1, <1>5, <1>9, SMTT(30)
<1> QED
  BY <1>2, <1>3, <1>5, <1>7, <1>8, <1>10 DEF S

\* The conditioning of a tile is where the tile is, and as long.
LEMMA CondTileFits ==
  ASSUME NEW n \in Nat, NEW k \in 0 .. (Count(n, "decode") - 1)
  PROVE  CondTile(k, n) = <<k * Stride("decode"), Length(k, n, "decode")>>
<1> DEFINE Se == Stride("encode")
           Le == Long("encode")
           S  == Stride("decode")
           L  == Long("decode")
<1>1. Se \in Nat /\ Le \in Nat /\ S \in Nat /\ L \in Nat /\ Ratio \in Nat \ {0}
  BY TileAssumption, Strides DEF Ops
<1>2. Se * Ratio = S /\ Le * Ratio = L
  BY TileAssumption, Divided DEF Stride, Long
<1>3. k \in Nat /\ k * S < n
  BY Begins DEF Ops
<1>4. CondTile(k, n) = <<k * Se * Ratio, Least((k * Se + Le) * Ratio, n) - k * Se * Ratio>>
  BY DEF CondTile
<1>5. Length(k, n, "decode") = Least(L, n - k * S)
  BY DEF Length
<1> HIDE DEF Se, Le, S, L
<1>6. k * Se * Ratio = k * S
  <2>1. k * Se * Ratio = k * (Se * Ratio)
    BY <1>1, <1>3, SMTT(30)
  <2> QED
    BY <1>2, <2>1
<1>7. (k * Se + Le) * Ratio = k * S + L
  <2>1. (k * Se + Le) * Ratio = k * Se * Ratio + Le * Ratio
    BY <1>1, <1>3, SMTT(30)
  <2> QED
    BY <1>2, <1>6, <2>1
<1>8. k * S \in Nat
  BY <1>1, <1>3, SMTT(30)
<1>9. Least(k * S + L, n) - k * S = Least(L, n - k * S)
  BY <1>1, <1>8 DEF Least
<1> QED
  BY <1>4, <1>5, <1>6, <1>7, <1>9 DEF S

\* A picture that is blended is seamless.
LEMMA InvSeamless ==
  TilesInv /\ SeamInv /\ SizeInv => SeamlessPicture
<1> SUFFICES ASSUME TilesInv, SeamInv, SizeInv, step # "idle", Blended
             PROVE  /\ PictureSide(size.h, step) = size.h /\ PictureSide(size.w, step) = size.w
                    /\ step = "decode" /\ frame.train => size.h >= frame.h /\ size.w >= frame.w
                    /\ \A y \in 0 .. (size.h - 1), x \in 0 .. (size.w - 1) :
                         /\ Picture(y, x) # {}
                         /\ TileStride < TileMin =>
                              \A s \in Picture(y, x) :
                                /\ s.i > 0 => s.y > s.i * Stride(step)
                                /\ s.j > 0 => s.x > s.j * Stride(step)
                    /\ step = "decode" =>
                         \A i \in DOMAIN tiles : \A j \in DOMAIN tiles[i] :
                           /\ CondTile(i, size.h) = <<i * Stride(step), tiles[i][j].h>>
                           /\ CondTile(j, size.w) = <<j * Stride(step), tiles[i][j].w>>
  BY DEF SeamlessPicture
<1>1. step \in Ops /\ size.h \in Nat /\ size.w \in Nat /\ Shaped /\ AllFit
  BY DEF TilesInv
<1>2. frame.h \in Nat \ {0} /\ frame.w \in Nat \ {0} /\ frame.train \in BOOLEAN
  BY DEF SizeInv
<1>3. size.h \in Nat \ {0} /\ size.w \in Nat \ {0}
  <2>1. CASE step = "encode"
    BY <1>2, <2>1, SideMade DEF SizeInv
  <2>2. CASE step = "decode"
    BY <1>1, <2>2 DEF SizeInv
  <2> QED
    BY <1>1, <2>1, <2>2 DEF Ops
<1>4. PictureSide(size.h, step) = size.h /\ PictureSide(size.w, step) = size.w
  <2>1. step = "encode" =>
          /\ \E c \in Nat : size.h = c * Stride(step)
          /\ \E c \in Nat : size.w = c * Stride(step)
    BY <1>2, SideMade DEF SizeInv
  <2> QED
    BY <1>1, <1>3, <2>1, SideKept
<1>5. step = "decode" /\ frame.train => size.h >= frame.h /\ size.w >= frame.w
  <2> SUFFICES ASSUME step = "decode", frame.train = TRUE
               PROVE  size.h >= frame.h /\ size.w >= frame.w
    BY <1>2
  <2>1. size.h = LatentSide(frame.h, TRUE) * Ratio /\ size.w = LatentSide(frame.w, TRUE) * Ratio
    BY DEF SizeInv
  <2> QED
    BY <1>2, <2>1, SideMade
<1>6. ASSUME NEW y \in 0 .. (size.h - 1), NEW x \in 0 .. (size.w - 1)
      PROVE  /\ Picture(y, x) # {}
             /\ Overlaps => \A s \in Picture(y, x) : ContinuesDown(s) /\ ContinuesAcross(s)
  <2> DEFINE i == y \div Stride(step)
             j == x \div Stride(step)
             v == y % Stride(step)
             u == x % Stride(step)
  <2>1. /\ i \in 0 .. (Count(size.h, step) - 1) /\ v \in 0 .. (Length(i, size.h, step) - 1)
        /\ j \in 0 .. (Count(size.w, step) - 1) /\ u \in 0 .. (Length(j, size.w, step) - 1)
    BY <1>1, PixelKept
  <2>2. Picture(y, x) = tiles[i][j].px[v][u]
    BY DEF Picture
  <2> HIDE DEF i, j, v, u
  <2>3. v \in 0 .. (tiles[i][j].h - 1) /\ u \in 0 .. (tiles[i][j].w - 1)
    BY <1>1, <2>1 DEF AllFit, Fits
  <2>4. Passed(i, j)
    <3>1. i < Count(size.h, step)
      BY <1>1, <2>1, Covered
    <3> QED
      BY <3>1 DEF Passed, Blended
  <2>5. Whole(tiles[i][j]) /\ (Overlaps => Smooth(tiles[i][j]))
    BY <2>1, <2>4 DEF SeamInv
  <2> QED
    BY <2>2, <2>3, <2>5 DEF Whole, Smooth
<1>7. ASSUME step = "decode", NEW i \in DOMAIN tiles, NEW j \in DOMAIN tiles[i]
      PROVE  /\ CondTile(i, size.h) = <<i * Stride(step), tiles[i][j].h>>
             /\ CondTile(j, size.w) = <<j * Stride(step), tiles[i][j].w>>
  <2>1. i \in 0 .. (Count(size.h, step) - 1) /\ j \in 0 .. (Count(size.w, step) - 1)
    BY <1>1 DEF Shaped
  <2>2. tiles[i][j].h = Length(i, size.h, step) /\ tiles[i][j].w = Length(j, size.w, step)
    BY <1>1, <2>1 DEF AllFit, Fits
  <2> QED
    BY <1>1, <1>7, <2>1, <2>2, CondTileFits
<1> QED
  BY <1>4, <1>5, <1>6, <1>7 DEF Overlaps, ContinuesDown, ContinuesAcross

\* Every step keeps the seams.
LEMMA SeamKept ==
  TilesInv /\ FrameOK /\ SeamInv /\ SizeInv /\ [TilesNext]_tilevars => SeamInv' /\ SizeInv'
<1> SUFFICES ASSUME TilesInv, FrameOK, SeamInv, SizeInv, [TilesNext]_tilevars
             PROVE  SeamInv' /\ SizeInv'
  OBVIOUS
<1>1. ASSUME NEW h \in Heights, NEW w \in Widths, NEW train \in BOOLEAN,
             Encode(h, w, train)
      PROVE  SeamInv' /\ SizeInv'
  <2>1. h \in Nat \ {0} /\ w \in Nat \ {0}
    BY TileAssumption
  <2>2. LatentSide(h, TRUE) \in Nat /\ LatentSide(w, TRUE) \in Nat
    BY <2>1, SidesAreNat
  <2>3. Make("encode", LatentSide(h, TRUE), LatentSide(w, TRUE))
    BY <1>1 DEF Encode
  <2>4. SeamInv'
    BY <2>2, <2>3, MadeSeam DEF Ops
  <2>5. frame' = [h |-> h, w |-> w, train |-> train]
    BY <1>1 DEF Encode
  <2>6. step' = "encode" /\ size' = [h |-> LatentSide(h, TRUE), w |-> LatentSide(w, TRUE)]
    BY <2>3 DEF Make, Size
  <2>7. SizeInv'
    BY <2>1, <2>5, <2>6 DEF SizeInv, LatentSide
  <2> QED
    BY <2>4, <2>7
<1>2. CASE Blend
  <2>1. SeamInv'
    BY <1>2, BlendSeam
  <2>2. UNCHANGED <<frame, step, size>>
    BY <1>2 DEF Blend
  <2>3. SizeInv'
    BY <2>2 DEF SizeInv, LatentSide
  <2> QED
    BY <2>1, <2>3
<1>3. CASE Decode
  <2> DEFINE h == LatentSide(frame.h, frame.train)
             w == LatentSide(frame.w, frame.train)
  <2>1. h \in Nat /\ w \in Nat
    BY SidesAreNat DEF FrameOK
  <2>2. /\ Make("decode", h * Ratio, w * Ratio) /\ UNCHANGED frame
        /\ step = "encode" /\ h > 0 /\ w > 0
    BY <1>3 DEF Decode
  <2>3. h * Ratio \in Nat \ {0} /\ w * Ratio \in Nat \ {0}
    <3> HIDE DEF h, w
    <3> QED
      BY <2>1, <2>2, TileAssumption, SMTT(30)
  <2>4. SeamInv'
    BY <2>2, <2>3, MadeSeam DEF Ops
  <2>5. step' = "decode" /\ size' = [h |-> h * Ratio, w |-> w * Ratio]
    BY <2>2 DEF Make, Size
  <2>6. frame.h \in Nat \ {0} /\ frame.w \in Nat \ {0} /\ frame.train \in BOOLEAN
    BY <2>2 DEF SizeInv
  <2>7. size'.h = h * Ratio /\ size'.w = w * Ratio /\ size'.h > 0 /\ size'.w > 0
    BY <2>3, <2>5
  <2>8. SizeInv'
    BY <2>2, <2>5, <2>6, <2>7 DEF SizeInv, LatentSide
  <2> QED
    BY <2>4, <2>8
<1>4. CASE Finish
  BY <1>4 DEF Finish, SeamInv, SizeInv
<1>5. CASE UNCHANGED tilevars
  <2>1. UNCHANGED <<frame, step, size, tiles, next>>
    BY <1>5 DEF tilevars
  <2>2. SizeInv'
    BY <2>1 DEF SizeInv, LatentSide
  <2>3. SeamInv'
    BY <2>1 DEF SeamInv, Passed, Smooth, ContinuesDown, ContinuesAcross
  <2> QED
    BY <2>2, <2>3
<1> QED
  BY <1>1, <1>2, <1>3, <1>4, <1>5 DEF TilesNext

\* No pixel is missing and there are no seams, whatever the size of frames,
\* tiles and strides: what _encode() and _decode() of models/precond.py put
\* together is as long as what they were given, tiles continue the tiles
\* above and on their left, and each is decoded with its own conditioning.
THEOREM PicturesAreSeamless == TilesSpec => []SeamlessPicture
<1>1. TilesInit => SeamInv /\ SizeInv
  BY DEF TilesInit, SeamInv, SizeInv
<1> QED
  BY <1>1, SeamKept, InvSeamless, TilesFit, PTL DEF TilesSpec
=============================================================================
