--------------------------- MODULE RearrangeProofs ---------------------------
(***************************************************************************)
(* Proofs about what the model takes apart and puts together again: chunks *)
(* in time (TemporalConditioning) and tokens in windows (AttentionMasks),  *)
(* for all sizes of chunks, windows, batches and frames; and how far       *)
(* tokens come to know of each other, for all numbers of blocks.           *)
(***************************************************************************)
EXTENDS TemporalConditioning, AttentionMasks, FiniteSetTheorems, TLAPS

-----------------------------------------------------------------------------
(* Arithmetic *)

\* A division and what is left of it.
LEMMA DivMod ==
  ASSUME NEW a \in Nat, NEW b \in Nat \ {0}
  PROVE  /\ a \div b \in Nat /\ (a \div b) * b \in Nat
         /\ a % b \in 0 .. (b - 1)
         /\ a % b = a - (a \div b) * b
  BY SMTT(30)

\* Divisions stay within the natural numbers.
LEMMA DivNat ==
  ASSUME NEW a \in Nat, NEW b \in Nat \ {0}
  PROVE  a \div b \in Nat /\ a % b \in Nat
  BY SMTT(30)

\* Two digits, taken apart.
LEMMA Digits ==
  ASSUME NEW b \in Nat \ {0}, NEW p \in Nat, NEW q \in 0 .. (b - 1)
  PROVE  /\ p * b + q \in Nat
         /\ (p * b + q) \div b = p
         /\ (p * b + q) % b = q
  BY SMTT(30)

\* What is less than so many times b has fewer of them.
LEMMA DivLess ==
  ASSUME NEW a \in Nat, NEW b \in Nat \ {0}, NEW p \in Nat, a < p * b
  PROVE  a \div b < p
  BY SMTT(30)

\* Two digits are in range.
LEMMA DigitsLess ==
  ASSUME NEW b \in Nat \ {0}, NEW n \in Nat, NEW p \in 0 .. (n - 1), NEW q \in 0 .. (b - 1)
  PROVE  p * b + q \in 0 .. (n * b - 1)
  BY SMTT(30)

\* Products keep the order.
LEMMA Scaled ==
  ASSUME NEW p \in Nat, NEW q \in Nat, NEW b \in Nat \ {0}
  PROVE  /\ p * b \in Nat /\ q * b \in Nat
         /\ p < q <=> p * b < q * b
         /\ p = q <=> p * b = q * b
  BY SMTT(30)

\* A division of a division.
LEMMA DivDiv ==
  ASSUME NEW a \in Nat, NEW b \in Nat \ {0}, NEW c \in Nat \ {0}
  PROVE  (a \div b) \div c = a \div (b * c)
  BY SMTT(30)

\* Some natural number of a set is the least.
LEMMA LeastExists ==
  ASSUME NEW S \in SUBSET Nat, S # {}
  PROVE  \E n \in S : \A k \in S : n <= k
<1> DEFINE R == OpToRel(<, Nat)
<1>1. IsWellFoundedOn(R, Nat)
  BY NatLessThanWellFounded
<1>2. R = {p \in Nat \X Nat : p[1] < p[2]}
  BY DEF OpToRel
<1> HIDE DEF R
<1>3. PICK n \in S : \A k \in S : ~ (<<k, n>> \in R)
  BY <1>1, WFMin
<1>4. ASSUME NEW k \in S PROVE n <= k
  <2>1. k \in Nat /\ n \in Nat
    OBVIOUS
  <2>2. k < n => <<k, n>> \in R
    BY <1>2, <2>1
  <2> QED
    BY <1>3, <2>1, <2>2
<1> QED
  BY <1>4

-----------------------------------------------------------------------------
(***************************************************************************)
(* Keyframes: the positions that are kept of a mask, and their numbers.    *)
(***************************************************************************)

\* The positions that are kept are the multiples of the factor that an input
\* frame has.
LEMMA KeptPositions ==
  ASSUME NEW sf \in Nat \ {0}, NEW inputs \in Nat \ {0}, NEW q
  PROVE  q \in kept_indices(Mask(sf, inputs)) <=>
           \E k \in 0 .. (inputs - 1) : q = k * sf /\ k * sf < TrainFrames
<1>1. TrainFrames \in Nat
  BY TemporalAssumption
<1>2. ASSUME q \in kept_indices(Mask(sf, inputs))
      PROVE  \E k \in 0 .. (inputs - 1) : q = k * sf /\ k * sf < TrainFrames
  <2>1. q \in Positions /\ q < inputs * sf /\ q % sf = 0
    BY <1>2, Zenon DEF kept_indices, Mask
  <2>0. q \in Nat /\ q < TrainFrames
    BY <1>1, <2>1 DEF Positions
  <2>2. q \div sf \in Nat /\ q = (q \div sf) * sf
    <3> DEFINE p == (q \div sf) * sf
               r == q % sf
    <3>1. q \div sf \in Nat /\ p \in Nat /\ r = q - p
      BY <2>0, DivMod
    <3>2. r = 0
      BY <2>1
    <3> HIDE DEF p, r
    <3>3. q = p
      BY <2>0, <3>1, <3>2
    <3> QED
      BY <3>1, <3>3 DEF p
  <2>3. q \div sf < inputs
    BY <2>0, <2>1, DivLess
  <2>4. q \div sf \in 0 .. (inputs - 1)
    BY <2>2, <2>3
  <2> QED
    BY <2>0, <2>2, <2>4
<1>3. ASSUME NEW k \in 0 .. (inputs - 1), q = k * sf, k * sf < TrainFrames
      PROVE  q \in kept_indices(Mask(sf, inputs))
  <2>1. k * sf \in Nat /\ k * sf < inputs * sf
    BY SMTT(30)
  <2>2. (k * sf) % sf = 0
    BY SMTT(30)
  <2>3. q \in Positions
    BY <1>1, <1>3, <2>1 DEF Positions
  <2> QED
    BY <1>3, <2>1, <2>2, <2>3 DEF kept_indices, Mask
<1> QED
  BY <1>2, <1>3

\* The number of a position that is kept is that of its input frame.
LEMMA Numbered ==
  ASSUME NEW sf \in Nat \ {0}, NEW inputs \in Nat \ {0}, NEW k \in 0 .. (inputs - 1),
         k * sf < TrainFrames
  PROVE  NumberOf(k * sf, kept_indices(Mask(sf, inputs))) = k
<1> DEFINE S == {r \in kept_indices(Mask(sf, inputs)) : r < k * sf}
           f == [l \in 1 .. k |-> (l - 1) * sf]
<1>1. TrainFrames \in Nat /\ k \in Nat
  BY TemporalAssumption
<1>2. ASSUME NEW l \in 1 .. k PROVE (l - 1) * sf \in S
  <2>1. l - 1 \in 0 .. (inputs - 1) /\ l - 1 \in Nat /\ l - 1 < k
    OBVIOUS
  <2>2. (l - 1) * sf < k * sf /\ (l - 1) * sf \in Nat /\ k * sf \in Nat
    <3> DEFINE a == l - 1
    <3>1. a \in Nat /\ a < k
      BY <2>1
    <3> HIDE DEF a
    <3>2. a * sf < k * sf /\ a * sf \in Nat /\ k * sf \in Nat
      BY <1>1, <3>1, Scaled
    <3> QED
      BY <3>2 DEF a
  <2>3. (l - 1) * sf < TrainFrames
    BY <1>1, <2>2
  <2>4. \E a \in 0 .. (inputs - 1) : (l - 1) * sf = a * sf /\ a * sf < TrainFrames
    BY <2>1, <2>3
  <2>5. (l - 1) * sf \in kept_indices(Mask(sf, inputs))
    BY <2>4, KeptPositions
  <2> QED
    BY <2>2, <2>5
<1>3. f \in [1 .. k -> S]
  BY <1>2
<1>4. ASSUME NEW a \in 1 .. k, NEW b \in 1 .. k, f[a] = f[b] PROVE a = b
  <2>1. (a - 1) * sf = (b - 1) * sf
    BY <1>4
  <2> QED
    BY <2>1, SMTT(30)
<1>5. ASSUME NEW s \in S PROVE \E l \in 1 .. k : f[l] = s
  <2>1. PICK a \in 0 .. (inputs - 1) : s = a * sf
    BY KeptPositions
  <2>2. a * sf < k * sf
    BY <2>1
  <2>3. a < k
    BY <2>2, SMTT(30)
  <2>4. a + 1 \in 1 .. k /\ (a + 1) - 1 = a
    BY <2>3
  <2> QED
    BY <2>1, <2>4
<1> HIDE DEF S, f
<1>6. f \in Bijection(1 .. k, S)
  BY <1>3, <1>4, <1>5 DEF Bijection, Injection, Surjection, IsInjective
<1>7. Cardinality(S) = k
  BY <1>1, <1>6, FS_CountingElements DEF ExistsBijection
<1> QED
  BY <1>7 DEF NumberOf, S

\* Distances are those of numbers.
LEMMA Distances ==
  ASSUME NEW p \in Nat, NEW q \in Nat
  PROVE  Distance(p, q) \in Nat /\ (Distance(p, q) = 0 <=> p = q)
  BY DEF Distance

\* Of the positions that are kept, one is chosen: the first of the nearest.
LEMMA ChosenExists ==
  ASSUME NEW sf \in Nat \ {0}, NEW inputs \in Nat \ {0}, NEW p \in Positions
  PROVE  LET kept == kept_indices(Mask(sf, inputs))
         IN  \E q \in Nearest(p, kept) : \A r \in Nearest(p, kept) : q <= r
<1> DEFINE kept == kept_indices(Mask(sf, inputs))
           D == {d \in Nat : \E q \in kept : d = Distance(p, q)}
<1>1. kept \subseteq Nat /\ p \in Nat
  BY TemporalAssumption DEF kept_indices, Positions
<1>2. 0 \in kept
  <2>1. 0 * sf = 0 /\ 0 * sf < TrainFrames /\ 0 \in 0 .. (inputs - 1)
    BY TemporalAssumption
  <2> QED
    BY <2>1, KeptPositions
<1> HIDE DEF kept
<1>3. D # {}
  <2>1. Distance(p, 0) \in D
    BY <1>1, <1>2, Distances
  <2> QED
    BY <2>1
<1>4. PICK d \in D : \A c \in D : d <= c
  BY <1>3, LeastExists
<1>5. PICK q \in kept : d = Distance(p, q)
  BY <1>4
<1>6. q \in Nearest(p, kept)
  <2>1. ASSUME NEW r \in kept PROVE Distance(p, q) <= Distance(p, r)
    <3>1. Distance(p, r) \in D
      BY <1>1, <2>1, Distances
    <3> QED
      BY <1>4, <1>5, <3>1
  <2> QED
    BY <2>1 DEF Nearest
<1>7. Nearest(p, kept) \subseteq Nat /\ Nearest(p, kept) # {}
  BY <1>1, <1>6 DEF Nearest
<1>8. \E s \in Nearest(p, kept) : \A r \in Nearest(p, kept) : s <= r
  BY <1>7, LeastExists
<1> QED
  BY <1>8 DEF kept

\* The frame that is shown at a position: none is nearer, and of two that are
\* as near it is the earlier.
LEMMA ShownFrame ==
  ASSUME NEW sf \in Nat \ {0}, NEW inputs \in Nat \ {0}, NEW p \in Positions
  PROVE  LET k == upsample_temporal(Mask(sf, inputs))[p]
         IN  /\ k \in 0 .. (inputs - 1) /\ k * sf < TrainFrames
             /\ \A l \in 0 .. (inputs - 1) : l * sf < TrainFrames =>
                  \/ Distance(p, k * sf) < Distance(p, l * sf)
                  \/ Distance(p, k * sf) = Distance(p, l * sf) /\ k <= l
<1> DEFINE kept == kept_indices(Mask(sf, inputs))
           q == CHOOSE s \in Nearest(p, kept) : \A r \in Nearest(p, kept) : s <= r
<1>1. q \in Nearest(p, kept) /\ \A r \in Nearest(p, kept) : q <= r
  BY ChosenExists
<1>2. upsample_temporal(Mask(sf, inputs))[p] = NumberOf(q, kept)
  BY DEF upsample_temporal
<1> HIDE DEF q
<1>3. q \in kept /\ \A r \in kept : Distance(p, q) <= Distance(p, r)
  BY <1>1 DEF Nearest
<1>4. PICK k \in 0 .. (inputs - 1) : q = k * sf /\ k * sf < TrainFrames
  BY <1>3, KeptPositions
<1>5. NumberOf(q, kept) = k
  BY <1>4, Numbered
<1>6. ASSUME NEW l \in 0 .. (inputs - 1), l * sf < TrainFrames
      PROVE  \/ Distance(p, k * sf) < Distance(p, l * sf)
             \/ Distance(p, k * sf) = Distance(p, l * sf) /\ k <= l
  <2>1. l * sf \in kept
    BY <1>6, KeptPositions
  <2>2. Distance(p, k * sf) <= Distance(p, l * sf)
    BY <1>3, <1>4, <2>1
  <2>3. l * sf \in Nat /\ k * sf \in Nat /\ p \in Nat
    BY SMTT(30) DEF Positions
  <2>4. CASE Distance(p, k * sf) = Distance(p, l * sf)
    <3>1. l * sf \in Nearest(p, kept)
      BY <1>3, <1>4, <2>1, <2>4 DEF Nearest
    <3>2. k * sf <= l * sf
      BY <1>1, <1>4, <3>1
    <3>3. k <= l
      BY <3>2, SMTT(30)
    <3> QED
      BY <2>4, <3>3
  <2>5. Distance(p, k * sf) \in Nat /\ Distance(p, l * sf) \in Nat
    BY <2>3, Distances
  <2> QED
    BY <2>2, <2>4, <2>5
<1> QED
  BY <1>2, <1>4, <1>5, <1>6

-----------------------------------------------------------------------------
(***************************************************************************)
(* Batches: what has been decoded is the beginning of the groups, whole    *)
(* batches of it unless it is all.                                         *)
(***************************************************************************)
Group == [window : Nat, group : Nat]
GroupPair == [z : Group, cond : Group]

\* The chunk that is under way.
Staged ==
  /\ chunk.sf \in Nat \ {0} /\ chunk.inputs \in Nat \ {0}
  /\ chunk.windows \in Nat \ {0} /\ chunk.first \in Nat
  /\ chunk.first + chunk.windows <= nT /\ chunk.batch \in Nat \ {0}
  /\ msk = Mask(chunk.sf, chunk.inputs) /\ lq = upsample_temporal(msk)
  /\ m = MaskEncoder

Begun ==
  /\ decoded \in Seq(GroupPair)
  /\ Len(decoded) <= chunk.windows * PerWindow
  /\ \/ Len(decoded) = chunk.windows * PerWindow
     \/ Len(decoded) = (Len(decoded) \div chunk.batch) * chunk.batch
  /\ \A n \in 1 .. Len(decoded) :
       decoded[n] = [z |-> Groups(chunk.windows)[n], cond |-> Groups(chunk.windows)[n]]

Frame ==
  /\ written.h \in Nat \ {0} /\ written.w \in Nat \ {0} /\ written.c \in {1, 3, 4}
  /\ written.layout \in {"CHW", "HWC"}
  /\ written.bytes = Written(written.h, written.w, written.c, written.layout)

\* The inductive invariant.
TemporalInv ==
  /\ chunk # Idle => Staged /\ Begun
  /\ written # NoFrame => Frame

\* The chunk is whole windows, and windows are whole groups.
LEMMA Windows ==
  /\ nT \in Nat /\ nT >= 3 /\ TrainFrames = nT * TileTime
  /\ PerWindow \in Nat \ {0} /\ TileTime = PerWindow * 5
  /\ TrainFrames \div 5 = nT * PerWindow
<1> USE TemporalAssumption DEF nT, PerWindow
<1>1. nT \in Nat /\ TrainFrames = nT * TileTime
  BY SMTT(30)
<1>2. PerWindow \in Nat /\ TileTime = PerWindow * 5
  BY SMTT(30)
<1>3. PerWindow # 0
  BY <1>2
<1> HIDE DEF nT, PerWindow
<1>4. nT >= 3
  <2>1. CASE nT <= 2
    <3>1. nT * TileTime <= 2 * TileTime
      BY <1>1, <2>1, SMTT(30)
    <3> QED
      BY <1>1, <3>1
  <2> QED
    BY <1>1, <2>1
<1>5. TrainFrames \div 5 = nT * PerWindow
  <2>1. TrainFrames = (nT * PerWindow) * 5
    BY <1>1, <1>2, SMTT(30)
  <2>2. nT * PerWindow \in Nat
    BY <1>1, <1>2, SMTT(30)
  <2> QED
    BY <2>1, <2>2
<1> QED
  BY <1>1, <1>2, <1>3, <1>4, <1>5

\* The groups of some windows: window and group of each.
LEMMA GroupOf ==
  ASSUME NEW w \in Nat \ {0}
  PROVE  /\ Groups(w) \in Seq(Group) /\ Len(Groups(w)) = w * PerWindow
         /\ \A n \in 1 .. (w * PerWindow) :
              Groups(w)[n] = [window |-> (n - 1) % w, group |-> (n - 1) \div w]
<1> DEFINE N == w * PerWindow
           e(n) == [window |-> (n - 1) % w, group |-> (n - 1) \div w]
<1>1. N \in Nat
  BY Windows, SMTT(30)
<1>2. Groups(w) = [n \in 1 .. N |-> e(n)]
  BY DEF Groups
<1>3. ASSUME NEW n \in 1 .. N PROVE e(n) \in Group
  <2>1. n - 1 \in Nat
    BY <1>1
  <2>2. (n - 1) % w \in Nat /\ (n - 1) \div w \in Nat
    BY <2>1, DivNat
  <2> QED
    BY <2>2 DEF Group
<1> HIDE DEF N
<1> HIDE DEF e
<1>4. Groups(w) \in Seq(Group) /\ Len(Groups(w)) = N
  BY <1>1, <1>2, <1>3
<1>5. \A n \in 1 .. N : Groups(w)[n] = e(n)
  BY <1>2
<1> QED
  BY <1>4, <1>5 DEF N, e

\* As many whole parts as fit.
LEMMA DivAtLeast ==
  ASSUME NEW a \in Nat, NEW b \in Nat \ {0}, NEW p \in Nat, p * b <= a
  PROVE  p <= a \div b
  BY SMTT(30)

\* One batch: the groups after those that have been decoded.
LEMMA BatchOf ==
  ASSUME NEW G \in Seq(Group), NEW n \in Nat \ {0}, NEW done_ \in Nat, done_ < Len(G),
         done_ = (done_ \div n) * n
  PROVE  LET s == SplitBy(G, n)[done_ \div n + 1]
             l == IF done_ + n < Len(G) THEN n ELSE Len(G) - done_
         IN  /\ s \in Seq(Group) /\ Len(s) = l
             /\ \A k \in 1 .. l : s[k] = G[done_ + k]
<1> DEFINE b == done_ \div n + 1
           upto == IF done_ + n < Len(G) THEN done_ + n ELSE Len(G)
           s == SplitBy(G, n)[b]
<1>1. done_ \div n \in Nat /\ Len(G) \in Nat
  BY DivNat
<1>2. n * (b - 1) = done_ /\ n * b = done_ + n
  <2> DEFINE d == done_ \div n
  <2>1. d \in Nat /\ done_ = d * n
    BY <1>1
  <2> HIDE DEF d
  <2>2. n * d = d * n /\ n * (d + 1) = d * n + n
    BY <2>1, SMTT(30)
  <2> QED
    BY <2>1, <2>2 DEF d
<1>3. b <= (Len(G) + n - 1) \div n
  <2>1. b * n = n * b
    BY <1>1, SMTT(30)
  <2>2. b * n <= Len(G) + n - 1
    BY <1>1, <1>2, <2>1
  <2>3. b \in Nat /\ Len(G) + n - 1 \in Nat
    BY <1>1
  <2> HIDE DEF b
  <2> QED
    BY <2>2, <2>3, DivAtLeast
<1>4. b \in 1 .. ((Len(G) + n - 1) \div n)
  <2>1. (Len(G) + n - 1) \div n \in Nat
    BY <1>1, DivNat
  <2> QED
    BY <1>1, <1>3, <2>1
<1>5. s = SubSeq(G, done_ + 1, upto)
  BY <1>2, <1>4 DEF SplitBy
<1> HIDE DEF s, b
<1>6. upto \in Nat /\ upto <= Len(G) /\ done_ < upto
  BY <1>1
<1> HIDE DEF upto
<1>7. s \in Seq(Group) /\ Len(s) = upto - done_ /\ \A k \in 1 .. (upto - done_) : s[k] = G[done_ + k]
  BY <1>1, <1>5, <1>6
<1>8. upto - done_ = IF done_ + n < Len(G) THEN n ELSE Len(G) - done_
  BY <1>1 DEF upto
<1> QED
  BY <1>7, <1>8 DEF s, b

\* A batch is decoded, and is the next of the groups.
LEMMA DecodeKeeps ==
  TemporalInv /\ DecodeBatch => TemporalInv'
<1> SUFFICES ASSUME TemporalInv, DecodeBatch PROVE TemporalInv'
  OBVIOUS
<1> DEFINE w == chunk.windows
           n == chunk.batch
           G == Groups(w)
           N == w * PerWindow
           L == Len(decoded)
           s == SplitBy(G, n)[L \div n + 1]
           pairs == [k \in DOMAIN s |-> [z |-> s[k], cond |-> s[k]]]
<1>1. /\ chunk # Idle /\ L # N /\ decoded' = decoded \o pairs
      /\ UNCHANGED <<chunk, lq, msk, m, written>>
  BY DEF DecodeBatch, AllDecoded
<1>2. Staged /\ Begun
  BY <1>1 DEF TemporalInv
<1>3. w \in Nat \ {0} /\ n \in Nat \ {0}
  BY <1>2 DEF Staged
<1>4. /\ decoded \in Seq(GroupPair) /\ L \in Nat /\ L <= N /\ L = (L \div n) * n
      /\ \A k \in 1 .. L : decoded[k] = [z |-> G[k], cond |-> G[k]]
  <2>1. decoded \in Seq(GroupPair) /\ L <= N /\ (L = N \/ L = (L \div n) * n)
    BY <1>2, Zenon DEF Begun
  <2>2. \A k \in 1 .. L : decoded[k] = [z |-> G[k], cond |-> G[k]]
    BY <1>2, Zenon DEF Begun
  <2>3. L \in Nat
    BY <2>1
  <2> QED
    BY <1>1, <2>1, <2>2, <2>3, Zenon
<1>5. G \in Seq(Group) /\ Len(G) = N /\ N \in Nat
  BY <1>3, GroupOf
<1> HIDE DEF w, n, G, N, L
<1>6. L < N
  BY <1>1, <1>4, <1>5
<1> DEFINE K == IF L + n < N THEN n ELSE N - L
<1>7. s \in Seq(Group) /\ Len(s) = K /\ \A k \in 1 .. K : s[k] = G[L + k]
  BY <1>3, <1>4, <1>5, <1>6, BatchOf
<1> HIDE DEF s
<1>8. K \in Nat /\ L + K <= N
  BY <1>3, <1>4, <1>5, <1>6
<1>9. pairs \in Seq(GroupPair) /\ Len(pairs) = K
      /\ \A k \in 1 .. K : pairs[k] = [z |-> G[L + k], cond |-> G[L + k]]
  <2>1. pairs = [k \in 1 .. K |-> [z |-> s[k], cond |-> s[k]]]
    BY <1>7
  <2>2. ASSUME NEW k \in 1 .. K PROVE [z |-> s[k], cond |-> s[k]] \in GroupPair
    BY <1>7 DEF GroupPair
  <2> HIDE DEF K, pairs
  <2>3. pairs \in Seq(GroupPair) /\ Len(pairs) = K
    BY <1>8, <2>1, <2>2
  <2> QED
    BY <1>7, <2>1, <2>3
<1> HIDE DEF pairs
<1>10. decoded' \in Seq(GroupPair) /\ Len(decoded') = L + K
  <2> HIDE DEF K
  <2>1. decoded \in Seq(GroupPair) /\ pairs \in Seq(GroupPair)
    BY <1>4, <1>9
  <2>2. /\ decoded \o pairs \in Seq(GroupPair)
        /\ Len(decoded \o pairs) = Len(decoded) + Len(pairs)
    BY <2>1
  <2> QED
    BY <1>1, <1>9, <2>2 DEF L
<1>11. ASSUME NEW k \in 1 .. (L + K)
       PROVE  decoded'[k] = [z |-> G[k], cond |-> G[k]]
  <2>1. CASE k <= L
    BY <1>1, <1>4, <1>9, <2>1 DEF L
  <2>2. CASE k > L
    <3>1. decoded'[k] = pairs[k - L]
      BY <1>1, <1>4, <1>8, <1>9, <2>2 DEF L
    <3>2. k - L \in 1 .. K /\ L + (k - L) = k
      BY <1>4, <1>8, <2>2
    <3> QED
      BY <1>9, <3>1, <3>2
  <2> QED
    BY <1>4, <1>8, <2>1, <2>2
<1>12. L + K = N \/ L + K = ((L + K) \div n) * n
  <2>1. CASE L + n < N
    <3> DEFINE d == L \div n
    <3>1. d \in Nat /\ L = d * n
      BY <1>3, <1>4, DivNat
    <3> HIDE DEF d
    <3>2. L + n = (d + 1) * n + 0 /\ d + 1 \in Nat
      BY <1>3, <3>1, SMTT(30)
    <3>3. ((d + 1) * n + 0) \div n = d + 1
      BY <1>3, <3>2, Digits
    <3>4. (L + n) \div n = d + 1 /\ L + n = (d + 1) * n
      BY <1>3, <3>2, <3>3, SMTT(30)
    <3> QED
      BY <2>1, <3>4
  <2>2. CASE ~ (L + n < N)
    BY <1>4, <1>5, <2>2
  <2> QED
    BY <2>1, <2>2
<1>13. chunk' = chunk /\ chunk'.windows = w /\ chunk'.batch = n
  BY <1>1 DEF w, n
<1>14. Begun'
  BY <1>8, <1>10, <1>11, <1>12, <1>13 DEF Begun, N, G
<1>15. Staged'
  BY <1>1, <1>2 DEF Staged
<1>16. (written # NoFrame => Frame)'
  BY <1>1 DEF TemporalInv, Frame
<1> QED
  BY <1>14, <1>15, <1>16 DEF TemporalInv

\* A chunk that is staged has nothing decoded.
LEMMA PrepareKeeps ==
  ASSUME NEW sf \in Factors, NEW inputs \in Inputs, NEW windows \in Decoded,
         NEW batch \in Batches
  PROVE  TemporalInv /\ Prepare(sf, inputs, windows, batch) => TemporalInv'
<1> SUFFICES ASSUME Prepare(sf, inputs, windows, batch) PROVE TemporalInv'
  OBVIOUS
<1>1. sf \in Nat \ {0} /\ inputs \in Nat \ {0} /\ batch \in Nat \ {0}
  BY TemporalAssumption
<1>2. /\ windows[1] \in Nat /\ windows[2] \in Nat \ {0} /\ windows[1] + windows[2] <= nT
  BY Windows DEF Decoded
<1>3. /\ chunk' = [sf |-> sf, inputs |-> inputs,
                   first |-> windows[1], windows |-> windows[2], batch |-> batch]
      /\ msk' = Mask(sf, inputs) /\ lq' = upsample_temporal(msk') /\ m' = MaskEncoder
      /\ decoded' = <<>> /\ written' = NoFrame
  BY DEF Prepare
<1>4. Staged'
  BY <1>1, <1>2, <1>3 DEF Staged
<1>5. windows[2] * PerWindow \in Nat
  BY <1>2, Windows, SMTT(30)
<1>6. 0 \div batch = 0 /\ 0 * batch = 0
  BY <1>1
<1>7. Begun'
  <2>1. Len(decoded') = 0 /\ decoded' \in Seq(GroupPair) /\ 1 .. 0 = {}
    BY <1>3
  <2>2. chunk'.windows = windows[2] /\ chunk'.batch = batch
    BY <1>3
  <2> QED
    BY <1>5, <1>6, <2>1, <2>2 DEF Begun
<1> QED
  BY <1>3, <1>4, <1>7 DEF TemporalInv

\* Every step keeps the invariant.
THEOREM TemporalInvariant == TemporalSpec => []TemporalInv
<1>1. TemporalInit => TemporalInv
  BY DEF TemporalInit, TemporalInv
<1>2. TemporalInv /\ [TemporalNext]_tempvars => TemporalInv'
  <2> SUFFICES ASSUME TemporalInv, [TemporalNext]_tempvars PROVE TemporalInv'
    OBVIOUS
  <2>1. ASSUME NEW sf \in Factors, NEW inputs \in Inputs, NEW windows \in Decoded,
               NEW batch \in Batches, Prepare(sf, inputs, windows, batch)
        PROVE  TemporalInv'
    BY <2>1, PrepareKeeps
  <2>2. CASE DecodeBatch
    BY <2>2, DecodeKeeps
  <2>3. ASSUME NEW h \in Sides, NEW w \in Sides, NEW c \in {1, 3, 4},
               NEW layout \in {"CHW", "HWC"}, write_tensor(h, w, c, layout)
        PROVE  TemporalInv'
    <3>1. h \in Nat \ {0} /\ w \in Nat \ {0}
      BY TemporalAssumption
    <3>2. chunk' = Idle
      BY <2>3 DEF write_tensor
    <3>3. written' = [h |-> h, w |-> w, c |-> c, layout |-> layout,
                      bytes |-> Written(h, w, c, layout)]
      BY <2>3 DEF write_tensor
    <3>4. Frame'
      BY <3>1, <3>3 DEF Frame, Written, Shape, Element
    <3> QED
      BY <3>2, <3>4 DEF TemporalInv
  <2>4. CASE UNCHANGED tempvars
    BY <2>4 DEF tempvars, TemporalInv, Staged, Begun, Frame
  <2> QED
    BY <2>1, <2>2, <2>3, <2>4 DEF TemporalNext
<1> QED
  BY <1>1, <1>2, PTL DEF TemporalSpec

\* The channels of a latent of the mask are the positions it stands for, all
\* of them positions of the chunk.
LEMMA MarksOf ==
  ASSUME NEW l \in 0 .. (2 * (TrainFrames \div 5) - 1)
  PROVE  /\ Span(l) \subseteq Positions
         /\ \A c \in 1 .. 4 : MaskEncoder[l][c] \in Span(l)
         /\ \A p \in Span(l) : \E c \in 1 .. 4 : MaskEncoder[l][c] = p
<1> DEFINE g == l \div 2
           N == TrainFrames \div 5
<1>1. N \in Nat /\ TrainFrames = 5 * N
  <2>1. nT * PerWindow \in Nat /\ nT * (PerWindow * 5) = 5 * (nT * PerWindow)
    BY Windows, SMTT(30)
  <2> QED
    BY <2>1, Windows
<1>2. MaskEncoder[l] = MaskPiece(g, l % 2)
  BY DEF MaskEncoder
<1>3. g \in 0 .. (N - 1) /\ l % 2 \in {0, 1}
  <2> HIDE DEF N
  <2>1. l \in 0 .. (2 * N - 1)
    BY DEF N
  <2> QED
    BY <1>1, <2>1
<1> HIDE DEF N, g
<1>4. CASE l % 2 = 0
  <2>1. Span(l) = {5 * g} /\ MaskEncoder[l] = [c \in 1 .. 4 |-> 5 * g]
    BY <1>2, <1>4 DEF Span, MaskPiece, g
  <2>2. 5 * g \in Positions
    BY <1>1, <1>3 DEF Positions
  <2>3. 1 \in 1 .. 4
    OBVIOUS
  <2> QED
    BY <2>1, <2>2, <2>3
<1>5. CASE l % 2 = 1
  <2>1. Span(l) = (5 * g + 1) .. (5 * g + 4) /\ MaskEncoder[l] = [c \in 1 .. 4 |-> 5 * g + c]
    BY <1>2, <1>5 DEF Span, MaskPiece, g
  <2>2. (5 * g + 1) .. (5 * g + 4) \subseteq Positions
    BY <1>1, <1>3 DEF Positions
  <2>3. \A c \in 1 .. 4 : MaskEncoder[l][c] \in Span(l)
    BY <1>3, <2>1
  <2>4. ASSUME NEW p \in Span(l) PROVE \E c \in 1 .. 4 : MaskEncoder[l][c] = p
    <3>1. p - 5 * g \in 1 .. 4 /\ 5 * g + (p - 5 * g) = p
      BY <1>3, <2>1, <2>4
    <3> QED
      BY <2>1, <3>1
  <2> QED
    BY <2>1, <2>2, <2>3, <2>4
<1> QED
  BY <1>3, <1>4, <1>5

\* Of the input frames, those that have a position in the chunk are shown at
\* it and marked there, and in the latents of the mask that stand for it and in
\* no other; those that have none are cut off; and no frame is shown where
\* another is nearer: _prepare_lq_and_msk() of session_runner.py,
\* upsample_temporal() of ops/temporal.py and MaskEncoder, for any factor and
\* any number of frames.
THEOREM FramesAreShown == TemporalSpec => []KeyframesShown
<1>1. TemporalInv => KeyframesShown
  <2> SUFFICES ASSUME TemporalInv, chunk # Idle PROVE KeyframesShown
    BY DEF KeyframesShown
  <2> DEFINE sf == chunk.sf
             inputs == chunk.inputs
  <2>1. /\ sf \in Nat \ {0} /\ inputs \in Nat \ {0}
        /\ msk = Mask(sf, inputs) /\ lq = upsample_temporal(Mask(sf, inputs))
        /\ m = MaskEncoder
    BY DEF TemporalInv, Staged
  <2> HIDE DEF sf, inputs
  <2>2. ASSUME NEW p \in Positions
        PROVE  /\ lq[p] \in 0 .. (inputs - 1) /\ lq[p] * sf < TrainFrames
               /\ \A k \in 0 .. (inputs - 1) : k * sf < TrainFrames =>
                    \/ Distance(p, lq[p] * sf) < Distance(p, k * sf)
                    \/ Distance(p, lq[p] * sf) = Distance(p, k * sf) /\ lq[p] <= k
    BY <2>1, ShownFrame
  <2>3. ASSUME NEW p \in Positions
        PROVE  msk[p] <=> p \in kept_indices(Mask(sf, inputs))
    BY <2>1 DEF kept_indices
  <2>4. ASSUME NEW k \in 0 .. (inputs - 1), k * sf < TrainFrames
        PROVE  k * sf \in Positions /\ msk[k * sf] /\ lq[k * sf] = k
    <3>1. k * sf \in Nat /\ TrainFrames \in Nat
      BY <2>1, TemporalAssumption, SMTT(30)
    <3>2. k * sf \in Positions
      BY <2>4, <3>1 DEF Positions
    <3>3. k * sf \in kept_indices(Mask(sf, inputs))
      BY <2>1, <2>4, KeptPositions
    <3> DEFINE l == lq[k * sf]
    <3>4. /\ l \in 0 .. (inputs - 1)
          /\ \/ Distance(k * sf, l * sf) < Distance(k * sf, k * sf)
             \/ Distance(k * sf, l * sf) = Distance(k * sf, k * sf) /\ l <= k
      BY <2>2, <2>4, <3>2
    <3> HIDE DEF l
    <3>5. l * sf \in Nat
      BY <2>1, <3>4, SMTT(30)
    <3>6. l * sf = k * sf
      <4>1. Distance(k * sf, k * sf) = 0 /\ Distance(k * sf, l * sf) \in Nat
        BY <3>1, <3>5, Distances
      <4>2. Distance(k * sf, l * sf) = 0
        <5> DEFINE own == Distance(k * sf, l * sf)
        <5>1. own \in Nat /\ (own < 0 \/ own = 0)
          BY <3>4, <4>1, Zenon
        <5> HIDE DEF own
        <5>2. own = 0
          BY <5>1
        <5> QED
          BY <5>2 DEF own
      <4> QED
        BY <3>1, <3>5, <4>2, Distances
    <3>7. l = k
      BY <2>1, <3>4, <3>6, Scaled
    <3> QED
      BY <2>3, <3>2, <3>3, <3>7 DEF l
  <2>5. ASSUME NEW k \in 0 .. (inputs - 1)
        PROVE  IF k * sf < TrainFrames
               THEN msk[k * sf] /\ lq[k * sf] = k
               ELSE \A p \in Positions : lq[p] # k
    BY <2>2, <2>4
  <2>6. ASSUME NEW p \in Positions
        PROVE  msk[p] <=> p = lq[p] * sf
    <3>1. ASSUME msk[p] PROVE p = lq[p] * sf
      <4>1. PICK k \in 0 .. (inputs - 1) : p = k * sf /\ k * sf < TrainFrames
        BY <2>1, <2>3, <3>1, KeptPositions
      <4> QED
        BY <2>4, <4>1
    <3>2. ASSUME p = lq[p] * sf PROVE msk[p]
      BY <2>2, <2>4, <3>2
    <3> QED
      BY <3>1, <3>2, <2>3
  <2>7. ASSUME NEW l \in 0 .. (2 * (TrainFrames \div 5) - 1)
        PROVE  (\E c \in 1 .. 4 : msk[m[l][c]])
                 <=> \E k \in 0 .. (inputs - 1) : k * sf \in Span(l)
    <3>1. ASSUME NEW c \in 1 .. 4, msk[m[l][c]]
          PROVE  \E k \in 0 .. (inputs - 1) : k * sf \in Span(l)
      <4>1. m[l][c] \in Span(l) /\ m[l][c] \in Positions
        BY <2>1, MarksOf
      <4> DEFINE q == m[l][c]
      <4>2. q \in kept_indices(Mask(sf, inputs))
        BY <2>3, <3>1, <4>1
      <4>3. q \in Span(l)
        BY <4>1
      <4> HIDE DEF q
      <4>4. PICK k \in 0 .. (inputs - 1) : q = k * sf /\ k * sf < TrainFrames
        BY <2>1, <4>2, KeptPositions
      <4> QED
        BY <4>3, <4>4
    <3>2. ASSUME NEW k \in 0 .. (inputs - 1), k * sf \in Span(l)
          PROVE  \E c \in 1 .. 4 : msk[m[l][c]]
      <4>1. k * sf \in Positions
        BY <3>2, MarksOf
      <4>2. k * sf < TrainFrames
        BY <4>1, TemporalAssumption DEF Positions
      <4>3. msk[k * sf]
        BY <2>4, <4>2
      <4>4. PICK c \in 1 .. 4 : m[l][c] = k * sf
        BY <2>1, <3>2, MarksOf
      <4> QED
        BY <4>3, <4>4
    <3> QED
      BY <3>1, <3>2
  <2> QED
    BY <2>2, <2>5, <2>6, <2>7 DEF KeyframesShown, sf, inputs
<1> QED
  BY <1>1, TemporalInvariant, PTL

-----------------------------------------------------------------------------
\* A frame of the result, its window and its group: the place is theirs.
LEMMA PlaceTaken ==
  ASSUME NEW w \in Nat \ {0}, NEW f \in 0 .. (w * TileTime - 1)
  PROVE  /\ f \div TileTime \in 0 .. (w - 1)
         /\ (f % TileTime) \div 5 \in 0 .. (PerWindow - 1)
         /\ PlaceOf(f, w) \in 1 .. (w * PerWindow)
         /\ (PlaceOf(f, w) - 1) % w = f \div TileTime
         /\ (PlaceOf(f, w) - 1) \div w = (f % TileTime) \div 5
         /\ (f \div TileTime) * TileTime + 5 * ((f % TileTime) \div 5) + (f % 5) = f
<1> DEFINE a == f \div TileTime
           r == f % TileTime
           g == r \div 5
           e == r % 5
<1>1. TileTime \in Nat \ {0} /\ PerWindow \in Nat \ {0} /\ TileTime = PerWindow * 5
  BY TemporalAssumption, Windows
<1>2. f \in Nat /\ f < w * TileTime
  BY <1>1, SMTT(30)
<1>3. a \in Nat /\ a < w /\ a * TileTime \in Nat /\ r \in 0 .. (TileTime - 1) /\ r = f - a * TileTime
  BY <1>1, <1>2, DivMod, DivLess
<1> HIDE DEF a, r
<1>4. g \in Nat /\ e \in 0 .. 4 /\ r = 5 * g + e
  BY <1>3
<1>5. g < PerWindow
  BY <1>1, <1>3
<1>6. f % 5 = e
  <2> DEFINE t == a * PerWindow
  <2>1. t \in Nat /\ a * TileTime = 5 * t
    BY <1>1, <1>3, SMTT(30)
  <2> HIDE DEF t
  <2>2. f = 5 * (t + g) + e
    <3> DEFINE at == a * TileTime
    <3> HIDE DEF at, g, e
    <3> QED
      BY <1>2, <1>3, <1>4, <2>1 DEF at
  <2>3. t + g \in Nat
    BY <1>4, <2>1
  <2> DEFINE u_ == t + g
  <2> HIDE DEF u_, g, e
  <2>4. f = 5 * u_ + e /\ u_ \in Nat /\ e \in 0 .. 4
    BY <1>4, <2>2, <2>3 DEF u_
  <2> QED
    BY <2>4
<1> HIDE DEF g, e
<1>7. PlaceOf(f, w) = g * w + a + 1
  BY Zenon DEF PlaceOf, g, a, r
<1>8. /\ g * w + a \in Nat /\ (g * w + a) \div w = g /\ (g * w + a) % w = a
  <2>1. a \in 0 .. (w - 1)
    BY <1>3
  <2> QED
    BY <1>4, <2>1, Digits
<1>9. g * w + a \in 0 .. (PerWindow * w - 1)
  BY <1>1, <1>3, <1>4, <1>5, DigitsLess
<1>10. PerWindow * w = w * PerWindow /\ w * PerWindow \in Nat
  BY <1>1, SMTT(30)
<1>11. PlaceOf(f, w) - 1 = g * w + a
  BY <1>7, <1>8
<1>12. PlaceOf(f, w) \in 1 .. (w * PerWindow)
  <2> DEFINE q == g * w + a
  <2>1. q \in Nat /\ q \in 0 .. (w * PerWindow - 1) /\ PlaceOf(f, w) = q + 1
    BY <1>7, <1>8, <1>9, <1>10
  <2> DEFINE n == w * PerWindow
  <2> HIDE DEF q, n
  <2>2. q \in 0 .. (n - 1) /\ n \in Nat
    BY <1>10, <2>1, Zenon DEF n
  <2>3. q + 1 \in 1 .. n
    BY <2>2
  <2> QED
    BY <2>1, <2>3 DEF n
<1>13. a * TileTime + 5 * g + (f % 5) = f
  <2> DEFINE at == a * TileTime
  <2>1. at \in Nat /\ r = f - at /\ r = 5 * g + e
    BY <1>3, <1>4
  <2> HIDE DEF at
  <2>2. at + 5 * g + e = f
    BY <1>2, <1>4, <2>1
  <2> QED
    BY <1>6, <2>2, Zenon DEF at
<1> QED
  <2>1. a \in 0 .. (w - 1) /\ g \in 0 .. (PerWindow - 1)
    BY <1>1, <1>3, <1>4, <1>5
  <2>2. (PlaceOf(f, w) - 1) % w = a /\ (PlaceOf(f, w) - 1) \div w = g
    BY <1>8, <1>11, Zenon
  <2> QED
    BY <1>12, <1>13, <2>1, <2>2, Zenon DEF a, g, r

\* The positions that a piece of the mask is of, the piece of an odd or even
\* latent.
LEMMA PieceOf ==
  ASSUME NEW g \in 0 .. (nT * PerWindow - 1), NEW e \in 0 .. 4
  PROVE  LET latent == 2 * g + (IF e = 0 THEN 0 ELSE 1)
         IN  5 * g + e \in ToSet(MaskEncoder[latent])
<1> DEFINE latent == 2 * g + (IF e = 0 THEN 0 ELSE 1)
           N == nT * PerWindow
<1>1. N \in Nat /\ TrainFrames \div 5 = N
  <2>1. nT \in Nat /\ PerWindow \in Nat
    BY Windows
  <2>2. nT * PerWindow \in Nat
    BY <2>1, SMTT(30)
  <2> QED
    BY <2>2, Windows
<1> HIDE DEF N
<1>2. g \in Nat /\ g < N
  BY <1>1 DEF N
<1>3. latent \in 0 .. (2 * N - 1) /\ latent \div 2 = g /\ latent % 2 = IF e = 0 THEN 0 ELSE 1
  BY <1>1, <1>2
<1> HIDE DEF latent
<1>4. MaskEncoder[latent] = MaskPiece(g, IF e = 0 THEN 0 ELSE 1)
  BY <1>1, <1>3 DEF MaskEncoder
<1>5. 5 * g + e \in ToSet(MaskPiece(g, IF e = 0 THEN 0 ELSE 1))
  <2>1. CASE e = 0
    <3>1. MaskPiece(g, 0)[1] = 5 * g /\ 1 \in DOMAIN MaskPiece(g, 0)
      BY DEF MaskPiece
    <3>2. 5 * g + e = 5 * g
      BY <1>2, <2>1
    <3> QED
      BY <2>1, <3>1, <3>2 DEF ToSet
  <2>2. CASE e # 0
    <3>1. MaskPiece(g, 1)[e] = 5 * g + e /\ e \in DOMAIN MaskPiece(g, 1)
      BY <2>2 DEF MaskPiece
    <3> QED
      BY <2>2, <3>1 DEF ToSet
  <2> QED
    BY <2>1, <2>2
<1> QED
  BY <1>4, <1>5 DEF latent

\* Every frame of a decoded chunk is in its place, decoded with its own
\* conditioning, and its mask is its own: the regroupings of _encode() and
\* _decode() in precond.py and of msk_encoder.py undo each other for any
\* number of windows, any length of a window and any batch.
THEOREM ConditioningIsOwn == TemporalSpec => []OwnConditioning
<1>1. TemporalInv => OwnConditioning
  <2> SUFFICES ASSUME TemporalInv, AllDecoded,
                      NEW f \in 0 .. (chunk.windows * TileTime - 1)
               PROVE  LET d == decoded[PlaceOf(f, chunk.windows)]
                          Position(g) == (chunk.first + g.window) * TileTime + 5 * g.group + (f % 5)
                          latent == 2 * ((chunk.first + d.z.window) * PerWindow + d.z.group)
                                      + (IF f % 5 = 0 THEN 0 ELSE 1)
                      IN  /\ Position(d.z) = chunk.first * TileTime + f
                          /\ Position(d.cond) = chunk.first * TileTime + f
                          /\ chunk.first * TileTime + f \in ToSet(m[latent])
    BY DEF OwnConditioning
  <2> DEFINE w == chunk.windows
             s == chunk.first
             d == decoded[PlaceOf(f, w)]
             a == f \div TileTime
             g == (f % TileTime) \div 5
             e == f % 5
             P == w * PerWindow
  <2>1. /\ chunk # Idle /\ Len(decoded) = P
    BY DEF AllDecoded
  <2>2. w \in Nat \ {0} /\ s \in Nat /\ s + w <= nT /\ m = MaskEncoder
    BY <2>1 DEF TemporalInv, Staged
  <2>3. \A n \in 1 .. P : decoded[n] = [z |-> Groups(w)[n], cond |-> Groups(w)[n]]
    BY <2>1, Zenon DEF TemporalInv, Begun
  <2> HIDE DEF w, s
  <2>4. f \in 0 .. (w * TileTime - 1)
    BY DEF w
  <2>5. /\ a \in 0 .. (w - 1) /\ g \in 0 .. (PerWindow - 1)
        /\ PlaceOf(f, w) \in 1 .. P
        /\ (PlaceOf(f, w) - 1) % w = a /\ (PlaceOf(f, w) - 1) \div w = g
        /\ a * TileTime + 5 * g + e = f
    BY <2>2, <2>4, PlaceTaken
  <2>6. Groups(w)[PlaceOf(f, w)] = [window |-> a, group |-> g]
    BY <2>2, <2>5, GroupOf
  <2>7. d.z = [window |-> a, group |-> g] /\ d.cond = [window |-> a, group |-> g]
    <3> DEFINE n == PlaceOf(f, w)
               G == Groups(w)
    <3>1. n \in 1 .. P /\ G[n] = [window |-> a, group |-> g]
      BY <2>5, <2>6
    <3> HIDE DEF n, P, G, a, g
    <3>2. decoded[n] = [z |-> G[n], cond |-> G[n]]
      BY <2>3, <3>1 DEF G
    <3>3. decoded[n].z = G[n] /\ decoded[n].cond = G[n]
      BY <3>2
    <3> QED
      BY <3>1, <3>3 DEF n
  <2>8. f \in Nat /\ e \in 0 .. 4 /\ TileTime \in Nat \ {0} /\ PerWindow \in Nat \ {0} /\ nT \in Nat
        /\ TileTime = PerWindow * 5
    <3>1. w * TileTime \in Nat
      BY <2>2, TemporalAssumption, SMTT(30)
    <3> QED
      BY <2>4, <3>1, TemporalAssumption, Windows
  <2> HIDE DEF a, g, e, d, P
  <2>9. (s + a) * TileTime + 5 * g + e = s * TileTime + f
    <3> DEFINE at == a * TileTime
               st == s * TileTime
    <3>1. (s + a) * TileTime = st + at /\ at \in Nat /\ st \in Nat
      BY <2>2, <2>5, <2>8, SMTT(30)
    <3>2. at + 5 * g + e = f
      BY <2>5
    <3> HIDE DEF at, st
    <3>3. (st + at) + 5 * g + e = st + f
      BY <2>5, <2>8, <3>1, <3>2
    <3> QED
      BY <3>1, <3>3, Zenon DEF st
  <2> DEFINE G == (s + a) * PerWindow + g
  <2>10. s + a \in 0 .. (nT - 1)
    BY <2>2, <2>5, <2>8
  <2>11. G \in 0 .. (nT * PerWindow - 1)
    BY <2>5, <2>8, <2>10, DigitsLess
  <2>12. 5 * G + e = s * TileTime + f
    <3> DEFINE t == (s + a) * PerWindow
               sat == (s + a) * TileTime
               st == s * TileTime
    <3>1. s + a \in Nat
      BY <2>10
    <3>2. t \in Nat /\ sat = 5 * t
      <4> DEFINE c == s + a
      <4> HIDE DEF c
      <4>1. c * PerWindow \in Nat /\ c * (PerWindow * 5) = 5 * (c * PerWindow)
        BY <2>8, <3>1, SMTT(30) DEF c
      <4> QED
        BY <2>8, <4>1 DEF c
    <3>3. sat + 5 * g + e = st + f
      BY <2>9
    <3>4. st \in Nat
      BY <2>2, <2>8, SMTT(30)
    <3> HIDE DEF t, sat, st
    <3>5. 5 * (t + g) + e = st + f
      BY <2>5, <2>8, <3>2, <3>3, <3>4
    <3> QED
      BY <3>5 DEF t, st
  <2>13. s * TileTime + f \in ToSet(m[2 * G + (IF e = 0 THEN 0 ELSE 1)])
    BY <2>2, <2>8, <2>11, <2>12, PieceOf
  <2>14. /\ d.z.window = a /\ d.z.group = g
         /\ d.cond.window = a /\ d.cond.group = g
    BY <2>7
  <2> QED
    BY <2>9, <2>13, <2>14, Zenon DEF s, d, e, w
<1> QED
  BY <1>1, TemporalInvariant, PTL

-----------------------------------------------------------------------------
\* All pixels of a frame are where read_tensor() finds them.
PixelsKept(bytes, h_, w, c) ==
  \A y \in 0 .. (h_ - 1), x \in 0 .. (w - 1), k \in 0 .. (c - 1) :
    bytes[(y * w + x) * c + k + 1] = [channel |-> k, y |-> y, x |-> x]

\* The row, the column and the channel of a byte.
PixelOf(n, w, c) == [channel |-> n % c, y |-> n \div (w * c), x |-> (n \div c) % w]
IsByteOf(n, y, x, k, w, c) == n \div (w * c) = y /\ (n \div c) % w = x /\ n % c = k
ByteAt(y, x, k, w, c) == (y * w + x) * c + k
Area(h_, w, c) == h_ * w * c

\* The byte of a pixel's channel, and its row, column and channel.
LEMMA ThreeDigits ==
  ASSUME NEW h_ \in Nat \ {0}, NEW w \in Nat \ {0}, NEW c \in Nat \ {0},
         NEW y \in 0 .. (h_ - 1), NEW x \in 0 .. (w - 1), NEW k \in 0 .. (c - 1)
  PROVE  /\ ByteAt(y, x, k, w, c) \in 0 .. (Area(h_, w, c) - 1)
         /\ IsByteOf(ByteAt(y, x, k, w, c), y, x, k, w, c)
<1> DEFINE p == y * w + x
           n == p * c + k
<1>1. p \in 0 .. (h_ * w - 1) /\ p \in Nat /\ p \div w = y /\ p % w = x
  BY DigitsLess, Digits
<1> HIDE DEF p
<1>2. n \in Nat /\ n \div c = p /\ n % c = k
  BY <1>1, Digits
<1>3. n \in 0 .. (h_ * w * c - 1)
  <2> DEFINE hw == h_ * w
  <2>1. hw \in Nat
    BY SMTT(30)
  <2>2. p \in 0 .. (hw - 1)
    BY <1>1
  <2> HIDE DEF hw
  <2>3. p * c + k \in 0 .. (hw * c - 1)
    BY <2>1, <2>2, DigitsLess
  <2> QED
    BY <2>3 DEF hw
<1> HIDE DEF n
<1>4. n \div (w * c) = y
  <2>1. (n \div c) \div w = n \div (c * w)
    BY <1>2, DivDiv
  <2>2. c * w = w * c
    BY SMTT(30)
  <2> QED
    BY <1>1, <1>2, <2>1, <2>2, Zenon
<1> QED
  BY <1>1, <1>2, <1>3, <1>4, Zenon DEF n, p, ByteAt, IsByteOf, Area

\* What is written of a frame that is taken for what it is.
LEMMA WrittenAsGiven ==
  ASSUME NEW h_ \in Nat \ {0}, NEW w \in Nat \ {0}, NEW c \in Nat \ {0},
         c \in {1, 3, 4}, NEW layout \in {"CHW", "HWC"},
         layout = "CHW" => c # w,
         layout = "HWC" => ~ (h_ \in {1, 3, 4} /\ h_ # c)
  PROVE  /\ Written(h_, w, c, layout) # <<>>
         /\ PixelsKept(Written(h_, w, c, layout), h_, w, c)
<1> DEFINE N == Area(h_, w, c)
           b == Written(h_, w, c, layout)
<1>1. b = [n \in 1 .. N |-> PixelOf(n - 1, w, c)]
  <2>1. CASE layout = "CHW"
    BY <2>1 DEF Written, Shape, Element, Area, PixelOf
  <2>2. CASE layout = "HWC"
    BY <2>2 DEF Written, Shape, Element, Area, PixelOf
  <2> QED
    BY <2>1, <2>2
<1>0. N \in Nat
  BY SMTT(30) DEF Area
<1> HIDE DEF b, N
<1>2. ASSUME NEW y \in 0 .. (h_ - 1), NEW x \in 0 .. (w - 1), NEW k \in 0 .. (c - 1)
      PROVE  /\ ByteAt(y, x, k, w, c) + 1 \in DOMAIN b
             /\ b[ByteAt(y, x, k, w, c) + 1] = [channel |-> k, y |-> y, x |-> x]
  <2> DEFINE n == ByteAt(y, x, k, w, c)
  <2>1. n \in 0 .. (N - 1) /\ PixelOf(n, w, c) = [channel |-> k, y |-> y, x |-> x]
    <3>1. c \in Nat \ {0}
      OBVIOUS
    <3>2. ByteAt(y, x, k, w, c) \in 0 .. (Area(h_, w, c) - 1)
      BY <3>1, ThreeDigits, Zenon
    <3>3. IsByteOf(ByteAt(y, x, k, w, c), y, x, k, w, c)
      BY <3>1, ThreeDigits, Zenon
    <3>4. PixelOf(ByteAt(y, x, k, w, c), w, c) = [channel |-> k, y |-> y, x |-> x]
      BY <3>3, Zenon DEF IsByteOf, PixelOf
    <3> QED
      BY <3>2, <3>4, Zenon DEF N
  <2> HIDE DEF n
  <2>2. n + 1 \in 1 .. N /\ (n + 1) - 1 = n
    BY <1>0, <2>1
  <2>3. n + 1 \in DOMAIN b /\ b[n + 1] = PixelOf(n, w, c)
    BY <1>1, <2>2
  <2> QED
    BY <2>1, <2>3, Zenon DEF n
<1>3. b # <<>>
  <2>1. 0 \in 0 .. (h_ - 1) /\ 0 \in 0 .. (w - 1) /\ 0 \in 0 .. (c - 1)
    OBVIOUS
  <2>2. DOMAIN b # {}
    BY <1>2, <2>1
  <2> QED
    BY <2>2
<1> QED
  BY <1>2, <1>3, Zenon DEF b, PixelsKept, ByteAt

\* A frame whose shape is of its own layout only is read from shared memory as
\* it was written, whatever its size: write_tensor() of server/shm.py refuses
\* none, and permutes and copies it right.  The results of the session are
\* [C, H, W] of three channels, so this is all of them but those 3 wide.
THEOREM LayoutIsKept == TemporalSpec => []LayoutKept
<1>1. TemporalInv => LayoutKept
  <2> SUFFICES ASSUME TemporalInv, written # NoFrame, ~ ReadAsOther(written) PROVE IsReadBack
    BY DEF LayoutKept
  <2> DEFINE h_ == written.h
             w == written.w
             c == written.c
             layout == written.layout
             bytes == written.bytes
  <2>1. /\ h_ \in Nat \ {0} /\ w \in Nat \ {0} /\ c \in {1, 3, 4} /\ layout \in {"CHW", "HWC"}
        /\ bytes = Written(h_, w, c, layout)
    BY DEF TemporalInv, Frame
  <2>2. /\ layout = "CHW" => c # w
        /\ layout = "HWC" => ~ (h_ \in {1, 3, 4} /\ h_ # c)
    BY DEF ReadAsOther
  <2> HIDE DEF h_, w, c, layout, bytes
  <2>3. bytes # <<>> /\ PixelsKept(bytes, h_, w, c)
    <3>1. /\ Written(h_, w, c, layout) # <<>>
          /\ PixelsKept(Written(h_, w, c, layout), h_, w, c)
      BY <2>1, <2>2, WrittenAsGiven
    <3> QED
      BY <2>1, <3>1, Zenon
  <2> QED
    BY <2>3, Zenon DEF IsReadBack, ByteOf, PixelsKept, h_, w, c, bytes
<1> QED
  BY <1>1, TemporalInvariant, PTL

-----------------------------------------------------------------------------
(***************************************************************************)
(* Tokens: the number of a token, its window and its place.                *)
(***************************************************************************)

\* Three digits are two, the last of them of two.
LEMMA DigitsOfDigits ==
  ASSUME NEW b \in Nat \ {0}, NEW c \in Nat \ {0},
         NEW x \in Nat, NEW y \in 0 .. (b - 1), NEW z \in 0 .. (c - 1)
  PROVE  /\ (x * b + y) * c + z \in Nat
         /\ ((x * b + y) * c + z) \div (b * c) = x
         /\ ((x * b + y) * c + z) % (b * c) = y * c + z
<1> DEFINE bc == b * c
           yz == y * c + z
<1>1. bc \in Nat \ {0}
  BY SMTT(30)
<1>2. yz \in 0 .. (bc - 1)
  BY DigitsLess
<1>3. (x * b + y) * c + z = x * bc + yz
  <2>1. x * b \in Nat /\ (x * b) * c \in Nat /\ (x * b) * c = x * bc /\ y * c \in Nat
    BY SMTT(30)
  <2>2. (x * b + y) * c = (x * b) * c + y * c
    BY <2>1, SMTT(30)
  <2> DEFINE xbc == (x * b) * c
             yc == y * c
             l == (x * b + y) * c
             r == x * bc
  <2>3. l = xbc + yc /\ xbc = r /\ xbc \in Nat /\ yc \in Nat
    BY <2>1, <2>2
  <2> HIDE DEF xbc, yc, l, r
  <2>4. l + z = r + (yc + z)
    BY <2>3
  <2> QED
    BY <2>4, Zenon DEF l, r, yc
<1> HIDE DEF bc, yz
<1>4. x * bc + yz \in Nat /\ (x * bc + yz) \div bc = x /\ (x * bc + yz) % bc = yz
  BY <1>1, <1>2, Digits
<1> QED
  BY <1>3, <1>4, Zenon DEF bc, yz

\* The sides of a window, in tokens.
LEMMA SidesOfWindow ==
  /\ T \in Nat \ {0} /\ H \in Nat \ {0} /\ W \in Nat \ {0}
  /\ LatentsH = 2 * H /\ LatentsW = 2 * W
  /\ TokensPerWindow \in Nat \ {0}
<1>1. T \in Nat \ {0} /\ H \in Nat \ {0} /\ LatentsH = 2 * H
  BY AttentionAssumption DEF T, H
<1>2. W \in Nat \ {0} /\ LatentsW = 2 * W
  BY AttentionAssumption DEF W
<1>3. TokensPerWindow \in Nat \ {0}
  BY <1>1, <1>2, SMTT(30) DEF TokensPerWindow
<1> QED
  BY <1>1, <1>2, <1>3

\* Numbers of windows.
Grid == grid \in [t : Nat, h : Nat, w : Nat]

\* Where there is a token there are windows.
LEMMA SidesOfGrid ==
  ASSUME Grid, NEW n \in Tokens
  PROVE  n \in Nat /\ grid.t \in Nat \ {0} /\ grid.h \in Nat \ {0} /\ grid.w \in Nat \ {0}
<1> DEFINE t == grid.t
           h_ == grid.h
           w == grid.w
           per == TokensPerWindow
<1>1. t \in Nat /\ h_ \in Nat /\ w \in Nat /\ per \in Nat
  BY SidesOfWindow DEF Grid
<1>2. n \in 0 .. (t * h_ * w * per - 1)
  BY DEF Tokens
<1> HIDE DEF t, h_, w, per
<1>3. t * h_ * w * per \in Nat
  BY <1>1, SMTT(30)
<1>4. n \in Nat /\ t * h_ * w * per # 0
  BY <1>2, <1>3
<1>5. t # 0
  BY <1>1, <1>4, SMTT(30)
<1>6. h_ # 0
  BY <1>1, <1>4, SMTT(30)
<1>7. w # 0
  BY <1>1, <1>4, SMTT(30)
<1> QED
  BY <1>1, <1>4, <1>5, <1>6, <1>7 DEF t, h_, w

\* The window of a token: its number, taken apart.
LEMMA WindowDigits ==
  ASSUME Grid, NEW n \in Tokens
  PROVE  /\ n \div TokensPerWindow \in Nat
         /\ Window(n)[1] \in Nat
         /\ Window(n)[2] \in 0 .. (grid.h - 1)
         /\ Window(n)[3] \in 0 .. (grid.w - 1)
         /\ (Window(n)[1] * grid.h + Window(n)[2]) * grid.w + Window(n)[3]
              = n \div TokensPerWindow
<1> DEFINE c == n \div TokensPerWindow
           h_ == grid.h
           w == grid.w
<1>1. n \in Nat /\ h_ \in Nat \ {0} /\ w \in Nat \ {0}
  BY SidesOfGrid
<1>2. c \in Nat
  BY <1>1, SidesOfWindow, DivNat
<1>3. Window(n)[1] = c \div (h_ * w) /\ Window(n)[2] = (c \div w) % h_ /\ Window(n)[3] = c % w
  BY DEF Window
<1> HIDE DEF c, h_, w
<1> DEFINE q == c \div w
           z == c % w
           x == q \div h_
           y == q % h_
<1>4. q \in Nat /\ q * w \in Nat /\ z \in 0 .. (w - 1) /\ z = c - q * w
  BY <1>1, <1>2, DivMod
<1>5. c \div (h_ * w) = x
  <2>1. (c \div w) \div h_ = c \div (w * h_)
    BY <1>1, <1>2, DivDiv
  <2>2. w * h_ = h_ * w
    BY <1>1, SMTT(30)
  <2> QED
    BY <2>1, <2>2, Zenon
<1> HIDE DEF q, z
<1>6. x \in Nat /\ x * h_ \in Nat /\ y \in 0 .. (h_ - 1) /\ y = q - x * h_
  BY <1>1, <1>4, DivMod
<1>7. Window(n)[1] = x /\ Window(n)[2] = y /\ Window(n)[3] = z
  BY <1>3, <1>5, Zenon DEF q, z
<1> HIDE DEF x, y
<1>8. x * h_ + y = q
  <2> DEFINE xh == x * h_
  <2>1. xh \in Nat /\ y = q - xh
    BY <1>6
  <2> HIDE DEF xh
  <2>2. xh + y = q
    BY <1>4, <2>1
  <2> QED
    BY <2>2 DEF xh
<1>9. q * w + z = c
  <2> DEFINE qw == q * w
  <2>1. qw \in Nat /\ z = c - qw
    BY <1>4
  <2> HIDE DEF qw
  <2>2. qw + z = c
    BY <1>2, <2>1
  <2> QED
    BY <2>2 DEF qw
<1>10. (x * h_ + y) * w + z = c
  BY <1>8, <1>9, Zenon
<1> QED
  BY <1>2, <1>4, <1>6, <1>7, <1>10, Zenon DEF c, h_, w

\* A row, taken apart, is a place.
LEMMA RotaryIsPlace ==
  ASSUME Grid, NEW n \in Tokens
  PROVE  RotaryOf(n) = Place(n)
<1> DEFINE b == grid.h
           c == grid.w
           c1 == Window(n)[1]
           c2 == Window(n)[2]
           c3 == Window(n)[3]
           e == n % TokensPerWindow
           i == e \div (H * W)
           j == (e \div W) % H
           k == e % W
           p == c1 * T + i
           row == p * b + c2
           R == row * H + j
           col == R * c + c3
           at == col * W + k
           pph == (b * LatentsH) \div 2
           ppw == (c * LatentsW) \div 2
<1>1. n \in Nat /\ b \in Nat \ {0} /\ c \in Nat \ {0}
  BY SidesOfGrid
<1>2. c1 \in Nat /\ c2 \in 0 .. (b - 1) /\ c3 \in 0 .. (c - 1)
  BY WindowDigits
<1>3. T \in Nat \ {0} /\ H \in Nat \ {0} /\ W \in Nat \ {0} /\ TokensPerWindow \in Nat \ {0}
  BY SidesOfWindow
<1>4. i \in Nat /\ j \in 0 .. (H - 1) /\ k \in 0 .. (W - 1)
  <2>1. e \in Nat
    BY <1>1, <1>3, DivNat
  <2> HIDE DEF e
  <2>2. H * W \in Nat \ {0}
    BY <1>3, SMTT(30)
  <2>3. i \in Nat /\ k \in 0 .. (W - 1) /\ e \div W \in Nat
    BY <1>3, <2>1, <2>2, DivNat, DivMod
  <2>4. j \in 0 .. (H - 1)
    BY <1>3, <2>3, DivMod
  <2> QED
    BY <2>3, <2>4
<1>5. pph = b * H /\ ppw = c * W
  <2> DEFINE bH == b * H
             cW == c * W
  <2>1. b * (2 * H) = 2 * bH /\ bH \in Nat
    BY <1>1, <1>3, SMTT(30)
  <2>2. c * (2 * W) = 2 * cW /\ cW \in Nat
    BY <1>1, <1>3, SMTT(30)
  <2> HIDE DEF bH, cW
  <2>3. (2 * bH) \div 2 = bH /\ (2 * cW) \div 2 = cW
    BY <2>1, <2>2
  <2>4. LatentsH = 2 * H /\ LatentsW = 2 * W
    BY SidesOfWindow
  <2> QED
    BY <2>1, <2>2, <2>3, <2>4, Zenon DEF bH, cW
<1>6. RowOf(n) = at
  BY Zenon DEF RowOf
<1>7. RotaryOf(n) = <<RowOf(n) \div (pph * ppw), (RowOf(n) \div ppw) % pph, RowOf(n) % ppw>>
  BY Zenon DEF RotaryOf
<1>8. Place(n) = <<p, c2 * H + j, c3 * W + k>>
  BY Zenon DEF Place
<1> HIDE DEF b, c, c1, c2, c3, e, i, j, k, pph, ppw
<1>9. p \in Nat
  <2>1. c1 * T \in Nat
    BY <1>2, <1>3, SMTT(30)
  <2> QED
    BY <1>4, <2>1
<1> HIDE DEF p
<1>10. row \in Nat /\ R \in Nat /\ R \div (b * H) = p /\ R % (b * H) = c2 * H + j
  <2>1. p * b \in Nat
    BY <1>1, <1>9, SMTT(30)
  <2>2. row \in Nat
    BY <1>1, <1>2, <2>1
  <2> QED
    BY <1>1, <1>2, <1>3, <1>4, <1>9, <2>2, DigitsOfDigits
<1> HIDE DEF R
<1>11. at \in Nat /\ at \div (c * W) = R /\ at % (c * W) = c3 * W + k
  BY <1>1, <1>2, <1>3, <1>4, <1>10, DigitsOfDigits
<1> HIDE DEF at
<1>12. at \div (pph * ppw) = p
  <2>1. pph \in Nat \ {0} /\ ppw \in Nat \ {0}
    BY <1>1, <1>3, <1>5, SMTT(30)
  <2>2. (at \div ppw) \div pph = at \div (ppw * pph)
    BY <1>11, <2>1, DivDiv
  <2>3. ppw * pph = pph * ppw
    BY <2>1, SMTT(30)
  <2>4. at \div ppw = R /\ R \div pph = p
    BY <1>5, <1>10, <1>11, Zenon
  <2> QED
    BY <2>2, <2>3, <2>4, Zenon
<1>13. (at \div ppw) % pph = c2 * H + j /\ at % ppw = c3 * W + k
  BY <1>5, <1>10, <1>11, Zenon
<1> QED
  BY <1>6, <1>7, <1>8, <1>12, <1>13, Zenon

\* A token's rotary embedding is that of its place in the picture and its
\* timestep that of its window: the rearrangements of rope() and forward() in
\* transformer_wan.py agree, for any number and any size of windows.
THEOREM TokensAreInPlace == AttentionSpec => []TokensInPlace
<1>1. AttentionInit => Grid
  BY DEF AttentionInit, Grid
<1>2. Grid /\ [AttentionNext]_attnvars => Grid'
  <2> SUFFICES ASSUME Grid, [AttentionNext]_attnvars PROVE Grid'
    OBVIOUS
  <2>1. ASSUME NEW type \in Types, NEW blocks \in Blocks, NEW t \in WindowsT,
               NEW h_ \in WindowsH, NEW w \in WindowsW, NEW n,
               Forward(type, blocks, [t |-> t, h |-> h_, w |-> w], n)
        PROVE  Grid'
    <3>1. t \in Nat /\ h_ \in Nat /\ w \in Nat
      BY AttentionAssumption
    <3>2. grid' = [t |-> t, h |-> h_, w |-> w]
      BY <2>1 DEF Forward
    <3> QED
      BY <3>1, <3>2 DEF Grid
  <2>2. CASE Block
    BY <2>2 DEF Block, Grid
  <2>3. CASE ForwardEnds
    BY <2>3 DEF ForwardEnds, Grid
  <2>4. CASE UNCHANGED attnvars
    BY <2>4 DEF attnvars, Grid
  <2> QED
    BY <2>1, <2>2, <2>3, <2>4 DEF AttentionNext
<1>3. Grid => TokensInPlace
  <2> SUFFICES ASSUME Grid, NEW n \in Tokens
               PROVE  RotaryOf(n) = Place(n) /\ TimestepOf(n) = n \div TokensPerWindow
    BY DEF TokensInPlace
  <2>1. RotaryOf(n) = Place(n)
    BY RotaryIsPlace
  <2>2. TimestepOf(n) = n \div TokensPerWindow
    BY WindowDigits, Zenon DEF TimestepOf
  <2> QED
    BY <2>1, <2>2
<1> QED
  BY <1>1, <1>2, <1>3, PTL DEF AttentionSpec


-----------------------------------------------------------------------------
(***************************************************************************)
(* Attention: how far tokens know of each other.                           *)
(***************************************************************************)

\* A window's sides, and how many windows there are, in each dimension.
Side(d) == <<T, H, W>>[d]
Wide(d) == <<grid.t, grid.h, grid.w>>[d]

\* There are windows in every dimension.
Filled == grid.t # 0 /\ grid.h # 0 /\ grid.w # 0

\* Sides, numbers and extents.
LEMMA SidesAndWidths ==
  ASSUME Grid, Filled, NEW d \in Dims
  PROVE  /\ Side(d) \in Nat \ {0} /\ Wide(d) \in Nat \ {0}
         /\ Extents[d] = Wide(d) * Side(d)
<1>1. /\ T \in Nat \ {0} /\ H \in Nat \ {0} /\ W \in Nat \ {0}
  BY SidesOfWindow
<1>2. grid.t \in Nat \ {0} /\ grid.h \in Nat \ {0} /\ grid.w \in Nat \ {0}
  BY DEF Grid, Filled
<1> DEFINE s1 == T
           s2 == H
           s3 == W
           n1 == grid.t
           n2 == grid.h
           n3 == grid.w
           e1 == n1 * s1
           e2 == n2 * s2
           e3 == n3 * s3
<1>3. /\ Side(d) = <<s1, s2, s3>>[d] /\ Wide(d) = <<n1, n2, n3>>[d]
      /\ Extents = <<e1, e2, e3>>
  BY Zenon DEF Side, Wide, Extents
<1>4. d = 1 \/ d = 2 \/ d = 3
  BY DEF Dims
<1> HIDE DEF s1, s2, s3, n1, n2, n3, e1, e2, e3
<1>5. CASE d = 1
  <2>1. Side(d) = s1 /\ Wide(d) = n1 /\ Extents[d] = e1
    BY <1>3, <1>5
  <2> QED
    BY <1>1, <1>2, <2>1, Zenon DEF s1, n1, e1
<1>6. CASE d = 2
  <2>1. Side(d) = s2 /\ Wide(d) = n2 /\ Extents[d] = e2
    BY <1>3, <1>6
  <2> QED
    BY <1>1, <1>2, <2>1, Zenon DEF s2, n2, e2
<1>7. CASE d = 3
  <2>1. Side(d) = s3 /\ Wide(d) = n3 /\ Extents[d] = e3
    BY <1>3, <1>7
  <2> QED
    BY <1>1, <1>2, <2>1, Zenon DEF s3, n3, e3
<1> QED
  BY <1>4, <1>5, <1>6, <1>7

\* Where a token is within its window.
Inside(n) ==
  LET e == n % TokensPerWindow IN <<e \div (H * W), (e \div W) % H, e % W>>

\* The window of a token is one of the grid, and holds its place.
LEMMA TokenParts ==
  ASSUME Grid, NEW n \in Tokens, NEW d \in Dims
  PROVE  /\ Window(n)[d] \in 0 .. (Wide(d) - 1) /\ Inside(n)[d] \in 0 .. (Side(d) - 1)
         /\ Place(n)[d] = Window(n)[d] * Side(d) + Inside(n)[d]
<1> DEFINE e == n % TokensPerWindow
           c == n \div TokensPerWindow
           i1 == e \div (H * W)
           i2 == (e \div W) % H
           i3 == e % W
           w1 == Window(n)[1]
           w2 == Window(n)[2]
           w3 == Window(n)[3]
<1>1. /\ T \in Nat \ {0} /\ H \in Nat \ {0} /\ W \in Nat \ {0} /\ TokensPerWindow \in Nat \ {0}
  BY SidesOfWindow
<1>2. n \in Nat /\ grid.t \in Nat \ {0} /\ grid.h \in Nat \ {0} /\ grid.w \in Nat \ {0}
  BY SidesOfGrid
<1>3. c \in Nat /\ w1 \in Nat /\ w2 \in 0 .. (grid.h - 1) /\ w3 \in 0 .. (grid.w - 1)
  BY WindowDigits
<1>4. e \in 0 .. (TokensPerWindow - 1)
  BY <1>1, <1>2, DivMod
<1>5. w1 \in 0 .. (grid.t - 1)
  <2> DEFINE t == grid.t
             h_ == grid.h
             w == grid.w
             per == TokensPerWindow
             hw == h_ * w
             thw == t * hw
  <2>1. n \in 0 .. (t * h_ * w * per - 1)
    BY DEF Tokens
  <2>2. (t * h_) * w = thw /\ hw \in Nat \ {0} /\ thw \in Nat
    BY <1>2, SMTT(30)
  <2>3. w1 = c \div hw
    BY DEF Window
  <2> HIDE DEF thw
  <2>4. n \in 0 .. (thw * per - 1)
    BY <2>1, <2>2, Zenon
  <2> HIDE DEF c, w1, per
  <2>5. thw * per \in Nat /\ n < thw * per
    <3>1. thw * per \in Nat
      BY <1>1, <2>2, SMTT(30) DEF per
    <3> DEFINE q == thw * per
    <3>2. n \in 0 .. (q - 1) /\ q \in Nat
      BY <2>4, <3>1
    <3> HIDE DEF q
    <3>3. n < q
      BY <1>2, <3>2
    <3> QED
      BY <3>1, <3>3 DEF q
  <2>6. c < thw
    BY <1>1, <1>2, <2>2, <2>5, DivLess DEF c, per
  <2>7. c \div hw < t
    <3> HIDE DEF hw
    <3>1. c < t * hw
      BY <2>6, Zenon DEF thw
    <3> QED
      BY <1>2, <1>3, <2>2, <3>1, DivLess
  <2> HIDE DEF hw, t
  <2> QED
    BY <1>2, <1>3, <2>3, <2>7 DEF t
<1>6. i1 \in 0 .. (T - 1) /\ i2 \in 0 .. (H - 1) /\ i3 \in 0 .. (W - 1)
  <2>1. e \in Nat /\ e < TokensPerWindow
    <3> HIDE DEF e
    <3> QED
      BY <1>1, <1>4
  <2> DEFINE hw == H * W
  <2>2. hw \in Nat \ {0} /\ TokensPerWindow = T * hw
    BY <1>1, SMTT(30) DEF TokensPerWindow
  <2> HIDE DEF e
  <2>3. e \div W \in Nat /\ i3 \in 0 .. (W - 1)
    BY <1>1, <2>1, DivMod
  <2>4. i2 \in 0 .. (H - 1)
    BY <1>1, <2>3, DivMod
  <2>5. i1 \in Nat /\ i1 < T
    <3> HIDE DEF hw
    <3>1. e < T * hw
      BY <2>1, <2>2, Zenon
    <3>2. e \div hw < T /\ e \div hw \in Nat
      BY <1>1, <2>1, <2>2, <3>1, DivLess, DivNat
    <3> QED
      BY <3>2, Zenon DEF hw
  <2> HIDE DEF i1
  <2> QED
    BY <1>1, <2>3, <2>4, <2>5
<1>7. Place(n) = <<w1 * T + i1, w2 * H + i2, w3 * W + i3>> /\ Inside(n) = <<i1, i2, i3>>
  BY Zenon DEF Place, Inside
<1> DEFINE s1 == T
           s2 == H
           s3 == W
           n1 == grid.t
           n2 == grid.h
           n3 == grid.w
           p1 == w1 * T + i1
           p2 == w2 * H + i2
           p3 == w3 * W + i3
<1>8. /\ Side(d) = <<s1, s2, s3>>[d] /\ Wide(d) = <<n1, n2, n3>>[d]
      /\ Place(n) = <<p1, p2, p3>>
  BY <1>7, Zenon DEF Side, Wide
<1>9. d = 1 \/ d = 2 \/ d = 3
  BY DEF Dims
<1>10. /\ w1 \in 0 .. (n1 - 1) /\ w2 \in 0 .. (n2 - 1) /\ w3 \in 0 .. (n3 - 1)
       /\ i1 \in 0 .. (s1 - 1) /\ i2 \in 0 .. (s2 - 1) /\ i3 \in 0 .. (s3 - 1)
  BY <1>3, <1>5, <1>6, Zenon
<1>11. p1 = w1 * s1 + i1 /\ p2 = w2 * s2 + i2 /\ p3 = w3 * s3 + i3
  BY Zenon
<1> HIDE DEF s1, s2, s3, n1, n2, n3, p1, p2, p3, i1, i2, i3
<1>12. CASE d = 1
  <2>1. Side(d) = s1 /\ Wide(d) = n1 /\ Place(n)[d] = p1 /\ Inside(n)[d] = i1
    BY <1>7, <1>8, <1>12
  <2> QED
    BY <1>10, <1>11, <1>12, <2>1, Zenon DEF w1
<1>13. CASE d = 2
  <2>1. Side(d) = s2 /\ Wide(d) = n2 /\ Place(n)[d] = p2 /\ Inside(n)[d] = i2
    BY <1>7, <1>8, <1>13
  <2> QED
    BY <1>10, <1>11, <1>13, <2>1, Zenon DEF w2
<1>14. CASE d = 3
  <2>1. Side(d) = s3 /\ Wide(d) = n3 /\ Place(n)[d] = p3 /\ Inside(n)[d] = i3
    BY <1>7, <1>8, <1>14
  <2> QED
    BY <1>10, <1>11, <1>14, <2>1, Zenon DEF w3
<1> QED
  BY <1>9, <1>12, <1>13, <1>14

\* Every place of the picture is some token's.
LEMMA TokenOf ==
  ASSUME Grid, Filled, NEW win, NEW in,
         \A d \in Dims : win[d] \in 0 .. (Wide(d) - 1) /\ in[d] \in 0 .. (Side(d) - 1)
  PROVE  \E n \in Tokens : \A d \in Dims : Window(n)[d] = win[d] /\ Inside(n)[d] = in[d]
<1> DEFINE t == grid.t
           h_ == grid.h
           w == grid.w
           w1 == win[1]
           w2 == win[2]
           w3 == win[3]
           i1 == in[1]
           i2 == in[2]
           i3 == in[3]
           c == (w1 * h_ + w2) * w + w3
           e == (i1 * H + i2) * W + i3
           n == c * TokensPerWindow + e
<1>1. /\ T \in Nat \ {0} /\ H \in Nat \ {0} /\ W \in Nat \ {0} /\ TokensPerWindow \in Nat \ {0}
  BY SidesOfWindow
<1>2. t \in Nat \ {0} /\ h_ \in Nat \ {0} /\ w \in Nat \ {0}
  BY DEF Grid, Filled
<1>3. 1 \in Dims /\ 2 \in Dims /\ 3 \in Dims
  BY DEF Dims
<1>4. /\ Side(1) = T /\ Side(2) = H /\ Side(3) = W
      /\ Wide(1) = t /\ Wide(2) = h_ /\ Wide(3) = w
  <2> HIDE DEF t, h_, w
  <2>1. \A d : Wide(d) = <<t, h_, w>>[d]
    BY Zenon DEF Wide, t, h_, w
  <2>2. Wide(1) = t /\ Wide(2) = h_ /\ Wide(3) = w
    BY <2>1
  <2> QED
    BY <2>2 DEF Side
<1>5. /\ w1 \in 0 .. (t - 1) /\ w2 \in 0 .. (h_ - 1) /\ w3 \in 0 .. (w - 1)
      /\ i1 \in 0 .. (T - 1) /\ i2 \in 0 .. (H - 1) /\ i3 \in 0 .. (W - 1)
  BY <1>3, <1>4, Zenon
<1>6. w1 \in Nat /\ w2 \in Nat /\ w3 \in Nat /\ i1 \in Nat /\ i2 \in Nat /\ i3 \in Nat
  <2> HIDE DEF t, h_, w, w1, w2, w3, i1, i2, i3
  <2> QED
    BY <1>5
<1> HIDE DEF t, h_, w, w1, w2, w3, i1, i2, i3
<1>7. c \in 0 .. (((t * h_) * w) - 1) /\ c \in Nat /\ (t * h_) * w \in Nat
  <2> DEFINE wh == w1 * h_ + w2
             th == t * h_
  <2>1. wh \in 0 .. (th - 1) /\ th \in Nat
    BY <1>2, <1>5, DigitsLess, SMTT(30)
  <2> HIDE DEF wh, th
  <2>2. wh * w + w3 \in 0 .. (th * w - 1)
    BY <1>2, <1>5, <2>1, DigitsLess
  <2>3. th * w \in Nat
    BY <1>2, <2>1, SMTT(30)
  <2> DEFINE cc == wh * w + w3
             q == th * w
  <2>4. cc \in 0 .. (q - 1) /\ q \in Nat
    BY <2>2, <2>3
  <2> HIDE DEF cc, q
  <2>5. cc \in Nat
    BY <2>4
  <2> QED
    BY <2>4, <2>5, Zenon DEF cc, q, wh, th
<1>8. e \in 0 .. (TokensPerWindow - 1)
  <2> DEFINE ii == i1 * H + i2
             th == T * H
  <2>1. ii \in 0 .. (th - 1) /\ th \in Nat
    BY <1>1, <1>5, DigitsLess, SMTT(30)
  <2> HIDE DEF ii, th
  <2>2. ii * W + i3 \in 0 .. (th * W - 1)
    BY <1>1, <1>5, <2>1, DigitsLess
  <2> QED
    BY <2>2, Zenon DEF TokensPerWindow, ii, th
<1>9. c % w = w3 /\ c \div w = w1 * h_ + w2 /\ c \div (h_ * w) = w1
  <2>1. w1 * h_ + w2 \in Nat
    BY <1>2, <1>5, <1>6, Digits
  <2> DEFINE wh == w1 * h_ + w2
  <2>2. c \div (h_ * w) = w1
    BY <1>2, <1>5, <1>6, DigitsOfDigits
  <2> HIDE DEF wh
  <2>3. (wh * w + w3) \div w = wh /\ (wh * w + w3) % w = w3
    BY <1>2, <1>5, <2>1, Digits DEF wh
  <2> QED
    BY <2>2, <2>3, Zenon DEF wh
<1>10. (w1 * h_ + w2) % h_ = w2
  BY <1>2, <1>5, <1>6, Digits
<1>11. e % W = i3 /\ e \div W = i1 * H + i2 /\ e \div (H * W) = i1
  <2>1. i1 * H + i2 \in Nat
    BY <1>1, <1>5, <1>6, Digits
  <2> DEFINE ih == i1 * H + i2
  <2>2. e \div (H * W) = i1
    BY <1>1, <1>5, <1>6, DigitsOfDigits
  <2> HIDE DEF ih
  <2>3. (ih * W + i3) \div W = ih /\ (ih * W + i3) % W = i3
    BY <1>1, <1>5, <2>1, Digits DEF ih
  <2> QED
    BY <2>2, <2>3, Zenon DEF ih
<1>12. (i1 * H + i2) % H = i2
  BY <1>1, <1>5, <1>6, Digits
<1> HIDE DEF c, e
<1>13. n \div TokensPerWindow = c /\ n % TokensPerWindow = e
  BY <1>1, <1>7, <1>8, Digits
<1>14. n \in Tokens
  <2> DEFINE q == (t * h_) * w
             per == TokensPerWindow
  <2> HIDE DEF q, per
  <2>1. c * per + e \in 0 .. (q * per - 1)
    <3>1. c \in 0 .. (q - 1) /\ e \in 0 .. (per - 1) /\ q \in Nat /\ per \in Nat \ {0}
      BY <1>1, <1>7, <1>8, Zenon DEF q, per
    <3> QED
      BY <3>1, DigitsLess
  <2> QED
    BY <2>1, Zenon DEF Tokens, q, per, t, h_, w
<1>15. Window(n) = <<w1, w2, w3>>
  <2>1. Window(n) = <<c \div (h_ * w), (c \div w) % h_, c % w>>
    BY <1>13, Zenon DEF Window, t, h_, w
  <2> QED
    BY <1>9, <1>10, <2>1, Zenon
<1>16. Inside(n) = <<i1, i2, i3>>
  <2>1. Inside(n) = <<e \div (H * W), (e \div W) % H, e % W>>
    BY <1>13, Zenon DEF Inside
  <2> QED
    BY <1>11, <1>12, <2>1, Zenon
<1> HIDE DEF n
<1>17. ASSUME NEW d \in Dims PROVE Window(n)[d] = win[d] /\ Inside(n)[d] = in[d]
  <2>1. d = 1 \/ d = 2 \/ d = 3
    BY DEF Dims
  <2>2. /\ <<w1, w2, w3>>[1] = w1 /\ <<w1, w2, w3>>[2] = w2 /\ <<w1, w2, w3>>[3] = w3
        /\ <<i1, i2, i3>>[1] = i1 /\ <<i1, i2, i3>>[2] = i2 /\ <<i1, i2, i3>>[3] = i3
    OBVIOUS
  <2> QED
    BY <1>15, <1>16, <2>1, <2>2, Zenon DEF w1, w2, w3, i1, i2, i3
<1> QED
  BY <1>14, <1>17, Zenon

-----------------------------------------------------------------------------
\* Between two numbers there is one that is near to both.
LEMMA Between ==
  ASSUME NEW n \in Nat \ {0}, NEW a \in 0 .. (n - 1), NEW b \in 0 .. (n - 1),
         NEW r \in Nat, NEW R \in Nat
  PROVE  (\E c \in 0 .. (n - 1) : Apart(a, c) <= r /\ Apart(c, b) <= R)
           <=> Apart(a, b) <= R + r
<1> USE DEF Apart
<1>1. ASSUME NEW c \in 0 .. (n - 1), Apart(a, c) <= r, Apart(c, b) <= R
      PROVE  Apart(a, b) <= R + r
  BY <1>1
<1>2. ASSUME Apart(a, b) <= R + r
      PROVE  \E c \in 0 .. (n - 1) : Apart(a, c) <= r /\ Apart(c, b) <= R
  <2>1. CASE Apart(a, b) <= r
    <3>1. Apart(a, b) <= r /\ Apart(b, b) <= R
      BY <2>1
    <3> QED
      BY <3>1
  <2>2. CASE Apart(a, b) > r /\ a < b
    <3>1. a + r \in 0 .. (n - 1) /\ Apart(a, a + r) <= r /\ Apart(a + r, b) <= R
      BY <1>2, <2>2
    <3> QED
      BY <3>1
  <2>3. CASE Apart(a, b) > r /\ b < a
    <3>1. a - r \in 0 .. (n - 1) /\ Apart(a, a - r) <= r /\ Apart(a - r, b) <= R
      BY <1>2, <2>3
    <3> QED
      BY <3>1
  <2>4. Apart(a, b) <= r \/ (Apart(a, b) > r /\ a < b) \/ (Apart(a, b) > r /\ b < a)
    BY DEF Apart
  <2> QED
    BY <2>1, <2>2, <2>3, <2>4
<1> QED
  BY <1>1, <1>2

\* Tokens fill a space of so many points in each dimension.
Fills(at, len) ==
  /\ \A d \in Dims : len[d] \in Nat \ {0}
  /\ \A q \in Tokens : \A d \in Dims : at[q][d] \in 0 .. (len[d] - 1)
  /\ \A p : (\A d \in Dims : p[d] \in 0 .. (len[d] - 1)) =>
       \E q \in Tokens : \A d \in Dims : at[q][d] = p[d]

\* How far a mask reaches; two that follow each other; who is in reach of o.
Reaching(r) == \A d \in Dims : r[d] \in Nat
Farther(R, r) == [d \in Dims |-> R[d] + r[d]]
NearTo(at, o, R) == {q \in Tokens : Within(at[q], at[o], R)}

\* What is known so far, and passed on so far, is known farther.
LEMMA Spread ==
  ASSUME NEW at, NEW len, Fills(at, len), NEW o \in Tokens, NEW R, NEW r,
         Reaching(R), Reaching(r), NEW q \in Tokens
  PROVE  (\E kv \in NearTo(at, o, R) : Within(at[q], at[kv], r))
           <=> Within(at[q], at[o], Farther(R, r))
<1>1. \A d \in Dims : Farther(R, r)[d] = R[d] + r[d]
  BY DEF Farther
<1>2. \A d \in Dims : /\ len[d] \in Nat \ {0} /\ R[d] \in Nat /\ r[d] \in Nat
                      /\ at[q][d] \in 0 .. (len[d] - 1) /\ at[o][d] \in 0 .. (len[d] - 1)
  BY Zenon DEF Fills, Reaching
<1> DEFINE Mid(d, c) == Apart(at[q][d], c) <= r[d] /\ Apart(c, at[o][d]) <= R[d]
<1>3. \A d \in Dims : (\E c \in 0 .. (len[d] - 1) : Mid(d, c))
                        <=> Apart(at[q][d], at[o][d]) <= R[d] + r[d]
  <2> SUFFICES ASSUME NEW d \in Dims
               PROVE  (\E c \in 0 .. (len[d] - 1) : Mid(d, c))
                        <=> Apart(at[q][d], at[o][d]) <= R[d] + r[d]
    BY Zenon
  <2> DEFINE l == len[d]
             a == at[q][d]
             b == at[o][d]
             x == r[d]
             y == R[d]
  <2>1. l \in Nat \ {0} /\ a \in 0 .. (l - 1) /\ b \in 0 .. (l - 1) /\ x \in Nat /\ y \in Nat
    BY <1>2, Zenon
  <2> HIDE DEF l, a, b, x, y
  <2>2. (\E c \in 0 .. (l - 1) : Apart(a, c) <= x /\ Apart(c, b) <= y)
          <=> Apart(a, b) <= y + x
    BY <2>1, Between
  <2> QED
    BY <2>2, Zenon DEF l, a, b, x, y
<1>4. ASSUME NEW kv \in NearTo(at, o, R), Within(at[q], at[kv], r)
      PROVE  Within(at[q], at[o], Farther(R, r))
  <2>1. kv \in Tokens /\ Within(at[kv], at[o], R)
    BY <1>4, Zenon DEF NearTo
  <2>2. ASSUME NEW d \in Dims PROVE Apart(at[q][d], at[o][d]) <= Farther(R, r)[d]
    <3>1. at[kv][d] \in 0 .. (len[d] - 1)
      BY <2>1, Zenon DEF Fills
    <3>2. Mid(d, at[kv][d])
      BY <1>4, <2>1, Zenon DEF Within
    <3> HIDE DEF Mid
    <3>3. Apart(at[q][d], at[o][d]) <= R[d] + r[d]
      BY <1>3, <3>1, <3>2, Zenon
    <3> QED
      BY <1>1, <3>3, Zenon
  <2> QED
    BY <2>2, Zenon DEF Within
<1>5. ASSUME Within(at[q], at[o], Farther(R, r))
      PROVE  \E kv \in NearTo(at, o, R) : Within(at[q], at[kv], r)
  <2> DEFINE Pick(d) == CHOOSE c \in 0 .. (len[d] - 1) : Mid(d, c)
             p == [d \in Dims |-> Pick(d)]
  <2>1. ASSUME NEW d \in Dims PROVE Pick(d) \in 0 .. (len[d] - 1) /\ Mid(d, Pick(d))
    <3>1. Apart(at[q][d], at[o][d]) <= R[d] + r[d]
      BY <1>1, <1>5, Zenon DEF Within
    <3> HIDE DEF Mid
    <3>2. \E c \in 0 .. (len[d] - 1) : Mid(d, c)
      BY <1>3, <3>1, Zenon
    <3> QED
      BY <3>2, Zenon
  <2> HIDE DEF Pick
  <2>2. \A d \in Dims : p[d] = Pick(d)
    OBVIOUS
  <2> HIDE DEF p, Mid
  <2>3. \A d \in Dims : p[d] \in 0 .. (len[d] - 1) /\ Mid(d, p[d])
    BY <2>1, <2>2, Zenon
  <2>4. PICK kv \in Tokens : \A d \in Dims : at[kv][d] = p[d]
    BY <2>3, Zenon DEF Fills
  <2>5. \A d \in Dims : Mid(d, at[kv][d])
    BY <2>3, <2>4, Zenon
  <2> QED
    BY <2>5, Zenon DEF Mid, Within, NearTo
<1> QED
  BY <1>4, <1>5, Zenon

\* A mask that lets tokens attend to those near them.
Slider(at, mask) ==
  /\ Reaching(mask.reach)
  /\ \A q \in Tokens, kv \in Tokens : Attends(mask, q, kv) <=> Within(at[q], at[kv], mask.reach)

\* One attention, from the token alone or from those near it.
LEMMA OneAttention ==
  ASSUME NEW at, NEW len, Fills(at, len), NEW o \in Tokens, NEW R, Reaching(R),
         NEW mask, Slider(at, mask),
         NEW X, X = NearTo(at, o, R) \/ (X = {o} /\ \A d \in Dims : R[d] = 0)
  PROVE  /\ Knowing(mask, X) = NearTo(at, o, Farther(R, mask.reach))
         /\ Reaching(Farther(R, mask.reach))
<1> DEFINE r == mask.reach
           F == Farther(R, r)
<1>1. Reaching(r)
  BY Zenon DEF Slider
<1>2. \A d \in Dims : F[d] = R[d] + r[d] /\ R[d] \in Nat /\ r[d] \in Nat
  BY <1>1 DEF Farther, Reaching
<1>3. Reaching(F)
  BY <1>2 DEF Reaching
<1> HIDE DEF F, r
<1>4. X \subseteq NearTo(at, o, F)
  <2>1. ASSUME NEW q \in NearTo(at, o, R) PROVE q \in NearTo(at, o, F)
    <3>1. q \in Tokens /\ \A d \in Dims : Apart(at[q][d], at[o][d]) <= R[d]
      BY Zenon DEF NearTo, Within
    <3>2. ASSUME NEW d \in Dims PROVE Apart(at[q][d], at[o][d]) <= F[d]
      <4> DEFINE l == len[d]
                 a == at[q][d]
                 b == at[o][d]
                 y == R[d]
                 x == r[d]
                 f == F[d]
      <4>1. /\ l \in Nat \ {0} /\ a \in 0 .. (l - 1) /\ b \in 0 .. (l - 1)
            /\ Apart(a, b) <= y /\ y \in Nat /\ x \in Nat /\ f = y + x
        BY <1>2, <3>1, Zenon DEF Fills
      <4> HIDE DEF l, a, b, y, x, f
      <4>2. Apart(a, b) <= f
        BY <4>1 DEF Apart
      <4> QED
        BY <4>2, Zenon DEF a, b, f
    <3> QED
      BY <3>1, <3>2, Zenon DEF NearTo, Within
  <2>2. o \in NearTo(at, o, F)
    <3>1. ASSUME NEW d \in Dims PROVE Apart(at[o][d], at[o][d]) <= F[d]
      <4> DEFINE l == len[d]
                 b == at[o][d]
                 y == R[d]
                 x == r[d]
                 f == F[d]
      <4>1. /\ l \in Nat \ {0} /\ b \in 0 .. (l - 1)
            /\ y \in Nat /\ x \in Nat /\ f = y + x
        BY <1>2, Zenon DEF Fills
      <4> HIDE DEF l, b, y, x, f
      <4>2. Apart(b, b) <= f
        BY <4>1 DEF Apart
      <4> QED
        BY <4>2, Zenon DEF b, f
    <3> QED
      BY <3>1, Zenon DEF NearTo, Within
  <2> QED
    BY <2>1, <2>2, Zenon
<1>5. ASSUME NEW q \in Tokens
      PROVE  (\E kv \in X : Attends(mask, q, kv)) <=> Within(at[q], at[o], F)
  <2>1. CASE X = NearTo(at, o, R)
    <3>1. (\E kv \in NearTo(at, o, R) : Within(at[q], at[kv], r)) <=> Within(at[q], at[o], F)
      BY <1>1, Spread, Zenon DEF F
    <3>2. \A kv \in X : kv \in Tokens
      BY <2>1, Zenon DEF NearTo
    <3> QED
      BY <2>1, <3>1, <3>2, Zenon DEF Slider, r
  <2>2. CASE X = {o} /\ \A d \in Dims : R[d] = 0
    <3>1. \A d \in Dims : F[d] = r[d]
      <4> SUFFICES ASSUME NEW d \in Dims PROVE F[d] = r[d]
        OBVIOUS
      <4>1. F[d] = 0 + r[d] /\ r[d] \in Nat
        BY <1>2, <2>2, Zenon
      <4> QED
        BY <4>1
    <3>2. Attends(mask, q, o) <=> Within(at[q], at[o], r)
      BY Zenon DEF Slider, r
    <3>3. Within(at[q], at[o], r) <=> Within(at[q], at[o], F)
      BY <3>1, Zenon DEF Within
    <3> QED
      BY <2>2, <3>2, <3>3, Zenon
  <2> QED
    BY <2>1, <2>2
<1>6. Knowing(mask, X) = NearTo(at, o, F)
  <2>1. \A q : q \in Knowing(mask, X) <=>
                 q \in X \/ (q \in Tokens /\ \E kv \in X : Attends(mask, q, kv))
    BY Zenon DEF Knowing
  <2>2. \A q : q \in NearTo(at, o, F) <=> q \in Tokens /\ Within(at[q], at[o], F)
    BY Zenon DEF NearTo
  <2>3. \A q : q \in Knowing(mask, X) <=> q \in NearTo(at, o, F)
    BY <1>4, <1>5, <2>1, <2>2, Zenon
  <2> QED
    BY <2>3, Zenon
<1> QED
  BY <1>3, <1>6, Zenon DEF F, r

\* A block.
LEMMA TwoAttentions ==
  ASSUME NEW at, NEW len, Fills(at, len), NEW o \in Tokens, NEW R, Reaching(R),
         NEW mask1, Slider(at, mask1), NEW mask2, Slider(at, mask2), NEW S,
         \A d \in Dims : S[d] = R[d] + mask1.reach[d] + mask2.reach[d],
         NEW X, X = NearTo(at, o, R) \/ (X = {o} /\ \A d \in Dims : R[d] = 0)
  PROVE  Knowing(mask2, Knowing(mask1, X)) = NearTo(at, o, S)
<1> DEFINE F == Farther(R, mask1.reach)
           G == Farther(F, mask2.reach)
           Y == Knowing(mask1, X)
<1>1. Y = NearTo(at, o, F) /\ Reaching(F)
  BY OneAttention
<1>2. \A d \in Dims : G[d] = S[d]
  BY DEF Farther
<1> HIDE DEF F, Y
<1>3. Knowing(mask2, Y) = NearTo(at, o, G)
  BY <1>1, OneAttention
<1> HIDE DEF G
<1>4. NearTo(at, o, G) = NearTo(at, o, S)
  BY <1>2, Zenon DEF NearTo, Within
<1> QED
  BY <1>3, <1>4, Zenon DEF Y

\* Windows, and places, of tokens.
WindowsOf == [n \in Tokens |-> Window(n)]
PlacesOf == [n \in Tokens |-> Place(n)]
Widths == [d \in Dims |-> Wide(d)]

\* Every window of the grid has tokens.
LEMMA WindowsFill ==
  ASSUME Grid, Filled
  PROVE  Fills(WindowsOf, Widths)
<1>1. \A d \in Dims : Widths[d] = Wide(d) /\ Wide(d) \in Nat \ {0} /\ Side(d) \in Nat \ {0}
  BY SidesAndWidths, Zenon DEF Widths
<1>2. \A q \in Tokens : WindowsOf[q] = Window(q)
  BY Zenon DEF WindowsOf
<1>3. \A q \in Tokens : \A d \in Dims : WindowsOf[q][d] \in 0 .. (Widths[d] - 1)
  BY <1>1, <1>2, TokenParts, Zenon
<1>4. ASSUME NEW p, \A d \in Dims : p[d] \in 0 .. (Widths[d] - 1)
      PROVE  \E q \in Tokens : \A d \in Dims : WindowsOf[q][d] = p[d]
  <2> DEFINE in == [d \in Dims |-> 0]
  <2>1. \A d \in Dims : in[d] = 0
    OBVIOUS
  <2> HIDE DEF in
  <2>2. \A d \in Dims : 0 \in 0 .. (Side(d) - 1)
    <3> SUFFICES ASSUME NEW d \in Dims PROVE 0 \in 0 .. (Side(d) - 1)
      BY Zenon
    <3> DEFINE s == Side(d)
    <3>1. s \in Nat \ {0}
      BY <1>1, Zenon
    <3> HIDE DEF s
    <3>2. 0 \in 0 .. (s - 1)
      BY <3>1
    <3> QED
      BY <3>2 DEF s
  <2>3. \A d \in Dims : p[d] \in 0 .. (Wide(d) - 1) /\ in[d] \in 0 .. (Side(d) - 1)
    BY <1>1, <1>4, <2>1, <2>2, Zenon
  <2>4. PICK q \in Tokens : \A d \in Dims : Window(q)[d] = p[d] /\ Inside(q)[d] = in[d]
    BY <2>3, TokenOf
  <2> QED
    BY <1>2, <2>4, Zenon
<1> QED
  BY <1>1, <1>3, <1>4, Zenon DEF Fills

\* So has every place of the picture.
LEMMA PlacesFill ==
  ASSUME Grid, Filled
  PROVE  Fills(PlacesOf, Extents)
<1>1. \A d \in Dims : /\ Extents[d] = Wide(d) * Side(d) /\ Extents[d] \in Nat \ {0}
                      /\ Wide(d) \in Nat \ {0} /\ Side(d) \in Nat \ {0}
  <2> SUFFICES ASSUME NEW d \in Dims
               PROVE  /\ Extents[d] = Wide(d) * Side(d) /\ Extents[d] \in Nat \ {0}
                      /\ Wide(d) \in Nat \ {0} /\ Side(d) \in Nat \ {0}
    BY Zenon
  <2>1. /\ Extents[d] = Wide(d) * Side(d) /\ Wide(d) \in Nat \ {0} /\ Side(d) \in Nat \ {0}
    BY SidesAndWidths, Zenon
  <2> DEFINE s == Side(d)
             l == Wide(d)
  <2>2. s \in Nat \ {0} /\ l \in Nat \ {0}
    BY <2>1
  <2> HIDE DEF s, l
  <2>3. l * s \in Nat \ {0}
    BY <2>2, SMTT(30)
  <2> QED
    BY <2>1, <2>3, Zenon DEF s, l
<1>2. \A q \in Tokens : PlacesOf[q] = Place(q)
  BY Zenon DEF PlacesOf
<1>3. ASSUME NEW q \in Tokens, NEW d \in Dims
      PROVE  PlacesOf[q][d] \in 0 .. (Extents[d] - 1)
  <2> DEFINE s == Side(d)
             l == Wide(d)
             a == Window(q)[d]
             b == Inside(q)[d]
  <2>1. /\ s \in Nat \ {0} /\ l \in Nat \ {0} /\ a \in 0 .. (l - 1) /\ b \in 0 .. (s - 1)
        /\ Place(q)[d] = a * s + b /\ Extents[d] = l * s
    BY <1>1, TokenParts, Zenon
  <2> HIDE DEF s, l, a, b
  <2>2. a * s + b \in 0 .. (l * s - 1)
    BY <2>1, DigitsLess
  <2> QED
    BY <1>2, <2>1, <2>2, Zenon
<1>4. ASSUME NEW p, \A d \in Dims : p[d] \in 0 .. (Extents[d] - 1)
      PROVE  \E q \in Tokens : \A d \in Dims : PlacesOf[q][d] = p[d]
  <2> DEFINE win == [d \in Dims |-> p[d] \div Side(d)]
             in == [d \in Dims |-> p[d] % Side(d)]
  <2>1. \A d \in Dims : win[d] = p[d] \div Side(d) /\ in[d] = p[d] % Side(d)
    BY Zenon
  <2> HIDE DEF win, in
  <2>2. ASSUME NEW d \in Dims
        PROVE  /\ win[d] \in 0 .. (Wide(d) - 1) /\ in[d] \in 0 .. (Side(d) - 1)
               /\ win[d] * Side(d) + in[d] = p[d]
    <3> DEFINE s == Side(d)
               l == Wide(d)
               x == p[d]
               e == l * s
               g == x \div s
    <3>1. s \in Nat \ {0} /\ l \in Nat \ {0} /\ x \in 0 .. (Extents[d] - 1) /\ Extents[d] = e
      BY <1>1, <1>4, Zenon
    <3>2. win[d] = g /\ in[d] = x % s
      BY <2>1, Zenon
    <3>3. e \in Nat
      BY <1>1, <3>1, Zenon
    <3>4. x \in 0 .. (e - 1)
      BY <3>1, Zenon
    <3> HIDE DEF e, s, l, x
    <3>5. x \in Nat /\ x < e
      BY <3>3, <3>4
    <3>6. x < l * s
      BY <3>5, Zenon DEF e
    <3>7. g < l
      BY <3>1, <3>5, <3>6, DivLess
    <3>8. g \in Nat /\ g * s \in Nat /\ x % s \in 0 .. (s - 1) /\ x % s = x - g * s
      BY <3>1, <3>5, DivMod
    <3> DEFINE y == x % s
               gs == g * s
    <3>9. g \in Nat /\ gs \in Nat /\ y \in 0 .. (s - 1) /\ y = x - gs
      BY <3>8
    <3> HIDE DEF g, y, gs
    <3>10. g \in 0 .. (l - 1) /\ gs + y = x
      BY <3>1, <3>5, <3>7, <3>9
    <3> QED
      BY <3>2, <3>9, <3>10, Zenon DEF s, l, x, y, gs
  <2>3. PICK q \in Tokens : \A d \in Dims : Window(q)[d] = win[d] /\ Inside(q)[d] = in[d]
    BY <2>2, TokenOf
  <2>4. \A d \in Dims : Place(q)[d] = p[d]
    BY <2>2, <2>3, TokenParts, Zenon
  <2> QED
    BY <1>2, <2>4, Zenon
<1> QED
  BY <1>1, <1>3, <1>4, Zenon DEF Fills

\* Masks of windows, and of tokens, slide.
LEMMA MasksSlide ==
  ASSUME NEW mask, Reaching(mask.reach)
  PROVE  /\ mask.kind = "windows" => Slider(WindowsOf, mask)
         /\ mask.kind = "tokens" => Slider(PlacesOf, mask)
<1>1. \A q \in Tokens : WindowsOf[q] = Window(q) /\ PlacesOf[q] = Place(q)
  BY Zenon DEF WindowsOf, PlacesOf
<1>2. "windows" # "full" /\ "windows" # "tokens" /\ "windows" # "swin"
      /\ "tokens" # "full" /\ "tokens" # "swin"
  OBVIOUS
<1>3. ASSUME mask.kind = "windows" PROVE Slider(WindowsOf, mask)
  <2>1. \A q, kv : Attends(mask, q, kv) <=> Within(Window(q), Window(kv), mask.reach)
    BY <1>2, <1>3, Zenon DEF Attends
  <2> QED
    BY <1>1, <2>1, Zenon DEF Slider
<1>4. ASSUME mask.kind = "tokens" PROVE Slider(PlacesOf, mask)
  <2>1. \A q, kv : Attends(mask, q, kv) <=> Within(Place(q), Place(kv), mask.reach)
    BY <1>2, <1>4, Zenon DEF Attends
  <2> QED
    BY <1>1, <2>1, Zenon DEF Slider
<1> QED
  BY <1>3, <1>4

-----------------------------------------------------------------------------
(* Masks *)

\* One more is one more division when nothing is left.
LEMMA DivStep ==
  ASSUME NEW a \in Nat, NEW b \in Nat \ {0}
  PROVE  (a + 1) \div b = (a \div b) + IF (a + 1) % b = 0 THEN 1 ELSE 0
<1> DEFINE q == a \div b
           r == a % b
           qb == q * b
<1>1. q \in Nat /\ qb \in Nat /\ r \in 0 .. (b - 1) /\ r = a - qb
  BY DivMod
<1> HIDE DEF q, r
<1>2. CASE r + 1 < b
  <2>1. qb + (r + 1) = a + 1 /\ r + 1 \in 0 .. (b - 1) /\ r + 1 # 0
    <3> HIDE DEF qb
    <3> QED
      BY <1>1, <1>2
  <2> DEFINE r1 == r + 1
  <2> HIDE DEF r1
  <2>2. (q * b + r1) \div b = q /\ (q * b + r1) % b = r1
    BY <1>1, <2>1, Digits DEF r1
  <2>3. (a + 1) \div b = q /\ (a + 1) % b = r1
    BY <2>1, <2>2, Zenon DEF r1
  <2> HIDE DEF qb
  <2>4. (a + 1) \div b = q + IF (a + 1) % b = 0 THEN 1 ELSE 0
    <3>1. r1 # 0 /\ q + 0 = q
      BY <1>1, <2>1 DEF r1
    <3> QED
      BY <2>3, <3>1, Zenon
  <2> QED
    BY <2>4, Zenon DEF q
<1>3. CASE ~ (r + 1 < b)
  <2> DEFINE q1 == q + 1
  <2>1. q1 * b = qb + b
    BY <1>1, SMTT(30)
  <2>2. q1 \in Nat
    BY <1>1
  <2>3. qb + b = a + 1 /\ 0 \in 0 .. (b - 1)
    <3> HIDE DEF qb
    <3> QED
      BY <1>1, <1>3
  <2> HIDE DEF q1, qb
  <2>4. (q1 * b + 0) \div b = q1 /\ (q1 * b + 0) % b = 0 /\ q1 * b + 0 = q1 * b
    <3>1. (q1 * b + 0) \div b = q1 /\ (q1 * b + 0) % b = 0
      BY <2>2, <2>3, Digits
    <3>2. q1 * b + 0 = q1 * b
      <4>1. q1 * b = a + 1
        BY <2>1, <2>3, Zenon
      <4> QED
        BY <4>1
    <3> QED
      BY <3>1, <3>2
  <2>5. (a + 1) \div b = q1 /\ (a + 1) % b = 0
    BY <2>1, <2>3, <2>4, Zenon
  <2> QED
    BY <2>5, Zenon DEF q1, q
<1> QED
  BY <1>2, <1>3

\* Nothing divided is nothing.
LEMMA ZeroDivided ==
  ASSUME NEW b \in Nat \ {0}
  PROVE  0 \div b = 0
  BY SMTT(30)

\* Two sequences, one after the other.
LEMMA Appended ==
  ASSUME NEW D, NEW a \in Seq(D), NEW b \in Seq(D)
  PROVE  /\ a \o b \in Seq(D) /\ Len(a \o b) = Len(a) + Len(b)
         /\ \A k \in 1 .. Len(a) : (a \o b)[k] = a[k]
         /\ \A k \in 1 .. Len(b) : (a \o b)[Len(a) + k] = b[k]
  OBVIOUS

\* How often a mask has slid after d blocks.
SlidesAt(blocks, num, d) ==
  LET stride == blocks \div num
      first == blocks % num
  IN  IF stride = 0 \/ d < first THEN 0 ELSE (d - first) \div stride

\* The masks of a block that slides.
Slid(slide, single) == IF single THEN <<Chunk, slide>> ELSE Both(slide)

\* What the masks of block d + 1 are, and how often one has slid then.
SlidesSo(ms, blocks, num, slide, single, d) ==
  /\ Len(ms) = blocks
  /\ SlidesAt(blocks, num, 0) = 0 /\ SlidesAt(blocks, num, d) \in Nat
  /\ \/ /\ ms[d + 1] = Both(Chunk)
        /\ SlidesAt(blocks, num, d + 1) = SlidesAt(blocks, num, d)
     \/ /\ ms[d + 1] = Slid(slide, single)
        /\ SlidesAt(blocks, num, d + 1) = SlidesAt(blocks, num, d) + 1

\* The last block of every stride slides.
LEMMA SlidingMasks ==
  ASSUME NEW blocks \in Nat \ {0}, NEW num \in Nat \ {0}, NEW slide, NEW single \in BOOLEAN,
         NEW d \in 0 .. (blocks - 1)
  PROVE  SlidesSo(_sliding_chunk_attention_mask(blocks, slide, num, single),
                  blocks, num, slide, single, d)
<1> DEFINE s == blocks \div num
           f == blocks % num
           sn == s * num
           slid == Slid(slide, single)
           D == {Both(Chunk), slid}
           g(b) == IF b % s # 0 THEN Both(Chunk)
                   ELSE IF single THEN <<Chunk, slide>> ELSE Both(slide)
           one == Times(f, Both(Chunk))
           two == [b \in 1 .. sn |-> g(b)]
           ms == _sliding_chunk_attention_mask(blocks, slide, num, single)
           S(e) == IF s = 0 \/ e < f THEN 0 ELSE (e - f) \div s
<1>1. \A e : SlidesAt(blocks, num, e) = S(e)
  BY Zenon DEF SlidesAt
<1>2. s \in Nat /\ sn \in Nat /\ f \in 0 .. (num - 1) /\ f = blocks - sn
  BY DivMod
<1>3. ms = one \o two
  BY Zenon DEF _sliding_chunk_attention_mask
<1>4. \A b : g(b) = IF b % s # 0 THEN Both(Chunk) ELSE slid
  BY Zenon DEF Slid
<1>5. s = 0 => sn = 0
  BY SMTT(30)
<1> HIDE DEF s, f, sn, slid
<1>6. (f \in Nat /\ f + sn = blocks /\ s # 0) \/ (f = blocks /\ s = 0)
  BY <1>2, <1>5
<1>7. f \in Nat /\ f + sn = blocks
  BY <1>2
<1>8. one \in Seq(D) /\ Len(one) = f /\ \A k \in 1 .. f : one[k] = Both(Chunk)
  <2> DEFINE c == Both(Chunk)
             cs == [k \in 1 .. f |-> c]
  <2>1. one = cs /\ c \in D
    BY Zenon DEF Times
  <2> HIDE DEF c, D
  <2>2. cs \in Seq(D) /\ Len(cs) = f /\ \A k \in 1 .. f : cs[k] = c
    BY <1>7, <2>1
  <2> QED
    BY <2>1, <2>2, Zenon DEF c
<1>9. two \in Seq(D) /\ Len(two) = sn /\ \A k \in 1 .. sn : two[k] = g(k)
  <2>1. \A b : g(b) \in D
    BY <1>4, Zenon
  <2> HIDE DEF g, D
  <2> QED
    BY <1>2, <2>1
<1> HIDE DEF one, two, D, g
<1>10. /\ Len(ms) = f + sn
       /\ \A k \in 1 .. f : ms[k] = Both(Chunk)
       /\ \A k \in 1 .. sn : ms[f + k] = g(k)
  <2>0. one \in Seq(D) /\ two \in Seq(D)
    BY <1>8, <1>9
  <2>1. /\ Len(one \o two) = Len(one) + Len(two)
        /\ \A k \in 1 .. Len(one) : (one \o two)[k] = one[k]
        /\ \A k \in 1 .. Len(two) : (one \o two)[Len(one) + k] = two[k]
    BY <2>0, Appended
  <2> QED
    BY <1>3, <1>8, <1>9, <2>1, Zenon
<1> HIDE DEF ms
<1>11. Len(ms) = blocks
  BY <1>7, <1>10, Zenon
<1>12. S(0) = 0
  <2>1. CASE s = 0 \/ 0 < f
    <3>1. S(0) = IF s = 0 \/ 0 < f THEN 0 ELSE (0 - f) \div s
      OBVIOUS
    <3> HIDE DEF S
    <3> QED
      BY <2>1, <3>1, Zenon
  <2>2. CASE s # 0 /\ f = 0
    <3>1. 0 - f = 0
      BY <2>2
    <3>3. s \in Nat \ {0}
      BY <1>2, <2>2
    <3>4. 0 \div s = 0
      BY <3>3, ZeroDivided
    <3>2. S(0) = IF s = 0 \/ 0 < f THEN 0 ELSE (0 - f) \div s
      OBVIOUS
    <3> HIDE DEF S
    <3> QED
      BY <2>2, <3>1, <3>2, <3>4, Zenon
  <2> QED
    BY <1>7, <2>1, <2>2
<1>13. CASE d < f
  <2>1. d + 1 \in 1 .. f
    BY <1>7, <1>13
  <2>2. ms[d + 1] = Both(Chunk)
    BY <1>10, <2>1, Zenon
  <2>3. S(d) = 0
    BY <1>13, Zenon
  <2>4. S(d + 1) = 0
    <3>1. CASE d + 1 < f \/ s = 0
      BY <3>1, Zenon
    <3>2. CASE d + 1 = f /\ s # 0
      <4>1. (d + 1) - f = 0 /\ ~ (d + 1 < f) /\ 0 \div s = 0
        BY <1>2, <3>2, ZeroDivided
      <4>3. ((d + 1) - f) \div s = 0
        BY <4>1, Zenon
      <4> QED
        BY <3>2, <4>1, <4>3, Zenon
    <3> QED
      BY <1>7, <2>1, <3>1, <3>2
  <2>5. 0 \in Nat
    OBVIOUS
  <2> QED
    BY <1>1, <1>11, <1>12, <2>2, <2>3, <2>4, <2>5, Zenon DEF ms, SlidesSo
<1>14. CASE ~ (d < f)
  <2> DEFINE a == d - f
  <2>1. a \in Nat /\ a + 1 \in 1 .. sn /\ f + (a + 1) = d + 1 /\ s # 0 /\ s \in Nat \ {0}
        /\ ~ (d + 1 < f) /\ (d + 1) - f = a + 1
    BY <1>2, <1>6, <1>7, <1>14
  <2>2. ms[d + 1] = g(a + 1)
    BY <1>10, <2>1, Zenon
  <2>3. S(d) = a \div s /\ S(d + 1) = (a + 1) \div s
    BY <1>14, <2>1, Zenon
  <2> HIDE DEF a, S
  <2>4. /\ (a + 1) \div s = (a \div s) + IF (a + 1) % s = 0 THEN 1 ELSE 0
        /\ a \div s \in Nat
    BY <2>1, DivStep, DivNat
  <2> DEFINE v == a \div s
  <2>5. /\ S(d) = v /\ v \in Nat
        /\ S(d + 1) = v + IF (a + 1) % s = 0 THEN 1 ELSE 0
    BY <2>3, <2>4, Zenon
  <2> HIDE DEF v
  <2>6. CASE (a + 1) % s = 0
    <3>1. ms[d + 1] = slid
      BY <1>4, <2>2, <2>6, Zenon
    <3>2. S(d + 1) = S(d) + 1 /\ S(d) \in Nat
      BY <2>5, <2>6, Zenon
    <3> QED
      BY <1>1, <1>11, <1>12, <3>1, <3>2, Zenon DEF ms, slid, S, SlidesSo
  <2>7. CASE (a + 1) % s # 0
    <3>1. ms[d + 1] = Both(Chunk)
      BY <1>4, <2>2, <2>7, Zenon
    <3>2. v + 0 = v
      BY <2>5
    <3>3. S(d + 1) = S(d) /\ S(d) \in Nat
      BY <2>5, <2>7, <3>2, Zenon
    <3> QED
      BY <1>1, <1>11, <1>12, <3>1, <3>3, Zenon DEF ms, S, SlidesSo
  <2> QED
    BY <2>6, <2>7
<1> QED
  BY <1>13, <1>14

\* All blocks slide.
LEMMA AllSlide ==
  ASSUME NEW blocks \in Nat \ {0}, NEW d \in Nat
  PROVE  SlidesAt(blocks, blocks, d) = d
<1> DEFINE s == blocks \div blocks
           f == blocks % blocks
<1>1. 1 * blocks + 0 = blocks /\ 0 \in 0 .. (blocks - 1) /\ 1 \in Nat
  BY SMTT(30)
<1>2. (1 * blocks + 0) \div blocks = 1 /\ (1 * blocks + 0) % blocks = 0
  BY <1>1, Digits
<1>3. s = 1 /\ f = 0
  BY <1>1, <1>2, Zenon
<1> HIDE DEF s, f
<1>4. ~ (s = 0 \/ d < f) /\ (d - f) \div s = d
  BY <1>3
<1> QED
  BY <1>4, Zenon DEF SlidesAt, s, f

\* So many times as far.
FarTo(n, t, h, w) == <<n * t, n * h, n * w>>

\* Its parts.
LEMMA FarAt ==
  ASSUME NEW n, NEW t, NEW h_, NEW w
  PROVE  /\ FarTo(n, t, h_, w)[1] = n * t /\ FarTo(n, t, h_, w)[2] = n * h_
         /\ FarTo(n, t, h_, w)[3] = n * w
<1> DEFINE a == n * t
           b == n * h_
           c == n * w
<1>1. FarTo(n, t, h_, w) = <<a, b, c>>
  BY Zenon DEF FarTo
<1> HIDE DEF a, b, c
<1>2. <<a, b, c>>[1] = a /\ <<a, b, c>>[2] = b /\ <<a, b, c>>[3] = c
  OBVIOUS
<1> QED
  BY <1>1, <1>2, Zenon DEF a, b, c

\* What one block adds to how far a token is known.
Adds(pair, kind, R, S) ==
  /\ pair[1].kind = kind /\ pair[2].kind = kind
  /\ Reaching(pair[1].reach) /\ Reaching(pair[2].reach) /\ Reaching(R)
  /\ \A d \in Dims : S[d] = R[d] + pair[1].reach[d] + pair[2].reach[d]

\* Two masks of one kind.
LEMMA PairAdds ==
  ASSUME NEW kind, NEW a, NEW b, Reaching(a), Reaching(b), NEW R, Reaching(R), NEW S,
         \A d \in Dims : S[d] = R[d] + a[d] + b[d]
  PROVE  Adds(<<[kind |-> kind, reach |-> a], [kind |-> kind, reach |-> b]>>, kind, R, S)
<1> DEFINE x == [kind |-> kind, reach |-> a]
           y == [kind |-> kind, reach |-> b]
           p == <<x, y>>
<1>1. p[1] = x /\ p[2] = y
  <2> HIDE DEF x, y
  <2> QED
    OBVIOUS
<1>2. /\ x.kind = kind /\ y.kind = kind /\ x.reach = a /\ y.reach = b
  OBVIOUS
<1> HIDE DEF x, y, p
<1>3. Adds(p, kind, R, S)
  BY <1>1, <1>2, Zenon DEF Adds
<1> QED
  BY <1>3, Zenon DEF p, x, y

\* Three numbers.
LEMMA Triple ==
  ASSUME NEW a, NEW b, NEW c
  PROVE  /\ <<a, b, c>>[1] = a /\ <<a, b, c>>[2] = b /\ <<a, b, c>>[3] = c
         /\ \A d \in Dims : <<a, b, c>>[d] \in {a, b, c}
<1>1. <<a, b, c>>[1] = a /\ <<a, b, c>>[2] = b /\ <<a, b, c>>[3] = c
  OBVIOUS
<1>2. \A d \in Dims : d = 1 \/ d = 2 \/ d = 3
  BY DEF Dims
<1> QED
  BY <1>1, <1>2, Zenon

\* How many windows a mask has slid after e blocks, and what block d + 1 adds.
Often(blocks, num, single, e) ==
  IF single THEN SlidesAt(blocks, num, e) ELSE 2 * SlidesAt(blocks, num, e)

\* Masks of windows, one of them sliding by t, h and w windows.
SlidesBy(ms, blocks, num, single, t, h, w, d) ==
  /\ Len(ms) = blocks
  /\ Adds(ms[d + 1], "windows", FarTo(Often(blocks, num, single, d), t, h, w),
          FarTo(Often(blocks, num, single, d + 1), t, h, w))
  /\ \A x \in Dims : FarTo(Often(blocks, num, single, 0), t, h, w)[x] = 0

\* The masks of windows that slide, by little.
LEMMA SlidingAdds ==
  ASSUME NEW blocks \in Nat \ {0}, NEW num \in Nat \ {0}, NEW single \in BOOLEAN,
         NEW d \in 0 .. (blocks - 1),
         NEW t \in {0, 1, 2}, NEW h_ \in {0, 1, 2}, NEW w \in {0, 1, 2}
  PROVE  SlidesBy(_sliding_chunk_attention_mask(blocks, Slide(t, h_, w), num, single),
                  blocks, num, single, t, h_, w, d)
<1> DEFINE slide == Slide(t, h_, w)
<1> HIDE DEF slide
<1>0. SlidesSo(_sliding_chunk_attention_mask(blocks, slide, num, single),
               blocks, num, slide, single, d)
  BY SlidingMasks, Zenon
<1> DEFINE ms == _sliding_chunk_attention_mask(blocks, slide, num, single)
           S(e) == SlidesAt(blocks, num, e)
           O(e) == IF single THEN S(e) ELSE 2 * S(e)
           R(e) == FarTo(O(e), t, h_, w)
           p == ms[d + 1]
           a == S(d)
           b == S(d + 1)
           W1(u, v, z) == [kind |-> "windows", reach |-> <<u, v, z>>]
<1>1. /\ Len(ms) = blocks /\ S(0) = 0 /\ a \in Nat
      /\ \/ p = Both(Chunk) /\ b = a
         \/ p = Slid(slide, single) /\ b = a + 1
  BY <1>0, Zenon DEF SlidesSo
<1>2. /\ Chunk = W1(0, 0, 0) /\ slide = W1(t, h_, w)
      /\ Both(Chunk) = <<Chunk, Chunk>> /\ Both(slide) = <<slide, slide>>
  BY Zenon DEF Chunk, Slide, Both, slide
<1>3. R(d) = FarTo(O(d), t, h_, w) /\ R(d + 1) = FarTo(O(d + 1), t, h_, w)
      /\ O(d) = (IF single THEN a ELSE 2 * a)
      /\ O(d + 1) = (IF single THEN b ELSE 2 * b)
      /\ R(0) = FarTo(O(0), t, h_, w) /\ O(0) = (IF single THEN S(0) ELSE 2 * S(0))
  BY Zenon
<1>4. \A k : FarTo(k, t, h_, w) = <<k * t, k * h_, k * w>>
  BY Zenon DEF FarTo
<1> HIDE DEF slide, ms, S, O, R, p, a, b, W1
<1>5. \A k \in Nat, u \in {0, 1, 2} :
        /\ k * u \in Nat /\ (k + 1) * u = (k * u + 0) + u
        /\ (k + 2) * u = (k * u + u) + u /\ k * u = (k * u + 0) + 0
  <2> SUFFICES ASSUME NEW k \in Nat, NEW u \in {0, 1, 2}
               PROVE  /\ k * u \in Nat /\ (k + 1) * u = (k * u + 0) + u
                      /\ (k + 2) * u = (k * u + u) + u /\ k * u = (k * u + 0) + 0
    OBVIOUS
  <2>1. CASE u = 0
    BY <2>1
  <2>2. CASE u = 1
    BY <2>2
  <2>3. CASE u = 2
    BY <2>3
  <2> QED
    BY <2>1, <2>2, <2>3
<1>6. t \in Nat /\ h_ \in Nat /\ w \in Nat /\ 0 \in Nat
  OBVIOUS
<1> DEFINE k == O(d)
           k1 == O(d + 1)
<1>7. k \in Nat /\ O(0) = 0
      /\ \/ p = <<W1(0, 0, 0), W1(0, 0, 0)>> /\ k1 = k
         \/ p = <<W1(0, 0, 0), W1(t, h_, w)>> /\ k1 = k + 1
         \/ p = <<W1(t, h_, w), W1(t, h_, w)>> /\ k1 = k + 2
  <2>1. k = (IF single THEN a ELSE 2 * a) /\ k1 = (IF single THEN b ELSE 2 * b) /\ a \in Nat
        /\ O(0) = (IF single THEN S(0) ELSE 2 * S(0)) /\ S(0) = 0
    BY <1>1, <1>3, Zenon
  <2> DEFINE o == O(0)
             z == S(0)
             none == <<Chunk, Chunk>>
             half == <<Chunk, slide>>
             all == <<slide, slide>>
  <2>2. k = (IF single THEN a ELSE 2 * a) /\ k1 = (IF single THEN b ELSE 2 * b) /\ a \in Nat
        /\ o = (IF single THEN z ELSE 2 * z) /\ z = 0
    BY <2>1, Zenon
  <2>3. \/ p = none /\ b = a
        \/ p = (IF single THEN half ELSE all) /\ b = a + 1
    BY <1>1, <1>2, Zenon DEF Slid
  <2>6. /\ none = <<W1(0, 0, 0), W1(0, 0, 0)>> /\ half = <<W1(0, 0, 0), W1(t, h_, w)>>
        /\ all = <<W1(t, h_, w), W1(t, h_, w)>>
    BY <1>2, Zenon
  <2> HIDE DEF o, z, k, k1, none, half, all
  <2>4. /\ k \in Nat /\ o = 0
        /\ \/ p = none /\ k1 = k
           \/ p = half /\ k1 = k + 1
           \/ p = all /\ k1 = k + 2
    <3>1. CASE single
      BY <2>2, <2>3, <3>1
    <3>2. CASE ~ single
      BY <2>2, <2>3, <3>2
    <3> QED
      BY <3>1, <3>2
  <2>5. \/ p = <<W1(0, 0, 0), W1(0, 0, 0)>> /\ k1 = k
        \/ p = <<W1(0, 0, 0), W1(t, h_, w)>> /\ k1 = k + 1
        \/ p = <<W1(t, h_, w), W1(t, h_, w)>> /\ k1 = k + 2
    BY <2>4, <2>6, Zenon
  <2> QED
    BY <2>4, <2>5, Zenon DEF o
<1> HIDE DEF k, k1
<1>8. Adds(p, "windows", FarTo(k, t, h_, w), FarTo(k1, t, h_, w))
  <2> DEFINE X == FarTo(k, t, h_, w)
             X1 == FarTo(k1, t, h_, w)
             V == <<t, h_, w>>
             Z == <<0, 0, 0>>
  <2>1. ASSUME NEW x \in Dims
        PROVE  V[x] \in {0, 1, 2} /\ Z[x] = 0 /\ X[x] = k * V[x] /\ X1[x] = k1 * V[x]
    <3>2. x = 1 \/ x = 2 \/ x = 3
      BY DEF Dims
    <3>3. V[1] = t /\ V[2] = h_ /\ V[3] = w /\ Z[1] = 0 /\ Z[2] = 0 /\ Z[3] = 0
      BY Triple, Zenon
    <3>4. X[1] = k * t /\ X[2] = k * h_ /\ X[3] = k * w
      BY FarAt
    <3>6. X1[1] = k1 * t /\ X1[2] = k1 * h_ /\ X1[3] = k1 * w
      BY FarAt
    <3> HIDE DEF V, Z, X, X1
    <3>5. t \in {0, 1, 2} /\ h_ \in {0, 1, 2} /\ w \in {0, 1, 2}
      OBVIOUS
    <3> QED
      BY <3>2, <3>3, <3>4, <3>5, <3>6, Zenon
  <2> HIDE DEF X, X1, V, Z
  <2>2. ASSUME NEW x \in Dims
        PROVE  /\ V[x] \in Nat /\ Z[x] \in Nat /\ X[x] \in Nat
               /\ k1 = k => X1[x] = X[x] + Z[x] + Z[x]
               /\ k1 = k + 1 => X1[x] = X[x] + Z[x] + V[x]
               /\ k1 = k + 2 => X1[x] = X[x] + V[x] + V[x]
    <3> DEFINE u == V[x]
    <3>1. u \in {0, 1, 2} /\ Z[x] = 0 /\ X[x] = k * u /\ X1[x] = k1 * u
      BY <2>1
    <3> HIDE DEF u
    <3>2. /\ k1 = k => k1 * u = (k * u + 0) + 0
          /\ k1 = k + 1 => k1 * u = (k * u + 0) + u
          /\ k1 = k + 2 => k1 * u = (k * u + u) + u
          /\ k * u \in Nat /\ u \in Nat
      <4>1. u \in Nat
        BY <3>1
      <4>2. /\ k * u \in Nat /\ (k + 1) * u = (k * u + 0) + u
            /\ (k + 2) * u = (k * u + u) + u /\ k * u = (k * u + 0) + 0
        BY <1>5, <1>7, <3>1, Zenon
      <4> QED
        BY <4>1, <4>2, Zenon
    <3> QED
      BY <1>6, <3>1, <3>2, Zenon DEF u
  <2>3. Reaching(V) /\ Reaching(Z) /\ Reaching(X)
    BY <2>2, Zenon DEF Reaching
  <2>4. W1(0, 0, 0) = [kind |-> "windows", reach |-> Z] /\ W1(t, h_, w) = [kind |-> "windows", reach |-> V]
    BY Zenon DEF W1, Z, V
  <2>5. CASE p = <<W1(0, 0, 0), W1(0, 0, 0)>> /\ k1 = k
    <3>1. Adds(<<[kind |-> "windows", reach |-> Z], [kind |-> "windows", reach |-> Z]>>,
               "windows", X, X1)
      BY <2>2, <2>3, <2>5, PairAdds
    <3> QED
      BY <2>4, <2>5, <3>1, Zenon DEF X, X1
  <2>6. CASE p = <<W1(0, 0, 0), W1(t, h_, w)>> /\ k1 = k + 1
    <3>1. Adds(<<[kind |-> "windows", reach |-> Z], [kind |-> "windows", reach |-> V]>>,
               "windows", X, X1)
      BY <2>2, <2>3, <2>6, PairAdds
    <3> QED
      BY <2>4, <2>6, <3>1, Zenon DEF X, X1
  <2>7. CASE p = <<W1(t, h_, w), W1(t, h_, w)>> /\ k1 = k + 2
    <3>1. Adds(<<[kind |-> "windows", reach |-> V], [kind |-> "windows", reach |-> V]>>,
               "windows", X, X1)
      BY <2>2, <2>3, <2>7, PairAdds
    <3> QED
      BY <2>4, <2>7, <3>1, Zenon DEF X, X1
  <2> QED
    BY <1>7, <2>5, <2>6, <2>7, Zenon
<1>9. ASSUME NEW x \in Dims PROVE R(0)[x] = 0
  <2>1. R(0) = <<0 * t, 0 * h_, 0 * w>>
    BY <1>3, <1>4, <1>7, Zenon
  <2>2. 0 * t = 0 /\ 0 * h_ = 0 /\ 0 * w = 0
    OBVIOUS
  <2>3. R(0) = <<0, 0, 0>>
    BY <2>1, <2>2, Zenon
  <2>4. x = 1 \/ x = 2 \/ x = 3
    BY DEF Dims
  <2> QED
    BY <2>3, <2>4
<1> QED
  BY <1>1, <1>3, <1>8, <1>9, Zenon DEF R, O, S, Often, SlidesBy, k, k1, p, ms, slide, a, b

\* The blocks of the bottleneck that have wide windows.
OthersOf(blocks) == blocks - (4 * blocks) \div 5
IsWide(blocks, b) ==
  2 * b <= OthersOf(blocks) + 1 \/ 2 * (blocks - b) < OthersOf(blocks) - 1
WideUpTo(blocks, d) == Cardinality({b \in 1 .. d : IsWide(blocks, b)})

\* They are counted one by one.
LEMMA WideSteps ==
  ASSUME NEW blocks, NEW d \in Nat
  PROVE  /\ WideUpTo(blocks, 0) = 0 /\ WideUpTo(blocks, d) \in 0 .. d
         /\ WideUpTo(blocks, d + 1) = WideUpTo(blocks, d) + IF IsWide(blocks, d + 1) THEN 1 ELSE 0
<1> DEFINE P(b) == IsWide(blocks, b)
           A(e) == {b \in 1 .. e : P(b)}
<1> HIDE DEF P
<1>1. \A e : WideUpTo(blocks, e) = Cardinality(A(e))
  BY Zenon DEF WideUpTo, P
<1>2. A(0) = {}
  OBVIOUS
<1>3. A(d + 1) = IF P(d + 1) THEN A(d) \cup {d + 1} ELSE A(d)
  OBVIOUS
<1>4. d + 1 \notin A(d)
  OBVIOUS
<1>5. IsFiniteSet(1 .. d) /\ Cardinality(1 .. d) = d
  <2>1. 1 \in Int /\ d \in Int /\ (IF 1 > d THEN 0 ELSE d - 1 + 1) = d
    OBVIOUS
  <2>2. IsFiniteSet(1 .. d) /\ Cardinality(1 .. d) = IF 1 > d THEN 0 ELSE d - 1 + 1
    BY <2>1, FS_Interval
  <2> QED
    BY <2>1, <2>2
<1>6. A(d) \subseteq 1 .. d
  OBVIOUS
<1> HIDE DEF A
<1>7. IsFiniteSet(A(d)) /\ Cardinality(A(d)) <= d
  BY <1>5, <1>6, FS_Subset
<1>8. Cardinality(A(d)) \in Nat
  BY <1>7, FS_CardinalityType
<1>9. Cardinality(A(d) \cup {d + 1}) = Cardinality(A(d)) + 1
  BY <1>4, <1>7, FS_AddElement
<1>10. Cardinality(A(0)) = 0
  BY <1>2, FS_EmptySet
<1>11. Cardinality(A(d + 1)) = Cardinality(A(d)) + IF P(d + 1) THEN 1 ELSE 0
  <2>1. CASE P(d + 1)
    BY <1>3, <1>9, <2>1, Zenon
  <2>2. CASE ~ P(d + 1)
    <3>1. Cardinality(A(d)) + 0 = Cardinality(A(d))
      BY <1>8
    <3> QED
      BY <1>3, <2>2, <3>1, Zenon
  <2> QED
    BY <2>1, <2>2
<1>12. Cardinality(A(d)) \in 0 .. d
  BY <1>7, <1>8
<1> QED
  BY <1>1, <1>10, <1>11, <1>12, Zenon DEF P

\* Masks of three stretches of blocks.
Stretched(ms, a, b, c, x, y, z, k) ==
  /\ Len(ms) = a + b + c
  /\ ms[k] = IF k <= a THEN x ELSE IF k <= a + b THEN y ELSE z

\* They are where they should be.
LEMMA ThreeStretches ==
  ASSUME NEW a \in Nat, NEW b \in Nat, NEW c \in Nat, NEW x, NEW y, NEW z,
         NEW k \in 1 .. (a + b + c)
  PROVE  Stretched((Times(a, x) \o Times(b, y)) \o Times(c, z), a, b, c, x, y, z, k)
<1> DEFINE D == {x, y, z}
           A == Times(a, x)
           B == Times(b, y)
           C == Times(c, z)
           AB == A \o B
           ms == AB \o C
<1>1. A \in Seq(D) /\ Len(A) = a /\ \A j \in 1 .. a : A[j] = x
  BY DEF Times
<1>2. B \in Seq(D) /\ Len(B) = b /\ \A j \in 1 .. b : B[j] = y
  BY DEF Times
<1>3. C \in Seq(D) /\ Len(C) = c /\ \A j \in 1 .. c : C[j] = z
  BY DEF Times
<1> HIDE DEF A, B, C, D
<1>4. /\ AB \in Seq(D) /\ Len(AB) = a + b
      /\ \A j \in 1 .. a : AB[j] = x
      /\ \A j \in 1 .. b : AB[a + j] = y
  BY <1>1, <1>2
<1> HIDE DEF AB
<1>5. /\ Len(ms) = a + b + c
      /\ \A j \in 1 .. (a + b) : ms[j] = AB[j]
      /\ \A j \in 1 .. c : ms[(a + b) + j] = z
  BY <1>3, <1>4
<1> HIDE DEF ms
<1>6. CASE k <= a
  <2>1. k \in 1 .. a /\ k \in 1 .. (a + b)
    BY <1>6
  <2>2. ms[k] = x
    BY <1>4, <1>5, <2>1, Zenon
  <2> QED
    BY <1>5, <1>6, <2>2, Zenon DEF ms, AB, A, B, C, Stretched
<1>7. CASE ~ (k <= a) /\ k <= a + b
  <2>1. k - a \in 1 .. b /\ a + (k - a) = k /\ k \in 1 .. (a + b)
    BY <1>7
  <2>2. ms[k] = AB[k] /\ AB[a + (k - a)] = y
    BY <1>4, <1>5, <2>1, Zenon
  <2>3. ms[k] = y
    BY <2>1, <2>2, Zenon
  <2> QED
    BY <1>5, <1>7, <2>3, Zenon DEF ms, AB, A, B, C, Stretched
<1>8. CASE ~ (k <= a) /\ ~ (k <= a + b)
  <2>1. k - (a + b) \in 1 .. c /\ (a + b) + (k - (a + b)) = k
    BY <1>8
  <2>2. ms[(a + b) + (k - (a + b))] = z
    BY <1>5, <2>1, Zenon
  <2>3. ms[k] = z
    BY <2>1, <2>2, Zenon
  <2> QED
    BY <1>5, <1>8, <2>3, Zenon DEF ms, AB, A, B, C, Stretched
<1> QED
  BY <1>6, <1>7, <1>8, Zenon

\* How far a token is known after d blocks of the bottleneck.
ReachOfBottleneck(blocks, d) ==
  [x \in Dims |-> 2 * (d - WideUpTo(blocks, d)) + 2 * WideUpTo(blocks, d) * <<2, 8, 8>>[x]]

\* Its masks, and what block d + 1 adds.
BottleneckSo(ms, blocks, d) ==
  /\ Len(ms) = blocks
  /\ Adds(ms[d + 1], "windows", ReachOfBottleneck(blocks, d), ReachOfBottleneck(blocks, d + 1))
  /\ \A x \in Dims : ReachOfBottleneck(blocks, 0)[x] = 0

\* The bottleneck.
LEMMA BottleneckAdds ==
  ASSUME NEW blocks \in Nat \ {0}, NEW d \in 0 .. (blocks - 1)
  PROVE  BottleneckSo(_slide_chunk_bottlenect_attention_mask(blocks), blocks, d)
<1> DEFINE bn == (blocks * 8) \div 10
           out == (blocks - bn) \div 2
           a == blocks - bn - out
           big == Both(Slide(2, 8, 8))
           small == Both(Slide(1, 1, 1))
           ms == _slide_chunk_bottlenect_attention_mask(blocks)
           wide == IsWide(blocks, d + 1)
           n == WideUpTo(blocks, d)
           n1 == WideUpTo(blocks, d + 1)
           R == ReachOfBottleneck(blocks, d)
           R1 == ReachOfBottleneck(blocks, d + 1)
           V == <<2, 8, 8>>
           O == <<1, 1, 1>>
<1>1. /\ bn \in Nat /\ out \in Nat /\ a \in Nat /\ a + bn + out = blocks
      /\ d + 1 \in 1 .. (a + bn + out)
  OBVIOUS
<1>2. ms = (Times(a, big) \o Times(bn, small)) \o Times(out, big)
  BY Zenon DEF _slide_chunk_bottlenect_attention_mask
<1>3. wide <=> ~ (~ (d + 1 <= a) /\ d + 1 <= a + bn)
  BY DEF IsWide, OthersOf
<1> HIDE DEF bn, out, a, big, small, ms, wide
<1>4. /\ Len(ms) = a + bn + out
      /\ ms[d + 1] = IF d + 1 <= a THEN big ELSE IF d + 1 <= a + bn THEN small ELSE big
  <2> DEFINE k == d + 1
  <2>1. k \in 1 .. (a + bn + out)
    BY <1>1
  <2> HIDE DEF k
  <2>2. Stretched((Times(a, big) \o Times(bn, small)) \o Times(out, big),
                  a, bn, out, big, small, big, k)
    BY <1>1, <2>1, ThreeStretches, Zenon
  <2> QED
    BY <1>2, <2>2, Zenon DEF k, Stretched
<1>5. Len(ms) = blocks /\ ms[d + 1] = IF wide THEN big ELSE small
  BY <1>1, <1>3, <1>4, Zenon
<1>6. n \in 0 .. d /\ n1 = n + (IF wide THEN 1 ELSE 0) /\ WideUpTo(blocks, 0) = 0
  <2>1. d \in Nat
    OBVIOUS
  <2> QED
    BY <2>1, WideSteps, Zenon DEF wide
<1>7. \A x \in Dims : /\ R[x] = 2 * (d - n) + 2 * n * V[x]
                      /\ R1[x] = 2 * ((d + 1) - n1) + 2 * n1 * V[x]
  BY Zenon DEF ReachOfBottleneck
<1>8. \A x \in Dims : V[x] \in {2, 8} /\ O[x] = 1
  BY DEF Dims
<1>9. /\ Slide(2, 8, 8) = [kind |-> "windows", reach |-> V]
      /\ Slide(1, 1, 1) = [kind |-> "windows", reach |-> O]
  BY Zenon DEF Slide
<1> HIDE DEF n, n1, R, R1, V, O
<1>10. ASSUME NEW x \in Dims
       PROVE  /\ R[x] \in Nat /\ V[x] \in Nat /\ O[x] \in Nat
              /\ wide => R1[x] = R[x] + V[x] + V[x]
              /\ ~ wide => R1[x] = R[x] + O[x] + O[x]
  <2> DEFINE v == V[x]
             o == O[x]
             r == R[x]
             r1 == R1[x]
  <2>1. v \in {2, 8} /\ o = 1 /\ r = 2 * (d - n) + 2 * n * v
        /\ r1 = 2 * ((d + 1) - n1) + 2 * n1 * v
    BY <1>7, <1>8, Zenon
  <2> HIDE DEF v, o, r, r1
  <2>2. CASE v = 2
    BY <1>6, <2>1, <2>2 DEF v, o, r, r1
  <2>3. CASE v = 8
    BY <1>6, <2>1, <2>3 DEF v, o, r, r1
  <2> QED
    BY <2>1, <2>2, <2>3
<1>11. Reaching(R) /\ Reaching(V) /\ Reaching(O)
  BY <1>10, Zenon DEF Reaching
<1>12. ASSUME wide PROVE Adds(ms[d + 1], "windows", R, R1)
  <2>1. Adds(<<[kind |-> "windows", reach |-> V], [kind |-> "windows", reach |-> V]>>,
             "windows", R, R1)
    BY <1>10, <1>11, <1>12, PairAdds
  <2> QED
    BY <1>5, <1>9, <1>12, <2>1, Zenon DEF big, Both
<1>13. ASSUME ~ wide PROVE Adds(ms[d + 1], "windows", R, R1)
  <2>1. Adds(<<[kind |-> "windows", reach |-> O], [kind |-> "windows", reach |-> O]>>,
             "windows", R, R1)
    BY <1>10, <1>11, <1>13, PairAdds
  <2> QED
    BY <1>5, <1>9, <1>13, <2>1, Zenon DEF small, Both
<1>14. ASSUME NEW x \in Dims PROVE ReachOfBottleneck(blocks, 0)[x] = 0
  <2>1. ReachOfBottleneck(blocks, 0)[x] = 2 * (0 - 0) + 2 * 0 * V[x]
    BY <1>6, Zenon DEF ReachOfBottleneck, V
  <2>2. V[x] = 2 \/ V[x] = 8
    BY <1>8
  <2> QED
    BY <2>1, <2>2
<1>15. Adds(ms[d + 1], "windows", R, R1)
  BY <1>12, <1>13
<1>16. BottleneckSo(ms, blocks, d)
  BY <1>5, <1>14, <1>15, Zenon DEF BottleneckSo, R, R1
<1> QED
  BY <1>16, Zenon DEF ms


\* How far a token is known after d blocks, as Reach has it.
ReachAt(type, blocks, d) ==
  CASE type = "slide_chunk" -> FarTo(SlidesAt(blocks, 3, d), 1, 1, 1)
    [] type = "slide_chunk_6" -> FarTo(SlidesAt(blocks, 6, d), 1, 1, 1)
    [] type = "slide_chunk_all" -> FarTo(d, 1, 1, 1)
    [] type = "slide_chunk_half_block" -> FarTo(2 * SlidesAt(blocks, blocks \div 2, d), 1, 1, 1)
    [] type = "slide_chunk_all_block" -> FarTo(2 * d, 1, 1, 1)
    [] type = "slide_chunk_all_block_2x1x1" -> FarTo(2 * d, 2, 1, 1)
    [] type = "slide_chunk_all_block_2x0x0" -> FarTo(2 * d, 2, 0, 0)
    [] type = "slide_chunk_bottleneck" -> ReachOfBottleneck(blocks, d)
    [] type = "slide_window_4x16x16" -> FarTo(2 * d, 4, 16, 16)

\* What masks that slide are about.
KindFor(type) == IF type = "slide_window_4x16x16" THEN "tokens" ELSE "windows"

\* It grows by what the masks of each block reach.
Grows(ms, type, blocks, d) ==
  /\ Len(ms) = blocks
  /\ Adds(ms[d + 1], KindFor(type), ReachAt(type, blocks, d), ReachAt(type, blocks, d + 1))
  /\ \A x \in Dims : ReachAt(type, blocks, 0)[x] = 0

\* Windows of tokens.
LEMMA TokensAdd ==
  ASSUME NEW blocks \in Nat \ {0}, NEW d \in 0 .. (blocks - 1)
  PROVE  Grows(_sliding_window_attention_mask(blocks), "slide_window_4x16x16", blocks, d)
<1> DEFINE V == <<4, 16, 16>>
           mask == [kind |-> "tokens", reach |-> V]
           ms == _sliding_window_attention_mask(blocks)
           type == "slide_window_4x16x16"
           R(e) == FarTo(2 * e, 4, 16, 16)
<1>1. KindFor(type) = "tokens" /\ \A e : ReachAt(type, blocks, e) = R(e)
  BY DEF KindFor, ReachAt
<1>2. mask = Sliding(4, 16, 16)
  BY Zenon DEF Sliding
<1>3. ms = Times(blocks, <<mask, mask>>)
  BY <1>2, Zenon DEF _sliding_window_attention_mask, Both
<1> HIDE DEF mask, ms
<1>4. Len(ms) = blocks /\ ms[d + 1] = <<mask, mask>>
  <2> DEFINE p == <<mask, mask>>
  <2>1. ms = [b \in 1 .. blocks |-> p]
    BY <1>3, Zenon DEF Times
  <2> HIDE DEF p
  <2>2. Len(ms) = blocks /\ ms[d + 1] = p
    BY <2>1
  <2> QED
    BY <2>2, Zenon DEF p
<1>5. ASSUME NEW e \in Nat, NEW x \in Dims PROVE R(e)[x] = 2 * e * V[x] /\ V[x] \in {4, 16}
  <2>1. x = 1 \/ x = 2 \/ x = 3
    BY DEF Dims
  <2>2. V[1] = 4 /\ V[2] = 16 /\ V[3] = 16
    OBVIOUS
  <2>3. R(e)[1] = 2 * e * 4 /\ R(e)[2] = 2 * e * 16 /\ R(e)[3] = 2 * e * 16
    BY FarAt
  <2> HIDE DEF R, V
  <2> QED
    BY <2>1, <2>2, <2>3, Zenon
<1> HIDE DEF R, V
<1>6. ASSUME NEW x \in Dims
      PROVE  /\ R(d)[x] \in Nat /\ V[x] \in Nat /\ R(0)[x] = 0
             /\ R(d + 1)[x] = R(d)[x] + V[x] + V[x]
  <2>1. R(d)[x] = 2 * d * V[x] /\ R(d + 1)[x] = 2 * (d + 1) * V[x] /\ V[x] \in {4, 16}
        /\ R(0)[x] = 2 * 0 * V[x]
    BY <1>5
  <2> DEFINE v == V[x]
             r == R(d)[x]
             r1 == R(d + 1)[x]
             r0 == R(0)[x]
  <2>2. r = 2 * d * v /\ r1 = 2 * (d + 1) * v /\ v \in {4, 16} /\ r0 = 2 * 0 * v
    BY <2>1
  <2> HIDE DEF v, r, r1, r0
  <2>3. r \in Nat /\ v \in Nat /\ r0 = 0 /\ r1 = r + v + v
    <3>1. CASE v = 4
      BY <2>2, <3>1
    <3>2. CASE v = 16
      BY <2>2, <3>2
    <3> QED
      BY <2>2, <3>1, <3>2
  <2> QED
    BY <2>3, Zenon DEF v, r, r1, r0
<1>7. Reaching(R(d)) /\ Reaching(V)
  BY <1>6, Zenon DEF Reaching
<1>8. Adds(<<[kind |-> "tokens", reach |-> V], [kind |-> "tokens", reach |-> V]>>,
           "tokens", R(d), R(d + 1))
  BY <1>6, <1>7, PairAdds
<1>9. Adds(ms[d + 1], "tokens", R(d), R(d + 1))
  BY <1>4, <1>8, Zenon DEF mask
<1>10. \A x \in Dims : R(0)[x] = 0
  BY <1>6, Zenon
<1>11. ReachAt(type, blocks, d) = R(d) /\ ReachAt(type, blocks, d + 1) = R(d + 1)
       /\ ReachAt(type, blocks, 0) = R(0) /\ KindFor(type) = "tokens"
  BY <1>1, Zenon
<1> HIDE DEF type
<1>12. Grows(ms, type, blocks, d)
  BY <1>4, <1>9, <1>10, <1>11, Zenon DEF Grows
<1> QED
  BY <1>12, Zenon DEF ms, type

\* Masks of windows that slide make it grow.
LEMMA WindowsGrow ==
  ASSUME NEW type, NEW blocks, NEW d, NEW num, NEW single, NEW t, NEW h_, NEW w, NEW ms,
         SlidesBy(ms, blocks, num, single, t, h_, w, d), KindFor(type) = "windows",
         ReachAt(type, blocks, 0) = FarTo(Often(blocks, num, single, 0), t, h_, w),
         ReachAt(type, blocks, d) = FarTo(Often(blocks, num, single, d), t, h_, w),
         ReachAt(type, blocks, d + 1) = FarTo(Often(blocks, num, single, d + 1), t, h_, w)
  PROVE  Grows(ms, type, blocks, d)
<1> DEFINE R0 == FarTo(Often(blocks, num, single, 0), t, h_, w)
           R == FarTo(Often(blocks, num, single, d), t, h_, w)
           S == FarTo(Often(blocks, num, single, d + 1), t, h_, w)
<1>1. /\ ReachAt(type, blocks, 0) = R0 /\ ReachAt(type, blocks, d) = R
      /\ ReachAt(type, blocks, d + 1) = S
  BY Zenon
<1>2. Len(ms) = blocks /\ Adds(ms[d + 1], "windows", R, S) /\ \A x \in Dims : R0[x] = 0
  BY Zenon DEF SlidesBy
<1> HIDE DEF R0, R, S
<1> QED
  BY <1>1, <1>2, Zenon DEF Grows

\* Every type of attention that is not full and not shifted.
LEMMA TypeGrows ==
  ASSUME NEW type \in Types, type \notin {"full", "swin"}, NEW blocks \in Nat \ {0},
         ~ DividesByZero(type, blocks), NEW d \in 0 .. (blocks - 1)
  PROVE  Grows(prepare_attention_mask(type, blocks), type, blocks, d)
<1> DEFINE ms == prepare_attention_mask(type, blocks)
           G == Grows(ms, type, blocks, d)
<1>1. /\ d \in Nat /\ d + 1 \in Nat /\ 0 \in Nat
      /\ 0 \in {0, 1, 2} /\ 1 \in {0, 1, 2} /\ 2 \in {0, 1, 2} /\ 3 \in Nat \ {0} /\ 6 \in Nat \ {0}
      /\ TRUE \in BOOLEAN /\ FALSE \in BOOLEAN /\ blocks \in Nat \ {0}
  OBVIOUS
<1>2. SlidesAt(blocks, blocks, d) = d /\ SlidesAt(blocks, blocks, d + 1) = d + 1
      /\ SlidesAt(blocks, blocks, 0) = 0
  BY <1>1, AllSlide, Zenon
<1>3. type = "slide_chunk_half_block" => blocks # 1
  BY Zenon DEF DividesByZero
<1> HIDE DEF G
<1>4. ASSUME type = "slide_chunk" PROVE G
  <2> DEFINE num == 3
  <2>1. /\ ms = _sliding_chunk_attention_mask(blocks, Slide(1, 1, 1), num, TRUE)
        /\ KindFor(type) = "windows"
        /\ \A e : ReachAt(type, blocks, e) = FarTo(SlidesAt(blocks, 3, e), 1, 1, 1)
    BY <1>4 DEF prepare_attention_mask, SlideChunk, SlideChunkTypes, KindFor, ReachAt
  <2>2. num \in Nat \ {0}
    BY <1>1
  <2> HIDE DEF num
  <2>4. SlidesBy(_sliding_chunk_attention_mask(blocks, Slide(1, 1, 1), num, TRUE),
                 blocks, num, TRUE, 1, 1, 1, d)
    BY <1>1, <2>2, SlidingAdds, Zenon
  <2>5. ASSUME NEW e \in {0, d, d + 1}
        PROVE  ReachAt(type, blocks, e) = FarTo(Often(blocks, num, TRUE, e), 1, 1, 1)
    <3>1. Often(blocks, num, TRUE, e) = SlidesAt(blocks, num, e)
      BY Zenon DEF Often
    <3> QED
      BY <2>1, <3>1, Zenon DEF num
  <2>6. /\ ReachAt(type, blocks, 0) = FarTo(Often(blocks, num, TRUE, 0), 1, 1, 1)
        /\ ReachAt(type, blocks, d) = FarTo(Often(blocks, num, TRUE, d), 1, 1, 1)
        /\ ReachAt(type, blocks, d + 1) = FarTo(Often(blocks, num, TRUE, d + 1), 1, 1, 1)
    BY <2>5, Zenon
  <2> HIDE DEF ms
  <2>7. SlidesBy(ms, blocks, num, TRUE, 1, 1, 1, d)
    BY <2>1, <2>4, Zenon
  <2> QED
    BY <2>1, <2>6, <2>7, WindowsGrow, Zenon DEF G
<1>5. ASSUME type = "slide_chunk_6" PROVE G
  <2> DEFINE num == 6
  <2>1. /\ ms = _sliding_chunk_attention_mask(blocks, Slide(1, 1, 1), num, TRUE)
        /\ KindFor(type) = "windows"
        /\ \A e : ReachAt(type, blocks, e) = FarTo(SlidesAt(blocks, 6, e), 1, 1, 1)
    BY <1>5 DEF prepare_attention_mask, SlideChunk, SlideChunkTypes, KindFor, ReachAt
  <2>2. num \in Nat \ {0}
    BY <1>1
  <2> HIDE DEF num
  <2>4. SlidesBy(_sliding_chunk_attention_mask(blocks, Slide(1, 1, 1), num, TRUE),
                 blocks, num, TRUE, 1, 1, 1, d)
    BY <1>1, <2>2, SlidingAdds, Zenon
  <2>5. ASSUME NEW e \in {0, d, d + 1}
        PROVE  ReachAt(type, blocks, e) = FarTo(Often(blocks, num, TRUE, e), 1, 1, 1)
    <3>1. Often(blocks, num, TRUE, e) = SlidesAt(blocks, num, e)
      BY Zenon DEF Often
    <3> QED
      BY <2>1, <3>1, Zenon DEF num
  <2>6. /\ ReachAt(type, blocks, 0) = FarTo(Often(blocks, num, TRUE, 0), 1, 1, 1)
        /\ ReachAt(type, blocks, d) = FarTo(Often(blocks, num, TRUE, d), 1, 1, 1)
        /\ ReachAt(type, blocks, d + 1) = FarTo(Often(blocks, num, TRUE, d + 1), 1, 1, 1)
    BY <2>5, Zenon
  <2> HIDE DEF ms
  <2>7. SlidesBy(ms, blocks, num, TRUE, 1, 1, 1, d)
    BY <2>1, <2>4, Zenon
  <2> QED
    BY <2>1, <2>6, <2>7, WindowsGrow, Zenon DEF G
<1>6. ASSUME type = "slide_chunk_all" PROVE G
  <2> DEFINE num == blocks
  <2>1. /\ ms = _sliding_chunk_attention_mask(blocks, Slide(1, 1, 1), num, TRUE)
        /\ KindFor(type) = "windows"
        /\ \A e : ReachAt(type, blocks, e) = FarTo(e, 1, 1, 1)
    BY <1>6 DEF prepare_attention_mask, SlideChunk, SlideChunkTypes, KindFor, ReachAt
  <2>2. num \in Nat \ {0}
    BY <1>1
  <2>3. /\ SlidesAt(blocks, num, 0) = 0 /\ SlidesAt(blocks, num, d) = d
        /\ SlidesAt(blocks, num, d + 1) = d + 1
    BY <1>2, Zenon
  <2> HIDE DEF num
  <2>4. SlidesBy(_sliding_chunk_attention_mask(blocks, Slide(1, 1, 1), num, TRUE),
                 blocks, num, TRUE, 1, 1, 1, d)
    BY <1>1, <2>2, SlidingAdds, Zenon
  <2>5. ASSUME NEW e \in {0, d, d + 1}
        PROVE  ReachAt(type, blocks, e) = FarTo(Often(blocks, num, TRUE, e), 1, 1, 1)
    <3>1. Often(blocks, num, TRUE, e) = SlidesAt(blocks, num, e)
      BY Zenon DEF Often
    <3>2. SlidesAt(blocks, num, e) = e
      BY <2>3
    <3> QED
      BY <2>1, <3>1, <3>2, Zenon
  <2>6. /\ ReachAt(type, blocks, 0) = FarTo(Often(blocks, num, TRUE, 0), 1, 1, 1)
        /\ ReachAt(type, blocks, d) = FarTo(Often(blocks, num, TRUE, d), 1, 1, 1)
        /\ ReachAt(type, blocks, d + 1) = FarTo(Often(blocks, num, TRUE, d + 1), 1, 1, 1)
    BY <2>5, Zenon
  <2> HIDE DEF ms
  <2>7. SlidesBy(ms, blocks, num, TRUE, 1, 1, 1, d)
    BY <2>1, <2>4, Zenon
  <2> QED
    BY <2>1, <2>6, <2>7, WindowsGrow, Zenon DEF G
<1>7. ASSUME type = "slide_chunk_half_block", blocks # 1 PROVE G
  <2> DEFINE num == blocks \div 2
  <2>1. /\ ms = _sliding_chunk_attention_mask(blocks, Slide(1, 1, 1), num, FALSE)
        /\ KindFor(type) = "windows"
        /\ \A e : ReachAt(type, blocks, e) = FarTo(2 * SlidesAt(blocks, blocks \div 2, e), 1, 1, 1)
    BY <1>7 DEF prepare_attention_mask, SlideChunk, SlideChunkTypes, KindFor, ReachAt
  <2>2. num \in Nat \ {0}
    BY <1>7
  <2> HIDE DEF num
  <2>4. SlidesBy(_sliding_chunk_attention_mask(blocks, Slide(1, 1, 1), num, FALSE),
                 blocks, num, FALSE, 1, 1, 1, d)
    BY <1>1, <2>2, SlidingAdds, Zenon
  <2>5. ASSUME NEW e \in {0, d, d + 1}
        PROVE  ReachAt(type, blocks, e) = FarTo(Often(blocks, num, FALSE, e), 1, 1, 1)
    <3>1. Often(blocks, num, FALSE, e) = 2 * SlidesAt(blocks, num, e)
      BY Zenon DEF Often
    <3> QED
      BY <2>1, <3>1, Zenon DEF num
  <2>6. /\ ReachAt(type, blocks, 0) = FarTo(Often(blocks, num, FALSE, 0), 1, 1, 1)
        /\ ReachAt(type, blocks, d) = FarTo(Often(blocks, num, FALSE, d), 1, 1, 1)
        /\ ReachAt(type, blocks, d + 1) = FarTo(Often(blocks, num, FALSE, d + 1), 1, 1, 1)
    BY <2>5, Zenon
  <2> HIDE DEF ms
  <2>7. SlidesBy(ms, blocks, num, FALSE, 1, 1, 1, d)
    BY <2>1, <2>4, Zenon
  <2> QED
    BY <2>1, <2>6, <2>7, WindowsGrow, Zenon DEF G
<1>8. ASSUME type = "slide_chunk_all_block" PROVE G
  <2> DEFINE num == blocks
  <2>1. /\ ms = _sliding_chunk_attention_mask(blocks, Slide(1, 1, 1), num, FALSE)
        /\ KindFor(type) = "windows"
        /\ \A e : ReachAt(type, blocks, e) = FarTo(2 * e, 1, 1, 1)
    BY <1>8 DEF prepare_attention_mask, SlideChunk, SlideChunkTypes, KindFor, ReachAt
  <2>2. num \in Nat \ {0}
    BY <1>1
  <2>3. /\ SlidesAt(blocks, num, 0) = 0 /\ SlidesAt(blocks, num, d) = d
        /\ SlidesAt(blocks, num, d + 1) = d + 1
    BY <1>2, Zenon
  <2> HIDE DEF num
  <2>4. SlidesBy(_sliding_chunk_attention_mask(blocks, Slide(1, 1, 1), num, FALSE),
                 blocks, num, FALSE, 1, 1, 1, d)
    BY <1>1, <2>2, SlidingAdds, Zenon
  <2>5. ASSUME NEW e \in {0, d, d + 1}
        PROVE  ReachAt(type, blocks, e) = FarTo(Often(blocks, num, FALSE, e), 1, 1, 1)
    <3>1. Often(blocks, num, FALSE, e) = 2 * SlidesAt(blocks, num, e)
      BY Zenon DEF Often
    <3>2. SlidesAt(blocks, num, e) = e
      BY <2>3
    <3> QED
      BY <2>1, <3>1, <3>2, Zenon
  <2>6. /\ ReachAt(type, blocks, 0) = FarTo(Often(blocks, num, FALSE, 0), 1, 1, 1)
        /\ ReachAt(type, blocks, d) = FarTo(Often(blocks, num, FALSE, d), 1, 1, 1)
        /\ ReachAt(type, blocks, d + 1) = FarTo(Often(blocks, num, FALSE, d + 1), 1, 1, 1)
    BY <2>5, Zenon
  <2> HIDE DEF ms
  <2>7. SlidesBy(ms, blocks, num, FALSE, 1, 1, 1, d)
    BY <2>1, <2>4, Zenon
  <2> QED
    BY <2>1, <2>6, <2>7, WindowsGrow, Zenon DEF G
<1>9. ASSUME type = "slide_chunk_all_block_2x1x1" PROVE G
  <2> DEFINE num == blocks
  <2>1. /\ ms = _sliding_chunk_attention_mask(blocks, Slide(2, 1, 1), num, FALSE)
        /\ KindFor(type) = "windows"
        /\ \A e : ReachAt(type, blocks, e) = FarTo(2 * e, 2, 1, 1)
    BY <1>9 DEF prepare_attention_mask, SlideChunk, SlideChunkTypes, KindFor, ReachAt
  <2>2. num \in Nat \ {0}
    BY <1>1
  <2>3. /\ SlidesAt(blocks, num, 0) = 0 /\ SlidesAt(blocks, num, d) = d
        /\ SlidesAt(blocks, num, d + 1) = d + 1
    BY <1>2, Zenon
  <2> HIDE DEF num
  <2>4. SlidesBy(_sliding_chunk_attention_mask(blocks, Slide(2, 1, 1), num, FALSE),
                 blocks, num, FALSE, 2, 1, 1, d)
    BY <1>1, <2>2, SlidingAdds, Zenon
  <2>5. ASSUME NEW e \in {0, d, d + 1}
        PROVE  ReachAt(type, blocks, e) = FarTo(Often(blocks, num, FALSE, e), 2, 1, 1)
    <3>1. Often(blocks, num, FALSE, e) = 2 * SlidesAt(blocks, num, e)
      BY Zenon DEF Often
    <3>2. SlidesAt(blocks, num, e) = e
      BY <2>3
    <3> QED
      BY <2>1, <3>1, <3>2, Zenon
  <2>6. /\ ReachAt(type, blocks, 0) = FarTo(Often(blocks, num, FALSE, 0), 2, 1, 1)
        /\ ReachAt(type, blocks, d) = FarTo(Often(blocks, num, FALSE, d), 2, 1, 1)
        /\ ReachAt(type, blocks, d + 1) = FarTo(Often(blocks, num, FALSE, d + 1), 2, 1, 1)
    BY <2>5, Zenon
  <2> HIDE DEF ms
  <2>7. SlidesBy(ms, blocks, num, FALSE, 2, 1, 1, d)
    BY <2>1, <2>4, Zenon
  <2> QED
    BY <2>1, <2>6, <2>7, WindowsGrow, Zenon DEF G
<1>10. ASSUME type = "slide_chunk_all_block_2x0x0" PROVE G
  <2> DEFINE num == blocks
  <2>1. /\ ms = _sliding_chunk_attention_mask(blocks, Slide(2, 0, 0), num, FALSE)
        /\ KindFor(type) = "windows"
        /\ \A e : ReachAt(type, blocks, e) = FarTo(2 * e, 2, 0, 0)
    BY <1>10 DEF prepare_attention_mask, SlideChunk, SlideChunkTypes, KindFor, ReachAt
  <2>2. num \in Nat \ {0}
    BY <1>1
  <2>3. /\ SlidesAt(blocks, num, 0) = 0 /\ SlidesAt(blocks, num, d) = d
        /\ SlidesAt(blocks, num, d + 1) = d + 1
    BY <1>2, Zenon
  <2> HIDE DEF num
  <2>4. SlidesBy(_sliding_chunk_attention_mask(blocks, Slide(2, 0, 0), num, FALSE),
                 blocks, num, FALSE, 2, 0, 0, d)
    BY <1>1, <2>2, SlidingAdds, Zenon
  <2>5. ASSUME NEW e \in {0, d, d + 1}
        PROVE  ReachAt(type, blocks, e) = FarTo(Often(blocks, num, FALSE, e), 2, 0, 0)
    <3>1. Often(blocks, num, FALSE, e) = 2 * SlidesAt(blocks, num, e)
      BY Zenon DEF Often
    <3>2. SlidesAt(blocks, num, e) = e
      BY <2>3
    <3> QED
      BY <2>1, <3>1, <3>2, Zenon
  <2>6. /\ ReachAt(type, blocks, 0) = FarTo(Often(blocks, num, FALSE, 0), 2, 0, 0)
        /\ ReachAt(type, blocks, d) = FarTo(Often(blocks, num, FALSE, d), 2, 0, 0)
        /\ ReachAt(type, blocks, d + 1) = FarTo(Often(blocks, num, FALSE, d + 1), 2, 0, 0)
    BY <2>5, Zenon
  <2> HIDE DEF ms
  <2>7. SlidesBy(ms, blocks, num, FALSE, 2, 0, 0, d)
    BY <2>1, <2>4, Zenon
  <2> QED
    BY <2>1, <2>6, <2>7, WindowsGrow, Zenon DEF G
<1>11. ASSUME type = "slide_chunk_bottleneck" PROVE G
  <2>1. /\ ms = _slide_chunk_bottlenect_attention_mask(blocks)
        /\ KindFor(type) = "windows"
        /\ \A e : ReachAt(type, blocks, e) = ReachOfBottleneck(blocks, e)
    BY <1>11 DEF prepare_attention_mask, SlideChunkTypes, KindFor, ReachAt
  <2>2. BottleneckSo(_slide_chunk_bottlenect_attention_mask(blocks), blocks, d)
    BY BottleneckAdds, Zenon
  <2> HIDE DEF ms
  <2>3. BottleneckSo(ms, blocks, d)
    BY <2>1, <2>2, Zenon
  <2> DEFINE R0 == ReachOfBottleneck(blocks, 0)
             R == ReachOfBottleneck(blocks, d)
             S == ReachOfBottleneck(blocks, d + 1)
  <2>4. /\ ReachAt(type, blocks, 0) = R0 /\ ReachAt(type, blocks, d) = R
        /\ ReachAt(type, blocks, d + 1) = S
    BY <2>1, Zenon
  <2>5. Len(ms) = blocks /\ Adds(ms[d + 1], "windows", R, S) /\ \A x \in Dims : R0[x] = 0
    BY <2>3, Zenon DEF BottleneckSo
  <2> HIDE DEF R0, R, S
  <2> QED
    BY <2>1, <2>4, <2>5, Zenon DEF Grows, G
<1>12. ASSUME type = "slide_window_4x16x16" PROVE G
  <2>1. ms = _sliding_window_attention_mask(blocks)
    BY <1>12 DEF prepare_attention_mask, SlideChunkTypes
  <2>2. Grows(_sliding_window_attention_mask(blocks), "slide_window_4x16x16", blocks, d)
    BY TokensAdd, Zenon
  <2> HIDE DEF ms
  <2> QED
    BY <1>12, <2>1, <2>2, Zenon DEF G
<1>13. \/ type = "slide_chunk" \/ type = "slide_chunk_6" \/ type = "slide_chunk_all"
       \/ type = "slide_chunk_half_block" \/ type = "slide_chunk_all_block"
       \/ type = "slide_chunk_all_block_2x1x1" \/ type = "slide_chunk_all_block_2x0x0"
       \/ type = "slide_chunk_bottleneck" \/ type = "slide_window_4x16x16"
  BY DEF Types, SlideChunkTypes
<1>14. G
  BY <1>3, <1>4, <1>5, <1>6, <1>7, <1>8, <1>9, <1>10, <1>11, <1>12, <1>13
<1> QED
  BY <1>14, Zenon DEF G, ms


\* How far around the edges of the picture a window is.
AroundBy(q, o, k) ==
  \A d \in Dims : Around(Window(q)[d], Window(o)[d], Wide(d)) <= IF Shifts(d) THEN k ELSE 0

\* What tokens know after a block that is shifted.
ByRolled(q, o, k) == \E kv \in Tokens : Rolled(q) = Rolled(kv) /\ AroundBy(kv, o, k)

\* The tokens that know of token o after d blocks, at least one.
KnowsAfter(type, blocks, d, o) ==
  IF type = "full" THEN Tokens
  ELSE IF type = "swin" THEN
    IF d % 2 = 1 THEN {q \in Tokens : AroundBy(q, o, (d - 1) \div 2)}
    ELSE {q \in Tokens : ByRolled(q, o, (d - 2) \div 2)}
  ELSE IF type = "slide_window_4x16x16" THEN NearTo(PlacesOf, o, ReachAt(type, blocks, d))
  ELSE NearTo(WindowsOf, o, ReachAt(type, blocks, d))

\* Before any block, only the token itself.
Known(type, blocks, d, o) == IF d = 0 THEN {o} ELSE KnowsAfter(type, blocks, d, o)

\* The inductive invariant: a transformer's masks are those of its type, and
\* what is known is what they lead to.
AttnInv ==
  /\ Grid
  /\ model # NoModel =>
       /\ model \in [type : Types, blocks : Nat \ {0}]
       /\ ~ DividesByZero(model.type, model.blocks)
       /\ Filled
       /\ masks = prepare_attention_mask(model.type, model.blocks)
       /\ done \in 0 .. model.blocks
       /\ origin \in Tokens
       /\ known = Known(model.type, model.blocks, done, origin)

-----------------------------------------------------------------------------
(* Shifted windows *)

\* The window that a place of window w, i from its start, is rolled to: the
\* next one when half a side leads out of it.
Turn(w, i, s, n) ==
  IF i + s \div 2 < s THEN w ELSE IF w + 1 = n THEN 0 ELSE w + 1

\* Half a side.
LEMMA Half ==
  ASSUME NEW s \in Nat \ {0}
  PROVE  /\ s \div 2 \in Nat /\ s \div 2 < s
         /\ s = 1 => s \div 2 = 0
         /\ s > 1 => s \div 2 > 0
OBVIOUS

\* Rolling a place turns its window.
LEMMA Turned ==
  ASSUME NEW s \in Nat \ {0}, NEW n \in Nat \ {0},
         NEW w \in 0 .. (n - 1), NEW i \in 0 .. (s - 1)
  PROVE  (((w * s + i) + s \div 2) % (n * s)) \div s = Turn(w, i, s, n)
<1> DEFINE half == s \div 2
           M == n * s
           ws == w * s
           x == (ws + i) + half
<1>1. half \in Nat /\ half < s
  BY Half
<1>2. M \in Nat \ {0} /\ ws \in Nat /\ s <= M
  BY SMTT(30)
<1> HIDE DEF half
<1>3. ASSUME NEW u \in 0 .. (n - 1), NEW j \in 0 .. (s - 1), x = u * s + j
      PROVE  (x % M) \div s = u
  <2>1. u * s + j \in 0 .. (M - 1)
    BY DigitsLess
  <2>2. (u * s + j) \div s = u
    BY Digits
  <2> HIDE DEF x, M
  <2>3. x \in 0 .. (M - 1)
    BY <1>3, <2>1, Zenon
  <2>4. x % M = x
    BY <1>2, <2>3
  <2> QED
    BY <1>3, <2>2, <2>4, Zenon
<1>4. CASE i + half < s
  <2> DEFINE j == i + half
  <2>1. j \in 0 .. (s - 1)
    BY <1>1, <1>4
  <2>2. x = ws + j
    <3> HIDE DEF ws
    <3> QED
      BY <1>1, <1>2
  <2> HIDE DEF j, x, M
  <2>3. (x % M) \div s = w
    BY <1>3, <2>1, <2>2
  <2> QED
    BY <1>4, <2>3, Zenon DEF Turn, half, x, M
<1>5. CASE ~ (i + half < s) /\ w + 1 # n
  <2> DEFINE j == (i + half) - s
             u == w + 1
  <2>1. j \in 0 .. (s - 1) /\ u \in 0 .. (n - 1)
    BY <1>1, <1>5
  <2>2. x = u * s + j
    <3>1. u * s = ws + s
      BY SMTT(30)
    <3> HIDE DEF ws, u
    <3> QED
      BY <1>1, <1>2, <3>1
  <2> HIDE DEF j, x, M, u
  <2>3. (x % M) \div s = u
    BY <1>3, <2>1, <2>2
  <2> QED
    BY <1>5, <2>3, Zenon DEF Turn, half, x, M, u
<1>6. CASE ~ (i + half < s) /\ w + 1 = n
  <2> DEFINE j == (i + half) - s
  <2>1. j \in 0 .. (s - 1)
    BY <1>1, <1>6
  <2>2. x = M + j
    <3>1. M = ws + s
      BY <1>6, SMTT(30)
    <3> HIDE DEF ws, M
    <3> QED
      BY <1>1, <1>2, <3>1
  <2> HIDE DEF j, x, M
  <2>3. j \in 0 .. (M - 1)
    BY <1>2, <2>1
  <2>4. x % M = j /\ j \div s = 0
    <3>1. x = 1 * M + j
      BY <1>2, <2>2, <2>3
    <3>2. (1 * M + j) % M = j
      BY <1>2, <2>3, Digits
    <3>3. j \div s = 0
      BY <2>1
    <3> QED
      BY <3>1, <3>2, <3>3, Zenon
  <2> QED
    BY <1>6, <2>4, Zenon DEF Turn, half, x, M
<1> QED
  BY <1>4, <1>5, <1>6

\* Those that share a rolled window are at most one window apart.
LEMMA TurnsNear ==
  ASSUME NEW s \in Nat \ {0}, NEW n \in Nat \ {0}, NEW k \in Nat,
         NEW w \in 0 .. (n - 1), NEW v \in 0 .. (n - 1), NEW o \in 0 .. (n - 1),
         NEW i \in 0 .. (s - 1), NEW j \in 0 .. (s - 1),
         Turn(w, i, s, n) = Turn(v, j, s, n),
         Around(v, o, n) <= IF s > 1 THEN k ELSE 0
  PROVE  Around(w, o, n) <= IF s > 1 THEN k + 1 ELSE 0
<1> DEFINE half == s \div 2
<1>1. half \in Nat /\ half < s /\ (s = 1 => half = 0)
  BY Half
<1>2. (IF i + half < s THEN w ELSE IF w + 1 = n THEN 0 ELSE w + 1)
        = (IF j + half < s THEN v ELSE IF v + 1 = n THEN 0 ELSE v + 1)
  BY Zenon DEF Turn
<1> HIDE DEF half
<1>3. \/ w = v
      \/ s > 1 /\ (w = v + 1 \/ v = w + 1 \/ (w = 0 /\ v = n - 1) \/ (v = 0 /\ w = n - 1))
  <2>1. ASSUME s = 1 PROVE i + half < s /\ j + half < s
    BY <1>1, <2>1
  <2>2. s = 1 \/ s > 1
    OBVIOUS
  <2>3. CASE i + half < s /\ j + half < s
    BY <1>2, <2>3
  <2>4. CASE i + half < s /\ ~ (j + half < s)
    <3>1. w = IF v + 1 = n THEN 0 ELSE v + 1
      BY <1>2, <2>4
    <3>2. s > 1
      BY <2>1, <2>2, <2>4
    <3> QED
      BY <3>1, <3>2
  <2>5. CASE ~ (i + half < s) /\ j + half < s
    <3>1. v = IF w + 1 = n THEN 0 ELSE w + 1
      BY <1>2, <2>5
    <3>2. s > 1
      BY <2>1, <2>2, <2>5
    <3> QED
      BY <3>1, <3>2
  <2>6. CASE ~ (i + half < s) /\ ~ (j + half < s)
    <3>1. (IF w + 1 = n THEN 0 ELSE w + 1) = IF v + 1 = n THEN 0 ELSE v + 1
      BY <1>2, <2>6
    <3>2. w = v
      BY <3>1
    <3> QED
      BY <3>2
  <2> QED
    BY <2>3, <2>4, <2>5, <2>6
<1>4. CASE w = v
  BY <1>4 DEF Around, Apart
<1>5. CASE s > 1 /\ (w = v + 1 \/ v = w + 1 \/ (w = 0 /\ v = n - 1) \/ (v = 0 /\ w = n - 1))
  BY <1>5 DEF Around, Apart
<1> QED
  BY <1>3, <1>4, <1>5

\* And a window that is one window nearer shares a rolled window.
NearerTurn(w, o, s, n, k, v, i, j) ==
  /\ Turn(w, i, s, n) = Turn(v, j, s, n)
  /\ Around(v, o, n) <= IF s > 1 THEN k ELSE 0

\* There is one.
LEMMA TurnsNearer ==
  ASSUME NEW s \in Nat \ {0}, NEW n \in Nat \ {0}, NEW k \in Nat,
         NEW w \in 0 .. (n - 1), NEW o \in 0 .. (n - 1),
         Around(w, o, n) <= IF s > 1 THEN k + 1 ELSE 0
  PROVE  \E v \in 0 .. (n - 1), i \in 0 .. (s - 1), j \in 0 .. (s - 1) :
           NearerTurn(w, o, s, n, k, v, i, j)
<1> DEFINE half == s \div 2
           last == s - 1
           next == IF w + 1 = n THEN 0 ELSE w + 1
           prev == IF w = 0 THEN n - 1 ELSE w - 1
<1>1. half \in Nat /\ half < s /\ (s > 1 => half > 0)
  BY Half
<1>2. 0 \in 0 .. (s - 1) /\ last \in 0 .. (s - 1) /\ next \in 0 .. (n - 1) /\ prev \in 0 .. (n - 1)
  OBVIOUS
<1>3. \A u, i : Turn(u, i, s, n) = IF i + half < s THEN u ELSE IF u + 1 = n THEN 0 ELSE u + 1
  BY Zenon DEF Turn
<1>4. \/ Around(w, o, n) <= IF s > 1 THEN k ELSE 0
      \/ s > 1 /\ Around(next, o, n) <= k
      \/ s > 1 /\ Around(prev, o, n) <= k
  BY DEF Around, Apart
<1>5. CASE Around(w, o, n) <= IF s > 1 THEN k ELSE 0
  <2>1. NearerTurn(w, o, s, n, k, w, 0, 0)
    BY <1>5, Zenon DEF NearerTurn
  <2> QED
    BY <1>2, <2>1, Zenon
<1>6. CASE s > 1 /\ Around(next, o, n) <= k
  <2>1. Turn(w, last, s, n) = next
    <3>1. ~ (last + half < s)
      BY <1>1, <1>6
    <3> QED
      BY <1>3, <3>1, Zenon
  <2>2. Turn(next, 0, s, n) = next
    <3>1. 0 + half < s
      BY <1>1
    <3> QED
      BY <1>3, <3>1, Zenon
  <2> HIDE DEF next, last
  <2>3. NearerTurn(w, o, s, n, k, next, last, 0)
    BY <1>6, <2>1, <2>2, Zenon DEF NearerTurn
  <2> QED
    BY <1>2, <2>3, Zenon
<1>7. CASE s > 1 /\ Around(prev, o, n) <= k
  <2>1. Turn(w, 0, s, n) = w
    <3>1. 0 + half < s
      BY <1>1
    <3> QED
      BY <1>3, <3>1, Zenon
  <2>2. Turn(prev, last, s, n) = w
    <3>1. ~ (last + half < s)
      BY <1>1, <1>7
    <3>2. (IF prev + 1 = n THEN 0 ELSE prev + 1) = w
      OBVIOUS
    <3> QED
      BY <1>3, <3>1, <3>2, Zenon
  <2> HIDE DEF prev, last
  <2>3. NearerTurn(w, o, s, n, k, prev, 0, last)
    BY <1>7, <2>1, <2>2, Zenon DEF NearerTurn
  <2> QED
    BY <1>2, <2>3, Zenon
<1> QED
  BY <1>4, <1>5, <1>6, <1>7

\* Where a token is rolled to.
LEMMA RolledTo ==
  ASSUME Grid, NEW q \in Tokens, NEW d \in Dims
  PROVE  Rolled(q)[d] = Turn(Window(q)[d], Inside(q)[d], Side(d), Wide(d))
<1>1. grid.t \in Nat \ {0} /\ grid.h \in Nat \ {0} /\ grid.w \in Nat \ {0}
  BY SidesOfGrid
<1>2. Filled
  <2>1. \A x \in Nat \ {0} : x # 0
    OBVIOUS
  <2> QED
    BY <1>1, <2>1, Zenon DEF Filled
<1> DEFINE s == Side(d)
           n == Wide(d)
           p == Place(q)[d]
           M == Extents[d]
           w == Window(q)[d]
           i == Inside(q)[d]
<1>3. s \in Nat \ {0} /\ n \in Nat \ {0} /\ M = n * s
  BY <1>2, SidesAndWidths
<1>4. w \in 0 .. (n - 1) /\ i \in 0 .. (s - 1) /\ p = w * s + i
  BY TokenParts
<1>5. Rolled(q)[d] = ((p + s \div 2) % M) \div s
  <2> DEFINE s1 == T
             s2 == H
             s3 == W
             h1 == T \div 2
             h2 == H \div 2
             h3 == W \div 2
             shift == <<h1, h2, h3>>
             side == <<s1, s2, s3>>
  <2>1. Rolled(q) = [x \in Dims |-> ((Place(q)[x] + shift[x]) % Extents[x]) \div side[x]]
    BY Zenon DEF Rolled
  <2>2. Rolled(q)[d] = ((Place(q)[d] + shift[d]) % Extents[d]) \div side[d]
    <3> DEFINE F(x) == ((Place(q)[x] + shift[x]) % Extents[x]) \div side[x]
    <3>1. Rolled(q) = [x \in Dims |-> F(x)]
      BY <2>1, Zenon
    <3> HIDE DEF F
    <3>2. Rolled(q)[d] = F(d)
      BY <3>1
    <3> QED
      BY <3>2, Zenon DEF F
  <2>3. side[d] = s
    BY Zenon DEF Side
  <2>4. shift[d] = s \div 2
    <3>1. h1 = s1 \div 2 /\ h2 = s2 \div 2 /\ h3 = s3 \div 2
      BY Zenon
    <3>2. s = <<s1, s2, s3>>[d]
      BY Zenon DEF Side
    <3>3. d = 1 \/ d = 2 \/ d = 3
      BY DEF Dims
    <3> HIDE DEF s, s1, s2, s3, h1, h2, h3
    <3>4. CASE d = 1
      BY <3>1, <3>2, <3>4
    <3>5. CASE d = 2
      BY <3>1, <3>2, <3>5
    <3>6. CASE d = 3
      BY <3>1, <3>2, <3>6
    <3> QED
      BY <3>3, <3>4, <3>5, <3>6
  <2> QED
    BY <2>2, <2>3, <2>4, Zenon
<1> HIDE DEF s, n, p, M, w, i
<1>6. (((w * s + i) + s \div 2) % (n * s)) \div s = Turn(w, i, s, n)
  BY <1>3, <1>4, Turned
<1> QED
  BY <1>3, <1>4, <1>5, <1>6, Zenon DEF s, n, w, i

\* Tokens that are rolled to the same window.
LEMMA RolledAlike ==
  ASSUME NEW q, NEW p
  PROVE  Rolled(q) = Rolled(p) <=> \A d \in Dims : Rolled(q)[d] = Rolled(p)[d]
<1> DEFINE F(n, d) == ((Place(n)[d] + <<T \div 2, H \div 2, W \div 2>>[d]) % Extents[d])
                        \div <<T, H, W>>[d]
<1>1. Rolled(q) = [d \in Dims |-> F(q, d)] /\ Rolled(p) = [d \in Dims |-> F(p, d)]
  BY Zenon DEF Rolled
<1> HIDE DEF F
<1> QED
  BY <1>1

\* In the same window.
SameWindow(q, p) == \A d \in Dims : Window(q)[d] = Window(p)[d]

\* A shifted block, and one that is not, lead one window on.
LEMMA ShiftedOn ==
  ASSUME Grid, NEW o \in Tokens, NEW q \in Tokens, NEW k \in Nat
  PROVE  (\E p \in Tokens : SameWindow(q, p) /\ ByRolled(p, o, k)) <=> AroundBy(q, o, k + 1)
<1>1. Filled
  <2>1. grid.t \in Nat \ {0} /\ grid.h \in Nat \ {0} /\ grid.w \in Nat \ {0}
    BY SidesOfGrid
  <2>2. \A x \in Nat \ {0} : x # 0
    OBVIOUS
  <2> QED
    BY <2>1, <2>2, Zenon DEF Filled
<1>2. \A d \in Dims : Side(d) \in Nat \ {0} /\ Wide(d) \in Nat \ {0}
  BY <1>1, SidesAndWidths
<1>3. \A d \in Dims : Shifts(d) <=> Side(d) > 1
  BY Zenon DEF Shifts, Side
<1>4. ASSUME NEW p \in Tokens, SameWindow(q, p), NEW kv \in Tokens,
             Rolled(p) = Rolled(kv), AroundBy(kv, o, k), NEW d \in Dims
      PROVE  Around(Window(q)[d], Window(o)[d], Wide(d)) <= IF Shifts(d) THEN k + 1 ELSE 0
  <2> DEFINE s == Side(d)
             n == Wide(d)
             w == Window(p)[d]
             v == Window(kv)[d]
             c == Window(o)[d]
             i == Inside(p)[d]
             j == Inside(kv)[d]
  <2>1. /\ s \in Nat \ {0} /\ n \in Nat \ {0} /\ w \in 0 .. (n - 1) /\ v \in 0 .. (n - 1)
        /\ c \in 0 .. (n - 1) /\ i \in 0 .. (s - 1) /\ j \in 0 .. (s - 1)
    BY <1>2, TokenParts
  <2>2. Turn(w, i, s, n) = Turn(v, j, s, n)
    <3>1. Rolled(p)[d] = Turn(w, i, s, n) /\ Rolled(kv)[d] = Turn(v, j, s, n)
      BY RolledTo
    <3> QED
      BY <1>4, <3>1, Zenon
  <2>3. Around(v, c, n) <= IF s > 1 THEN k ELSE 0
    BY <1>3, <1>4, Zenon DEF AroundBy
  <2>4. Window(q)[d] = w
    BY <1>4, Zenon DEF SameWindow
  <2> HIDE DEF s, n, w, v, c, i, j
  <2>5. Around(w, c, n) <= IF s > 1 THEN k + 1 ELSE 0
    BY <2>1, <2>2, <2>3, TurnsNear
  <2> QED
    BY <1>3, <2>4, <2>5, Zenon DEF s, n, c
<1>5. ASSUME AroundBy(q, o, k + 1)
      PROVE  \E p \in Tokens : SameWindow(q, p) /\ ByRolled(p, o, k)
  <2> DEFINE Goes(d, v, i, j) ==
               /\ v \in 0 .. (Wide(d) - 1) /\ i \in 0 .. (Side(d) - 1) /\ j \in 0 .. (Side(d) - 1)
               /\ NearerTurn(Window(q)[d], Window(o)[d], Side(d), Wide(d), k, v, i, j)
  <2>1. ASSUME NEW d \in Dims PROVE \E v, i, j : Goes(d, v, i, j)
    <3> DEFINE s == Side(d)
               n == Wide(d)
               w == Window(q)[d]
               c == Window(o)[d]
    <3>1. s \in Nat \ {0} /\ n \in Nat \ {0} /\ w \in 0 .. (n - 1) /\ c \in 0 .. (n - 1)
      BY <1>2, TokenParts
    <3>2. Around(w, c, n) <= IF s > 1 THEN k + 1 ELSE 0
      BY <1>3, <1>5, Zenon DEF AroundBy
    <3> HIDE DEF s, n, w, c
    <3>3. \E v \in 0 .. (n - 1), i \in 0 .. (s - 1), j \in 0 .. (s - 1) :
            NearerTurn(w, c, s, n, k, v, i, j)
      BY <3>1, <3>2, TurnsNearer
    <3> QED
      BY <3>3, Zenon DEF s, n, w, c
  <2> HIDE DEF Goes
  <2> DEFINE V(d) == CHOOSE v : \E i, j : Goes(d, v, i, j)
             I(d) == CHOOSE i : \E j : Goes(d, V(d), i, j)
             J(d) == CHOOSE j : Goes(d, V(d), I(d), j)
  <2>2. ASSUME NEW d \in Dims PROVE Goes(d, V(d), I(d), J(d))
    <3>1. \E i, j : Goes(d, V(d), i, j)
      BY <2>1, Zenon
    <3> HIDE DEF V
    <3>2. \E j : Goes(d, V(d), I(d), j)
      BY <3>1, Zenon
    <3> HIDE DEF I
    <3> QED
      BY <3>2, Zenon
  <2> HIDE DEF V, I, J
  <2> DEFINE winp == [d \in Dims |-> Window(q)[d]]
             inp == [d \in Dims |-> I(d)]
             wink == [d \in Dims |-> V(d)]
             ink == [d \in Dims |-> J(d)]
  <2>3. \A d \in Dims : /\ winp[d] = Window(q)[d] /\ inp[d] = I(d)
                        /\ wink[d] = V(d) /\ ink[d] = J(d)
    BY Zenon
  <2> HIDE DEF winp, inp, wink, ink
  <2>4. \A d \in Dims : /\ winp[d] \in 0 .. (Wide(d) - 1) /\ inp[d] \in 0 .. (Side(d) - 1)
                        /\ wink[d] \in 0 .. (Wide(d) - 1) /\ ink[d] \in 0 .. (Side(d) - 1)
    BY <2>2, <2>3, TokenParts, Zenon DEF Goes
  <2>5. PICK p \in Tokens : \A d \in Dims : Window(p)[d] = winp[d] /\ Inside(p)[d] = inp[d]
    BY <1>1, <2>4, TokenOf
  <2>6. PICK kv \in Tokens : \A d \in Dims : Window(kv)[d] = wink[d] /\ Inside(kv)[d] = ink[d]
    BY <1>1, <2>4, TokenOf
  <2>7. SameWindow(q, p)
    BY <2>3, <2>5, Zenon DEF SameWindow
  <2>8. ASSUME NEW d \in Dims
        PROVE  /\ Rolled(p)[d] = Rolled(kv)[d]
               /\ Around(Window(kv)[d], Window(o)[d], Wide(d)) <= IF Shifts(d) THEN k ELSE 0
    <3>1. NearerTurn(Window(q)[d], Window(o)[d], Side(d), Wide(d), k, V(d), I(d), J(d))
      BY <2>2, Zenon DEF Goes
    <3>2. /\ Window(p)[d] = Window(q)[d] /\ Inside(p)[d] = I(d)
          /\ Window(kv)[d] = V(d) /\ Inside(kv)[d] = J(d)
      BY <2>3, <2>5, <2>6, Zenon
    <3>3. /\ Rolled(p)[d] = Turn(Window(p)[d], Inside(p)[d], Side(d), Wide(d))
          /\ Rolled(kv)[d] = Turn(Window(kv)[d], Inside(kv)[d], Side(d), Wide(d))
      BY RolledTo
    <3>4. Rolled(p)[d] = Rolled(kv)[d]
      BY <3>1, <3>2, <3>3, Zenon DEF NearerTurn
    <3>5. Around(V(d), Window(o)[d], Wide(d)) <= IF Side(d) > 1 THEN k ELSE 0
      BY <3>1, Zenon DEF NearerTurn
    <3> QED
      BY <1>3, <3>2, <3>4, <3>5, Zenon
  <2>9. Rolled(p) = Rolled(kv)
    BY <2>8, RolledAlike, Zenon
  <2>10. AroundBy(kv, o, k)
    BY <2>8, Zenon DEF AroundBy
  <2> QED
    BY <2>7, <2>9, <2>10, Zenon DEF ByRolled
<1>6. ASSUME NEW p \in Tokens, SameWindow(q, p), ByRolled(p, o, k)
      PROVE  AroundBy(q, o, k + 1)
  <2>1. PICK kv \in Tokens : Rolled(p) = Rolled(kv) /\ AroundBy(kv, o, k)
    BY <1>6, Zenon DEF ByRolled
  <2>2. \A d \in Dims : Around(Window(q)[d], Window(o)[d], Wide(d)) <= IF Shifts(d) THEN k + 1 ELSE 0
    BY <1>4, <1>6, <2>1, Zenon
  <2> QED
    BY <2>2, Zenon DEF AroundBy
<1> QED
  BY <1>5, <1>6, Zenon

-----------------------------------------------------------------------------
(* Blocks *)

\* Both attentions of a block.
Passed(pair, X) == Knowing(pair[2], Knowing(pair[1], X))

\* Attending twice to the like of oneself is attending once.
LEMMA KnowingTwice ==
  ASSUME NEW mask, NEW X \in SUBSET Tokens,
         \A q \in Tokens : Attends(mask, q, q),
         \A q, p, kv \in Tokens : Attends(mask, q, p) /\ Attends(mask, p, kv) => Attends(mask, q, kv)
  PROVE  Passed(Both(mask), X) = {q \in Tokens : \E kv \in X : Attends(mask, q, kv)}
<1> DEFINE Y == Knowing(mask, X)
           Z == Knowing(mask, Y)
           A == {q \in Tokens : \E kv \in X : Attends(mask, q, kv)}
<1>1. \A q : q \in Y <=> q \in X \/ (q \in Tokens /\ \E kv \in X : Attends(mask, q, kv))
  BY Zenon DEF Knowing
<1>2. \A q : q \in Z <=> q \in Y \/ (q \in Tokens /\ \E kv \in Y : Attends(mask, q, kv))
  BY Zenon DEF Knowing
<1>3. \A q : q \in A <=> q \in Tokens /\ \E kv \in X : Attends(mask, q, kv)
  BY Zenon
<1>4. Passed(Both(mask), X) = Z
  <2> DEFINE pair == <<mask, mask>>
  <2>1. Both(mask) = pair
    BY Zenon DEF Both
  <2>2. pair[1] = mask /\ pair[2] = mask
    OBVIOUS
  <2> HIDE DEF pair
  <2> QED
    BY <2>1, <2>2, Zenon DEF Passed
<1> HIDE DEF Y, Z, A
<1>5. \A q : q \in Y <=> q \in A
  BY <1>1, <1>3, Zenon
<1>6. \A q : q \in Z <=> q \in A
  BY <1>2, <1>3, <1>5, Zenon
<1>7. Z = A
  BY <1>6, Zenon
<1> QED
  BY <1>4, <1>7, Zenon DEF A

\* Full, within windows, and shifted.
LEMMA KindsOfMasks ==
  ASSUME NEW q \in Tokens, NEW kv \in Tokens, Grid
  PROVE  /\ Attends(Full, q, kv)
         /\ Attends(Chunk, q, kv) <=> SameWindow(q, kv)
         /\ Attends(Swin, q, kv) <=> Rolled(q) = Rolled(kv)
<1>1. Full.kind = "full" /\ Chunk.kind = "windows" /\ Swin.kind = "swin" /\ Chunk.reach = <<0, 0, 0>>
  BY DEF Full, Chunk, Swin
<1>2. "windows" # "full" /\ "windows" # "tokens" /\ "windows" # "swin"
      /\ "swin" # "full" /\ "swin" # "tokens"
  OBVIOUS
<1>3. Attends(Full, q, kv) /\ (Attends(Swin, q, kv) <=> Rolled(q) = Rolled(kv))
      /\ (Attends(Chunk, q, kv) <=> Within(Window(q), Window(kv), <<0, 0, 0>>))
  BY <1>1, <1>2, Zenon DEF Attends
<1>4. ASSUME NEW d \in Dims
      PROVE  Apart(Window(q)[d], Window(kv)[d]) <= <<0, 0, 0>>[d] <=> Window(q)[d] = Window(kv)[d]
  <2> DEFINE a == Window(q)[d]
             b == Window(kv)[d]
             n == Wide(d)
             z == <<0, 0, 0>>[d]
  <2>1. a \in 0 .. (n - 1) /\ b \in 0 .. (n - 1)
    BY TokenParts
  <2>2. n \in Nat \ {0}
    <3>1. grid.t \in Nat \ {0} /\ grid.h \in Nat \ {0} /\ grid.w \in Nat \ {0}
      BY SidesOfGrid
    <3>2. \A x \in Nat \ {0} : x # 0
      OBVIOUS
    <3>3. Filled
      BY <3>1, <3>2, Zenon DEF Filled
    <3> QED
      BY <3>3, SidesAndWidths
  <2>3. z = 0
    BY DEF Dims
  <2> HIDE DEF a, b, n, z
  <2>4. Apart(a, b) <= 0 <=> a = b
    BY <2>1, <2>2 DEF Apart
  <2> QED
    BY <2>3, <2>4, Zenon DEF a, b, z
<1>5. Within(Window(q), Window(kv), <<0, 0, 0>>) <=> SameWindow(q, kv)
  BY <1>4, Zenon DEF Within, SameWindow
<1> QED
  BY <1>3, <1>5, Zenon

\* What is known after a full block.
LEMMA FullPasses ==
  ASSUME Grid, NEW X \in SUBSET Tokens, NEW o \in X
  PROVE  Passed(Both(Full), X) = Tokens
<1>1. \A q, kv \in Tokens : Attends(Full, q, kv)
  BY KindsOfMasks, Zenon
<1>2. Passed(Both(Full), X) = {q \in Tokens : \E kv \in X : Attends(Full, q, kv)}
  <2> DEFINE P == Passed(Both(Full), X)
             A == {q \in Tokens : \E kv \in X : Attends(Full, q, kv)}
             mask == Full
  <2>1. \A q \in Tokens : Attends(mask, q, q)
    BY <1>1, Zenon
  <2>2. \A q, p, kv \in Tokens : Attends(mask, q, p) /\ Attends(mask, p, kv) => Attends(mask, q, kv)
    BY <1>1, Zenon
  <2> HIDE DEF mask
  <2>3. Passed(Both(mask), X) = {q \in Tokens : \E kv \in X : Attends(mask, q, kv)}
    BY <2>1, <2>2, KnowingTwice
  <2> QED
    BY <2>3, Zenon DEF mask
<1>3. o \in Tokens
  OBVIOUS
<1>4. \A q : (q \in Tokens /\ \E kv \in X : Attends(Full, q, kv)) <=> q \in Tokens
  BY <1>1, <1>3, Zenon
<1> QED
  BY <1>2, <1>4, Zenon

\* The first block of swin: the window.
LEMMA WindowPasses ==
  ASSUME Grid, NEW o \in Tokens
  PROVE  Passed(Both(Chunk), {o}) = {q \in Tokens : AroundBy(q, o, 0)}
<1> DEFINE mask == Chunk
           X == {o}
<1>1. \A q, kv \in Tokens : Attends(mask, q, kv) <=> SameWindow(q, kv)
  BY KindsOfMasks, Zenon
<1>2. X \in SUBSET Tokens
  OBVIOUS
<1>3. \A q \in Tokens : Attends(mask, q, q)
  BY <1>1, Zenon DEF SameWindow
<1>4. \A q, p, kv \in Tokens : Attends(mask, q, p) /\ Attends(mask, p, kv) => Attends(mask, q, kv)
  <2>1. \A q, p, kv : SameWindow(q, p) /\ SameWindow(p, kv) => SameWindow(q, kv)
    BY Zenon DEF SameWindow
  <2> HIDE DEF mask
  <2> QED
    BY <1>1, <2>1, Zenon
<1> HIDE DEF mask
<1>5. Passed(Both(mask), X) = {q \in Tokens : \E kv \in X : Attends(mask, q, kv)}
  <2> HIDE DEF X
  <2> QED
    BY <1>2, <1>3, <1>4, KnowingTwice
<1>6. ASSUME NEW q \in Tokens PROVE SameWindow(q, o) <=> AroundBy(q, o, 0)
  <2>1. ASSUME NEW d \in Dims
        PROVE  Window(q)[d] = Window(o)[d]
                 <=> Around(Window(q)[d], Window(o)[d], Wide(d)) <= IF Shifts(d) THEN 0 ELSE 0
    <3> DEFINE a == Window(q)[d]
               b == Window(o)[d]
               n == Wide(d)
               shifts == Shifts(d)
    <3>1. a \in 0 .. (n - 1) /\ b \in 0 .. (n - 1)
      BY TokenParts
    <3>2. n \in Nat \ {0}
      <4>1. grid.t \in Nat \ {0} /\ grid.h \in Nat \ {0} /\ grid.w \in Nat \ {0}
        BY SidesOfGrid
      <4>2. \A x \in Nat \ {0} : x # 0
        OBVIOUS
      <4>3. Filled
        BY <4>1, <4>2, Zenon DEF Filled
      <4> QED
        BY <4>3, SidesAndWidths
    <3> HIDE DEF a, b, n, shifts
    <3>3. a = b <=> Around(a, b, n) <= 0
      BY <3>1, <3>2 DEF Around, Apart
    <3>4. (IF shifts THEN 0 ELSE 0) = 0
      OBVIOUS
    <3> QED
      BY <3>3, <3>4, Zenon DEF a, b, n, shifts
  <2> QED
    BY <2>1, Zenon DEF SameWindow, AroundBy
<1>7. \A q : (q \in Tokens /\ \E kv \in X : Attends(mask, q, kv)) <=> (q \in Tokens /\ AroundBy(q, o, 0))
  BY <1>1, <1>6, Zenon
<1>8. \A q : q \in Passed(Both(mask), X) <=> q \in {p \in Tokens : AroundBy(p, o, 0)}
  BY <1>5, <1>7, Zenon
<1> QED
  BY <1>8, Zenon DEF mask

\* The other blocks of swin that are not shifted.
LEMMA WindowPassesOn ==
  ASSUME Grid, NEW o \in Tokens, NEW k \in Nat
  PROVE  Passed(Both(Chunk), {q \in Tokens : ByRolled(q, o, k)})
           = {q \in Tokens : AroundBy(q, o, k + 1)}
<1> DEFINE mask == Chunk
           X == {q \in Tokens : ByRolled(q, o, k)}
<1>1. \A q, kv \in Tokens : Attends(mask, q, kv) <=> SameWindow(q, kv)
  BY KindsOfMasks, Zenon
<1>2. X \in SUBSET Tokens /\ \A q : q \in X <=> q \in Tokens /\ ByRolled(q, o, k)
  BY Zenon
<1>3. \A q \in Tokens : Attends(mask, q, q)
  BY <1>1, Zenon DEF SameWindow
<1>4. \A q, p, kv \in Tokens : Attends(mask, q, p) /\ Attends(mask, p, kv) => Attends(mask, q, kv)
  <2>1. \A q, p, kv : SameWindow(q, p) /\ SameWindow(p, kv) => SameWindow(q, kv)
    BY Zenon DEF SameWindow
  <2> HIDE DEF mask
  <2> QED
    BY <1>1, <2>1, Zenon
<1> HIDE DEF mask, X
<1>5. Passed(Both(mask), X) = {q \in Tokens : \E kv \in X : Attends(mask, q, kv)}
  BY <1>2, <1>3, <1>4, KnowingTwice
<1>6. \A q \in Tokens : (\E p \in Tokens : SameWindow(q, p) /\ ByRolled(p, o, k)) <=> AroundBy(q, o, k + 1)
  BY ShiftedOn, Zenon
<1>7. \A q : (q \in Tokens /\ \E kv \in X : Attends(mask, q, kv))
               <=> (q \in Tokens /\ AroundBy(q, o, k + 1))
  BY <1>1, <1>2, <1>6, Zenon
<1>8. \A q : q \in Passed(Both(mask), X) <=> q \in {p \in Tokens : AroundBy(p, o, k + 1)}
  BY <1>5, <1>7, Zenon
<1> QED
  BY <1>8, Zenon DEF mask, X

\* The shifted blocks.
LEMMA ShiftedPasses ==
  ASSUME Grid, NEW o \in Tokens, NEW k \in Nat
  PROVE  Passed(Both(Swin), {q \in Tokens : AroundBy(q, o, k)}) = {q \in Tokens : ByRolled(q, o, k)}
<1> DEFINE mask == Swin
           X == {q \in Tokens : AroundBy(q, o, k)}
<1>1. \A q, kv \in Tokens : Attends(mask, q, kv) <=> Rolled(q) = Rolled(kv)
  BY KindsOfMasks, Zenon
<1>2. X \in SUBSET Tokens /\ \A q : q \in X <=> q \in Tokens /\ AroundBy(q, o, k)
  BY Zenon
<1>3. \A q \in Tokens : Attends(mask, q, q)
  BY <1>1, Zenon
<1>4. \A q, p, kv \in Tokens : Attends(mask, q, p) /\ Attends(mask, p, kv) => Attends(mask, q, kv)
  BY <1>1, Zenon
<1> HIDE DEF mask, X
<1>5. Passed(Both(mask), X) = {q \in Tokens : \E kv \in X : Attends(mask, q, kv)}
  BY <1>2, <1>3, <1>4, KnowingTwice
<1>7. \A q : (q \in Tokens /\ \E kv \in X : Attends(mask, q, kv))
               <=> (q \in Tokens /\ ByRolled(q, o, k))
  BY <1>1, <1>2, Zenon DEF ByRolled
<1>8. \A q : q \in Passed(Both(mask), X) <=> q \in {p \in Tokens : ByRolled(p, o, k)}
  BY <1>5, <1>7, Zenon
<1> QED
  BY <1>8, Zenon DEF mask, X

\* What is known is kept when the grid is.
LEMMA GridKept ==
  ASSUME grid' = grid
  PROVE  /\ Tokens' = Tokens
         /\ \A type, blocks, d, o : Known(type, blocks, d, o)' = Known(type, blocks, d, o)
<1>1. Tokens' = Tokens
  BY Zenon DEF Tokens
<1>2. \A q : Window(q)' = Window(q)
  BY Zenon DEF Window
<1>3. \A q : Place(q)' = Place(q)
  BY <1>2, Zenon DEF Place
<1>4. \A d : Wide(d)' = Wide(d)
  BY Zenon DEF Wide
<1>5. Extents' = Extents
  BY Zenon DEF Extents
<1>6. \A q : Rolled(q)' = Rolled(q)
  <2> SUFFICES ASSUME NEW q PROVE Rolled(q)' = Rolled(q)
    BY Zenon
  <2> DEFINE p == Place(q)
             e == Extents
             p_ == Place(q)'
             e_ == Extents'
             shift == <<T \div 2, H \div 2, W \div 2>>
             side == <<T, H, W>>
  <2>1. p_ = p /\ e_ = e
    BY <1>3, <1>5, Zenon
  <2>2. /\ Rolled(q) = [d \in Dims |-> ((p[d] + shift[d]) % e[d]) \div side[d]]
        /\ Rolled(q)' = [d \in Dims |-> ((p_[d] + shift[d]) % e_[d]) \div side[d]]
    BY Zenon DEF Rolled
  <2> HIDE DEF p, e, p_, e_, shift, side
  <2> QED
    BY <2>1, <2>2, Zenon
<1>7. WindowsOf' = WindowsOf /\ PlacesOf' = PlacesOf
  <2> DEFINE t == Tokens
             t_ == Tokens'
             wn(q) == Window(q)
             wn_(q) == Window(q)'
             pl(q) == Place(q)
             pl_(q) == Place(q)'
  <2>1. /\ WindowsOf = [q \in t |-> wn(q)] /\ WindowsOf' = [q \in t_ |-> wn_(q)]
        /\ PlacesOf = [q \in t |-> pl(q)] /\ PlacesOf' = [q \in t_ |-> pl_(q)]
    BY Zenon DEF WindowsOf, PlacesOf
  <2>2. t_ = t /\ (\A q : wn_(q) = wn(q)) /\ (\A q : pl_(q) = pl(q))
    BY <1>1, <1>2, <1>3, Zenon
  <2> HIDE DEF t, t_, wn, wn_, pl, pl_
  <2> QED
    BY <2>1, <2>2
<1>8. \A q, o, k : AroundBy(q, o, k)' <=> AroundBy(q, o, k)
  <2> SUFFICES ASSUME NEW q, NEW o, NEW k PROVE AroundBy(q, o, k)' <=> AroundBy(q, o, k)
    BY Zenon
  <2>1. \A d : Around(Window(q)[d], Window(o)[d], Wide(d))'
                 = Around(Window(q)[d], Window(o)[d], Wide(d))
    BY <1>2, <1>4, Zenon DEF Around, Apart
  <2> QED
    BY <2>1, Zenon DEF AroundBy
<1>9. \A q, o, k : ByRolled(q, o, k)' <=> ByRolled(q, o, k)
  BY <1>1, <1>6, <1>8, Zenon DEF ByRolled
<1>10. \A at, o, R : NearTo(at, o, R)' = NearTo(at, o, R)
  <2> SUFFICES ASSUME NEW at, NEW o, NEW R PROVE NearTo(at, o, R)' = NearTo(at, o, R)
    BY Zenon
  <2>1. \A q : q \in NearTo(at, o, R)' <=> q \in NearTo(at, o, R)
    BY <1>1, Zenon DEF NearTo
  <2> QED
    BY <2>1, Zenon
<1>11. ASSUME NEW type, NEW blocks, NEW d, NEW o
       PROVE  Known(type, blocks, d, o)' = Known(type, blocks, d, o)
  <2> DEFINE k1 == (d - 1) \div 2
             k2 == (d - 2) \div 2
             A == {q \in Tokens : AroundBy(q, o, k1)}
             B == {q \in Tokens : ByRolled(q, o, k2)}
             R == ReachAt(type, blocks, d)
             C == NearTo(PlacesOf, o, R)
             D == NearTo(WindowsOf, o, R)
             A_ == {q \in Tokens' : AroundBy(q, o, k1)'}
             B_ == {q \in Tokens' : ByRolled(q, o, k2)'}
             C_ == NearTo(PlacesOf, o, R)'
             D_ == NearTo(WindowsOf, o, R)'
  <2>1. A_ = A
    <3>1. \A q : q \in A_ <=> q \in A
      BY <1>1, <1>8, Zenon
    <3> QED
      BY <3>1, Zenon
  <2>2. B_ = B
    <3>1. \A q : q \in B_ <=> q \in B
      BY <1>1, <1>9, Zenon
    <3> QED
      BY <3>1, Zenon
  <2>3. C_ = C /\ D_ = D
    BY <1>7, <1>10, Zenon
  <2>4. Known(type, blocks, d, o)
          = IF d = 0 THEN {o} ELSE IF type = "full" THEN Tokens
            ELSE IF type = "swin" THEN IF d % 2 = 1 THEN A ELSE B
            ELSE IF type = "slide_window_4x16x16" THEN C ELSE D
    BY Zenon DEF Known, KnowsAfter
  <2>5. Known(type, blocks, d, o)'
          = IF d = 0 THEN {o} ELSE IF type = "full" THEN Tokens'
            ELSE IF type = "swin" THEN IF d % 2 = 1 THEN A_ ELSE B_
            ELSE IF type = "slide_window_4x16x16" THEN C_ ELSE D_
    BY Zenon DEF Known, KnowsAfter
  <2> HIDE DEF A, B, C, D, A_, B_, C_, D_
  <2> QED
    BY <1>1, <2>1, <2>2, <2>3, <2>4, <2>5
<1> QED
  BY <1>1, <1>11, Zenon

\* Block d + 1 has its masks, and what is known after it comes of them.
Passes(type, blocks, d, o) ==
  LET ms == prepare_attention_mask(type, blocks)
  IN  /\ Len(ms) = blocks
      /\ Passed(ms[d + 1], Known(type, blocks, d, o)) = Known(type, blocks, d + 1, o)

\* Blocks that slide.
LEMMA SlidersPass ==
  ASSUME Grid, Filled, NEW o \in Tokens,
         NEW type \in Types, type \notin {"full", "swin"}, NEW blocks \in Nat \ {0},
         ~ DividesByZero(type, blocks), NEW d \in 0 .. (blocks - 1)
  PROVE  Passes(type, blocks, d, o)
<1> DEFINE ms == prepare_attention_mask(type, blocks)
           kind == KindFor(type)
           at == IF kind = "tokens" THEN PlacesOf ELSE WindowsOf
           len == IF kind = "tokens" THEN Extents ELSE Widths
           pair == ms[d + 1]
           R == ReachAt(type, blocks, d)
           S == ReachAt(type, blocks, d + 1)
           R0 == ReachAt(type, blocks, 0)
           X == Known(type, blocks, d, o)
           Y == Known(type, blocks, d + 1, o)
<1>1. Grows(ms, type, blocks, d)
  BY TypeGrows
<1>2. Len(ms) = blocks /\ Adds(pair, kind, R, S) /\ \A x \in Dims : R0[x] = 0
  BY <1>1, Zenon DEF Grows
<1>3. type # "full" /\ type # "swin" /\ d + 1 # 0 /\ d \in Nat /\ (d = 0 \/ d # 0)
  OBVIOUS
<1>4. kind = "tokens" \/ kind = "windows"
  BY DEF KindFor
<1>5. \A e : KnowsAfter(type, blocks, e, o) = NearTo(at, o, ReachAt(type, blocks, e))
  <2>1. CASE type = "slide_window_4x16x16"
    <3>1. kind = "tokens"
      BY <2>1, Zenon DEF KindFor
    <3> QED
      BY <1>3, <2>1, <3>1, Zenon DEF KnowsAfter
  <2>2. CASE type # "slide_window_4x16x16"
    <3>1. kind = "windows"
      BY <2>2, Zenon DEF KindFor
    <3>2. kind # "tokens"
      BY <3>1
    <3> QED
      BY <1>3, <2>2, <3>2, Zenon DEF KnowsAfter
  <2> QED
    BY <2>1, <2>2, Zenon
<1>6. X = (IF d = 0 THEN {o} ELSE NearTo(at, o, R)) /\ Y = NearTo(at, o, S)
  BY <1>3, <1>5, Zenon DEF Known
<1>7. d = 0 => \A x \in Dims : R[x] = 0
  BY <1>2, Zenon
<1>8. Fills(at, len)
  BY <1>4, WindowsFill, PlacesFill, Zenon
<1> DEFINE mask1 == pair[1]
           mask2 == pair[2]
<1>9. /\ mask1.kind = kind /\ mask2.kind = kind /\ Reaching(mask1.reach) /\ Reaching(mask2.reach)
      /\ Reaching(R) /\ \A x \in Dims : S[x] = R[x] + mask1.reach[x] + mask2.reach[x]
  BY <1>2, Zenon DEF Adds
<1> HIDE DEF R, S, X, Y, mask1, mask2, kind, ms, len, R0, pair
<1>10. Slider(at, mask1) /\ Slider(at, mask2)
  <2>1. kind = "windows" => kind # "tokens"
    OBVIOUS
  <2>2. CASE kind = "tokens"
    <3>1. at = PlacesOf
      BY <2>2, Zenon
    <3> QED
      BY <1>9, <2>2, <3>1, MasksSlide, Zenon
  <2>3. CASE kind = "windows"
    <3>1. at = WindowsOf
      BY <2>1, <2>3, Zenon
    <3> QED
      BY <1>9, <2>3, <3>1, MasksSlide, Zenon
  <2> QED
    BY <1>4, <2>2, <2>3, Zenon
<1> HIDE DEF at
<1>11. X = NearTo(at, o, R) \/ (X = {o} /\ \A x \in Dims : R[x] = 0)
  BY <1>6, <1>7, Zenon
<1>12. Knowing(mask2, Knowing(mask1, X)) = NearTo(at, o, S)
  BY <1>8, <1>9, <1>10, <1>11, TwoAttentions
<1>13. Passed(pair, X) = Y
  BY <1>6, <1>12, Zenon DEF Passed, mask1, mask2
<1> QED
  BY <1>2, <1>13, Zenon DEF Passes, pair, X, Y, ms

\* Full blocks.
LEMMA FullBlocksPass ==
  ASSUME Grid, NEW o \in Tokens, NEW blocks \in Nat \ {0}, NEW d \in 0 .. (blocks - 1)
  PROVE  Passes("full", blocks, d, o)
<1> DEFINE ms == prepare_attention_mask("full", blocks)
           X == Known("full", blocks, d, o)
           Y == Known("full", blocks, d + 1, o)
           pair == Both(Full)
<1>0. ms = _full_attention_mask(blocks)
  BY DEF prepare_attention_mask, SlideChunkTypes
<1>1. ms = Times(blocks, pair)
  BY <1>0, Zenon DEF _full_attention_mask
<1>2. Len(ms) = blocks /\ ms[d + 1] = pair
  <2>1. ms = [b \in 1 .. blocks |-> pair]
    BY <1>1, Zenon DEF Times
  <2> HIDE DEF pair, ms
  <2> QED
    BY <2>1
<1>3. d + 1 # 0
  OBVIOUS
<1>4. X = (IF d = 0 THEN {o} ELSE Tokens) /\ Y = Tokens
  BY <1>3, Zenon DEF Known, KnowsAfter
<1>5. X \in SUBSET Tokens /\ o \in X
  <2> HIDE DEF X
  <2>1. CASE d = 0
    <3>1. X = {o}
      BY <1>4, <2>1
    <3> QED
      BY <3>1
  <2>2. CASE d # 0
    <3>1. X = Tokens
      BY <1>4, <2>2
    <3> QED
      BY <3>1
  <2> QED
    BY <2>1, <2>2
<1> HIDE DEF X
<1>6. Passed(pair, X) = Tokens
  BY <1>5, FullPasses
<1>7. Passed(ms[d + 1], X) = Y
  BY <1>2, <1>4, <1>6, Zenon
<1> QED
  BY <1>2, <1>7, Zenon DEF Passes, X

\* Blocks of shifted windows.
LEMMA SwinBlocksPass ==
  ASSUME Grid, NEW o \in Tokens, NEW blocks \in Nat \ {0}, NEW d \in 0 .. (blocks - 1)
  PROVE  Passes("swin", blocks, d, o)
<1> DEFINE ms == prepare_attention_mask("swin", blocks)
           X == Known("swin", blocks, d, o)
           Y == Known("swin", blocks, d + 1, o)
           a == Both(Chunk)
           b == Both(Swin)
<1>1. ms = _swin_attention_mask(blocks)
  BY DEF prepare_attention_mask, SlideChunkTypes
<1>2. ms = [k \in 1 .. blocks |-> IF (k - 1) % 2 = 0 THEN a ELSE b]
  <2> DEFINE g(k) == IF (k - 1) % 2 = 0 THEN a ELSE b
             f(k) == Both(IF (k - 1) % 2 = 0 THEN Chunk ELSE Swin)
  <2>1. \A k : f(k) = g(k)
    <3> SUFFICES ASSUME NEW k PROVE f(k) = g(k)
      BY Zenon
    <3>1. CASE (k - 1) % 2 = 0
      BY <3>1, Zenon
    <3>2. CASE (k - 1) % 2 # 0
      BY <3>2, Zenon
    <3> QED
      BY <3>1, <3>2, Zenon
  <2>2. ms = [k \in 1 .. blocks |-> f(k)]
    BY <1>1, Zenon DEF _swin_attention_mask
  <2> HIDE DEF f, g, ms
  <2>3. ms = [k \in 1 .. blocks |-> g(k)]
    BY <2>1, <2>2
  <2> QED
    BY <2>3, Zenon DEF g
<1> HIDE DEF a, b, ms
<1>3. Len(ms) = blocks /\ ms[d + 1] = IF d % 2 = 0 THEN a ELSE b
  <2>1. Len(ms) = blocks /\ ms[d + 1] = IF ((d + 1) - 1) % 2 = 0 THEN a ELSE b
    BY <1>2
  <2>2. (d + 1) - 1 = d
    OBVIOUS
  <2> QED
    BY <2>1, <2>2, Zenon
<1>4. "swin" # "full"
  OBVIOUS
<1>5. \A e : Known("swin", blocks, e, o)
               = IF e = 0 THEN {o}
                 ELSE IF e % 2 = 1 THEN {q \in Tokens : AroundBy(q, o, (e - 1) \div 2)}
                 ELSE {q \in Tokens : ByRolled(q, o, (e - 2) \div 2)}
  BY <1>4, Zenon DEF Known, KnowsAfter
<1>6. ASSUME d = 0 PROVE Passed(ms[d + 1], X) = Y
  <2>1. /\ d % 2 = 0 /\ (d + 1) % 2 = 1 /\ d + 1 # 0 /\ ((d + 1) - 1) \div 2 = 0
    BY <1>6
  <2>2. Passed(a, {o}) = {q \in Tokens : AroundBy(q, o, 0)}
    BY WindowPasses, Zenon DEF a
  <2>3. X = {o} /\ Y = {q \in Tokens : AroundBy(q, o, 0)}
    BY <1>5, <1>6, <2>1, Zenon
  <2>4. ms[d + 1] = a
    BY <1>3, <2>1, Zenon
  <2> QED
    BY <2>2, <2>3, <2>4, Zenon
<1>7. ASSUME d # 0, d % 2 = 0 PROVE Passed(ms[d + 1], X) = Y
  <2> DEFINE k == (d - 2) \div 2
  <2>1. /\ d % 2 # 1 /\ (d + 1) % 2 = 1 /\ d + 1 # 0 /\ ((d + 1) - 1) \div 2 = k + 1
        /\ k \in Nat
    BY <1>7
  <2>2. Passed(a, {q \in Tokens : ByRolled(q, o, k)}) = {q \in Tokens : AroundBy(q, o, k + 1)}
    BY <2>1, WindowPassesOn DEF a
  <2>3. X = {q \in Tokens : ByRolled(q, o, k)} /\ Y = {q \in Tokens : AroundBy(q, o, k + 1)}
    BY <1>5, <1>7, <2>1, Zenon
  <2>4. ms[d + 1] = a
    BY <1>3, <1>7, Zenon
  <2> QED
    BY <2>2, <2>3, <2>4, Zenon
<1>8. ASSUME d # 0, d % 2 # 0 PROVE Passed(ms[d + 1], X) = Y
  <2> DEFINE k == (d - 1) \div 2
  <2>1. /\ d % 2 = 1 /\ (d + 1) % 2 # 1 /\ d + 1 # 0 /\ ((d + 1) - 2) \div 2 = k /\ k \in Nat
    BY <1>8
  <2>2. Passed(b, {q \in Tokens : AroundBy(q, o, k)}) = {q \in Tokens : ByRolled(q, o, k)}
    BY <2>1, ShiftedPasses DEF b
  <2>3. X = {q \in Tokens : AroundBy(q, o, k)} /\ Y = {q \in Tokens : ByRolled(q, o, k)}
    BY <1>5, <1>8, <2>1, Zenon
  <2>4. ms[d + 1] = b
    BY <1>3, <1>8, Zenon
  <2> QED
    BY <2>2, <2>3, <2>4, Zenon
<1>9. Passed(ms[d + 1], X) = Y
  BY <1>6, <1>7, <1>8, Zenon
<1> QED
  BY <1>3, <1>9, Zenon DEF Passes, ms

\* Every block.
LEMMA BlocksPass ==
  ASSUME Grid, Filled, NEW o \in Tokens, NEW type \in Types, NEW blocks \in Nat \ {0},
         ~ DividesByZero(type, blocks), NEW d \in 0 .. (blocks - 1)
  PROVE  Passes(type, blocks, d, o)
<1>1. CASE type = "full"
  BY <1>1, FullBlocksPass, Zenon
<1>2. CASE type = "swin"
  BY <1>2, SwinBlocksPass, Zenon
<1>3. CASE type # "full" /\ type # "swin"
  <2>1. type \notin {"full", "swin"}
    BY <1>3
  <2> QED
    BY <2>1, SlidersPass
<1> QED
  BY <1>1, <1>2, <1>3, Zenon

-----------------------------------------------------------------------------
\* What the masks come to is what Reach says, without them.
LEMMA ReachIs ==
  ASSUME model.type \in Types, model.type \notin {"full", "swin"}
  PROVE  Reach = ReachAt(model.type, model.blocks, done)
<1> DEFINE type == model.type
           blocks == model.blocks
           G == Reach = ReachAt(type, blocks, done)
<1>1. \A num : Slides(num) = SlidesAt(blocks, num, done)
  BY Zenon DEF Slides, SlidesAt
<1>2. \A num, t, h_, w : FarTo(num, t, h_, w) = <<num * t, num * h_, num * w>>
  BY Zenon DEF FarTo
<1> HIDE DEF G
<1>3. ASSUME type = "slide_chunk" PROVE G
  <2>1. Reach = FarTo(Slides(3), 1, 1, 1)
    BY <1>3 DEF Reach, FarTo
  <2>2. ReachAt(type, blocks, done) = FarTo(SlidesAt(blocks, 3, done), 1, 1, 1)
    BY <1>3 DEF ReachAt
  <2> HIDE DEF type, blocks
  <2> QED
    BY <1>1, <2>1, <2>2, Zenon DEF G
<1>4. ASSUME type = "slide_chunk_6" PROVE G
  <2>1. Reach = FarTo(Slides(6), 1, 1, 1)
    BY <1>4 DEF Reach, FarTo
  <2>2. ReachAt(type, blocks, done) = FarTo(SlidesAt(blocks, 6, done), 1, 1, 1)
    BY <1>4 DEF ReachAt
  <2> HIDE DEF type, blocks
  <2> QED
    BY <1>1, <2>1, <2>2, Zenon DEF G
<1>5. ASSUME type = "slide_chunk_all" PROVE G
  <2>1. Reach = FarTo(done, 1, 1, 1)
    BY <1>5 DEF Reach, FarTo
  <2>2. ReachAt(type, blocks, done) = FarTo(done, 1, 1, 1)
    BY <1>5 DEF ReachAt
  <2> HIDE DEF type, blocks
  <2> QED
    BY <1>1, <2>1, <2>2, Zenon DEF G
<1>6. ASSUME type = "slide_chunk_half_block" PROVE G
  <2>1. Reach = FarTo(2 * Slides(blocks \div 2), 1, 1, 1)
    BY <1>6 DEF Reach, FarTo
  <2>2. ReachAt(type, blocks, done) = FarTo(2 * SlidesAt(blocks, blocks \div 2, done), 1, 1, 1)
    BY <1>6 DEF ReachAt
  <2> HIDE DEF type, blocks
  <2> QED
    BY <1>1, <2>1, <2>2, Zenon DEF G
<1>7. ASSUME type = "slide_chunk_all_block" PROVE G
  <2>1. Reach = FarTo(2 * done, 1, 1, 1)
    BY <1>7 DEF Reach, FarTo
  <2>2. ReachAt(type, blocks, done) = FarTo(2 * done, 1, 1, 1)
    BY <1>7 DEF ReachAt
  <2> HIDE DEF type, blocks
  <2> QED
    BY <1>1, <2>1, <2>2, Zenon DEF G
<1>8. ASSUME type = "slide_chunk_all_block_2x1x1" PROVE G
  <2>1. Reach = FarTo(2 * done, 2, 1, 1)
    BY <1>8 DEF Reach, FarTo
  <2>2. ReachAt(type, blocks, done) = FarTo(2 * done, 2, 1, 1)
    BY <1>8 DEF ReachAt
  <2> HIDE DEF type, blocks
  <2> QED
    BY <1>1, <2>1, <2>2, Zenon DEF G
<1>9. ASSUME type = "slide_chunk_all_block_2x0x0" PROVE G
  <2>1. Reach = FarTo(2 * done, 2, 0, 0)
    BY <1>9 DEF Reach, FarTo
  <2>2. ReachAt(type, blocks, done) = FarTo(2 * done, 2, 0, 0)
    BY <1>9 DEF ReachAt
  <2> HIDE DEF type, blocks
  <2> QED
    BY <1>1, <2>1, <2>2, Zenon DEF G
<1>10. ASSUME type = "slide_window_4x16x16" PROVE G
  <2>1. Reach = FarTo(2 * done, 4, 16, 16)
    BY <1>10 DEF Reach, FarTo
  <2>2. ReachAt(type, blocks, done) = FarTo(2 * done, 4, 16, 16)
    BY <1>10 DEF ReachAt
  <2> HIDE DEF type, blocks
  <2> QED
    BY <1>1, <2>1, <2>2, Zenon DEF G
<1>11. ASSUME type = "slide_chunk_bottleneck" PROVE G
  <2> DEFINE F(u, x) == 2 * (done - u) + 2 * u * <<2, 8, 8>>[x]
  <2>1. Outer = WideUpTo(blocks, done)
    BY Zenon DEF Outer, WideUpTo, IsWide, OthersOf
  <2>2. Reach = [x \in Dims |-> F(Outer, x)]
    BY <1>11 DEF Reach
  <2>3. ReachAt(type, blocks, done) = ReachOfBottleneck(blocks, done)
    BY <1>11 DEF ReachAt
  <2>4. ReachOfBottleneck(blocks, done) = [x \in Dims |-> F(WideUpTo(blocks, done), x)]
    BY Zenon DEF ReachOfBottleneck
  <2> HIDE DEF F, type, blocks
  <2> QED
    BY <2>1, <2>2, <2>3, <2>4, Zenon DEF G
<1>12. \/ type = "slide_chunk" \/ type = "slide_chunk_6" \/ type = "slide_chunk_all"
       \/ type = "slide_chunk_half_block" \/ type = "slide_chunk_all_block"
       \/ type = "slide_chunk_all_block_2x1x1" \/ type = "slide_chunk_all_block_2x0x0"
       \/ type = "slide_chunk_bottleneck" \/ type = "slide_window_4x16x16"
  BY DEF Types, SlideChunkTypes
<1>13. G
  BY <1>3, <1>4, <1>5, <1>6, <1>7, <1>8, <1>9, <1>10, <1>11, <1>12, Zenon
<1> QED
  BY <1>13, Zenon DEF G

\* A token is known as far as Knows says, but after shifted blocks.
LEMMA KnownIsKnows ==
  ASSUME AttnInv, model # NoModel, ~ (model.type = "swin" /\ done > 0 /\ done % 2 = 0)
  PROVE  known = {q \in Tokens : Knows(q)}
<1> DEFINE type == model.type
           blocks == model.blocks
           K == {q \in Tokens : Knows(q)}
<1>1. /\ type \in Types /\ done \in Nat /\ origin \in Tokens
      /\ known = Known(type, blocks, done, origin)
  <2>1. /\ model \in [type : Types, blocks : Nat \ {0}]
        /\ done \in 0 .. blocks /\ origin \in Tokens
        /\ known = Known(type, blocks, done, origin)
    BY Zenon DEF AttnInv
  <2>2. type \in Types /\ blocks \in Nat \ {0}
    BY <2>1
  <2> HIDE DEF type, blocks
  <2>3. done \in Nat
    BY <2>1, <2>2
  <2> QED
    BY <2>1, <2>2, <2>3, Zenon
<1>2. \A q : q \in K <=> q \in Tokens /\ Knows(q)
  BY Zenon
<1> HIDE DEF K
<1>3. ASSUME done = 0 PROVE \A q : q \in known <=> q \in K
  <2>1. \A q : q \in known <=> q = origin
    BY <1>1, <1>3, Zenon DEF Known
  <2>2. \A q : Knows(q) <=> q = origin
    BY <1>3, Zenon DEF Knows
  <2> QED
    BY <1>1, <1>2, <2>1, <2>2, Zenon
<1>4. ASSUME done # 0 PROVE known = KnowsAfter(type, blocks, done, origin)
  BY <1>1, <1>4, Zenon DEF Known
<1>5. ASSUME done # 0, type = "full" PROVE \A q : q \in known <=> q \in K
  <2>1. \A q : Knows(q)
    BY <1>5 DEF Knows
  <2>2. known = Tokens
    BY <1>4, <1>5, Zenon DEF KnowsAfter
  <2> QED
    BY <1>2, <2>1, <2>2, Zenon
<1>6. ASSUME done # 0, type = "swin" PROVE \A q : q \in known <=> q \in K
  <2> DEFINE k == (done - 1) \div 2
             F(q) == \A d \in Dims :
                       Around(Window(q)[d], Window(origin)[d], <<grid.t, grid.h, grid.w>>[d])
                         <= IF Shifts(d) THEN k ELSE 0
  <2>1. ASSUME NEW q PROVE Knows(q) <=> F(q)
    <3> HIDE DEF F
    <3>1. "swin" # "full" /\ "swin" # "slide_window_4x16x16"
      OBVIOUS
    <3>2. Knows(q) <=> F(q)
      BY <1>6 DEF Knows, F
    <3> QED
      BY <3>2
  <2>2. \A q : F(q) <=> AroundBy(q, origin, k)
    BY Zenon DEF AroundBy, Wide
  <2>3. done % 2 = 1
    BY <1>1, <1>6
  <2>4. type # "full"
    BY <1>6
  <2>5. known = {q \in Tokens : AroundBy(q, origin, k)}
    BY <1>4, <1>6, <2>3, <2>4, Zenon DEF KnowsAfter
  <2> HIDE DEF F, k
  <2> QED
    BY <1>2, <2>1, <2>2, <2>5, Zenon
<1>7. ASSUME done # 0, type = "slide_window_4x16x16" PROVE \A q : q \in known <=> q \in K
  <2>1. type \notin {"full", "swin"} /\ type # "full" /\ type # "swin"
    BY <1>7
  <2>2. Reach = ReachAt(type, blocks, done)
    BY <1>1, <2>1, ReachIs
  <2>3. \A q : Knows(q) <=> Within(Place(q), Place(origin), Reach)
    BY <1>7 DEF Knows
  <2>4. known = NearTo(PlacesOf, origin, Reach)
    BY <1>4, <1>7, <2>1, <2>2, Zenon DEF KnowsAfter
  <2>5. \A q \in Tokens : PlacesOf[q] = Place(q)
    BY Zenon DEF PlacesOf
  <2>6. \A q : q \in known <=> q \in Tokens /\ Within(PlacesOf[q], PlacesOf[origin], Reach)
    BY <2>4, Zenon DEF NearTo
  <2> QED
    BY <1>1, <1>2, <2>3, <2>5, <2>6, Zenon
<1>8. ASSUME done # 0, type \notin {"full", "swin", "slide_window_4x16x16"}
      PROVE  \A q : q \in known <=> q \in K
  <2>1. /\ type \notin {"full", "swin"} /\ type # "full" /\ type # "swin"
        /\ type # "slide_window_4x16x16"
    BY <1>8
  <2>2. Reach = ReachAt(type, blocks, done)
    BY <1>1, <2>1, ReachIs
  <2>3. \A q : Knows(q) <=> Within(Window(q), Window(origin), Reach)
    BY <1>8 DEF Knows
  <2>4. known = NearTo(WindowsOf, origin, Reach)
    BY <1>4, <1>8, <2>1, <2>2, Zenon DEF KnowsAfter
  <2>5. \A q \in Tokens : WindowsOf[q] = Window(q)
    BY Zenon DEF WindowsOf
  <2>6. \A q : q \in known <=> q \in Tokens /\ Within(WindowsOf[q], WindowsOf[origin], Reach)
    BY <2>4, Zenon DEF NearTo
  <2> QED
    BY <1>1, <1>2, <2>3, <2>5, <2>6, Zenon
<1>9. \A q : q \in known <=> q \in K
  <2>1. type \in {"full", "swin", "slide_window_4x16x16"}
          => type = "full" \/ type = "swin" \/ type = "slide_window_4x16x16"
    OBVIOUS
  <2> QED
    BY <1>3, <1>5, <1>6, <1>7, <1>8, <2>1, Zenon
<1> QED
  <2>1. known = K
    <3>1. known \subseteq K /\ K \subseteq known
      BY <1>9, Zenon
    <3> QED
      BY <3>1, Zenon
  <2> QED
    BY <2>1, Zenon DEF K

\* What is known comes of the masks of the blocks that were passed: the
\* attention of a transformer, for any number of blocks and of windows.
THEOREM AttentionInvariant == AttentionSpec => []AttnInv
<1>1. AttentionInit => AttnInv
  BY DEF AttentionInit, AttnInv, Grid
<1>2. AttnInv /\ [AttentionNext]_attnvars => AttnInv'
  <2> SUFFICES ASSUME AttnInv, [AttentionNext]_attnvars PROVE AttnInv'
    OBVIOUS
  <2>1. ASSUME NEW type \in Types, NEW blocks \in Blocks, NEW t \in WindowsT,
               NEW h_ \in WindowsH, NEW w \in WindowsW,
               NEW n \in {0, TokensPerWindow, t * h_ * w * TokensPerWindow - 1},
               Forward(type, blocks, [t |-> t, h |-> h_, w |-> w], n)
        PROVE  AttnInv'
    <3> DEFINE g == [t |-> t, h |-> h_, w |-> w]
               mo == [type |-> type, blocks |-> blocks]
    <3>1. t \in Nat \ {0} /\ h_ \in Nat \ {0} /\ w \in Nat \ {0} /\ blocks \in Nat \ {0}
      BY AttentionAssumption
    <3>2. g.t = t /\ g.h = h_ /\ g.w = w /\ g \in [t : Nat, h : Nat, w : Nat]
      BY <3>1
    <3>3. mo.type = type /\ mo.blocks = blocks /\ mo \in [type : Types, blocks : Nat \ {0}]
      BY <3>1
    <3>4. /\ grid' = g /\ model' = mo /\ masks' = prepare_attention_mask(type, blocks)
          /\ done' = 0 /\ origin' = n /\ known' = {n} /\ ~ DividesByZero(type, blocks)
          /\ n < g.t * g.h * g.w * TokensPerWindow
      BY <2>1, Zenon DEF Forward
    <3>5. n \in Tokens'
      <4> DEFINE all == t * h_ * w * TokensPerWindow
      <4>1. TokensPerWindow \in Nat \ {0}
        BY SidesOfWindow
      <4>2. all \in Nat \ {0}
        <5> DEFINE th == t * h_
        <5>1. th \in Nat \ {0}
          BY <3>1, SMTT(30)
        <5> HIDE DEF th
        <5> DEFINE thw == th * w
        <5>2. thw \in Nat \ {0}
          BY <3>1, <5>1, SMTT(30)
        <5> HIDE DEF thw
        <5>3. thw * TokensPerWindow \in Nat \ {0}
          BY <4>1, <5>2, SMTT(30)
        <5> QED
          BY <5>3, Zenon DEF thw, th
      <4>3. n < all /\ n \in {0, TokensPerWindow, all - 1}
        BY <3>2, <3>4, Zenon
      <4>4. Tokens' = 0 .. (all - 1)
        BY <3>2, <3>4, Zenon DEF Tokens
      <4> HIDE DEF all
      <4>5. n \in 0 .. (all - 1)
        BY <4>1, <4>2, <4>3
      <4> QED
        BY <4>4, <4>5, Zenon
    <3>6. Grid' /\ Filled'
      <4>1. grid'.t = t /\ grid'.h = h_ /\ grid'.w = w /\ grid' \in [t : Nat, h : Nat, w : Nat]
        BY <3>2, <3>4, Zenon
      <4>2. t # 0 /\ h_ # 0 /\ w # 0
        BY <3>1
      <4> QED
        BY <4>1, <4>2, Zenon DEF Grid, Filled
    <3>7. model'.type = type /\ model'.blocks = blocks /\ model' \in [type : Types, blocks : Nat \ {0}]
      BY <3>3, <3>4, Zenon
    <3>8. known' = Known(model.type, model.blocks, done, origin)'
      BY <3>4, Zenon DEF Known
    <3>9. 0 \in 0 .. blocks
      BY <3>1
    <3>10. done' \in 0 .. model'.blocks /\ origin' \in Tokens'
           /\ masks' = prepare_attention_mask(model'.type, model'.blocks)
           /\ ~ DividesByZero(model'.type, model'.blocks)
      BY <3>4, <3>5, <3>7, <3>9, Zenon
    <3> QED
      BY <3>6, <3>7, <3>8, <3>10, Zenon DEF AttnInv
  <2>2. ASSUME Block PROVE AttnInv'
    <3> DEFINE type == model.type
               blocks == model.blocks
    <3>1. /\ Grid /\ Filled /\ model \in [type : Types, blocks : Nat \ {0}]
          /\ ~ DividesByZero(type, blocks) /\ masks = prepare_attention_mask(type, blocks)
          /\ done \in 0 .. blocks /\ origin \in Tokens
          /\ known = Known(type, blocks, done, origin)
      BY <2>2, Zenon DEF Block, AttnInv
    <3>2. /\ done < blocks /\ done' = done + 1
          /\ known' = Knowing(masks[done + 1][2], Knowing(masks[done + 1][1], known))
          /\ model' = model /\ grid' = grid /\ masks' = masks /\ origin' = origin
          /\ model # NoModel
      BY <2>2, Zenon DEF Block
    <3>3. type \in Types /\ blocks \in Nat \ {0}
      BY <3>1
    <3> HIDE DEF type, blocks
    <3>4. done \in 0 .. (blocks - 1) /\ done + 1 \in 0 .. blocks
      BY <3>1, <3>2, <3>3
    <3>5. Passes(type, blocks, done, origin)
      BY <3>1, <3>3, <3>4, BlocksPass
    <3>6. known' = Known(type, blocks, done + 1, origin)
      BY <3>1, <3>2, <3>5, Zenon DEF Passes, Passed
    <3>7. Tokens' = Tokens /\ \A ty, b, d, o : Known(ty, b, d, o)' = Known(ty, b, d, o)
      BY <3>2, GridKept
    <3>8. Known(model.type, model.blocks, done, origin)' = Known(type, blocks, done + 1, origin)
      BY <3>2, <3>7, Zenon DEF type, blocks
    <3>9. Grid' /\ Filled'
      BY <3>1, <3>2, Zenon DEF Grid, Filled
    <3> QED
      BY <3>1, <3>2, <3>4, <3>6, <3>7, <3>8, <3>9, Zenon DEF AttnInv, type, blocks
  <2>3. ASSUME ForwardEnds PROVE AttnInv'
    BY <2>3 DEF ForwardEnds, AttnInv, Grid
  <2>4. ASSUME UNCHANGED attnvars PROVE AttnInv'
    <3>1. /\ model' = model /\ grid' = grid /\ masks' = masks /\ done' = done
          /\ origin' = origin /\ known' = known
      BY <2>4 DEF attnvars
    <3>2. Tokens' = Tokens /\ \A ty, b, d, o : Known(ty, b, d, o)' = Known(ty, b, d, o)
      BY <3>1, GridKept
    <3>3. Known(model.type, model.blocks, done, origin)' = Known(model.type, model.blocks, done, origin)
      BY <3>1, <3>2, Zenon
    <3>4. Grid <=> Grid'
      BY <3>1, Zenon DEF Grid
    <3>5. Filled <=> Filled'
      BY <3>1, Zenon DEF Filled
    <3> QED
      BY <3>1, <3>2, <3>3, <3>4, <3>5, Zenon DEF AttnInv
  <2> QED
    BY <2>1, <2>2, <2>3, <2>4 DEF AttentionNext
<1> QED
  BY <1>1, <1>2, PTL DEF AttentionSpec

\* Every block has its masks, and a token is known exactly as far as its type
\* of attention promises: transformer_wan.py's masks, zipped with the blocks,
\* slide as often as they are named for and reach to the last block.
THEOREM AttentionReaches == AttentionSpec => []AttentionReach
<1>1. AttnInv => AttentionReach
  <2> SUFFICES ASSUME AttnInv, model # NoModel
               PROVE  /\ Len(masks) = model.blocks
                      /\ ~ (model.type = "swin" /\ done > 0 /\ done % 2 = 0) =>
                           known = {q \in Tokens : Knows(q)}
    BY Zenon DEF AttentionReach
  <2>1. Len(masks) = model.blocks
    <3> DEFINE type == model.type
               blocks == model.blocks
    <3>1. /\ Grid /\ Filled /\ model \in [type : Types, blocks : Nat \ {0}]
          /\ ~ DividesByZero(type, blocks) /\ masks = prepare_attention_mask(type, blocks)
          /\ origin \in Tokens
      BY Zenon DEF AttnInv
    <3>2. type \in Types /\ blocks \in Nat \ {0}
      BY <3>1
    <3> HIDE DEF type, blocks
    <3>3. 0 \in 0 .. (blocks - 1)
      BY <3>2
    <3>4. Passes(type, blocks, 0, origin)
      BY <3>1, <3>2, <3>3, BlocksPass
    <3> QED
      BY <3>1, <3>4, Zenon DEF Passes, blocks
  <2> QED
    BY <2>1, KnownIsKnows, Zenon
<1> QED
  BY <1>1, AttentionInvariant, PTL
=============================================================================
